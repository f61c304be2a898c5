SPECIFICATION Spec
CONSTANTS
  NoSha = NoSha
  Buckets = {b1}
  Keys = {k1}
  Shas = {x}
  MaxID = 2
  Nodes = {n1, n2}
  Ops = {"mark"}
  MaxLog = 1
SYMMETRY NodeSymmetry
CHECK_DEADLOCK FALSE
INVARIANT Agreement
