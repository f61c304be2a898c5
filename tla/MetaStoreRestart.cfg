SPECIFICATION Spec
CONSTANTS
  NoSha = NoSha
  Buckets = {b1}
  Keys = {k1}
  Shas = {x}
  MaxID = 1
  Callers = {c1}
  Wired = TRUE
  RemoteSnapshots = {}
INVARIANT PutsNeverPanic
