SPECIFICATION Spec
CONSTANTS
  NoSha = NoSha
  Buckets = {b1}
  Keys = {k1}
  Shas = {x}
  MaxID = 2
  Nodes = {n1, n2}
  Ops = {"mark", "bucket", "snapshot", "install", "restart"}
  MaxLog = 3
SYMMETRY NodeSymmetry
INVARIANTS ReplicationTypeOK CleanFollowsLog SnapshotsSound
PROPERTY ImplementsLog
