SPECIFICATION StoreSpec
CONSTANTS
  NoSha = NoSha
  Buckets = {b1}
  Keys = {k1}
  Shas = {x}
  MaxID = 2
  Callers = {c1}
  Wired = TRUE
  RemoteSnapshots = {}
  Threads = {t1, t2}
  Ops = {"put", "get", "rmbucket"}
  DiskFails = FALSE
SYMMETRY StoreSymmetry
INVARIANT AckedPutRegistered
