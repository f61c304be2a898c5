SPECIFICATION StoreSpec
CONSTANTS
  NoSha = NoSha
  Buckets = {b1}
  Keys = {k1}
  Shas = {x, y}
  MaxID = 2
  Callers = {c1}
  Wired = TRUE
  RemoteSnapshots = {}
  Threads = {t1}
  Ops = {"put", "del"}
  DiskFails = FALSE
SYMMETRY StoreSymmetry
INVARIANT DeletesOwnBlob
