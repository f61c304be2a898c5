SPECIFICATION MultipartFairSpec
CONSTANTS
  Threads = {t1, t2}
  Reaper = reaper
  Uploads = {u1}
  Parts = {1}
  Data = {1}
  Size <- DataSize
  Lists <- OnePart
  Ops = {"new", "part", "abort", "list", "reap"}
  Wired = FALSE
  Faults = TRUE
  Crashes = FALSE
  MaxObjects = 1
PROPERTIES RequestsEnd StaleReaped
