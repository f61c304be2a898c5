SPECIFICATION MultipartFairSpec
CONSTANTS
  Threads = {t1, t2}
  Reaper = reaper
  Uploads = {u1}
  Parts = {1}
  Data = {1}
  Size <- DataSize
  Lists <- OnePart
  Ops = {"new", "part", "complete", "reap"}
  Wired = FALSE
  Faults = FALSE
  Crashes = FALSE
  MaxObjects = 1
CHECK_DEADLOCK FALSE
PROPERTY StaleReaped
