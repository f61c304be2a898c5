SPECIFICATION MultipartSpec
CONSTANTS
  Threads = {t1, t2}
  Reaper = reaper
  Uploads = {u1}
  Parts = {1}
  Data = {1, 2}
  Size <- DataSize
  Lists <- OnePart
  Ops = {"new", "part", "complete", "abort", "reap", "rmbucket"}
  Wired = TRUE
  Faults = TRUE
  Crashes = TRUE
  MaxObjects = 1
SYMMETRY ThreadSymmetry
INVARIANTS MultipartTypeOK RecordedOnDisk ListedPartsAcked LocksReleased AssembledAsSent
