SPECIFICATION ListSpec
CONSTANTS
  b1 = b1  x = x
  NoSha = NoSha
  Buckets = {b1}
  Keys = {1, 2}
  Shas = {x}
  MaxID = 2
  Callers = {c1}
  Wired = TRUE
  RemoteSnapshots <- LeaderSnapshots
  KeyPrefixes <- AllKeys
  MaxKeys = {0, 1}
  PageLimit = 3
INVARIANTS TypeOK VersionsOrdered PagesSorted PagesComplete PagesTrue VersionsListed
