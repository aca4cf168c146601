\* A page that changes, an origin that fails, files that cannot be opened.  An
\* origin that closes early differs from one that stalls only in how the reply
\* ends; closing after the last packet is always possible.
CONSTANTS
  Threads = {t1, t2}
  Urls <- QueryUrls
  Keys <- TwoKeys
  Buckets <- OneBucket
  KeyOf <- QueryKey
  BucketOf <- SameBucket
  Dynamic <- WithQuery
  Blocked = {}
  Parts <- Growing
  Answers = {"ok", "error", "bad", "stall"}
  OpenMayFail = TRUE
  MaxReq = 2
  None = None
SYMMETRY Symmetry
SPECIFICATION Spec
INVARIANTS
  TypeOK
  NoTornFile
  UniqueKeys
  NoUseAfterFree
  CachedOnDisk
  NothingLeaked
  RelayedInOrder
CHECK_DEADLOCK FALSE
