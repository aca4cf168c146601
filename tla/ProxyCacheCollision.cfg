\* Two pages whose names are equally long.
CONSTANTS
  Threads = {t1, t2}
  Urls <- TwinUrls
  Keys <- OneKey
  Buckets <- OneBucket
  KeyOf <- TwinKey
  BucketOf <- OnlyBucket
  Dynamic = {}
  Blocked = {}
  Parts <- Stable
  Answers = {"ok"}
  OpenMayFail = FALSE
  MaxReq = 2
  None = None
SPECIFICATION Spec
INVARIANTS
  CachedReplyIsRequestedPage
