\* A page that grows while two threads fetch it.
CONSTANTS
  Threads = {t1, t2}
  Urls <- OneUrl
  Keys <- OneKey
  Buckets <- OneBucket
  KeyOf <- OnlyKey
  BucketOf <- OnlyBucket
  Dynamic = {}
  Blocked = {}
  Parts <- Growing
  Answers = {"ok"}
  OpenMayFail = FALSE
  MaxReq = 2
  None = None
SPECIFICATION Spec
INVARIANTS
  ContentLengthCorrect
