\* An origin whose pages do not change and that always answers in full.
CONSTANTS
  Threads = {t1, t2, t3}
  Urls <- TwoUrls
  Keys <- TwoKeys
  Buckets <- OneBucket
  KeyOf <- OwnKey
  BucketOf <- SameBucket
  Dynamic = {}
  Blocked = {}
  Parts <- Stable
  Answers = {"ok"}
  OpenMayFail = FALSE
  MaxReq = 1
  None = None
SPECIFICATION FairSpec

  
PROPERTIES
  RequestsFinish
  ChainsOnlyGrow
  
