\* One get.
CONSTANTS
  Clients <- TwoClients
  Jobs <- OneGet
  Names <- FileNames
  Size <- Sizes
  BucketOf <- Buckets
  Before <- FPutBefore
  HdrLen = 3
  Base = 2
  Stopped = {0}
  MaxStops = 0
  None = None
SPECIFICATION Spec
INVARIANTS
  RemainingFetched
