\* Puts and gets at once; a server is stopped and started again.
CONSTANTS
  Clients <- TwoClients
  Jobs <- SomeJobs
  Names <- FileNames
  Size <- Sizes
  BucketOf <- Buckets
  Before <- FPutBefore
  HdrLen = 3
  Base = 2
  Stopped = {0}
  MaxStops = 1
  None = None
SPECIFICATION FairSpec
INVARIANTS
  TypeOK
  
  
  GotIsStored
  GetsFresh
  NodesHaveChunks
PROPERTIES
  EverythingEnds
