\* A silent client, one that closes early, few descriptors, two SIGINTs.
CONSTANTS
  Threads = {t1, t2}
  Clients <- TwoClients
  Scenarios <- SomeScenarios
  Rude <- LastClient
  Files <- OfRoot
  Folders <- OneFolder
  BlockLen = 2
  FdLimit = 3
  NoClient = NoClient
  Silence = Silence
SPECIFICATION FairSpec
INVARIANTS
  TypeOK
  OneAcceptor
  NoWorkerAfterMain
  AnswersRight
PROPERTIES
  WorkersStay
  CleanExit
  ServedUnlessHindered
CHECK_DEADLOCK FALSE
