\* Every way to cut up short responses, some closed early.
CONSTANTS
  BufSize = 4
  BlockSize = 2
  StatusSize = 2
  HeaderSize = 3
  Bodies <- AllBodies
  MayClose = TRUE
SPECIFICATION Spec
INVARIANTS
  TypeOK
  RelayedFaithfully
  OnePieceServedExactly
CHECK_DEADLOCK FALSE
