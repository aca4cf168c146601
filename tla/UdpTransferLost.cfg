\* One datagram is lost.
CONSTANTS
  Names <- ThreeNames
  Bytes <- AllBytes
  RowLen = 2
  ClientFiles <- OfClient
  ServerFiles <- OfServer
  Modes <- OnlyLossy
  MaxCmds = 1
  MaxFaults = 1
  Zero = "0"
  NoRow = NoRow
  NoFile = NoFile
SPECIFICATION Spec
INVARIANTS
  NoCrash
CHECK_DEADLOCK FALSE
