\* Datagrams are lost, and overtaken or not, or lost, duplicated and late.
CONSTANTS
  Names <- ThreeNames
  Bytes <- AllBytes
  RowLen = 2
  ClientFiles <- OfClient
  ServerFiles <- OfServer
  Modes <- AllModes
  MaxCmds = 3
  MaxFaults = 2
  Zero = "0"
  NoRow = NoRow
  NoFile = NoFile
SPECIFICATION FairSpec
INVARIANTS
  TypeOK
  
  FailsForAReason
  RowsOfOneFile
PROPERTIES
  CommandsEnd
  ServerReturns
  CopySpec
CHECK_DEADLOCK FALSE
