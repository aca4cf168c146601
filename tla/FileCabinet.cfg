\* Two files in one drawer, one name the beginning of the other.
CONSTANTS
  Threads = {t1, t2}
  Names <- TwoNames
  Drawers <- TwoDrawers
  DrawerOf <- OneDrawer
  Extensions <- SecondIsLonger
  MaxPuts = 2
  MaxGets = 2
  None = None
SPECIFICATION FairSpec
INVARIANTS
  TypeOK
  NoTornChunk
  StoredIsListed
PROPERTIES
  SiblingsStay
  RequestsEnd
CHECK_DEADLOCK FALSE
