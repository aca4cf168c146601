\* Bodies without a NUL byte, never closed early.
CONSTANTS
  BufSize = 4
  BlockSize = 2
  StatusSize = 2
  HeaderSize = 3
  Bodies <- TextBodies
  MayClose = FALSE
SPECIFICATION Spec
INVARIANTS
  CacheFileIsBody
CHECK_DEADLOCK FALSE
