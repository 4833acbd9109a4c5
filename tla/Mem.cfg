\* Two calls through an accessor made from another: stores and images.
SPECIFICATION Spec
CONSTANTS
  MemSize = 17
  BufSize = 12
  Mem0 <- MCMem0
  Buf0 <- MCBuf0
  WordSizes = {1, 2}
  Tags = {200, 201}
  Regs = {0, 1}
  Addrs = {0, 1}
  Units = {0, 1, 4}
  Images <- MCImages
  MaxMade = 2
  MaxOps = 2
INVARIANTS
  RegistersAreWords
  CopiesPixels
CHECK_DEADLOCK FALSE
