\* One DataType and every unit left to its default.
SPECIFICATION Spec
CONSTANTS
  MemSize = 17
  BufSize = 12
  Mem0 <- MCMem0
  Buf0 <- MCBuf0
  WordSizes = {2}
  Tags = {200, 201}
  Regs = {0, 1}
  Addrs = {0, 1}
  Units = {}
  Images = {}
  MaxMade = 2
  MaxOps = 2
INVARIANTS
  WordAddressing
CHECK_DEADLOCK FALSE
