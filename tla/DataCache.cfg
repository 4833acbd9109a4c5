\* Two lines of two words in one of two sets, and a word of a device.
SPECIFICATION FairSpec
CONSTANTS
  A = A
  B = B
  io = io
  v1 = v1
  v2 = v2
  None = None
  CachedLine = {A, B}
  IoLine = {io}
  LastWord = 1
  LastSet = 1
  SetOfLine <- MCSetOfLine
  Val = {v1, v2}
  Instr <- MCInstr
  HostWord <- MCHostWord
  Mem0 <- MCMem0
  Word0 = v1
INVARIANTS
  TypeOK
  CacheInv
PROPERTIES
  InProgramOrder
  KeepsRetiring
