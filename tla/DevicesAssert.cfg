\* The result of mmap in XRiscv_Initialize.
SPECIFICATION Spec
CONSTANTS
  i1 = i1
  a1 = a1
  a2 = a2
  a3 = a3
  m1 = m1
  m2 = m2
  Name <- MCName
  UioDirs <- MCUioDirs
  Buffers <- MCBuffers
  NumFds = 3
  NumPages = 4
  Inst <- MCInst
  Alpha <- MCAlpha
  Acc <- MCAcc
  Mgr <- MCMgr
  UioSize = 1
INVARIANT ReadyIsMapped
