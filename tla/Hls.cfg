\* ready is done, as the comment and riscv_example.sv_org have it.
SPECIFICATION FairSpec
CONSTANTS
  MaxStarts = 3
  ReadyIsDone = TRUE
INVARIANTS
  OneRunPerStart
  NoPhantomDone
  RunInv
PROPERTIES
  PollEnds
  InterruptEnds
