\* ready is 1, as riscv_example.sv has it.
SPECIFICATION FairSpec
CONSTANTS
  MaxStarts = 3
  ReadyIsDone = FALSE
PROPERTY PollEnds
