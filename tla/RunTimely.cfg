\* Both sleeps are long enough.
SPECIFICATION FairSpec
CONSTANTS
  Data = {0, 1, 2}
  Inputs = {0, 1}
  WildData = {2}
  Add <- MCAdd
  Iterations = 2
  LineWords = 3
  MaxPending = 1
  HoldDrains = TRUE
  WaitCompletes = TRUE
INVARIANT AllPassed
PROPERTY Finishes
