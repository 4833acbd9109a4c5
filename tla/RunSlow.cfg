\* The program may be slower than main()'s sleeps; the reset hold is long enough.
SPECIFICATION Spec
CONSTANTS
  Data = {0, 1, 2, 3}
  Inputs = {0, 1}
  WildData = {0, 3}
  Add <- MCAdd
  Iterations = 2
  LineWords = 4
  MaxPending = 2
  HoldDrains = TRUE
  WaitCompletes = FALSE
INVARIANTS
  TypeOK
  FreshResult
  AlignedRefill
  PendingExact
  CoherentLine
  IInv
PROPERTY OperandsOwnedByMain
