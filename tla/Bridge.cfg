\* Resets at any command boundary; a memory system as slow as it likes, which
\* keeps accepting and answering.
SPECIFICATION FairSpec
CONSTANTS
  a1 = a1
  a2 = a2
  v1 = v1
  v2 = v2
  None = None
  Addr <- MCAddr
  Val <- MCVal
  MaxPending = 3
INVARIANTS
  TypeOK
  PendingExact
  InStep
PROPERTIES
  Stable
  LoadsSeeStores
  Accepted
