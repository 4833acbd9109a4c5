\* Three passes of the LED loop; the timer as fast or slow as it likes.
SPECIFICATION FairSpec
CONSTANTS
  Blinks = 3
  Junk = junk
  CpuData = cpu
  DmaData = out
INVARIANTS
  TypeOK
  ReportsInOrder
  OneMatchPerPhase
  TestInv
PROPERTY BlinksToTheEnd
