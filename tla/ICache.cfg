\* Two of the three lines share a set; two of the three words are program.
SPECIFICATION FairSpec
CONSTANTS
  Insn <- MCInsn
  NumLines = 3
  NumSets = 2
  LineWords = 3
  Boot <- MCBoot
  Program <- MCProgram
INVARIANTS
  TypeOK
  WordsInPlace
  RunsTheProgram
PROPERTY AlwaysFetches
