-------------------------- MODULE ICacheFill_proofs --------------------------
(***************************************************************************)
(* Proofs about ICacheFill, for every program, every size of line and      *)
(* cache and any number of reset pulses, wherever they cut a refill.       *)
(***************************************************************************)
EXTENDS ICacheFill, TLAPS

USE FillAssumption DEF Lines, Sets, Words, None

\* Lines fall into sets; words and their successors are words.
LEMMA Indices ==
  /\ \A l \in Lines : SetOf(l) \in Sets
  /\ \A w \in Words : NextWord(w) \in Words
  /\ 0 \in Lines /\ 0 \in Words /\ 0 \in Sets /\ None \notin Lines
BY DEF SetOf, NextWord

\* Writing one word of a table of lines keeps its type.
LEMMA WriteWord ==
  ASSUME NEW D, NEW f \in [D -> [Words -> Insn]], NEW d \in D, NEW w \in Words, NEW x \in Insn
  PROVE  [f EXCEPT ![d][w] = x] \in [D -> [Words -> Insn]]
OBVIOUS

\* A queue of bursts stays one when a burst joins or leaves it.
LEMMA BurstQueue ==
  ASSUME NEW q \in Seq(Lines)
  PROVE  /\ \A l \in Lines : Append(q, l) \in Seq(Lines)
         /\ q # <<>> => Head(q) \in Lines /\ Tail(q) \in Seq(Lines)
OBVIOUS

-----------------------------------------------------------------------------
\* Type correctness: the initial state.
LEMMA TypeInit == Init => TypeOK
<1> SUFFICES ASSUME Init PROVE TypeOK
  OBVIOUS
<1>1. Boot[0] \in [Words -> Insn]
  BY Indices
<1>2. bank \in [Sets -> [Words -> Insn]]
  BY <1>1 DEF Init
<1>3. tags \in [Sets -> Lines \cup {None}]
  BY DEF Init
<1>4. bursts \in Seq(Lines) /\ k \in 0 .. Len(Program) /\ flushCounter \in 0 .. NumSets
  BY DEF Init
<1> QED
  BY <1>2, <1>3, <1>4, Indices DEF Init, TypeOK

\* Type correctness: every step.
LEMMA TypeStep == ASSUME TypeOK, [Next]_vars PROVE TypeOK'
<1> USE DEF TypeOK
<1>1. CASE StoreProgram
  <2>1. Program[k + 1] \in Insn /\ k \in Words
    BY <1>1 DEF StoreProgram
  <2>2. imem' \in [Lines -> [Words -> Insn]]
    BY <1>1, <2>1, WriteWord, Indices DEF StoreProgram
  <2> QED
    BY <1>1, <2>2 DEF StoreProgram, loader, flush, memory
<1>2. CASE AssertReset
  BY <1>2, Indices DEF AssertReset, ResetCache, memory
<1>3. CASE ReleaseReset
  BY <1>3 DEF ReleaseReset, loader, flush, memory
<1>4. CASE Execute
  BY <1>4 DEF Execute, hostVars, loader, memory
<1>5. CASE Miss
  BY <1>5 DEF Miss, hostVars, flush, memory
<1>6. CASE Command
  BY <1>6, BurstQueue DEF Command, hostVars, flush
<1>7. CASE FlushStart
  <2>1. tags' \in [Sets -> Lines \cup {None}]
    <3>1. flushCounter < NumSets => flushCounter \in Sets
      OBVIOUS
    <3> QED
      BY <1>7, <3>1 DEF FlushStart
  <2>2. flushPending' \in BOOLEAN
    BY <1>7, Zenon DEF FlushStart
  <2>3. flushCounter' = 0 /\ 0 \in 0 .. NumSets
    BY <1>7 DEF FlushStart
  <2>4. UNCHANGED <<hostVars, pc, bank, cmdSent, wordIndex, memory>>
    BY <1>7 DEF FlushStart
  <2>5. lineValid' \in BOOLEAN /\ lineAddr' \in Lines /\ late' \in BOOLEAN
    BY <1>7 DEF FlushStart
  <2> QED
    BY <2>1, <2>2, <2>3, <2>4, <2>5 DEF hostVars, memory
<1>8. CASE FlushStep
  BY <1>8 DEF FlushStep, hostVars, loader, memory
<1>9. CASE Response
  <2>1. Head(bursts) \in Lines /\ Tail(bursts) \in Seq(Lines)
    BY <1>9, BurstQueue DEF Response
  <2>2. bank' \in [Sets -> [Words -> Insn]]
    <3>1. imem[Head(bursts)][beat] \in Insn /\ SetOf(lineAddr) \in Sets
      <4>1. imem[Head(bursts)] \in [Words -> Insn] /\ beat \in Words
        BY <2>1
      <4> QED
        BY <4>1, Indices
    <3> QED
      BY <1>9, <3>1, WriteWord DEF Response
  <2>3. beat' \in Words /\ wordIndex' \in Words /\ bursts' \in Seq(Lines)
    BY <1>9, <2>1, Indices DEF Response
  <2>4. lineValid' \in BOOLEAN /\ cmdSent' \in BOOLEAN
    BY <1>9 DEF Response, LineDone
  <2>5. tags' \in [Sets -> Lines \cup {None}]
    <3>1. SetOf(lineAddr) \in Sets
      BY Indices
    <3>2. flushCounter # NumSets => flushCounter \in Sets
      OBVIOUS
    <3>3. tags' = tags \/ tags' = [tags EXCEPT ![SetOf(lineAddr)] = lineAddr]
            \/ (flushCounter # NumSets /\ tags' = [tags EXCEPT ![flushCounter] = None])
      BY <1>9 DEF Response, LineDone
    <3> QED
      BY <3>1, <3>2, <3>3
  <2> QED
    BY <1>9, <2>2, <2>3, <2>4, <2>5 DEF Response, hostVars, flush
<1>10. CASE UNCHANGED vars
  BY <1>10 DEF vars, hostVars, loader, flush, memory
<1> QED
  BY <1>1, <1>2, <1>3, <1>4, <1>5, <1>6, <1>7, <1>8, <1>9, <1>10 DEF Next, main

-----------------------------------------------------------------------------
\* The reset line follows main(), and holds the loader.
LEMMA HeldStep == ASSUME TypeOK, HeldInReset, [Next]_vars PROVE HeldInReset'
<1> USE DEF TypeOK, HeldInReset
<1>1. CASE main
  BY <1>1 DEF main, StoreProgram, AssertReset, ReleaseReset, ResetCache, loader, flush
<1>2. CASE Execute
  BY <1>2 DEF Execute, Executable, Halted, hostVars, loader
<1>3. CASE Miss \/ Command
  BY <1>3 DEF Miss, Command, hostVars, flush
<1>4. CASE FlushStart \/ FlushStep
  BY <1>4 DEF FlushStart, FlushStep, hostVars, loader
<1>5. CASE Response
  BY <1>5 DEF Response, LineDone, hostVars, flush
<1>6. CASE UNCHANGED vars
  BY <1>6 DEF vars, hostVars, loader, flush
<1> QED
  BY <1>1, <1>2, <1>3, <1>4, <1>5, <1>6 DEF Next

\* The loader and the memory system agree on the burst that is on its way.
LEMMA BurstStep == ASSUME TypeOK, HeldInReset, OneBurst, [Next]_vars PROVE OneBurst'
<1> USE DEF TypeOK, HeldInReset, OneBurst
<1>1. CASE StoreProgram
  BY <1>1 DEF StoreProgram, loader, flush, memory
<1>2. CASE AssertReset
  BY <1>2 DEF AssertReset, ResetCache, memory
<1>3. CASE ReleaseReset
  BY <1>3 DEF ReleaseReset, loader, flush, memory
<1>4. CASE Execute
  BY <1>4 DEF Execute, Executable, Halted, hostVars, loader, memory
<1>5. CASE Miss
  BY <1>5 DEF Miss, Halted, hostVars, flush, memory
<1>6. CASE Command
  <2>1. reset_riscv = 0 /\ bursts = <<>> /\ wordIndex = 0 /\ beat = 0
    BY <1>6 DEF Command
  <2>2. bursts' = <<lineAddr>>
    BY <1>6, <2>1 DEF Command
  <2> QED
    BY <1>6, <2>1, <2>2 DEF Command, hostVars, flush
<1>7. CASE FlushStart
  <2>1. ~cmdSent' /\ (reset_riscv = 0 => bursts' = <<>> /\ wordIndex' = 0)
    BY <1>7 DEF FlushStart, hostVars, memory
  <2> QED
    BY <1>7, <2>1 DEF FlushStart, hostVars, memory
<1>8. CASE FlushStep
  BY <1>8 DEF FlushStep, hostVars, loader, memory
<1>9. CASE Response
  <2>1. CASE reset_riscv = 1
    <3>1. bursts' = <<>> => beat' = 0
      BY <1>9 DEF Response, NextWord
    <3> QED
      BY <1>9, <2>1, <3>1 DEF Response, hostVars, flush
  <2>2. CASE reset_riscv = 0
    <3>1. cmdSent /\ lineValid /\ bursts = <<lineAddr>> /\ beat = wordIndex
      BY <1>9, <2>2 DEF Response
    <3>2. beat' = wordIndex' /\ lineAddr' = lineAddr /\ reset_riscv' = 0
      BY <1>9, <2>2, <3>1 DEF Response, hostVars
    <3>3. CASE beat = LineWords - 1
      <4>1. bursts' = <<>> /\ beat' = 0
        BY <1>9, <3>1, <3>3 DEF Response, NextWord
      <4>2. ~lineValid' /\ ~cmdSent'
        BY <1>9, <2>2, <3>1, <3>3 DEF Response, LineDone
      <4> QED
        BY <3>2, <4>1, <4>2
    <3>4. CASE beat # LineWords - 1
      <4>1. bursts' = <<lineAddr>> /\ lineValid' /\ cmdSent'
        BY <1>9, <2>2, <3>1, <3>4 DEF Response, flush
      <4> QED
        BY <3>1, <3>2, <4>1
    <3> QED
      BY <3>3, <3>4
  <2> QED
    BY <2>1, <2>2
<1>10. CASE UNCHANGED vars
  BY <1>10 DEF vars, hostVars, loader, flush, memory
<1> QED
  BY <1>1, <1>2, <1>3, <1>4, <1>5, <1>6, <1>7, <1>8, <1>9, <1>10 DEF Next, main

-----------------------------------------------------------------------------
\* The sets a running flush has passed stay empty.
LEMMA EmptiedStep == ASSUME TypeOK, Emptied, [Next]_vars PROVE Emptied'
<1> USE DEF TypeOK, Emptied
<1>1. CASE main
  BY <1>1 DEF main, StoreProgram, AssertReset, ReleaseReset, flush
<1>2. CASE Execute \/ Miss \/ Command
  BY <1>2 DEF Execute, Miss, Command, flush
<1>3. CASE FlushStart
  BY <1>3 DEF FlushStart
<1>4. CASE FlushStep
  <2>1. flushCounter \in Sets /\ tags' = [tags EXCEPT ![flushCounter] = None]
        /\ flushCounter' = flushCounter + 1
    BY <1>4 DEF FlushStep
  <2>2. \A s \in Sets : s < flushCounter' => s = flushCounter \/ s < flushCounter
    BY <2>1
  <2> QED
    BY <2>1, <2>2
<1>5. CASE Response
  <2>1. flushCounter' = flushCounter
    BY <1>5 DEF Response, flush
  <2>2. flushCounter < NumSets => tags' = tags \/ tags' = [tags EXCEPT ![flushCounter] = None]
    BY <1>5 DEF Response, LineDone
  <2> QED
    BY <2>1, <2>2
<1>6. CASE UNCHANGED vars
  BY <1>6 DEF vars, flush
<1> QED
  BY <1>1, <1>2, <1>3, <1>4, <1>5, <1>6 DEF Next

\* What the flush has passed stays true, and so do the words filled so far.
LEMMA CleanStep ==
  ASSUME TypeOK, HeldInReset, OneBurst, Emptied, CleanLines, [Next]_vars
  PROVE  CleanLines'
<1> USE DEF TypeOK, HeldInReset, OneBurst, CleanLines
<1>1. CASE StoreProgram \/ AssertReset
  BY <1>1 DEF StoreProgram, AssertReset
<1>2. CASE ReleaseReset
  BY <1>2 DEF ReleaseReset, loader, flush
<1>3. CASE Execute
  BY <1>3 DEF Execute, Executable, Halted, hostVars, loader
<1>4. CASE Miss
  <2>1. reset_riscv = 0 /\ ~cmdSent /\ wordIndex = 0 /\ ~lineValid
    BY <1>4 DEF Miss, Halted
  <2> QED
    BY <1>4, <2>1 DEF Miss, hostVars, flush
<1>5. CASE Command
  BY <1>5 DEF Command, hostVars, flush
<1>6. CASE FlushStart
  <2> SUFFICES ASSUME hpc = "run" PROVE CleanLines'
    BY <1>6 DEF FlushStart, hostVars
  <2>1. flushCounter' = 0 /\ wordIndex' = 0
    BY <1>6 DEF FlushStart
  <2> QED
    BY <2>1
<1>7. CASE FlushStep
  <2> SUFFICES ASSUME hpc = "run" PROVE CleanLines'
    BY <1>7 DEF FlushStep, hostVars
  <2>1. /\ flushCounter \in Sets
        /\ tags' = [tags EXCEPT ![flushCounter] = None] /\ flushCounter' = flushCounter + 1
        /\ UNCHANGED <<hpc, imem, bank, flushPending, lineValid, lineAddr, wordIndex>>
    BY <1>7 DEF FlushStep, hostVars, loader
  <2>2. ASSUME NEW s \in Sets, s < flushCounter' PROVE tags'[s] = None
    <3>1. s = flushCounter \/ s < flushCounter
      BY <2>1, <2>2
    <3>2. s < flushCounter => tags[s] = None
      BY <2>1 DEF Emptied
    <3> QED
      BY <2>1, <3>1, <3>2
  <2> QED
    BY <2>1, <2>2
<1>8. CASE UNCHANGED vars
  BY <1>8 DEF vars, hostVars, loader, flush
<1>9. CASE Response
  <2> SUFFICES ASSUME hpc = "run" PROVE CleanLines'
    BY <1>9 DEF Response, hostVars
  <2>1. /\ reset_riscv = 0 /\ lineValid /\ cmdSent
        /\ Head(bursts) = lineAddr /\ beat = wordIndex
    BY <1>9 DEF Response
  <2>2. SetOf(lineAddr) \in Sets
    BY Indices
  <2>3. bank' = [bank EXCEPT ![SetOf(lineAddr)][wordIndex] = imem[lineAddr][wordIndex]]
    BY <1>9, <2>1 DEF Response
  <2>4. \A s \in Sets : s # SetOf(lineAddr) => bank'[s] = bank[s]
    BY <2>2, <2>3
  <2>5. \A w \in Words : w <= wordIndex => bank'[SetOf(lineAddr)][w] = imem[lineAddr][w]
    BY <2>1, <2>2, <2>3
  <2>6. UNCHANGED <<hpc, imem, reset_riscv, lineAddr, flushPending, flushCounter>>
    BY <1>9 DEF Response, hostVars, flush
  <2>7. CASE wordIndex # LineWords - 1
    <3>1. UNCHANGED <<tags, lineValid>> /\ wordIndex' = wordIndex + 1
      BY <1>9, <2>1, <2>7 DEF Response, NextWord
    <3> QED
      BY <2>1, <2>4, <2>5, <2>6, <3>1
  <2>8. CASE wordIndex = LineWords - 1 /\ flushCounter < NumSets
    <3>1. ~lineValid' /\ tags' = [tags EXCEPT ![flushCounter] = None]
      BY <1>9, <2>1, <2>8 DEF Response, LineDone
    <3>2. \A s \in Sets : s < flushCounter => tags'[s] = None
      BY <2>8, <3>1 DEF Emptied
    <3> QED
      BY <2>6, <3>1, <3>2
  <2>9. CASE wordIndex = LineWords - 1 /\ flushCounter = NumSets
    <3>1. ~lineValid' /\ tags' = [tags EXCEPT ![SetOf(lineAddr)] = lineAddr]
      BY <1>9, <2>1, <2>9 DEF Response, LineDone
    <3>2. bank'[SetOf(lineAddr)] = imem[lineAddr]
      <4>1. \A w \in Words : bank'[SetOf(lineAddr)][w] = imem[lineAddr][w]
        BY <2>5, <2>9
      <4>2. bank'[SetOf(lineAddr)] \in [Words -> Insn] /\ imem[lineAddr] \in [Words -> Insn]
        <5>1. imem[lineAddr][wordIndex] \in Insn
          OBVIOUS
        <5> QED
          BY <2>2, <2>3, <5>1, WriteWord
      <4> QED
        BY <4>1, <4>2
    <3> QED
      BY <2>1, <2>2, <2>4, <2>6, <3>1, <3>2
  <2> QED
    BY <2>7, <2>8, <2>9
<1> QED
  BY <1>1, <1>2, <1>3, <1>4, <1>5, <1>6, <1>7, <1>8, <1>9 DEF Next, main

-----------------------------------------------------------------------------
\* The initial state satisfies the whole invariant.
LEMMA FillInit == Init => FillInv
<1> SUFFICES ASSUME Init PROVE FillInv
  OBVIOUS
<1>1. TypeOK
  BY TypeInit
<1>2. HeldInReset /\ OneBurst /\ Emptied /\ CleanLines
  BY DEF Init, HeldInReset, OneBurst, Emptied, CleanLines
<1> QED
  BY <1>1, <1>2 DEF FillInv

\* Every variable of the instruction side keeps its type.
THEOREM FillTypes == Spec => []TypeOK
<1>1. TypeOK /\ [Next]_vars => TypeOK'
  BY TypeStep
<1> QED
  BY TypeInit, <1>1, PTL DEF Spec

\* The strengthened invariant holds in every reachable state.
THEOREM FillInvariance == Spec => []FillInv
<1>1. FillInv /\ [Next]_vars => FillInv'
  BY TypeStep, HeldStep, BurstStep, EmptiedStep, CleanStep DEF FillInv
<1> QED
  BY FillInit, <1>1, PTL DEF Spec

\* Every response word that comes to a running core belongs to the refill in
\* progress, however often a reset cut one before (VexRiscvSignate.v:17598).
THEOREM WordsStayInPlace == Spec => []WordsInPlace
<1>1. FillInv => WordsInPlace
  BY DEF FillInv, HeldInReset, OneBurst, WordsInPlace
<1> QED
  BY FillInvariance, <1>1, PTL

\* After the first reset pulse the core executes what main() stored
\* (test5.cpp:69-83), for every program, every size of line and cache.
THEOREM ProgramRuns == Spec => []RunsTheProgram
<1>1. FillInv => RunsTheProgram
  <2> SUFFICES ASSUME FillInv, hpc = "run", Executable PROVE bank[SetOf(pc)] = imem[pc]
    BY DEF RunsTheProgram
  <2>1. ~lineValid /\ ~flushPending /\ flushCounter = NumSets /\ tags[SetOf(pc)] = pc
    BY DEF Executable, Halted, Hit, FillInv, TypeOK
  <2>2. pc \in Lines /\ SetOf(pc) \in Sets
    BY Indices DEF FillInv, TypeOK
  <2>3. \A s \in Sets : s < flushCounter /\ tags[s] # None /\ ~(lineValid /\ s = SetOf(lineAddr))
          => bank[s] = imem[tags[s]]
    BY <2>1 DEF FillInv, CleanLines
  <2>4. SetOf(pc) < NumSets /\ pc # None
    BY <2>2
  <2> QED
    BY <2>1, <2>2, <2>3, <2>4
<1> QED
  BY FillInvariance, <1>1, PTL
=============================================================================
