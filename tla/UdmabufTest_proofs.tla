------------------------- MODULE UdmabufTest_proofs -------------------------
(***************************************************************************)
(* Proofs about UdmabufTest: the LED loop waits for every timer interrupt  *)
(* once, for any number of passes.                                         *)
(***************************************************************************)
EXTENDS UdmabufTest, TLAPS

Inv == IrqTypes /\ IrqInv

\* Power-up and every state an earlier run may have left satisfy the invariant.
LEMMA UInit == Init => Inv
<1> SUFFICES ASSUME Init PROVE Inv
  OBVIOUS
<1>1. IrqTypes
  <2>1. matches \in Nat
    BY DEF Init
  <2> QED
    BY <2>1 DEF Init, IrqTypes
<1>2. pc = "cpu0" /\ phases = 0
  BY DEF Init
<1>3. IrqInv
  BY <1>2 DEF IrqInv, Covered
<1> QED
  BY <1>1, <1>3 DEF Inv

\* The steps that only move the buffer test on leave the interrupts alone.
LEMMA UBuffer ==
  ASSUME Inv, UNCHANGED <<irqVars, counts>>, pc' # pc => pc' \in DmaPCs \cup {"timer"} /\ pc \in DmaPCs
  PROVE  Inv'
<1>1. CASE pc' = pc
  BY <1>1 DEF Inv, IrqTypes, IrqInv, Covered, irqVars, counts
<1>2. CASE pc' # pc
  BY <1>2 DEF Inv, IrqTypes, IrqInv, Covered, irqVars, counts, DmaPCs
<1> QED
  BY <1>1, <1>2

\* The steps that only move the LED loop on.
LEMMA UMove ==
  ASSUME Inv, UNCHANGED <<level, irqOn, events, seen, counts, running>>, led' \in {0, 1},
         pc \in {"on", "off", "next"},
         pc' \in {"on", "enable1", "enable2", "end"}
  PROVE  Inv'
  BY DEF Inv, IrqTypes, IrqInv, Covered, counts, DmaPCs

\* Starting the timer.
LEMMA UStart == ASSUME Inv, StartTimer PROVE Inv'
<1> USE DEF Inv, StartTimer, Goto, counts
<1>1. IrqTypes'
  BY DEF IrqTypes
<1>2. phases' = 0 /\ pc' = "on"
  BY DEF IrqInv
<1>3. IrqInv'
  BY <1>2 DEF IrqInv, Covered, DmaPCs
<1> QED
  BY <1>1, <1>3

\* Opening the gate at the head of a wait.
LEMMA UEnable ==
  ASSUME Inv, NEW at \in {"enable1", "enable2"}, NEW next \in {"irq1", "irq2"}, SetIrqEnable(at, next)
  PROVE  Inv'
<1> USE DEF Inv, SetIrqEnable, Goto
<1>1. IrqTypes'
  BY DEF IrqTypes
<1>2. IrqInv'
  <2>1. CASE phases = 0
    <3>1. ~early' => ~level /\ events = seen
      BY <2>1
    <3>2. phases' = 0 /\ pc' \in {"irq1", "irq2"} /\ matches' \in Nat
      BY <2>1, <1>1 DEF IrqTypes
    <3>3. ~early' => ~level' /\ events' = seen'
      BY <3>1
    <3> QED
      BY <3>2, <3>3 DEF IrqInv, Covered, DmaPCs
  <2>2. CASE phases # 0
    BY <2>2 DEF IrqTypes, IrqInv, Covered, DmaPCs
  <2> QED
    BY <2>1, <2>2
<1> QED
  BY <1>1, <1>2

\* The end of a wait.
LEMMA UWait ==
  ASSUME Inv, NEW at \in {"irq1", "irq2"}, NEW next \in {"clear1", "clear2"}, WaitIrq(at, next)
  PROVE  Inv'
  BY DEF Inv, WaitIrq, Goto, IrqTypes, IrqInv, Covered, DmaPCs

\* Clearing the line.
LEMMA UClear ==
  ASSUME Inv, NEW at \in {"clear1", "clear2"}, NEW next \in {"off", "next"}, ClearIrq(at, next)
  PROVE  Inv'
<1> USE DEF Inv, ClearIrq, Goto, counts
<1>1. IrqTypes'
  BY DEF IrqTypes
<1>2. ~early => ~irqOn /\ events = seen /\ phases <= matches
  BY DEF IrqInv, Covered
<1>3. ~early' => ~irqOn' /\ events' = seen' /\ phases' <= matches'
  BY <1>2
<1>4. ~level' /\ pc' \in {"off", "next"} /\ phases' \in Nat
  BY <1>1 DEF IrqTypes
<1>5. IrqInv'
  BY <1>3, <1>4 DEF IrqInv, Covered, DmaPCs
<1> QED
  BY <1>1, <1>5

\* The timer raises its line.
LEMMA UMatch == ASSUME Inv, Match PROVE Inv'
<1> USE DEF Inv, Match
<1>1. IrqTypes'
  <2>1. matches' \in Nat
    BY DEF IrqTypes
  <2> QED
    BY <2>1, Zenon DEF IrqTypes
<1>2. IrqInv'
  BY DEF IrqTypes, IrqInv, Covered, DmaPCs
<1> QED
  BY <1>1, <1>2

\* The kernel counts it.
LEMMA UHandler == ASSUME Inv, Handler PROVE Inv'
<1> USE DEF Inv, Handler, counts
<1>1. IrqTypes'
  <2>1. events' \in Nat
    BY DEF IrqTypes
  <2>2. irqOn' \in BOOLEAN /\ UNCHANGED <<led, running, level, early, seen, matches, phases>>
    OBVIOUS
  <2> QED
    BY <2>1, <2>2, Zenon DEF IrqTypes
<1>2. IrqInv'
  BY DEF IrqTypes, IrqInv, Covered, DmaPCs
<1> QED
  BY <1>1, <1>2

\* Every step keeps the invariant.
LEMMA UStep == Inv /\ [Next]_vars => Inv'
<1> SUFFICES ASSUME Inv, [Next]_vars PROVE Inv'
  OBVIOUS
<1>1. CASE DmaTests
  <2>1. UNCHANGED <<irqVars, counts>> /\ pc \in DmaPCs /\ pc' \in DmaPCs \cup {"timer"}
    BY <1>1 DEF DmaTests, CpuWrite, Show, Start, Wait, ShowRdata, Goto, DmaPCs
  <2> QED
    BY <2>1, UBuffer
<1>2. CASE LedTest
  <2>1. CASE StartTimer
    BY <2>1, UStart
  <2>2. ASSUME NEW v \in {0, 1}, NEW at \in {"on", "off"}, NEW next \in {"enable1", "enable2"},
               SetLed(v, at, next)
        PROVE  Inv'
    <3>1. UNCHANGED <<level, irqOn, events, seen, counts, running>> /\ led' \in {0, 1}
      BY <2>2 DEF SetLed
    <3>2. pc \in {"on", "off", "next"} /\ pc' \in {"on", "enable1", "enable2", "end"}
      BY <2>2 DEF SetLed, Goto
    <3> QED
      BY <3>1, <3>2, UMove
  <2>3. CASE NextBlink
    <3>1. UNCHANGED <<level, irqOn, events, seen, counts, running>> /\ led' \in {0, 1}
      BY <2>3 DEF NextBlink, irqVars, Inv, IrqTypes
    <3>2. pc \in {"on", "off", "next"} /\ pc' \in {"on", "enable1", "enable2", "end"}
      BY <2>3 DEF NextBlink, Goto
    <3> QED
      BY <3>1, <3>2, UMove
  <2> QED
    BY <1>2, <2>1, <2>2, <2>3, UEnable, UWait, UClear DEF LedTest
<1>3. CASE \E d \in {0, 1} : DmaStep(d)
  <2>1. UNCHANGED <<pc, irqVars, counts>>
    BY <1>3 DEF DmaStep
  <2> QED
    BY <2>1, UBuffer
<1>4. CASE Match
  BY <1>4, UMatch
<1>5. CASE Handler
  BY <1>5, UHandler
<1>6. CASE UNCHANGED vars
  BY <1>6, UBuffer DEF vars
<1> QED
  BY <1>1, <1>2, <1>3, <1>4, <1>5, <1>6 DEF Next, Ended

\* The invariant holds in every state.
THEOREM IrqInvariant == Spec => []Inv
  BY UInit, UStep, PTL DEF Spec

\* No LED phase ends on an interrupt that has been waited for already, for any
\* number of passes (main.cpp:146-164).
THEOREM OnePhasePerInterrupt == Spec => []OneMatchPerPhase
<1>1. Inv => OneMatchPerPhase
  <2> SUFFICES ASSUME Inv, ~early PROVE phases <= matches
    BY DEF OneMatchPerPhase
  <2>1. Covered /\ phases \in Nat /\ matches \in Nat
    BY DEF Inv, IrqInv, IrqTypes
  <2> QED
    BY <2>1 DEF Covered
<1> QED
  BY <1>1, IrqInvariant, PTL

-----------------------------------------------------------------------------
(* The transfers: what the buffer, the cores' copies and the reports hold at *)
(* each point of main().                                                     *)

\* Types of main()'s and the cores' variables.
RunTypes ==
  /\ pc \in DmaPCs \cup LedPCs /\ i \in 0 .. Blinks
  /\ buf \in [1 .. 2 -> Contents]
  /\ dma \in [{0, 1} -> [op : {"idle", "read", "write"}, k : 0 .. 3, rdata : [1 .. 2 -> Contents]]]
  /\ report \in Seq([1 .. 2 -> Contents])

DmaInv == RunTypes /\ LoopInv /\ BufferIs /\ CopyIs /\ Printed /\ ReportsInOrder

\* The reports main() should print, one by one.
LEMMA ExpectedIs ==
  /\ \A k \in {1, 2, 3} : Expected[k] = <<CpuData, CpuData>>
  /\ \A k \in {4, 5} : Expected[k] = <<DmaData, DmaData>>
  BY DEF Expected

\* The test starts with nothing printed and both cores idle.
LEMMA DInit == Init => DmaInv
<1> SUFFICES ASSUME Init PROVE DmaInv
  OBVIOUS
<1> USE DEF Init, Idle, Contents
<1>1. RunTypes
  <2>1. <<Junk, Junk>> \in [1 .. 2 -> Contents]
    OBVIOUS
  <2>2. buf \in [1 .. 2 -> Contents]
    BY <2>1
  <2>3. dma \in [{0, 1} -> [op : {"idle", "read", "write"}, k : 0 .. 3, rdata : [1 .. 2 -> Contents]]]
    BY <2>1
  <2>4. pc \in DmaPCs \cup LedPCs /\ i \in 0 .. Blinks /\ report \in Seq([1 .. 2 -> Contents])
    BY TestAssumption DEF DmaPCs
  <2> QED
    BY <2>2, <2>3, <2>4 DEF RunTypes
<1>2. pc = "cpu0" /\ i = 0 /\ report = <<>> /\ \A d \in {0, 1} : dma[d].op = "idle"
  OBVIOUS
<1>3. LoopInv /\ BufferIs /\ CopyIs /\ Printed
  BY <1>2 DEF LoopInv, BufferIs, CopyIs, Printed, LedPCs
<1>4. ReportsInOrder
  BY <1>2 DEF ReportsInOrder
<1> QED
  BY <1>1, <1>3, <1>4 DEF DmaInv

\* main() writes a word.
LEMMA DCpuWrite == ASSUME DmaInv, CpuWrite PROVE DmaInv'
<1> USE DEF DmaInv, CpuWrite, Goto
<1>1. buf' \in [1 .. 2 -> Contents]
  BY DEF RunTypes, Contents
<1>2. UNCHANGED <<i, dma, report>>
  OBVIOUS
<1>3. \/ pc = "cpu0" /\ pc' = "cpu1" /\ buf'[1] = CpuData
      \/ pc = "cpu1" /\ pc' = "show1" /\ buf' = <<CpuData, CpuData>>
  BY DEF RunTypes, BufferIs
<1>4. RunTypes'
  BY <1>1, <1>2, <1>3 DEF RunTypes, DmaPCs
<1>5. LoopInv'
  BY <1>2, <1>3 DEF LoopInv, DmaPCs, LedPCs
<1>6. BufferIs' /\ CopyIs'
  BY <1>3, ExpectedIs DEF BufferIs, CopyIs
<1>7. Printed' /\ ReportsInOrder'
  BY <1>2, <1>3 DEF Printed, ReportsInOrder
<1> QED
  BY <1>4, <1>5, <1>6, <1>7

\* One more report, the one that is due, keeps the reports in order.
LEMMA DPrint ==
  ASSUME RunTypes, ReportsInOrder, NEW x \in [1 .. 2 -> Contents],
         Len(report) < 5, x = Expected[Len(report) + 1], report' = Append(report, x)
  PROVE  /\ report' \in Seq([1 .. 2 -> Contents]) /\ Len(report') = Len(report) + 1
         /\ ReportsInOrder'
<1>1. report \in Seq([1 .. 2 -> Contents]) /\ Len(report) \in Nat
  BY DEF RunTypes
<1>2. /\ report' \in Seq([1 .. 2 -> Contents]) /\ Len(report') = Len(report) + 1
      /\ \A k \in 1 .. Len(report) : report'[k] = report[k]
      /\ report'[Len(report) + 1] = x
  BY <1>1
<1>3. ASSUME NEW k \in 1 .. Len(report') PROVE report'[k] = Expected[k]
  <2>1. k \in 1 .. Len(report) \/ k = Len(report) + 1
    BY <1>1, <1>2
  <2> QED
    BY <1>2, <2>1 DEF ReportsInOrder
<1> QED
  BY <1>1, <1>2, <1>3 DEF ReportsInOrder

\* main() prints the buffer, complete, first as it wrote it and then as core 1 did.
LEMMA DShow ==
  ASSUME DmaInv, \/ pc = "show1" /\ pc' = "read0"
                 \/ pc = "show2" /\ pc' = "read2",
         report' = Append(report, buf), UNCHANGED <<i, buf, dma>>
  PROVE  DmaInv'
<1> USE DEF DmaInv
<1>1. \/ pc = "show1" /\ pc' = "read0" /\ Len(report) = 0
      \/ pc = "show2" /\ pc' = "read2" /\ Len(report) = 3
  BY DEF Printed
<1>2. UNCHANGED <<i, buf, dma>> /\ buf \in [1 .. 2 -> Contents]
  BY DEF RunTypes
<1>3. buf = Expected[Len(report) + 1]
  <2>1. CASE pc = "show1" /\ Len(report) = 0
    <3>1. buf = Expected[1]
      BY <2>1 DEF BufferIs
    <3> QED
      BY <2>1, <3>1
  <2>2. CASE pc = "show2" /\ Len(report) = 3
    <3>1. buf = Expected[4]
      BY <2>2 DEF BufferIs
    <3> QED
      BY <2>2, <3>1
  <2> QED
    BY <1>1, <2>1, <2>2
<1>4. /\ report' \in Seq([1 .. 2 -> Contents]) /\ Len(report') = Len(report) + 1 /\ ReportsInOrder'
  <2>1. CASE Len(report) = 0
    BY <1>2, <1>3, <2>1, DPrint
  <2>2. CASE Len(report) = 3
    BY <1>2, <1>3, <2>2, DPrint
  <2> QED
    BY <1>1, <2>1, <2>2
<1>5. RunTypes'
  BY <1>1, <1>2, <1>4 DEF RunTypes, DmaPCs
<1>6. LoopInv'
  BY <1>1, <1>2 DEF LoopInv, DmaPCs, LedPCs
<1>7. BufferIs'
  BY <1>1, <1>2 DEF BufferIs
<1>8. CopyIs'
  BY <1>1, <1>2 DEF CopyIs
<1>9. Printed'
  <2>1. CASE pc = "show1" /\ pc' = "read0" /\ Len(report) = 0
    <3>1. Len(report') = 1
      BY <2>1, <1>4
    <3> QED
      BY <2>1, <3>1 DEF Printed
  <2>2. CASE pc = "show2" /\ pc' = "read2" /\ Len(report) = 3
    <3>1. Len(report') = 4
      BY <2>2, <1>4
    <3> QED
      BY <2>2, <3>1 DEF Printed
  <2> QED
    BY <1>1, <2>1, <2>2
<1> QED
  BY <1>4, <1>5, <1>6, <1>7, <1>8, <1>9

\* main() starts a core; both are idle.
LEMMA DStart ==
  ASSUME DmaInv, NEW d \in {0, 1}, NEW op \in {"read", "write"},
         \/ d = 0 /\ op = "read" /\ pc = "read0" /\ pc' = "wait0"
         \/ d = 1 /\ op = "read" /\ pc = "read1" /\ pc' = "wait1"
         \/ d = 1 /\ op = "write" /\ pc = "write1" /\ pc' = "wait2"
         \/ d = 0 /\ op = "read" /\ pc = "read2" /\ pc' = "wait3",
         dma' = [dma EXCEPT ![d].op = op, ![d].k = 1], UNCHANGED <<i, buf, report>>
  PROVE  DmaInv'
<1> USE DEF DmaInv
<1>1. UNCHANGED <<i, buf, report>> /\ pc \in {"read0", "read1", "write1", "read2"}
  OBVIOUS
<1>2. RunTypes'
  <2>1. dma' \in [{0, 1} -> [op : {"idle", "read", "write"}, k : 0 .. 3, rdata : [1 .. 2 -> Contents]]]
    BY <1>1 DEF RunTypes
  <2> QED
    BY <1>1, <2>1 DEF RunTypes, DmaPCs
<1>3. dma'[d].op = op /\ dma'[d].k = 1 /\ dma'[1 - d] = dma[1 - d]
  BY <1>1 DEF RunTypes
<1>4. \A e \in {0, 1} : dma[e].op = "idle"
  BY <1>1 DEF LoopInv
<1>5. LoopInv'
  <2>1. ASSUME NEW e \in {0, 1}, dma'[e].op # "idle" PROVE e = d
    BY <1>3, <1>4, <2>1
  <2>2. pc' \notin LedPCs /\ (pc' \in DmaPCs => i = 0)
    BY <1>1 DEF DmaPCs, LedPCs, LoopInv
  <2>3. <<pc', d, op>> \in {<<"wait0", 0, "read">>, <<"wait1", 1, "read">>,
                            <<"wait2", 1, "write">>, <<"wait3", 0, "read">>}
    BY <1>1
  <2>4. pc' # "timer"
    BY <1>1
  <2> QED
    BY <1>1, <1>3, <2>1, <2>2, <2>3, <2>4 DEF LoopInv
<1>6. BufferIs'
  <2>1. pc' = "wait2" => dma'[1].op = "write" /\ dma'[1].k = 1
    BY <1>1, <1>3
  <2>2. pc' = "wait2" => \A j \in {1, 2} : ~(dma'[1].op = "idle" \/ j < dma'[1].k)
    BY <2>1
  <2>3. pc' # "wait2" => \/ pc \in {"read0", "read1"} /\ pc' \in {"wait0", "wait1"}
                         \/ pc = "read2" /\ pc' = "wait3"
    OBVIOUS
  <2> QED
    BY <1>1, <2>2, <2>3 DEF BufferIs
<1>7. CopyIs'
  <2>1. pc' \in {"wait0", "wait3"} => dma'[0].op = "read" /\ dma'[0].k = 1
    BY <1>1, <1>3
  <2>2. pc' = "wait1" => dma'[1].op = "read" /\ dma'[1].k = 1
    BY <1>1, <1>3
  <2>3. \A j \in {1, 2} : ~(j < 1)
    OBVIOUS
  <2>4. pc' \in {"wait0", "wait1", "wait2", "wait3"}
    BY <1>1
  <2> QED
    BY <2>1, <2>2, <2>3, <2>4 DEF CopyIs
<1>8. Printed'
  BY <1>1 DEF Printed
<1>9. ReportsInOrder'
  BY <1>1 DEF ReportsInOrder
<1> QED
  BY <1>2, <1>5, <1>6, <1>7, <1>8, <1>9

\* main() has found the core idle: the transfer is complete.
LEMMA DWait ==
  ASSUME DmaInv, NEW d \in {0, 1}, dma[d].op = "idle",
         \/ d = 0 /\ pc = "wait0" /\ pc' = "rdata0"
         \/ d = 1 /\ pc = "wait1" /\ pc' = "rdata1"
         \/ d = 1 /\ pc = "wait2" /\ pc' = "show2"
         \/ d = 0 /\ pc = "wait3" /\ pc' = "rdata2",
         UNCHANGED <<i, buf, dma, report>>
  PROVE  DmaInv'
<1> USE DEF DmaInv
<1>1. UNCHANGED <<i, buf, dma, report>>
  OBVIOUS
<1>2. RunTypes'
  BY <1>1 DEF RunTypes, DmaPCs
<1>3. \A e \in {0, 1} : dma[e].op = "idle"
  BY <1>1 DEF LoopInv
<1>4. LoopInv'
  BY <1>1, <1>3 DEF LoopInv, DmaPCs, LedPCs
<1>5. buf \in [1 .. 2 -> Contents] /\ dma[0].rdata \in [1 .. 2 -> Contents] /\ dma[1].rdata \in [1 .. 2 -> Contents]
  BY DEF RunTypes
<1>6. BufferIs'
  <2>1. pc = "wait2" => buf = <<DmaData, DmaData>>
    BY <1>1, <1>5 DEF BufferIs
  <2> QED
    BY <1>1, <2>1, ExpectedIs DEF BufferIs
<1>7. CopyIs'
  <2>1. pc \in {"wait0", "wait3"} => dma[0].rdata = buf
    BY <1>1, <1>5 DEF CopyIs
  <2>2. pc = "wait1" => dma[1].rdata = buf
    BY <1>1, <1>5 DEF CopyIs
  <2> QED
    BY <1>1, <2>1, <2>2 DEF CopyIs
<1>8. Printed' /\ ReportsInOrder'
  BY <1>1 DEF Printed, ReportsInOrder
<1> QED
  BY <1>2, <1>4, <1>6, <1>7, <1>8

\* main() prints a core's copy of the buffer.
LEMMA DPrintCopy ==
  ASSUME DmaInv, NEW d \in {0, 1},
         \/ d = 0 /\ pc = "rdata0" /\ pc' = "read1"
         \/ d = 1 /\ pc = "rdata1" /\ pc' = "write1"
         \/ d = 0 /\ pc = "rdata2" /\ pc' = "timer",
         report' = Append(report, dma[d].rdata), UNCHANGED <<i, buf, dma>>
  PROVE  DmaInv'
<1> USE DEF DmaInv
<1>1. UNCHANGED <<i, buf, dma>>
  OBVIOUS
<1>2. dma[d].rdata = buf /\ buf \in [1 .. 2 -> Contents]
  BY <1>1 DEF CopyIs, RunTypes
<1>3. Len(report) < 5 /\ buf = Expected[Len(report) + 1]
  <2>1. CASE pc = "rdata0"
    <3>1. Len(report) = 1 /\ buf = Expected[2]
      BY <2>1, ExpectedIs DEF BufferIs, Printed
    <3> QED
      BY <3>1
  <2>2. CASE pc = "rdata1"
    <3>1. Len(report) = 2 /\ buf = Expected[3]
      BY <2>2, ExpectedIs DEF BufferIs, Printed
    <3> QED
      BY <3>1
  <2>3. CASE pc = "rdata2"
    <3>1. Len(report) = 4 /\ buf = Expected[5]
      BY <2>3, ExpectedIs DEF BufferIs, Printed
    <3> QED
      BY <3>1
  <2> QED
    BY <2>1, <2>2, <2>3
<1>4. /\ report' \in Seq([1 .. 2 -> Contents]) /\ Len(report') = Len(report) + 1 /\ ReportsInOrder'
  <2>1. report' = Append(report, buf)
    BY <1>1, <1>2
  <2> QED
    BY <1>2, <1>3, <2>1, DPrint
<1>5. RunTypes'
  BY <1>1, <1>4 DEF RunTypes, DmaPCs, LedPCs
<1>6. LoopInv'
  BY <1>1 DEF LoopInv, DmaPCs, LedPCs
<1>7. BufferIs'
  BY <1>1 DEF BufferIs
<1>8. CopyIs' /\ Printed'
  BY <1>1, <1>4 DEF CopyIs, Printed
<1> QED
  BY <1>4, <1>5, <1>6, <1>7, <1>8

\* A core moves a word.
LEMMA DCore == ASSUME DmaInv, NEW d \in {0, 1}, DmaStep(d) PROVE DmaInv'
<1> USE DEF DmaInv
<1> DEFINE k == dma[d].k
<1>1. UNCHANGED <<pc, i, report>> /\ dma[d].op # "idle"
  BY DEF DmaStep
<1>2. /\ k \in {1, 2} /\ \A e \in {0, 1} : e # d => dma[e].op = "idle"
      /\ \/ pc \in {"wait0", "wait3"} /\ d = 0 /\ dma[d].op = "read"
         \/ pc = "wait1" /\ d = 1 /\ dma[d].op = "read"
         \/ pc = "wait2" /\ d = 1 /\ dma[d].op = "write"
  BY <1>1 DEF LoopInv
<1>3. dma \in [{0, 1} -> [op : {"idle", "read", "write"}, k : 0 .. 3, rdata : [1 .. 2 -> Contents]]]
      /\ buf \in [1 .. 2 -> Contents]
  BY DEF RunTypes
<1>4. CASE dma[d].op = "read"
  <2>1. /\ buf' = buf
        /\ dma' = [dma EXCEPT ![d].rdata[k] = buf[k], ![d].k = k + 1, ![d].op = IF k = 2 THEN "idle" ELSE "read"]
    BY <1>4 DEF DmaStep
  <2>2. dma' \in [{0, 1} -> [op : {"idle", "read", "write"}, k : 0 .. 3, rdata : [1 .. 2 -> Contents]]]
    BY <2>1, <1>2, <1>3
  <2>3. /\ dma'[d].rdata = [dma[d].rdata EXCEPT ![k] = buf[k]]
        /\ dma'[d].k = k + 1 /\ dma'[d].op = (IF k = 2 THEN "idle" ELSE "read")
        /\ \A e \in {0, 1} : e # d => dma'[e] = dma[e]
    BY <2>1, <1>2, <1>3
  <2>4. RunTypes'
    BY <1>1, <2>1, <2>2 DEF RunTypes
  <2>5. LoopInv'
    <3>1. ASSUME NEW e \in {0, 1}, dma'[e].op # "idle"
          PROVE  e = d /\ dma'[e].k = 2 /\ dma'[e].op = "read"
      BY <3>1, <1>2, <2>3
    <3> QED
      BY <1>1, <1>2, <1>4, <3>1 DEF LoopInv, DmaPCs, LedPCs
  <2>6. BufferIs'
    BY <1>1, <1>2, <1>4, <2>1 DEF BufferIs
  <2>7. CopyIs'
    <3>1. ASSUME NEW j \in {1, 2}, dma'[d].op = "idle" \/ j < dma'[d].k PROVE dma'[d].rdata[j] = buf[j]
      <4>1. j <= k
        BY <3>1, <1>2, <2>3
      <4>2. j < k => dma[d].rdata[j] = buf[j]
        BY <1>2, <1>4 DEF CopyIs
      <4> QED
        BY <4>1, <4>2, <1>2, <1>3, <2>3
    <3> QED
      BY <3>1, <1>1, <1>2, <1>4, <2>1 DEF CopyIs
  <2> QED
    BY <1>1, <2>4, <2>5, <2>6, <2>7 DEF Printed, ReportsInOrder
<1>5. CASE dma[d].op = "write"
  <2>1. /\ buf' = [buf EXCEPT ![k] = DmaData]
        /\ dma' = [dma EXCEPT ![d].k = k + 1, ![d].op = IF k = 2 THEN "idle" ELSE "write"]
    BY <1>5 DEF DmaStep
  <2>2. dma' \in [{0, 1} -> [op : {"idle", "read", "write"}, k : 0 .. 3, rdata : [1 .. 2 -> Contents]]]
        /\ buf' \in [1 .. 2 -> Contents]
    BY <2>1, <1>2, <1>3 DEF Contents
  <2>3. /\ dma'[d].k = k + 1 /\ dma'[d].op = (IF k = 2 THEN "idle" ELSE "write")
        /\ \A e \in {0, 1} : e # d => dma'[e] = dma[e]
    BY <2>1, <1>2, <1>3
  <2>4. RunTypes'
    BY <1>1, <2>1, <2>2 DEF RunTypes
  <2>5. LoopInv'
    <3>1. ASSUME NEW e \in {0, 1}, dma'[e].op # "idle"
          PROVE  e = d /\ dma'[e].k = 2 /\ dma'[e].op = "write"
      BY <3>1, <1>2, <2>3
    <3> QED
      BY <1>1, <1>2, <1>5, <3>1 DEF LoopInv, DmaPCs, LedPCs
  <2>6. BufferIs'
    <3>1. ASSUME NEW j \in {1, 2}, dma'[1].op = "idle" \/ j < dma'[1].k PROVE buf'[j] = DmaData
      <4>1. j <= k
        BY <3>1, <1>2, <1>5, <2>3
      <4>2. j < k => buf[j] = DmaData
        BY <1>2, <1>5 DEF BufferIs
      <4> QED
        BY <4>1, <4>2, <1>2, <1>3, <2>1
    <3> QED
      BY <3>1, <1>1, <1>2, <1>5 DEF BufferIs
  <2>7. CopyIs'
    BY <1>1, <1>2, <1>5 DEF CopyIs
  <2> QED
    BY <1>1, <2>4, <2>5, <2>6, <2>7 DEF Printed, ReportsInOrder
<1> QED
  BY <1>1, <1>4, <1>5 DEF RunTypes

\* The LED loop leaves the buffer, the cores and the reports alone.
LEMMA DLed == ASSUME DmaInv, LedTest PROVE DmaInv'
<1> USE DEF DmaInv
<1>1. UNCHANGED <<buf, dma, report>> /\ pc \in LedPCs
  BY DEF LedTest, StartTimer, SetLed, SetIrqEnable, WaitIrq, ClearIrq, NextBlink, Goto, LedPCs, dmaVars
<1>2. /\ pc' \in LedPCs \ {"timer"} /\ i' \in 0 .. Blinks
      /\ (pc' \in LedPCs \ {"timer", "next", "end"} => i' < Blinks)
  BY TestAssumption DEF LedTest, StartTimer, SetLed, SetIrqEnable, WaitIrq, ClearIrq, NextBlink, Goto, LedPCs,
     RunTypes, LoopInv
<1>3. RunTypes'
  BY <1>1, <1>2 DEF RunTypes
<1>4. LoopInv'
  BY <1>1, <1>2 DEF LoopInv, DmaPCs, LedPCs
<1>5. BufferIs' /\ CopyIs' /\ Printed'
  BY <1>2 DEF BufferIs, CopyIs, Printed, LedPCs
<1>6. ReportsInOrder'
  BY <1>1 DEF ReportsInOrder
<1> QED
  BY <1>3, <1>4, <1>5, <1>6

\* Every step keeps the transfers in order.
LEMMA DStep == DmaInv /\ [Next]_vars => DmaInv'
<1> SUFFICES ASSUME DmaInv, [Next]_vars PROVE DmaInv'
  OBVIOUS
<1>1. CASE DmaTests
  <2>1. CASE CpuWrite
    BY <2>1, DCpuWrite
  <2>2. CASE Show("show1", "read0") \/ Show("show2", "read2")
    BY <2>2, DShow DEF Show, Goto
  <2>3. CASE \/ Start(0, "read", "read0", "wait0") \/ Start(1, "read", "read1", "wait1")
             \/ Start(1, "write", "write1", "wait2") \/ Start(0, "read", "read2", "wait3")
    BY <2>3, DStart DEF Start, Goto
  <2>4. CASE \/ Wait(0, "wait0", "rdata0") \/ Wait(1, "wait1", "rdata1")
             \/ Wait(1, "wait2", "show2") \/ Wait(0, "wait3", "rdata2")
    BY <2>4, DWait DEF Wait, Goto, dmaVars
  <2>5. CASE ShowRdata(0, "rdata0", "read1") \/ ShowRdata(1, "rdata1", "write1") \/ ShowRdata(0, "rdata2", "timer")
    BY <2>5, DPrintCopy DEF ShowRdata, Goto
  <2> QED
    BY <1>1, <2>1, <2>2, <2>3, <2>4, <2>5 DEF DmaTests
<1>2. CASE LedTest
  BY <1>2, DLed
<1>3. CASE \E d \in {0, 1} : DmaStep(d)
  BY <1>3, DCore
<1>4. CASE UNCHANGED <<pc, i, dmaVars>>
  BY <1>4 DEF dmaVars, DmaInv, RunTypes, LoopInv, BufferIs, CopyIs, Printed, ReportsInOrder
<1>5. Match \/ Handler \/ UNCHANGED vars => UNCHANGED <<pc, i, dmaVars>>
  BY DEF Match, Handler, vars
<1> QED
  BY <1>1, <1>2, <1>3, <1>4, <1>5 DEF Next, Ended

\* The transfers are in order in every state.
LEMMA TransferInvariance == Spec => []DmaInv
  BY DInit, DStep, PTL DEF Spec

\* Every variable of the test program keeps its type, for any number of passes.
THEOREM TestTypes == Spec => []TypeOK
<1>1. DmaInv /\ Inv => TypeOK
  BY DEF DmaInv, RunTypes, Inv, TypeOK
<1> QED
  BY <1>1, TransferInvariance, IrqInvariant, PTL

\* What the buffer, the cores, the reports and the interrupts may be at each
\* point of main() is so in every state.
THEOREM TestInvariance == Spec => []TestInv
<1>1. DmaInv /\ Inv => TestInv
  BY DEF DmaInv, Inv, TestInv
<1> QED
  BY <1>1, TransferInvariance, IrqInvariant, PTL

\* Polling the status is enough: whatever the three contents are, each report
\* shows a complete transfer, and not an earlier one (main.cpp:95-139).
THEOREM ReportsAreComplete == Spec => []ReportsInOrder
<1>1. DmaInv => ReportsInOrder
  BY DEF DmaInv
<1> QED
  BY <1>1, TransferInvariance, PTL
=============================================================================
