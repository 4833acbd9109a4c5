---------------------------- MODULE UdmabufTest ----------------------------
(***************************************************************************)
(* test_udmabuf/main.cpp: the program writes the buffer, lets two DMA      *)
(* cores read and write it by polling their status, and then blinks a LED  *)
(* from a timer interrupt that reaches it through the UIO device.          *)
(*                                                                         *)
(* The buffer is mapped uncached (O_SYNC); loads, stores and register      *)
(* accesses take effect in program order.  DMA cores, timer, LED and the   *)
(* UIO driver of the kernel are not part of the repository: they are       *)
(* modelled from the registers and calls main.cpp uses.                    *)
(***************************************************************************)
EXTENDS Naturals, Sequences

CONSTANTS
  Blinks,                  \* passes of the LED loop (5 in the code)
  Junk, CpuData, DmaData   \* the buffer's contents: before, and as the two write it

ASSUME TestAssumption == Blinks \in Nat \ {0}

VARIABLES
  pc,        \* where main() is
  i,         \* LED loop counter
  buf,       \* the two 64-bit words of the buffer that the test uses
  dma,       \* op, next word and RDATA of each DMA core
  report,    \* the contents main() has printed, in order
  led,       \* register 0 of the LED core
  running,   \* the timer counts
  level,     \* its interrupt line, until CONTROL is read
  irqOn,     \* the kernel lets the interrupt through
  events,    \* interrupts the UIO driver has counted
  seen,      \* the count the last read() of the device returned
  matches,   \* interrupts the timer has raised
  phases,    \* interrupts main() has waited for
  early      \* the line or a count was already pending at the first wait

dmaVars == <<buf, dma, report>>
irqVars == <<led, running, level, irqOn, events, seen>>
counts == <<matches, phases, early>>
vars == <<pc, i, dmaVars, irqVars, counts>>

Words == {0, 1}
Idle == [op |-> "idle", k |-> 0, rdata |-> <<Junk, Junk>>]

\* Nothing stops the timer when main() ends: an earlier run may have left it
\* counting, its line asserted and the kernel's gate in either position.
Init ==
  /\ pc = "cpu0" /\ i = 0
  /\ buf = <<Junk, Junk>>
  /\ dma = [d \in {0, 1} |-> Idle]
  /\ report = <<>>
  /\ led = 0
  /\ running \in BOOLEAN /\ level \in BOOLEAN /\ irqOn \in BOOLEAN
  /\ ~running => ~level /\ irqOn
  /\ events = 0 /\ seen = 0
  /\ matches = (IF level THEN 1 ELSE 0) /\ phases = 0 /\ early = FALSE

Goto(at, next) == pc = at /\ pc' = next

-----------------------------------------------------------------------------
(* main(): the buffer and the DMA cores *)

\* ptr[0..3] = ..., one 64-bit word after the other.
CpuWrite ==
  /\ \/ Goto("cpu0", "cpu1") /\ buf' = [buf EXCEPT ![1] = CpuData]
     \/ Goto("cpu1", "show1") /\ buf' = [buf EXCEPT ![2] = CpuData]
  /\ UNCHANGED <<i, dma, report, irqVars, counts>>

\* The prints of ptr[0..3].
Show(at, next) ==
  /\ Goto(at, next)
  /\ report' = Append(report, buf)
  /\ UNCHANGED <<i, buf, dma, irqVars, counts>>

\* ADDR, WDATA0, WDATA1 and the start register.
Start(d, op, at, next) ==
  /\ Goto(at, next)
  /\ dma' = [dma EXCEPT ![d].op = op, ![d].k = 1]
  /\ UNCHANGED <<i, buf, report, irqVars, counts>>

\* Mutant: the status is read once and not waited for.
WaitOnce(d, at, next) ==
  /\ Goto(at, next)
  /\ UNCHANGED <<i, dmaVars, irqVars, counts>>

\* while (ReadReg(REG_DMA_STATUS)) ;
Wait(d, at, next) ==
  /\ Goto(at, next) /\ dma[d].op = "idle"
  /\ UNCHANGED <<i, dmaVars, irqVars, counts>>

\* The prints of RDATA0 and RDATA1.
ShowRdata(d, at, next) ==
  /\ Goto(at, next)
  /\ report' = Append(report, dma[d].rdata)
  /\ UNCHANGED <<i, buf, dma, irqVars, counts>>

DmaTests ==
  \/ CpuWrite \/ Show("show1", "read0")
  \/ Start(0, "read", "read0", "wait0") \/ Wait(0, "wait0", "rdata0") \/ ShowRdata(0, "rdata0", "read1")
  \/ Start(1, "read", "read1", "wait1") \/ Wait(1, "wait1", "rdata1") \/ ShowRdata(1, "rdata1", "write1")
  \/ Start(1, "write", "write1", "wait2") \/ Wait(1, "wait2", "show2") \/ Show("show2", "read2")
  \/ Start(0, "read", "read2", "wait3") \/ Wait(0, "wait3", "rdata2") \/ ShowRdata(0, "rdata2", "timer")

-----------------------------------------------------------------------------
(* main(): the LED *)

\* COMPARE, then CONTROL = 1.
StartTimer ==
  /\ Goto("timer", "on")
  /\ running' = TRUE
  /\ UNCHANGED <<i, dmaVars, led, level, irqOn, events, seen, counts>>

\* WriteReg(0, v) of the LED core.
SetLed(v, at, next) ==
  /\ Goto(at, next) /\ led' = v
  /\ UNCHANGED <<i, dmaVars, running, level, irqOn, events, seen, counts>>

\* Mutant: the interrupt is enabled before the first wait only.
SetIrqEnableOnce(at, next) ==
  /\ Goto(at, next)
  /\ irqOn' = (irqOn \/ phases = 0)
  /\ early' = IF phases = 0 THEN level \/ events # seen ELSE early
  /\ UNCHANGED <<i, dmaVars, led, running, level, events, seen, matches, phases>>

\* SetIrqEnable(true): a write of 1 opens the kernel's gate.
SetIrqEnable(at, next) ==
  /\ Goto(at, next)
  /\ irqOn' = TRUE
  /\ early' = IF phases = 0 THEN level \/ events # seen ELSE early
  /\ UNCHANGED <<i, dmaVars, led, running, level, events, seen, matches, phases>>

\* WaitIrq(): read() blocks until the count has moved.
WaitIrq(at, next) ==
  /\ Goto(at, next)
  /\ events # seen /\ seen' = events
  /\ phases' = phases + 1
  /\ UNCHANGED <<i, dmaVars, led, running, level, irqOn, events, matches, early>>

\* Mutant: the interrupt is not cleared.
ClearNothing(at, next) ==
  /\ Goto(at, next)
  /\ i' = IF next = "next" THEN i + 1 ELSE i
  /\ UNCHANGED <<dmaVars, irqVars, counts>>

\* tim_acc.ReadReg(REG_TIM_CONTROL) clears the line.
ClearIrq(at, next) ==
  /\ Goto(at, next)
  /\ level' = FALSE
  /\ i' = IF next = "next" THEN i + 1 ELSE i
  /\ UNCHANGED <<dmaVars, led, running, irqOn, events, seen, counts>>

\* Mutant: one pass too many.
NextBlinkOneMore ==
  /\ Goto("next", IF i <= Blinks THEN "on" ELSE "end")
  /\ UNCHANGED <<i, dmaVars, irqVars, counts>>

\* for (int i = 0; i < 5; i++)
NextBlink ==
  /\ Goto("next", IF i < Blinks THEN "on" ELSE "end")
  /\ UNCHANGED <<i, dmaVars, irqVars, counts>>

LedTest ==
  \/ StartTimer
  \/ SetLed(1, "on", "enable1") \/ SetIrqEnable("enable1", "irq1") \/ WaitIrq("irq1", "clear1") \/ ClearIrq("clear1", "off")
  \/ SetLed(0, "off", "enable2") \/ SetIrqEnable("enable2", "irq2") \/ WaitIrq("irq2", "clear2") \/ ClearIrq("clear2", "next")
  \/ NextBlink

-----------------------------------------------------------------------------
(* The hardware and the kernel *)

\* A DMA core moves one word; after the second it is idle.
DmaStep(d) ==
  LET k == dma[d].k IN
  /\ dma[d].op # "idle"
  /\ IF dma[d].op = "read"
       THEN buf' = buf /\ dma' = [dma EXCEPT ![d].rdata[k] = buf[k], ![d].k = k + 1,
                                             ![d].op = IF k = 2 THEN "idle" ELSE "read"]
       ELSE buf' = [buf EXCEPT ![k] = DmaData] /\ dma' = [dma EXCEPT ![d].k = k + 1,
                                             ![d].op = IF k = 2 THEN "idle" ELSE "write"]
  /\ UNCHANGED <<pc, i, report, irqVars, counts>>

\* The counter reaches COMPARE; a line that is already asserted stays so.
Match ==
  /\ running /\ ~level
  /\ level' = TRUE /\ matches' = matches + 1
  /\ UNCHANGED <<pc, i, dmaVars, led, running, irqOn, events, seen, phases, early>>

\* The UIO driver's handler: it shuts the gate and counts.
Handler ==
  /\ level /\ irqOn
  /\ irqOn' = FALSE /\ events' = events + 1
  /\ UNCHANGED <<pc, i, dmaVars, led, running, level, seen, counts>>

-----------------------------------------------------------------------------
Ended == pc = "end" /\ UNCHANGED vars

Next == DmaTests \/ LedTest \/ (\E d \in {0, 1} : DmaStep(d)) \/ (pc # "end" /\ Match) \/ Handler \/ Ended

Spec == Init /\ [][Next]_vars

\* main() is scheduled, interrupts are delivered, the cores and the timer run.
FairSpec ==
  /\ Spec
  /\ WF_vars(DmaTests \/ LedTest)
  /\ WF_vars(\E d \in {0, 1} : DmaStep(d))
  /\ WF_vars(pc # "end" /\ Match) /\ WF_vars(Handler)

-----------------------------------------------------------------------------
(* Properties *)

DmaPCs == {"cpu0", "cpu1", "show1", "read0", "wait0", "rdata0", "read1", "wait1", "rdata1",
           "write1", "wait2", "show2", "read2", "wait3", "rdata2"}
LedPCs == {"timer", "on", "enable1", "irq1", "clear1", "off", "enable2", "irq2", "clear2", "next", "end"}
Contents == {Junk, CpuData, DmaData}

\* Types of the timer's, the LED's and the kernel's variables.
IrqTypes ==
  /\ led \in {0, 1}
  /\ running \in BOOLEAN /\ level \in BOOLEAN /\ irqOn \in BOOLEAN /\ early \in BOOLEAN
  /\ events \in Nat /\ seen \in Nat /\ matches \in Nat /\ phases \in Nat

\* Types of all variables; a DMA core that is busy has a word to move.
TypeOK ==
  /\ pc \in DmaPCs \cup LedPCs /\ i \in 0 .. Blinks
  /\ buf \in [1 .. 2 -> Contents]
  /\ dma \in [{0, 1} -> [op : {"idle", "read", "write"}, k : 0 .. 3, rdata : [1 .. 2 -> Contents]]]
  /\ report \in Seq([1 .. 2 -> Contents])
  /\ IrqTypes

\* What main() should print, in order: its own words, the same through both
\* DMA cores, and then, twice, what DMA core 1 wrote.
Expected == LET cpu == <<CpuData, CpuData>>
                out == <<DmaData, DmaData>>
            IN  <<cpu, cpu, cpu, out, out>>

\* Polling the status is enough: no report shows a half-done transfer or the
\* words of an earlier one (main.cpp:95-139).
ReportsInOrder == Len(report) <= 5 /\ \A k \in 1 .. Len(report) : report[k] = Expected[k]

\* Unless an interrupt was pending before main() waited for the first time,
\* each wait ends with a timer interrupt of its own: no LED phase is cut short
\* by one that has been waited for already (main.cpp:146-164).
OneMatchPerPhase == ~early => phases <= matches

\* The interrupts raised cover those waited for, the one counted and not yet
\* waited for, and the asserted line that will be counted.
Covered ==
  CASE pc \in {"irq1", "irq2"} ->
         /\ events = seen \/ (events = seen + 1 /\ ~irqOn)
         /\ phases + (IF events # seen \/ (level /\ irqOn) THEN 1 ELSE 0) <= matches
    [] pc \in {"clear1", "clear2"} -> ~irqOn /\ events = seen /\ phases <= matches
    [] OTHER -> phases # 0 => /\ ~irqOn /\ events = seen
                              /\ phases + (IF level THEN 1 ELSE 0) <= matches

\* The inductive invariant behind OneMatchPerPhase.
IrqInv ==
  /\ pc \in DmaPCs \cup {"timer"} => phases = 0
  /\ ~early => Covered

\* The loop counter, and the only core that may be busy: the one that main()
\* has started and polls.
LoopInv ==
  /\ pc \in DmaPCs \cup {"timer"} => i = 0
  /\ pc \in LedPCs \ {"timer", "next", "end"} => i < Blinks
  /\ \A d \in {0, 1} : dma[d].op # "idle" =>
       /\ dma[d].k \in {1, 2}
       /\ <<pc, d, dma[d].op>> \in {<<"wait0", 0, "read">>, <<"wait1", 1, "read">>,
                                    <<"wait2", 1, "write">>, <<"wait3", 0, "read">>}

\* What the buffer holds when main() is not writing it.
BufferIs ==
  /\ pc = "cpu1" => buf[1] = CpuData
  /\ pc \in {"show1", "read0", "wait0", "rdata0", "read1", "wait1", "rdata1", "write1"} =>
       buf = Expected[1]
  /\ pc = "wait2" => \A j \in {1, 2} : dma[1].op = "idle" \/ j < dma[1].k => buf[j] = DmaData
  /\ pc \in {"show2", "read2", "wait3", "rdata2"} => buf = Expected[4]

\* How far a core's copy in RDATA has come.
CopyIs ==
  /\ pc \in {"wait0", "wait3"} => \A j \in {1, 2} : dma[0].op = "idle" \/ j < dma[0].k => dma[0].rdata[j] = buf[j]
  /\ pc = "wait1" => \A j \in {1, 2} : dma[1].op = "idle" \/ j < dma[1].k => dma[1].rdata[j] = buf[j]
  /\ pc \in {"rdata0", "rdata2"} => dma[0].rdata = buf
  /\ pc = "rdata1" => dma[1].rdata = buf

\* How many of the reports main() has printed.
Printed ==
  /\ pc \in {"cpu0", "cpu1", "show1"} => Len(report) = 0
  /\ pc \in {"read0", "wait0", "rdata0"} => Len(report) = 1
  /\ pc \in {"read1", "wait1", "rdata1"} => Len(report) = 2
  /\ pc \in {"write1", "wait2", "show2"} => Len(report) = 3
  /\ pc \in {"read2", "wait3", "rdata2"} => Len(report) = 4

\* The inductive invariant behind both halves of the test: the transfers and
\* the interrupts.
TestInv == LoopInv /\ BufferIs /\ CopyIs /\ Printed /\ IrqInv

\* main() ends: no interrupt is lost between clearing one and waiting for the next.
BlinksToTheEnd == <>(pc = "end")
=============================================================================
