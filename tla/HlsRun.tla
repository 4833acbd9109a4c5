-------------------------------- MODULE HlsRun --------------------------------
(***************************************************************************)
(* A run started through the HLS control block: xriscv.c's calls on the    *)
(* control, interrupt and reset registers, and the start, idle, done and   *)
(* ready logic of riscv_example.sv around the core.                        *)
(*                                                                         *)
(* The control block itself (riscv_control_s_axi) is generated and not in  *)
(* the repository; xriscv_hw.h:6-48 says which of its bits clear on read   *)
(* (done, ready, the interrupt status) and which on handshake (start,      *)
(* unless auto_restart keeps it).  Software and hardware interleave: at    *)
(* most one register access between two clock edges.                       *)
(*                                                                         *)
(* The client is sequential.  It waits for a run with the status calls or, *)
(* if it has the interrupt enabled and its status read, with the           *)
(* interrupt; and it starts a run only when it knows the start bit to be   *)
(* clear: a start bit that auto_restart has kept makes no edge and so no   *)
(* run.                                                                    *)
(***************************************************************************)
EXTENDS Naturals

CONSTANTS
  MaxStarts,     \* bound: calls of XRiscv_Start
  ReadyIsDone    \* ap_ready = ap_done (riscv_example.sv_org), else 1 (riscv_example.sv)

ASSUME HlsAssumption ==
  MaxStarts \in Nat /\ ReadyIsDone \in BOOLEAN

VARIABLES
  ap_start,      \* control block: bit 0
  done_bit,      \* bit 1, set by ap_done, cleared by a read
  auto_restart,  \* bit 7
  gie, ier, isr, \* interrupts: global enable, enabled events, latched events
  reset_riscv,   \* bit 0 of the register at 0x10
  ap_start_r,    \* kernel: ap_start one clock ago
  ap_idle_r,     \* ap_idle
  ap_done_r,     \* ap_done
  core,          \* where the core is in its program
  bus,           \* an access has been made since the last clock edge
  sw,            \* the client: "free", "starting" (between the two accesses of Start),
                 \* "waiting" (polling) or "armed" (waiting for the interrupt)
  belief,        \* what it knows of the start bit: "clear", "set" until the run ends,
                 \* or "maybe" kept by auto_restart
  drained,       \* it has read the interrupt status since the last run ended
  started, completed, reported   \* Start calls, ap_done pulses, IsDone's ones; while
                 \* auto_restart may have kept the start bit only the pulses owed count

events == {"done", "ready"}

control == <<ap_start, done_bit, auto_restart, reset_riscv>>
interrupts == <<gie, ier, isr>>
kernel == <<ap_start_r, ap_idle_r, ap_done_r, core>>
client == <<sw, belief, drained>>
counts == <<started, completed, reported>>
vars == <<control, interrupts, kernel, bus, client, counts>>

\* After ap_rst_n: nothing started, ap_idle is 1, and the core is held in reset.
Init ==
  /\ ap_start = FALSE /\ done_bit = FALSE /\ auto_restart = FALSE /\ reset_riscv = FALSE
  /\ gie = FALSE /\ ier = {} /\ isr = {}
  /\ ap_start_r = FALSE /\ ap_idle_r = TRUE /\ ap_done_r = FALSE
  /\ core = "reset"
  /\ bus = "free" /\ sw = "free" /\ belief = "clear" /\ drained = FALSE
  /\ started = 0 /\ completed = 0 /\ reported = 0

-----------------------------------------------------------------------------
(* xriscv.c *)

Access == bus = "free" /\ bus' = "busy"

\* Every read of AP_CTRL clears the done bit, whatever the caller looks for.
ReadApCtrl == Access /\ done_bit' = FALSE

\* XRiscv_Start reads the register to keep auto_restart ...
StartRead ==
  /\ sw = "free" /\ belief = "clear" /\ started < MaxStarts
  /\ ReadApCtrl /\ sw' = "starting"
  /\ UNCHANGED <<ap_start, auto_restart, reset_riscv, interrupts, kernel, belief, drained, counts>>

\* ... and writes it back with ap_start.  From here the client waits.
StartWrite ==
  /\ sw = "starting" /\ Access
  /\ sw' \in {"waiting", "armed"}
  /\ sw' = "armed" => gie /\ "done" \in ier /\ drained
  /\ ap_start' = TRUE /\ started' = started + 1
  /\ belief' = IF auto_restart THEN "maybe" ELSE "set"
  /\ UNCHANGED <<done_bit, auto_restart, reset_riscv, interrupts, kernel, drained,
                 completed, reported>>

\* A status call answers, and a 1 ends the wait: of a start bit that
\* auto_restart cannot have kept the client now knows that it is clear.
EndWaitIf(answer) ==
  /\ sw' = IF answer THEN "free" ELSE "waiting"
  /\ belief' = IF answer /\ belief = "set" THEN "clear" ELSE belief
  /\ drained' = (drained /\ ~answer)

\* Mutant: the driver tests ap_start where it should test ap_done.
IsDoneTestsStart ==
  /\ sw = "waiting" /\ ReadApCtrl
  /\ EndWaitIf(ap_start)
  /\ reported' = IF ap_start /\ belief # "maybe" THEN reported + 1 ELSE reported
  /\ UNCHANGED <<ap_start, auto_restart, reset_riscv, interrupts, kernel,
                 started, completed>>

XRiscv_IsDone ==
  /\ sw = "waiting" /\ ReadApCtrl
  /\ EndWaitIf(done_bit)
  /\ reported' = IF done_bit /\ belief # "maybe" THEN reported + 1 ELSE reported
  /\ UNCHANGED <<ap_start, auto_restart, reset_riscv, interrupts, kernel,
                 started, completed>>

\* Waiting for idle is waiting for the end of the run as well.
XRiscv_IsIdle ==
  /\ sw = "waiting" /\ ReadApCtrl
  /\ EndWaitIf(ap_idle_r)
  /\ UNCHANGED <<ap_start, auto_restart, reset_riscv, interrupts, kernel, counts>>

\* !(Data & 1): the start bit is clear; a client that waits takes the run for
\* ended, and one that has used auto_restart learns that it may start again.
XRiscv_IsReady ==
  /\ sw = "waiting" \/ (sw = "free" /\ belief = "maybe")
  /\ ReadApCtrl
  /\ sw' = IF ap_start THEN sw ELSE "free"
  /\ belief' = IF ap_start THEN belief ELSE "clear"
  /\ drained' = (drained /\ ap_start)
  /\ UNCHANGED <<ap_start, auto_restart, reset_riscv, interrupts, kernel, counts>>

\* 0x80 and 0 are written with a start bit of 0, which starts nothing and
\* clears nothing.
SetAutoRestart(v) ==
  /\ sw \in {"free", "waiting"} /\ Access
  /\ auto_restart' = v
  /\ belief' = IF v /\ belief = "set" THEN "maybe" ELSE belief
  /\ UNCHANGED <<ap_start, done_bit, reset_riscv, interrupts, kernel, sw, drained, counts>>

XRiscv_EnableAutoRestart == SetAutoRestart(TRUE)
XRiscv_DisableAutoRestart == SetAutoRestart(FALSE)

\* At any time; a core that is held starts its program over when released.
XRiscv_Set_reset_riscv(v) ==
  /\ sw # "starting" /\ Access
  /\ reset_riscv' = v
  /\ UNCHANGED <<ap_start, done_bit, auto_restart, interrupts, kernel, client, counts>>

\* InterruptGlobalEnable and InterruptGlobalDisable.
SetGlobalEnable(v) ==
  /\ sw \in {"free", "waiting"} /\ Access
  /\ gie' = v
  /\ UNCHANGED <<control, ier, isr, kernel, client, counts>>

\* Register | Mask and Register & ~Mask: read and written back, but software
\* alone changes the register.
SetEnabled(new) ==
  /\ sw \in {"free", "waiting"} /\ Access
  /\ ier' = new
  /\ UNCHANGED <<control, gie, isr, kernel, client, counts>>

XRiscv_InterruptEnable(mask) == SetEnabled(ier \cup mask)
XRiscv_InterruptDisable(mask) == SetEnabled(ier \ mask)

\* The block's interrupt output.
interrupt == gie /\ isr # {}

\* Mutant: the status register is left as it is, as after InterruptClear,
\* whose write is commented out.
StatusKeepsBits ==
  /\ sw \in {"free", "waiting"} \/ (sw = "armed" /\ interrupt)
  /\ Access /\ isr' = isr
  /\ sw' = IF sw = "armed" /\ isr # {} THEN "free" ELSE sw
  /\ belief' = IF sw = "armed" /\ isr # {} /\ belief = "set" THEN "clear" ELSE belief
  /\ drained' = (belief # "maybe")
  /\ UNCHANGED <<control, gie, ier, kernel, counts>>

\* Reading the status clears it: nothing else does, for the write of
\* InterruptClear is commented out.  The handler of an armed client ends its
\* wait with what it reads.
XRiscv_InterruptGetStatus ==
  /\ sw \in {"free", "waiting"} \/ (sw = "armed" /\ interrupt)
  /\ Access /\ isr' = {}
  /\ sw' = IF sw = "armed" /\ isr # {} THEN "free" ELSE sw
  /\ belief' = IF sw = "armed" /\ isr # {} /\ belief = "set" THEN "clear" ELSE belief
  /\ drained' = (belief # "maybe")
  /\ UNCHANGED <<control, gie, ier, kernel, counts>>

\* The client polls with any of the three, and may change its mind.
Poll == XRiscv_IsDone \/ XRiscv_IsIdle \/ XRiscv_IsReady

Configure ==
  \/ XRiscv_EnableAutoRestart \/ XRiscv_DisableAutoRestart
  \/ \E v \in BOOLEAN : SetGlobalEnable(v)
  \/ \E mask \in SUBSET events : XRiscv_InterruptEnable(mask) \/ XRiscv_InterruptDisable(mask)

Client ==
  \/ StartRead \/ StartWrite \/ Poll \/ Configure \/ XRiscv_InterruptGetStatus
  \/ \E v \in BOOLEAN : XRiscv_Set_reset_riscv(v)

-----------------------------------------------------------------------------
(* riscv_example.sv *)

ap_start_pulse == ap_start /\ ~ap_start_r
ap_done == ap_done_r

\* Mutant: ready is tied to 1 here too.
ReadyAlways == TRUE

ap_ready == IF ReadyIsDone THEN ap_done ELSE TRUE

\* The core's reset input.
reset_0 == ~ap_start \/ reset_riscv

\* ap_done_i: the store to 0xFFFFFFF0 is on the data bus.
ap_done_i == core = "store" /\ ~reset_0

\* The program runs, puts the store on the bus until it is accepted, and spins.
CoreStep(advance) ==
  core' = IF reset_0 THEN "reset"
          ELSE IF core = "reset" THEN "run"
          ELSE IF core = "run" /\ advance THEN "store"
          ELSE IF core = "store" /\ advance THEN "spin"
          ELSE core

DoneLogic == ap_done_r' = IF ap_done THEN FALSE ELSE ap_done_r \/ ap_done_i

\* Mutant: a start does not end the idle state.
IdleIgnoresStart == ap_idle_r' = (ap_idle_r \/ ap_done)

IdleLogic == ap_idle_r' = IF ap_done THEN TRUE ELSE IF ap_start_pulse THEN FALSE ELSE ap_idle_r

\* The control block's side of the same clock edge: ready clears the start
\* bit unless auto_restart keeps it.
StartBit == ap_start' = (ap_start /\ (~ap_ready \/ auto_restart))

\* Enabled events are latched until they are read.
Latch == isr' = isr \cup (ier \cap ((IF ap_done THEN {"done"} ELSE {})
                                    \cup (IF ap_ready THEN {"ready"} ELSE {})))

\* One edge of ap_clk.
Tick(advance) ==
  /\ ap_start_r' = ap_start
  /\ CoreStep(advance) /\ DoneLogic /\ IdleLogic /\ StartBit /\ Latch
  /\ done_bit' = (done_bit \/ ap_done)
  /\ completed' = IF ap_done /\ (belief = "maybe" => completed < started)
                  THEN completed + 1 ELSE completed
  /\ bus' = "free"
  /\ UNCHANGED <<auto_restart, reset_riscv, gie, ier, client, started, reported>>

-----------------------------------------------------------------------------
Next == Client \/ \E advance \in BOOLEAN : Tick(advance)

Spec == Init /\ [][Next]_vars

\* The clock runs, the core's program advances, the client polls and its
\* interrupt handler gets its turn.
FairSpec ==
  /\ Spec
  /\ WF_vars(Tick(TRUE)) /\ SF_vars(Poll) /\ SF_vars(StartWrite)
  /\ SF_vars(sw = "armed" /\ XRiscv_InterruptGetStatus)

-----------------------------------------------------------------------------
(* Properties *)

\* Every call of Start is one run of the core with one completion, whichever
\* of the three status calls or the interrupt its caller waited with; only while
\* auto_restart may have kept the start bit does the core complete more often
\* (xriscv.c:22-75, 183-237, riscv_example.sv:143-184).
OneRunPerStart ==
  /\ completed <= started
  /\ started <= completed + 1
  /\ sw = "free" => completed = started

\* A completion is reported at most once, and never one that did not happen.
NoPhantomDone == belief # "maybe" => reported + (IF done_bit THEN 1 ELSE 0) <= completed

\* Without a start bit there is no done pulse and nothing is owed.
Stopped == ~ap_start /\ ~ap_done_r /\ completed = started

\* A run: one completion is owed, nothing of it is reported, and idle is low
\* as soon as the client can look.
Running ==
  /\ ap_start /\ ~done_bit /\ started = completed + 1
  /\ ap_idle_r => bus = "busy" /\ ~ap_start_r /\ ~ap_done_r

\* What the client knows is so.
BeliefHolds ==
  /\ belief = "clear" => ~ap_start /\ (drained => isr = {})
  /\ belief = "set" => ~auto_restart /\ (Stopped \/ Running)
  /\ sw = "free" => completed = started /\ belief # "set"
  /\ sw = "starting" => belief = "clear" /\ ~done_bit /\ (bus = "free" => ~ap_start_r)
  /\ sw \in {"waiting", "armed"} => belief # "clear"
  /\ sw = "armed" /\ Running => isr = {}

\* The inductive invariant behind OneRunPerStart.
RunInv ==
  /\ ap_start \/ Stopped
  /\ completed = started \/ Running
  /\ BeliefHolds

\* A client that goes on polling sees the end of the run it started, whichever
\* calls it polls with and although each of them clears the done bit, unless
\* the core is held for ever or auto_restart is used (riscv_example.sv:186-187:
\* ready is done in the non-pipelined case).
PollEnds ==
  <>[]~reset_riscv /\ [](belief # "maybe") => (sw = "waiting" ~> sw = "free")

\* A client that waits for the interrupt gets one, with auto_restart too.
InterruptEnds == <>[]~reset_riscv => (sw = "armed" ~> sw = "free")
=============================================================================
