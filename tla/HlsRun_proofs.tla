---------------------------- MODULE HlsRun_proofs ----------------------------
(***************************************************************************)
(* Proofs about HlsRun: with ready wired to done, each call of Start is    *)
(* one run, for any number of calls and whatever the client waits with.    *)
(*                                                                         *)
(* The counters matter only through what is owed: Types and the counters   *)
(* are kept apart from the control part, which is propositional.           *)
(***************************************************************************)
EXTENDS HlsRun, TLAPS

Types ==
  /\ ap_start \in BOOLEAN /\ done_bit \in BOOLEAN
  /\ auto_restart \in BOOLEAN /\ reset_riscv \in BOOLEAN
  /\ gie \in BOOLEAN /\ ier \in SUBSET events /\ isr \in SUBSET events
  /\ ap_start_r \in BOOLEAN /\ ap_idle_r \in BOOLEAN /\ ap_done_r \in BOOLEAN
  /\ core \in {"reset", "run", "store", "spin"}
  /\ bus \in {"free", "busy"} /\ sw \in {"free", "starting", "waiting", "armed"}
  /\ belief \in {"clear", "set", "maybe"} /\ drained \in BOOLEAN

Counters == started \in Nat /\ completed \in Nat /\ reported \in Nat

Inv == Types /\ Counters /\ RunInv

\* Every step keeps the types of the control state.
LEMMA HTypes == ASSUME Types, [Next]_vars PROVE Types'
<1> USE DEF Types
<1>1. CASE StartRead
  BY <1>1 DEF StartRead, ReadApCtrl, Access, interrupts, kernel, counts
<1>2. CASE StartWrite
  BY <1>2 DEF StartWrite, Access, interrupts, kernel
<1>3. CASE XRiscv_IsDone
  <2>1. UNCHANGED <<ap_start, auto_restart, reset_riscv, gie, ier, isr, ap_start_r, ap_idle_r, ap_done_r, core>>
    BY <1>3 DEF XRiscv_IsDone, interrupts, kernel
  <2>2. done_bit' = FALSE /\ bus' = "busy" /\ sw' \in {"free", "waiting"}
    BY <1>3 DEF XRiscv_IsDone, EndWaitIf, ReadApCtrl, Access
  <2>3. belief' \in {"clear", "set", "maybe"}
    BY <1>3 DEF XRiscv_IsDone, EndWaitIf
  <2>4. drained' \in BOOLEAN
    BY <1>3 DEF XRiscv_IsDone, EndWaitIf
  <2> QED
    BY <2>1, <2>2, <2>3, <2>4
<1>4. CASE XRiscv_IsIdle
  BY <1>4 DEF XRiscv_IsIdle, EndWaitIf, ReadApCtrl, Access, interrupts, kernel, counts
<1>5. CASE XRiscv_IsReady
  BY <1>5 DEF XRiscv_IsReady, ReadApCtrl, Access, interrupts, kernel, counts
<1>6. CASE \E v \in BOOLEAN : XRiscv_Set_reset_riscv(v)
  BY <1>6 DEF XRiscv_Set_reset_riscv, Access, interrupts, kernel, client, counts
<1>7. CASE Configure
  <2>1. CASE \E v \in BOOLEAN : SetAutoRestart(v)
    BY <2>1 DEF SetAutoRestart, Access, interrupts, kernel, counts
  <2>2. CASE \E v \in BOOLEAN : SetGlobalEnable(v)
    BY <2>2 DEF SetGlobalEnable, Access, control, kernel, client, counts
  <2>3. CASE \E mask \in SUBSET events :
                XRiscv_InterruptEnable(mask) \/ XRiscv_InterruptDisable(mask)
    BY <2>3 DEF XRiscv_InterruptEnable, XRiscv_InterruptDisable, SetEnabled, Access,
      control, kernel, client, counts
  <2> QED
    BY <1>7, <2>1, <2>2, <2>3 DEF Configure, XRiscv_EnableAutoRestart, XRiscv_DisableAutoRestart
<1>8. CASE XRiscv_InterruptGetStatus
  BY <1>8 DEF XRiscv_InterruptGetStatus, Access, control, kernel, counts
<1>9. CASE \E advance \in BOOLEAN : Tick(advance)
  <2>1. isr' \in SUBSET events
    BY <1>9 DEF Tick, Latch
  <2>2. core' \in {"reset", "run", "store", "spin"}
    BY <1>9 DEF Tick, CoreStep
  <2>3. ap_start' \in BOOLEAN /\ done_bit' \in BOOLEAN /\ ap_start_r' \in BOOLEAN
    BY <1>9 DEF Tick, StartBit
  <2>4. ap_idle_r' \in BOOLEAN
    BY <1>9 DEF Tick, IdleLogic
  <2>5. ap_done_r' \in BOOLEAN
    BY <1>9 DEF Tick, DoneLogic
  <2>6. bus' \in {"free", "busy"} /\ UNCHANGED <<auto_restart, reset_riscv, gie, ier, client>>
    BY <1>9 DEF Tick
  <2> QED
    BY <2>1, <2>2, <2>3, <2>4, <2>5, <2>6 DEF client
<1>10. CASE UNCHANGED vars
  BY <1>10 DEF vars, control, interrupts, kernel, client, counts
<1> QED
  BY <1>1, <1>2, <1>3, <1>4, <1>5, <1>6, <1>7, <1>8, <1>9, <1>10 DEF Next, Client, Poll

\* Every step keeps the types of the counters.
LEMMA HCounters == ASSUME Counters, [Next]_vars PROVE Counters'
<1> USE DEF Counters
<1>1. CASE Client
  <2>1. CASE Configure
    BY <2>1 DEF Configure, XRiscv_EnableAutoRestart, XRiscv_DisableAutoRestart, SetAutoRestart,
      SetGlobalEnable, XRiscv_InterruptEnable, XRiscv_InterruptDisable, SetEnabled, counts
  <2> QED
    BY <1>1, <2>1 DEF Client, Poll, StartRead, StartWrite, XRiscv_IsDone, XRiscv_IsIdle,
      XRiscv_IsReady, XRiscv_Set_reset_riscv, XRiscv_InterruptGetStatus, counts
<1>2. CASE \E advance \in BOOLEAN : Tick(advance)
  BY <1>2 DEF Tick
<1>3. CASE UNCHANGED vars
  BY <1>3 DEF vars, counts
<1> QED
  BY <1>1, <1>2, <1>3 DEF Next

-----------------------------------------------------------------------------
\* Nothing has been started at first.
LEMMA HInit == Init => Inv
<1> SUFFICES ASSUME Init PROVE Inv
  OBVIOUS
<1>1. Types /\ Counters
  BY DEF Init, Types, Counters
<1>2. completed = started
  BY DEF Init
<1>3. RunInv
  BY <1>2 DEF Init, RunInv, BeliefHolds, Stopped
<1> QED
  BY <1>1, <1>3 DEF Inv

\* XRiscv_Start: it finds the core stopped and nothing latched, and starts a run.
LEMMA HStart == ASSUME Inv, StartRead \/ StartWrite PROVE RunInv'
<1>1. CASE StartRead
  BY <1>1 DEF Inv, Types, StartRead, ReadApCtrl, Access, RunInv, BeliefHolds, Stopped, Running,
    interrupts, kernel, counts
<1>2. CASE StartWrite
  <2>1. Stopped /\ ~done_bit /\ ~ap_start_r /\ (drained => isr = {})
    BY <1>2 DEF Inv, StartWrite, Access, RunInv, BeliefHolds
  <2>2. started' = completed' + 1
    BY <1>2, <2>1 DEF Inv, Counters, StartWrite, Stopped
  <2>3. Running' /\ ap_start'
    BY <1>2, <2>1, <2>2 DEF StartWrite, Access, Stopped, Running, kernel
  <2>4. sw' \in {"waiting", "armed"} /\ (sw' = "armed" => isr' = {})
    BY <1>2, <2>1 DEF StartWrite, interrupts
  <2>5. belief' \in {"set", "maybe"} /\ (belief' = "set" => ~auto_restart')
    BY <1>2 DEF StartWrite
  <2> QED
    BY <2>3, <2>4, <2>5 DEF RunInv, BeliefHolds
<1> QED
  BY <1>1, <1>2

\* A status call ends the wait only after the run, and IsReady tells the truth
\* of the start bit.
LEMMA HPoll == ASSUME Inv, Poll PROVE RunInv'
<1>1. bus' = "busy" /\ bus = "free" /\ done_bit' = FALSE /\ sw \in {"free", "waiting"}
  BY DEF Poll, XRiscv_IsDone, XRiscv_IsIdle, XRiscv_IsReady, ReadApCtrl, Access
<1>2. UNCHANGED <<ap_start, auto_restart, isr, kernel, started, completed>>
  BY DEF Poll, XRiscv_IsDone, XRiscv_IsIdle, XRiscv_IsReady, counts, interrupts, kernel
<1>3. sw' \in {"free", "waiting"}
  BY <1>1 DEF Poll, XRiscv_IsDone, XRiscv_IsIdle, XRiscv_IsReady, EndWaitIf
<1>4. /\ Stopped' <=> Stopped
      /\ Running => Running'
      /\ ap_start \/ Stopped
      /\ completed = started \/ Running
  BY <1>1, <1>2 DEF Inv, RunInv, Stopped, Running, kernel
<1>5. Running => sw' = "waiting" /\ belief' = belief
  <2> SUFFICES ASSUME Running PROVE sw' = "waiting" /\ belief' = belief
    OBVIOUS
  <2>1. ap_start /\ ~done_bit /\ ~ap_idle_r /\ completed # started
    BY <1>1 DEF Running, Inv, Counters
  <2>2. sw = "waiting"
    BY <1>1, <2>1 DEF Inv, RunInv, BeliefHolds
  <2> QED
    BY <2>1, <2>2 DEF Poll, XRiscv_IsDone, XRiscv_IsIdle, XRiscv_IsReady, EndWaitIf
<1>6. CASE XRiscv_IsReady
  <2>1. CASE ap_start
    <3>1. sw' = sw /\ belief' = belief /\ (drained' => drained)
      BY <1>6, <2>1 DEF XRiscv_IsReady
    <3> QED
      BY <1>1, <1>2, <1>4, <2>1, <3>1 DEF Inv, RunInv, BeliefHolds
  <2>2. CASE ~ap_start
    <3>1. sw' = "free" /\ belief' = "clear" /\ ~drained'
      BY <1>6, <2>2 DEF XRiscv_IsReady
    <3> QED
      BY <1>2, <1>4, <2>2, <3>1 DEF RunInv, BeliefHolds, Stopped
  <2> QED
    BY <2>1, <2>2 DEF Inv, Types
<1>7. CASE XRiscv_IsDone \/ XRiscv_IsIdle
  <2>1. PICK answer \in BOOLEAN : EndWaitIf(answer)
    BY <1>7 DEF XRiscv_IsDone, XRiscv_IsIdle, Inv, Types
  <2>2. sw = "waiting" /\ belief # "clear"
    BY <1>7 DEF XRiscv_IsDone, XRiscv_IsIdle, Inv, RunInv, BeliefHolds
  <2>3. CASE ~answer
    <3>1. sw' = "waiting" /\ belief' = belief
      BY <2>1, <2>3 DEF EndWaitIf
    <3> QED
      BY <1>2, <1>4, <2>2, <3>1 DEF Inv, RunInv, BeliefHolds
  <2>4. CASE answer
    <3>1. sw' = "free" /\ ~drained' /\ belief' = (IF belief = "set" THEN "clear" ELSE belief)
      BY <2>1, <2>4 DEF EndWaitIf
    <3>2. ~Running
      BY <1>5, <3>1
    <3>3. completed' = started' /\ (belief = "set" => Stopped)
      BY <1>2, <1>4, <3>2 DEF Inv, RunInv, BeliefHolds
    <3>4. belief' = "clear" => ~ap_start'
      BY <1>2, <2>2, <3>1, <3>3 DEF Stopped
    <3>5. belief' # "set"
      BY <3>1
    <3> QED
      BY <1>2, <1>4, <3>1, <3>3, <3>4, <3>5 DEF RunInv, BeliefHolds
  <2> QED
    BY <2>1, <2>3, <2>4
<1> QED
  BY <1>6, <1>7 DEF Poll

\* The other registers change under a client that knows of it.
LEMMA HConfigure ==
  ASSUME Inv, Configure \/ \E v \in BOOLEAN : XRiscv_Set_reset_riscv(v) PROVE RunInv'
<1>1. CASE \E v \in BOOLEAN : SetAutoRestart(v)
  BY <1>1 DEF SetAutoRestart, Access, Inv, Types, RunInv, BeliefHolds, Stopped, Running,
    interrupts, kernel, counts
<1>2. CASE /\ UNCHANGED <<ap_start, done_bit, auto_restart, isr, kernel, client, counts>>
           /\ bus' = "busy" /\ sw # "starting"
  <2>1. /\ Stopped' <=> Stopped
        /\ Running => Running'
        /\ ap_start \/ Stopped
        /\ completed = started \/ Running
    BY <1>2 DEF Inv, RunInv, Stopped, Running, kernel, counts
  <2>2. Running' => Running
    BY <1>2, <2>1 DEF Inv, Counters, Running, counts
  <2>3. UNCHANGED <<ap_start, auto_restart, isr, sw, belief, drained, started, completed>>
    BY <1>2 DEF client, counts
  <2> QED
    BY <1>2, <2>1, <2>2, <2>3 DEF Inv, RunInv, BeliefHolds
<1>3. CASE \E v \in BOOLEAN : XRiscv_Set_reset_riscv(v)
  BY <1>2, <1>3 DEF XRiscv_Set_reset_riscv, Access, interrupts
<1>4. CASE \E v \in BOOLEAN : SetGlobalEnable(v)
  BY <1>2, <1>4 DEF SetGlobalEnable, Access, control
<1>5. CASE \E mask \in SUBSET events : XRiscv_InterruptEnable(mask) \/ XRiscv_InterruptDisable(mask)
  BY <1>2, <1>5 DEF XRiscv_InterruptEnable, XRiscv_InterruptDisable, SetEnabled, Access, control
<1> QED
  BY <1>1, <1>3, <1>4, <1>5
  DEF Configure, XRiscv_EnableAutoRestart, XRiscv_DisableAutoRestart

\* The handler's status is the run's own: what an earlier run latched was read.
LEMMA HStatus == ASSUME Inv, XRiscv_InterruptGetStatus PROVE RunInv'
<1>1. UNCHANGED <<control, kernel, counts>> /\ bus' = "busy" /\ isr' = {}
  BY DEF XRiscv_InterruptGetStatus, Access
<1>2. /\ Stopped' <=> Stopped
      /\ Running => Running'
      /\ ap_start \/ Stopped
      /\ completed = started \/ Running
  BY <1>1 DEF Inv, RunInv, Stopped, Running, control, kernel, counts
<1>3. CASE sw = "armed" /\ isr # {}
  <2>1. sw' = "free" /\ belief' = IF belief = "set" THEN "clear" ELSE belief
    BY <1>3 DEF XRiscv_InterruptGetStatus
  <2>2. ~Running /\ belief # "clear"
    BY <1>3 DEF Inv, RunInv, BeliefHolds
  <2>3. completed' = started' /\ (belief = "set" => ~ap_start')
    BY <1>1, <1>2, <2>2 DEF Inv, RunInv, BeliefHolds, Stopped, control, counts
  <2> QED
    BY <1>1, <1>2, <2>1, <2>2, <2>3 DEF RunInv, BeliefHolds, Stopped, control, counts
<1>4. CASE ~(sw = "armed" /\ isr # {})
  <2>1. sw' = sw /\ belief' = belief /\ sw # "starting"
    BY <1>4 DEF XRiscv_InterruptGetStatus
  <2> QED
    BY <1>1, <1>2, <2>1 DEF Inv, RunInv, BeliefHolds, control, counts
<1> QED
  BY <1>3, <1>4

\* A clock edge starts nothing by itself, and the edge that ends a run clears
\* the done pulse and, but for auto_restart, the start bit: here ready has to
\* be done.
LEMMA HTick == ASSUME Inv, ReadyIsDone, NEW advance \in BOOLEAN, Tick(advance) PROVE RunInv'
<1> USE DEF Inv
<1>1. /\ UNCHANGED <<sw, belief, drained, auto_restart>>
      /\ started' = started /\ bus' = "free" /\ ap_start_r' = ap_start
      /\ ap_start' = (ap_start /\ (~ap_done_r \/ auto_restart))
      /\ done_bit' = (done_bit \/ ap_done_r)
  BY DEF Tick, StartBit, ap_ready, ap_done, client
<1>2. ~ap_done_r => isr' = isr /\ completed' = completed
  BY DEF Tick, Latch, ap_done, ap_ready
<1>3. ap_done_r => ~ap_done_r'
  BY DEF Tick, DoneLogic, ap_done
<1>4. CASE ~ap_start
  <2>1. Stopped
    BY <1>4 DEF RunInv
  <2>2. ~ap_start' /\ ~ap_done_r'
    BY <1>1, <2>1 DEF Stopped, Tick, DoneLogic, ap_done_i, reset_0, ap_done
  <2>3. Stopped' /\ ~Running
    BY <1>1, <1>2, <2>1, <2>2 DEF Stopped, Running
  <2>4. ~done_bit => ~done_bit'
    BY <1>1, <2>1 DEF Stopped
  <2>5. isr' = isr /\ completed' = started'
    BY <1>2, <2>1, <2>3 DEF Stopped
  <2>6. ~ap_start_r' /\ ~Running'
    BY <1>1, <1>4, <2>2 DEF Running
  <2> QED
    BY <1>1, <1>4, <2>2, <2>3, <2>4, <2>5, <2>6 DEF RunInv, BeliefHolds, Stopped
<1>5. CASE ap_start /\ Running /\ ap_done_r
  <2>1. completed' = started'
    BY <1>1, <1>5 DEF Running, Tick, ap_done, Counters
  <2>2. ap_start' \/ Stopped'
    BY <1>1, <1>3, <1>5, <2>1 DEF Stopped
  <2>3. belief = "set" => Stopped'
    BY <1>1, <1>5, <1>3, <2>1 DEF RunInv, BeliefHolds, Stopped
  <2>4. ~Running'
    BY <1>1, <1>5 DEF Running
  <2>5. belief # "clear" /\ sw # "starting" /\ sw # "free"
    BY <1>5 DEF RunInv, BeliefHolds, Running, Counters
  <2> QED
    BY <1>1, <2>1, <2>2, <2>3, <2>4, <2>5 DEF RunInv, BeliefHolds
<1>6. CASE ap_start /\ Running /\ ~ap_done_r
  <2>1. started' = completed' + 1
    BY <1>1, <1>2, <1>6 DEF Running
  <2>2. ~ap_idle_r'
    BY <1>6 DEF Running, Tick, IdleLogic, ap_start_pulse, ap_done, Types
  <2>3. Running' /\ ap_start'
    BY <1>1, <1>6, <2>1, <2>2 DEF Running
  <2>4. belief # "clear" /\ sw # "starting" /\ sw # "free"
    BY <1>6 DEF RunInv, BeliefHolds, Running, Counters
  <2>5. isr' = isr
    BY <1>2, <1>6
  <2> QED
    BY <1>1, <1>6, <2>3, <2>4, <2>5 DEF RunInv, BeliefHolds
<1>7. CASE ap_start /\ ~Running
  <2>1. completed = started /\ belief = "maybe" /\ sw # "starting"
    BY <1>7 DEF RunInv, BeliefHolds, Stopped, Types
  <2>2. completed' = completed
    BY <2>1 DEF Tick, Counters
  <2>3. ap_start' \/ Stopped'
    BY <1>1, <1>3, <1>7, <2>1, <2>2 DEF Stopped
  <2>4. ~Running'
    BY <1>1, <2>1, <2>2 DEF Running, Counters
  <2> QED
    BY <1>1, <2>1, <2>2, <2>3, <2>4 DEF RunInv, BeliefHolds
<1> QED
  BY <1>4, <1>5, <1>6, <1>7 DEF Types

\* The invariant is inductive when ready is done.
LEMMA HStep == ASSUME Inv, ReadyIsDone, [Next]_vars PROVE Inv'
<1>1. Types' /\ Counters'
  BY HTypes, HCounters DEF Inv
<1>2. CASE Client
  <2>1. RunInv'
    BY <1>2, HStart, HPoll, HConfigure, HStatus DEF Client
  <2> QED
    BY <1>1, <2>1 DEF Inv
<1>3. CASE \E advance \in BOOLEAN : Tick(advance)
  BY <1>1, <1>3, HTick DEF Inv
<1>4. CASE UNCHANGED vars
  <2>1. RunInv'
    BY <1>4 DEF Inv, RunInv, BeliefHolds, Stopped, Running, vars, control, interrupts,
      kernel, client, counts
  <2> QED
    BY <1>1, <2>1 DEF Inv
<1> QED
  BY <1>2, <1>3, <1>4 DEF Next

\* OneRunPerStart is what RunInv says of the counters and of the idle client.
LEMMA HSafe == Inv => OneRunPerStart
  BY DEF Inv, Types, Counters, RunInv, BeliefHolds, Stopped, Running, OneRunPerStart

\* With ready wired to done, every call of Start is one run with one
\* completion, for any number of calls and any way of waiting, polls or the
\* interrupt (riscv_example.sv:143-188, xriscv.c:22-75, 183-237).
THEOREM EachStartOneRun == ReadyIsDone => (Spec => []OneRunPerStart)
<1> SUFFICES ASSUME ReadyIsDone PROVE Spec => []OneRunPerStart
  OBVIOUS
<1>1. Inv /\ [Next]_vars => Inv'
  BY HStep
<1> QED
  BY HInit, HSafe, <1>1, PTL DEF Spec

\* The client's picture of the start bit, the owed run and the interrupt status
\* is right in every state, with ready wired to done.
THEOREM ClientKnows == ReadyIsDone => (Spec => []RunInv)
<1> SUFFICES ASSUME ReadyIsDone PROVE Spec => []RunInv
  OBVIOUS
<1>1. Inv /\ [Next]_vars => Inv'
  BY HStep
<1>2. Inv => RunInv
  BY DEF Inv
<1> QED
  BY HInit, <1>1, <1>2, PTL DEF Spec

-----------------------------------------------------------------------------
\* Reports lag behind completions, and Start is called on a start bit known to
\* be clear.
Told ==
  /\ reported <= completed
  /\ NoPhantomDone
  /\ sw = "starting" => belief = "clear"

\* A read takes the done bit only to report it; an edge sets it only with a
\* completion.
LEMMA HPhantom == ASSUME Types, Counters, Told, [Next]_vars PROVE Told'
<1> USE DEF Counters, Told, NoPhantomDone
<1>1. CASE StartRead \/ XRiscv_IsIdle \/ XRiscv_IsReady
  <2>1. ~done_bit' /\ UNCHANGED <<reported, completed>>
    BY <1>1 DEF StartRead, XRiscv_IsIdle, XRiscv_IsReady, ReadApCtrl, counts
  <2>2. sw' = "starting" => belief' = "clear"
    BY <1>1 DEF StartRead, XRiscv_IsIdle, XRiscv_IsReady, EndWaitIf
  <2> QED
    BY <2>1, <2>2
<1>2. CASE StartWrite
  <2>1. UNCHANGED <<done_bit, reported, completed>> /\ sw = "starting"
    BY <1>2 DEF StartWrite
  <2>2. belief # "maybe" /\ sw' # "starting"
    BY <1>2, <2>1 DEF StartWrite
  <2> QED
    BY <2>1, <2>2
<1>3. CASE XRiscv_IsDone
  <2>1. completed' = completed /\ ~done_bit'
    BY <1>3 DEF XRiscv_IsDone, ReadApCtrl
  <2>2. reported' = IF done_bit /\ belief # "maybe" THEN reported + 1 ELSE reported
    BY <1>3 DEF XRiscv_IsDone
  <2>3. sw' # "starting"
    BY <1>3 DEF XRiscv_IsDone, EndWaitIf
  <2>4. CASE done_bit /\ belief # "maybe"
    <3>1. reported' = reported + 1 /\ reported + 1 <= completed
      BY <2>2, <2>4
    <3> QED
      BY <2>1, <2>3, <3>1
  <2>5. CASE ~(done_bit /\ belief # "maybe")
    <3>1. reported' = reported
      BY <2>2, <2>5
    <3> QED
      BY <2>1, <2>3, <3>1
  <2> QED
    BY <2>4, <2>5
<1>4. CASE Configure \/ \E v \in BOOLEAN : XRiscv_Set_reset_riscv(v)
  <2>1. UNCHANGED <<done_bit, reported, completed>> /\ (belief' # "maybe" => belief' = belief)
    BY <1>4 DEF Configure, XRiscv_EnableAutoRestart, XRiscv_DisableAutoRestart, SetAutoRestart,
      SetGlobalEnable, XRiscv_InterruptEnable, XRiscv_InterruptDisable, SetEnabled,
      XRiscv_Set_reset_riscv, control, client, counts
  <2>2. sw' = "starting" => sw = "starting" /\ belief' = belief
    BY <1>4 DEF Configure, XRiscv_EnableAutoRestart, XRiscv_DisableAutoRestart, SetAutoRestart,
      SetGlobalEnable, XRiscv_InterruptEnable, XRiscv_InterruptDisable, SetEnabled,
      XRiscv_Set_reset_riscv, client
  <2> QED
    BY <2>1, <2>2
<1>5. CASE XRiscv_InterruptGetStatus
  <2>1. UNCHANGED <<done_bit, reported, completed>>
    BY <1>5 DEF XRiscv_InterruptGetStatus, control, counts
  <2>2. belief' # "maybe" => belief # "maybe"
    BY <1>5 DEF XRiscv_InterruptGetStatus
  <2>3. sw' # "starting"
    BY <1>5 DEF XRiscv_InterruptGetStatus
  <2> QED
    BY <2>1, <2>2, <2>3
<1>6. CASE \E advance \in BOOLEAN : Tick(advance)
  <2>1. PICK advance \in BOOLEAN : Tick(advance)
    BY <1>6
  <2>2. /\ UNCHANGED <<reported, belief, sw>>
        /\ done_bit' => done_bit \/ ap_done
    BY <2>1 DEF Tick, client
  <2>3. completed' = IF ap_done /\ (belief = "maybe" => completed < started)
                     THEN completed + 1 ELSE completed
    BY <2>1 DEF Tick
  <2>4. completed' \in Nat /\ completed <= completed'
    BY <2>3
  <2>5. CASE belief = "maybe"
    BY <2>2, <2>4, <2>5
  <2>6. CASE belief # "maybe" /\ ap_done
    <3>1. completed' = completed + 1 /\ reported <= completed
      BY <2>3, <2>6
    <3> QED
      BY <2>2, <3>1
  <2>7. CASE belief # "maybe" /\ ~ap_done
    <3>1. completed' = completed /\ (done_bit' => done_bit)
      BY <2>2, <2>3, <2>7
    <3> QED
      BY <2>2, <2>7, <3>1
  <2> QED
    BY <2>5, <2>6, <2>7
<1>7. CASE UNCHANGED vars
  BY <1>7 DEF vars, control, client, counts
<1> QED
  BY <1>1, <1>2, <1>3, <1>4, <1>5, <1>6, <1>7 DEF Next, Client, Poll

\* Whatever ready is wired to, IsDone says 1 at most once per completion
\* (xriscv.c:32-40, xriscv_hw.h:9: ap_done clears on read).
THEOREM ReportedAtMostOnce == Spec => []NoPhantomDone
<1>1. Init => Types /\ Counters /\ Told
  <2>1. Init => Types /\ Counters
    BY HInit DEF Inv
  <2>2. Init => Told
    BY DEF Init, Told, NoPhantomDone
  <2> QED
    BY <2>1, <2>2
<1>2. Types /\ Counters /\ Told /\ [Next]_vars => (Types /\ Counters /\ Told)'
  BY HTypes, HCounters, HPhantom
<1>3. Told => NoPhantomDone
  BY DEF Told
<1> QED
  BY <1>1, <1>2, <1>3, PTL DEF Spec
=============================================================================
