------------------------------ MODULE RiscvRun ------------------------------
(***************************************************************************)
(* The accelerator run of test5/test5.cpp: main() puts two operands in the *)
(* shared buffer, pulses the core's reset line, sleeps, and reads the sum  *)
(* the core stored next to the operands.  There is no handshake: that the  *)
(* word main() reads belongs to this iteration rests on what the reset     *)
(* does to the core (VexRiscvSignate.v, clocked and reset by               *)
(* riscv_custom2.sv): it restarts the program, flushes the data cache,     *)
(* kills a refill in progress and clears the count of pending writes,      *)
(* while the memory system goes on with the transfers it has accepted.     *)
(*                                                                         *)
(* One cache line holds the whole data area: word 0 and word 1 are the     *)
(* operands, word 2 is the result.                                         *)
(***************************************************************************)
EXTENDS Naturals, Sequences

CONSTANTS
  Data,          \* values of a 32-bit word
  Inputs,        \* the operands main() draws (rand()%100 / 100.0f in the code)
  WildData,      \* what a core that runs an unloaded program may store
  Add(_, _),     \* float addition: the FPU's fadd and main()'s a + b
  Iterations,    \* passes of main()'s loop (10000 in the code)
  LineWords,     \* words in a data cache line (8 in the code)
  MaxPending,    \* largest value of the pending-write counter (7 in the code)
  HoldDrains,    \* the sleep under reset outlasts the accepted transfers
  WaitCompletes  \* the sleep after the reset outlasts the program

Words == 0 .. (LineWords - 1)

ASSUME RunAssumption ==
  /\ Inputs \subseteq Data
  /\ WildData \subseteq Data
  /\ \A x, y \in Data : Add(x, y) \in Data
  /\ Iterations \in Nat
  /\ LineWords \in Nat /\ LineWords >= 3
  /\ MaxPending \in Nat /\ MaxPending >= 1
  /\ HoldDrains \in BOOLEAN
  /\ WaitCompletes \in BOOLEAN

VARIABLES
  hpc,          \* where main() is
  i,            \* iterations done
  a, b,         \* main()'s operands
  all_ok,       \* main()'s verdict so far
  reset_riscv,  \* bit 0 of the control register: the core's reset input
  mem,          \* the data area in DDR
  core,         \* where the core is in its seven instructions
  fa2, fa3,     \* the loaded operands
  line,         \* data of the cache line
  valid,        \* its tag is valid
  loading,      \* loader_valid: a refill is in progress
  cnt,          \* loader_counter_value: the word the next beat fills
  owed,         \* beats of accepted read bursts the memory has yet to send
  beat,         \* the word the next of those beats carries
  posted,       \* accepted writes that have not reached memory
  pend          \* the bridge's counter of pending writes

hostVars == <<hpc, i, a, b, all_ok>>
coreVars == <<core, fa2, fa3>>
cacheVars == <<line, valid, loading, cnt>>
readVars == <<owed, beat>>
writeVars == <<posted, pend>>
vars == <<hostVars, reset_riscv, mem, coreVars, cacheVars, readVars, writeVars>>

BootPCs == {"boot0", "boot1", "bootReset", "bootRelease"}
LoopPCs == {"draw", "loop0", "loop1", "loopReset", "loopRelease", "read", "done"}
CorePCs == {"wild", "flush", "flw0", "flw1", "fsw", "spin"}

\* The core has taken its last store and memory has it.
RunComplete == core = "spin" /\ posted = <<>>

\* Nothing the core was promised is still on its way.
Quiescent == owed = 0 /\ posted = <<>>

-----------------------------------------------------------------------------
(***************************************************************************)
(* Power-up: reset_riscv is 0 and the core runs whatever its instruction   *)
(* memory holds, before main() has put a program there.                    *)
(***************************************************************************)
Init ==
  /\ hpc = "boot0" /\ i = 0 /\ all_ok = TRUE
  /\ a \in Inputs /\ b \in Inputs
  /\ reset_riscv = 0
  /\ mem \in {[w \in Words |-> d] : d \in WildData}
  /\ core = "wild"
  /\ fa2 \in WildData /\ fa3 = fa2
  /\ line = mem /\ valid = FALSE
  /\ loading = FALSE /\ cnt = 0
  /\ owed = 0 /\ beat = 0
  /\ posted = <<>> /\ pend = 0

-----------------------------------------------------------------------------
(* main() *)

\* DMEM_BASE[w] = v, through an uncached mapping of the buffer.
HostStore(at, w, v, next) ==
  /\ hpc = at /\ hpc' = next
  /\ mem' = [mem EXCEPT ![w] = v]
  /\ UNCHANGED <<i, a, b, all_ok, reset_riscv, coreVars, cacheVars, readVars, writeVars>>

\* The sample operands stored once, while the core still runs at will.
BootStores == HostStore("boot0", 0, a, "boot1") \/ HostStore("boot1", 1, b, "bootReset")

\* Mutant: the reset stops the loader but not its word counter.
ResetCoreKeepsCounter ==
  /\ core' = "flush"
  /\ loading' = FALSE /\ cnt' = cnt
  /\ pend' = 0

\* What an asserted reset does to the core's registers.
ResetCore ==
  /\ core' = "flush"
  /\ loading' = FALSE /\ cnt' = 0
  /\ pend' = 0

XRiscv_Set_reset_riscv(v, at, next) ==
  /\ hpc = at /\ hpc' = next
  /\ reset_riscv' = v
  /\ IF v = 1 THEN ResetCore ELSE UNCHANGED <<core, loading, cnt, pend>>
  /\ UNCHANGED <<i, a, b, all_ok, mem, fa2, fa3, line, valid, readVars, posted>>

\* Mutant: the first pulse is too short for the transfers on their way.
BootPulseTooShort ==
  \/ XRiscv_Set_reset_riscv(1, "bootReset", "bootRelease")
  \/ XRiscv_Set_reset_riscv(0, "bootRelease", "draw")

\* The first reset pulse; sleep(1) holds it.
BootPulse ==
  \/ XRiscv_Set_reset_riscv(1, "bootReset", "bootRelease")
  \/ (HoldDrains => Quiescent) /\ XRiscv_Set_reset_riscv(0, "bootRelease", "draw")

\* Head of the loop: draw the operands, or leave.
Draw ==
  /\ hpc = "draw"
  /\ IF i < Iterations
       THEN /\ a' \in Inputs /\ b' \in Inputs
            /\ hpc' = "loop0"
       ELSE hpc' = "done" /\ UNCHANGED <<a, b>>
  /\ UNCHANGED <<i, all_ok, reset_riscv, mem, coreVars, cacheVars, readVars, writeVars>>

LoopStores == HostStore("loop0", 0, a, "loop1") \/ HostStore("loop1", 1, b, "loopReset")

\* Mutant: the iteration releases the reset without having asserted it.
LoopPulseReleaseOnly ==
  \/ XRiscv_Set_reset_riscv(0, "loopReset", "loopRelease")
  \/ (HoldDrains => Quiescent) /\ XRiscv_Set_reset_riscv(0, "loopRelease", "read")

\* Mutant: the pulse is too short for the transfers on their way.
LoopPulseTooShort ==
  \/ XRiscv_Set_reset_riscv(1, "loopReset", "loopRelease")
  \/ XRiscv_Set_reset_riscv(0, "loopRelease", "read")

\* The pulse of one iteration; usleep(100) holds it.
LoopPulse ==
  \/ XRiscv_Set_reset_riscv(1, "loopReset", "loopRelease")
  \/ (HoldDrains => Quiescent) /\ XRiscv_Set_reset_riscv(0, "loopRelease", "read")

\* usleep(100), then c = DMEM_BASE[2] and the comparison with a + b.
ReadResult ==
  /\ hpc = "read" /\ hpc' = "draw"
  /\ WaitCompletes => RunComplete
  /\ all_ok' = (all_ok /\ Add(a, b) = mem[2])
  /\ i' = i + 1
  /\ UNCHANGED <<a, b, reset_riscv, mem, coreVars, cacheVars, readVars, writeVars>>

main == BootStores \/ BootPulse \/ Draw \/ LoopStores \/ LoopPulse \/ ReadResult

-----------------------------------------------------------------------------
(* The core: program order, through the data cache. *)

\* Mutant: the tags outlive the reset.
FlushKeepsTags ==
  /\ core = "flush" /\ reset_riscv = 0
  /\ core' = "flw0"
  /\ UNCHANGED <<hostVars, reset_riscv, mem, fa2, fa3, cacheVars, readVars, writeVars>>

\* Out of reset every line is invalidated before the first load may execute.
Flush ==
  /\ core = "flush" /\ reset_riscv = 0
  /\ valid' = FALSE
  /\ core' = "flw0"
  /\ UNCHANGED <<hostVars, reset_riscv, mem, fa2, fa3, line, loading, cnt, readVars, writeVars>>

\* A load that misses asks for the line once, and only when no write is pending.
StartRefill ==
  /\ ~valid /\ ~loading
  /\ pend = 0
  /\ loading' = TRUE
  /\ owed' = owed + LineWords
  /\ UNCHANGED <<hostVars, reset_riscv, mem, coreVars, line, valid, cnt, beat, writeVars>>

\* A load that hits takes its word from the line.
LoadHit ==
  /\ valid
  /\ \/ core = "flw0" /\ fa2' = line[0] /\ fa3' = fa3 /\ core' = "flw1"
     \/ core = "flw1" /\ fa3' = line[1] /\ fa2' = fa2 /\ core' = "fsw"
  /\ UNCHANGED <<hostVars, reset_riscv, mem, cacheVars, readVars, writeVars>>

\* Mutant: a store leaves the line alone even when it hits.
StoreWordAround(w, d) ==
  /\ pend < MaxPending
  /\ pend' = pend + 1
  /\ posted' = Append(posted, [word |-> w, data |-> d])
  /\ UNCHANGED <<hostVars, reset_riscv, mem, fa2, fa3, cacheVars, readVars>>

\* A store goes to the bridge and, on a hit, to the line as well.
StoreWord(w, d) ==
  /\ pend < MaxPending
  /\ pend' = pend + 1
  /\ posted' = Append(posted, [word |-> w, data |-> d])
  /\ line' = IF valid THEN [line EXCEPT ![w] = d] ELSE line
  /\ UNCHANGED <<hostVars, reset_riscv, mem, fa2, fa3, valid, loading, cnt, readVars>>

\* fadd and fsw, then the branch to itself.
StoreSum == core = "fsw" /\ core' = "spin" /\ StoreWord(2, Add(fa2, fa3))

\* Before the first reset the core may load and store anything in the area.
Wild ==
  /\ core = "wild"
  /\ \/ StartRefill
     \/ ~loading /\ core' = core /\ \E w \in Words, d \in WildData : StoreWord(w, d)

Core == Flush \/ (core \in {"flw0", "flw1"} /\ StartRefill) \/ LoadHit \/ StoreSum

-----------------------------------------------------------------------------
(* The memory system, which reset_riscv does not reach. *)

\* Mutant: the word counters run past the end of the line.
NextWordRunsOn(w) == w + 1

\* The loader's and the burst's word counters wrap at the end of the line.
NextWord(w) == IF w = LineWords - 1 THEN 0 ELSE w + 1

\* A beat of the oldest burst: it fills the line if a refill is in progress
\* and is dropped otherwise; the last one makes the line valid.
ReadBeat ==
  /\ owed > 0
  /\ owed' = owed - 1
  /\ beat' = NextWord(beat)
  /\ IF loading
       THEN /\ line' = [line EXCEPT ![cnt] = mem[beat]]
            /\ cnt' = NextWord(cnt)
            /\ loading' = (cnt # LineWords - 1)
            /\ valid' = (valid \/ cnt = LineWords - 1)
       ELSE UNCHANGED cacheVars
  /\ UNCHANGED <<hostVars, reset_riscv, mem, coreVars, writeVars>>

\* The counter has MaxPending as its all-ones value and wraps.
Retire(p) == IF p = 0 THEN MaxPending ELSE p - 1

\* Mutant: responses are counted while the reset is asserted.
WriteLandsCountsInReset ==
  /\ posted # <<>>
  /\ mem' = [mem EXCEPT ![Head(posted).word] = Head(posted).data]
  /\ posted' = Tail(posted)
  /\ pend' = Retire(pend)
  /\ UNCHANGED <<hostVars, reset_riscv, coreVars, cacheVars, readVars>>

\* The oldest write reaches memory and its response decrements the counter,
\* which an asserted reset holds at zero.
WriteLands ==
  /\ posted # <<>>
  /\ mem' = [mem EXCEPT ![Head(posted).word] = Head(posted).data]
  /\ posted' = Tail(posted)
  /\ pend' = IF reset_riscv = 1 THEN 0 ELSE Retire(pend)
  /\ UNCHANGED <<hostVars, reset_riscv, coreVars, cacheVars, readVars>>

Memory == ReadBeat \/ WriteLands

-----------------------------------------------------------------------------
Terminated == hpc = "done" /\ Quiescent /\ UNCHANGED vars

Next == main \/ Core \/ Wild \/ Memory \/ Terminated

Spec == Init /\ [][Next]_vars

\* main() and the clocked logic keep going; a wild core is owed nothing.
FairSpec == Spec /\ WF_vars(main) /\ WF_vars(Core) /\ WF_vars(ReadBeat) /\ WF_vars(WriteLands)

-----------------------------------------------------------------------------
(* Properties *)

WriteRec == [word : Words, data : Data]

\* Types of the variables of main(), the core, its cache and the bridge.
TypeOK ==
  /\ hpc \in BootPCs \cup LoopPCs
  /\ i \in Nat /\ all_ok \in BOOLEAN
  /\ a \in Inputs /\ b \in Inputs
  /\ reset_riscv \in {0, 1}
  /\ mem \in [Words -> Data] /\ line \in [Words -> Data]
  /\ core \in CorePCs /\ fa2 \in Data /\ fa3 \in Data
  /\ valid \in BOOLEAN /\ loading \in BOOLEAN
  /\ cnt \in Words /\ beat \in Words /\ owed \in Nat
  /\ posted \in Seq(WriteRec) /\ pend \in 0 .. MaxPending

\* Once the program of this iteration has finished, the word main() is about
\* to read is the sum of this iteration's operands, wherever the reset pulse
\* cut the run before it (test5.cpp:163-174).
FreshResult == hpc = "read" /\ RunComplete => mem[2] = Add(a, b)

\* A refill receives exactly the beats of its own burst, in order: beats of a
\* burst the reset cut never land in the line of the next run.
AlignedRefill == loading => owed = LineWords - cnt /\ beat = cnt

\* While the core runs, the pending-write counter is the number of writes on
\* their way: a reset in the middle of a write leaves it neither too high
\* (loads would wait forever) nor wrapped below zero.
PendingExact == reset_riscv = 0 => pend = Len(posted)

\* The line the core loads from shows what main() stored, although main()
\* writes memory behind the cache and nothing but the reset flushes it.
CoherentLine ==
  hpc = "read" /\ valid /\ core # "flush" =>
    /\ line[0] = mem[0] /\ line[1] = mem[1]
    /\ posted = <<>> => line[2] = mem[2]

\* With sleeps long enough, main() prints ALL PASSED.
AllPassed == all_ok

\* After the first reset only main() changes the operands: no store of the
\* unloaded program, delayed in the memory system, reaches them.
OperandsOwnedByMain ==
  [][(hpc \in LoopPCs /\ hpc \notin {"loop0", "loop1"}) =>
       mem'[0] = mem[0] /\ mem'[1] = mem[1]]_vars

\* main() leaves its loop: no iteration waits for a core that waits forever.
Finishes == <>(hpc = "done")

-----------------------------------------------------------------------------
(***************************************************************************)
(* The inductive invariant behind FreshResult, when the sleep under reset  *)
(* drains the transfers.                                                   *)
(***************************************************************************)

\* An asserted reset holds the core, its loader and its counter.
HeldInReset ==
  reset_riscv = 1 => core = "flush" /\ ~loading /\ cnt = 0 /\ pend = 0

\* At most one burst is on its way; the beats it owes are the rest of the line.
OneBurst ==
  /\ beat # 0 => owed = LineWords - beat
  /\ beat = 0 => owed \in {0, LineWords}
  /\ loading => ~valid /\ owed = LineWords - cnt /\ beat = cnt
  /\ ~loading => cnt = 0 /\ (reset_riscv = 0 => owed = 0)

\* Where main() is determines the reset line and what memory holds of its operands.
HostPhase ==
  /\ reset_riscv = IF hpc \in {"bootRelease", "loopRelease"} THEN 1 ELSE 0
  /\ hpc \in LoopPCs => core # "wild" /\ \A k \in 1 .. Len(posted) : posted[k].word = 2
  /\ hpc \in {"loop1", "loopReset", "loopRelease", "read"} => mem[0] = a
  /\ hpc \in {"loopReset", "loopRelease", "read"} => mem[1] = b

\* How far the run of this iteration has got, and what it has seen.
RunProgress ==
  /\ core \in {"flush", "flw0", "flw1", "fsw"} /\ reset_riscv = 0 => posted = <<>>
  /\ core = "flush" /\ reset_riscv = 0 => ~loading
  /\ loading /\ core # "wild" => core \in {"flw0", "flw1"}
  /\ hpc = "read" =>
       /\ valid /\ core # "flush" => line[0] = a /\ line[1] = b
       /\ loading => \A w \in 0 .. 1 : w < cnt => line[w] = mem[w]
       /\ core \in {"flw1", "fsw", "spin"} => fa2 = a
       /\ core \in {"fsw", "spin"} => fa3 = b
       /\ core = "spin" => IF posted = <<>>
                           THEN mem[2] = Add(a, b)
                           ELSE posted = <<[word |-> 2, data |-> Add(a, b)]>>

\* The result's word of the line is memory's, or what the write on its way
\* will make of it.
ResultInLine ==
  hpc = "read" =>
    /\ loading /\ 2 < cnt => line[2] = mem[2]
    /\ valid /\ core # "flush" => line[2] = IF posted = <<>> THEN mem[2] ELSE posted[1].data

\* Everything FreshResult and CoherentLine need from one state to the next.
IInv ==
  TypeOK /\ HeldInReset /\ PendingExact /\ OneBurst /\ HostPhase /\ RunProgress /\ ResultInLine
=============================================================================
