----------------------------- MODULE ICacheFill -----------------------------
(***************************************************************************)
(* The instruction side of the accelerator run: main() of test5 stores the *)
(* program while the core runs at will, and the reset pulses make the core *)
(* fetch it.  The instruction cache of VexRiscvSignate.v refills lines by  *)
(* bursts that reset_riscv does not stop, and counts every response word,  *)
(* whether or not a refill is in progress.                                 *)
(*                                                                         *)
(* The cache is direct-mapped.  An instruction is fetched and decoded in   *)
(* one step, but for the one that was fetched behind a fence.i and misses  *)
(* in the clock the flush starts: its refill races the flush.  The memory  *)
(* answers without error (riscv_custom2.sv ties the response to OKAY), and *)
(* the core's own stores do not reach the program.                         *)
(***************************************************************************)
EXTENDS Naturals, Sequences

CONSTANTS
  Insn,       \* instruction words
  NumLines,   \* lines of memory the core may fetch from; 0 is the reset vector's
  NumSets,    \* lines of the cache (128 in the code)
  LineWords,  \* words of a line (8 in the code)
  Boot,       \* what memory holds at power-up
  Program     \* the words main() stores (7 in the code)

Lines == 0 .. (NumLines - 1)
Sets == 0 .. (NumSets - 1)
Words == 0 .. (LineWords - 1)

ASSUME FillAssumption ==
  /\ NumLines \in Nat \ {0} /\ NumSets \in Nat \ {0} /\ LineWords \in Nat \ {0, 1}
  /\ Boot \in [Lines -> [Words -> Insn]]
  /\ Program \in Seq(Insn) /\ 1 <= Len(Program) /\ Len(Program) <= LineWords

VARIABLES
  hpc, k,        \* main(): where it is, and how many program words it has stored
  imem,          \* the program area in DDR
  reset_riscv,   \* the core's reset input
  pc,            \* the line the core fetches from
  tags, bank,    \* the line each set holds, and its words
  lineValid,     \* lineLoader_valid: a refill is in progress
  lineAddr,      \* lineLoader_address
  cmdSent,       \* lineLoader_cmdSent
  wordIndex,     \* lineLoader_wordIndex
  flushPending,  \* lineLoader_flushPending
  flushCounter,  \* lineLoader_flushCounter, NumSets when bit 7 is set
  late,          \* the instruction fetched behind a fence.i will miss
  bursts, beat   \* accepted bursts, and the word the next response carries

hostVars == <<hpc, k, imem, reset_riscv>>
loader == <<lineValid, lineAddr, cmdSent, wordIndex>>
flush == <<flushPending, flushCounter, late>>
memory == <<bursts, beat>>
vars == <<hostVars, pc, tags, bank, loader, flush, memory>>

None == NumLines          \* an invalid tag
SetOf(l) == l % NumSets

\* Power-up: the core runs what memory holds; block RAM is cleared.
Init ==
  /\ hpc = "load" /\ k = 0 /\ imem = Boot /\ reset_riscv = 0
  /\ pc = 0
  /\ tags = [s \in Sets |-> None] /\ bank = [s \in Sets |-> Boot[0]]
  /\ lineValid = FALSE /\ lineAddr = 0 /\ cmdSent = FALSE /\ wordIndex = 0
  /\ flushPending \in BOOLEAN /\ flushCounter = 0 /\ late = FALSE
  /\ bursts = <<>> /\ beat = 0

-----------------------------------------------------------------------------
(* main() *)

\* IMEM_BASE[k] = ...
StoreProgram ==
  /\ hpc = "load" /\ k < Len(Program)
  /\ imem' = [imem EXCEPT ![0][k] = Program[k + 1]]
  /\ k' = k + 1
  /\ hpc' = IF k' = Len(Program) THEN "loaded" ELSE "load"
  /\ UNCHANGED <<reset_riscv, pc, tags, bank, loader, flush, memory>>

\* Mutant: the reset does not ask for a flush.
ResetCacheNoFlush ==
  /\ lineValid' = FALSE /\ cmdSent' = FALSE /\ wordIndex' = 0
  /\ flushPending' = flushPending

\* What an asserted reset does to the cache's registers.
ResetCache ==
  /\ lineValid' = FALSE /\ cmdSent' = FALSE /\ wordIndex' = 0
  /\ flushPending' = TRUE

\* XRiscv_Set_reset_riscv(1), after the program is stored and in every pass
\* of the loop, whatever the core is doing.
AssertReset ==
  /\ hpc \in {"loaded", "run"} /\ hpc' = "hold"
  /\ reset_riscv' = 1
  /\ ResetCache /\ pc' = 0 /\ late' = FALSE
  /\ UNCHANGED <<k, imem, tags, bank, lineAddr, flushCounter, memory>>

\* Mutant: main() does not sleep under reset.
ReleaseResetAtOnce ==
  /\ hpc = "hold" /\ hpc' = "run"
  /\ reset_riscv' = 0
  /\ UNCHANGED <<k, imem, pc, tags, bank, loader, flush, memory>>

\* XRiscv_Set_reset_riscv(0): the sleep under reset outlasts the burst.
ReleaseReset ==
  /\ hpc = "hold" /\ hpc' = "run"
  /\ bursts = <<>>
  /\ reset_riscv' = 0
  /\ UNCHANGED <<k, imem, pc, tags, bank, loader, flush, memory>>

main == StoreProgram \/ AssertReset \/ ReleaseReset

-----------------------------------------------------------------------------
(* The core and its instruction cache *)

\* io_cpu_prefetch_haltIt
Halted == lineValid \/ flushPending \/ flushCounter < NumSets

Hit(l) == tags[SetOf(l)] = l

Executable == reset_riscv = 0 /\ ~Halted /\ Hit(pc)

\* An instruction of the fetched line runs; it may jump, and a fence.i asks
\* for a flush with the next instruction fetched already, or none.
Execute ==
  /\ Executable
  /\ pc' \in Lines /\ flushPending' \in BOOLEAN
  /\ late' \in BOOLEAN /\ (late' => flushPending' /\ ~Hit(pc'))
  /\ UNCHANGED <<hostVars, tags, bank, loader, flushCounter, memory>>

\* io_cpu_fill_valid: decode finds the tag of another line, or none.
Miss ==
  /\ reset_riscv = 0 /\ ~Halted /\ ~Hit(pc)
  /\ lineValid' = TRUE /\ lineAddr' = pc
  /\ UNCHANGED <<hostVars, pc, tags, bank, cmdSent, wordIndex, flush, memory>>

\* io_mem_cmd_fire: one burst for one refill.
Command ==
  /\ lineValid /\ ~cmdSent
  /\ cmdSent' = TRUE
  /\ bursts' = Append(bursts, lineAddr)
  /\ UNCHANGED <<hostVars, pc, tags, bank, lineValid, lineAddr, wordIndex, flush, beat>>

\* A flush starts when no refill is in progress; under reset it stays pending.
\* A late miss starts its refill in the same clock.
FlushStart ==
  /\ flushPending /\ ~lineValid
  /\ lineValid' = late /\ lineAddr' = IF late THEN pc ELSE lineAddr
  /\ late' = FALSE
  /\ flushPending' = (reset_riscv = 1)
  /\ flushCounter' = 0
  /\ tags' = IF flushCounter < NumSets THEN [tags EXCEPT ![flushCounter] = None] ELSE tags
  /\ UNCHANGED <<hostVars, pc, bank, cmdSent, wordIndex, memory>>

\* One set per clock.
FlushStep ==
  /\ flushCounter < NumSets
  /\ ~(flushPending /\ ~lineValid)
  /\ tags' = [tags EXCEPT ![flushCounter] = None]
  /\ flushCounter' = flushCounter + 1
  /\ UNCHANGED <<hostVars, pc, bank, loader, flushPending, late, memory>>

-----------------------------------------------------------------------------
(* Response words *)

\* Mutant: the word counters run past the end of the line.
NextWordRunsOn(w) == w + 1

NextWord(w) == IF w = LineWords - 1 THEN 0 ELSE w + 1

\* Mutant: the end of a refill leaves the command marked as sent.
LineDoneKeepsSent ==
  /\ lineValid' = FALSE /\ cmdSent' = cmdSent
  /\ tags' = [tags EXCEPT ![SetOf(lineAddr)] = lineAddr]

\* lineLoader_fire: the line is valid, unless a flush has the tag port.
LineDone ==
  /\ lineValid' = FALSE /\ cmdSent' = FALSE
  /\ tags' = IF flushCounter = NumSets THEN [tags EXCEPT ![SetOf(lineAddr)] = lineAddr]
                                       ELSE [tags EXCEPT ![flushCounter] = None]

\* Every word goes to the bank at the loader's address and index and, out of
\* reset, counts; the refill is over when the index wraps.
Response ==
  /\ bursts # <<>>
  /\ bank' = [bank EXCEPT ![SetOf(lineAddr)][wordIndex] = imem[Head(bursts)][beat]]
  /\ beat' = NextWord(beat)
  /\ bursts' = IF beat = LineWords - 1 THEN Tail(bursts) ELSE bursts
  /\ wordIndex' = IF reset_riscv = 1 THEN 0 ELSE NextWord(wordIndex)
  /\ IF reset_riscv = 0 /\ wordIndex = LineWords - 1
       THEN LineDone ELSE UNCHANGED <<lineValid, cmdSent, tags>>
  /\ UNCHANGED <<hostVars, pc, lineAddr, flush>>

-----------------------------------------------------------------------------
Next == main \/ Execute \/ Miss \/ Command \/ FlushStart \/ FlushStep \/ Response

Spec == Init /\ [][Next]_vars

\* The cache is clocked and the memory accepts and answers.
FairSpec ==
  /\ Spec
  /\ WF_vars(Miss) /\ WF_vars(Command) /\ WF_vars(Response)
  /\ WF_vars(FlushStart) /\ WF_vars(FlushStep)

-----------------------------------------------------------------------------
(* Properties *)

\* Types of main()'s, the cache's and the memory's variables.
TypeOK ==
  /\ hpc \in {"load", "loaded", "hold", "run"} /\ k \in 0 .. Len(Program)
  /\ imem \in [Lines -> [Words -> Insn]]
  /\ reset_riscv \in {0, 1} /\ pc \in Lines
  /\ tags \in [Sets -> Lines \cup {None}] /\ bank \in [Sets -> [Words -> Insn]]
  /\ lineValid \in BOOLEAN /\ lineAddr \in Lines
  /\ cmdSent \in BOOLEAN /\ wordIndex \in Words
  /\ flushPending \in BOOLEAN /\ flushCounter \in 0 .. NumSets /\ late \in BOOLEAN
  /\ bursts \in Seq(Lines) /\ beat \in Words

\* A response word that comes while the core runs belongs to the refill in
\* progress and lands at its own place in the line, although the cache counts
\* words without looking whether a refill is in progress (VexRiscvSignate.v:17598).
WordsInPlace ==
  reset_riscv = 0 /\ bursts # <<>> =>
    /\ lineValid /\ cmdSent
    /\ bursts = <<lineAddr>> /\ beat = wordIndex

\* After the first pulse the core executes the program main() stored, and never
\* a line fetched before it was stored or cut by a reset (test5.cpp:69-83, 126-132).
RunsTheProgram == hpc = "run" /\ Executable => bank[SetOf(pc)] = imem[pc]

\* The core is never left without an instruction: every miss, every flush and
\* every reset ends with one that may execute, or with the next reset.
AlwaysFetches == []<>(Executable \/ reset_riscv = 1)

-----------------------------------------------------------------------------
(* The inductive invariant behind RunsTheProgram. *)

\* Where main() is determines the reset line, and an asserted reset the cache.
HeldInReset ==
  /\ reset_riscv = IF hpc = "hold" THEN 1 ELSE 0
  /\ reset_riscv = 1 => ~lineValid /\ ~cmdSent /\ wordIndex = 0 /\ flushPending
  /\ late => reset_riscv = 0 /\ flushPending
  /\ hpc = "load" => k < Len(Program)

\* At most one burst is on its way; a running loader has it to itself.
OneBurst ==
  /\ bursts = <<>> => beat = 0
  /\ reset_riscv = 0 =>
       /\ cmdSent => lineValid /\ bursts = <<lineAddr>> /\ beat = wordIndex
       /\ ~cmdSent => bursts = <<>> /\ wordIndex = 0

\* While a flush runs, the sets it has passed are empty, even the one that a
\* late refill writes.
Emptied == flushCounter < NumSets => \A s \in Sets : s < flushCounter => tags[s] = None

\* A tag that the flush has passed, outside the line being filled, tells the
\* truth; of the line being filled, the words so far do.
CleanLines ==
  hpc = "run" =>
    /\ ~flushPending => \A s \in Sets :
         s < flushCounter /\ tags[s] # None /\ ~(lineValid /\ s = SetOf(lineAddr))
           => SetOf(tags[s]) = s /\ bank[s] = imem[tags[s]]
    /\ lineValid => \A w \in Words :
         w < wordIndex => bank[SetOf(lineAddr)][w] = imem[lineAddr][w]

FillInv == TypeOK /\ HeldInReset /\ OneBurst /\ Emptied /\ CleanLines
=============================================================================
