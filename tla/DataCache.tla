------------------------------ MODULE DataCache ------------------------------
(***************************************************************************)
(* The data cache of VexRiscvSignate.v, clock edge by clock edge, with the *)
(* execute, memory and write-back stages around it.                        *)
(*                                                                         *)
(* A load's tag and word are read on the edge that takes it from execute   *)
(* to memory, two stages before its turn comes; what is written in between *)
(* is noticed by two comparators, and such a load is made again.  A load   *)
(* that misses starts a refill and is made again too.  A store goes to     *)
(* memory and, if its line is cached, to the cache.  A flush invalidates a *)
(* set per clock, with the execute stage held.                             *)
(*                                                                         *)
(* An instruction that is neither load, store nor flush is a bubble here.  *)
(* The bus below is PortMemory, which DBusAxiBridge is shown to implement; *)
(* what the code keeps in registers of empty stages is left out.           *)
(***************************************************************************)
EXTENDS Naturals, Sequences

CONSTANTS
  CachedLine, IoLine,  \* lines of memory, and words beyond 0xF0000000
  LastWord,            \* words of a line are 0 .. LastWord (7 in the code)
  LastSet,             \* sets are 0 .. LastSet (127)
  SetOfLine,           \* address bits 11 to 5
  Val, Instr,          \* words, and the instructions the program is made of
  HostWord,            \* words that main() writes
  Mem0, Word0,         \* what memory, the cache and the last load hold at first
  None

Word == 0 .. LastWord
Sets == 0 .. LastSet
CachedWord == CachedLine \X Word
IoWord == IoLine \X {0}
Addr == CachedWord \cup IoWord

\* A flush is of every set or, if its rs1 field is not 0, of one.
Scope == {Sets} \cup {{s} : s \in Sets}

ASSUME CacheAssumption ==
  /\ LastWord \in Nat \ {0} /\ LastSet \in Nat \ {0}
  /\ CachedLine \cap IoLine = {} /\ SetOfLine \in [CachedLine -> Sets]
  /\ Instr \subseteq [op : {"load"}, addr : Addr] \cup [op : {"store"}, addr : Addr, data : Val]
                     \cup [op : {"flush"}, sets : Scope]
  /\ HostWord \subseteq CachedWord /\ Mem0 \in [Addr -> Val] /\ Word0 \in Val
  /\ None \notin Instr \cup CachedLine \cup IoLine \cup Addr \cup Val \cup Scope
                 \cup (Sets \X Word)

VARIABLES
  ex, me, wb,       \* the instruction in execute, memory and write-back
  again,            \* the instruction that the redo branch makes decode fetch anew
  stageA,           \* read with the instruction in memory: tag, word, collision
  stageB,           \* the same one stage later: hit, word, collision
  addrB,            \* stageB_mmuRsp_physicalAddress
  sent,             \* memCmdSent
  loading,          \* loader_valid
  loadingBefore,    \* loader_valid_regNext
  count,            \* loader_counter
  start, waitDone,  \* stageB_flusher_start and _waitDone
  counter,          \* _counter: the set to invalidate, or LastSet + 1 for bit 7
  left,             \* the scope read from the instruction that a reset left in execute
  tags, data,       \* the cache's two memories
  rd,               \* the next word of the read that memory has to answer
  mem, stale, got   \* as in ProgramOrder; stale is kept for the proof only

stages == <<ex, me, wb, again, stageA, stageB, addrB, sent>>
loader == <<loading, loadingBefore, count>>
flusher == <<start, waitDone, counter, left>>
vars == <<stages, loader, flusher, tags, data, rd, mem, stale, got>>

NoA == [line |-> None, data |-> None, coll |-> FALSE]
NoB == [hit |-> FALSE, data |-> None, coll |-> FALSE]

\* After power-up, when the tag memory holds zeros, with the flush that a reset leaves.
Init ==
  /\ ex = None /\ me = None /\ wb = None /\ again = None
  /\ stageA = NoA /\ stageB = NoB /\ addrB = None /\ sent = FALSE
  /\ loading = FALSE /\ loadingBefore = FALSE /\ count = 0
  /\ start = TRUE /\ waitDone = FALSE /\ counter = 0 /\ left = Sets
  /\ tags = [s \in Sets |-> None]
  /\ data = [x \in Sets \X Word |-> Word0]
  /\ rd = None
  /\ mem = Mem0 /\ got = Word0
  /\ stale = [a \in CachedWord |-> {}]

-----------------------------------------------------------------------------
(* Write-back: what the cache does for the instruction there, given whether *)
(* the bus accepts a command and whether it answers a word.                 *)

IsA(i, op) == i # None /\ i.op = op
MemoryEnable(i) == IsA(i, "load") \/ IsA(i, "store")

bypass == addrB \in IoWord
Miss == IsA(wb, "load") /\ ~bypass /\ ~stageB.hit

\* io_mem_cmd: a store is offered until it leaves the stage, a read once.
CmdValid ==
  \/ IsA(wb, "store")
  \/ (Miss \/ (IsA(wb, "load") /\ bypass)) /\ ~sent

Fire(ready) == CmdValid /\ ready

\* io_cpu_writeBack_haltIt, and with it the stage: a store waits for the bus, a
\* load of a device for its word, and a load that misses for the redo.
Stuck(ready, beat) ==
  \/ IsA(wb, "store") /\ ~ready
  \/ IsA(wb, "load") /\ bypass /\ ~beat
  \/ Miss

loaderValid(ready) == Miss /\ ready

\* The port of the data memory: a beat of the refill goes first.
InCache(a) == <<SetOfLine[a[1]], a[2]>>
cpuWriteToCache == IsA(wb, "store") /\ ~bypass /\ stageB.hit
BeatIn(beat) == loading /\ beat
WriteAt(beat) ==
  IF BeatIn(beat) THEN <<SetOfLine[addrB[1]], count>>
  ELSE IF cpuWriteToCache THEN InCache(addrB) ELSE None
Done(beat) == BeatIn(beat) /\ count = LastWord

Collides(a, beat) == a \in CachedWord /\ WriteAt(beat) = InCache(a)

\* Mutant: a load that misses is not made again when its refill starts.
RedoOnCollision == IsA(wb, "load") /\ ~bypass /\ stageB.hit /\ stageB.coll

\* io_cpu_redo: a word read too early, or a refill that has just started.
redo ==
  \/ IsA(wb, "load") /\ ~bypass /\ stageB.hit /\ stageB.coll
  \/ loading /\ ~loadingBefore

\* DBusCachedPlugin_redoBranch_valid: everything in the pipeline is dropped and
\* the fetch goes back to the instruction in write-back.
redoBranch == MemoryEnable(wb) /\ redo

Retires(ready, beat) == wb # None /\ ~Stuck(ready, beat) /\ ~redoBranch

-----------------------------------------------------------------------------
(* Execute: halted by the flusher and, if it holds an instruction, by a refill. *)

Flushing == counter # LastSet + 1
FlushReady == waitDone /\ ~Flushing

ExStuck(ready, beat) ==
  \/ Stuck(ready, beat) \/ Flushing
  \/ IsA(ex, "flush") /\ ~FlushReady
  \/ loading /\ ex # None

\* A flush starts when no load or store is behind it in the pipeline.
StartFlush ==
  /\ IsA(ex, "flush") /\ ~waitDone /\ ~start
  /\ ~MemoryEnable(me) /\ ~MemoryEnable(wb) /\ ~redo

\* rs1 of the instruction in execute, valid or not.
scope == IF IsA(ex, "flush") THEN ex.sets ELSE left
First == CHOOSE s \in scope : \A t \in scope : s <= t

FlusherEdge ==
  /\ start' = StartFlush
  /\ waitDone' = (start \/ (waitDone /\ Flushing))
  /\ counter' = IF start THEN First
                ELSE IF Flushing THEN (IF scope = Sets THEN counter + 1 ELSE LastSet + 1)
                ELSE counter
  /\ left' = IF Flushing \/ start THEN left ELSE Sets

-----------------------------------------------------------------------------
(* One edge of clk, for the instruction that decode has, if any. *)

StagesEdge(ready, beat, i) ==
  /\ wb' = IF redoBranch THEN None ELSE IF Stuck(ready, beat) THEN wb ELSE me
  /\ me' = IF redoBranch THEN None
           ELSE IF Stuck(ready, beat) THEN me
           ELSE IF ExStuck(ready, beat) \/ IsA(ex, "flush") THEN None ELSE ex
  /\ ex' = IF redoBranch THEN None ELSE IF ExStuck(ready, beat) THEN ex ELSE i
  /\ again' = IF redoBranch THEN wb ELSE IF i # None THEN None ELSE again

\* Mutant: the word read by the instruction in memory is not compared.
StageBNoCompare(ready, beat) ==
  stageB' = IF Stuck(ready, beat) THEN stageB
            ELSE IF MemoryEnable(wb') /\ stageA.line = me.addr[1] THEN
              [hit |-> TRUE, data |-> stageA.data, coll |-> stageA.coll]
            ELSE NoB

\* The word of a line and its tag are read with the line's index ...
StageAEdge(ready, beat) ==
  stageA' = IF Stuck(ready, beat) THEN stageA
            ELSE IF MemoryEnable(me') /\ ex.addr \in CachedWord THEN
              [line |-> tags[SetOfLine[ex.addr[1]]], data |-> data[InCache(ex.addr)],
               coll |-> Collides(ex.addr, beat)]
            ELSE NoA

\* ... and compared with the address one stage later.
StageBEdge(ready, beat) ==
  stageB' = IF Stuck(ready, beat) THEN stageB
            ELSE IF MemoryEnable(wb') /\ stageA.line = me.addr[1] THEN
              [hit |-> TRUE, data |-> stageA.data,
               coll |-> stageA.coll \/ Collides(me.addr, beat)]
            ELSE NoB

\* Mutant: the address is not frozen while a refill needs it.
AddressFollows(ready, beat) ==
  addrB' = IF Stuck(ready, beat) THEN addrB ELSE IF MemoryEnable(wb') THEN me.addr ELSE None

\* stageB_mmuRspFreeze
AddressEdge(ready, beat) ==
  addrB' = IF Stuck(ready, beat) \/ loaderValid(ready) \/ loading THEN addrB
           ELSE IF MemoryEnable(wb') THEN me.addr ELSE None

\* Mutant: the word index runs past the end of the line.
LoaderRunsOn(ready, beat) ==
  /\ loading' = ((loading \/ loaderValid(ready)) /\ ~Done(beat))
  /\ loadingBefore' = loading
  /\ count' = IF BeatIn(beat) THEN count + 1 ELSE count

LoaderEdge(ready, beat) ==
  /\ loading' = ((loading \/ loaderValid(ready)) /\ ~Done(beat))
  /\ loadingBefore' = loading
  /\ count' = IF BeatIn(beat) THEN (count + 1) % (LastWord + 1) ELSE count

\* The loader's tag goes before the flusher's.
CacheEdge(beat) ==
  /\ tags' = IF Done(beat) THEN [tags EXCEPT ![SetOfLine[addrB[1]]] = addrB[1]]
             ELSE IF Flushing THEN [tags EXCEPT ![counter] = None] ELSE tags
  /\ data' = IF WriteAt(beat) = None THEN data
             ELSE [data EXCEPT ![WriteAt(beat)] = IF BeatIn(beat) THEN mem[rd] ELSE wb.data]

\* The memory below: a store takes effect when it is accepted, a line is read
\* from its first word.
MemoryEdge(ready, beat) ==
  /\ mem' = IF IsA(wb, "store") /\ ready THEN [mem EXCEPT ![addrB] = wb.data] ELSE mem
  /\ rd' = IF Fire(ready) /\ IsA(wb, "load") THEN (IF bypass THEN addrB ELSE <<addrB[1], 0>>)
           ELSE IF ~beat THEN rd
           ELSE IF rd \in CachedWord /\ rd[2] < LastWord THEN <<rd[1], rd[2] + 1>> ELSE None

\* What the program sees.
ProgramEdge(ready, beat) ==
  /\ got' = IF ~IsA(wb, "load") \/ ~Retires(ready, beat) THEN got
            ELSE IF bypass THEN mem[rd] ELSE stageB.data
  /\ stale' = [a \in CachedWord |->
                 IF \/ IsA(wb, "store") /\ Retires(ready, beat) /\ wb.addr = a
                    \/ IsA(ex, "flush") /\ ~ExStuck(ready, beat) /\ SetOfLine[a[1]] \in ex.sets
                 THEN {} ELSE stale[a]]

\* Inputs that nothing looks at are fixed: ready with no instruction in
\* write-back, and the instruction of a decode stage that cannot pass it on.
Clock(ready, beat, i) ==
  /\ ready => MemoryEnable(wb)
  /\ beat => rd # None
  /\ IF redoBranch \/ ExStuck(ready, beat) THEN i = None
     ELSE again # None => i \in {None, again}
  /\ StagesEdge(ready, beat, i) /\ StageAEdge(ready, beat) /\ StageBEdge(ready, beat)
  /\ AddressEdge(ready, beat)
  /\ sent' = (Stuck(ready, beat) /\ (sent \/ Fire(ready)))
  /\ FlusherEdge /\ LoaderEdge(ready, beat) /\ CacheEdge(beat)
  /\ MemoryEdge(ready, beat) /\ ProgramEdge(ready, beat)

-----------------------------------------------------------------------------
(* The other masters *)

\* main() writes to the buffer.
Host(a, v) ==
  /\ mem' = [mem EXCEPT ![a] = v]
  /\ stale' = [stale EXCEPT ![a] = @ \cup {mem[a]}]
  /\ UNCHANGED <<stages, loader, flusher, tags, data, rd, got>>

\* A pulse of reset_riscv, long enough for the bus to drain.  Set 0 loses its
\* tag while the reset is held, for the flusher's counter is 0 and the tag
\* memory has no reset; the flush that follows takes its scope from the
\* instruction that is left in execute, whose registers have none either.
Reset ==
  /\ ex' = None /\ me' = None /\ wb' = None /\ again' = None
  /\ stageA' = NoA /\ stageB' = NoB /\ addrB' = None /\ sent' = FALSE
  /\ loading' = FALSE /\ loadingBefore' = FALSE /\ count' = 0
  /\ start' = TRUE /\ waitDone' = FALSE /\ counter' = 0
  /\ left' \in Scope
  /\ tags' = [tags EXCEPT ![0] = None] /\ rd' = None
  /\ stale' = [a \in CachedWord |-> IF SetOfLine[a[1]] \in left' \cup {0} THEN {} ELSE Val]
  /\ UNCHANGED <<data, mem, got>>

-----------------------------------------------------------------------------
Next ==
  \/ \E ready, beat \in BOOLEAN, i \in Instr \cup {None} : Clock(ready, beat, i)
  \/ \E a \in HostWord, v \in Val : Host(a, v)
  \/ Reset

Spec == Init /\ [][Next]_vars

\* The clock runs, the bus accepts and answers, and what has to be made again is
\* fetched.
FairSpec == Spec /\ WF_vars(Clock(MemoryEnable(wb), rd # None, again))

-----------------------------------------------------------------------------
(* Properties *)

\* Types of the stages, the loader, the flusher and the memories.
TypeOK ==
  /\ {ex, me, wb, again} \subseteq Instr \cup {None}
  /\ stageA \in [line : CachedLine \cup {None}, data : Val \cup {None}, coll : BOOLEAN]
  /\ stageB \in [hit : BOOLEAN, data : Val \cup {None}, coll : BOOLEAN]
  /\ {addrB, rd} \subseteq Addr \cup {None}
  /\ {sent, loading, loadingBefore, start, waitDone} \subseteq BOOLEAN
  /\ count \in Word /\ counter \in 0 .. LastSet + 1 /\ left \in Scope
  /\ tags \in [Sets -> CachedLine \cup {None}]
  /\ data \in [Sets \X Word -> Val]
  /\ mem \in [Addr -> Val] /\ stale \in [CachedWord -> SUBSET Val] /\ got \in Val

\* What a load of a cached word may return.
Visible(a) == {mem[a]} \cup stale[a]

\* What the stages hold, and when they are empty: an instruction to be made again
\* has the pipeline to itself, a refill has only the load it is for, and a flush
\* has only itself, unless a reset left it.
StagesInStep ==
  /\ ~IsA(me, "flush") /\ ~IsA(wb, "flush")
  /\ again # None => IsA(again, "load") /\ wb = None /\ me = None /\ ex = None
  /\ start \/ waitDone \/ Flushing => wb = None /\ me = None /\ ~loading
  /\ MemoryEnable(wb) => addrB = wb.addr
  /\ loading /\ ~loadingBefore => IsA(wb, "load") /\ ~stageB.hit
  /\ loading /\ loadingBefore =>
       /\ wb = None /\ me = None
       /\ IF ex = None THEN again # None ELSE IsA(ex, "load")

\* The burst that memory answers is the one the loader writes, word for word; a
\* device's word is waited for in write-back, and a read is sent once.
RefillInStep ==
  /\ loading => addrB \in CachedWord /\ rd = <<addrB[1], count>>
  /\ ~loading \/ ~loadingBefore => count = 0
  /\ loading /\ ~loadingBefore => sent
  /\ ~loading /\ rd # None => IsA(wb, "load") /\ sent /\ rd = addrB /\ bypass
  /\ sent /\ wb # None => IsA(wb, "load") /\ (loading \/ rd # None)

\* The flusher has invalidated the sets of its scope that it has passed.
FlushInStep ==
  /\ ~(start /\ waitDone)
  /\ Flushing => start \/ waitDone
  /\ start \/ Flushing => ex = None \/ IsA(ex, "flush")
  /\ start /\ ex = None => Flushing
  /\ waitDone => \A s \in scope : s < counter => tags[s] = None
  /\ waitDone /\ Flushing /\ scope # Sets => scope = {counter}

\* The tag that an instruction has read is still the tag of its set.
TagsReadAreCurrent ==
  /\ MemoryEnable(me) =>
       stageA.line = IF me.addr \in CachedWord THEN tags[SetOfLine[me.addr[1]]] ELSE None
  /\ MemoryEnable(wb) =>
       (stageB.hit <=> wb.addr \in CachedWord /\ tags[SetOfLine[wb.addr[1]]] = wb.addr[1])

\* The flush that a reset leaves has yet to come to this set.
FlushAwaits(s) == ex = None /\ s \in left /\ (start \/ (Flushing /\ counter <= s))

\* A valid line holds what memory held, but for the store that waits to be
\* accepted; so does the part of a line that has arrived.
LinesFollowMemory ==
  \A s \in Sets :
    LET busy == loading /\ s = SetOfLine[addrB[1]]
        line == IF busy THEN addrB[1] ELSE tags[s]
    IN  /\ tags[s] # None => SetOfLine[tags[s]] = s
        /\ \A w \in Word : line # None /\ ~FlushAwaits(s) /\ (busy => w < count) =>
             \/ data[<<s, w>>] \in Visible(<<line, w>>)
             \/ IsA(wb, "store") /\ wb.addr = <<line, w>> /\ data[<<s, w>>] = wb.data

\* A word read ahead of its turn is one that may be returned, or marked.
ReadAheadIsKnown ==
  /\ IsA(me, "load") /\ stageA.line = me.addr[1] => stageA.coll \/ stageA.data \in Visible(me.addr)
  /\ IsA(wb, "load") /\ stageB.hit => stageB.coll \/ stageB.data \in Visible(wb.addr)

\* The pipeline, the cache, the loader, the flusher, the bus and the words read
\* ahead agree in every state.
CacheInv ==
  /\ StagesInStep /\ RefillInStep /\ FlushInStep
  /\ TagsReadAreCurrent /\ LinesFollowMemory /\ ReadAheadIsKnown

\* A stage as the sequence of its instruction, if it has one.
Held(i) == IF i = None THEN <<>> ELSE <<i>>

\* The instructions begun and not finished, oldest first.
InFlight == Held(wb) \o (Held(me) \o (Held(ex) \o Held(again)))

Program == INSTANCE ProgramOrder
             WITH flight <- InFlight, SetOf <- [a \in CachedWord |-> SetOfLine[a[1]]]

\* Whatever is read too early, refilled, flushed or made again, the program's
\* loads and stores take effect in order, each once, and a load returns the word
\* in memory or one that main() has overwritten since the last flush
\* (VexRiscvSignate.v:16780-17345, 6410-6482).
InProgramOrder == Program!PSpec

\* A clock edge on which the oldest instruction finishes.
Finishes ==
  \E ready, beat \in BOOLEAN :
    /\ IF IsA(ex, "flush") /\ FlushReady THEN ~ExStuck(ready, beat) ELSE Retires(ready, beat)
    /\ Clock(ready, beat, IF ExStuck(ready, beat) THEN None ELSE ex')

\* The pipeline goes on for ever unless it is reset: no wait for the bus, a
\* refill or a flush and no making again lasts.
KeepsRetiring ==
  <>[](InFlight # <<>>) => []<><<Finishes>>_vars
=============================================================================
