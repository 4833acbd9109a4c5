--------------------------- MODULE DataCache_proofs ---------------------------
(***************************************************************************)
(* Proofs about DataCache for every number of sets and words, every         *)
(* placement of lines in sets and every program: its types, the invariant   *)
(* of cache, loader, flusher and stages, and that it implements             *)
(* ProgramOrder.                                                            *)
(***************************************************************************)
EXTENDS DataCache, SequenceTheorems, TLAPS

\* What an instruction of the program may be.
LEMMA InstrFacts ==
  ASSUME NEW i \in Instr
  PROVE  /\ i # None
         /\ IsA(i, "load") \/ IsA(i, "store") \/ IsA(i, "flush")
         /\ MemoryEnable(i) => i.addr \in Addr
         /\ IsA(i, "store") => i.data \in Val
         /\ IsA(i, "flush") => i.sets \in Scope
BY CacheAssumption DEF IsA, MemoryEnable

\* A word is of a cached line or of a device, and has its place in the cache.
LEMMA AddressFacts ==
  ASSUME NEW a \in Addr
  PROVE  /\ a # None
         /\ a \in CachedWord <=> a \notin IoWord
         /\ a \in CachedWord => /\ a[1] \in CachedLine /\ a[2] \in Word /\ a = <<a[1], a[2]>>
                                /\ SetOfLine[a[1]] \in Sets /\ InCache(a) \in Sets \X Word
         /\ a[1] # None
BY CacheAssumption DEF Addr, CachedWord, IoWord, InCache

\* The word counter of the loader wraps at the end of the line.
LEMMA CountWraps ==
  ASSUME NEW c \in Word
  PROVE  (c + 1) % (LastWord + 1) = IF c = LastWord THEN 0 ELSE c + 1
<1>1. LastWord \in Nat /\ c \in Nat /\ c <= LastWord
  BY CacheAssumption DEF Word
<1>2. CASE c = LastWord
  BY <1>1, <1>2
<1>3. CASE c # LastWord
  BY <1>1, <1>3
<1>4. QED BY <1>2, <1>3

\* A scope is every set or one set, and First is its least.
LEMMA ScopeFacts ==
  ASSUME TypeOK
  PROVE  /\ scope \in Scope /\ scope \subseteq Sets
         /\ First \in scope /\ \A s \in scope : First <= s
         /\ scope = Sets => First = 0
         /\ scope # Sets => scope = {First}
<1>1. scope \in Scope
  BY InstrFacts DEF TypeOK, scope, IsA
<1>2. CASE scope = Sets
  <2>1. 0 \in scope /\ \A s \in scope : 0 <= s
    BY <1>2, CacheAssumption DEF Sets
  <2>2. First \in scope /\ \A s \in scope : First <= s
    BY <2>1, Zenon DEF First
  <2>3. First = 0
    BY <1>2, <2>1, <2>2, CacheAssumption DEF Sets
  <2>4. QED BY <1>1, <1>2, <2>2, <2>3
<1>3. CASE scope # Sets
  <2>1. PICK s \in Sets : scope = {s}
    BY <1>1, <1>3 DEF Scope
  <2>2. s \in scope /\ \A t \in scope : s <= t
    BY <2>1, CacheAssumption DEF Sets
  <2>3. First \in scope
    BY <2>2, Zenon DEF First
  <2>4. QED BY <1>1, <1>3, <2>1, <2>2, <2>3
<1>4. QED BY <1>2, <1>3

-----------------------------------------------------------------------------
(* What an edge does to the stages *)

\* The redo branch empties the pipeline and keeps the oldest instruction.
Remakes(i) ==
  /\ redoBranch /\ i = None
  /\ wb' = None /\ me' = None /\ ex' = None /\ again' = wb

\* Write-back waits, and everything behind it.
Waits(ready, beat, i) ==
  /\ ~redoBranch /\ Stuck(ready, beat) /\ i = None
  /\ wb' = wb /\ me' = me /\ ex' = ex /\ again' = again

\* Execute is halted, the stages before it go on.
Halts(ready, beat, i) ==
  /\ ~redoBranch /\ ~Stuck(ready, beat) /\ ExStuck(ready, beat) /\ i = None
  /\ wb' = me /\ me' = None /\ ex' = ex /\ again' = again

\* Every stage goes on.
Flows(ready, beat, i) ==
  /\ ~redoBranch /\ ~Stuck(ready, beat) /\ ~ExStuck(ready, beat)
  /\ again # None => i \in {None, again}
  /\ wb' = me /\ me' = (IF IsA(ex, "flush") THEN None ELSE ex) /\ ex' = i
  /\ again' = IF i # None THEN None ELSE again

\* An edge does one of the four.
LEMMA StagesMove ==
  ASSUME NEW ready \in BOOLEAN, NEW beat \in BOOLEAN, NEW i \in Instr \cup {None},
         Clock(ready, beat, i)
  PROVE  \/ Remakes(i) \/ Waits(ready, beat, i)
         \/ Halts(ready, beat, i) \/ Flows(ready, beat, i)
<1>1. StagesEdge(ready, beat, i)
      /\ IF redoBranch \/ ExStuck(ready, beat) THEN i = None ELSE again # None => i \in {None, again}
  BY DEF Clock
<1>2. CASE redoBranch
  BY <1>1, <1>2 DEF StagesEdge, Remakes
<1>3. CASE ~redoBranch /\ Stuck(ready, beat)
  BY <1>1, <1>3 DEF StagesEdge, Waits, ExStuck
<1>4. CASE ~redoBranch /\ ~Stuck(ready, beat) /\ ExStuck(ready, beat)
  BY <1>1, <1>4 DEF StagesEdge, Halts
<1>5. CASE ~redoBranch /\ ~Stuck(ready, beat) /\ ~ExStuck(ready, beat)
  BY <1>1, <1>5 DEF StagesEdge, Flows, ExStuck
<1>6. QED BY <1>2, <1>3, <1>4, <1>5

\* What is made again is a load, and nothing waits to be made again before it.
LEMMA RedoIsOfLoad ==
  ASSUME TypeOK, StagesInStep, redoBranch
  PROVE  IsA(wb, "load") /\ wb # None /\ again = None /\ wb \in Instr
BY DEF StagesInStep, redoBranch, redo, MemoryEnable, IsA, TypeOK

\* The last beat of a refill and a flush find memory and write-back empty.
LEMMA TagsChangeAlone ==
  ASSUME StagesInStep, RefillInStep, NEW beat \in BOOLEAN, Done(beat) \/ Flushing \/ start
  PROVE  wb = None /\ me = None /\ ~redoBranch
<1>1. wb = None /\ me = None
  <2>1. CASE Done(beat)
    <3>1. loading /\ count # 0
      BY <2>1, CacheAssumption DEF Done, BeatIn
    <3>2. QED BY <3>1 DEF StagesInStep, RefillInStep
  <2>2. QED BY <2>1 DEF StagesInStep
<1>2. QED BY <1>1 DEF redoBranch, MemoryEnable, IsA

\* With an instruction in memory or write-back after it, an edge writes no tag.
LEMMA TagsHold ==
  ASSUME TypeOK, StagesInStep, RefillInStep,
         NEW ready \in BOOLEAN, NEW beat \in BOOLEAN, NEW i \in Instr \cup {None},
         Clock(ready, beat, i), wb' # None \/ me' # None
  PROVE  tags' = tags /\ ~Flushing /\ ~Done(beat)
<1>1. ~Flushing /\ ~Done(beat)
  <2>1. CASE wb # None \/ me # None
    BY <2>1, TagsChangeAlone
  <2>2. CASE wb = None /\ me = None
    <3>1. Flows(ready, beat, i) /\ ex # None
      BY <2>2, StagesMove DEF Remakes, Waits, Halts, Flows
    <3>2. ~Flushing /\ ~loading
      BY <3>1 DEF Flows, ExStuck
    <3>3. QED BY <3>2 DEF Done, BeatIn
  <2>3. QED BY <2>1, <2>2
<1>2. QED BY <1>1 DEF Clock, CacheEdge

\* After an edge that write-back did not wait for, it has what memory had.
LEMMA MovesIn ==
  ASSUME NEW ready \in BOOLEAN, NEW beat \in BOOLEAN, NEW i \in Instr \cup {None},
         Clock(ready, beat, i)
  PROVE  /\ wb' # None /\ ~Stuck(ready, beat) => wb' = me /\ ~redoBranch
         /\ me' # None /\ ~Stuck(ready, beat) =>
              me' = ex /\ ~redoBranch /\ ~ExStuck(ready, beat) /\ ~IsA(ex, "flush")
         /\ wb' # None /\ Stuck(ready, beat) => wb' = wb /\ ~redoBranch
         /\ me' # None /\ Stuck(ready, beat) => me' = me /\ ~redoBranch
BY StagesMove DEF Remakes, Waits, Halts, Flows

-----------------------------------------------------------------------------
(* Types *)

\* An instruction in memory or write-back has an address.
LEMMA AddressOfStage ==
  ASSUME TypeOK, NEW i \in {ex, me, wb, again}, MemoryEnable(i)
  PROVE  i \in Instr /\ i.addr \in Addr
<1>1. i \in Instr
  BY DEF TypeOK, MemoryEnable, IsA
<1>2. QED BY <1>1, InstrFacts

\* What may be returned for a word is a value.
LEMMA VisibleAreValues ==
  ASSUME TypeOK, NEW a \in CachedWord
  PROVE  Visible(a) \subseteq Val
BY DEF TypeOK, Visible, Addr

\* The bus answers a word of memory.
LEMMA AnsweredIsValue == ASSUME TypeOK, rd # None PROVE rd \in Addr /\ mem[rd] \in Val
BY DEF TypeOK

\* The stages keep their types on an edge.
LEMMA TypeStages ==
  ASSUME TypeOK, CacheInv,
         NEW ready \in BOOLEAN, NEW beat \in BOOLEAN, NEW i \in Instr \cup {None},
         Clock(ready, beat, i)
  PROVE  /\ {ex', me', wb', again'} \subseteq Instr \cup {None}
         /\ stageA' \in [line : CachedLine \cup {None}, data : Val \cup {None}, coll : BOOLEAN]
         /\ stageB' \in [hit : BOOLEAN, data : Val \cup {None}, coll : BOOLEAN]
         /\ addrB' \in Addr \cup {None}
<1>1. {ex', me', wb', again'} \subseteq Instr \cup {None}
  BY StagesMove DEF Remakes, Waits, Halts, Flows, TypeOK
<1>2. stageA' \in [line : CachedLine \cup {None}, data : Val \cup {None}, coll : BOOLEAN]
  <2>1. StageAEdge(ready, beat) /\ stageA \in [line : CachedLine \cup {None}, data : Val \cup {None}, coll : BOOLEAN]
    BY DEF Clock, TypeOK
  <2>2. NoA \in [line : CachedLine \cup {None}, data : Val \cup {None}, coll : BOOLEAN]
    BY DEF NoA
  <2>3. ASSUME ex.addr \in CachedWord
        PROVE  /\ tags[SetOfLine[ex.addr[1]]] \in CachedLine \cup {None}
               /\ data[InCache(ex.addr)] \in Val
    BY <2>3, AddressFacts DEF Addr, TypeOK
  <2>4. Collides(ex.addr, beat) \in BOOLEAN
    BY DEF Collides
  <2>5. QED BY <2>1, <2>2, <2>3, <2>4 DEF StageAEdge
<1>3. stageB' \in [hit : BOOLEAN, data : Val \cup {None}, coll : BOOLEAN]
  <2>1. StageBEdge(ready, beat) /\ stageB \in [hit : BOOLEAN, data : Val \cup {None}, coll : BOOLEAN]
    BY DEF Clock, TypeOK
  <2>2. NoB \in [hit : BOOLEAN, data : Val \cup {None}, coll : BOOLEAN]
    BY DEF NoB
  <2>3. (stageA.coll \/ Collides(me.addr, beat)) \in BOOLEAN /\ stageA.data \in Val \cup {None}
    BY DEF TypeOK
  <2>4. QED BY <2>1, <2>2, <2>3 DEF StageBEdge
<1>4. addrB' \in Addr \cup {None}
  <2>1. AddressEdge(ready, beat) /\ addrB \in Addr \cup {None}
    BY DEF Clock, TypeOK
  <2>2. ~Stuck(ready, beat) /\ MemoryEnable(wb') => me.addr \in Addr
    <3>1. MemoryEnable(wb') => wb' # None
      BY DEF MemoryEnable, IsA
    <3>2. QED BY <3>1, MovesIn, AddressOfStage
  <2>3. QED BY <2>1, <2>2 DEF AddressEdge
<1>5. QED BY <1>1, <1>2, <1>3, <1>4

\* The loader, the flusher and the bus keep their types on an edge.
LEMMA TypeMachines ==
  ASSUME TypeOK, CacheInv,
         NEW ready \in BOOLEAN, NEW beat \in BOOLEAN, NEW i \in Instr \cup {None},
         Clock(ready, beat, i)
  PROVE  /\ {sent', loading', loadingBefore', start', waitDone'} \subseteq BOOLEAN
         /\ count' \in Word /\ counter' \in 0 .. LastSet + 1 /\ left' \in Scope
         /\ rd' \in Addr \cup {None}
<1>1. sent' \in BOOLEAN
  BY DEF Clock, Stuck, IsA
<1>2. loading' \in BOOLEAN /\ loadingBefore' \in BOOLEAN
  BY DEF Clock, LoaderEdge, TypeOK
<1>3. start' \in BOOLEAN /\ waitDone' \in BOOLEAN
  BY DEF Clock, FlusherEdge, StartFlush, TypeOK
<1>4. count' \in Word
  BY CountWraps, CacheAssumption DEF Clock, LoaderEdge, TypeOK, Word
<1>5. counter' \in 0 .. LastSet + 1
  <2>1. First \in 0 .. LastSet
    BY ScopeFacts DEF Sets
  <2>2. counter \in 0 .. LastSet + 1 /\ LastSet \in Nat
    BY CacheAssumption DEF TypeOK
  <2>3. counter' = IF start THEN First
                   ELSE IF Flushing THEN (IF scope = Sets THEN counter + 1 ELSE LastSet + 1)
                   ELSE counter
    BY DEF Clock, FlusherEdge
  <2>4. QED BY <2>1, <2>2, <2>3 DEF Flushing
<1>6. left' \in Scope
  BY DEF Clock, FlusherEdge, TypeOK, Scope
<1>7. rd' \in Addr \cup {None}
  <2>1. rd \in CachedWord /\ rd[2] < LastWord => <<rd[1], rd[2] + 1>> \in Addr
    BY CacheAssumption DEF CachedWord, Addr, Word
  <2>2. ASSUME IsA(wb, "load") PROVE (IF bypass THEN addrB ELSE <<addrB[1], 0>>) \in Addr
    <3>1. addrB \in Addr
      BY <2>2, AddressOfStage DEF CacheInv, StagesInStep, MemoryEnable
    <3>2. ~bypass => <<addrB[1], 0>> \in Addr
      BY <3>1, AddressFacts, CacheAssumption DEF bypass, CachedWord, Addr, Word
    <3>3. QED BY <3>1, <3>2
  <2>3. QED BY <2>1, <2>2 DEF Clock, MemoryEdge, TypeOK
<1>8. QED BY <1>1, <1>2, <1>3, <1>4, <1>5, <1>6, <1>7

\* A load that retires returns a value, a cached one that may be returned.
LEMMA LoadReturns ==
  ASSUME TypeOK, CacheInv, NEW ready \in BOOLEAN, NEW beat \in BOOLEAN,
         beat => rd # None, IsA(wb, "load"), Retires(ready, beat)
  PROVE  /\ wb.addr = addrB /\ addrB \in Addr
         /\ bypass => rd = addrB /\ mem[rd] \in Val
         /\ ~bypass => addrB \in CachedWord /\ stageB.data \in Visible(addrB) /\ stageB.data \in Val
<1>1. wb.addr = addrB /\ addrB \in Addr
  BY AddressOfStage DEF MemoryEnable, CacheInv, StagesInStep
<1>2. ~Stuck(ready, beat) /\ ~redo
  BY DEF Retires, redoBranch, MemoryEnable
<1>3. ASSUME bypass PROVE rd = addrB /\ mem[rd] \in Val
  <2>1. rd # None
    BY <1>2, <1>3 DEF Stuck
  <2>2. ~loading
    <3>1. addrB \notin CachedWord
      BY <1>1, <1>3, AddressFacts DEF bypass
    <3>2. QED BY <3>1 DEF CacheInv, RefillInStep
  <2>3. QED BY <2>1, <2>2, AnsweredIsValue DEF CacheInv, RefillInStep
<1>4. ASSUME ~bypass
      PROVE  addrB \in CachedWord /\ stageB.data \in Visible(addrB) /\ stageB.data \in Val
  <2>1. addrB \in CachedWord
    BY <1>1, <1>4, AddressFacts DEF bypass
  <2>2. stageB.hit /\ ~stageB.coll
    BY <1>2, <1>4 DEF Stuck, Miss, redo
  <2>3. stageB.data \in Visible(addrB)
    BY <1>1, <2>2 DEF CacheInv, ReadAheadIsKnown
  <2>4. QED BY <2>1, <2>3, VisibleAreValues
<1>5. QED BY <1>1, <1>3, <1>4

\* The memories and what the program sees keep their types on an edge.
LEMMA TypeMemories ==
  ASSUME TypeOK, CacheInv,
         NEW ready \in BOOLEAN, NEW beat \in BOOLEAN, NEW i \in Instr \cup {None},
         Clock(ready, beat, i)
  PROVE  /\ tags' \in [Sets -> CachedLine \cup {None}]
         /\ data' \in [Sets \X Word -> Val]
         /\ mem' \in [Addr -> Val] /\ stale' \in [CachedWord -> SUBSET Val] /\ got' \in Val
<1>1. beat => rd # None
  BY DEF Clock
<1>2. tags' \in [Sets -> CachedLine \cup {None}]
  <2>1. Done(beat) => addrB[1] \in CachedLine
    BY DEF Done, BeatIn, CacheInv, RefillInStep, CachedWord
  <2>2. QED BY <2>1 DEF Clock, CacheEdge, TypeOK
<1>3. ASSUME IsA(wb, "store") PROVE wb.data \in Val
  BY <1>3, InstrFacts DEF IsA, TypeOK
<1>4. data' \in [Sets \X Word -> Val]
  <2>1. BeatIn(beat) => mem[rd] \in Val
    BY <1>1, AnsweredIsValue DEF BeatIn
  <2>2. ~BeatIn(beat) /\ WriteAt(beat) # None => wb.data \in Val
    BY <1>3 DEF WriteAt, cpuWriteToCache
  <2>3. QED BY <2>1, <2>2 DEF Clock, CacheEdge, TypeOK
<1>5. mem' \in [Addr -> Val]
  BY <1>3 DEF Clock, MemoryEdge, TypeOK
<1>6. stale' \in [CachedWord -> SUBSET Val]
  BY DEF Clock, ProgramEdge, TypeOK
<1>7. got' \in Val
  BY <1>1, LoadReturns DEF Clock, ProgramEdge, TypeOK
<1>8. QED BY <1>2, <1>4, <1>5, <1>6, <1>7

\* The types hold at first.
LEMMA TypeInit == Init => TypeOK
<1> SUFFICES ASSUME Init PROVE TypeOK
  OBVIOUS
<1>1. 0 \in Word /\ 0 \in 0 .. LastSet + 1 /\ Sets \in Scope
  BY CacheAssumption DEF Word, Scope
<1>2. /\ stageA \in [line : CachedLine \cup {None}, data : Val \cup {None}, coll : BOOLEAN]
      /\ stageB \in [hit : BOOLEAN, data : Val \cup {None}, coll : BOOLEAN]
  BY DEF Init, NoA, NoB
<1>3. /\ tags \in [Sets -> CachedLine \cup {None}]
      /\ data \in [Sets \X Word -> Val]
      /\ mem \in [Addr -> Val] /\ stale \in [CachedWord -> SUBSET Val] /\ got \in Val
  BY CacheAssumption DEF Init
<1>4. QED BY <1>1, <1>2, <1>3 DEF Init, TypeOK

\* Every step keeps the types.
LEMMA TypeStep == ASSUME TypeOK, CacheInv, [Next]_vars PROVE TypeOK'
<1>1. CASE \E ready, beat \in BOOLEAN, i \in Instr \cup {None} : Clock(ready, beat, i)
  BY <1>1, TypeStages, TypeMachines, TypeMemories DEF TypeOK
<1>2. CASE \E a \in HostWord, v \in Val : Host(a, v)
  <2>1. PICK a \in HostWord, v \in Val : Host(a, v)
    BY <1>2
  <2>2. a \in CachedWord /\ a \in Addr
    BY CacheAssumption DEF Addr
  <2>3. mem' \in [Addr -> Val] /\ stale' \in [CachedWord -> SUBSET Val]
    BY <2>1, <2>2 DEF Host, TypeOK
  <2>4. QED BY <2>1, <2>3 DEF Host, TypeOK, stages, loader, flusher
<1>3. CASE Reset
  <2>1. 0 \in Word /\ 0 \in 0 .. LastSet + 1 /\ 0 \in Sets
    BY CacheAssumption DEF Word, Sets
  <2>2. /\ stageA' \in [line : CachedLine \cup {None}, data : Val \cup {None}, coll : BOOLEAN]
        /\ stageB' \in [hit : BOOLEAN, data : Val \cup {None}, coll : BOOLEAN]
    BY <1>3 DEF Reset, NoA, NoB
  <2>3. /\ tags' \in [Sets -> CachedLine \cup {None}]
        /\ stale' \in [CachedWord -> SUBSET Val]
    BY <1>3 DEF Reset, TypeOK
  <2>4. QED BY <1>3, <2>1, <2>2, <2>3 DEF Reset, TypeOK
<1>4. CASE UNCHANGED vars
  BY <1>4 DEF TypeOK, vars, stages, loader, flusher
<1>5. QED BY <1>1, <1>2, <1>3, <1>4 DEF Next

-----------------------------------------------------------------------------
(* Stages, refill and flusher on an edge *)

\* During a flush the pipeline stands still.
LEMMA FlushHolds ==
  ASSUME TypeOK, CacheInv,
         NEW ready \in BOOLEAN, NEW beat \in BOOLEAN, NEW i \in Instr \cup {None},
         Clock(ready, beat, i), StartFlush \/ start \/ Flushing
  PROVE  /\ wb = None /\ me = None /\ ~loading /\ ~redoBranch
         /\ wb' = None /\ me' = None /\ ex' = ex /\ ~loading' /\ ~Done(beat)
<1>1. wb = None /\ me = None /\ ~loading
  <2>1. CASE StartFlush
    <3>1. wb = None /\ me = None
      BY <2>1, InstrFacts DEF StartFlush, CacheInv, StagesInStep, TypeOK, MemoryEnable
    <3>2. IsA(ex, "flush") /\ ~IsA(ex, "load") /\ ex # None /\ ~IsA(wb, "load")
      BY <2>1, <3>1 DEF StartFlush, IsA
    <3>3. QED BY <3>1, <3>2 DEF CacheInv, StagesInStep
  <2>2. CASE start \/ Flushing
    BY <2>2 DEF CacheInv, StagesInStep
  <2>3. QED BY <2>1, <2>2
<1>2. ~redoBranch /\ ~Stuck(ready, beat) /\ ~Miss
  BY <1>1 DEF redoBranch, MemoryEnable, IsA, Stuck, Miss
<1>3. ExStuck(ready, beat)
  <2>1. CASE Flushing
    BY <2>1 DEF ExStuck
  <2>2. CASE ~Flushing
    BY <2>2 DEF ExStuck, FlushReady, StartFlush, CacheInv, FlushInStep
  <2>3. QED BY <2>1, <2>2
<1>4. Halts(ready, beat, i)
  BY <1>2, <1>3, StagesMove DEF Remakes, Waits, Flows
<1>5. ~loading' /\ ~Done(beat)
  BY <1>1, <1>2 DEF Clock, LoaderEdge, loaderValid, Done, BeatIn
<1>6. QED BY <1>1, <1>2, <1>4, <1>5 DEF Halts

\* A refill in progress sees the redo branch first and then an empty pipeline.
LEMMA RefillEmpties ==
  ASSUME TypeOK, CacheInv,
         NEW ready \in BOOLEAN, NEW beat \in BOOLEAN, NEW i \in Instr \cup {None},
         Clock(ready, beat, i), loading
  PROVE  /\ wb' = None /\ me' = None /\ addrB' = addrB
         /\ ~loadingBefore => Remakes(i) /\ ~Done(beat)
         /\ IF ex' = None THEN again' # None ELSE IsA(ex', "load")
<1>1. addrB' = addrB
  BY DEF Clock, AddressEdge
<1>2. CASE ~loadingBefore
  <2>1. IsA(wb, "load") /\ redo /\ count = 0
    BY <1>2 DEF CacheInv, StagesInStep, RefillInStep, redo
  <2>2. redoBranch /\ ~Done(beat) /\ wb # None
    BY <2>1, CacheAssumption DEF redoBranch, MemoryEnable, Done, IsA
  <2>3. Remakes(i)
    BY <2>2, StagesMove DEF Waits, Halts, Flows
  <2>4. QED BY <1>1, <2>2, <2>3 DEF Remakes
<1>3. CASE loadingBefore
  <2>1. /\ wb = None /\ me = None
        /\ IF ex = None THEN again # None ELSE IsA(ex, "load")
    BY <1>3 DEF CacheInv, StagesInStep
  <2>2. ~redoBranch /\ ~Stuck(ready, beat)
    BY <2>1 DEF redoBranch, MemoryEnable, IsA, Stuck, Miss
  <2>3. Halts(ready, beat, i) \/ (Flows(ready, beat, i) /\ ex = None)
    BY <2>2, StagesMove DEF Remakes, Waits, Flows, ExStuck
  <2>4. ex = None => IsA(again, "load") /\ again # None
    BY <2>1 DEF CacheInv, StagesInStep
  <2>5. QED BY <1>1, <1>3, <2>1, <2>3, <2>4 DEF Halts, Flows
<1>4. QED BY <1>2, <1>3

\* A refill starts for a load that misses in write-back, which waits.
LEMMA RefillStarts ==
  ASSUME TypeOK, CacheInv,
         NEW ready \in BOOLEAN, NEW beat \in BOOLEAN, NEW i \in Instr \cup {None},
         Clock(ready, beat, i), ~loading, loading'
  PROVE  /\ Waits(ready, beat, i) /\ IsA(wb, "load") /\ ~stageB.hit /\ stageB' = stageB
         /\ addrB' = addrB /\ addrB \in CachedWord /\ sent' /\ rd' = <<addrB[1], 0>>
         /\ count = 0 /\ count' = 0
<1>1. Miss /\ ready /\ Stuck(ready, beat)
  BY DEF Clock, LoaderEdge, loaderValid, Stuck
<1>2. IsA(wb, "load") /\ ~stageB.hit /\ ~bypass /\ wb # None
  BY <1>1 DEF Miss, IsA
<1>3. ~redoBranch
  BY <1>2 DEF redoBranch, redo
<1>4. Waits(ready, beat, i)
  BY <1>1, <1>3, StagesMove DEF Remakes, Halts, Flows
<1>5. stageB' = stageB /\ addrB' = addrB
  BY <1>1 DEF Clock, StageBEdge, AddressEdge
<1>6. addrB \in CachedWord
  BY <1>2, AddressOfStage, AddressFacts DEF CacheInv, StagesInStep, MemoryEnable, bypass
<1>7. ~sent /\ Fire(ready)
  BY <1>1, <1>2 DEF CacheInv, RefillInStep, Fire, CmdValid
<1>8. sent' /\ rd' = <<addrB[1], 0>>
  BY <1>1, <1>2, <1>7 DEF Clock, MemoryEdge
<1>9. count = 0 /\ count' = 0
  BY DEF Clock, LoaderEdge, BeatIn, CacheInv, RefillInStep
<1>10. QED BY <1>2, <1>4, <1>5, <1>6, <1>8, <1>9

\* A beat fills the next word, and the last ends the refill.
LEMMA RefillGoesOn ==
  ASSUME TypeOK, CacheInv,
         NEW ready \in BOOLEAN, NEW beat \in BOOLEAN, NEW i \in Instr \cup {None},
         Clock(ready, beat, i), loading
  PROVE  /\ addrB' = addrB
         /\ loading' <=> ~Done(beat)
         /\ loading' => rd' = <<addrB[1], count'>> /\ count' = IF beat THEN count + 1 ELSE count
         /\ ~loading' => rd' = None /\ count' = 0 /\ count = LastWord /\ beat
<1>1. addrB' = addrB
  BY DEF Clock, AddressEdge
<1>2. addrB \in CachedWord /\ rd = <<addrB[1], count>> /\ rd # None /\ count \in Word
  BY CacheAssumption DEF CacheInv, RefillInStep, TypeOK, CachedWord, Addr
<1>3. ~(Fire(ready) /\ IsA(wb, "load"))
  <2>1. IsA(wb, "load") => sent /\ ~IsA(wb, "store")
    BY DEF CacheInv, StagesInStep, RefillInStep, IsA
  <2>2. QED BY <2>1 DEF Fire, CmdValid
<1>4. rd' = IF ~beat THEN rd
            ELSE IF rd \in CachedWord /\ rd[2] < LastWord THEN <<rd[1], rd[2] + 1>> ELSE None
  BY <1>3 DEF Clock, MemoryEdge
<1>5. rd \in CachedWord /\ rd[1] = addrB[1] /\ rd[2] = count
  BY <1>2 DEF CachedWord
<1>6. count' = IF beat THEN (IF count = LastWord THEN 0 ELSE count + 1) ELSE count
  BY <1>2, CountWraps DEF Clock, LoaderEdge, BeatIn
<1>7. loading' <=> ~Done(beat)
  BY DEF Clock, LoaderEdge
<1>8. Done(beat) <=> beat /\ count = LastWord
  BY DEF Done, BeatIn
<1>9. count < LastWord \/ count = LastWord
  BY <1>2, CacheAssumption DEF Word
<1>10. LastWord \in Nat
  BY CacheAssumption
<1>11. QED BY <1>1, <1>2, <1>4, <1>5, <1>6, <1>7, <1>8, <1>9, <1>10

\* What the stages hold on an edge.
LEMMA StagesStep ==
  ASSUME TypeOK, CacheInv,
         NEW ready \in BOOLEAN, NEW beat \in BOOLEAN, NEW i \in Instr \cup {None},
         Clock(ready, beat, i)
  PROVE  StagesInStep'
<1> USE DEF CacheInv
<1>1. ~IsA(me', "flush") /\ ~IsA(wb', "flush")
  BY StagesMove DEF StagesInStep, Remakes, Waits, Halts, Flows, IsA
<1>2. again' # None => IsA(again', "load") /\ wb' = None /\ me' = None /\ ex' = None
  <2>1. CASE Remakes(i)
    BY <2>1, RedoIsOfLoad DEF Remakes
  <2>2. CASE Waits(ready, beat, i)
    BY <2>2 DEF Waits, StagesInStep
  <2>3. CASE Halts(ready, beat, i)
    BY <2>3 DEF Halts, StagesInStep
  <2>4. CASE Flows(ready, beat, i)
    BY <2>4 DEF Flows, StagesInStep
  <2>5. QED BY <2>1, <2>2, <2>3, <2>4, StagesMove
<1>3. start' \/ waitDone' \/ Flushing' => wb' = None /\ me' = None /\ ~loading'
  <2>1. start' \/ waitDone' \/ Flushing' => StartFlush \/ start \/ Flushing
    BY DEF Clock, FlusherEdge, Flushing
  <2>2. QED BY <2>1, FlushHolds
<1>4. MemoryEnable(wb') => addrB' = wb'.addr
  <2> SUFFICES ASSUME MemoryEnable(wb') PROVE addrB' = wb'.addr
    OBVIOUS
  <2>1. wb' # None
    BY DEF MemoryEnable, IsA
  <2>2. CASE Stuck(ready, beat)
    BY <2>1, <2>2, MovesIn DEF Clock, AddressEdge, StagesInStep
  <2>3. CASE ~Stuck(ready, beat)
    <3>1. wb' = me
      BY <2>1, <2>3, MovesIn
    <3>2. ~loading /\ ~loaderValid(ready)
      BY <2>1, <2>3, RefillEmpties DEF loaderValid, Stuck
    <3>3. QED BY <2>3, <3>1, <3>2 DEF Clock, AddressEdge
  <2>4. QED BY <2>2, <2>3
<1>5. loadingBefore' = loading
  BY DEF Clock, LoaderEdge
<1>6. loading' /\ ~loadingBefore' => IsA(wb', "load") /\ ~stageB'.hit
  BY <1>5, RefillStarts DEF Waits
<1>7. loading' /\ loadingBefore' =>
        /\ wb' = None /\ me' = None
        /\ IF ex' = None THEN again' # None ELSE IsA(ex', "load")
  BY <1>5, RefillEmpties
<1>8. QED BY <1>1, <1>2, <1>3, <1>4, <1>6, <1>7 DEF StagesInStep, MemoryEnable, IsA, Flushing

\* An instruction that write-back keeps is the one that was there.
LEMMA WaitsOf ==
  ASSUME NEW ready \in BOOLEAN, NEW beat \in BOOLEAN, NEW i \in Instr \cup {None},
         Clock(ready, beat, i), Stuck(ready, beat), ~redoBranch
  PROVE  Waits(ready, beat, i) /\ addrB' = addrB /\ stageB' = stageB /\ stageA' = stageA
BY StagesMove DEF Remakes, Halts, Flows, Clock, AddressEdge, StageAEdge, StageBEdge

\* How the read of a device is sent, waited for and answered.
LEMMA DeviceRead ==
  ASSUME TypeOK, CacheInv,
         NEW ready \in BOOLEAN, NEW beat \in BOOLEAN, NEW i \in Instr \cup {None},
         Clock(ready, beat, i), ~loading, ~loading', rd' # None
  PROVE  IsA(wb', "load") /\ sent' /\ rd' = addrB' /\ bypass'
<1> USE DEF CacheInv
<1>1. CASE Fire(ready) /\ IsA(wb, "load")
  <2>1. ~sent /\ ready
    BY <1>1 DEF Fire, CmdValid, IsA
  <2>2. ~Miss
    BY <2>1 DEF Clock, LoaderEdge, loaderValid, Done, BeatIn
  <2>3. bypass /\ rd = None
    BY <1>1, <2>1, <2>2 DEF RefillInStep, Fire, CmdValid, IsA
  <2>4. ~beat /\ ~redoBranch
    BY <1>1, <2>3 DEF Clock, redoBranch, redo
  <2>5. Stuck(ready, beat)
    BY <1>1, <2>3, <2>4 DEF Stuck
  <2>6. rd' = addrB /\ sent'
    BY <1>1, <2>3, <2>5 DEF Clock, MemoryEdge
  <2>7. QED BY <1>1, <2>3, <2>4, <2>5, <2>6, WaitsOf DEF Waits, bypass
<1>2. CASE ~(Fire(ready) /\ IsA(wb, "load"))
  <2>1. rd # None /\ IsA(wb, "load") /\ sent /\ rd = addrB /\ bypass
    BY <1>2 DEF Clock, MemoryEdge, RefillInStep
  <2>2. rd \notin CachedWord
    BY <2>1, AddressFacts DEF bypass, TypeOK
  <2>3. ~beat /\ rd' = rd
    BY <1>2, <2>2 DEF Clock, MemoryEdge
  <2>4. Stuck(ready, beat) /\ ~redoBranch
    BY <2>1, <2>3 DEF Stuck, redoBranch, redo
  <2>5. sent'
    BY <2>1, <2>4 DEF Clock
  <2>6. QED BY <2>1, <2>3, <2>4, <2>5, WaitsOf DEF Waits, bypass
<1>3. QED BY <1>1, <1>2

\* A read is sent once.
LEMMA SentOnce ==
  ASSUME TypeOK, CacheInv,
         NEW ready \in BOOLEAN, NEW beat \in BOOLEAN, NEW i \in Instr \cup {None},
         Clock(ready, beat, i), sent', wb' # None
  PROVE  IsA(wb', "load") /\ (loading' \/ rd' # None)
<1> USE DEF CacheInv
<1>1. Stuck(ready, beat) /\ (sent \/ Fire(ready))
  BY DEF Clock
<1>2. ~redoBranch /\ Waits(ready, beat, i) /\ ~loading /\ wb # None
  BY <1>1, MovesIn, WaitsOf, RefillEmpties DEF Waits
<1>3. CASE sent
  <2>1. IsA(wb, "load") /\ rd # None /\ bypass
    BY <1>2, <1>3 DEF RefillInStep
  <2>2. ~beat
    BY <1>1, <2>1 DEF Stuck, IsA, Miss
  <2>3. ~Fire(ready)
    BY <1>3, <2>1 DEF Fire, CmdValid, IsA
  <2>4. rd' = rd
    BY <2>2, <2>3 DEF Clock, MemoryEdge
  <2>5. QED BY <1>2, <2>1, <2>4 DEF Waits
<1>4. CASE ~sent
  <2>1. Fire(ready) /\ ready
    BY <1>1, <1>4 DEF Fire
  <2>2. IsA(wb, "load")
    BY <1>1, <2>1 DEF Stuck, Miss
  <2>3. CASE bypass
    <3>1. rd' = addrB /\ addrB \in IoWord
      BY <2>1, <2>2, <2>3 DEF Clock, MemoryEdge, bypass
    <3>2. rd' # None
      BY <3>1, AddressFacts DEF Addr
    <3>3. QED BY <1>2, <2>2, <3>2 DEF Waits
  <2>4. CASE ~bypass
    <3>1. Miss
      BY <2>1, <2>2, <2>4 DEF Fire, CmdValid, IsA
    <3>2. loading'
      BY <1>2, <2>1, <3>1 DEF Clock, LoaderEdge, loaderValid, Done, BeatIn
    <3>3. QED BY <1>2, <2>2, <3>2 DEF Waits
  <2>5. QED BY <2>3, <2>4
<1>5. QED BY <1>3, <1>4

\* Loader and bus agree after an edge.
LEMMA RefillStep ==
  ASSUME TypeOK, CacheInv,
         NEW ready \in BOOLEAN, NEW beat \in BOOLEAN, NEW i \in Instr \cup {None},
         Clock(ready, beat, i)
  PROVE  RefillInStep'
<1> USE DEF CacheInv
<1>1. loadingBefore' = loading
  BY DEF Clock, LoaderEdge
<1>2. loading' => addrB' \in CachedWord /\ rd' = <<addrB'[1], count'>>
  BY RefillStarts, RefillGoesOn DEF RefillInStep
<1>3. ~loading' \/ ~loadingBefore' => count' = 0
  <2>1. ~loading => count' = 0
    BY DEF Clock, LoaderEdge, BeatIn, RefillInStep
  <2>2. QED BY <1>1, <2>1, RefillGoesOn
<1>4. loading' /\ ~loadingBefore' => sent'
  BY <1>1, RefillStarts
<1>5. ~loading' /\ rd' # None => IsA(wb', "load") /\ sent' /\ rd' = addrB' /\ bypass'
  BY DeviceRead, RefillGoesOn
<1>6. sent' /\ wb' # None => IsA(wb', "load") /\ (loading' \/ rd' # None)
  BY SentOnce
<1>7. QED BY <1>2, <1>3, <1>4, <1>5, <1>6 DEF RefillInStep, IsA

\* The flusher goes on after an edge.
LEMMA FlushStep ==
  ASSUME TypeOK, CacheInv,
         NEW ready \in BOOLEAN, NEW beat \in BOOLEAN, NEW i \in Instr \cup {None},
         Clock(ready, beat, i)
  PROVE  FlushInStep'
<1> USE DEF CacheInv
<1>1. /\ start' = StartFlush
      /\ waitDone' = (start \/ (waitDone /\ Flushing))
      /\ counter' = IF start THEN First
                    ELSE IF Flushing THEN (IF scope = Sets THEN counter + 1 ELSE LastSet + 1)
                    ELSE counter
      /\ left' = IF Flushing \/ start THEN left ELSE Sets
  BY DEF Clock, FlusherEdge
<1>2. Flushing' <=> counter' # LastSet + 1
  BY DEF Flushing
<1>3. ~(start' /\ waitDone')
  BY <1>1 DEF StartFlush
<1>4. Flushing' => start' \/ waitDone'
  BY <1>1, <1>2 DEF Flushing, FlushInStep
<1>5. start' \/ Flushing' => ex' = None \/ IsA(ex', "flush")
  <2>1. start' \/ Flushing' => StartFlush \/ start \/ Flushing
    BY <1>1, <1>2 DEF Flushing
  <2>2. StartFlush => IsA(ex, "flush")
    BY DEF StartFlush
  <2>3. QED BY <2>1, <2>2, FlushHolds DEF FlushInStep, IsA
<1>6. start' /\ ex' = None => Flushing'
  BY <1>1, FlushHolds DEF StartFlush, IsA
<1>7. ASSUME waitDone'
      PROVE  /\ \A s \in scope' : s < counter' => tags'[s] = None
             /\ Flushing' /\ scope' # Sets => scope' = {counter'}
  <2>1. start \/ Flushing
    BY <1>1, <1>7
  <2>2. scope' = scope
    BY <1>1, <2>1, FlushHolds DEF scope, IsA
  <2>3. LastSet \in Nat /\ counter \in 0 .. LastSet + 1 /\ scope \subseteq 0 .. LastSet
    BY ScopeFacts, CacheAssumption DEF TypeOK, Sets
  <2>4. CASE start
    <3>1. counter' = First /\ First \in 0 .. LastSet
      BY <1>1, <2>3, <2>4, ScopeFacts
    <3>2. \A s \in scope : ~(s < First)
      BY <2>3, <3>1, ScopeFacts
    <3>3. QED BY <2>2, <3>1, <3>2, ScopeFacts
  <2>5. CASE ~start
    <3>1. waitDone /\ Flushing
      BY <1>1, <1>7, <2>5
    <3>2. counter \in Sets
      BY <2>3, <3>1 DEF Flushing, Sets
    <3>3. tags' = [tags EXCEPT ![counter] = None] /\ tags \in [Sets -> CachedLine \cup {None}]
      BY <2>1, <3>1, FlushHolds DEF Clock, CacheEdge, TypeOK
    <3>4. tags'[counter] = None /\ \A s \in Sets : tags[s] = None => tags'[s] = None
      BY <3>2, <3>3
    <3>5. \A s \in scope : s < counter => tags[s] = None
      BY <3>1 DEF FlushInStep
    <3>6. CASE scope = Sets
      <4>1. counter' = counter + 1
        BY <1>1, <2>5, <3>1, <3>6
      <4>2. \A s \in scope : s < counter + 1 => tags'[s] = None
        BY <2>3, <3>4, <3>5, <3>6 DEF Sets
      <4>3. QED BY <2>2, <3>6, <4>1, <4>2
    <3>7. CASE scope # Sets
      <4>1. counter' = LastSet + 1 /\ scope = {counter}
        BY <1>1, <2>5, <3>1, <3>7 DEF FlushInStep
      <4>2. QED BY <1>2, <2>2, <3>4, <4>1
    <3>8. QED BY <3>6, <3>7
  <2>6. QED BY <2>4, <2>5
<1>8. QED BY <1>3, <1>4, <1>5, <1>6, <1>7 DEF FlushInStep, IsA

-----------------------------------------------------------------------------
(* What is cached and what is read ahead, on an edge *)

\* A store to a cached word writes it to the cache.
LEMMA StoreWritesThrough ==
  ASSUME TypeOK, CacheInv, NEW beat \in BOOLEAN, IsA(wb, "store"),
         wb.addr \in CachedWord, tags[SetOfLine[wb.addr[1]]] = wb.addr[1]
  PROVE  ~loading /\ ~BeatIn(beat) /\ WriteAt(beat) = InCache(wb.addr) /\ Collides(wb.addr, beat)
<1> USE DEF CacheInv
<1>1. ~loading /\ wb # None
  BY DEF StagesInStep, IsA
<1>2. addrB = wb.addr /\ stageB.hit
  BY DEF StagesInStep, TagsReadAreCurrent, MemoryEnable
<1>3. ~bypass
  BY <1>2, AddressFacts DEF bypass, Addr
<1>4. QED BY <1>1, <1>2, <1>3 DEF BeatIn, WriteAt, cpuWriteToCache, Collides

\* A flush that ends leaves no line in its sets.
LEMMA FlushLeavesNothing ==
  ASSUME TypeOK, CacheInv, NEW ready \in BOOLEAN, NEW beat \in BOOLEAN,
         IsA(ex, "flush"), ~ExStuck(ready, beat)
  PROVE  /\ wb = None /\ me = None /\ ~Flushing /\ ~start /\ ~loading /\ ex.sets \in Scope
         /\ \A s \in ex.sets : tags[s] = None
<1> USE DEF CacheInv
<1>1. waitDone /\ ~Flushing
  BY DEF ExStuck, FlushReady
<1>2. wb = None /\ me = None /\ ~start /\ ~loading
  BY <1>1 DEF StagesInStep, FlushInStep
<1>3. scope = ex.sets /\ scope \subseteq Sets /\ scope \in Scope
  BY ScopeFacts DEF scope
<1>4. \A s \in scope : s < counter
  BY <1>1, <1>3, CacheAssumption DEF Flushing, Sets
<1>5. QED BY <1>1, <1>2, <1>3, <1>4 DEF FlushInStep

\* What may be returned for a word after the step.
VisibleNext(a) == {mem'[a]} \cup stale'[a]

\* What may be returned for a word stays so but for a store or a flush that
\* takes effect.
LEMMA VisibleStays ==
  ASSUME TypeOK, CacheInv,
         NEW ready \in BOOLEAN, NEW beat \in BOOLEAN, NEW i \in Instr \cup {None},
         Clock(ready, beat, i), NEW a \in CachedWord,
         ~(IsA(wb, "store") /\ ready /\ wb.addr = a),
         ~(IsA(ex, "flush") /\ ~ExStuck(ready, beat) /\ SetOfLine[a[1]] \in ex.sets)
  PROVE  VisibleNext(a) = Visible(a)
<1>1. a \in Addr
  BY DEF Addr
<1>2. IsA(wb, "store") => addrB = wb.addr
  BY DEF CacheInv, StagesInStep, MemoryEnable
<1>3. mem'[a] = mem[a]
  BY <1>1, <1>2 DEF Clock, MemoryEdge, TypeOK
<1>4. ~(IsA(wb, "store") /\ Retires(ready, beat) /\ wb.addr = a)
  BY DEF Retires, Stuck
<1>5. stale'[a] = stale[a]
  BY <1>4 DEF Clock, ProgramEdge, TypeOK
<1>6. QED BY <1>3, <1>5 DEF Visible, VisibleNext

\* A store that is accepted makes its word the one that may be returned.
LEMMA StoreIsVisible ==
  ASSUME TypeOK, CacheInv,
         NEW ready \in BOOLEAN, NEW beat \in BOOLEAN, NEW i \in Instr \cup {None},
         Clock(ready, beat, i), IsA(wb, "store"), ready, wb.addr \in CachedWord
  PROVE  wb.data \in VisibleNext(wb.addr)
<1>1. wb.addr \in Addr /\ addrB = wb.addr
  BY DEF Addr, CacheInv, StagesInStep, MemoryEnable
<1>2. mem'[wb.addr] = wb.data
  BY <1>1 DEF Clock, MemoryEdge, TypeOK
<1>3. QED BY <1>2 DEF VisibleNext

\* The tags that were read stay current on an edge.
LEMMA TagsReadStep ==
  ASSUME TypeOK, CacheInv,
         NEW ready \in BOOLEAN, NEW beat \in BOOLEAN, NEW i \in Instr \cup {None},
         Clock(ready, beat, i)
  PROVE  TagsReadAreCurrent'
<1> USE DEF CacheInv
<1>1. ASSUME MemoryEnable(me')
      PROVE  stageA'.line = IF me'.addr \in CachedWord THEN tags'[SetOfLine[me'.addr[1]]] ELSE None
  <2>1. me' # None
    BY <1>1 DEF MemoryEnable, IsA
  <2>2. tags' = tags
    BY <2>1, TagsHold
  <2>3. CASE Stuck(ready, beat)
    <3>1. me' = me /\ stageA' = stageA
      BY <2>1, <2>3, MovesIn, WaitsOf
    <3>2. QED BY <1>1, <2>2, <3>1 DEF TagsReadAreCurrent
  <2>4. CASE ~Stuck(ready, beat)
    <3>1. me' = ex
      BY <2>1, <2>4, MovesIn
    <3>2. QED BY <1>1, <2>2, <2>4, <3>1 DEF Clock, StageAEdge, NoA
  <2>5. QED BY <2>3, <2>4
<1>2. ASSUME MemoryEnable(wb')
      PROVE  stageB'.hit <=> wb'.addr \in CachedWord /\ tags'[SetOfLine[wb'.addr[1]]] = wb'.addr[1]
  <2>1. wb' # None
    BY <1>2 DEF MemoryEnable, IsA
  <2>2. tags' = tags
    BY <2>1, TagsHold
  <2>3. CASE Stuck(ready, beat)
    <3>1. wb' = wb /\ stageB' = stageB
      BY <2>1, <2>3, MovesIn, WaitsOf
    <3>2. QED BY <1>2, <2>2, <3>1 DEF TagsReadAreCurrent
  <2>4. CASE ~Stuck(ready, beat)
    <3>1. wb' = me /\ me.addr \in Addr /\ me.addr[1] # None /\ MemoryEnable(me)
      BY <1>2, <2>1, <2>4, MovesIn, AddressOfStage, AddressFacts
    <3>2. stageB'.hit <=> stageA.line = me.addr[1]
      BY <1>2, <2>4 DEF Clock, StageBEdge, NoB
    <3>3. QED BY <2>2, <3>1, <3>2 DEF TagsReadAreCurrent
  <2>5. QED BY <2>3, <2>4
<1>3. QED BY <1>1, <1>2 DEF TagsReadAreCurrent, MemoryEnable, IsA

\* A word read ahead stays one that may be returned, or is marked, on an edge.
LEMMA ReadAheadStep ==
  ASSUME TypeOK, CacheInv,
         NEW ready \in BOOLEAN, NEW beat \in BOOLEAN, NEW i \in Instr \cup {None},
         Clock(ready, beat, i)
  PROVE  ReadAheadIsKnown'
<1> USE DEF CacheInv
<1>1. ASSUME IsA(me', "load"), stageA'.line = me'.addr[1], ~stageA'.coll
      PROVE  stageA'.data \in VisibleNext(me'.addr)
  <2>1. me' # None /\ MemoryEnable(me')
    BY <1>1 DEF MemoryEnable, IsA
  <2>2. CASE Stuck(ready, beat)
    <3>1. me' = me /\ stageA' = stageA /\ MemoryEnable(me)
      BY <2>1, <2>2, MovesIn, WaitsOf
    <3>2. me.addr \in CachedWord
      BY <1>1, <3>1, AddressOfStage, AddressFacts DEF TagsReadAreCurrent
    <3>3. stageA.data \in Visible(me.addr)
      BY <1>1, <3>1 DEF ReadAheadIsKnown
    <3>4. ~(IsA(wb, "store") /\ ready) /\ ExStuck(ready, beat)
      BY <2>2 DEF Stuck, ExStuck, IsA, Miss
    <3>5. VisibleNext(me.addr) = Visible(me.addr)
      BY <3>2, <3>4, VisibleStays
    <3>6. QED BY <3>1, <3>3, <3>5
  <2>3. CASE ~Stuck(ready, beat)
    <3>1. /\ me' = ex /\ ~ExStuck(ready, beat) /\ ~IsA(ex, "flush") /\ ex # None
          /\ ex.addr \in Addr /\ ex.addr[1] # None
      BY <2>1, <2>3, MovesIn, AddressOfStage, AddressFacts
    <3>2. /\ ex.addr \in CachedWord
          /\ stageA'.line = tags[SetOfLine[ex.addr[1]]] /\ stageA'.data = data[InCache(ex.addr)]
          /\ ~Collides(ex.addr, beat)
      BY <1>1, <2>1, <2>3, <3>1 DEF Clock, StageAEdge, NoA
    <3>3. /\ SetOfLine[ex.addr[1]] \in Sets /\ ex.addr[2] \in Word
          /\ ex.addr = <<ex.addr[1], ex.addr[2]>> /\ InCache(ex.addr) = <<SetOfLine[ex.addr[1]], ex.addr[2]>>
      BY <3>1, <3>2, AddressFacts DEF InCache
    <3>4. tags[SetOfLine[ex.addr[1]]] = ex.addr[1]
      BY <1>1, <3>1, <3>2
    <3>5. ~loading /\ ~FlushAwaits(SetOfLine[ex.addr[1]])
      BY <3>1 DEF ExStuck, FlushAwaits
    <3>6. ~(IsA(wb, "store") /\ wb.addr = ex.addr)
      BY <3>2, <3>4, StoreWritesThrough
    <3>7. data[InCache(ex.addr)] \in Visible(ex.addr)
      BY <3>1, <3>3, <3>4, <3>5, <3>6 DEF LinesFollowMemory
    <3>8. VisibleNext(ex.addr) = Visible(ex.addr)
      BY <3>1, <3>2, <3>6, VisibleStays
    <3>9. QED BY <3>1, <3>2, <3>7, <3>8
  <2>4. QED BY <2>2, <2>3
<1>2. ASSUME IsA(wb', "load"), stageB'.hit, ~stageB'.coll
      PROVE  stageB'.data \in VisibleNext(wb'.addr)
  <2>1. wb' # None /\ MemoryEnable(wb')
    BY <1>2 DEF MemoryEnable, IsA
  <2>2. CASE Stuck(ready, beat)
    <3>1. wb' = wb /\ stageB' = stageB /\ MemoryEnable(wb)
      BY <2>1, <2>2, MovesIn, WaitsOf
    <3>2. wb.addr \in CachedWord /\ stageB.data \in Visible(wb.addr)
      BY <1>2, <3>1 DEF TagsReadAreCurrent, ReadAheadIsKnown
    <3>3. ~IsA(wb, "store") /\ ExStuck(ready, beat)
      BY <1>2, <2>2, <3>1 DEF IsA, ExStuck
    <3>4. VisibleNext(wb.addr) = Visible(wb.addr)
      BY <3>2, <3>3, VisibleStays
    <3>5. QED BY <3>1, <3>2, <3>4
  <2>3. CASE ~Stuck(ready, beat)
    <3>1. wb' = me /\ MemoryEnable(me) /\ me # None /\ IsA(me, "load")
      BY <1>2, <2>1, <2>3, MovesIn
    <3>2. /\ stageA.line = me.addr[1] /\ stageB'.data = stageA.data
          /\ ~stageA.coll /\ ~Collides(me.addr, beat)
      BY <1>2, <2>3 DEF Clock, StageBEdge, NoB
    <3>3. me.addr \in CachedWord /\ tags[SetOfLine[me.addr[1]]] = me.addr[1]
      BY <3>1, <3>2, AddressOfStage, AddressFacts DEF TagsReadAreCurrent
    <3>4. stageA.data \in Visible(me.addr)
      BY <3>1, <3>2 DEF ReadAheadIsKnown
    <3>5. ~(IsA(wb, "store") /\ wb.addr = me.addr)
      BY <3>2, <3>3, StoreWritesThrough
    <3>6. ~(IsA(ex, "flush") /\ ~ExStuck(ready, beat))
      BY <3>1, FlushLeavesNothing
    <3>7. VisibleNext(me.addr) = Visible(me.addr)
      BY <3>3, <3>5, <3>6, VisibleStays
    <3>8. QED BY <3>1, <3>2, <3>4, <3>7
  <2>4. QED BY <2>2, <2>3
<1>3. QED BY <1>1, <1>2 DEF ReadAheadIsKnown, Visible, VisibleNext, IsA

\* The line that a set holds or is being filled with.
Filling(s) == loading /\ s = SetOfLine[addrB[1]]
LineOf(s) == IF Filling(s) THEN addrB[1] ELSE tags[s]

\* LinesFollowMemory for one word.
Follows(s, w) ==
  \/ data[<<s, w>>] \in Visible(<<LineOf(s), w>>)
  \/ IsA(wb, "store") /\ wb.addr = <<LineOf(s), w>> /\ data[<<s, w>>] = wb.data

\* LinesFollowMemory set by set and word by word.
LEMMA LinesFollowInParts ==
  LinesFollowMemory <=>
    \A s \in Sets :
      /\ tags[s] # None => SetOfLine[tags[s]] = s
      /\ LineOf(s) # None =>
           /\ SetOfLine[LineOf(s)] = s
           /\ \A w \in Word : ~FlushAwaits(s) /\ (Filling(s) => w < count) => Follows(s, w)
BY DEF LinesFollowMemory, LineOf, Filling, Follows

\* A refill neither meets a store nor the end of a flush.
LEMMA RefillIsAlone ==
  ASSUME TypeOK, CacheInv, NEW ready \in BOOLEAN, NEW beat \in BOOLEAN, loading
  PROVE  /\ ~IsA(wb, "store") /\ ~(IsA(ex, "flush") /\ ~ExStuck(ready, beat))
         /\ \A s \in Sets : ~FlushAwaits(s)
         /\ addrB \in CachedWord /\ rd = <<addrB[1], count>> /\ count \in Word
<1>1. ~IsA(wb, "store")
  BY DEF CacheInv, StagesInStep, IsA
<1>2. IsA(ex, "flush") => ExStuck(ready, beat)
  BY DEF ExStuck, IsA
<1>3. ~start /\ ~Flushing
  BY DEF CacheInv, StagesInStep
<1>4. QED BY <1>1, <1>2, <1>3 DEF FlushAwaits, CacheInv, RefillInStep, TypeOK

\* While a line is filled, the words that have arrived follow memory, with the
\* one that this edge brings.
LEMMA FilledFollow ==
  ASSUME TypeOK, CacheInv,
         NEW ready \in BOOLEAN, NEW beat \in BOOLEAN, NEW i \in Instr \cup {None},
         Clock(ready, beat, i), NEW s \in Sets, Filling(s), NEW w \in Word,
         w < count \/ (beat /\ w = count)
  PROVE  data'[<<s, w>>] \in VisibleNext(<<addrB[1], w>>)
<1>1. /\ loading /\ addrB \in CachedWord /\ rd = <<addrB[1], count>> /\ count \in Word
      /\ ~IsA(wb, "store") /\ ~(IsA(ex, "flush") /\ ~ExStuck(ready, beat)) /\ ~FlushAwaits(s)
  BY RefillIsAlone DEF Filling
<1>2. <<addrB[1], w>> \in CachedWord
  BY <1>1 DEF CachedWord
<1>3. VisibleNext(<<addrB[1], w>>) = Visible(<<addrB[1], w>>)
  BY <1>1, <1>2, VisibleStays
<1>4. data' = IF beat THEN [data EXCEPT ![<<s, count>>] = mem[rd]] ELSE data
  <2>1. WriteAt(beat) = IF beat THEN <<s, count>> ELSE None
    BY <1>1 DEF WriteAt, BeatIn, Filling, cpuWriteToCache
  <2>2. <<s, count>> # None
    BY <1>1, CacheAssumption
  <2>3. QED BY <1>1, <2>1, <2>2 DEF Clock, CacheEdge, BeatIn
<1>5. data \in [Sets \X Word -> Val]
  BY DEF TypeOK
<1>6. CASE w < count
  <2>1. w # count
    BY <1>1, <1>6, CacheAssumption DEF Word
  <2>2. data'[<<s, w>>] = data[<<s, w>>]
    BY <1>1, <1>4, <1>5, <2>1
  <2>3. LineOf(s) = addrB[1] /\ addrB[1] # None
    BY <1>1, AddressFacts DEF LineOf, Filling, Addr
  <2>4. Follows(s, w)
    BY <1>1, <1>6, <2>3, LinesFollowInParts DEF CacheInv
  <2>5. QED BY <1>1, <1>3, <2>2, <2>3, <2>4 DEF Follows
<1>7. CASE beat /\ w = count
  <2>1. data'[<<s, w>>] = mem[<<addrB[1], w>>]
    BY <1>1, <1>4, <1>5, <1>7
  <2>2. QED BY <1>3, <2>1 DEF Visible
<1>8. QED BY <1>6, <1>7

\* The set that a reset's flush awaits is awaited still, or has lost its line.
LEMMA AwaitsStep ==
  ASSUME TypeOK, CacheInv,
         NEW ready \in BOOLEAN, NEW beat \in BOOLEAN, NEW i \in Instr \cup {None},
         Clock(ready, beat, i), NEW s \in Sets, FlushAwaits(s), tags'[s] # None
  PROVE  FlushAwaits(s)'
<1>1. ex = None /\ s \in left /\ (start \/ Flushing) /\ ex' = ex /\ ~Done(beat)
  BY FlushHolds DEF FlushAwaits
<1>2. left' = left /\ scope = left
  BY <1>1 DEF Clock, FlusherEdge, scope, IsA
<1>3. /\ counter' = IF start THEN First
                    ELSE IF Flushing THEN (IF scope = Sets THEN counter + 1 ELSE LastSet + 1)
                    ELSE counter
      /\ Flushing' <=> counter' # LastSet + 1
  BY DEF Clock, FlusherEdge, Flushing
<1>4. LastSet \in Nat /\ counter \in 0 .. LastSet + 1 /\ s \in 0 .. LastSet
  BY CacheAssumption DEF TypeOK, Sets
<1>5. CASE start
  <2>1. First <= s /\ First \in Sets /\ counter' = First
    BY <1>1, <1>2, <1>3, <1>5, ScopeFacts
  <2>2. counter' <= s /\ Flushing'
    BY <1>3, <1>4, <2>1 DEF Sets
  <2>3. QED BY <1>1, <1>2, <2>2 DEF FlushAwaits
<1>6. CASE ~start
  <2>1. Flushing /\ counter <= s /\ waitDone
    BY <1>1, <1>6 DEF FlushAwaits, CacheInv, FlushInStep
  <2>2. tags'[s] = IF s = counter THEN None ELSE tags[s]
    BY <1>1, <2>1 DEF Clock, CacheEdge, TypeOK
  <2>3. s # counter
    BY <2>2
  <2>4. scope = Sets
    BY <1>1, <1>2, <2>1, <2>3 DEF CacheInv, FlushInStep
  <2>5. counter' = counter + 1 /\ counter' <= s /\ counter' # LastSet + 1
    BY <1>3, <1>4, <1>6, <2>1, <2>3, <2>4
  <2>6. QED BY <1>1, <1>2, <1>3, <2>5 DEF FlushAwaits
<1>7. QED BY <1>5, <1>6

\* A line that is not being filled follows memory after an edge that keeps it.
LEMMA CachedFollow ==
  ASSUME TypeOK, CacheInv,
         NEW ready \in BOOLEAN, NEW beat \in BOOLEAN, NEW i \in Instr \cup {None},
         Clock(ready, beat, i), NEW s \in Sets, ~Filling(s), NEW w \in Word,
         tags[s] # None, tags'[s] = tags[s], ~FlushAwaits(s)
  PROVE  \/ data'[<<s, w>>] \in VisibleNext(<<tags[s], w>>)
         \/ IsA(wb', "store") /\ wb'.addr = <<tags[s], w>> /\ data'[<<s, w>>] = wb'.data
<1> DEFINE a == <<tags[s], w>>
<1>1. LineOf(s) = tags[s] /\ SetOfLine[tags[s]] = s /\ Follows(s, w)
  <2>1. LineOf(s) = tags[s]
    BY DEF LineOf
  <2>2. QED BY <2>1, LinesFollowInParts DEF CacheInv
<1>2. a \in CachedWord /\ a[1] = tags[s] /\ a[2] = w /\ a \in Addr /\ InCache(a) = <<s, w>>
  BY <1>1 DEF TypeOK, CachedWord, Addr, InCache
<1>3. ~(IsA(ex, "flush") /\ ~ExStuck(ready, beat) /\ SetOfLine[a[1]] \in ex.sets)
  BY <1>1, <1>2, FlushLeavesNothing
<1>4. data' = IF WriteAt(beat) = None THEN data
              ELSE [data EXCEPT ![WriteAt(beat)] = IF BeatIn(beat) THEN mem[rd] ELSE wb.data]
  BY DEF Clock, CacheEdge
<1>5. <<s, w>> # None /\ data \in [Sets \X Word -> Val] /\ <<s, w>> \in Sets \X Word
  BY CacheAssumption DEF TypeOK
<1>6. CASE IsA(wb, "store") /\ wb.addr = a
  <2>1. ~BeatIn(beat) /\ WriteAt(beat) = <<s, w>>
    BY <1>1, <1>2, <1>6, StoreWritesThrough
  <2>2. data'[<<s, w>>] = wb.data
    BY <1>4, <1>5, <2>1
  <2>3. CASE ready
    BY <1>2, <1>6, <2>2, <2>3, StoreIsVisible
  <2>4. CASE ~ready
    <3>1. Stuck(ready, beat) /\ ~loading
      BY <1>1, <1>2, <1>6, <2>4, StoreWritesThrough DEF Stuck
    <3>2. ~redoBranch
      BY <1>6, <3>1 DEF redoBranch, redo, IsA
    <3>3. wb' = wb
      BY <3>1, <3>2, WaitsOf DEF Waits
    <3>4. QED BY <1>6, <2>2, <3>3
  <2>5. QED BY <2>3, <2>4
<1>7. CASE ~(IsA(wb, "store") /\ wb.addr = a)
  <2>1. data[<<s, w>>] \in Visible(a)
    BY <1>1, <1>7 DEF Follows
  <2>2. VisibleNext(a) = Visible(a)
    BY <1>2, <1>3, <1>7, VisibleStays
  <2>3. WriteAt(beat) # <<s, w>>
    <3>1. CASE BeatIn(beat)
      BY <3>1 DEF WriteAt, BeatIn, Filling
    <3>2. CASE ~BeatIn(beat)
      <4>1. SUFFICES ASSUME cpuWriteToCache, InCache(addrB) = <<s, w>> PROVE FALSE
        BY <1>5, <3>2 DEF WriteAt
      <4>2. addrB = wb.addr /\ addrB \in Addr /\ stageB.hit /\ addrB \in CachedWord /\ IsA(wb, "store")
        BY <4>1, AddressOfStage, AddressFacts
           DEF cpuWriteToCache, CacheInv, StagesInStep, MemoryEnable, bypass
      <4>3. tags[SetOfLine[addrB[1]]] = addrB[1]
        BY <4>2 DEF CacheInv, TagsReadAreCurrent, MemoryEnable
      <4>4. addrB = <<addrB[1], addrB[2]>> /\ SetOfLine[addrB[1]] = s /\ addrB[2] = w
        BY <4>1, <4>2, AddressFacts DEF InCache
      <4>5. QED BY <1>7, <4>2, <4>3, <4>4
    <3>3. QED BY <3>1, <3>2
  <2>4. data'[<<s, w>>] = data[<<s, w>>]
    BY <1>4, <1>5, <2>3
  <2>5. QED BY <2>1, <2>2, <2>4
<1>8. QED BY <1>6, <1>7

\* Lines follow memory after an edge.
LEMMA LinesStep ==
  ASSUME TypeOK, CacheInv,
         NEW ready \in BOOLEAN, NEW beat \in BOOLEAN, NEW i \in Instr \cup {None},
         Clock(ready, beat, i)
  PROVE  LinesFollowMemory'
<1>1. ASSUME NEW s \in Sets, tags'[s] # None
      PROVE  SetOfLine[tags'[s]] = s
  BY <1>1, LinesFollowInParts DEF CacheInv, Clock, CacheEdge, TypeOK
<1> SUFFICES ASSUME NEW s \in Sets, LineOf(s)' # None
             PROVE  /\ SetOfLine[LineOf(s)'] = s
                    /\ \A w \in Word : ~FlushAwaits(s)' /\ (Filling(s)' => w < count') => Follows(s, w)'
  BY <1>1 DEF LinesFollowMemory, LineOf, Filling, Follows, Visible, FlushAwaits, Flushing, IsA
<1>2. CASE Filling(s)
  <2>1. loading /\ addrB \in CachedWord /\ s = SetOfLine[addrB[1]] /\ count \in Word
    BY <1>2, RefillIsAlone DEF Filling
  <2>2. addrB' = addrB /\ (~loading' => Done(beat) /\ beat /\ count = LastWord)
        /\ (loading' => count' = IF beat THEN count + 1 ELSE count)
    BY <2>1, RefillGoesOn
  <2>3. LineOf(s)' = addrB[1]
    BY <2>1, <2>2 DEF LineOf, Filling, Clock, CacheEdge, TypeOK
  <2>4. ASSUME NEW w \in Word, Filling(s)' => w < count'
        PROVE  w < count \/ (beat /\ w = count)
    <3>1. LastWord \in Nat /\ w \in 0 .. LastWord /\ count \in 0 .. LastWord
      BY <2>1, CacheAssumption DEF Word
    <3>2. Filling(s)' <=> loading'
      BY <2>1, <2>2 DEF Filling
    <3>3. QED BY <2>2, <2>4, <3>1, <3>2
  <2>5. ASSUME NEW w \in Word, Filling(s)' => w < count' PROVE Follows(s, w)'
    <3>1. data'[<<s, w>>] \in VisibleNext(<<addrB[1], w>>)
      BY <1>2, <2>4, <2>5, FilledFollow
    <3>2. QED BY <2>3, <3>1 DEF Follows, Visible, VisibleNext
  <2>6. QED BY <2>1, <2>3, <2>5
<1>3. CASE ~Filling(s) /\ Filling(s)'
  <2>1. ~loading /\ loading'
    BY <1>3, RefillGoesOn DEF Filling
  <2>2. count' = 0 /\ addrB' = addrB
    BY <2>1, RefillStarts
  <2>3. \A w \in Word : ~(w < 0)
    BY CacheAssumption DEF Word
  <2>4. QED BY <1>3, <2>2, <2>3 DEF LineOf, Filling
<1>4. CASE ~Filling(s) /\ ~Filling(s)'
  <2>1. LineOf(s) = tags[s] /\ LineOf(s)' = tags'[s]
    BY <1>4 DEF LineOf
  <2>2. tags'[s] = tags[s]
    <3>1. Done(beat) => SetOfLine[addrB[1]] # s
      BY <1>4 DEF Done, BeatIn, Filling
    <3>2. QED BY <2>1, <3>1 DEF Clock, CacheEdge, TypeOK
  <2>3. SetOfLine[tags[s]] = s
    BY <2>1, <2>2, LinesFollowInParts DEF CacheInv
  <2>4. ASSUME NEW w \in Word, ~FlushAwaits(s)' PROVE Follows(s, w)'
    <3>1. ~FlushAwaits(s)
      BY <2>1, <2>4, AwaitsStep
    <3>2. \/ data'[<<s, w>>] \in VisibleNext(<<tags[s], w>>)
          \/ IsA(wb', "store") /\ wb'.addr = <<tags[s], w>> /\ data'[<<s, w>>] = wb'.data
      BY <1>4, <2>1, <2>2, <3>1, CachedFollow
    <3>3. QED BY <2>1, <2>2, <3>2 DEF Follows, Visible, VisibleNext, IsA
  <2>5. QED BY <2>1, <2>2, <2>3, <2>4
<1>5. QED BY <1>2, <1>3, <1>4

-----------------------------------------------------------------------------
(* The other steps, and the invariant *)

\* The invariant holds at first, with nothing cached.
LEMMA CacheInit == Init => CacheInv
<1> SUFFICES ASSUME Init PROVE CacheInv
  OBVIOUS
<1>1. StagesInStep
  BY DEF Init, StagesInStep, IsA, MemoryEnable
<1>2. RefillInStep /\ TagsReadAreCurrent /\ ReadAheadIsKnown
  BY DEF Init, RefillInStep, TagsReadAreCurrent, ReadAheadIsKnown, IsA, MemoryEnable
<1>3. FlushInStep
  BY CacheAssumption DEF Init, FlushInStep, Flushing
<1>4. LinesFollowMemory
  BY DEF Init, LinesFollowMemory
<1>5. QED BY <1>1, <1>2, <1>3, <1>4 DEF CacheInv

\* What main() overwrites may still be returned.
LEMMA HostKeepsVisible ==
  ASSUME TypeOK, NEW b \in HostWord, NEW v \in Val, Host(b, v), NEW a \in CachedWord
  PROVE  Visible(a) \subseteq VisibleNext(a)
<1>1. a \in Addr /\ b \in Addr /\ b \in CachedWord
  BY CacheAssumption DEF Addr
<1>2. mem'[a] = IF a = b THEN v ELSE mem[a]
  BY <1>1 DEF Host, TypeOK
<1>3. stale'[a] = IF a = b THEN stale[a] \cup {mem[a]} ELSE stale[a]
  BY <1>1 DEF Host, TypeOK
<1>4. QED BY <1>2, <1>3 DEF Visible, VisibleNext

\* main()'s stores keep the invariant.
LEMMA CacheHost ==
  ASSUME TypeOK, CacheInv, NEW b \in HostWord, NEW v \in Val, Host(b, v)
  PROVE  CacheInv'
<1> USE DEF CacheInv
<1>1. UNCHANGED <<stages, loader, flusher, tags, data, rd, got>>
  BY DEF Host
<1>2. StagesInStep' /\ RefillInStep' /\ FlushInStep' /\ TagsReadAreCurrent'
  BY <1>1 DEF stages, loader, flusher, StagesInStep, RefillInStep, FlushInStep,
     TagsReadAreCurrent, IsA, MemoryEnable, Flushing, bypass, scope
<1>3. LinesFollowMemory'
  <2>1. SUFFICES ASSUME NEW s \in Sets, LineOf(s)' # None
                 PROVE  /\ SetOfLine[LineOf(s)'] = s
                        /\ \A w \in Word : ~FlushAwaits(s)' /\ (Filling(s)' => w < count') => Follows(s, w)'
    BY <1>1 DEF LinesFollowMemory, LineOf, Filling, Follows, Visible, FlushAwaits, Flushing, IsA
  <2>2. LineOf(s)' = LineOf(s) /\ (FlushAwaits(s)' <=> FlushAwaits(s)) /\ (Filling(s)' <=> Filling(s))
        /\ count' = count
    BY <1>1 DEF stages, loader, flusher, LineOf, Filling, FlushAwaits, Flushing
  <2>3. SetOfLine[LineOf(s)] = s /\ LineOf(s) \in CachedLine
    <3>1. LineOf(s) \in CachedLine \cup {None}
      BY DEF LineOf, Filling, RefillInStep, CachedWord, TypeOK
    <3>2. QED BY <2>1, <2>2, <3>1, LinesFollowInParts
  <2>4. ASSUME NEW w \in Word, Follows(s, w) PROVE Follows(s, w)'
    <3>1. <<LineOf(s), w>> \in CachedWord
      BY <2>3 DEF CachedWord
    <3>2. Visible(<<LineOf(s), w>>) \subseteq VisibleNext(<<LineOf(s), w>>)
      BY <3>1, HostKeepsVisible
    <3>3. QED BY <1>1, <2>2, <2>4, <3>2 DEF Follows, Visible, VisibleNext, stages, IsA
  <2>5. QED BY <2>1, <2>2, <2>3, <2>4, LinesFollowInParts
<1>4. ReadAheadIsKnown'
  <2>1. ASSUME IsA(me, "load"), stageA.line = me.addr[1], ~stageA.coll
        PROVE  stageA.data \in VisibleNext(me.addr)
    <3>1. me.addr \in CachedWord
      BY <2>1, AddressOfStage, AddressFacts DEF MemoryEnable, TagsReadAreCurrent
    <3>2. QED BY <2>1, <3>1, HostKeepsVisible DEF ReadAheadIsKnown
  <2>2. ASSUME IsA(wb, "load"), stageB.hit, ~stageB.coll
        PROVE  stageB.data \in VisibleNext(wb.addr)
    <3>1. wb.addr \in CachedWord
      BY <2>2 DEF MemoryEnable, TagsReadAreCurrent
    <3>2. QED BY <2>2, <3>1, HostKeepsVisible DEF ReadAheadIsKnown
  <2>3. QED BY <1>1, <2>1, <2>2 DEF ReadAheadIsKnown, Visible, VisibleNext, stages, IsA
<1>5. QED BY <1>2, <1>3, <1>4

\* A reset keeps the invariant: of a line it leaves, anything may be returned,
\* or the flush that follows is yet to come to it.
LEMMA CacheReset == ASSUME TypeOK, CacheInv, Reset PROVE CacheInv'
<1>1. StagesInStep'
  BY DEF Reset, StagesInStep, IsA, MemoryEnable
<1>2. RefillInStep' /\ TagsReadAreCurrent' /\ ReadAheadIsKnown'
  BY DEF Reset, RefillInStep, TagsReadAreCurrent, ReadAheadIsKnown, IsA, MemoryEnable
<1>3. FlushInStep'
  BY CacheAssumption DEF Reset, FlushInStep, Flushing
<1>4. LinesFollowMemory'
  <2>1. SUFFICES ASSUME NEW s \in Sets, tags'[s] # None
                 PROVE  /\ SetOfLine[tags'[s]] = s
                        /\ \A w \in Word : ~FlushAwaits(s)' => data'[<<s, w>>] \in VisibleNext(<<tags'[s], w>>)
    BY DEF Reset, LinesFollowMemory, FlushAwaits, Flushing, Visible, VisibleNext
  <2>2. s # 0 /\ tags'[s] = tags[s] /\ tags[s] \in CachedLine
    BY <2>1, CacheAssumption DEF Reset, TypeOK
  <2>3. SetOfLine[tags[s]] = s
    BY <2>2, CacheAssumption, LinesFollowInParts DEF CacheInv
  <2>4. ASSUME NEW w \in Word, ~FlushAwaits(s)' PROVE data'[<<s, w>>] \in VisibleNext(<<tags'[s], w>>)
    <3>1. s \notin left'
      <4>1. ex' = None /\ start'
        BY DEF Reset
      <4>2. QED BY <2>4, <4>1 DEF FlushAwaits
    <3>2. <<tags[s], w>> \in CachedWord /\ data[<<s, w>>] \in Val
      BY <2>2 DEF CachedWord, TypeOK
    <3>3. stale'[<<tags[s], w>>] = Val
      BY <2>2, <2>3, <3>1, <3>2 DEF Reset
    <3>4. QED BY <2>2, <3>2, <3>3 DEF Reset, VisibleNext
  <2>5. QED BY <2>2, <2>3, <2>4
<1>5. QED BY <1>1, <1>2, <1>3, <1>4 DEF CacheInv

\* Every step keeps the invariant.
LEMMA CacheStep == ASSUME TypeOK, CacheInv, [Next]_vars PROVE CacheInv'
<1>1. CASE \E ready, beat \in BOOLEAN, i \in Instr \cup {None} : Clock(ready, beat, i)
  BY <1>1, StagesStep, RefillStep, FlushStep, TagsReadStep, LinesStep, ReadAheadStep DEF CacheInv
<1>2. CASE \E a \in HostWord, v \in Val : Host(a, v)
  BY <1>2, CacheHost
<1>3. CASE Reset
  BY <1>3, CacheReset
<1>4. CASE UNCHANGED vars
  BY <1>4 DEF vars, stages, loader, flusher, CacheInv, StagesInStep, RefillInStep, FlushInStep,
     TagsReadAreCurrent, LinesFollowMemory, ReadAheadIsKnown, Visible, FlushAwaits, Flushing,
     scope, bypass, MemoryEnable, IsA
<1>5. QED BY <1>1, <1>2, <1>3, <1>4 DEF Next

\* Types and invariant hold in every state.
LEMMA CacheInvariance == Spec => [](TypeOK /\ CacheInv)
<1>1. Init => TypeOK /\ CacheInv
  BY TypeInit, CacheInit
<1>2. TypeOK /\ CacheInv /\ [Next]_vars => (TypeOK /\ CacheInv)'
  BY TypeStep, CacheStep
<1>3. QED BY <1>1, <1>2, PTL DEF Spec

\* Stages, loader, flusher, memories and the program's view keep their types.
THEOREM CacheTypes == Spec => []TypeOK
BY CacheInvariance, PTL

\* Pipeline, cache, loader, flusher, bus and the words read ahead agree in
\* every state, for every number of sets and words and every program.
THEOREM CacheAgrees == Spec => []CacheInv
BY CacheInvariance, PTL

-----------------------------------------------------------------------------
(* The pipeline as a sequence of instructions *)

\* The stages as a sequence, oldest first.
Flight(w, m, e, g) == Held(w) \o (Held(m) \o (Held(e) \o Held(g)))

\* A stage is a sequence of at most one instruction.
LEMMA HeldFacts ==
  /\ Held(None) = <<>> /\ \A x \in Instr : Held(x) = <<x>>
  /\ \A x \in Instr \cup {None} : Held(x) \in Seq(Instr)
BY InstrFacts DEF Held

\* An empty stage adds nothing.
LEMMA EmptyStage == ASSUME NEW s \in Seq(Instr) PROVE <<>> \o s = s /\ s \o <<>> = s
BY ConcatEmptySeq

\* An instruction before a sequence is its head, and the sequence its tail.
LEMMA OldestFirst ==
  ASSUME NEW x \in Instr, NEW s \in Seq(Instr)
  PROVE  /\ <<x>> \o s \in Seq(Instr) /\ <<x>> \o s # <<>>
         /\ Head(<<x>> \o s) = x /\ Tail(<<x>> \o s) = s
<1>1. <<x>> \in Seq(Instr) /\ Len(<<x>>) = 1 /\ <<x>>[1] = x
  OBVIOUS
<1>2. /\ <<x>> \o s \in Seq(Instr) /\ Len(<<x>> \o s) = 1 + Len(s)
      /\ \A k \in 1 .. 1 + Len(s) : (<<x>> \o s)[k] = IF k <= 1 THEN x ELSE s[k - 1]
  BY <1>1, ConcatProperties
<1>3. PICK c : c = <<x>> \o s
  OBVIOUS
<1>4. c \in Seq(Instr) /\ Len(c) = 1 + Len(s) /\ Len(s) \in Nat /\ c # <<>> /\ c[1] = x
      /\ \A k \in 1 .. Len(s) : c[k + 1] = s[k]
  BY <1>2, <1>3
<1>5. Tail(c) \in Seq(Instr) /\ Len(Tail(c)) = Len(s) /\ \A k \in 1 .. Len(s) : Tail(c)[k] = c[k + 1]
  BY <1>4
<1>6. Tail(c) = s
  BY <1>4, <1>5, SeqEqual
<1>7. Head(c) = x
  BY <1>4
<1>8. QED BY <1>2, <1>3, <1>4, <1>6, <1>7

\* The flight is a sequence of instructions.
LEMMA FlightType ==
  ASSUME NEW w \in Instr \cup {None}, NEW m \in Instr \cup {None},
         NEW e \in Instr \cup {None}, NEW g \in Instr \cup {None}
  PROVE  /\ Held(e) \o Held(g) \in Seq(Instr)
         /\ Held(m) \o (Held(e) \o Held(g)) \in Seq(Instr)
         /\ Flight(w, m, e, g) \in Seq(Instr)
<1>1. /\ Held(w) \in Seq(Instr) /\ Held(m) \in Seq(Instr)
      /\ Held(e) \in Seq(Instr) /\ Held(g) \in Seq(Instr)
  BY HeldFacts
<1>2. Held(e) \o Held(g) \in Seq(Instr)
  BY <1>1, ConcatProperties
<1>3. Held(m) \o (Held(e) \o Held(g)) \in Seq(Instr)
  BY <1>1, <1>2, ConcatProperties
<1>4. Held(w) \o (Held(m) \o (Held(e) \o Held(g))) \in Seq(Instr)
  BY <1>1, <1>3, ConcatProperties
<1>5. QED BY <1>2, <1>3, <1>4 DEF Flight

\* The stages behind write-back.
LEMMA FlightRest ==
  ASSUME NEW m \in Instr \cup {None}, NEW e \in Instr \cup {None}, NEW g \in Instr \cup {None}
  PROVE  Flight(None, m, e, g) = Held(m) \o (Held(e) \o Held(g))
<1>1. Held(m) \o (Held(e) \o Held(g)) \in Seq(Instr)
  BY FlightType
<1>2. QED BY <1>1, HeldFacts, EmptyStage DEF Flight

\* An empty write-back is as good as an empty memory stage.
LEMMA FlightSkips ==
  ASSUME NEW m \in Instr \cup {None}, NEW e \in Instr \cup {None}, NEW g \in Instr \cup {None}
  PROVE  Flight(m, None, e, g) = Flight(None, m, e, g)
<1>1. Held(e) \o Held(g) \in Seq(Instr) /\ Held(None) = <<>>
  BY FlightType, HeldFacts
<1>2. Flight(m, None, e, g) = Held(m) \o (Held(e) \o Held(g))
  BY <1>1, EmptyStage DEF Flight
<1>3. QED BY <1>2, FlightRest

\* The same for the last two stages.
LEMMA FlightSkipsLast ==
  ASSUME NEW g \in Instr \cup {None}
  PROVE  Flight(None, None, g, None) = Flight(None, None, None, g)
<1>1. Held(g) \in Seq(Instr) /\ Held(None) = <<>>
  BY HeldFacts
<1>2. QED BY <1>1, EmptyStage DEF Flight

\* An instruction that enters comes last.
LEMMA FlightGrows ==
  ASSUME NEW m \in Instr \cup {None}, NEW e \in Instr \cup {None}, NEW g \in Instr \cup {None}
  PROVE  Flight(m, e, g, None) = Flight(None, m, e, None) \o Held(g)
<1>1. /\ Held(m) \in Seq(Instr) /\ Held(e) \in Seq(Instr) /\ Held(g) \in Seq(Instr)
      /\ Held(None) = <<>>
  BY HeldFacts
<1>2. Flight(m, e, g, None) = Held(m) \o (Held(e) \o Held(g))
  BY <1>1, EmptyStage DEF Flight
<1>3. Flight(None, m, e, None) = Held(m) \o Held(e)
  <2>1. Held(m) \o Held(e) \in Seq(Instr)
    BY <1>1, ConcatProperties
  <2>2. QED BY <1>1, <2>1, EmptyStage DEF Flight
<1>4. (Held(m) \o Held(e)) \o Held(g) = Held(m) \o (Held(e) \o Held(g))
  BY <1>1, ConcatAssociative
<1>5. QED BY <1>2, <1>3, <1>4

-----------------------------------------------------------------------------
(* The refinement *)

\* The program's view of the stages, before and after a step.
LEMMA InFlightIs ==
  /\ InFlight = Flight(wb, me, ex, again)
  /\ InFlight' = Flight(wb', me', ex', again')
BY DEF InFlight, Flight, Held

\* The oldest instruction is in write-back, if there is one.
LEMMA OldestIsInWriteBack ==
  ASSUME TypeOK, wb # None
  PROVE  InFlight # <<>> /\ Head(InFlight) = wb /\ Tail(InFlight) = Flight(None, me, ex, again)
<1>1. wb \in Instr /\ Held(wb) = <<wb>>
  BY HeldFacts DEF TypeOK
<1>2. /\ me \in Instr \cup {None} /\ ex \in Instr \cup {None} /\ again \in Instr \cup {None}
      /\ None \in Instr \cup {None}
  BY DEF TypeOK
<1>3. Flight(None, me, ex, again) = Held(me) \o (Held(ex) \o Held(again))
  BY <1>2, FlightRest
<1>4. Flight(None, me, ex, again) \in Seq(Instr)
  BY <1>2, <1>3, FlightType
<1>5. InFlight = <<wb>> \o Flight(None, me, ex, again)
  BY <1>1, <1>3 DEF InFlight
<1>6. QED BY <1>1, <1>4, <1>5, OldestFirst

\* A step on which nothing retires changes nothing that the program sees.
LEMMA NothingRetires ==
  ASSUME TypeOK, CacheInv,
         NEW ready \in BOOLEAN, NEW beat \in BOOLEAN, NEW i \in Instr \cup {None},
         Clock(ready, beat, i),
         ~Retires(ready, beat), ~(IsA(ex, "flush") /\ ~ExStuck(ready, beat))
  PROVE  UNCHANGED <<mem, stale, got>>
<1>1. ~(IsA(wb, "store") /\ ready)
  <2> SUFFICES ASSUME IsA(wb, "store"), ready PROVE FALSE
    OBVIOUS
  <2>1. wb # None /\ ~Stuck(ready, beat)
    BY DEF IsA, Stuck, Miss
  <2>2. ~redoBranch
    BY DEF redoBranch, redo, CacheInv, StagesInStep, IsA
  <2>3. QED BY <2>1, <2>2 DEF Retires
<1>2. mem' = mem /\ got' = got
  BY <1>1 DEF Clock, MemoryEdge, ProgramEdge
<1>3. stale' = [a \in CachedWord |-> stale[a]]
  BY DEF Clock, ProgramEdge
<1>4. stale' = stale
  BY <1>3 DEF TypeOK
<1>5. QED BY <1>2, <1>4

\* A load or store that retires takes effect as the program expects.
LEMMA OldestTakesEffect ==
  ASSUME TypeOK, CacheInv,
         NEW ready \in BOOLEAN, NEW beat \in BOOLEAN, NEW i \in Instr \cup {None},
         Clock(ready, beat, i), Retires(ready, beat)
  PROVE  Program!Load(wb) \/ Program!Store(wb)
<1>1. wb # None /\ wb \in Instr /\ ~Stuck(ready, beat) /\ ~redoBranch
  BY DEF Retires, TypeOK
<1>2. ~(IsA(ex, "flush") /\ ~ExStuck(ready, beat))
  BY <1>1, FlushLeavesNothing
<1>3. IsA(wb, "load") \/ IsA(wb, "store")
  BY <1>1, InstrFacts DEF CacheInv, StagesInStep
<1>4. wb.addr = addrB /\ addrB \in Addr
  BY <1>3, AddressOfStage DEF MemoryEnable, CacheInv, StagesInStep
<1>5. stale' = [a \in CachedWord |-> IF IsA(wb, "store") /\ wb.addr = a THEN {} ELSE stale[a]]
  BY <1>2 DEF Clock, ProgramEdge
<1>6. CASE IsA(wb, "load")
  <2>1. ~IsA(wb, "store")
    BY <1>6 DEF IsA
  <2>2. mem' = mem
    BY <2>1 DEF Clock, MemoryEdge
  <2>3. stale' = stale
    BY <1>5, <2>1 DEF TypeOK
  <2>4. got' = IF bypass THEN mem[rd] ELSE stageB.data
    BY <1>6 DEF Clock, ProgramEdge
  <2>5. beat => rd # None
    BY DEF Clock
  <2>6. got' \in {mem[wb.addr]} \cup (IF wb.addr \in CachedWord THEN stale[wb.addr] ELSE {})
    BY <1>6, <2>4, <2>5, LoadReturns DEF Visible
  <2>7. QED BY <1>6, <2>2, <2>3, <2>6 DEF Program!Load, IsA
<1>7. CASE IsA(wb, "store")
  <2>1. ready
    BY <1>1, <1>7 DEF Stuck
  <2>2. mem' = [mem EXCEPT ![wb.addr] = wb.data]
    BY <1>4, <1>7, <2>1 DEF Clock, MemoryEdge
  <2>3. got' = got
    BY <1>7 DEF Clock, ProgramEdge, IsA
  <2>4. stale' = [a \in CachedWord |-> IF a = wb.addr THEN {} ELSE stale[a]]
    BY <1>5, <1>7
  <2>5. QED BY <1>7, <2>2, <2>3, <2>4 DEF Program!Store, IsA
<1>8. QED BY <1>3, <1>6, <1>7

\* A flush that ends takes effect as the program expects.
LEMMA FlushTakesEffect ==
  ASSUME TypeOK, CacheInv,
         NEW ready \in BOOLEAN, NEW beat \in BOOLEAN, NEW i \in Instr \cup {None},
         Clock(ready, beat, i), IsA(ex, "flush"), ~ExStuck(ready, beat)
  PROVE  Program!Flush(ex)
<1>1. wb = None
  BY FlushLeavesNothing
<1>2. ~IsA(wb, "load") /\ ~IsA(wb, "store")
  BY <1>1 DEF IsA
<1>3. mem' = mem /\ got' = got
  BY <1>2 DEF Clock, MemoryEdge, ProgramEdge
<1>4. stale' = [a \in CachedWord |-> IF SetOfLine[a[1]] \in ex.sets THEN {} ELSE stale[a]]
  BY <1>2 DEF Clock, ProgramEdge
<1>5. QED BY <1>3, <1>4 DEF Program!Flush, IsA

\* What may be begun on an edge, as the program's sequence of it.
LEMMA HeldIsNew ==
  ASSUME NEW i \in Instr \cup {None}
  PROVE  Held(i) \in {<<>>} \cup {<<x>> : x \in Instr}
BY HeldFacts DEF Held

\* A clock edge begins, makes again or retires at most one instruction.
LEMMA ClockIsAStep ==
  ASSUME TypeOK, CacheInv,
         NEW ready \in BOOLEAN, NEW beat \in BOOLEAN, NEW i \in Instr \cup {None},
         Clock(ready, beat, i)
  PROVE  [Program!PNext]_(Program!pvars)
<1>1. /\ wb \in Instr \cup {None} /\ me \in Instr \cup {None}
      /\ ex \in Instr \cup {None} /\ again \in Instr \cup {None}
  BY DEF TypeOK
<1>2. again # None => wb = None /\ me = None /\ ex = None
  BY DEF CacheInv, StagesInStep
<1>3. CASE Remakes(i)
  <2>1. wb # None /\ wb \in Instr /\ ~Retires(ready, beat)
    BY <1>3, RedoIsOfLoad DEF Remakes, CacheInv, Retires
  <2>2. UNCHANGED <<mem, stale, got>>
    BY <2>1, NothingRetires, FlushLeavesNothing
  <2>3. InFlight' = Flight(None, None, None, wb)
    BY <1>3, InFlightIs DEF Remakes
  <2>4. Flight(None, None, None, wb) = <<wb>>
    BY <2>1, HeldFacts, EmptyStage DEF Flight
  <2>5. InFlight # <<>> /\ Head(InFlight) = wb
    BY <2>1, OldestIsInWriteBack
  <2>6. Program!PSquash
    BY <2>2, <2>3, <2>4, <2>5 DEF Program!PSquash
  <2>7. QED BY <2>6 DEF Program!PNext
<1>4. CASE Waits(ready, beat, i)
  <2>1. ~Retires(ready, beat) /\ ExStuck(ready, beat)
    BY <1>4 DEF Waits, Retires, ExStuck
  <2>2. UNCHANGED <<mem, stale, got>>
    BY <2>1, NothingRetires
  <2>3. InFlight' = InFlight
    BY <1>4, InFlightIs DEF Waits
  <2>4. QED BY <2>2, <2>3 DEF Program!pvars
<1>5. CASE Halts(ready, beat, i)
  <2>1. InFlight' = Flight(me, None, ex, again)
    BY <1>5, InFlightIs DEF Halts
  <2>2. InFlight' = Flight(None, me, ex, again)
    BY <1>1, <2>1, FlightSkips
  <2>3. CASE wb = None
    <3>1. UNCHANGED <<mem, stale, got>>
      BY <1>5, <2>3, NothingRetires DEF Halts, Retires
    <3>2. InFlight' = InFlight
      BY <2>2, <2>3, InFlightIs
    <3>3. QED BY <3>1, <3>2 DEF Program!pvars
  <2>4. CASE wb # None
    <3>1. Program!Load(wb) \/ Program!Store(wb)
      BY <1>5, <2>4, OldestTakesEffect DEF Halts, Retires
    <3>2. InFlight # <<>> /\ Head(InFlight) = wb /\ Tail(InFlight) = InFlight'
      BY <2>2, <2>4, OldestIsInWriteBack
    <3>3. InFlight' = Tail(InFlight) \o <<>>
      BY <1>1, <2>2, <3>2, FlightType, EmptyStage
    <3>4. Program!PRetire
      BY <3>1, <3>2, <3>3 DEF Program!PRetire
    <3>5. QED BY <3>4 DEF Program!PNext
  <2>5. QED BY <2>3, <2>4
<1>6. CASE Flows(ready, beat, i) /\ IsA(ex, "flush")
  <2>1. wb = None /\ me = None /\ ex # None /\ ex \in Instr /\ again = None
    BY <1>1, <1>2, <1>6, FlushLeavesNothing DEF Flows, IsA
  <2>2. InFlight = Flight(None, None, ex, None)
    BY <2>1, InFlightIs
  <2>3. InFlight = <<ex>>
    BY <2>1, <2>2, HeldFacts, EmptyStage DEF Flight
  <2>4. InFlight' = Flight(None, None, i, None)
    BY <1>6, <2>1, InFlightIs DEF Flows
  <2>5. InFlight' = Held(i)
    BY <2>4, HeldFacts, EmptyStage DEF Flight
  <2>6. InFlight # <<>> /\ Head(InFlight) = ex /\ Tail(InFlight) = <<>>
    BY <2>1, <2>3
  <2>7. InFlight' = Tail(InFlight) \o Held(i)
    BY <2>5, <2>6, HeldFacts, EmptyStage
  <2>8. Program!Flush(ex)
    BY <1>6, FlushTakesEffect DEF Flows
  <2>9. Program!PRetire
    BY <2>6, <2>7, <2>8, HeldIsNew DEF Program!PRetire
  <2>10. QED BY <2>9 DEF Program!PNext
<1>7. CASE Flows(ready, beat, i) /\ ~IsA(ex, "flush")
  <2>1. wb' = me /\ me' = ex /\ ex' = i /\ again' = IF i # None THEN None ELSE again
    BY <1>7 DEF Flows
  <2>2. CASE again # None
    <3>1. wb = None /\ me = None /\ ex = None /\ i \in {None, again}
      BY <1>2, <1>7, <2>2 DEF Flows
    <3>2. UNCHANGED <<mem, stale, got>>
      BY <1>7, <3>1, NothingRetires DEF Retires
    <3>3. InFlight = Flight(None, None, None, again)
      BY <3>1, InFlightIs
    <3>4. InFlight' = Flight(None, None, None, again) \/ InFlight' = Flight(None, None, again, None)
      BY <2>1, <3>1, InFlightIs
    <3>5. Flight(None, None, again, None) = Flight(None, None, None, again)
      BY <1>1, FlightSkipsLast
    <3>6. QED BY <3>2, <3>3, <3>4, <3>5 DEF Program!pvars
  <2>3. CASE again = None
    <3>1. InFlight' = Flight(me, ex, i, None) /\ InFlight = Flight(wb, me, ex, None)
      BY <2>1, <2>3, InFlightIs
    <3>2. InFlight' = Flight(None, me, ex, None) \o Held(i)
      BY <1>1, <3>1, FlightGrows
    <3>3. CASE wb # None
      <4>1. Program!Load(wb) \/ Program!Store(wb)
        BY <1>7, <3>3, OldestTakesEffect DEF Flows, Retires
      <4>2. InFlight # <<>> /\ Head(InFlight) = wb /\ InFlight' = Tail(InFlight) \o Held(i)
        BY <2>3, <3>2, <3>3, OldestIsInWriteBack
      <4>3. Program!PRetire
        BY <4>1, <4>2, HeldIsNew DEF Program!PRetire
      <4>4. QED BY <4>3 DEF Program!PNext
    <3>4. CASE wb = None
      <4>1. UNCHANGED <<mem, stale, got>>
        BY <1>7, <3>4, NothingRetires DEF Retires
      <4>2. InFlight' = InFlight \o Held(i) /\ InFlight \in Seq(Instr)
        BY <1>1, <3>1, <3>2, <3>4, FlightType
      <4>3. CASE i = None
        <5>1. InFlight' = InFlight
          BY <4>2, <4>3, HeldFacts, EmptyStage
        <5>2. QED BY <4>1, <5>1 DEF Program!pvars
      <4>4. CASE i # None
        <5>1. i \in Instr /\ InFlight' = InFlight \o <<i>>
          BY <4>2, <4>4, HeldFacts
        <5>2. InFlight' = Append(InFlight, i)
          BY <4>2, <5>1, AppendIsConcat
        <5>3. Program!PBegin
          BY <4>1, <5>1, <5>2 DEF Program!PBegin
        <5>4. QED BY <5>3 DEF Program!PNext
      <4>5. QED BY <4>3, <4>4
    <3>5. QED BY <3>3, <3>4
  <2>4. QED BY <2>2, <2>3
<1>8. QED BY <1>3, <1>4, <1>5, <1>6, <1>7, StagesMove

\* The initial states are those of the program's view.
LEMMA ProgramInit == Init => Program!PInit
<1> SUFFICES ASSUME Init PROVE Program!PInit
  OBVIOUS
<1>1. InFlight = <<>>
  <2>1. <<>> \in Seq(Instr)
    OBVIOUS
  <2>2. InFlight = Flight(None, None, None, None)
    BY InFlightIs DEF Init
  <2>3. QED BY <2>1, <2>2, HeldFacts, EmptyStage DEF Flight
<1>2. mem \in [CachedWord \cup IoWord -> Val] /\ got \in Val
  BY CacheAssumption DEF Init, Addr
<1>3. QED BY <1>1, <1>2 DEF Init, Program!PInit

\* Every step is a step of the program's view or changes nothing of it.
LEMMA ProgramStep == ASSUME TypeOK, CacheInv, [Next]_vars PROVE [Program!PNext]_(Program!pvars)
<1>1. CASE \E ready, beat \in BOOLEAN, i \in Instr \cup {None} : Clock(ready, beat, i)
  BY <1>1, ClockIsAStep
<1>2. CASE \E a \in HostWord, v \in Val : Host(a, v)
  <2>1. PICK a \in HostWord, v \in Val : Host(a, v)
    BY <1>2
  <2>2. InFlight' = InFlight
    BY <2>1, InFlightIs DEF Host, stages
  <2>3. Program!PHost
    BY <2>1, <2>2, CacheAssumption DEF Host, Program!PHost
  <2>4. QED BY <2>3 DEF Program!PNext
<1>3. CASE Reset
  <2>1. InFlight' = <<>>
    <3>1. <<>> \in Seq(Instr)
      OBVIOUS
    <3>2. InFlight' = Flight(None, None, None, None)
      BY <1>3, InFlightIs DEF Reset
    <3>3. QED BY <3>1, <3>2, HeldFacts, EmptyStage DEF Flight
  <2>2. left' \cup {0} \in SUBSET Sets /\ 0 \in left' \cup {0}
    BY <1>3, CacheAssumption DEF Reset, Scope, Sets
  <2>3. stale' = [a \in CachedWord |-> IF [b \in CachedWord |-> SetOfLine[b[1]]][a] \in left' \cup {0}
                                       THEN {} ELSE Val]
    BY <1>3 DEF Reset
  <2>4. UNCHANGED <<mem, got>>
    BY <1>3 DEF Reset
  <2>5. Program!PReset
    BY <2>1, <2>2, <2>3, <2>4 DEF Program!PReset
  <2>6. QED BY <2>5 DEF Program!PNext
<1>4. CASE UNCHANGED vars
  <2>1. InFlight' = InFlight
    BY <1>4, InFlightIs DEF vars, stages
  <2>2. QED BY <1>4, <2>1 DEF vars, Program!pvars
<1>5. QED BY <1>1, <1>2, <1>3, <1>4 DEF Next

\* The cache implements an in-order memory: whatever is read too early,
\* refilled, flushed or made again, loads and stores take effect one by one in
\* program order, and a load returns the word in memory or one that main() has
\* overwritten since the last flush.
THEOREM CacheIsInOrder == Spec => InProgramOrder
BY ProgramInit, ProgramStep, CacheInvariance, PTL DEF Spec, InProgramOrder, Program!PSpec
=============================================================================
