--------------------------- MODULE RiscvRun_proofs ---------------------------
(***************************************************************************)
(* Proofs about RiscvRun for every value of its constants.  TypeCorrect    *)
(* needs nothing more; the other theorems assume HoldDrains, that the      *)
(* sleep under an asserted reset outlasts the accepted transfers.          *)
(***************************************************************************)
EXTENDS RiscvRun, TLAPS

\* The three words of the data area are words of the line.
LEMMA WordFacts ==
  /\ 0 \in Words /\ 1 \in Words /\ 2 \in Words
  /\ LineWords - 1 \in Words
  /\ \A w \in Words : NextWord(w) \in Words
BY RunAssumption DEF Words, NextWord

\* Writing one word of a line or of memory keeps its type.
LEMMA UpdateType ==
  ASSUME NEW f \in [Words -> Data], NEW w \in Words, NEW d \in Data
  PROVE  [f EXCEPT ![w] = d] \in [Words -> Data]
OBVIOUS

\* The posted writes stay a sequence of writes when one is added or lands.
LEMMA PostedType ==
  ASSUME NEW p \in Seq(WriteRec)
  PROVE  /\ \A w \in Words, d \in Data : Append(p, [word |-> w, data |-> d]) \in Seq(WriteRec)
         /\ p # <<>> => /\ Tail(p) \in Seq(WriteRec)
                        /\ Head(p).word \in Words /\ Head(p).data \in Data
<1>1. ASSUME NEW w \in Words, NEW d \in Data
      PROVE  Append(p, [word |-> w, data |-> d]) \in Seq(WriteRec)
  BY DEF WriteRec
<1>2. ASSUME p # <<>>
      PROVE  /\ Tail(p) \in Seq(WriteRec)
             /\ Head(p).word \in Words /\ Head(p).data \in Data
  <2>1. Head(p) \in WriteRec /\ Tail(p) \in Seq(WriteRec)
    BY <1>2
  <2>2. QED BY <2>1 DEF WriteRec
<1>3. QED BY <1>1, <1>2

-----------------------------------------------------------------------------
(* Type correctness *)

\* The initial state has its types.
LEMMA TypeInit == Init => TypeOK
<1> SUFFICES ASSUME Init PROVE TypeOK
  OBVIOUS
<1>1. mem \in [Words -> Data]
  BY RunAssumption DEF Init
<1>2. QED
  BY <1>1, RunAssumption, WordFacts DEF Init, TypeOK, BootPCs, CorePCs, WriteRec

\* A step of main() keeps the types.
LEMMA TypeMain == TypeOK /\ main => TypeOK'
<1> SUFFICES ASSUME TypeOK, main PROVE TypeOK'
  OBVIOUS
<1> USE DEF TypeOK
<1>1. ASSUME NEW at, NEW w \in Words, NEW v \in Data, NEW next \in BootPCs \cup LoopPCs,
             HostStore(at, w, v, next)
      PROVE  TypeOK'
  <2>1. mem' \in [Words -> Data]
    BY <1>1 DEF HostStore
  <2>2. QED
    BY <1>1, <2>1 DEF HostStore, coreVars, cacheVars, readVars, writeVars
<1>2. ASSUME NEW v \in {0, 1}, NEW at, NEW next \in BootPCs \cup LoopPCs,
             XRiscv_Set_reset_riscv(v, at, next)
      PROVE  TypeOK'
  <2>1. core' \in CorePCs /\ loading' \in BOOLEAN
    BY <1>2 DEF XRiscv_Set_reset_riscv, ResetCore, CorePCs
  <2>2. cnt' \in Words /\ pend' \in 0 .. MaxPending
    BY <1>2, WordFacts, RunAssumption DEF XRiscv_Set_reset_riscv, ResetCore
  <2>3. QED
    BY <1>2, <2>1, <2>2 DEF XRiscv_Set_reset_riscv, readVars
<1>3. CASE BootStores \/ LoopStores
  BY <1>1, <1>3, WordFacts, RunAssumption DEF BootStores, LoopStores, BootPCs, LoopPCs
<1>4. CASE BootPulse \/ LoopPulse
  BY <1>2, <1>4 DEF BootPulse, LoopPulse, BootPCs, LoopPCs
<1>5. CASE Draw
  BY <1>5 DEF Draw, LoopPCs, coreVars, cacheVars, readVars, writeVars
<1>6. CASE ReadResult
  BY <1>6 DEF ReadResult, LoopPCs, coreVars, cacheVars, readVars, writeVars
<1>7. QED BY <1>3, <1>4, <1>5, <1>6 DEF main

\* A store, of the program or of a wild core, keeps the types it changes.
LEMMA TypeStore ==
  ASSUME TypeOK, NEW w \in Words, NEW d \in Data, StoreWord(w, d), core' \in CorePCs
  PROVE  TypeOK'
<1>1. posted' \in Seq(WriteRec)
  BY PostedType DEF StoreWord, TypeOK
<1>2. line' \in [Words -> Data]
  BY UpdateType DEF StoreWord, TypeOK
<1>3. pend' \in 0 .. MaxPending
  BY RunAssumption DEF StoreWord, TypeOK
<1>4. QED
  BY <1>1, <1>2, <1>3 DEF StoreWord, TypeOK, hostVars, readVars

\* A refill request changes only the loader and what the memory owes.
LEMMA TypeRefill == ASSUME TypeOK, StartRefill PROVE TypeOK'
BY RunAssumption DEF TypeOK, StartRefill, hostVars, coreVars, writeVars

\* A step of the core keeps the types.
LEMMA TypeCore == TypeOK /\ (Core \/ Wild) => TypeOK'
<1> SUFFICES ASSUME TypeOK, Core \/ Wild PROVE TypeOK'
  OBVIOUS
<1>1. CASE Flush
  BY <1>1 DEF Flush, TypeOK, hostVars, readVars, writeVars, CorePCs
<1>2. CASE StartRefill
  BY <1>2, TypeRefill
<1>3. CASE LoadHit
  BY <1>3, WordFacts DEF LoadHit, TypeOK, hostVars, cacheVars, readVars, writeVars, CorePCs
<1>4. CASE StoreSum
  <2>1. Add(fa2, fa3) \in Data
    BY RunAssumption DEF TypeOK
  <2>2. QED BY <1>4, <2>1, WordFacts, TypeStore DEF StoreSum, CorePCs
<1>5. ASSUME NEW w \in Words, NEW d \in WildData, core' = core, StoreWord(w, d)
      PROVE  TypeOK'
  <2>1. d \in Data /\ core' \in CorePCs
    BY <1>5, RunAssumption DEF TypeOK
  <2>2. QED BY <1>5, <2>1, TypeStore
<1>6. QED BY <1>1, <1>2, <1>3, <1>4, <1>5 DEF Core, Wild

\* A step of the memory system keeps the types.
LEMMA TypeMemory == TypeOK /\ Memory => TypeOK'
<1> SUFFICES ASSUME TypeOK, Memory PROVE TypeOK'
  OBVIOUS
<1>1. CASE ReadBeat
  <2>1. mem[beat] \in Data
    BY DEF TypeOK
  <2>2. line' \in [Words -> Data]
    BY <1>1, <2>1, UpdateType DEF ReadBeat, TypeOK, cacheVars
  <2>3. cnt' \in Words /\ beat' \in Words
    BY <1>1, WordFacts DEF ReadBeat, TypeOK, cacheVars
  <2>4. loading' \in BOOLEAN /\ valid' \in BOOLEAN
    BY <1>1, ZenonT(20) DEF ReadBeat, TypeOK, cacheVars
  <2>5. owed' \in Nat
    BY <1>1 DEF ReadBeat, TypeOK
  <2>6. QED
    BY <1>1, <2>2, <2>3, <2>4, <2>5 DEF ReadBeat, TypeOK, hostVars, coreVars, writeVars
<1>2. CASE WriteLands
  <2>1. posted' \in Seq(WriteRec) /\ mem' \in [Words -> Data]
    BY <1>2, PostedType, UpdateType DEF WriteLands, TypeOK
  <2>2. pend' \in 0 .. MaxPending
    BY <1>2, RunAssumption DEF WriteLands, Retire, TypeOK
  <2>3. QED
    BY <1>2, <2>1, <2>2 DEF WriteLands, TypeOK, hostVars, coreVars, cacheVars, readVars
<1>3. QED BY <1>1, <1>2 DEF Memory

\* A stuttering step keeps the types.
LEMMA TypeStutter == TypeOK /\ UNCHANGED vars => TypeOK'
BY DEF TypeOK, vars, hostVars, coreVars, cacheVars, readVars, writeVars

\* Every step keeps the types.
LEMMA TypeStep == TypeOK /\ [Next]_vars => TypeOK'
BY TypeMain, TypeCore, TypeMemory, TypeStutter DEF Next, Terminated

\* Every variable keeps its type, whatever the sleeps are worth.
THEOREM TypeCorrect == Spec => []TypeOK
BY TypeInit, TypeStep, PTL DEF Spec

-----------------------------------------------------------------------------
(* The inductive invariant *)

\* The parts of IInv other than the types and the result's word of the line.
Parts == HeldInReset /\ PendingExact /\ OneBurst /\ HostPhase /\ RunProgress

\* The invariant holds at power-up, before main() has touched the reset line.
LEMMA InvInit == Init => IInv
<1> SUFFICES ASSUME Init PROVE IInv
  OBVIOUS
<1>1. HeldInReset /\ PendingExact /\ OneBurst
  BY DEF Init, HeldInReset, PendingExact, OneBurst
<1>2. HostPhase /\ RunProgress /\ ResultInLine
  BY DEF Init, HostPhase, RunProgress, ResultInLine, LoopPCs
<1>3. QED BY <1>1, <1>2, TypeInit DEF IInv

\* main() stores an operand.
LEMMA InvStores ==
  ASSUME IInv, BootStores \/ LoopStores
  PROVE  Parts'
<1> USE DEF IInv
<1>1. UNCHANGED <<i, a, b, all_ok, reset_riscv, coreVars, cacheVars, readVars, writeVars>>
  BY DEF BootStores, LoopStores, HostStore
<1>2. HeldInReset' /\ PendingExact' /\ OneBurst'
  BY <1>1 DEF HeldInReset, PendingExact, OneBurst, coreVars, cacheVars, readVars, writeVars
<1>3. HostPhase'
  BY <1>1, WordFacts DEF BootStores, LoopStores, HostStore, HostPhase, LoopPCs, TypeOK,
     coreVars, writeVars
<1>4. RunProgress'
  BY <1>1 DEF BootStores, LoopStores, HostStore, RunProgress, coreVars, cacheVars, writeVars
<1>5. QED BY <1>2, <1>3, <1>4 DEF Parts

\* main() asserts the reset: a refill dies, what the memory system owes stays.
LEMMA InvAssert ==
  ASSUME IInv,
         \/ XRiscv_Set_reset_riscv(1, "bootReset", "bootRelease")
         \/ XRiscv_Set_reset_riscv(1, "loopReset", "loopRelease")
  PROVE  Parts'
<1> USE DEF IInv, XRiscv_Set_reset_riscv, ResetCore
<1>1. HeldInReset' /\ PendingExact'
  BY DEF HeldInReset, PendingExact
<1>2. OneBurst'
  <2>1. ~loading' /\ cnt' = 0 /\ reset_riscv' = 1 /\ beat' = beat /\ owed' = owed
    BY DEF readVars
  <2>2. (beat # 0 => owed = LineWords - beat) /\ (beat = 0 => owed \in {0, LineWords})
    BY DEF OneBurst
  <2>3. QED BY ONLY <2>1, <2>2 DEF OneBurst
<1>3. HostPhase'
  BY DEF HostPhase, LoopPCs
<1>4. RunProgress'
  BY DEF RunProgress
<1>5. QED BY <1>1, <1>2, <1>3, <1>4 DEF Parts

\* main() releases the reset, once the sleep has drained the transfers.
LEMMA InvRelease ==
  ASSUME IInv, Quiescent,
         \/ XRiscv_Set_reset_riscv(0, "bootRelease", "draw")
         \/ XRiscv_Set_reset_riscv(0, "loopRelease", "read")
  PROVE  Parts'
<1> USE DEF IInv, XRiscv_Set_reset_riscv, Quiescent
<1>1. reset_riscv = 1
  BY DEF HostPhase
<1>2. core = "flush" /\ ~loading /\ cnt = 0 /\ pend = 0
  BY <1>1 DEF HeldInReset
<1>3. HeldInReset' /\ PendingExact'
  BY <1>2 DEF HeldInReset, PendingExact
<1>4. OneBurst'
  BY <1>2 DEF OneBurst, readVars
<1>5. HostPhase'
  BY <1>2 DEF HostPhase, LoopPCs
<1>6. RunProgress'
  BY <1>2 DEF RunProgress
<1>7. QED BY <1>3, <1>4, <1>5, <1>6 DEF Parts

\* main() draws operands or compares: nothing of the hardware moves.
LEMMA InvDrawRead ==
  ASSUME IInv, Draw \/ ReadResult
  PROVE  Parts'
<1> USE DEF IInv
<1>1. UNCHANGED <<reset_riscv, mem, coreVars, cacheVars, readVars, writeVars>>
  BY DEF Draw, ReadResult
<1>2. hpc \in {"draw", "read"} /\ hpc' \in {"loop0", "done", "draw"}
  BY DEF Draw, ReadResult
<1>3. HeldInReset' /\ PendingExact' /\ OneBurst'
  BY <1>1 DEF HeldInReset, PendingExact, OneBurst, coreVars, cacheVars, readVars, writeVars
<1>4. HostPhase'
  BY <1>1, <1>2 DEF HostPhase, LoopPCs, coreVars, writeVars
<1>5. RunProgress'
  BY <1>1, <1>2 DEF RunProgress, coreVars, cacheVars, writeVars
<1>6. QED BY <1>3, <1>4, <1>5 DEF Parts

\* A step of main() keeps the invariant.
LEMMA InvMain == ASSUME HoldDrains, IInv, main PROVE Parts'
BY InvStores, InvAssert, InvRelease, InvDrawRead DEF main, BootPulse, LoopPulse

\* The flush after a reset makes the next load miss.
LEMMA InvFlush ==
  ASSUME IInv, Flush
  PROVE  Parts'
<1> USE DEF IInv, Flush
<1>1. HeldInReset' /\ PendingExact'
  BY DEF HeldInReset, PendingExact, writeVars
<1>2. OneBurst'
  BY DEF OneBurst, readVars
<1>3. HostPhase'
  BY DEF HostPhase, hostVars, writeVars
<1>4. RunProgress'
  BY DEF RunProgress, hostVars, writeVars
<1>5. QED BY <1>1, <1>2, <1>3, <1>4 DEF Parts

\* A refill starts with nothing owed, so every beat to come is its own.
LEMMA InvRefill ==
  ASSUME IInv, StartRefill, core \in {"wild", "flw0", "flw1"}
  PROVE  Parts'
<1> USE DEF IInv, StartRefill
<1>1. reset_riscv = 0
  BY DEF HeldInReset, TypeOK
<1>2. owed = 0 /\ cnt = 0 /\ beat = 0
  BY <1>1, RunAssumption DEF OneBurst, TypeOK, Words
<1>3. HeldInReset' /\ PendingExact'
  BY <1>1 DEF HeldInReset, PendingExact, coreVars, writeVars
<1>4. OneBurst'
  BY <1>2, RunAssumption DEF OneBurst
<1>5. HostPhase'
  BY DEF HostPhase, hostVars, coreVars, writeVars
<1>6. RunProgress'
  BY <1>2 DEF RunProgress, hostVars, coreVars, writeVars
<1>7. QED BY <1>3, <1>4, <1>5, <1>6 DEF Parts

\* A load that hits reads what main() stored.
LEMMA InvLoad ==
  ASSUME IInv, LoadHit
  PROVE  Parts'
<1> USE DEF IInv, LoadHit
<1>1. HeldInReset' /\ PendingExact' /\ OneBurst'
  BY DEF HeldInReset, PendingExact, OneBurst, cacheVars, readVars, writeVars
<1>2. HostPhase'
  BY DEF HostPhase, hostVars, writeVars
<1>3. RunProgress'
  BY DEF RunProgress, OneBurst, hostVars, cacheVars, writeVars
<1>4. QED BY <1>1, <1>2, <1>3 DEF Parts

\* The program's store is the only write of its run.
LEMMA InvStoreSum ==
  ASSUME IInv, StoreSum
  PROVE  Parts'
<1> USE DEF IInv, StoreSum, StoreWord
<1>1. reset_riscv = 0 /\ posted = <<>> /\ ~loading
  BY DEF HeldInReset, RunProgress, TypeOK
<1>2. posted' = <<[word |-> 2, data |-> Add(fa2, fa3)]>>
  BY <1>1
<1>3. HeldInReset' /\ PendingExact'
  BY <1>1, <1>2 DEF HeldInReset, PendingExact
<1>4. OneBurst'
  BY DEF OneBurst, readVars
<1>5. HostPhase'
  BY <1>2 DEF HostPhase, hostVars
<1>6. RunProgress'
  BY <1>1, <1>2, WordFacts DEF RunProgress, TypeOK, hostVars
<1>7. QED BY <1>3, <1>4, <1>5, <1>6 DEF Parts

\* A store of a core that main() has not reset yet.
LEMMA InvWildStore ==
  ASSUME IInv, core = "wild", ~loading, core' = core,
         NEW w \in Words, NEW d \in WildData, StoreWord(w, d)
  PROVE  Parts'
<1> USE DEF IInv, StoreWord
<1>1. reset_riscv = 0 /\ hpc \notin LoopPCs
  BY DEF HeldInReset, HostPhase, TypeOK
<1>2. Len(posted') = Len(posted) + 1
  <2>1. [word |-> w, data |-> d] \in WriteRec
    BY RunAssumption DEF WriteRec
  <2>2. QED BY <2>1 DEF TypeOK
<1>3. HeldInReset' /\ PendingExact'
  BY <1>1, <1>2 DEF HeldInReset, PendingExact
<1>4. OneBurst'
  BY DEF OneBurst, readVars
<1>5. HostPhase'
  BY <1>1 DEF HostPhase, hostVars, LoopPCs
<1>6. RunProgress'
  BY <1>1 DEF RunProgress, hostVars, LoopPCs
<1>7. QED BY <1>3, <1>4, <1>5, <1>6 DEF Parts

\* A step of the core, reset or not yet reset, keeps the invariant.
LEMMA InvCore == ASSUME IInv, Core \/ Wild PROVE Parts'
BY InvFlush, InvRefill, InvLoad, InvStoreSum, InvWildStore DEF Core, Wild

\* A beat goes to the refill it belongs to, or to nobody.
LEMMA InvBeat ==
  ASSUME IInv, ReadBeat
  PROVE  Parts'
<1> USE DEF IInv, ReadBeat
<1>1. UNCHANGED <<hostVars, reset_riscv, mem, coreVars, writeVars>>
  OBVIOUS
<1>2. HeldInReset' /\ PendingExact'
  BY <1>1 DEF HeldInReset, PendingExact, coreVars, cacheVars, writeVars
<1>3. OneBurst'
  <2>1. CASE loading
    <3>1. /\ beat = cnt /\ cnt \in Words /\ owed = LineWords - cnt /\ ~valid
          /\ owed' = owed - 1
          /\ beat' = NextWord(cnt) /\ cnt' = NextWord(cnt)
      BY <2>1 DEF OneBurst, TypeOK
    <3>2. CASE cnt = LineWords - 1
      <4>1. ~loading' /\ cnt' = 0 /\ beat' = 0
        BY <2>1, <3>1, <3>2 DEF NextWord
      <4>2. owed' = 0
        BY <3>1, <3>2, RunAssumption
      <4>3. QED BY <4>1, <4>2 DEF OneBurst
    <3>3. CASE cnt # LineWords - 1
      <4>1. ~valid' /\ loading'
        BY <2>1, <3>1, <3>3
      <4>2. cnt' = cnt + 1 /\ beat' = cnt + 1 /\ owed' = LineWords - (cnt + 1) /\ cnt \in Nat
        BY <3>1, <3>3, RunAssumption DEF NextWord, Words
      <4>3. QED BY <4>1, <4>2, RunAssumption DEF OneBurst
    <3>4. QED BY <3>2, <3>3
  <2>2. CASE ~loading
    BY <2>2, <1>1, RunAssumption DEF OneBurst, NextWord, TypeOK, Words, cacheVars
  <2>3. QED BY <2>1, <2>2
<1>4. HostPhase'
  BY <1>1 DEF HostPhase, hostVars, coreVars, writeVars
<1>5. RunProgress'
  <2>1. CASE loading
    <3>1. /\ beat = cnt /\ cnt \in Words /\ line \in [Words -> Data] /\ ~valid
          /\ line' = [line EXCEPT ![cnt] = mem[cnt]]
          /\ cnt' = NextWord(cnt)
          /\ loading' <=> cnt # LineWords - 1
          /\ valid' <=> cnt = LineWords - 1
      BY <2>1 DEF OneBurst, TypeOK
    <3>2. /\ hpc' = hpc /\ a' = a /\ b' = b /\ core' = core /\ fa2' = fa2 /\ fa3' = fa3
          /\ mem' = mem /\ posted' = posted /\ reset_riscv' = reset_riscv
      BY <1>1 DEF hostVars, coreVars, writeVars
    <3>3. core # "wild" => core \in {"flw0", "flw1"}
      BY <2>1 DEF RunProgress
    <3>4. hpc = "read" => core # "wild" /\ mem[0] = a /\ mem[1] = b
      BY DEF HostPhase, LoopPCs
    <3>5. hpc = "read" => \A w \in 0 .. 1 : w < cnt \/ w = cnt => line'[w] = mem[w]
      BY <2>1, <3>1, WordFacts DEF RunProgress
    <3>6. ASSUME hpc = "read", valid'
          PROVE  line'[0] = a /\ line'[1] = b
      <4>1. 0 < cnt /\ 1 < cnt
        BY <3>1, <3>6, RunAssumption
      <4>2. QED BY <3>4, <3>5, <3>6, <4>1
    <3>7. ASSUME hpc = "read", loading'
          PROVE  \A w \in 0 .. 1 : w < cnt' => line'[w] = mem[w]
      <4>1. cnt' = cnt + 1 /\ cnt \in Nat
        BY <3>1, <3>7, RunAssumption DEF NextWord, Words
      <4>2. QED BY <3>5, <3>7, <4>1
    <3>8. /\ core \in {"flush", "flw0", "flw1", "fsw"} /\ reset_riscv = 0 => posted = <<>>
          /\ core # "flush" \/ reset_riscv # 0
          /\ hpc = "read" => (core \in {"flw1"} => fa2 = a)
      BY <2>1 DEF RunProgress
    <3>9. QED
      BY <3>2, <3>3, <3>4, <3>6, <3>7, <3>8 DEF RunProgress
  <2>2. CASE ~loading
    BY <1>1, <2>2 DEF RunProgress, hostVars, coreVars, cacheVars, writeVars
  <2>3. QED BY <2>1, <2>2
<1>6. QED BY <1>2, <1>3, <1>4, <1>5 DEF Parts

\* A write lands: while main() waits it is this run's sum.
LEMMA InvLands ==
  ASSUME IInv, WriteLands
  PROVE  Parts'
<1> USE DEF IInv
<1>1. posted \in Seq(WriteRec) /\ posted # <<>>
  BY DEF TypeOK, WriteLands
<1>2. /\ Len(posted) \in Nat \ {0}
      /\ Head(posted) = posted[1]
      /\ posted' = Tail(posted)
      /\ Len(posted') = Len(posted) - 1
      /\ \A k \in 1 .. Len(posted') : posted'[k] = posted[k + 1]
  BY <1>1 DEF WriteLands
<1>3. /\ mem' = [mem EXCEPT ![posted[1].word] = posted[1].data]
      /\ UNCHANGED <<hpc, i, a, b, all_ok, reset_riscv, core, fa2, fa3,
                     line, valid, loading, cnt, owed, beat>>
  BY <1>2 DEF WriteLands, hostVars, coreVars, cacheVars, readVars
<1>4. HeldInReset'
  BY <1>3 DEF HeldInReset, WriteLands
<1>5. PendingExact'
  BY <1>1, <1>2, <1>3 DEF PendingExact, Retire, WriteLands
<1>6. OneBurst'
  BY <1>3 DEF OneBurst
<1>7. mem \in [Words -> Data]
  BY DEF TypeOK
<1>8. hpc \in LoopPCs => mem'[0] = mem[0] /\ mem'[1] = mem[1]
  <2>1. hpc \in LoopPCs => posted[1].word = 2
    BY <1>2 DEF HostPhase
  <2>2. QED BY <2>1, <1>3, <1>7, WordFacts
<1>9. HostPhase'
  <2>1. hpc \in LoopPCs => \A k \in 1 .. Len(posted') : posted'[k].word = 2
    BY <1>2 DEF HostPhase
  <2>2. QED BY <2>1, <1>3, <1>8 DEF HostPhase, LoopPCs
<1>10. RunProgress'
  <2>1. ~(core \in {"flush", "flw0", "flw1", "fsw"} /\ reset_riscv = 0)
    BY <1>1 DEF RunProgress
  <2>2. CASE hpc = "read" /\ core = "spin"
    <3>1. posted = <<[word |-> 2, data |-> Add(a, b)]>>
      BY <2>2, <1>1 DEF RunProgress
    <3>2. posted' = <<>> /\ posted[1] = [word |-> 2, data |-> Add(a, b)]
      BY <3>1, <1>2
    <3>3. mem'[2] = Add(a, b)
      BY <3>2, <1>3, <1>7, WordFacts
    <3>4. ~loading
      BY <2>2 DEF RunProgress
    <3>5. QED BY <2>2, <3>2, <3>3, <3>4, <1>3 DEF RunProgress
  <2>3. CASE hpc = "read" /\ core # "spin"
    <3>1. reset_riscv = 0 /\ core # "wild" /\ core \in CorePCs
      BY <2>3 DEF HostPhase, LoopPCs, TypeOK
    <3>2. QED BY <2>1, <2>3, <3>1 DEF CorePCs
  <2>4. CASE hpc # "read"
    BY <2>1, <2>4, <1>3 DEF RunProgress
  <2>5. QED BY <2>2, <2>3, <2>4
<1>11. QED BY <1>4, <1>5, <1>6, <1>9, <1>10 DEF Parts

\* A stuttering step keeps the invariant.
LEMMA InvStutter == ASSUME IInv, UNCHANGED vars PROVE Parts'
BY DEF IInv, Parts, HeldInReset, PendingExact, OneBurst, HostPhase, RunProgress,
   vars, hostVars, coreVars, cacheVars, readVars, writeVars

\* Every step keeps the result's word of the line what memory holds or will hold.
LEMMA ResultInLineStep == ASSUME IInv, [Next]_vars PROVE ResultInLine'
<1> USE DEF IInv
<1>1. CASE main
  <2>1. hpc' = "read" => ~loading' /\ core' = "flush"
    BY <1>1 DEF main, BootStores, LoopStores, HostStore, BootPulse, LoopPulse, Draw, ReadResult,
       XRiscv_Set_reset_riscv, HostPhase, HeldInReset
  <2>2. QED BY <2>1 DEF ResultInLine
<1>2. CASE Flush
  BY <1>2 DEF Flush, HeldInReset, RunProgress, ResultInLine, hostVars, readVars, writeVars
<1>3. CASE StartRefill
  <2>1. ~valid' /\ cnt' = 0
    BY <1>3 DEF StartRefill, OneBurst
  <2>2. QED BY <2>1 DEF ResultInLine
<1>4. CASE LoadHit
  BY <1>4 DEF LoadHit, ResultInLine, OneBurst, hostVars, cacheVars, writeVars
<1>5. CASE StoreSum
  <2>1. posted = <<>> /\ ~loading' /\ line \in [Words -> Data]
    BY <1>5 DEF StoreSum, StoreWord, HeldInReset, RunProgress, TypeOK
  <2>2. posted' # <<>> /\ posted'[1].data = Add(fa2, fa3)
    BY <1>5, <2>1 DEF StoreSum, StoreWord
  <2>3. valid' => line'[2] = Add(fa2, fa3)
    BY <1>5, <2>1, WordFacts DEF StoreSum, StoreWord
  <2>4. QED BY <2>1, <2>2, <2>3 DEF ResultInLine
<1>6. CASE Wild
  <2>1. hpc' # "read"
    BY <1>6 DEF Wild, StartRefill, StoreWord, HostPhase, LoopPCs, hostVars
  <2>2. QED BY <2>1 DEF ResultInLine
<1>7. CASE ReadBeat
  <2>1. CASE loading
    <3>1. /\ cnt \in Words /\ line \in [Words -> Data] /\ ~valid
          /\ line' = [line EXCEPT ![cnt] = mem[cnt]]
          /\ cnt' = NextWord(cnt)
          /\ valid' => cnt = LineWords - 1
          /\ hpc' = hpc /\ core' = core /\ mem' = mem /\ posted' = posted
      BY <1>7, <2>1 DEF ReadBeat, OneBurst, TypeOK, hostVars, coreVars, writeVars
    <3>2. hpc = "read" => (2 < cnt \/ 2 = cnt => line'[2] = mem[2])
      BY <2>1, <3>1, WordFacts DEF ResultInLine
    <3>3. 2 < cnt' \/ cnt = LineWords - 1 => 2 < cnt \/ 2 = cnt
      BY <3>1, RunAssumption DEF NextWord, Words
    <3>4. ASSUME hpc = "read" PROVE posted = <<>>
      <4>1. reset_riscv = 0 /\ core # "wild"
        BY <3>4 DEF HostPhase, LoopPCs
      <4>2. QED BY <2>1, <4>1 DEF RunProgress
    <3>5. QED BY <3>1, <3>2, <3>3, <3>4 DEF ResultInLine
  <2>2. CASE ~loading
    BY <1>7, <2>2 DEF ReadBeat, ResultInLine, hostVars, coreVars, cacheVars, writeVars
  <2>3. QED BY <2>1, <2>2
<1>8. CASE WriteLands
  <2>1. CASE hpc = "read" /\ core = "spin"
    <3>1. posted = <<[word |-> 2, data |-> Add(a, b)]>> /\ mem \in [Words -> Data]
      BY <1>8, <2>1 DEF WriteLands, RunProgress, TypeOK
    <3>2. posted' = <<>> /\ mem' = [mem EXCEPT ![2] = posted[1].data]
      <4>1. /\ Tail(posted) = <<>> /\ Head(posted) = posted[1]
            /\ posted[1].word = 2
        BY <3>1
      <4>2. QED BY <1>8, <4>1 DEF WriteLands
    <3>3. mem'[2] = posted[1].data
      BY <3>1, <3>2, WordFacts
    <3>4. ~loading /\ UNCHANGED <<hpc, core, line, valid, loading>>
      BY <1>8, <2>1 DEF WriteLands, RunProgress, hostVars, coreVars, cacheVars
    <3>5. QED BY <2>1, <1>8, <3>2, <3>3, <3>4 DEF ResultInLine, WriteLands
  <2>2. CASE hpc = "read" /\ core # "spin"
    <3>1. reset_riscv = 0 /\ core \in {"flush", "flw0", "flw1", "fsw"}
      BY <2>2 DEF HostPhase, LoopPCs, TypeOK, CorePCs
    <3>2. QED BY <1>8, <3>1 DEF WriteLands, RunProgress
  <2>3. CASE hpc # "read"
    BY <1>8, <2>3 DEF WriteLands, ResultInLine, hostVars
  <2>4. QED BY <2>1, <2>2, <2>3
<1>9. CASE UNCHANGED vars
  BY <1>9 DEF ResultInLine, vars, hostVars, coreVars, cacheVars, readVars, writeVars
<1>10. QED
  BY <1>1, <1>2, <1>3, <1>4, <1>5, <1>6, <1>7, <1>8, <1>9 DEF Next, Core, Memory, Terminated

\* Every step keeps the invariant.
LEMMA InvStep == ASSUME HoldDrains PROVE IInv /\ [Next]_vars => IInv'
<1> SUFFICES ASSUME IInv, [Next]_vars PROVE IInv'
  OBVIOUS
<1>1. TypeOK'
  BY TypeStep DEF IInv
<1>2. Parts'
  BY InvMain, InvCore, InvBeat, InvLands, InvStutter DEF Next, Memory, Terminated
<1>3. QED BY <1>1, <1>2, ResultInLineStep DEF IInv, Parts

\* The invariant holds in every state when the sleep under reset drains.
THEOREM Invariance == ASSUME HoldDrains PROVE Spec => []IInv
BY InvInit, InvStep, PTL DEF Spec

-----------------------------------------------------------------------------
(* What the invariant gives *)

\* The word main() reads after a finished run is this iteration's sum, for
\* every line length, counter width and number of iterations, and wherever a
\* reset cut the run before.
THEOREM ResultIsFresh == ASSUME HoldDrains PROVE Spec => []FreshResult
<1>1. IInv => FreshResult
  BY DEF IInv, RunProgress, FreshResult, RunComplete
<1>2. QED BY <1>1, Invariance, PTL

\* No beat of a cut burst lands in a later refill.
THEOREM RefillsAligned == ASSUME HoldDrains PROVE Spec => []AlignedRefill
<1>1. IInv => AlignedRefill
  BY DEF IInv, OneBurst, AlignedRefill
<1>2. QED BY <1>1, Invariance, PTL

\* The pending-write counter of a running core counts the writes on their way.
THEOREM PendingCounterExact == ASSUME HoldDrains PROVE Spec => []PendingExact
<1>1. IInv => PendingExact
  BY DEF IInv
<1>2. QED BY <1>1, Invariance, PTL

\* The cache line a run loads from is what memory holds, although main() writes
\* memory behind the cache.
THEOREM LineIsCoherent == ASSUME HoldDrains PROVE Spec => []CoherentLine
<1>1. IInv => CoherentLine
  <2> SUFFICES ASSUME IInv, hpc = "read", valid, core # "flush"
               PROVE  line[0] = mem[0] /\ line[1] = mem[1] /\ (posted = <<>> => line[2] = mem[2])
    BY DEF CoherentLine
  <2>1. line[0] = a /\ line[1] = b
    BY DEF IInv, RunProgress
  <2>2. mem[0] = a /\ mem[1] = b
    BY DEF IInv, HostPhase
  <2>3. posted = <<>> => line[2] = mem[2]
    BY DEF IInv, ResultInLine
  <2>4. QED BY <2>1, <2>2, <2>3
<1>2. QED BY <1>1, Invariance, PTL

\* When both sleeps are long enough every comparison of main() succeeds.
THEOREM EveryIterationPasses == ASSUME HoldDrains, WaitCompletes PROVE Spec => []AllPassed
<1>1. Init => AllPassed
  BY DEF Init, AllPassed
<1>2. IInv /\ AllPassed /\ [Next]_vars => AllPassed'
  <2> SUFFICES ASSUME IInv, AllPassed, [Next]_vars PROVE AllPassed'
    OBVIOUS
  <2>1. CASE ReadResult
    <3>1. mem[2] = Add(a, b)
      BY <2>1 DEF ReadResult, RunComplete, IInv, RunProgress
    <3>2. QED BY <2>1, <3>1 DEF ReadResult, AllPassed
  <2>2. CASE UNCHANGED all_ok
    BY <2>2 DEF AllPassed
  <2>3. CASE main
    BY <2>1, <2>2, <2>3 DEF main, BootStores, LoopStores, HostStore, BootPulse, LoopPulse, Draw,
       XRiscv_Set_reset_riscv
  <2>4. CASE Core \/ Wild \/ Memory \/ Terminated \/ UNCHANGED vars
    <3>1. UNCHANGED all_ok
      BY <2>4 DEF Core, Wild, Memory, Terminated, Flush, StartRefill, LoadHit, StoreSum,
         StoreWord, ReadBeat, WriteLands, vars, hostVars
    <3>2. QED BY <2>2, <3>1
  <2>5. QED BY <2>3, <2>4 DEF Next
<1>3. QED BY <1>1, <1>2, Invariance, PTL DEF Spec

\* After the first reset no store but main()'s own reaches the operands.
THEOREM OperandsStay == ASSUME HoldDrains PROVE Spec => OperandsOwnedByMain
<1> DEFINE Stay == (hpc \in LoopPCs /\ hpc \notin {"loop0", "loop1"}) =>
                     mem'[0] = mem[0] /\ mem'[1] = mem[1]
<1>1. ASSUME IInv, Next, hpc \in LoopPCs, hpc \notin {"loop0", "loop1"}
      PROVE  mem'[0] = mem[0] /\ mem'[1] = mem[1]
  <2>1. CASE main
    BY <1>1, <2>1 DEF main, BootStores, LoopStores, HostStore, BootPulse, LoopPulse, Draw,
       ReadResult, XRiscv_Set_reset_riscv, LoopPCs
  <2>2. CASE Core \/ Wild \/ ReadBeat
    BY <2>2 DEF Core, Wild, Flush, StartRefill, LoadHit, StoreSum, StoreWord, ReadBeat
  <2>3. CASE WriteLands
    <3>1. Len(posted) \in Nat \ {0} /\ Head(posted) = posted[1] /\ mem \in [Words -> Data]
      BY <1>1, <2>3 DEF WriteLands, IInv, TypeOK
    <3>2. Head(posted).word = 2
      BY <1>1, <3>1 DEF IInv, HostPhase
    <3>3. QED BY <2>3, <3>1, <3>2, WordFacts DEF WriteLands
  <2>4. CASE Terminated
    BY <2>4 DEF Terminated, vars
  <2>5. QED BY <1>1, <2>1, <2>2, <2>3, <2>4 DEF Next, Memory
<1>2. IInv /\ [Next]_vars => [Stay]_vars
  BY <1>1
<1>3. QED BY <1>2, Invariance, PTL DEF Spec, OperandsOwnedByMain
=============================================================================
