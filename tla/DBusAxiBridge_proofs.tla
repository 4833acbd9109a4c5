------------------------- MODULE DBusAxiBridge_proofs -------------------------
(***************************************************************************)
(* Proofs about the bridge: types, the pending-write counter, and the two  *)
(* halves of a write staying in step, for every counter width and every    *)
(* set of addresses and data.                                              *)
(***************************************************************************)
EXTENDS DBusAxiBridge, WellFoundedInduction, TLAPS

\* An asserted reset leaves nothing presented, nothing waited for, and the
\* fork and the counter at their reset values.
HeldInReset ==
  reset = 1 => cmd = None /\ waiting = None /\ awOpen /\ wOpen /\ pend = 0

\* A closed side belongs to a command; a read never closes the address side.
ForkBusy == cmd = None => awOpen /\ wOpen

\* While the cache waits for a read, the memory system owes exactly that read
\* and no write is on its way.
ReadAlone ==
  reset = 0 =>
    /\ rd = waiting
    /\ waiting # None => cmd = None /\ Matched = 0 /\ acks = 0

\* A write of which one half is accepted is never stopped by the counter.
HalfPasses == Half => pend # MaxPending

\* The inductive invariant.
BInv ==
  /\ TypeOK /\ HeldInReset /\ ForkBusy /\ HalfPasses
  /\ ReadAlone /\ PendingExact /\ InStep

\* A sequence of pairs that loses its heads, or grows by one, keeps its types
\* and its length changes by one.
LEMMA HeadTail ==
  ASSUME NEW S, NEW q \in Seq(S), q # <<>>
  PROVE  /\ Head(q) \in S /\ Tail(q) \in Seq(S) /\ Len(q) >= 1
         /\ Len(Tail(q)) = Len(q) - 1
OBVIOUS

\* Two queues that lose their heads together keep the difference of their lengths.
LEMMA TailsInStep ==
  ASSUME NEW p \in Seq(Addr), p # <<>>, NEW q \in Seq(Val), q # <<>>
  PROVE  /\ Len(p) = Len(q) + 1 => Len(Tail(p)) = Len(Tail(q)) + 1
         /\ Len(q) = Len(p) + 1 => Len(Tail(q)) = Len(Tail(p)) + 1
         /\ Len(p) = Len(q) => Len(Tail(p)) = Len(Tail(q))
<1>1. PICK m \in Nat : m = Len(p) /\ Len(Tail(p)) = m - 1
  OBVIOUS
<1>2. PICK n \in Nat : n = Len(q) /\ Len(Tail(q)) = n - 1
  OBVIOUS
<1>3. /\ m = n + 1 => m - 1 = (n - 1) + 1
      /\ n = m + 1 => n - 1 = (m - 1) + 1
      /\ m = n => m - 1 = n - 1
  OBVIOUS
<1>4. QED BY <1>1, <1>2, <1>3

\* None is not a command.
LEMMA NotNone ==
  ASSUME TypeOK
  PROVE  /\ cmd # None => cmd \in Command /\ cmd.addr \in Addr
         /\ IsWrite => cmd.data \in Val
         /\ IsWrite \/ IsRead <=> cmd # None
         /\ ~(IsWrite /\ IsRead)
         /\ \A x \in Addr : x # None
         /\ Len(awq) \in Nat /\ Len(wq) \in Nat /\ Matched \in Nat
<1>1. None \notin Addr /\ None \notin Command
  BY BridgeAssumption
<1>2. cmd # None => cmd \in Command
  BY DEF TypeOK
<1>3. cmd \in Command => cmd.wr \in BOOLEAN /\ cmd.addr \in Addr /\ (cmd.wr => cmd.data \in Val)
  BY DEF Command
<1>4. Len(awq) \in Nat /\ Len(wq) \in Nat
  BY DEF TypeOK
<1>5. QED BY <1>1, <1>2, <1>3, <1>4 DEF IsWrite, IsRead, Matched

\* The invariant holds at power-up.
LEMMA BInit == Init => BInv
BY BridgeAssumption DEF Init, BInv, TypeOK, HeldInReset, ForkBusy, HalfPasses, ReadAlone,
   PendingExact, InStep, Matched, Half, IsWrite

\* A clock edge keeps the types.
LEMMA TypeTick ==
  ASSUME BInv, NEW ar \in BOOLEAN, NEW w \in BOOLEAN, NEW acked \in BOOLEAN,
         Tick(ar, w, acked)
  PROVE  TypeOK'
<1> USE DEF BInv
<1>1. pend' \in 0 .. MaxPending
  BY BridgeAssumption DEF Tick, Count, TypeOK
<1>2. cmd' \in Command \cup {None} /\ waiting' \in Addr \cup {None} /\ rd' \in Addr \cup {None}
  BY NotNone DEF Tick, TypeOK, IsRead, ArValid, Offered
<1>3. awq' \in Seq(Addr) /\ wq' \in Seq(Val)
  BY NotNone DEF Tick, TypeOK, AwValid, WValid, Offered, IsWrite
<1>4. acks' \in Nat
  BY DEF Tick, TypeOK
<1>5. awOpen' \in BOOLEAN /\ wOpen' \in BOOLEAN
  BY DEF Tick, SideOpen, ForkDone
<1>6. reset' \in {0, 1} /\ got' \in Val /\ mem' \in [Addr -> Val]
  BY DEF Tick, TypeOK
<1>7. QED BY <1>1, <1>2, <1>3, <1>4, <1>5, <1>6 DEF TypeOK

\* A clock edge adds the accepted write to those on their way, takes away the
\* acknowledged one, and keeps the halves in step.
LEMMA InvTick ==
  ASSUME BInv, NEW ar \in BOOLEAN, NEW w \in BOOLEAN, NEW acked \in BOOLEAN,
         Tick(ar, w, acked)
  PROVE  HeldInReset' /\ ForkBusy' /\ HalfPasses' /\ ReadAlone' /\ PendingExact' /\ InStep'
<1> USE DEF BInv
<1> DEFINE accepted == cmd # None /\ CounterLetsPass /\ ForkDone(ar, w)
<1>1. /\ reset = 0 /\ reset' = 0
      /\ pend = Matched + acks /\ acks \in Nat /\ pend \in Nat
      /\ acked => acks > 0
      /\ acks' = IF acked THEN acks - 1 ELSE acks
      /\ rd = waiting
      /\ waiting # None => cmd = None
  BY DEF Tick, PendingExact, TypeOK, ReadAlone
<1>2. /\ awOpen' = SideOpen(awOpen, Offered /\ ar, ForkDone(ar, w))
      /\ wOpen' = SideOpen(wOpen, Offered /\ (w \/ ~IsWrite), ForkDone(ar, w))
      /\ pend' = Count(accepted /\ IsWrite, acked)
      /\ cmd' = IF accepted THEN None ELSE cmd
      /\ waiting' = IF accepted /\ IsRead THEN cmd.addr ELSE waiting
      /\ awq' = IF AwValid /\ ar THEN Append(awq, cmd.addr) ELSE awq
      /\ wq' = IF WValid /\ w THEN Append(wq, cmd.data) ELSE wq
      /\ rd' = IF ArValid /\ ar THEN cmd.addr ELSE rd
  BY DEF Tick
<1>3. /\ Len(awq') = IF AwValid /\ ar THEN Len(awq) + 1 ELSE Len(awq)
      /\ Len(wq') = IF WValid /\ w THEN Len(wq) + 1 ELSE Len(wq)
      /\ Len(awq) \in Nat /\ Len(wq) \in Nat /\ Matched \in Nat
  BY <1>2, NotNone DEF TypeOK, AwValid, WValid, Offered, IsWrite
<1>4. CASE accepted /\ IsWrite
  <2>1. /\ pend # MaxPending /\ IsWrite /\ ~IsRead /\ cmd # None
        /\ ar \/ ~awOpen
        /\ w \/ ~wOpen
        /\ AwValid <=> awOpen
        /\ WValid <=> wOpen
    BY <1>4, NotNone DEF CounterLetsPass, ForkDone, AwValid, WValid, Offered
  <2>2. /\ cmd' = None /\ awOpen' /\ wOpen' /\ waiting' = waiting /\ waiting = None /\ rd' = rd
    BY <1>1, <1>2, <1>4, <2>1 DEF SideOpen, ArValid
  <2>3. Len(awq') = Matched + 1 /\ Len(wq') = Matched + 1
    BY <1>3, <2>1 DEF InStep, Half, Matched
  <2>4. Matched' = Matched + 1
    BY <2>3, <1>3 DEF Matched
  <2>5. pend' = Matched' + acks'
    BY <1>1, <1>2, <1>3, <1>4, <2>1, <2>4, BridgeAssumption DEF Count, TypeOK
  <2>6. QED
    BY <1>1, <2>2, <2>3, <2>5 DEF HeldInReset, ForkBusy, HalfPasses, ReadAlone, PendingExact,
       InStep, Half, IsWrite
<1>5. CASE IsWrite /\ ~accepted /\ Offered
  <2>1. /\ ~ForkDone(ar, w) /\ pend # MaxPending /\ ~IsRead /\ cmd # None
        /\ AwValid <=> awOpen
        /\ WValid <=> wOpen
    BY <1>5, NotNone DEF CounterLetsPass, AwValid, WValid, Offered
  <2>2. /\ cmd' = cmd /\ waiting' = waiting /\ waiting = None /\ rd' = rd /\ IsWrite'
        /\ awOpen' <=> awOpen /\ ~ar
        /\ wOpen' <=> wOpen /\ ~w
    BY <1>1, <1>2, <1>5, <2>1 DEF SideOpen, ArValid, IsWrite
  <2>3. /\ Len(awq') = IF awOpen /\ ar THEN Len(awq) + 1 ELSE Len(awq)
        /\ Len(wq') = IF wOpen /\ w THEN Len(wq) + 1 ELSE Len(wq)
    BY <1>3, <2>1
  <2>4. ~(ar /\ w) /\ (~awOpen => ~w /\ wOpen) /\ (~wOpen => ~ar /\ awOpen)
    BY <2>1, <1>5 DEF ForkDone, InStep
  <2>5. Matched' = Matched /\ InStep'
    BY <1>3, <1>5, <2>2, <2>3, <2>4 DEF InStep, Half, Matched
  <2>6. pend' = Matched' + acks' /\ pend' # MaxPending
    <3>1. pend' = IF acked THEN (IF pend = 0 THEN MaxPending ELSE pend - 1) ELSE pend
      BY <1>2, <1>5 DEF Count
    <3>2. pend <= MaxPending /\ MaxPending \in Nat
      BY BridgeAssumption DEF TypeOK
    <3>3. QED BY <1>1, <1>3, <2>1, <2>5, <3>1, <3>2
  <2>7. QED
    BY <1>1, <2>1, <2>2, <2>5, <2>6 DEF HeldInReset, ForkBusy, HalfPasses, ReadAlone, PendingExact
<1>6. CASE IsRead /\ Offered
  <2>1. /\ pend = 0 /\ Matched = 0 /\ acks = 0 /\ ~acked /\ ~IsWrite /\ cmd # None
    BY <1>1, <1>3, <1>6, NotNone DEF Offered, CounterLetsPass
  <2>2. awOpen /\ Len(awq) = Len(wq) /\ (ForkDone(ar, w) <=> ar)
    BY <2>1 DEF InStep, Half, ForkDone
  <2>3. /\ ~AwValid /\ ~WValid /\ ArValid
        /\ accepted <=> ar
    BY <1>6, <2>1, <2>2 DEF AwValid, WValid, ArValid, Offered
  <2>4. /\ awq' = awq /\ wq' = wq /\ acks' = 0 /\ pend' = 0 /\ awOpen' /\ Matched' = 0
        /\ Len(awq') = Len(wq')
    BY <1>1, <1>2, <1>3, <2>1, <2>2, <2>3 DEF Count, SideOpen, Matched
  <2>5. /\ ~IsWrite' /\ rd' = waiting' /\ (waiting' # None => cmd' = None)
        /\ cmd' = None => wOpen'
    BY <1>1, <1>2, <1>6, <2>1, <2>2, <2>3 DEF SideOpen, IsWrite
  <2>6. QED
    BY <1>1, <2>1, <2>4, <2>5 DEF HeldInReset, ForkBusy, HalfPasses, ReadAlone, PendingExact,
       InStep, Half
<1>7. CASE ~Offered
  <2>1. /\ ~accepted /\ ~AwValid /\ ~WValid /\ ~ArValid
    BY <1>7 DEF Offered, AwValid, WValid, ArValid
  <2>2. ~Half /\ awOpen
    <3>1. CASE cmd = None
      BY <3>1 DEF ForkBusy, Half, IsWrite
    <3>2. CASE cmd # None
      BY <3>2, <1>7, NotNone DEF Offered, CounterLetsPass, HalfPasses, Half, InStep
    <3>3. QED BY <3>1, <3>2
  <2>3. /\ cmd' = cmd /\ waiting' = waiting /\ rd' = rd /\ awq' = awq /\ wq' = wq
        /\ awOpen' /\ (wOpen => wOpen') /\ (IsWrite' <=> IsWrite) /\ Matched' = Matched
    BY <1>2, <1>7, <2>1, <2>2 DEF SideOpen, IsWrite, Matched
  <2>4. pend' = Matched' + acks' /\ (acks = 0 => acks' = 0)
    BY <1>1, <1>2, <1>3, <2>1, <2>3 DEF Count
  <2>5. ~Half' /\ Len(awq') = Len(wq')
    BY <2>2, <2>3 DEF Half, InStep
  <2>6. QED
    BY <1>1, <2>3, <2>4, <2>5 DEF HeldInReset, ForkBusy, HalfPasses, ReadAlone, PendingExact,
       InStep, Half
<1>8. QED BY <1>4, <1>5, <1>6, <1>7, NotNone DEF Offered
\* An acknowledgement under reset leaves the core's side alone.
LEMMA InvAck == ASSUME BInv, AckInReset PROVE BInv'
BY DEF BInv, AckInReset, TypeOK, HeldInReset, ForkBusy, HalfPasses, ReadAlone, PendingExact,
   InStep, Half, IsWrite, Matched, cacheSide, bridge

\* The cache presents a command.
LEMMA InvPresent == ASSUME BInv, Present PROVE BInv'
<1> USE DEF BInv, Present
<1>1. cmd' # None
  BY BridgeAssumption
<1>2. TypeOK'
  BY DEF TypeOK, bridge, slave
<1>3. awOpen /\ wOpen /\ awOpen' /\ wOpen' /\ Len(awq) = Len(wq)
  BY DEF ForkBusy, InStep, Half, IsWrite, bridge
<1>4. QED
  BY <1>1, <1>2, <1>3 DEF HeldInReset, ForkBusy, HalfPasses, ReadAlone, PendingExact,
     InStep, Half, IsWrite, Matched, bridge, slave

\* A reset at a command boundary leaves the two queues matched.
LEMMA InvReset == ASSUME BInv, Reset PROVE BInv'
BY BridgeAssumption DEF BInv, Reset, TypeOK, HeldInReset, ForkBusy, HalfPasses, ReadAlone, PendingExact,
   InStep, Half, IsWrite, Matched, slave

\* Released after the memory system has settled, the core finds nothing on its way.
LEMMA InvRelease == ASSUME BInv, Release PROVE BInv'
<1> USE DEF BInv, Release
<1>1. ~Half /\ Len(awq) = Len(wq) /\ Matched = 0
  <2>1. ~Half
    BY DEF HeldInReset, Half
  <2>2. QED BY <2>1 DEF InStep, Matched, TypeOK
<1>2. QED
  BY <1>1 DEF TypeOK, HeldInReset, ForkBusy, HalfPasses, ReadAlone, PendingExact,
     InStep, Half, IsWrite, Matched, cacheSide, bridge, slave

\* A write performed becomes a response to come.
LEMMA InvPerform == ASSUME BInv, Perform PROVE BInv'
<1> USE DEF BInv, Perform
<1>1. /\ Head(awq) \in Addr /\ Head(wq) \in Val
      /\ awq' \in Seq(Addr) /\ wq' \in Seq(Val)
      /\ Len(awq') = Len(awq) - 1 /\ Len(wq') = Len(wq) - 1
      /\ Len(awq) \in Nat \ {0} /\ Len(wq) \in Nat \ {0}
  BY HeadTail DEF TypeOK
<1>2. Matched' = Matched - 1 /\ Matched \in Nat \ {0}
  BY <1>1 DEF Matched
<1>3. TypeOK'
  BY <1>1 DEF TypeOK, cacheSide, bridge
<1>4. InStep'
  <2>1. /\ awOpen' = awOpen /\ wOpen' = wOpen
        /\ Half' <=> Half
        /\ IsWrite' <=> IsWrite
    BY DEF Half, IsWrite, cacheSide, bridge
  <2>2. /\ ~awOpen => IsWrite /\ wOpen /\ Len(awq) = Len(wq) + 1
        /\ ~wOpen /\ IsWrite => Len(wq) = Len(awq) + 1
        /\ ~Half => Len(awq) = Len(wq)
    BY DEF InStep
  <2>3. /\ Len(awq) = Len(wq) + 1 => Len(awq') = Len(wq') + 1
        /\ Len(wq) = Len(awq) + 1 => Len(wq') = Len(awq') + 1
        /\ Len(awq) = Len(wq) => Len(awq') = Len(wq')
    BY TailsInStep DEF TypeOK
  <2>4. QED BY <2>1, <2>2, <2>3 DEF InStep
<1>5. ReadAlone'
  BY <1>2 DEF ReadAlone, cacheSide
<1>6. PendingExact'
  BY <1>2 DEF PendingExact, TypeOK, bridge
<1>7. QED
  BY <1>3, <1>4, <1>5, <1>6 DEF HeldInReset, ForkBusy, HalfPasses, Half, IsWrite, cacheSide, bridge

\* A read is answered.
LEMMA InvAnswer == ASSUME BInv, Answer PROVE BInv'
<1> USE DEF BInv, Answer
<1>1. got' \in Val /\ waiting' \in Addr \cup {None} /\ rd' \in Addr \cup {None}
  BY DEF TypeOK
<1>2. waiting' = None
  OBVIOUS
<1>3. QED
  BY <1>1, <1>2 DEF TypeOK, HeldInReset, ForkBusy, HalfPasses, ReadAlone, PendingExact,
     InStep, Half, IsWrite, Matched, bridge

\* Every step keeps the invariant.
LEMMA BStep == BInv /\ [Next]_vars => BInv'
<1> SUFFICES ASSUME BInv, [Next]_vars PROVE BInv'
  OBVIOUS
<1>1. ASSUME NEW ar \in BOOLEAN, NEW w \in BOOLEAN, NEW acked \in BOOLEAN, Tick(ar, w, acked)
      PROVE  BInv'
  BY <1>1, TypeTick, InvTick DEF BInv
<1>2. CASE UNCHANGED vars
  BY <1>2 DEF vars, cacheSide, bridge, slave, BInv, TypeOK, HeldInReset, ForkBusy, HalfPasses,
     ReadAlone, PendingExact, InStep, Half, IsWrite, Matched
<1>3. QED
  BY <1>1, <1>2, InvPresent, InvAck, InvReset, InvRelease, InvPerform, InvAnswer DEF Next

\* The bridge's inductive invariant holds in every state.
THEOREM BridgeInvariant == Spec => []BInv
BY BInit, BStep, PTL DEF Spec

\* The pending-write counter counts the writes on their way: it never wraps,
\* for any width and any order of acceptance, acknowledgement and reset.
THEOREM BridgeCounterExact == Spec => []PendingExact
<1>1. BInv => PendingExact
  BY DEF BInv
<1>2. QED BY <1>1, BridgeInvariant, PTL

\* No write's address is ever matched with the data of another write.
THEOREM HalvesInStep == Spec => []InStep
<1>1. BInv => InStep
  BY DEF BInv
<1>2. QED BY <1>1, BridgeInvariant, PTL

\* Every variable keeps its type.
THEOREM BridgeTypes == Spec => []TypeOK
<1>1. BInv => TypeOK
  BY DEF BInv
<1>2. QED BY <1>1, BridgeInvariant, PTL

-----------------------------------------------------------------------------
(* What the master offers stays offered *)

\* While a side of the fork has been accepted, the counter cannot stop the
\* other: it only falls.
LEMMA OfferStays ==
  ASSUME BInv, NEW ar \in BOOLEAN, NEW w \in BOOLEAN, NEW acked \in BOOLEAN,
         Tick(ar, w, acked), Offered, ~(CounterLetsPass /\ ForkDone(ar, w))
  PROVE  Offered' /\ cmd' = cmd
<1>1. cmd' = cmd /\ cmd # None /\ pend # MaxPending /\ (pend # 0 => ~IsRead)
  BY DEF Tick, Offered, CounterLetsPass
<1>2. pend' = (IF acked THEN (IF pend = 0 THEN MaxPending ELSE pend - 1) ELSE pend)
  BY DEF Tick, Count, Offered
<1>3. acked => pend # 0
  BY DEF Tick, BInv, PendingExact, TypeOK, Matched
<1>4. pend' # MaxPending /\ (pend' # 0 => pend # 0)
  BY <1>1, <1>2, <1>3, BridgeAssumption DEF BInv, TypeOK
<1>5. QED BY <1>1, <1>4 DEF Offered, CounterLetsPass, IsRead

\* No step of the others touches what the bridge offers.
LEMMA OffersUntouched ==
  ASSUME UNCHANGED <<cmd, bridge>>
  PROVE  (AwValid => AwValid') /\ (WValid => WValid') /\ (ArValid => ArValid')
BY DEF AwValid, WValid, ArValid, Offered, CounterLetsPass, IsWrite, IsRead, bridge

\* A clock edge that does not take an offer leaves it.
LEMMA TickIsStable ==
  ASSUME BInv, NEW ar \in BOOLEAN, NEW w \in BOOLEAN, NEW acked \in BOOLEAN, Tick(ar, w, acked)
  PROVE  /\ AwValid /\ awq' = awq => AwValid' /\ cmd' = cmd
         /\ WValid /\ wq' = wq => WValid' /\ cmd' = cmd
         /\ ArValid /\ rd' = rd => ArValid' /\ cmd' = cmd
<1>1. /\ awOpen' = SideOpen(awOpen, Offered /\ ar, ForkDone(ar, w))
      /\ wOpen' = SideOpen(wOpen, Offered /\ (w \/ ~IsWrite), ForkDone(ar, w))
      /\ awq' = IF AwValid /\ ar THEN Append(awq, cmd.addr) ELSE awq
      /\ wq' = IF WValid /\ w THEN Append(wq, cmd.data) ELSE wq
      /\ rd' = IF ArValid /\ ar THEN cmd.addr ELSE rd
  BY DEF Tick
<1>2. ASSUME AwValid, awq' = awq
      PROVE  AwValid' /\ cmd' = cmd
  <2>1. ~ar
    BY <1>1, <1>2, NotNone DEF BInv, TypeOK
  <2>2. ~ForkDone(ar, w)
    BY <2>1, <1>2 DEF ForkDone, AwValid
  <2>3. Offered' /\ cmd' = cmd
    BY <1>2, <2>2, OfferStays DEF AwValid
  <2>4. QED BY <1>1, <1>2, <2>1, <2>3 DEF AwValid, SideOpen, IsWrite
<1>3. ASSUME WValid, wq' = wq
      PROVE  WValid' /\ cmd' = cmd
  <2>1. ~w
    BY <1>1, <1>3, NotNone DEF BInv, TypeOK, WValid
  <2>2. ~ForkDone(ar, w)
    BY <2>1, <1>3 DEF ForkDone, WValid
  <2>3. Offered' /\ cmd' = cmd
    BY <1>3, <2>2, OfferStays DEF WValid
  <2>4. QED BY <1>1, <1>3, <2>1, <2>3 DEF WValid, SideOpen, IsWrite
<1>4. ASSUME ArValid, rd' = rd
      PROVE  ArValid' /\ cmd' = cmd
  <2>1. ~ar
    <3>1. rd = None /\ cmd.addr # None
      BY <1>4, NotNone DEF BInv, ReadAlone, Tick, ArValid, Offered
    <3>2. QED BY <3>1, <1>1, <1>4
  <2>2. ~ForkDone(ar, w)
    BY <2>1, <1>4 DEF ForkDone, ArValid
  <2>3. Offered' /\ cmd' = cmd
    BY <1>4, <2>2, OfferStays DEF ArValid
  <2>4. QED BY <1>1, <1>4, <2>1, <2>3 DEF ArValid, SideOpen, IsRead
<1>5. QED BY <1>2, <1>3, <1>4

\* As AXI requires of a master, an address or a data word that is offered stays
\* offered until it is accepted, whatever the counter and the other channel do.
THEOREM OffersAreStable == Spec => Stable
<1> DEFINE Keeps == reset = 0 /\ reset' = 0 =>
                      /\ AwValid /\ awq' = awq => AwValid' /\ cmd' = cmd
                      /\ WValid /\ wq' = wq => WValid' /\ cmd' = cmd
                      /\ ArValid /\ rd' = rd => ArValid' /\ cmd' = cmd
<1>1. ASSUME BInv, Next PROVE Keeps
  <2>1. CASE Present
    BY <2>1 DEF Present, AwValid, WValid, ArValid, Offered
  <2>2. CASE \E ar, w, acked \in BOOLEAN : Tick(ar, w, acked)
    BY <1>1, <2>2, TickIsStable
  <2>3. CASE AckInReset \/ Reset \/ Release
    BY <2>3 DEF AckInReset, Reset, Release
  <2>4. CASE Perform \/ Answer
    <3>1. UNCHANGED <<cmd, bridge>>
      BY <2>4 DEF Perform, Answer, cacheSide
    <3>2. QED BY <3>1, OffersUntouched
  <2>5. QED BY <1>1, <2>1, <2>2, <2>3, <2>4 DEF Next
<1>2. BInv /\ [Next]_vars => [Keeps]_vars
  BY <1>1
<1>3. QED BY <1>2, BridgeInvariant, PTL DEF Spec, Stable

-----------------------------------------------------------------------------
(* A load returns the last store: the bridge implements PortMemory *)

\* The order of the natural numbers.
Below == {r \in Nat \X Nat : r[1] < r[2]}

\* A set of natural numbers has a least one.
LEMMA Least == ASSUME NEW T \in SUBSET Nat, T # {} PROVE \E x \in T : \A y \in T : x <= y
<1>1. IsWellFoundedOn(Below, Nat)
  BY NatLessThanWellFounded DEF OpToRel, Below
<1>2. \E x \in T : \A y \in T : <<y, x>> \notin Below
  BY <1>1, WFMin, Zenon
<1>3. \A x, y \in Nat : <<y, x>> \notin Below => x <= y
  BY DEF Below
<1>4. QED BY <1>2, <1>3

\* A set of numbers that are not above n has a greatest one.
LEMMA Greatest ==
  ASSUME NEW n \in Nat, NEW S \in SUBSET (1 .. n), S # {}
  PROVE  \E k \in S : \A j \in S : j <= k
<1> DEFINE T == {n - k : k \in S}
<1>1. /\ \A j \in S : n - j \in T /\ j \in 1 .. n
      /\ \A x : x \in T => \E k \in S : x = n - k
  OBVIOUS
<1> HIDE DEF T
<1>2. T \subseteq Nat /\ T # {}
  <2>1. T # {}
    BY <1>1
  <2>2. \A j \in 1 .. n : n - j \in Nat
    OBVIOUS
  <2>3. QED BY <1>1, <2>1, <2>2
<1>3. PICK x \in T : \A y \in T : x <= y
  BY <1>2, Least
<1>4. PICK k \in S : x = n - k
  BY <1>1
<1>5. ASSUME NEW j \in S PROVE j <= k
  <2>1. n - k <= n - j /\ j \in 1 .. n /\ k \in 1 .. n
    BY <1>1, <1>3, <1>4
  <2>2. QED BY <2>1
<1>6. QED BY <1>5

\* The first n addresses p and words q of the queues, on top of memory m.
Hits(p, n, x) == {k \in 1 .. n : p[k] = x}
Latest(p, n, x) == CHOOSE k \in Hits(p, n, x) : \A j \in Hits(p, n, x) : j <= k
View(m, p, q, n, x) == IF Hits(p, n, x) = {} THEN m[x] ELSE q[Latest(p, n, x)]

\* The latest write of an address that has one.
LEMMA LatestIsGreatest ==
  ASSUME NEW n \in Nat, NEW p, NEW x, Hits(p, n, x) # {}
  PROVE  /\ Latest(p, n, x) \in Hits(p, n, x)
         /\ \A j \in Hits(p, n, x) : j <= Latest(p, n, x)
<1>1. \E k \in Hits(p, n, x) : \A j \in Hits(p, n, x) : j <= k
  BY Greatest DEF Hits
<1>2. QED BY <1>1 DEF Latest

\* There is only one latest write.
LEMMA LatestIs ==
  ASSUME NEW n \in Nat, NEW p, NEW x,
         NEW k \in Hits(p, n, x), \A j \in Hits(p, n, x) : j <= k
  PROVE  Latest(p, n, x) = k
<1>1. /\ Latest(p, n, x) \in Hits(p, n, x)
      /\ \A j \in Hits(p, n, x) : j <= Latest(p, n, x)
  BY LatestIsGreatest
<1>2. Hits(p, n, x) \subseteq Nat
  BY DEF Hits
<1>3. QED BY <1>1, <1>2

\* What lies behind the first n writes does not show.
LEMMA ViewSame ==
  ASSUME NEW n \in Nat, NEW m, NEW p, NEW q, NEW p2, NEW q2, NEW x,
         \A k \in 1 .. n : p2[k] = p[k] /\ q2[k] = q[k]
  PROVE  View(m, p2, q2, n, x) = View(m, p, q, n, x)
<1>1. Hits(p2, n, x) = Hits(p, n, x)
  BY DEF Hits
<1>2. Latest(p2, n, x) = Latest(p, n, x)
  BY <1>1 DEF Latest
<1>3. Hits(p, n, x) # {} => Latest(p, n, x) \in 1 .. n
  BY LatestIsGreatest DEF Hits
<1>4. QED BY <1>1, <1>2, <1>3 DEF View

\* One more write shows its word at its address and nothing elsewhere.
LEMMA ViewAdd ==
  ASSUME NEW n \in Nat, NEW m, NEW p, NEW q, NEW p2, NEW q2, NEW x,
         \A k \in 1 .. n : p2[k] = p[k] /\ q2[k] = q[k]
  PROVE  View(m, p2, q2, n + 1, x) = IF p2[n + 1] = x THEN q2[n + 1] ELSE View(m, p, q, n, x)
<1>1. CASE p2[n + 1] = x
  <2>1. n + 1 \in Hits(p2, n + 1, x) /\ \A j \in Hits(p2, n + 1, x) : j <= n + 1
    BY <1>1 DEF Hits
  <2>2. Latest(p2, n + 1, x) = n + 1
    BY <2>1, LatestIs
  <2>3. QED BY <1>1, <2>1, <2>2 DEF View
<1>2. CASE p2[n + 1] # x
  <2>1. Hits(p2, n + 1, x) = Hits(p, n, x)
    BY <1>2 DEF Hits
  <2>2. Latest(p2, n + 1, x) = Latest(p, n, x)
    BY <2>1 DEF Latest
  <2>3. Hits(p, n, x) # {} => Latest(p, n, x) \in 1 .. n
    BY LatestIsGreatest DEF Hits
  <2>4. QED BY <1>2, <2>1, <2>2, <2>3 DEF View
<1>3. QED BY <1>1, <1>2

\* The oldest write performed shows as it did.
LEMMA ViewPerform ==
  ASSUME NEW n \in Nat, n >= 1, NEW m, NEW m2, NEW x,
         NEW p, NEW q, NEW p2, NEW q2,
         m2[x] = IF p[1] = x THEN q[1] ELSE m[x],
         \A k \in 1 .. n - 1 : p2[k] = p[k + 1] /\ q2[k] = q[k + 1]
  PROVE  View(m2, p2, q2, n - 1, x) = View(m, p, q, n, x)
<1>1. \A k \in 1 .. n - 1 : k \in Hits(p2, n - 1, x) <=> k + 1 \in Hits(p, n, x)
  BY DEF Hits
<1>2. n - 1 \in Nat /\ Hits(p2, n - 1, x) \subseteq 1 .. n - 1 /\ Hits(p, n, x) \subseteq 1 .. n
  BY DEF Hits
<1>3. CASE Hits(p2, n - 1, x) # {}
  <2>1. PICK k : k = Latest(p2, n - 1, x)
    OBVIOUS
  <2>2. k \in Hits(p2, n - 1, x) /\ \A j \in Hits(p2, n - 1, x) : j <= k
    BY <1>2, <1>3, <2>1, LatestIsGreatest
  <2>3. k \in 1 .. n - 1 /\ k + 1 \in Hits(p, n, x)
    BY <1>1, <1>2, <2>2
  <2>4. ASSUME NEW j \in Hits(p, n, x) PROVE j <= k + 1
    <3>1. CASE j = 1
      BY <3>1, <2>3
    <3>2. CASE j # 1
      <4>1. j - 1 \in 1 .. n - 1 /\ (j - 1) + 1 = j
        BY <1>2, <3>2
      <4>2. j - 1 \in Hits(p2, n - 1, x)
        BY <1>1, <4>1
      <4>3. QED BY <2>2, <2>3, <4>1, <4>2
    <3>3. QED BY <3>1, <3>2
  <2>5. Latest(p, n, x) = k + 1
    BY <2>3, <2>4, LatestIs
  <2>6. QED BY <1>3, <2>1, <2>3, <2>5 DEF View
<1>4. CASE Hits(p2, n - 1, x) = {}
  <2>1. ASSUME NEW j \in Hits(p, n, x) PROVE j = 1
    <3>1. j # 1 => j - 1 \in 1 .. n - 1 /\ (j - 1) + 1 = j
      BY <1>2
    <3>2. QED BY <1>1, <1>4, <3>1
  <2>2. CASE p[1] = x
    <3>1. 1 \in Hits(p, n, x) /\ \A j \in Hits(p, n, x) : j <= 1
      BY <2>1, <2>2 DEF Hits
    <3>2. Latest(p, n, x) = 1
      BY <3>1, LatestIs
    <3>3. QED BY <1>4, <2>2, <3>1, <3>2 DEF View
  <2>3. CASE p[1] # x
    <3>1. Hits(p, n, x) = {}
      BY <2>1, <2>3 DEF Hits
    <3>2. QED BY <1>4, <2>3, <3>1 DEF View
  <2>4. QED BY <2>2, <2>3
<1>5. QED BY <1>3, <1>4

\* Shown is that view of the queues.
LEMMA ShownIsView == Shown = [x \in Addr |-> View(mem, awq, wq, Matched, x)]
BY DEF Shown, View, Latest, Hits

\* And after a step it is that view of what the queues have become.
LEMMA ShownIsViewNext == Shown' = [x \in Addr |-> View(mem', awq', wq', Matched', x)]
BY DEF Shown, View, Latest, Hits

\* The half of a write that is accepted is the last of its queue.
LastHalf ==
  /\ ~awOpen => awq[Len(awq)] = cmd.addr
  /\ ~wOpen /\ IsWrite => wq[Len(wq)] = cmd.data

\* A clock edge that does not accept a write closes the side it takes a half on.
LEMMA LastHalfTick ==
  ASSUME BInv, LastHalf, NEW ar \in BOOLEAN, NEW w \in BOOLEAN, NEW acked \in BOOLEAN,
         Tick(ar, w, acked)
  PROVE  LastHalf'
<1>1. /\ awOpen' = SideOpen(awOpen, Offered /\ ar, ForkDone(ar, w))
      /\ wOpen' = SideOpen(wOpen, Offered /\ (w \/ ~IsWrite), ForkDone(ar, w))
      /\ awq' = IF AwValid /\ ar THEN Append(awq, cmd.addr) ELSE awq
      /\ wq' = IF WValid /\ w THEN Append(wq, cmd.data) ELSE wq
  BY DEF Tick
<1>2. CASE ForkDone(ar, w)
  BY <1>1, <1>2 DEF SideOpen, LastHalf
<1>3. CASE ~ForkDone(ar, w) /\ Offered
  <2>1. cmd' = cmd
    BY <1>3 DEF Tick
  <2>2. ASSUME ~awOpen' PROVE awq'[Len(awq')] = cmd'.addr
    <3>1. CASE awOpen
      <4>1. ar
        BY <1>1, <2>2, <3>1 DEF SideOpen
      <4>2. CASE IsWrite
        <5>1. awq' = Append(awq, cmd.addr) /\ cmd.addr \in Addr /\ awq \in Seq(Addr)
          BY <1>1, <1>3, <3>1, <4>1, <4>2, NotNone DEF AwValid, BInv, TypeOK, Offered
        <5>2. QED BY <2>1, <5>1
      <4>3. CASE ~IsWrite
        BY <1>3, <4>1, <4>3 DEF ForkDone
      <4>4. QED BY <4>2, <4>3
    <3>2. CASE ~awOpen
      BY <1>1, <2>1, <3>2 DEF AwValid, LastHalf
    <3>3. QED BY <3>1, <3>2
  <2>3. ASSUME ~wOpen', IsWrite' PROVE wq'[Len(wq')] = cmd'.data
    <3>1. IsWrite
      BY <2>1, <2>3 DEF IsWrite
    <3>2. CASE wOpen
      <4>1. w
        BY <1>1, <2>3, <3>1, <3>2 DEF SideOpen
      <4>2. wq' = Append(wq, cmd.data) /\ cmd.data \in Val /\ wq \in Seq(Val)
        BY <1>1, <1>3, <3>1, <3>2, <4>1, NotNone DEF WValid, BInv, TypeOK
      <4>3. QED BY <2>1, <4>2
    <3>3. CASE ~wOpen
      BY <1>1, <2>1, <3>1, <3>3 DEF WValid, LastHalf
    <3>4. QED BY <3>2, <3>3
  <2>4. QED BY <2>2, <2>3 DEF LastHalf
<1>4. CASE ~ForkDone(ar, w) /\ ~Offered
  <2>1. ~Half /\ awOpen
    <3>1. CASE cmd = None
      BY <3>1 DEF BInv, ForkBusy, Half, IsWrite
    <3>2. CASE cmd # None
      BY <3>2, <1>4, NotNone DEF Offered, CounterLetsPass, BInv, HalfPasses, Half, InStep
    <3>3. QED BY <3>1, <3>2
  <2>2. cmd' = cmd
    BY <1>4 DEF Tick
  <2>3. awOpen' /\ (IsWrite' => wOpen')
    BY <1>1, <1>4, <2>1, <2>2 DEF SideOpen, Half, IsWrite
  <2>4. QED BY <2>3 DEF LastHalf
<1>5. QED BY <1>2, <1>3, <1>4

\* Every step keeps the last half with its command.
LEMMA LastHalfStep == BInv /\ LastHalf /\ [Next]_vars => LastHalf'
<1> SUFFICES ASSUME BInv, LastHalf, [Next]_vars PROVE LastHalf'
  OBVIOUS
<1>1. CASE Present
  <2>1. awOpen /\ wOpen
    BY <1>1 DEF Present, BInv, ForkBusy
  <2>2. QED BY <1>1, <2>1 DEF Present, LastHalf, bridge
<1>2. CASE \E ar, w, acked \in BOOLEAN : Tick(ar, w, acked)
  BY <1>2, LastHalfTick
<1>3. CASE AckInReset \/ Release \/ Answer \/ UNCHANGED vars
  <2>1. UNCHANGED <<cmd, awOpen, wOpen, awq, wq>>
    BY <1>3 DEF AckInReset, Release, Answer, vars, cacheSide, bridge, slave
  <2>2. QED BY <2>1 DEF LastHalf, IsWrite
<1>4. CASE Reset
  BY <1>4 DEF Reset, LastHalf
<1>5. CASE Perform
  <2>1. UNCHANGED <<cmd, awOpen, wOpen>> /\ awq' = Tail(awq) /\ wq' = Tail(wq)
    BY <1>5 DEF Perform, cacheSide, bridge
  <2>2. awq # <<>> /\ wq # <<>> /\ awq \in Seq(Addr) /\ wq \in Seq(Val)
    BY <1>5 DEF Perform, BInv, TypeOK
  <2>3. ASSUME ~awOpen PROVE Tail(awq)[Len(Tail(awq))] = awq[Len(awq)]
    <3>1. Len(awq) = Len(wq) + 1
      BY <2>3 DEF BInv, InStep
    <3>2. QED BY <2>2, <3>1
  <2>4. ASSUME ~wOpen, IsWrite PROVE Tail(wq)[Len(Tail(wq))] = wq[Len(wq)]
    <3>1. Len(wq) = Len(awq) + 1
      BY <2>4 DEF BInv, InStep
    <3>2. QED BY <2>2, <3>1
  <2>5. QED BY <2>1, <2>3, <2>4 DEF LastHalf, IsWrite
<1>6. QED BY <1>1, <1>2, <1>3, <1>4, <1>5 DEF Next

\* The inductive invariant with it holds in every state.
LEMMA HalvesBelong == Spec => [](BInv /\ LastHalf)
<1>1. Init => BInv /\ LastHalf
  BY BInit DEF Init, LastHalf
<1>2. BInv /\ LastHalf /\ [Next]_vars => (BInv /\ LastHalf)'
  BY BStep, LastHalfStep
<1>3. QED BY <1>1, <1>2, PTL DEF Spec

\* The queues change by what a clock edge accepts.
LEMMA ShownTick ==
  ASSUME BInv, LastHalf, NEW ar \in BOOLEAN, NEW w \in BOOLEAN, NEW acked \in BOOLEAN,
         Tick(ar, w, acked)
  PROVE  Shown' = IF cmd # None /\ CounterLetsPass /\ ForkDone(ar, w) /\ IsWrite
                  THEN [Shown EXCEPT ![cmd.addr] = cmd.data] ELSE Shown
<1>1. /\ awq' = IF AwValid /\ ar THEN Append(awq, cmd.addr) ELSE awq
      /\ wq' = IF WValid /\ w THEN Append(wq, cmd.data) ELSE wq
      /\ mem' = mem /\ awq \in Seq(Addr) /\ wq \in Seq(Val)
  BY DEF Tick, BInv, TypeOK
<1>2. /\ AwValid => cmd.addr \in Addr
      /\ WValid => cmd.data \in Val
      /\ Len(awq) \in Nat /\ Len(wq) \in Nat /\ Matched \in Nat
      /\ Matched <= Len(awq) /\ Matched <= Len(wq)
  BY NotNone DEF BInv, AwValid, WValid, Offered, Matched
<1>3. /\ \A k \in 1 .. Matched : awq'[k] = awq[k] /\ wq'[k] = wq[k]
      /\ Len(awq') = IF AwValid /\ ar THEN Len(awq) + 1 ELSE Len(awq)
      /\ Len(wq') = IF WValid /\ w THEN Len(wq) + 1 ELSE Len(wq)
      /\ AwValid /\ ar => awq'[Len(awq) + 1] = cmd.addr
      /\ WValid /\ w => wq'[Len(wq) + 1] = cmd.data
  BY <1>1, <1>2
<1>4. Shown' = [x \in Addr |-> View(mem, awq', wq', Matched', x)]
  BY <1>1, ShownIsViewNext
<1>5. CASE cmd # None /\ CounterLetsPass /\ ForkDone(ar, w) /\ IsWrite
  <2>1. /\ ar \/ ~awOpen
        /\ w \/ ~wOpen
        /\ AwValid <=> awOpen
        /\ WValid <=> wOpen
    BY <1>5 DEF ForkDone, AwValid, WValid, Offered
  <2>2. Len(awq') = Matched + 1 /\ Len(wq') = Matched + 1
    BY <1>2, <1>3, <1>5, <2>1 DEF BInv, InStep, Half, Matched
  <2>3. Matched' = Matched + 1
    BY <2>2, <1>2 DEF Matched
  <2>4. awq'[Matched + 1] = cmd.addr
    BY <1>1, <1>2, <1>3, <2>1, <2>2 DEF LastHalf
  <2>5. wq'[Matched + 1] = cmd.data
    BY <1>1, <1>2, <1>3, <1>5, <2>1, <2>2 DEF LastHalf
  <2>6. \A x \in Addr : View(mem, awq', wq', Matched', x)
                        = IF cmd.addr = x THEN cmd.data ELSE View(mem, awq, wq, Matched, x)
    <3>1. SUFFICES ASSUME NEW x \in Addr
                   PROVE  View(mem, awq', wq', Matched + 1, x)
                          = IF cmd.addr = x THEN cmd.data ELSE View(mem, awq, wq, Matched, x)
      BY <2>3
    <3>2. View(mem, awq', wq', Matched + 1, x)
          = IF awq'[Matched + 1] = x THEN wq'[Matched + 1] ELSE View(mem, awq, wq, Matched, x)
      <4>1. Matched \in Nat /\ \A k \in 1 .. Matched : awq'[k] = awq[k] /\ wq'[k] = wq[k]
        BY <1>2, <1>3
      <4>2. QED BY <4>1, ViewAdd, SMTT(60)
    <3>3. QED BY <2>4, <2>5, <3>2
  <2>7. QED BY <1>4, <1>5, <2>6, ShownIsView
<1>6. CASE ~(cmd # None /\ CounterLetsPass /\ ForkDone(ar, w) /\ IsWrite)
  <2>1. Matched' = Matched
    <3>1. CASE ~(AwValid /\ ar) /\ ~(WValid /\ w)
      BY <3>1, <1>1 DEF Matched
    <3>2. CASE (AwValid /\ ar) \/ (WValid /\ w)
      <4>1. Offered /\ IsWrite /\ ~ForkDone(ar, w) /\ (AwValid <=> awOpen) /\ (WValid <=> wOpen)
        BY <3>2, <1>6 DEF AwValid, WValid, Offered
      <4>2. ~(ar /\ w) /\ (~awOpen => ~w /\ wOpen) /\ (~wOpen => ~ar /\ awOpen)
        BY <4>1 DEF ForkDone, BInv, InStep
      <4>3. QED BY <1>2, <1>3, <4>1, <4>2 DEF BInv, InStep, Half, Matched
    <3>3. QED BY <3>1, <3>2
  <2>2. \A x \in Addr : View(mem, awq', wq', Matched', x) = View(mem, awq, wq, Matched, x)
    BY <1>2, <1>3, <2>1, ViewSame
  <2>3. QED BY <1>4, <1>6, <2>2, ShownIsView
<1>7. QED BY <1>5, <1>6

\* A write that is performed shows as it did before.
LEMMA ShownPerform == ASSUME BInv, Perform PROVE Shown' = Shown
<1>1. /\ awq \in Seq(Addr) /\ wq \in Seq(Val) /\ awq # <<>> /\ wq # <<>>
      /\ awq' = Tail(awq) /\ wq' = Tail(wq)
      /\ mem' = [mem EXCEPT ![Head(awq)] = Head(wq)] /\ mem \in [Addr -> Val]
  BY DEF Perform, BInv, TypeOK
<1>2. /\ Len(awq) \in Nat /\ Len(wq) \in Nat /\ Len(awq) >= 1 /\ Len(wq) >= 1
      /\ Len(awq') = Len(awq) - 1 /\ Len(wq') = Len(wq) - 1
      /\ Head(awq) = awq[1] /\ Head(wq) = wq[1]
  BY <1>1
<1>3. Matched \in Nat /\ Matched >= 1 /\ Matched' = Matched - 1
  BY <1>2 DEF Matched
<1>4. \A k \in 1 .. Matched - 1 : awq'[k] = awq[k + 1] /\ wq'[k] = wq[k + 1]
  BY <1>1, <1>2, <1>3 DEF Matched
<1>5. \A x \in Addr : View(mem', awq', wq', Matched', x) = View(mem, awq, wq, Matched, x)
  <2>1. SUFFICES ASSUME NEW x \in Addr
                 PROVE  View(mem', awq', wq', Matched - 1, x) = View(mem, awq, wq, Matched, x)
    BY <1>3
  <2>2. mem'[x] = IF awq[1] = x THEN wq[1] ELSE mem[x]
    BY <1>1, <1>2
  <2>3. Matched \in Nat /\ Matched >= 1
    BY <1>1, <1>3
  <2>4. QED BY <1>4, <2>1, <2>2, <2>3, ViewPerform, SMTT(60)
<1>6. QED BY <1>5, ShownIsView, ShownIsViewNext

\* With nothing matched memory is what shows.
LEMMA ShownIsMem == ASSUME TypeOK, Matched = 0 PROVE Shown = mem
BY DEF Shown, TypeOK

\* The initial states of the bridge are initial states of the port.
LEMMA PortInit == Init => Port!PInit
<1> SUFFICES ASSUME Init PROVE Port!PInit
  OBVIOUS
<1>1. TypeOK /\ Matched = 0
  BY BInit DEF BInv, Init, Matched
<1>2. QED BY <1>1, ShownIsMem DEF Init, Port!PInit

\* Every step of the bridge is a step of the port or changes nothing of it.
LEMMA PortStep == BInv /\ LastHalf /\ [Next]_vars => [Port!PNext]_(Port!pvars)
<1> SUFFICES ASSUME BInv, LastHalf, [Next]_vars PROVE [Port!PNext]_(Port!pvars)
  OBVIOUS
<1> USE DEF Port!PNext, Port!pvars
<1>1. CASE Present
  <2>1. Shown' = Shown /\ UNCHANGED <<waiting, got>>
    BY <1>1 DEF Present, bridge, slave, Shown, Matched
  <2>2. QED BY <1>1, <2>1 DEF Present, Command, Port!Command, Port!PPresent
<1>2. ASSUME NEW ar \in BOOLEAN, NEW w \in BOOLEAN, NEW acked \in BOOLEAN, Tick(ar, w, acked)
      PROVE  [Port!PNext]_(Port!pvars)
  <2> DEFINE accepted == cmd # None /\ CounterLetsPass /\ ForkDone(ar, w)
  <2>1. /\ Shown' = IF accepted /\ IsWrite THEN [Shown EXCEPT ![cmd.addr] = cmd.data] ELSE Shown
        /\ cmd' = IF accepted THEN None ELSE cmd
        /\ waiting' = IF accepted /\ IsRead THEN cmd.addr ELSE waiting
        /\ got' = got
    BY <1>2, ShownTick DEF Tick
  <2>2. CASE accepted /\ IsWrite
    BY <2>1, <2>2 DEF Port!PWrite, IsWrite, IsRead
  <2>3. CASE accepted /\ ~IsWrite
    BY <2>1, <2>3 DEF Port!PRead, IsWrite, IsRead
  <2>4. CASE ~accepted
    BY <2>1, <2>4
  <2>5. QED BY <2>2, <2>3, <2>4
<1>3. CASE AckInReset \/ Release \/ UNCHANGED vars
  <2>1. UNCHANGED <<cmd, waiting, got, awq, wq, mem>>
    BY <1>3 DEF AckInReset, Release, vars, cacheSide, slave
  <2>2. QED BY <2>1 DEF Shown, Matched
<1>4. CASE Reset
  <2>1. Shown' = Shown
    BY <1>4 DEF Reset, slave, Shown, Matched
  <2>2. QED BY <1>4, <2>1 DEF Reset, Port!PReset
<1>5. CASE Perform
  BY <1>5, ShownPerform DEF Perform, cacheSide
<1>6. CASE Answer
  <2>1. Shown' = Shown /\ cmd' = cmd
    BY <1>6 DEF Answer, Shown, Matched
  <2>2. CASE waiting # None
    <3>1. rd = waiting /\ Matched = 0
      BY <2>2 DEF BInv, TypeOK, HeldInReset, ReadAlone
    <3>2. Shown = mem
      BY <3>1, ShownIsMem DEF BInv
    <3>3. QED BY <1>6, <2>1, <2>2, <3>1, <3>2 DEF Answer, Port!PAnswer
  <2>3. CASE waiting = None
    BY <1>6, <2>1, <2>3 DEF Answer
  <2>4. QED BY <2>2, <2>3
<1>7. QED BY <1>1, <1>2, <1>3, <1>4, <1>5, <1>6 DEF Next

\* The bridge implements a memory with one port: a load returns the last store
\* to its address, for every order of acceptance, acknowledgement and reset.
THEOREM BridgeIsAPort == Spec => LoadsSeeStores
BY PortInit, PortStep, HalvesBelong, PTL DEF Spec, LoadsSeeStores, Port!PSpec
=============================================================================
