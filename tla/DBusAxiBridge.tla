---------------------------- MODULE DBusAxiBridge ----------------------------
(***************************************************************************)
(* The bridge of VexRiscvSignate.v from the data cache's command port to   *)
(* AXI: a fork that sends a write's address and data on two channels which *)
(* accept them at different times, and a counter of the writes that have   *)
(* not been acknowledged, which makes reads wait.  reset_riscv clears both *)
(* at any moment; the memory system, which it does not reach, keeps what   *)
(* it has accepted.                                                        *)
(*                                                                         *)
(* The cache's commands have last = 1, so the register _zz_11 that would   *)
(* suppress the address of a second data beat stays 0 and is left out.     *)
(***************************************************************************)
EXTENDS Naturals, Sequences

CONSTANTS
  Addr, Val,    \* addresses and data words
  None,         \* no command, no read
  MaxPending    \* all ones of the counter (7 in the code)

Command == [wr : {TRUE}, addr : Addr, data : Val] \cup [wr : {FALSE}, addr : Addr]

ASSUME BridgeAssumption ==
  /\ MaxPending \in Nat /\ MaxPending >= 1
  /\ None \notin Addr \cup Command

VARIABLES
  reset,        \* reset_riscv[0]
  cmd,          \* dBus_cmd: what the cache presents
  waiting,      \* the read the cache waits for
  got,          \* data of the last read answered
  awOpen,       \* _zz_when_Stream_l971_2: the address is still to be sent
  wOpen,        \* _zz_when_Stream_l971_3: the data is still to be sent
  pend,         \* _zz_dBus_cmd_ready: writes not yet acknowledged
  awq, wq,      \* addresses and data the memory system holds unmatched
  acks,         \* write responses it has yet to give
  rd,           \* the read it has yet to answer
  mem           \* memory

cacheSide == <<cmd, waiting, got>>
bridge == <<awOpen, wOpen, pend>>
slave == <<awq, wq, acks, rd, mem>>
vars == <<reset, cacheSide, bridge, slave>>

Init ==
  /\ reset = 0
  /\ cmd = None /\ waiting = None /\ got \in Val
  /\ awOpen = TRUE /\ wOpen = TRUE /\ pend = 0
  /\ awq = <<>> /\ wq = <<>> /\ acks = 0 /\ rd = None
  /\ mem \in [Addr -> Val]

-----------------------------------------------------------------------------
(* The cache: one command, held until it is accepted; a load is waited for. *)

Present ==
  /\ reset = 0 /\ cmd = None /\ waiting = None
  /\ cmd' \in Command
  /\ UNCHANGED <<reset, waiting, got, bridge, slave>>

-----------------------------------------------------------------------------
(* The bridge: what one clock edge does. *)

IsWrite == cmd # None /\ cmd.wr
IsRead == cmd # None /\ ~cmd.wr

\* Mutant: a read may start while writes are not acknowledged.
CounterLetsReadsPass == pend # MaxPending

\* _zz_dBus_cmd_ready_2: reads wait for every write, writes for a free count.
CounterLetsPass == ~(pend # 0 /\ IsRead) /\ pend # MaxPending

\* _zz_dbus_axi_arw_valid: what the fork is offered.
Offered == cmd # None /\ CounterLetsPass

AwValid == Offered /\ IsWrite /\ awOpen
ArValid == Offered /\ IsRead /\ awOpen
WValid == Offered /\ IsWrite /\ wOpen

\* Mutant: the fork is done as soon as one of the two channels accepted.
ForkDoneByOneSide(arwReady, wReady) == arwReady \/ ~awOpen \/ (IsWrite /\ (wReady \/ ~wOpen))

\* _zz_dBus_cmd_ready_3: both sides of the fork have accepted, now or before;
\* a read has no data side.
ForkDone(arwReady, wReady) == (arwReady \/ ~awOpen) /\ (wReady \/ ~IsWrite \/ ~wOpen)

\* Mutant: a side that has accepted is offered again.
SideAlwaysOpen(open, sent, done) == TRUE

\* A side of the fork closes when its half is sent and opens with the next command.
SideOpen(open, sent, done) == done \/ (open /\ ~sent)

\* Mutant: an acknowledgement in the cycle of a write is not counted.
CountMissesAck(wrote, acked) ==
  IF wrote THEN pend + 1 ELSE IF acked THEN (IF pend = 0 THEN MaxPending ELSE pend - 1) ELSE pend

\* Mutant: the counter counts up on an acknowledgement.
CountUp(wrote, acked) == IF wrote \/ acked THEN pend + 1 ELSE pend

\* The counter adds 1, all ones, or nothing, modulo its width.
Count(wrote, acked) ==
  CASE wrote /\ ~acked -> IF pend = MaxPending THEN 0 ELSE pend + 1
    [] ~wrote /\ acked -> IF pend = 0 THEN MaxPending ELSE pend - 1
    [] OTHER -> pend

\* A clock edge out of reset, for the ready signals of the memory system and
\* a response it gives or not.
Tick(arwReady, wReady, acked) ==
  LET accepted == cmd # None /\ CounterLetsPass /\ ForkDone(arwReady, wReady)
      wrote == accepted /\ IsWrite
  IN
  /\ reset = 0
  /\ acked => acks > 0
  /\ pend' = Count(wrote, acked)
  /\ awOpen' = SideOpen(awOpen, Offered /\ arwReady, ForkDone(arwReady, wReady))
  /\ wOpen' = SideOpen(wOpen, Offered /\ (wReady \/ ~IsWrite), ForkDone(arwReady, wReady))
  /\ cmd' = IF accepted THEN None ELSE cmd
  /\ waiting' = IF accepted /\ IsRead THEN cmd.addr ELSE waiting
  /\ awq' = IF AwValid /\ arwReady THEN Append(awq, cmd.addr) ELSE awq
  /\ wq' = IF WValid /\ wReady THEN Append(wq, cmd.data) ELSE wq
  /\ rd' = IF ArValid /\ arwReady THEN cmd.addr ELSE rd
  /\ acks' = IF acked THEN acks - 1 ELSE acks
  /\ UNCHANGED <<reset, got, mem>>

\* b_ready is 1 in reset as well, and the counter is held at zero.
AckInReset ==
  /\ reset = 1 /\ acks > 0
  /\ acks' = acks - 1
  /\ UNCHANGED <<reset, cacheSide, bridge, awq, wq, rd, mem>>

-----------------------------------------------------------------------------
(* The reset line *)

\* A write of which one half has been accepted.
Half == IsWrite /\ (~awOpen \/ ~wOpen)

\* The asynchronous reset: the cache forgets its command and its read, the
\* fork and the counter start over.  Environment assumption: it does not come
\* between the two halves of a write, which would leave one in the memory
\* system with nothing to match it.
Reset ==
  /\ reset = 0 /\ ~Half
  /\ reset' = 1
  /\ cmd' = None /\ waiting' = None /\ got' = got
  /\ awOpen' = TRUE /\ wOpen' = TRUE /\ pend' = 0
  /\ UNCHANGED slave

\* Mutant: the reset is released while responses are still to come.
ReleaseBeforeAcks ==
  /\ reset = 1 /\ reset' = 0
  /\ (awq = <<>> \/ wq = <<>>) /\ rd = None
  /\ UNCHANGED <<cacheSide, bridge, slave>>

\* main() sleeps with the reset asserted until the memory system has nothing
\* left that it can finish.
Release ==
  /\ reset = 1 /\ reset' = 0
  /\ (awq = <<>> \/ wq = <<>>) /\ acks = 0 /\ rd = None
  /\ UNCHANGED <<cacheSide, bridge, slave>>

-----------------------------------------------------------------------------
(* The memory system *)

\* The oldest address and the oldest data make a write.
Perform ==
  /\ awq # <<>> /\ wq # <<>>
  /\ mem' = [mem EXCEPT ![Head(awq)] = Head(wq)]
  /\ awq' = Tail(awq) /\ wq' = Tail(wq)
  /\ acks' = acks + 1
  /\ UNCHANGED <<reset, cacheSide, bridge, rd>>

\* It answers a read; r_ready is 1, and a cache that was reset ignores it.
Answer ==
  /\ rd # None /\ rd' = None
  /\ IF waiting # None THEN got' = mem[rd] /\ waiting' = None
                       ELSE UNCHANGED <<got, waiting>>
  /\ UNCHANGED <<reset, cmd, bridge, awq, wq, acks, mem>>

-----------------------------------------------------------------------------
Next ==
  \/ Present
  \/ \E arwReady, wReady, acked \in BOOLEAN : Tick(arwReady, wReady, acked)
  \/ AckInReset \/ Reset \/ Release
  \/ Perform \/ Answer

Spec == Init /\ [][Next]_vars

\* The memory system accepts what stays offered and answers what it accepted.
FairSpec ==
  /\ Spec
  /\ WF_vars(Tick(TRUE, TRUE, acks > 0))
  /\ WF_vars(Perform) /\ WF_vars(Answer)

-----------------------------------------------------------------------------
(* Properties *)

\* Writes accepted whole and not yet acknowledged.
Matched == IF Len(awq) <= Len(wq) THEN Len(awq) ELSE Len(wq)

\* Types of the cache's, the bridge's and the memory system's variables.
TypeOK ==
  /\ reset \in {0, 1}
  /\ cmd \in Command \cup {None}
  /\ waiting \in Addr \cup {None} /\ rd \in Addr \cup {None}
  /\ got \in Val
  /\ awOpen \in BOOLEAN /\ wOpen \in BOOLEAN
  /\ pend \in 0 .. MaxPending /\ acks \in Nat
  /\ awq \in Seq(Addr) /\ wq \in Seq(Val)
  /\ mem \in [Addr -> Val]

\* The counter of a running core is the number of its writes that are on
\* their way, so it neither overflows nor wraps below zero
\* (VexRiscvSignate.v:7942-7955).
PendingExact == reset = 0 => pend = Matched + acks

\* Addresses and data stay in step: no write is ever matched with the other
\* half of another one, whatever the order the channels accept them in.
InStep ==
  /\ ~awOpen => IsWrite /\ wOpen /\ Len(awq) = Len(wq) + 1
  /\ ~wOpen /\ IsWrite => Len(wq) = Len(awq) + 1
  /\ ~Half => Len(awq) = Len(wq)

\* Once offered, an address or a data word stays offered, unchanged, until it
\* is accepted or the reset takes it away, as AXI requires of a master.
Stable ==
  [][reset = 0 /\ reset' = 0 =>
       /\ AwValid /\ awq' = awq => AwValid' /\ cmd' = cmd
       /\ WValid /\ wq' = wq => WValid' /\ cmd' = cmd
       /\ ArValid /\ rd' = rd => ArValid' /\ cmd' = cmd]_vars

\* Memory as the program sees it: the matched writes on top of mem.
Shown ==
  [x \in Addr |->
     LET hits == {k \in 1 .. Matched : awq[k] = x}
     IN  IF hits = {} THEN mem[x] ELSE wq[CHOOSE k \in hits : \A j \in hits : j <= k]]

Port == INSTANCE PortMemory WITH shown <- Shown

\* Through the fork, the counter and the memory system's delays, a load
\* returns the last store to its address, across resets too.
LoadsSeeStores == Port!PSpec

\* A command is accepted sooner or later, or dropped by the reset.
Accepted == (cmd # None) ~> (cmd = None)
=============================================================================
