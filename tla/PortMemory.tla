----------------------------- MODULE PortMemory -----------------------------
(***************************************************************************)
(* What the core's data port promises the data cache: one command at a     *)
(* time, a write takes effect when it is accepted, a read is answered with *)
(* the last write to its address, and a reset drops what was not accepted. *)
(***************************************************************************)
CONSTANTS Addr, Val, None

VARIABLES
  cmd,      \* the command the cache presents
  waiting,  \* the address of the read the cache waits for
  shown,    \* memory as the program sees it
  got       \* the value of the last answered read

pvars == <<cmd, waiting, shown, got>>

Command == [wr : {TRUE}, addr : Addr, data : Val] \cup [wr : {FALSE}, addr : Addr]

PInit ==
  /\ cmd = None /\ waiting = None
  /\ shown \in [Addr -> Val] /\ got \in Val

PPresent == cmd = None /\ waiting = None /\ cmd' \in Command /\ UNCHANGED <<waiting, shown, got>>

PWrite ==
  /\ cmd # None /\ cmd.wr
  /\ shown' = [shown EXCEPT ![cmd.addr] = cmd.data]
  /\ cmd' = None
  /\ UNCHANGED <<waiting, got>>

PRead ==
  /\ cmd # None /\ ~cmd.wr
  /\ waiting' = cmd.addr /\ cmd' = None
  /\ UNCHANGED <<shown, got>>

PAnswer ==
  /\ waiting # None
  /\ got' = shown[waiting] /\ waiting' = None
  /\ UNCHANGED <<cmd, shown>>

PReset == cmd' = None /\ waiting' = None /\ UNCHANGED <<shown, got>>

PNext == PPresent \/ PWrite \/ PRead \/ PAnswer \/ PReset

PSpec == PInit /\ [][PNext]_pvars
=============================================================================
