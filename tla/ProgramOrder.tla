---------------------------- MODULE ProgramOrder ----------------------------
(***************************************************************************)
(* What the core's program may expect of the data cache: its memory        *)
(* instructions take effect one by one in program order, each once.  A     *)
(* load returns the word in memory, or one that another master has         *)
(* overwritten behind the cache since the word was last stored by the      *)
(* program or flushed; a load of an input-output word always returns what  *)
(* the device holds.                                                       *)
(***************************************************************************)
EXTENDS Sequences

CONSTANTS
  CachedWord, IoWord,   \* addresses
  Sets, SetOf,          \* the cache's sets, and the set of a cached word
  Val, Instr

VARIABLES
  flight,  \* the instructions begun and not finished, oldest first
  mem,     \* memory
  stale,   \* values a load of a cached word may return although memory has another
  got      \* the last word loaded

pvars == <<flight, mem, stale, got>>

PInit ==
  /\ flight = <<>> /\ got \in Val
  /\ mem \in [CachedWord \cup IoWord -> Val]
  /\ stale = [a \in CachedWord |-> {}]

Load(i) ==
  /\ i.op = "load"
  /\ got' \in {mem[i.addr]} \cup (IF i.addr \in CachedWord THEN stale[i.addr] ELSE {})
  /\ UNCHANGED <<mem, stale>>

Store(i) ==
  /\ i.op = "store"
  /\ mem' = [mem EXCEPT ![i.addr] = i.data]
  /\ stale' = [a \in CachedWord |-> IF a = i.addr THEN {} ELSE stale[a]]
  /\ UNCHANGED got

Flush(i) ==
  /\ i.op = "flush"
  /\ stale' = [a \in CachedWord |-> IF SetOf[a] \in i.sets THEN {} ELSE stale[a]]
  /\ UNCHANGED <<mem, got>>

\* The oldest instruction takes effect; at the same time another may begin.
PRetire ==
  /\ flight # <<>>
  /\ Load(Head(flight)) \/ Store(Head(flight)) \/ Flush(Head(flight))
  /\ \E new \in {<<>>} \cup {<<i>> : i \in Instr} : flight' = Tail(flight) \o new

PBegin == \E i \in Instr : flight' = Append(flight, i) /\ UNCHANGED <<mem, stale, got>>

\* All but the oldest are begun anew.
PSquash == flight # <<>> /\ flight' = <<Head(flight)>> /\ UNCHANGED <<mem, stale, got>>

\* Another master writes to memory.
PHost ==
  \E a \in CachedWord, v \in Val :
    /\ mem' = [mem EXCEPT ![a] = v]
    /\ stale' = [stale EXCEPT ![a] = @ \cup {mem[a]}]
    /\ UNCHANGED <<flight, got>>

\* A reset drops the instructions and flushes set 0; of a set that is not
\* flushed nothing is known.
PReset ==
  \E flushed \in SUBSET Sets :
    /\ 0 \in flushed
    /\ flight' = <<>>
    /\ stale' = [a \in CachedWord |-> IF SetOf[a] \in flushed THEN {} ELSE Val]
    /\ UNCHANGED <<mem, got>>

PNext == PRetire \/ PBegin \/ PSquash \/ PHost \/ PReset

PSpec == PInit /\ [][PNext]_pvars
=============================================================================
