----------------------------- MODULE MCDataCache -----------------------------
(***************************************************************************)
(* Values of the constants of DataCache for TLC: two lines that share set  *)
(* 0, one word of a device, and a program that loads, stores and flushes   *)
(* what main() writes to.                                                  *)
(***************************************************************************)
EXTENDS DataCache

CONSTANTS A, B, io, v1, v2

MCSetOfLine == [l \in {A, B} |-> 0]

MCInstr ==
  {[op |-> "load", addr |-> a] : a \in {<<A, 0>>, <<A, 1>>, <<B, 0>>, <<io, 0>>}}
  \cup {[op |-> "store", addr |-> <<A, 0>>, data |-> v2],
        [op |-> "store", addr |-> <<io, 0>>, data |-> v1]}
  \cup {[op |-> "flush", sets |-> s] : s \in {{0, 1}, {0}}}

MCMem0 == [a \in Addr |-> IF a \in {<<A, 0>>, <<B, 1>>} THEN v1 ELSE v2]

MCHostWord == {<<A, 0>>}
=============================================================================
