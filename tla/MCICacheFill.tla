---------------------------- MODULE MCICacheFill ----------------------------
(* Values of the constants of ICacheFill for TLC: every word of memory is  *)
(* different, and so is every word of the program.                         *)
EXTENDS ICacheFill

MCInsn == 0 .. 19
MCBoot == [l \in Lines |-> [w \in Words |-> LineWords * l + w]]
MCProgram == <<18, 19>>
=============================================================================
