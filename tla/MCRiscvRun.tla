----------------------------- MODULE MCRiscvRun -----------------------------
(* Values of the constants of RiscvRun for TLC. *)
EXTENDS RiscvRun

MCAdd(x, y) == (x + y) % 3
=============================================================================
