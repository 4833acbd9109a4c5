----------------------------- MODULE MCMemAccess -----------------------------
(* Values of the constants of MemAccess for TLC: all bytes of the mapping   *)
(* and of the buffer differ.                                                *)
EXTENDS MemAccess

MCMem0 == [b \in 0 .. (MemSize - 1) |-> b]
MCBuf0 == [b \in 0 .. (BufSize - 1) |-> 100 + b]
MCImages == [pixel : {1, 2}, width : {2}, height : {2},
             host_step : {0, 5}, host_x : {1}, host_y : {0, 1},
             addr : {1}, mem_step : {0, 5}, mem_x : {1}, mem_y : {1}]
=============================================================================
