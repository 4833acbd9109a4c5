--------------------------- MODULE MCDBusAxiBridge ---------------------------
(* Values of the constants of DBusAxiBridge for TLC. *)
EXTENDS DBusAxiBridge

CONSTANTS a1, a2, v1, v2

MCAddr == {a1, a2}
MCVal == {v1, v2}
=============================================================================
