---------------------------- MODULE MCDeviceClient ----------------------------
(* Values of the constants of DeviceClient for TLC. *)
EXTENDS DeviceClient, TLC

CONSTANTS i1, a1, a2, a3, m1, m2

MCInst == {i1}
MCAcc == {a1, a2, a3}
MCMgr == {m1, m2}
MCName == {"riscv", "peri", "udmabuf0"}

Dir(name, n) == [name |-> name, pages |-> n]

\* Two devices of one name; a gap in the numbers; a device
\* without a map0.
MCUioDirs == {
  0 :> Dir("peri", 2) @@ 1 :> Dir("riscv", 1) @@ 2 :> Dir("riscv", 2),
  0 :> Dir("peri", 1) @@ 2 :> Dir("riscv", 2) @@ 10 :> Dir("riscv", 1),
  0 :> Dir("riscv", 0) @@ 1 :> Dir("peri", 2)}

MCBuffers == "udmabuf0" :> 2

\* alphasort on "uio0" .. "uio99": uio1, uio10, uio2.
Key(x) == IF x < 10 THEN 11 * x ELSE 11 * (x \div 10) + (x % 10) + 1
MCAlpha(x, y) == Key(x) < Key(y)

Symm == Permutations(MCAcc) \cup Permutations(MCMgr)
=============================================================================
