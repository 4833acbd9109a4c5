---------------------------- MODULE DeviceLeases ----------------------------
(***************************************************************************)
(* What the driver and the accessors promise their callers: a holder gets  *)
(* a device, and reaches that device and no other until it lets go of it   *)
(* itself.                                                                 *)
(***************************************************************************)
CONSTANTS Holder, Device, Nothing

VARIABLE reach   \* the device each holder reaches

LInit == reach = [h \in Holder |-> Nothing]

Acquire(h, dev) == reach[h] = Nothing /\ reach' = [reach EXCEPT ![h] = dev]

LetGo(h) == reach' = [reach EXCEPT ![h] = Nothing]

LNext == \E h \in Holder : LetGo(h) \/ \E dev \in Device : Acquire(h, dev)

LSpec == LInit /\ [][LNext]_reach
=============================================================================
