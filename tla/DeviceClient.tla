---------------------------- MODULE DeviceClient ----------------------------
(***************************************************************************)
(* One process that uses the HLS driver and the accessors together, as     *)
(* test5.cpp does: both take descriptors and pages from the same tables,   *)
(* in any order of legal calls.                                            *)
(***************************************************************************)
EXTENDS XRiscvLinux, UioAccessors

\* The objects of the program are different objects.
ASSUME ClientAssumption == Inst \cap Acc = {} /\ Inst \cap Mgr = {}

vars == <<uio, files, pages, driverVars, accessorVars>>

Init == TablesInit /\ DriverInit /\ AccessorInit

\* Caller's rule: one instance at a time, for uio_info is shared.
Idle == \A x \in Inst : ~held[x].is

Driver ==
  /\ \/ \E x \in Inst, name \in Name : Idle /\ XRiscv_Initialize(x, name)
     \/ \E name \in Name : Idle /\ OpenDeviceFailed(name)
     \/ \E x \in Inst : XRiscv_Release(x)
  /\ UNCHANGED accessorVars

Accessors ==
  /\ \/ \E a \in Acc, name \in Name : UioAccessor(a, name) \/ UdmabufAccessor(a, name)
     \/ \E a, b \in Acc : GetAccessor(a, b)
     \/ \E a \in Acc : Destroy(a)
  /\ UNCHANGED driverVars

Next == Driver \/ Accessors

Spec == Init /\ [][Next]_vars

-----------------------------------------------------------------------------
(* Properties *)

Devices == {UioDev(id) : id \in UNION {DOMAIN u : u \in UioDirs}} \cup {BufDev(x) : x \in DOMAIN Buffers}

\* Types of the tables, the driver's static record and the accessors.
TypeOK ==
  /\ uio \in UioDirs
  /\ files \in [FdSet -> Devices \cup {Free}]
  /\ pages \in [PageSet -> Devices \cup {Free}]
  /\ info \in [num : Nat, fd : FdSet \cup {NoFd}, size : Nat]
  /\ inst \in [Inst -> [base : PageSet \cup {MapFailed}, ready : BOOLEAN]]
  /\ held \in [Inst -> {NotHeld} \cup [is : {TRUE}, name : Name]]
  /\ mgr \in [Mgr -> {NoMgr} \cup [is : {TRUE}, fd : FdSet, base : PageSet, size : Nat, dev : Devices]]
  /\ acc \in [Acc -> Mgr \cup {Gone, Null}]

Held == {x \in Inst : held[x].is}
InUse == {m \in Mgr : \E a \in Acc : acc[a] = m}
Owners == Held \cup InUse

FdOf(o) == IF o \in Inst THEN info.fd ELSE mgr[o].fd
DevOf(o) == IF o \in Inst THEN UioDev(info.num) ELSE mgr[o].dev
SpanOf(o) == IF o \notin Inst THEN Span(mgr[o].base, mgr[o].size)
             ELSE IF inst[o].base = MapFailed THEN {} ELSE Span(inst[o].base, info.size)

\* Every open descriptor and every mapped page belongs to exactly one owner
\* that is still in use: no sequence of successful, failed and shared opens
\* and of releases leaks one, frees one twice or frees another owner's
\* (xriscv_linux.c:142-153, MmapAccessor.h:64-73, UioAccessor.h:58-83).
Accounted ==
  /\ \A f \in FdSet : files[f] # Free => \E o \in Owners : FdOf(o) = f
  /\ \A p \in PageSet : pages[p] # Free => \E o \in Owners : p \in SpanOf(o)
  /\ \A o \in Owners : files[FdOf(o)] = DevOf(o) /\ \A p \in SpanOf(o) : pages[p] = DevOf(o)
  /\ \A o, other \in Owners : o # other => /\ FdOf(o) # FdOf(other)
                                           /\ SpanOf(o) \cap SpanOf(other) = {}

\* The driver and the accessors search /sys/class/uio each in its own way;
\* with fewer than ten devices what they open under one name is one device
\* (xriscv_linux.c:98-113, UioAccessor.h:131-157).
OneDevicePerName ==
  \A x \in Held, m \in InUse, id \in DOMAIN uio :
    DOMAIN uio \subseteq 0 .. 9 /\ mgr[m].dev = UioDev(id) /\ uio[id].name = held[x].name =>
      info.num = id

\* The inductive invariant behind Accounted, OneDevicePerName and the leases: a
\* manager is there exactly while an accessor points at it, the one instance in
\* use is open, and both have the device that their own search finds.
ClientInv ==
  /\ Accounted
  /\ \A m \in Mgr : mgr[m].is <=> m \in InUse
  /\ \A x, y \in Held : x = y
  /\ \A x \in Held : inst[x].ready /\ info.fd \in FdSet /\ info.num \in FirstNamed(held[x].name)
  /\ \A m \in InUse, id \in DOMAIN uio : mgr[m].dev = UioDev(id) =>
       \A k \in 0 .. id - 1 : k \in DOMAIN uio /\ uio[k].name # uio[id].name

\* What a holder reaches through its own mapping, read from the page table.
Nothing == <<"nothing">>
Behind(span) ==
  IF span # {} /\ \E dev \in Devices : \A p \in span : pages[p] = dev
  THEN CHOOSE dev \in Devices : \A p \in span : pages[p] = dev
  ELSE Nothing
Reach == [h \in Inst \cup Acc |->
            IF h \in Inst THEN IF held[h].is THEN Behind(SpanOf(h)) ELSE Nothing
            ELSE IF acc[h] \in Mgr THEN Behind(SpanOf(acc[h])) ELSE Nothing]

Leases == INSTANCE DeviceLeases
            WITH Holder <- Inst \cup Acc, Device <- Devices, reach <- Reach

\* Whoever got a device reaches it until he lets go of it himself, whatever
\* the others open, share, fail to open and release meanwhile.
HoldersKeepTheirDevice == Leases!LSpec

\* What assert(InstancePtr->Control_BaseAddress) says (xriscv_linux.c:135):
\* an instance that was initialised with success has its registers mapped.
ReadyIsMapped == \A x \in Held : inst[x].ready => Reach[x] # Nothing
=============================================================================
