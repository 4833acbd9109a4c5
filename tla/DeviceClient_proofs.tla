------------------------- MODULE DeviceClient_proofs -------------------------
(***************************************************************************)
(* Proofs about DeviceClient: for any devices, tables, instances and       *)
(* accessors, what is open and mapped belongs to one owner, and who got a  *)
(* device keeps it.                                                        *)
(***************************************************************************)
EXTENDS DeviceClient, TLAPS

\* A device is not a free entry.
LEMMA DevicesAreNotFree == \A d \in Devices : d # Free
  BY DEF Devices, UioDev, BufDev, Free

\* open() answers a free descriptor or an error.
LEMMA OpenGives == \A fd \in OpenResults \ {NoFd} : fd \in FdSet /\ files[fd] = Free
  BY DEF OpenResults

\* mmap() answers the first of a row of free pages or an error.
LEMMA MmapGives ==
  ASSUME NEW dev, NEW n, NEW base \in MmapResults(dev, n)
  PROVE  /\ base \in PageSet \cup {MapFailed}
         /\ base # MapFailed => \A p \in Span(base, n) : pages[p] = Free
  BY DEF MmapResults

\* The devices that a search finds are devices of the directory.
LEMMA FoundIsThere ==
  ASSUME TypeOK, NEW id \in DOMAIN uio
  PROVE  id \in Nat /\ UioDev(id) \in Devices /\ uio[id].pages \in Nat
<1>1. uio \in UioDirs
  BY DEF TypeOK
<1>2. id \in Nat /\ uio[id] \in [name : Name, pages : Nat]
  BY <1>1, TablesAssumption
<1>3. id \in UNION {DOMAIN u : u \in UioDirs}
  BY <1>1
<1> QED
  BY <1>2, <1>3 DEF Devices

\* So are the buffers.
LEMMA BufferIsThere ==
  ASSUME NEW x \in DOMAIN Buffers
  PROVE  BufDev(x) \in Devices /\ Buffers[x] \in Nat
  BY TablesAssumption DEF Devices

\* The tables keep their types through open, close, mmap and munmap.
LEMMA TableTypes ==
  ASSUME TypeOK, NEW dev \in Devices \cup {Free}
  PROVE  /\ \A fd : Opened(files, fd, dev) \in [FdSet -> Devices \cup {Free}]
         /\ \A fd : Closed(files, fd) \in [FdSet -> Devices \cup {Free}]
         /\ \A base, n : Mapped(pages, base, n, dev) \in [PageSet -> Devices \cup {Free}]
         /\ \A base, n : Unmapped(pages, base, n) \in [PageSet -> Devices \cup {Free}]
  BY DEF TypeOK, Opened, Closed, Mapped, Unmapped

-----------------------------------------------------------------------------
(* Type correctness *)

InfoType == [num : Nat, fd : FdSet \cup {NoFd}, size : Nat]
InstType == [base : PageSet \cup {MapFailed}, ready : BOOLEAN]
HeldType == {NotHeld} \cup [is : {TRUE}, name : Name]
OpenMgr == [is : {TRUE}, fd : FdSet, base : PageSet, size : Nat, dev : Devices]
MgrType == {NoMgr} \cup OpenMgr

\* The parts of TypeOK, named.
LEMMA TypeParts ==
  TypeOK <=> /\ uio \in UioDirs
             /\ files \in [FdSet -> Devices \cup {Free}]
             /\ pages \in [PageSet -> Devices \cup {Free}]
             /\ info \in InfoType
             /\ inst \in [Inst -> InstType]
             /\ held \in [Inst -> HeldType]
             /\ mgr \in [Mgr -> MgrType]
             /\ acc \in [Acc -> Mgr \cup {Gone, Null}]
  BY DEF TypeOK, InfoType, InstType, HeldType, OpenMgr, MgrType

\* Everything is of its type when the program starts.
LEMMA CInitTypes == Init => TypeOK
<1> SUFFICES ASSUME Init PROVE TypeOK
  OBVIOUS
<1> USE DEF Init, TablesInit, DriverInit, AccessorInit
<1>1. info \in InfoType
  BY DEF InfoType
<1>2. inst \in [Inst -> InstType]
  BY DEF InstType, MapFailed
<1>3. held \in [Inst -> HeldType] /\ mgr \in [Mgr -> MgrType] /\ acc \in [Acc -> Mgr \cup {Gone, Null}]
  BY DEF HeldType, MgrType
<1> QED
  BY <1>1, <1>2, <1>3 DEF TypeOK, InfoType, InstType, HeldType, OpenMgr, MgrType

\* The driver's calls keep the types.
LEMMA CDriverTypes == ASSUME TypeOK, Driver PROVE TypeOK'
<1> USE TypeParts
<1>1. mgr' = mgr /\ acc' = acc
  BY DEF Driver, accessorVars
<1>2. \A id \in DOMAIN uio : id \in Nat /\ UioDev(id) \in Devices /\ MapSize(id) \in Nat
  BY FoundIsThere DEF MapSize, InfoType
<1>3. ASSUME NEW name \in Name, OpenDeviceFailed(name) PROVE TypeOK'
  <2>1. PICK id \in FirstNamed(name) : info' = [num |-> id, fd |-> NoFd, size |-> MapSize(id)]
    BY <1>3 DEF OpenDeviceFailed
  <2>2. id \in DOMAIN uio
    BY DEF FirstNamed
  <2>3. info' \in InfoType
    BY <1>2, <2>1, <2>2 DEF InfoType
  <2>4. UNCHANGED <<uio, files, pages, inst, held>>
    BY <1>3 DEF OpenDeviceFailed
  <2> QED
    BY <1>1, <2>3, <2>4 DEF TypeOK, InfoType
<1>4. ASSUME NEW x \in Inst, NEW name \in Name, XRiscv_Initialize(x, name) PROVE TypeOK'
  <2>1. PICK id \in FirstNamed(name), fd \in OpenResults \ {NoFd} :
          \E base \in MmapResults(UioDev(id), MapSize(id)) :
            /\ info' = [num |-> id, fd |-> fd, size |-> MapSize(id)]
            /\ files' = Opened(files, fd, UioDev(id))
            /\ pages' = Mapped(pages, base, MapSize(id), UioDev(id))
            /\ inst' = [inst EXCEPT ![x] = [base |-> base, ready |-> TRUE]]
            /\ held' = [held EXCEPT ![x] = [is |-> TRUE, name |-> name]]
            /\ uio' = uio
    BY <1>4 DEF XRiscv_Initialize
  <2>2. PICK base \in MmapResults(UioDev(id), MapSize(id)) :
            /\ info' = [num |-> id, fd |-> fd, size |-> MapSize(id)]
            /\ files' = Opened(files, fd, UioDev(id))
            /\ pages' = Mapped(pages, base, MapSize(id), UioDev(id))
            /\ inst' = [inst EXCEPT ![x] = [base |-> base, ready |-> TRUE]]
            /\ held' = [held EXCEPT ![x] = [is |-> TRUE, name |-> name]]
            /\ uio' = uio
    BY <2>1
  <2>3. id \in DOMAIN uio /\ fd \in FdSet /\ base \in PageSet \cup {MapFailed}
    BY OpenGives, MmapGives DEF FirstNamed
  <2>4. info' \in InfoType
    BY <1>2, <2>2, <2>3 DEF InfoType
  <2>5. files' \in [FdSet -> Devices \cup {Free}] /\ pages' \in [PageSet -> Devices \cup {Free}]
    BY <1>2, <2>2, <2>3, TableTypes
  <2>6. inst' \in [Inst -> InstType]
    BY <2>2, <2>3 DEF InstType
  <2>7. held' \in [Inst -> HeldType]
    BY <2>2 DEF HeldType
  <2> QED
    BY <1>1, <2>2, <2>4, <2>5, <2>6, <2>7 DEF TypeOK, InfoType, InstType, HeldType
<1>5. ASSUME NEW x \in Inst, XRiscv_Release(x) PROVE TypeOK'
  <2>1. files' \in [FdSet -> Devices \cup {Free}] /\ pages' \in [PageSet -> Devices \cup {Free}]
    BY <1>5, TableTypes DEF XRiscv_Release
  <2>2. held' \in [Inst -> HeldType] /\ UNCHANGED <<uio, info, inst>>
    BY <1>5 DEF XRiscv_Release, HeldType
  <2> QED
    BY <1>1, <2>1, <2>2 DEF TypeOK, HeldType
<1> QED
  BY <1>3, <1>4, <1>5 DEF Driver

\* What Open leaves behind: no manager, or a new one with its descriptor and pages.
Opens(a, dev, n) ==
  \E fd \in FdSet, base \in PageSet, m \in Mgr :
    /\ ~mgr[m].is /\ files[fd] = Free /\ \A p \in Span(base, n) : pages[p] = Free
    /\ files' = [files EXCEPT ![fd] = dev]
    /\ pages' = [p \in PageSet |-> IF p \in Span(base, n) THEN dev ELSE pages[p]]
    /\ mgr' = [mgr EXCEPT ![m] = [is |-> TRUE, fd |-> fd, base |-> base, size |-> n, dev |-> dev]]
    /\ acc' = [acc EXCEPT ![a] = m]

OpensNothing(a) == acc' = [acc EXCEPT ![a] = Null] /\ UNCHANGED <<mgr, files, pages>>

\* Open succeeds on free entries or changes nothing but its accessor.
LEMMA OpenDoes ==
  ASSUME NEW a \in Acc, NEW dev, NEW n, Open(a, dev, n)
  PROVE  OpensNothing(a) \/ Opens(a, dev, n)
<1>1. CASE OpensNothing(a)
  BY <1>1
<1>2. CASE \E fd \in OpenResults \ {NoFd}, base \in MmapResults(dev, n) \ {MapFailed}, m \in Mgr :
       /\ ~mgr[m].is
       /\ files' = Opened(files, fd, dev)
       /\ pages' = Mapped(pages, base, n, dev)
       /\ mgr' = [mgr EXCEPT ![m] = [is |-> TRUE, fd |-> fd, base |-> base, size |-> n, dev |-> dev]]
       /\ acc' = [acc EXCEPT ![a] = m]
  <2>1. PICK fd \in OpenResults \ {NoFd}, base \in MmapResults(dev, n) \ {MapFailed}, m \in Mgr :
       /\ ~mgr[m].is
       /\ files' = Opened(files, fd, dev)
       /\ pages' = Mapped(pages, base, n, dev)
       /\ mgr' = [mgr EXCEPT ![m] = [is |-> TRUE, fd |-> fd, base |-> base, size |-> n, dev |-> dev]]
       /\ acc' = [acc EXCEPT ![a] = m]
    BY <1>2
  <2>2. fd \in FdSet /\ files[fd] = Free
    BY OpenGives
  <2>3. base \in PageSet /\ \A p \in Span(base, n) : pages[p] = Free
    BY MmapGives
  <2>4. /\ files' = [files EXCEPT ![fd] = dev]
        /\ pages' = [p \in PageSet |-> IF p \in Span(base, n) THEN dev ELSE pages[p]]
    BY <2>1, <2>2 DEF Opened, Mapped
  <2> QED
    BY <2>1, <2>2, <2>3, <2>4 DEF Opens
<1> QED
  BY <1>1, <1>2 DEF Open, OpensNothing

\* A constructor opens a device that its search has found, or nothing.
OpensByName(a) ==
  \/ OpensNothing(a)
  \/ \E id \in DOMAIN uio : /\ \A k \in 0 .. id - 1 : k \in DOMAIN uio /\ uio[k].name # uio[id].name
                            /\ Opens(a, UioDev(id), UioSize)
  \/ \E x \in DOMAIN Buffers : Opens(a, BufDev(x), Buffers[x])

\* Both constructors do that.
LEMMA ConstructorDoes ==
  ASSUME NEW a \in Acc, NEW name \in Name, UioAccessor(a, name) \/ UdmabufAccessor(a, name)
  PROVE  acc[a] = Gone /\ uio' = uio /\ OpensByName(a)
<1>1. CASE UioAccessor(a, name)
  <2>1. CASE \E id \in SearchDeviceId(name) : Open(a, UioDev(id), UioSize)
    <3>1. PICK id \in SearchDeviceId(name) : Open(a, UioDev(id), UioSize)
      BY <2>1
    <3>2. id \in DOMAIN uio /\ \A k \in 0 .. id - 1 : k \in DOMAIN uio /\ uio[k].name # uio[id].name
      BY DEF SearchDeviceId
    <3>3. OpensNothing(a) \/ Opens(a, UioDev(id), UioSize)
      BY <3>1, OpenDoes
    <3> QED
      BY <1>1, <3>2, <3>3 DEF OpensByName, UioAccessor
  <2> QED
    BY <1>1, <2>1 DEF OpensByName, OpensNothing, UioAccessor
<1>2. CASE UdmabufAccessor(a, name)
  <2>1. CASE name \in DOMAIN Buffers /\ Buffers[name] > 0
    <3>1. OpensNothing(a) \/ Opens(a, BufDev(name), Buffers[name])
      BY <1>2, <2>1, OpenDoes DEF UdmabufAccessor
    <3> QED
      BY <1>2, <2>1, <3>1 DEF OpensByName, UdmabufAccessor
  <2> QED
    BY <1>2, <2>1 DEF OpensByName, OpensNothing, UdmabufAccessor
<1> QED
  BY <1>1, <1>2

\* The accessors' calls keep the types.
LEMMA CAccessorTypes == ASSUME TypeOK, Accessors PROVE TypeOK'
<1> USE TypeParts
<1>1. info' = info /\ inst' = inst /\ held' = held
  BY DEF Accessors, driverVars
<1>2. ASSUME NEW a \in Acc, NEW dev \in Devices, NEW n \in Nat, Opens(a, dev, n), uio' = uio PROVE TypeOK'
  <2>1. PICK fd \in FdSet, base \in PageSet, m \in Mgr :
          /\ ~mgr[m].is /\ files[fd] = Free /\ \A p \in Span(base, n) : pages[p] = Free
          /\ files' = [files EXCEPT ![fd] = dev]
          /\ pages' = [p \in PageSet |-> IF p \in Span(base, n) THEN dev ELSE pages[p]]
          /\ mgr' = [mgr EXCEPT ![m] = [is |-> TRUE, fd |-> fd, base |-> base, size |-> n, dev |-> dev]]
          /\ acc' = [acc EXCEPT ![a] = m]
    BY <1>2, Zenon DEF Opens
  <2>2. files' \in [FdSet -> Devices \cup {Free}] /\ pages' \in [PageSet -> Devices \cup {Free}]
    BY <2>1
  <2>3. mgr' \in [Mgr -> MgrType]
    <3>1. [is |-> TRUE, fd |-> fd, base |-> base, size |-> n, dev |-> dev] \in OpenMgr
      BY DEF OpenMgr
    <3> QED
      BY <2>1, <3>1 DEF MgrType
  <2>4. acc' \in [Acc -> Mgr \cup {Gone, Null}]
    BY <2>1
  <2> QED
    BY <1>1, <1>2, <2>2, <2>3, <2>4 DEF TypeOK, MgrType, OpenMgr
<1>3. ASSUME NEW a \in Acc, NEW name \in Name, UioAccessor(a, name) \/ UdmabufAccessor(a, name) PROVE TypeOK'
  <2>1. uio' = uio /\ OpensByName(a)
    BY <1>3, ConstructorDoes
  <2>2. CASE OpensNothing(a)
    BY <1>1, <2>1, <2>2 DEF OpensNothing, TypeOK
  <2>3. CASE \E id \in DOMAIN uio : Opens(a, UioDev(id), UioSize)
    BY <1>2, <2>1, <2>3, FoundIsThere, AccessorAssumption
  <2>4. CASE \E x \in DOMAIN Buffers : Opens(a, BufDev(x), Buffers[x])
    BY <1>2, <2>1, <2>4, BufferIsThere
  <2> QED
    BY <2>1, <2>2, <2>3, <2>4 DEF OpensByName
<1>4. ASSUME NEW a \in Acc, NEW b \in Acc, GetAccessor(a, b) PROVE TypeOK'
  <2>1. acc' \in [Acc -> Mgr \cup {Gone, Null}] /\ UNCHANGED <<uio, files, pages, mgr>>
    BY <1>4 DEF GetAccessor
  <2> QED
    BY <1>1, <2>1 DEF TypeOK
<1>5. ASSUME NEW a \in Acc, Destroy(a) PROVE TypeOK'
  <2>1. acc' \in [Acc -> Mgr \cup {Gone, Null}] /\ uio' = uio
    BY <1>5 DEF Destroy
  <2>2. CASE LastHolder(a)
    <3>1. /\ files' = Closed(files, mgr[acc[a]].fd)
          /\ pages' = Unmapped(pages, mgr[acc[a]].base, mgr[acc[a]].size)
          /\ mgr' = [mgr EXCEPT ![acc[a]] = NoMgr]
      BY <1>5, <2>2 DEF Destroy
    <3>2. files' \in [FdSet -> Devices \cup {Free}] /\ pages' \in [PageSet -> Devices \cup {Free}]
      BY <3>1, TableTypes
    <3>3. mgr' \in [Mgr -> MgrType]
      BY <3>1 DEF MgrType
    <3> QED
      BY <1>1, <2>1, <3>2, <3>3 DEF TypeOK, MgrType, OpenMgr
  <2>3. CASE ~LastHolder(a)
    BY <1>1, <1>5, <2>1, <2>3 DEF Destroy, TypeOK
  <2> QED
    BY <2>2, <2>3
<1> QED
  BY <1>3, <1>4, <1>5 DEF Accessors

\* The tables, the driver's record and the accessors keep their types, whatever
\* devices there are and however many objects use them.
THEOREM ClientTypes == Spec => []TypeOK
<1>1. TypeOK /\ [Next]_vars => TypeOK'
  <2>1. ASSUME TypeOK, UNCHANGED vars PROVE TypeOK'
    BY <2>1 DEF vars, driverVars, accessorVars, TypeOK
  <2> QED
    BY <2>1, CDriverTypes, CAccessorTypes DEF Next
<1> QED
  BY <1>1, CInitTypes, PTL DEF Spec

-----------------------------------------------------------------------------
(* The accounts of the two tables *)

\* Descriptor, pages and device of each object, as functions.
Objects == Inst \cup Mgr
Fds == [o \in Objects |-> FdOf(o)]
Spans == [o \in Objects |-> SpanOf(o)]
Devs == [o \in Objects |-> DevOf(o)]

\* What they are for an instance and for a manager.
LEMMA Values ==
  /\ \A x \in Inst : /\ Fds[x] = info.fd /\ Devs[x] = UioDev(info.num)
                     /\ Spans[x] = IF inst[x].base = MapFailed THEN {} ELSE Span(inst[x].base, info.size)
  /\ \A m \in Mgr : Fds[m] = mgr[m].fd /\ Devs[m] = mgr[m].dev /\ Spans[m] = Span(mgr[m].base, mgr[m].size)
<1>1. Inst \subseteq Objects /\ Mgr \subseteq Objects /\ \A m \in Mgr : m \notin Inst
  BY ClientAssumption DEF Objects
<1>2. \A x \in Inst : FdOf(x) = info.fd /\ DevOf(x) = UioDev(info.num)
  BY DEF FdOf, DevOf
<1>3. \A x \in Inst : SpanOf(x) = IF inst[x].base = MapFailed THEN {} ELSE Span(inst[x].base, info.size)
  BY DEF SpanOf
<1>4. \A m \in Mgr : FdOf(m) = mgr[m].fd /\ DevOf(m) = mgr[m].dev /\ SpanOf(m) = Span(mgr[m].base, mgr[m].size)
  BY <1>1 DEF FdOf, DevOf, SpanOf
<1> QED
  BY <1>1, <1>2, <1>3, <1>4 DEF Fds, Devs, Spans

\* The same after a step.
LEMMA ValuesNext ==
  /\ \A x \in Inst : /\ Fds'[x] = info'.fd /\ Devs'[x] = UioDev(info'.num)
                     /\ Spans'[x] = IF inst'[x].base = MapFailed THEN {} ELSE Span(inst'[x].base, info'.size)
  /\ \A m \in Mgr : Fds'[m] = mgr'[m].fd /\ Devs'[m] = mgr'[m].dev /\ Spans'[m] = Span(mgr'[m].base, mgr'[m].size)
<1>1. Inst \subseteq Objects /\ Mgr \subseteq Objects /\ \A m \in Mgr : m \notin Inst
  BY ClientAssumption DEF Objects
<1>2. \A x \in Inst : FdOf(x)' = info'.fd /\ DevOf(x)' = UioDev(info'.num)
  BY DEF FdOf, DevOf
<1>3. \A x \in Inst : SpanOf(x)' = IF inst'[x].base = MapFailed THEN {} ELSE Span(inst'[x].base, info'.size)
  BY DEF SpanOf
<1>4. \A m \in Mgr : FdOf(m)' = mgr'[m].fd /\ DevOf(m)' = mgr'[m].dev /\ SpanOf(m)' = Span(mgr'[m].base, mgr'[m].size)
  BY <1>1 DEF FdOf, DevOf, SpanOf
<1> QED
  BY <1>1, <1>2, <1>3, <1>4 DEF Fds, Devs, Spans

Same(o) == Fds'[o] = Fds[o] /\ Spans'[o] = Spans[o] /\ Devs'[o] = Devs[o]

\* Accounted, in these terms, with what makes it inductive: an owner has a
\* descriptor, and its device is not a free entry.
Acct ==
  /\ \A o \in Owners : Fds[o] \in FdSet /\ Spans[o] \subseteq PageSet /\ Devs[o] # Free
  /\ \A f \in FdSet : files[f] # Free => \E o \in Owners : Fds[o] = f
  /\ \A p \in PageSet : pages[p] # Free => \E o \in Owners : p \in Spans[o]
  /\ \A o \in Owners : files[Fds[o]] = Devs[o] /\ \A p \in Spans[o] : pages[p] = Devs[o]
  /\ \A o, other \in Owners : o # other => /\ Fds[o] # Fds[other]
                                           /\ Spans[o] \cap Spans[other] = {}

\* Owners are objects.
LEMMA OwnersAreObjects == Owners \subseteq Objects /\ Held \cap InUse = {}
  BY ClientAssumption DEF Owners, Held, InUse, Objects

\* The accounts are the ones of the run.
LEMMA AcctIsAccounted == Acct => Accounted
<1>1. \A o \in Owners : Fds[o] = FdOf(o) /\ Spans[o] = SpanOf(o) /\ Devs[o] = DevOf(o)
  BY OwnersAreObjects DEF Fds, Spans, Devs
<1> QED
  BY <1>1 DEF Acct, Accounted

\* A step that changes neither table nor owner keeps the accounts.
LEMMA AcctKept ==
  ASSUME Acct, UNCHANGED <<files, pages>>, Owners' = Owners, \A o \in Owners : Same(o)
  PROVE  Acct'
  BY DEF Acct, Same

\* A new owner gets a free descriptor and free pages.
LEMMA AcctAdded ==
  ASSUME TypeOK, Acct, \A o \in Owners : Same(o),
         NEW o, o \notin Owners, Owners' = Owners \cup {o},
         Fds'[o] \in FdSet, files[Fds'[o]] = Free,
         Spans'[o] \subseteq PageSet, \A p \in Spans'[o] : pages[p] = Free,
         Devs'[o] # Free,
         files' = [files EXCEPT ![Fds'[o]] = Devs'[o]],
         pages' = [p \in PageSet |-> IF p \in Spans'[o] THEN Devs'[o] ELSE pages[p]]
  PROVE  Acct'
<1>1. /\ \A x \in Owners : /\ Fds'[x] = Fds[x] /\ Spans'[x] = Spans[x] /\ Devs'[x] = Devs[x]
                           /\ Fds[x] # Fds'[o] /\ Spans[x] \cap Spans'[o] = {}
                           /\ Fds[x] \in FdSet /\ Spans[x] \subseteq PageSet
  BY DEF Acct, Same
<1>2. /\ files'[Fds'[o]] = Devs'[o] /\ \A f \in FdSet : f # Fds'[o] => files'[f] = files[f]
      /\ \A p \in Spans'[o] : pages'[p] = Devs'[o]
      /\ \A p \in PageSet : p \notin Spans'[o] => pages'[p] = pages[p]
  BY DEF TypeOK
<1>3. \A x \in Owners' : Fds'[x] \in FdSet /\ Spans'[x] \subseteq PageSet /\ Devs'[x] # Free
  BY <1>1 DEF Acct
<1>4. \A f \in FdSet : files'[f] # Free => \E x \in Owners' : Fds'[x] = f
  BY <1>1, <1>2 DEF Acct
<1>5. \A p \in PageSet : pages'[p] # Free => \E x \in Owners' : p \in Spans'[x]
  BY <1>1, <1>2 DEF Acct
<1>6. \A x \in Owners' : files'[Fds'[x]] = Devs'[x] /\ \A p \in Spans'[x] : pages'[p] = Devs'[x]
  BY <1>1, <1>2 DEF Acct
<1>7. \A x, y \in Owners' : x # y => Fds'[x] # Fds'[y] /\ Spans'[x] \cap Spans'[y] = {}
  BY <1>1 DEF Acct
<1> QED
  BY <1>3, <1>4, <1>5, <1>6, <1>7 DEF Acct

\* An owner that lets go gives its descriptor and its pages back, and only those.
LEMMA AcctRemoved ==
  ASSUME TypeOK, Acct, NEW o \in Owners, Owners' = Owners \ {o},
         \A x \in Owners \ {o} : Same(x),
         files' = [files EXCEPT ![Fds[o]] = Free],
         pages' = [p \in PageSet |-> IF p \in Spans[o] THEN Free ELSE pages[p]]
  PROVE  Acct'
<1>1. \A x \in Owners \ {o} : /\ Fds'[x] = Fds[x] /\ Spans'[x] = Spans[x] /\ Devs'[x] = Devs[x]
                              /\ Fds[x] # Fds[o] /\ Spans[x] \cap Spans[o] = {}
                              /\ Fds[x] \in FdSet /\ Spans[x] \subseteq PageSet /\ Devs[x] # Free
  BY DEF Acct, Same
<1>2. /\ files'[Fds[o]] = Free /\ \A f \in FdSet : f # Fds[o] => files'[f] = files[f]
      /\ \A p \in Spans[o] : pages'[p] = Free
      /\ \A p \in PageSet : p \notin Spans[o] => pages'[p] = pages[p]
  BY DEF TypeOK, Acct
<1>3. \A f \in FdSet : files'[f] # Free => \E x \in Owners' : Fds'[x] = f
  <2> SUFFICES ASSUME NEW f \in FdSet, files'[f] # Free PROVE \E x \in Owners' : Fds'[x] = f
    OBVIOUS
  <2>1. f # Fds[o] /\ files[f] # Free
    BY <1>2
  <2>2. PICK x \in Owners : Fds[x] = f
    BY <2>1 DEF Acct
  <2> QED
    BY <1>1, <2>1, <2>2
<1>4. \A p \in PageSet : pages'[p] # Free => \E x \in Owners' : p \in Spans'[x]
  <2> SUFFICES ASSUME NEW p \in PageSet, pages'[p] # Free PROVE \E x \in Owners' : p \in Spans'[x]
    OBVIOUS
  <2>1. p \notin Spans[o] /\ pages[p] # Free
    BY <1>2
  <2>2. PICK x \in Owners : p \in Spans[x]
    BY <2>1 DEF Acct
  <2> QED
    BY <1>1, <2>1, <2>2
<1>5. \A x \in Owners' : files'[Fds'[x]] = Devs'[x] /\ \A p \in Spans'[x] : pages'[p] = Devs'[x]
  BY <1>1, <1>2 DEF Acct
<1>6. \A x, y \in Owners' : x # y => Fds'[x] # Fds'[y] /\ Spans'[x] \cap Spans'[y] = {}
  BY <1>1 DEF Acct
<1> QED
  BY <1>1, <1>3, <1>4, <1>5, <1>6 DEF Acct

-----------------------------------------------------------------------------
(* Lifetimes: who is in use, and which device each search has found *)

Life ==
  /\ \A m \in Mgr : mgr[m].is <=> m \in InUse
  /\ \A x, y \in Held : x = y
  /\ \A x \in Held : inst[x].ready /\ info.fd \in FdSet /\ info.num \in FirstNamed(held[x].name)
  /\ \A m \in InUse, id \in DOMAIN uio : mgr[m].dev = UioDev(id) =>
       \A k \in 0 .. id - 1 : k \in DOMAIN uio /\ uio[k].name # uio[id].name

\* The invariant that every step keeps.
IInv == TypeOK /\ Acct /\ Life

\* It is all that the run's invariant says.
LEMMA IInvIsEnough == IInv => ClientInv
  BY AcctIsAccounted DEF IInv, Life, ClientInv

\* Nothing is open when the program starts.
LEMMA CInit == Init => IInv
<1> SUFFICES ASSUME Init PROVE IInv
  OBVIOUS
<1>1. TypeOK
  BY CInitTypes
<1>2. Held = {} /\ InUse = {}
  BY AccessorAssumption DEF Init, DriverInit, AccessorInit, Held, InUse, NotHeld
<1>3. \A m \in Mgr : ~mgr[m].is
  BY DEF Init, AccessorInit, NoMgr
<1>4. Acct
  BY <1>2 DEF Acct, Owners, Init, TablesInit
<1>5. Life
  BY <1>2, <1>3 DEF Life
<1> QED
  BY <1>1, <1>4, <1>5 DEF IInv

\* A step of the driver leaves the accessors alone, and their devices.
LEMMA ManagersStay ==
  ASSUME Life, UNCHANGED <<uio, accessorVars>>
  PROVE  /\ InUse' = InUse /\ \A m \in Mgr : Same(m)
         /\ \A m \in Mgr : mgr'[m].is <=> m \in InUse'
         /\ \A m \in InUse', id \in DOMAIN uio' : mgr'[m].dev = UioDev(id) =>
              \A k \in 0 .. id - 1 : k \in DOMAIN uio' /\ uio'[k].name # uio'[id].name
<1>1. mgr' = mgr /\ acc' = acc /\ uio' = uio
  BY DEF accessorVars
<1>2. InUse' = InUse
  BY <1>1 DEF InUse
<1>3. \A m \in Mgr : Same(m)
  BY <1>1, Values, ValuesNext DEF Same
<1> QED
  BY <1>1, <1>2, <1>3 DEF Life

\* A step of the accessors leaves the instances alone, and theirs.
LEMMA InstancesStay ==
  ASSUME Life, UNCHANGED <<uio, driverVars>>
  PROVE  /\ Held' = Held /\ \A x \in Inst : Same(x)
         /\ \A x, y \in Held' : x = y
         /\ \A x \in Held' : inst'[x].ready /\ info'.fd \in FdSet /\ info'.num \in FirstNamed(held[x].name)'
<1>1. info' = info /\ inst' = inst /\ held' = held /\ uio' = uio
  BY DEF driverVars
<1>2. Held' = Held
  BY <1>1 DEF Held
<1>3. \A x \in Inst : Same(x)
  BY <1>1, Values, ValuesNext DEF Same
<1> QED
  BY <1>1, <1>2, <1>3 DEF Life, FirstNamed

\* XRiscv_Initialize fails to open what it found.
LEMMA COpenFailed ==
  ASSUME IInv, Idle, NEW name \in Name, OpenDeviceFailed(name), UNCHANGED accessorVars
  PROVE  Acct' /\ Life'
<1>1. UNCHANGED <<uio, files, pages, inst, held, accessorVars>>
  BY DEF OpenDeviceFailed
<1>2. Held = {} /\ Held' = {}
  BY <1>1 DEF Idle, Held
<1>3. Owners' = Owners /\ Owners \subseteq Mgr
  BY <1>1, <1>2, ManagersStay DEF Owners, InUse, IInv
<1>4. Acct'
  BY <1>1, <1>3, ManagersStay, AcctKept DEF IInv
<1>5. Life'
  BY <1>1, <1>2, ManagersStay DEF Life, IInv
<1> QED
  BY <1>4, <1>5

\* XRiscv_Initialize succeeds, whether mmap has or not.
LEMMA CInitialize ==
  ASSUME IInv, Idle, NEW x \in Inst, NEW name \in Name, XRiscv_Initialize(x, name), UNCHANGED accessorVars
  PROVE  Acct' /\ Life'
<1>1. PICK id \in FirstNamed(name), fd \in OpenResults \ {NoFd} :
        \E base \in MmapResults(UioDev(id), MapSize(id)) :
          /\ info' = [num |-> id, fd |-> fd, size |-> MapSize(id)]
          /\ files' = Opened(files, fd, UioDev(id))
          /\ pages' = Mapped(pages, base, MapSize(id), UioDev(id))
          /\ inst' = [inst EXCEPT ![x] = [base |-> base, ready |-> TRUE]]
          /\ held' = [held EXCEPT ![x] = [is |-> TRUE, name |-> name]]
          /\ uio' = uio
  BY DEF XRiscv_Initialize
<1>2. PICK base \in MmapResults(UioDev(id), MapSize(id)) :
          /\ info' = [num |-> id, fd |-> fd, size |-> MapSize(id)]
          /\ files' = Opened(files, fd, UioDev(id))
          /\ pages' = Mapped(pages, base, MapSize(id), UioDev(id))
          /\ inst' = [inst EXCEPT ![x] = [base |-> base, ready |-> TRUE]]
          /\ held' = [held EXCEPT ![x] = [is |-> TRUE, name |-> name]]
          /\ uio' = uio
  BY <1>1
<1>3. /\ fd \in FdSet /\ files[fd] = Free
      /\ base # MapFailed => \A p \in Span(base, MapSize(id)) : pages[p] = Free
  BY OpenGives, MmapGives
<1>4. Held = {} /\ Held' = {x}
  BY <1>2, TypeParts DEF Idle, Held, NotHeld, IInv
<1>5. Owners' = Owners \cup {x} /\ x \notin Owners /\ Owners \subseteq Mgr
  BY <1>2, <1>4, ManagersStay, ClientAssumption DEF Owners, InUse, IInv
<1>6. inst'[x] = [base |-> base, ready |-> TRUE] /\ held'[x].name = name
  BY <1>2, TypeParts DEF IInv
<1>7. /\ Fds'[x] = fd /\ Devs'[x] = UioDev(id)
      /\ Spans'[x] = IF base = MapFailed THEN {} ELSE Span(base, MapSize(id))
  BY <1>2, <1>6, ValuesNext
<1>8. Acct'
  <2>1. /\ files' = [files EXCEPT ![Fds'[x]] = Devs'[x]]
        /\ Devs'[x] # Free /\ Spans'[x] \subseteq PageSet
        /\ \A p \in Spans'[x] : pages[p] = Free
    BY <1>2, <1>3, <1>7, FoundIsThere, DevicesAreNotFree DEF Opened, FirstNamed, IInv, Span
  <2>2. pages' = [p \in PageSet |-> IF p \in Spans'[x] THEN Devs'[x] ELSE pages[p]]
    <3>1. CASE base = MapFailed
      <4>1. Spans'[x] = {} /\ pages' = pages
        BY <1>2, <1>7, <3>1 DEF Mapped
      <4>2. pages = [p \in PageSet |-> pages[p]]
        BY DEF IInv, TypeOK
      <4> QED
        BY <4>1, <4>2
    <3>2. CASE base # MapFailed
      BY <1>2, <1>7, <3>2 DEF Mapped
    <3> QED
      BY <3>1, <3>2
  <2>3. \A o \in Owners : Same(o)
    BY <1>2, <1>5, ManagersStay DEF IInv
  <2>4. Fds'[x] \in FdSet /\ files[Fds'[x]] = Free
    BY <1>3, <1>7
  <2> QED
    BY <1>5, <2>1, <2>2, <2>3, <2>4, AcctAdded DEF IInv
<1>9. Life'
  <2>1. info'.fd \in FdSet /\ info'.num \in FirstNamed(name)' /\ inst'[x].ready
    BY <1>2, <1>3, <1>6 DEF FirstNamed
  <2> QED
    BY <1>2, <1>4, <1>6, <2>1, ManagersStay DEF Life, IInv
<1> QED
  BY <1>8, <1>9

\* XRiscv_Release of the instance in use.
LEMMA CRelease ==
  ASSUME IInv, NEW x \in Inst, XRiscv_Release(x), UNCHANGED accessorVars
  PROVE  Acct' /\ Life'
<1>1. /\ held[x].is /\ pages' = Unmapped(pages, inst[x].base, info.size)
      /\ files' = Closed(files, info.fd)
      /\ held' = [held EXCEPT ![x] = NotHeld] /\ UNCHANGED <<uio, info, inst>>
  BY DEF XRiscv_Release
<1>2. Held = {x} /\ Held' = {}
  BY <1>1, TypeParts DEF Held, NotHeld, IInv, Life
<1>3. Owners' = Owners \ {x} /\ x \in Owners /\ Owners \ {x} \subseteq Mgr
  BY <1>1, <1>2, ManagersStay, ClientAssumption DEF Owners, InUse, IInv
<1>4. files' = [files EXCEPT ![Fds[x]] = Free]
  BY <1>1, <1>2, Values DEF Closed, IInv, Life
<1>5. pages' = [p \in PageSet |-> IF p \in Spans[x] THEN Free ELSE pages[p]]
  <2>1. CASE inst[x].base = MapFailed
    <3>1. Spans[x] = {} /\ pages' = pages
      BY <1>1, <2>1, Values DEF Unmapped, Mapped
    <3>2. pages = [p \in PageSet |-> pages[p]]
      BY DEF IInv, TypeOK
    <3> QED
      BY <3>1, <3>2
  <2>2. CASE inst[x].base # MapFailed
    BY <1>1, <2>2, Values DEF Unmapped, Mapped
  <2> QED
    BY <2>1, <2>2
<1>6. Acct'
  <2>1. \A o \in Owners \ {x} : Same(o)
    BY <1>1, <1>3, ManagersStay DEF IInv
  <2> QED
    BY <1>3, <1>4, <1>5, <2>1, AcctRemoved DEF IInv
<1>7. Life'
  BY <1>1, <1>2, ManagersStay DEF Life, IInv
<1> QED
  BY <1>6, <1>7

\* A constructor has opened a device that its search finds.
LEMMA COpens ==
  ASSUME IInv, NEW a \in Acc, NEW dev \in Devices, NEW n, Opens(a, dev, n), acc[a] = Gone,
         UNCHANGED <<uio, driverVars>>,
         \A id \in DOMAIN uio : dev = UioDev(id) =>
           \A k \in 0 .. id - 1 : k \in DOMAIN uio /\ uio[k].name # uio[id].name
  PROVE  Acct' /\ Life'
<1>1. PICK fd \in FdSet, base \in PageSet, m \in Mgr :
        /\ ~mgr[m].is /\ files[fd] = Free /\ \A p \in Span(base, n) : pages[p] = Free
        /\ files' = [files EXCEPT ![fd] = dev]
        /\ pages' = [p \in PageSet |-> IF p \in Span(base, n) THEN dev ELSE pages[p]]
        /\ mgr' = [mgr EXCEPT ![m] = [is |-> TRUE, fd |-> fd, base |-> base, size |-> n, dev |-> dev]]
        /\ acc' = [acc EXCEPT ![a] = m]
  BY Zenon DEF Opens
<1>2. m \notin InUse /\ InUse' = InUse \cup {m}
  <2>1. m \notin InUse
    BY <1>1 DEF Life, IInv
  <2>2. acc'[a] = m /\ acc[a] \notin Mgr /\ \A b \in Acc \ {a} : acc'[b] = acc[b]
    BY <1>1, TypeParts, AccessorAssumption DEF IInv
  <2> QED
    BY <2>1, <2>2 DEF InUse
<1>3. Owners' = Owners \cup {m} /\ m \notin Owners
  BY <1>2, InstancesStay, ClientAssumption DEF Owners, Held, IInv
<1>4. /\ mgr'[m] = [is |-> TRUE, fd |-> fd, base |-> base, size |-> n, dev |-> dev]
      /\ \A o \in Mgr \ {m} : mgr'[o] = mgr[o]
  BY <1>1, TypeParts DEF IInv
<1>5. Fds'[m] = fd /\ Devs'[m] = dev /\ Spans'[m] = Span(base, n)
  BY <1>4, ValuesNext
<1>6. \A o \in Owners : Same(o)
  <2>1. \A o \in Mgr \ {m} : Same(o)
    BY <1>4, Values, ValuesNext DEF Same
  <2>2. \A o \in Held : Same(o)
    BY InstancesStay DEF Held, IInv
  <2> QED
    BY <1>2, <2>1, <2>2 DEF Owners, InUse
<1>7. Acct'
  <2>1. Spans'[m] \subseteq PageSet /\ Devs'[m] # Free
    BY <1>5, DevicesAreNotFree DEF Span
  <2>2. files' = [files EXCEPT ![Fds'[m]] = Devs'[m]] /\ Fds'[m] \in FdSet /\ files[Fds'[m]] = Free
    BY <1>1, <1>5
  <2>3. /\ pages' = [p \in PageSet |-> IF p \in Spans'[m] THEN Devs'[m] ELSE pages[p]]
        /\ \A p \in Spans'[m] : pages[p] = Free
    BY <1>1, <1>5
  <2> QED
    BY <1>3, <1>6, <2>1, <2>2, <2>3, AcctAdded DEF IInv
<1>8. Life'
  <2>1. \A o \in Mgr : mgr'[o].is <=> o \in InUse'
    BY <1>2, <1>4 DEF Life, IInv
  <2>2. \A o \in InUse', id \in DOMAIN uio' : mgr'[o].dev = UioDev(id) =>
          \A k \in 0 .. id - 1 : k \in DOMAIN uio' /\ uio'[k].name # uio'[id].name
    <3>1. CASE \A o \in InUse : o \in Mgr \ {m} /\ mgr'[o] = mgr[o]
      BY <1>2, <1>4, <3>1 DEF Life, IInv
    <3> QED
      BY <1>2, <1>4, <3>1 DEF InUse
  <2> QED
    BY <2>1, <2>2, InstancesStay DEF Life, IInv
<1> QED
  BY <1>7, <1>8

\* A step of an accessor that leaves managers and tables alone, and whose
\* manager, if it gets or gives up one, is in use before and after.
LEMMA CShares ==
  ASSUME IInv, InUse' = InUse, UNCHANGED <<uio, files, pages, mgr, driverVars>>
  PROVE  Acct' /\ Life'
<1>1. Owners' = Owners
  BY InstancesStay DEF Owners, IInv
<1>2. \A o \in Owners : Same(o)
  <2>1. \A o \in Mgr : Same(o)
    BY Values, ValuesNext DEF Same
  <2> QED
    BY <2>1, InstancesStay DEF Owners, Held, InUse, IInv
<1>3. Acct'
  BY <1>1, <1>2, AcctKept DEF IInv
<1>4. Life'
  BY InstancesStay DEF Life, IInv
<1> QED
  BY <1>3, <1>4

\* The destructor of the last accessor of a manager.
LEMMA CDestroyLast ==
  ASSUME IInv, NEW a \in Acc, Destroy(a), LastHolder(a), UNCHANGED driverVars
  PROVE  Acct' /\ Life'
<1> DEFINE m == acc[a]
<1>1. /\ m \in Mgr /\ \A b \in Acc \ {a} : acc[b] # m
      /\ acc' = [acc EXCEPT ![a] = Gone] /\ uio' = uio
      /\ files' = Closed(files, mgr[m].fd)
      /\ pages' = Unmapped(pages, mgr[m].base, mgr[m].size)
      /\ mgr' = [mgr EXCEPT ![m] = NoMgr]
  BY DEF Destroy, LastHolder
<1>2. m \in InUse /\ InUse' = InUse \ {m}
  <2>1. acc'[a] \notin Mgr /\ \A b \in Acc \ {a} : acc'[b] = acc[b]
    BY <1>1, TypeParts, AccessorAssumption DEF IInv
  <2> QED
    BY <1>1, <2>1 DEF InUse
<1>3. Owners' = Owners \ {m} /\ m \in Owners
  BY <1>1, <1>2, InstancesStay, ClientAssumption DEF Owners, Held, IInv
<1>4. mgr[m] \in OpenMgr
  BY <1>1, <1>2, TypeParts DEF Life, IInv, MgrType, NoMgr
<1>5. Fds[m] = mgr[m].fd /\ Spans[m] = Span(mgr[m].base, mgr[m].size)
  BY <1>1, Values
<1>6. mgr'[m] = NoMgr /\ \A o \in Mgr \ {m} : mgr'[o] = mgr[o]
  BY <1>1, TypeParts DEF IInv
<1>7. Acct'
  <2>1. files' = [files EXCEPT ![Fds[m]] = Free]
    BY <1>1, <1>4, <1>5 DEF Closed, OpenMgr
  <2>2. mgr[m].base # MapFailed
    <3>1. mgr[m].base \in PageSet
      BY <1>4 DEF OpenMgr
    <3> QED
      BY <3>1 DEF MapFailed, PageSet
  <2>3. pages' = [p \in PageSet |-> IF p \in Spans[m] THEN Free ELSE pages[p]]
    BY <1>1, <1>5, <2>2 DEF Unmapped, Mapped
  <2>4. \A o \in Owners \ {m} : Same(o)
    <3>1. \A o \in Mgr \ {m} : Same(o)
      BY <1>6, Values, ValuesNext DEF Same
    <3> QED
      BY <1>1, <3>1, InstancesStay DEF Owners, Held, InUse, IInv
  <2> QED
    BY <1>3, <2>1, <2>3, <2>4, AcctRemoved DEF IInv
<1>8. Life'
  <2>1. \A o \in Mgr : mgr'[o].is <=> o \in InUse'
    BY <1>2, <1>6 DEF Life, IInv, NoMgr
  <2>2. \A o \in InUse' : o \in InUse /\ mgr'[o] = mgr[o]
    BY <1>2, <1>6 DEF InUse
  <2>3. \A o \in InUse', id \in DOMAIN uio' : mgr'[o].dev = UioDev(id) =>
          \A k \in 0 .. id - 1 : k \in DOMAIN uio' /\ uio'[k].name # uio'[id].name
    BY <1>1, <2>2 DEF Life, IInv
  <2> QED
    BY <1>1, <2>1, <2>3, InstancesStay DEF Life, IInv
<1> QED
  BY <1>7, <1>8

\* The other steps of the accessors.
LEMMA CAccessors == ASSUME IInv, Accessors PROVE Acct' /\ Life'
<1>1. UNCHANGED driverVars
  BY DEF Accessors
<1>2. ASSUME NEW a \in Acc, acc[a] = Gone, OpensNothing(a), uio' = uio PROVE Acct' /\ Life'
  <2>1. InUse' = InUse
    BY <1>2, TypeParts, AccessorAssumption DEF OpensNothing, InUse, IInv
  <2> QED
    BY <1>1, <1>2, <2>1, CShares DEF OpensNothing
<1>3. ASSUME NEW a \in Acc, NEW name \in Name, UioAccessor(a, name) \/ UdmabufAccessor(a, name)
      PROVE  Acct' /\ Life'
  <2>1. acc[a] = Gone /\ uio' = uio /\ OpensByName(a)
    BY <1>3, ConstructorDoes
  <2>2. CASE \E id \in DOMAIN uio : /\ \A k \in 0 .. id - 1 : k \in DOMAIN uio /\ uio[k].name # uio[id].name
                                    /\ Opens(a, UioDev(id), UioSize)
    <3>1. PICK id \in DOMAIN uio : /\ \A k \in 0 .. id - 1 : k \in DOMAIN uio /\ uio[k].name # uio[id].name
                                   /\ Opens(a, UioDev(id), UioSize)
      BY <2>2
    <3>2. \A other \in DOMAIN uio : UioDev(id) = UioDev(other) => id = other
      BY DEF UioDev
    <3>3. UioDev(id) \in Devices
      BY FoundIsThere DEF IInv
    <3>4. \A other \in DOMAIN uio : UioDev(id) = UioDev(other) =>
            \A k \in 0 .. other - 1 : k \in DOMAIN uio /\ uio[k].name # uio[other].name
      BY <3>1, <3>2
    <3> QED
      BY <1>1, <2>1, <3>1, <3>3, <3>4, COpens
  <2>3. CASE \E x \in DOMAIN Buffers : Opens(a, BufDev(x), Buffers[x])
    <3>1. PICK x \in DOMAIN Buffers : Opens(a, BufDev(x), Buffers[x])
      BY <2>3
    <3>2. \A id \in DOMAIN uio : BufDev(x) # UioDev(id)
      BY DEF UioDev, BufDev
    <3>3. BufDev(x) \in Devices
      BY BufferIsThere
    <3> QED
      BY <1>1, <2>1, <3>1, <3>2, <3>3, COpens
  <2> QED
    BY <1>2, <2>1, <2>2, <2>3 DEF OpensByName
<1>4. ASSUME NEW a \in Acc, NEW b \in Acc, GetAccessor(a, b) PROVE Acct' /\ Life'
  <2>1. acc[a] \in Mgr /\ acc[b] = Gone /\ acc' = [acc EXCEPT ![b] = acc[a]]
        /\ UNCHANGED <<uio, files, pages, mgr>>
    BY <1>4 DEF GetAccessor
  <2>2. a # b /\ acc'[b] = acc[a] /\ \A c \in Acc \ {b} : acc'[c] = acc[c]
    BY <2>1, TypeParts, AccessorAssumption DEF IInv
  <2>3. InUse' = InUse
    BY <2>1, <2>2, AccessorAssumption DEF InUse
  <2> QED
    BY <1>1, <2>1, <2>3, CShares
<1>5. ASSUME NEW a \in Acc, Destroy(a) PROVE Acct' /\ Life'
  <2>1. CASE LastHolder(a)
    BY <1>1, <1>5, <2>1, CDestroyLast
  <2>2. CASE ~LastHolder(a)
    <3>1. acc' = [acc EXCEPT ![a] = Gone] /\ UNCHANGED <<uio, files, pages, mgr>>
      BY <1>5, <2>2 DEF Destroy
    <3>2. acc'[a] = Gone /\ \A c \in Acc \ {a} : acc'[c] = acc[c]
      BY <3>1, TypeParts DEF IInv
    <3>3. acc[a] \in Mgr => \E b \in Acc \ {a} : acc[b] = acc[a]
      BY <2>2 DEF LastHolder
    <3>4. InUse' = InUse
      BY <3>2, <3>3, AccessorAssumption DEF InUse
    <3> QED
      BY <1>1, <3>1, <3>4, CShares
  <2> QED
    BY <2>1, <2>2
<1> QED
  BY <1>3, <1>4, <1>5 DEF Accessors

\* Every step keeps the invariant.
LEMMA CStep == IInv /\ [Next]_vars => IInv'
<1> SUFFICES ASSUME IInv, [Next]_vars PROVE IInv'
  OBVIOUS
<1>1. CASE Driver
  <2>1. UNCHANGED accessorVars /\ TypeOK'
    BY <1>1, CDriverTypes DEF Driver, IInv
  <2>2. Acct' /\ Life'
    BY <1>1, <2>1, COpenFailed, CInitialize, CRelease DEF Driver
  <2> QED
    BY <2>1, <2>2 DEF IInv
<1>2. CASE Accessors
  BY <1>2, CAccessors, CAccessorTypes DEF IInv
<1>3. CASE UNCHANGED vars
  <2>1. UNCHANGED <<uio, files, pages, driverVars, accessorVars>>
    BY <1>3 DEF vars
  <2>2. TypeOK'
    BY <2>1 DEF TypeOK, IInv, driverVars, accessorVars
  <2>3. InUse' = InUse
    BY <2>1 DEF InUse, accessorVars
  <2>4. Acct' /\ Life'
    BY <2>1, <2>3, CShares DEF accessorVars
  <2> QED
    BY <2>2, <2>4 DEF IInv
<1> QED
  BY <1>1, <1>2, <1>3 DEF Next

\* The invariant holds in every state.
LEMMA CInvariance == Spec => []IInv
  BY CInit, CStep, PTL DEF Spec

\* A manager is there exactly while an accessor points at it, and both searches
\* have found what they say, in every state.
THEOREM ClientInvariance == Spec => []ClientInv
  BY CInvariance, IInvIsEnough, PTL

\* Every open descriptor and every mapped page belongs to exactly one owner in
\* use: no legal order of opens that succeed, fail or are shared and of releases
\* leaks one or frees another owner's (xriscv_linux.c:142-153,
\* MmapAccessor.h:64-73, UioAccessor.h:58-83).
THEOREM EverythingIsAccounted == Spec => []Accounted
<1>1. IInv => Accounted
  BY AcctIsAccounted DEF IInv
<1> QED
  BY <1>1, CInvariance, PTL

\* With fewer than ten devices, the driver and the accessors open one device
\* under one name (xriscv_linux.c:98-113, UioAccessor.h:131-157).
THEOREM SearchesAgree == Spec => []OneDevicePerName
<1>1. ASSUME IInv PROVE OneDevicePerName
  <2> SUFFICES ASSUME NEW x \in Held, NEW m \in InUse, NEW id \in DOMAIN uio,
                      DOMAIN uio \subseteq 0 .. 9, mgr[m].dev = UioDev(id), uio[id].name = held[x].name
               PROVE  info.num = id
    BY DEF OneDevicePerName
  <2> DEFINE n == info.num
  <2>1. /\ n \in DOMAIN uio /\ uio[n].name = held[x].name
        /\ \A other \in DOMAIN uio : uio[other].name = held[x].name /\ other # n => Alpha(n, other)
    BY <1>1 DEF IInv, Life, FirstNamed
  <2>2. \A k \in 0 .. id - 1 : uio[k].name # uio[id].name
    BY <1>1 DEF IInv, Life
  <2>3. n \in 0 .. 9 /\ id \in 0 .. 9
    BY <2>1
  <2>4. ~(n < id)
    BY <2>1, <2>2, <2>3
  <2>5. n # id => n < id
    BY <2>1, <2>3, AlphaAssumption
  <2> QED
    BY <2>4, <2>5
<1> QED
  BY <1>1, CInvariance, PTL

-----------------------------------------------------------------------------
(* The leases: the table of a holder's pages shows the device it got *)

\* The owner whose pages a holder reaches, if it has one.
OwnerOf(h) == IF h \in Inst THEN h ELSE acc[h]
HasOwner(h) == IF h \in Inst THEN held[h].is ELSE acc[h] \in Mgr

\* What a holder has been given.
Given == [h \in Inst \cup Acc |->
            IF HasOwner(h) /\ Spans[OwnerOf(h)] # {} THEN Devs[OwnerOf(h)] ELSE Nothing]

\* The page table shows it: every page of an owner has that owner's device.
LEMMA ReachIsGiven == IInv => Reach = Given
<1> SUFFICES ASSUME IInv PROVE Reach = Given
  OBVIOUS
<1>1. ASSUME NEW o \in Owners PROVE Behind(SpanOf(o)) = IF Spans[o] # {} THEN Devs[o] ELSE Nothing
  <2>1. Spans[o] = SpanOf(o) /\ \A p \in Spans[o] : pages[p] = Devs[o]
    BY OwnersAreObjects DEF IInv, Acct, Spans
  <2>2. CASE Spans[o] = {}
    BY <2>1, <2>2 DEF Behind
  <2>3. CASE Spans[o] # {}
    <3>1. PICK q \in Spans[o] : TRUE
      BY <2>3
    <3>2. pages[q] \in Devices
      <4>1. q \in PageSet /\ pages[q] = Devs[o] /\ Devs[o] # Free
        BY <2>1, <3>1 DEF IInv, Acct
      <4> QED
        BY <4>1 DEF IInv, TypeOK
    <3>3. Devs[o] \in Devices
      BY <2>1, <3>1, <3>2
    <3>4. \A dev \in Devices : (\A p \in Spans[o] : pages[p] = dev) <=> dev = Devs[o]
      BY <2>1, <3>1
    <3>5. (CHOOSE dev \in Devices : \A p \in Spans[o] : pages[p] = dev) = Devs[o]
      BY <3>3, <3>4
    <3> QED
      BY <2>1, <2>3, <3>3, <3>4, <3>5 DEF Behind
  <2> QED
    BY <2>2, <2>3
<1>2. ASSUME NEW h \in Inst PROVE Reach[h] = Given[h]
  <2>1. held[h].is => h \in Owners
    BY DEF Owners, Held
  <2> QED
    BY <1>1, <2>1 DEF Reach, Given, HasOwner, OwnerOf
<1>3. ASSUME NEW h \in Acc PROVE Reach[h] = Given[h]
  <2>1. h \notin Inst
    BY ClientAssumption
  <2>2. acc[h] \in Mgr => acc[h] \in Owners
    BY DEF Owners, InUse
  <2> QED
    BY <1>1, <2>1, <2>2 DEF Reach, Given, HasOwner, OwnerOf
<1> QED
  BY <1>2, <1>3 DEF Reach, Given

GivenIs == Reach = Given /\ \A h \in Inst \cup Acc : Given[h] \in Devices \cup {Nothing}

\* What a holder has been given is a device or nothing.
LEMMA GivenIsKnown == IInv => GivenIs
<1> SUFFICES ASSUME IInv PROVE GivenIs
  OBVIOUS
<1>1. ASSUME NEW o \in Owners, Spans[o] # {} PROVE Devs[o] \in Devices
  <2>1. PICK q \in Spans[o] : TRUE
    BY <1>1
  <2>2. q \in PageSet /\ pages[q] = Devs[o] /\ Devs[o] # Free
    BY <2>1 DEF IInv, Acct
  <2> QED
    BY <2>2 DEF IInv, TypeOK
<1>2. \A h \in Inst \cup Acc : HasOwner(h) => OwnerOf(h) \in Owners
  BY ClientAssumption DEF HasOwner, OwnerOf, Owners, Held, InUse
<1>3. \A h \in Inst \cup Acc : Given[h] \in Devices \cup {Nothing}
  BY <1>1, <1>2 DEF Given
<1> QED
  BY <1>3, ReachIsGiven DEF GivenIs

\* What an instance and an accessor have been given.
LEMMA GivenParts ==
  /\ \A x \in Inst : Given[x] = IF held[x].is /\ Spans[x] # {} THEN Devs[x] ELSE Nothing
  /\ \A a \in Acc : Given[a] = IF acc[a] \in Mgr /\ Spans[acc[a]] # {} THEN Devs[acc[a]] ELSE Nothing
  BY ClientAssumption DEF Given, HasOwner, OwnerOf

\* The same after a step.
LEMMA GivenPartsNext ==
  /\ \A x \in Inst : Given'[x] = IF held'[x].is /\ Spans'[x] # {} THEN Devs'[x] ELSE Nothing
  /\ \A a \in Acc : Given'[a] = IF acc'[a] \in Mgr /\ Spans'[acc'[a]] # {} THEN Devs'[acc'[a]] ELSE Nothing
<1>1. \A x \in Inst : Given'[x] = IF held'[x].is /\ Spans'[x] # {} THEN Devs'[x] ELSE Nothing
  BY DEF Given, HasOwner, OwnerOf
<1>2. \A a \in Acc : a \notin Inst
  BY ClientAssumption
<1>3. \A a \in Acc : Given'[a] = IF acc'[a] \in Mgr /\ Spans'[acc'[a]] # {} THEN Devs'[acc'[a]] ELSE Nothing
  BY <1>2 DEF Given, HasOwner, OwnerOf
<1> QED
  BY <1>1, <1>3

\* Nobody reaches anything when the program starts.
LEMMA NobodyReaches == Init /\ GivenIs => Leases!LInit
<1> SUFFICES ASSUME Init, GivenIs PROVE Leases!LInit
  OBVIOUS
<1>1. \A h \in Inst \cup Acc : ~HasOwner(h)
  BY AccessorAssumption DEF Init, DriverInit, AccessorInit, HasOwner, NotHeld
<1>2. Given = [h \in Inst \cup Acc |-> Nothing]
  BY <1>1 DEF Given
<1> QED
  BY <1>2 DEF Leases!LInit, GivenIs

\* A step that changes what at most one holder has been given, and takes from
\* nobody to give something else, is a step of the leases.
LEMMA OneHolder ==
  ASSUME GivenIs, GivenIs', NEW h \in Inst \cup Acc,
         \A g \in (Inst \cup Acc) \ {h} : Given'[g] = Given[g],
         Given'[h] = Nothing \/ Given[h] = Nothing
  PROVE  [Leases!LNext]_Reach
<1>1. Reach' = [Reach EXCEPT ![h] = Given'[h]]
  <2>1. Reach = Given /\ Reach' = Given'
    BY DEF GivenIs
  <2>2. Given' = [g \in Inst \cup Acc |-> Given'[g]] /\ Given = [g \in Inst \cup Acc |-> Given[g]]
    BY DEF Given
  <2> HIDE DEF Given
  <2> QED
    BY <2>1, <2>2
<1>2. Reach[h] = Given[h] /\ Given'[h] \in Devices \cup {Nothing}
  BY DEF GivenIs
<1>3. CASE Given'[h] = Nothing
  BY <1>1, <1>3 DEF Leases!LNext, Leases!LetGo
<1>4. CASE Given[h] = Nothing /\ Given'[h] \in Devices
  BY <1>1, <1>2, <1>4 DEF Leases!LNext, Leases!Acquire
<1> QED
  BY <1>2, <1>3, <1>4

\* A step of one accessor leaves the other holders what they have.
LEMMA OthersKeep ==
  ASSUME Life, NEW a \in Acc, UNCHANGED <<uio, driverVars>>,
         \A c \in Acc \ {a} : acc'[c] = acc[c] /\ (acc[c] \in Mgr => mgr'[acc[c]] = mgr[acc[c]])
  PROVE  \A g \in (Inst \cup Acc) \ {a} : Given'[g] = Given[g]
<1>1. ASSUME NEW x \in Inst PROVE Given'[x] = Given[x]
  <2>1. Same(x) /\ held' = held
    BY InstancesStay DEF driverVars
  <2> QED
    BY <2>1, GivenParts, GivenPartsNext DEF Same
<1>2. ASSUME NEW c \in Acc \ {a} PROVE Given'[c] = Given[c]
  <2>1. acc'[c] = acc[c] /\ (acc[c] \in Mgr => Same(acc[c]))
    BY Values, ValuesNext DEF Same
  <2> QED
    BY <2>1, GivenParts, GivenPartsNext DEF Same
<1> QED
  BY <1>1, <1>2

\* A step of one instance leaves the other holders what they have.
LEMMA AccessorsKeep ==
  ASSUME Life, UNCHANGED <<uio, accessorVars>>
  PROVE  \A g \in Acc : Given'[g] = Given[g]
<1> SUFFICES ASSUME NEW g \in Acc PROVE Given'[g] = Given[g]
  OBVIOUS
<1>1. acc' = acc /\ (acc[g] \in Mgr => Same(acc[g]))
  BY ManagersStay DEF accessorVars
<1> QED
  BY <1>1, GivenParts, GivenPartsNext DEF Same

\* Every step is a step of the leases, or changes nothing there.
LEMMA LeaseStep == IInv /\ GivenIs /\ GivenIs' /\ [Next]_vars => [Leases!LNext]_Reach
<1> SUFFICES ASSUME IInv, GivenIs, GivenIs', [Next]_vars PROVE [Leases!LNext]_Reach
  OBVIOUS
<1>1. CASE Driver
  <2>1. UNCHANGED accessorVars
    BY <1>1 DEF Driver
  <2>2. ASSUME NEW x \in Inst, NEW name \in Name, Idle, XRiscv_Initialize(x, name)
        PROVE  [Leases!LNext]_Reach
    <3>1. uio' = uio /\ \A y \in Inst \ {x} : held'[y] = held[y]
      BY <2>2, TypeParts DEF XRiscv_Initialize, IInv
    <3>2. \A y \in Inst : ~held[y].is
      BY <2>2 DEF Idle
    <3>3. \A y \in Inst \ {x} : Given'[y] = Given[y]
      BY <3>1, <3>2, GivenParts, GivenPartsNext
    <3>4. Given[x] = Nothing
      BY <3>2, GivenParts
    <3>5. \A g \in (Inst \cup Acc) \ {x} : Given'[g] = Given[g]
      BY <2>1, <3>1, <3>3, AccessorsKeep DEF IInv
    <3> QED
      BY <3>4, <3>5, OneHolder
  <2>3. ASSUME NEW name \in Name, Idle, OpenDeviceFailed(name)
        PROVE  [Leases!LNext]_Reach
    <3>1. uio' = uio /\ held' = held
      BY <2>3 DEF OpenDeviceFailed
    <3>2. \A y \in Inst : ~held[y].is
      BY <2>3 DEF Idle
    <3>3. \A y \in Inst : Given'[y] = Given[y]
      BY <3>1, <3>2, GivenParts, GivenPartsNext
    <3>4. \A g \in Inst \cup Acc : Given'[g] = Given[g]
      BY <2>1, <3>1, <3>3, AccessorsKeep DEF IInv
    <3>5. Given' = [g \in Inst \cup Acc |-> Given'[g]] /\ Given = [g \in Inst \cup Acc |-> Given[g]]
      BY DEF Given
    <3>6. Given' = Given
      <4> HIDE DEF Given
      <4> QED
        BY <3>4, <3>5
    <3> QED
      BY <3>6 DEF GivenIs
  <2>4. ASSUME NEW x \in Inst, XRiscv_Release(x)
        PROVE  [Leases!LNext]_Reach
    <3>1. /\ uio' = uio /\ held[x].is /\ held' = [held EXCEPT ![x] = NotHeld]
      BY <2>4 DEF XRiscv_Release
    <3>2. ~held'[x].is /\ \A y \in Inst \ {x} : held'[y] = held[y]
      BY <3>1, TypeParts DEF IInv, NotHeld
    <3>3. \A y \in Inst \ {x} : ~held[y].is
      BY <3>1 DEF IInv, Life, Held
    <3>4. Given'[x] = Nothing /\ \A y \in Inst \ {x} : Given'[y] = Given[y]
      BY <3>2, <3>3, GivenParts, GivenPartsNext
    <3>5. \A g \in (Inst \cup Acc) \ {x} : Given'[g] = Given[g]
      BY <2>1, <3>1, <3>4, AccessorsKeep DEF IInv
    <3> QED
      BY <3>4, <3>5, OneHolder
  <2> QED
    BY <1>1, <2>2, <2>3, <2>4 DEF Driver
<1>2. CASE Accessors
  <2>1. UNCHANGED driverVars
    BY <1>2 DEF Accessors
  <2>2. ASSUME NEW a \in Acc, acc[a] = Gone, uio' = uio, OpensNothing(a) \/ \E dev, n : Opens(a, dev, n)
        PROVE  [Leases!LNext]_Reach
    <3>1. Given[a] = Nothing
      BY <2>2, GivenParts, AccessorAssumption
    <3>2. \A c \in Acc \ {a} : acc'[c] = acc[c] /\ (acc[c] \in Mgr => mgr'[acc[c]] = mgr[acc[c]])
      <4>1. CASE OpensNothing(a)
        BY <4>1, TypeParts DEF OpensNothing, IInv
      <4>2. ASSUME NEW dev, NEW n, Opens(a, dev, n)
            PROVE  \A c \in Acc \ {a} : acc'[c] = acc[c] /\ (acc[c] \in Mgr => mgr'[acc[c]] = mgr[acc[c]])
        <5>1. PICK fd \in FdSet, base \in PageSet, m \in Mgr :
                /\ ~mgr[m].is /\ files[fd] = Free /\ \A p \in Span(base, n) : pages[p] = Free
                /\ files' = [files EXCEPT ![fd] = dev]
                /\ pages' = [p \in PageSet |-> IF p \in Span(base, n) THEN dev ELSE pages[p]]
                /\ mgr' = [mgr EXCEPT ![m] = [is |-> TRUE, fd |-> fd, base |-> base, size |-> n, dev |-> dev]]
                /\ acc' = [acc EXCEPT ![a] = m]
          BY <4>2, Zenon DEF Opens
        <5>2. m \notin InUse
          BY <5>1 DEF IInv, Life
        <5>3. \A o \in Mgr \ {m} : mgr'[o] = mgr[o]
          BY <5>1, TypeParts DEF IInv
        <5>4. \A c \in Acc \ {a} : acc'[c] = acc[c] /\ acc[c] # m
          BY <5>1, <5>2, TypeParts DEF IInv, InUse
        <5> QED
          BY <5>3, <5>4
      <4> QED
        BY <2>2, <4>1, <4>2
    <3>3. \A g \in (Inst \cup Acc) \ {a} : Given'[g] = Given[g]
      BY <2>1, <2>2, <3>2, OthersKeep DEF IInv
    <3> QED
      BY <3>1, <3>3, OneHolder
  <2>3. ASSUME NEW a \in Acc, NEW name \in Name, UioAccessor(a, name) \/ UdmabufAccessor(a, name)
        PROVE  [Leases!LNext]_Reach
    <3>1. acc[a] = Gone /\ uio' = uio /\ OpensByName(a)
      BY <2>3, ConstructorDoes
    <3>2. OpensNothing(a) \/ \E dev, n : Opens(a, dev, n)
      BY <3>1, Zenon DEF OpensByName
    <3> QED
      BY <2>2, <3>1, <3>2
  <2>4. ASSUME NEW a \in Acc, NEW b \in Acc, GetAccessor(a, b)
        PROVE  [Leases!LNext]_Reach
    <3>1. acc[b] = Gone /\ acc' = [acc EXCEPT ![b] = acc[a]] /\ UNCHANGED <<uio, mgr>>
      BY <2>4 DEF GetAccessor
    <3>2. Given[b] = Nothing
      BY <3>1, GivenParts, AccessorAssumption
    <3>3. \A c \in Acc \ {b} : acc'[c] = acc[c]
      BY <3>1, TypeParts DEF IInv
    <3>4. \A g \in (Inst \cup Acc) \ {b} : Given'[g] = Given[g]
      BY <2>1, <3>1, <3>3, OthersKeep DEF IInv
    <3> QED
      BY <3>2, <3>4, OneHolder
  <2>5. ASSUME NEW a \in Acc, Destroy(a)
        PROVE  [Leases!LNext]_Reach
    <3>1. acc' = [acc EXCEPT ![a] = Gone] /\ uio' = uio
      BY <2>5 DEF Destroy
    <3>2. acc'[a] = Gone /\ \A c \in Acc \ {a} : acc'[c] = acc[c]
      BY <3>1, TypeParts DEF IInv
    <3>3. Given'[a] = Nothing
      BY <3>2, GivenPartsNext, AccessorAssumption
    <3>4. \A c \in Acc \ {a} : acc[c] \in Mgr => mgr'[acc[c]] = mgr[acc[c]]
      <4>1. CASE LastHolder(a)
        <5>1. mgr' = [mgr EXCEPT ![acc[a]] = NoMgr] /\ acc[a] \in Mgr /\ \A c \in Acc \ {a} : acc[c] # acc[a]
          BY <2>5, <4>1 DEF Destroy, LastHolder
        <5> QED
          BY <5>1, TypeParts DEF IInv
      <4>2. CASE ~LastHolder(a)
        BY <2>5, <4>2 DEF Destroy
      <4> QED
        BY <4>1, <4>2
    <3>5. \A g \in (Inst \cup Acc) \ {a} : Given'[g] = Given[g]
      BY <2>1, <3>1, <3>2, <3>4, OthersKeep DEF IInv
    <3> QED
      BY <3>3, <3>5, OneHolder
  <2> QED
    BY <1>2, <2>3, <2>4, <2>5 DEF Accessors
<1>3. CASE UNCHANGED vars
  <2>1. UNCHANGED <<pages, held, inst, info, mgr, acc>>
    BY <1>3 DEF vars, driverVars, accessorVars
  <2>2. Reach' = Reach
    BY <2>1 DEF Reach, Behind, SpanOf
  <2> QED
    BY <2>2
<1> QED
  BY <1>1, <1>2, <1>3 DEF Next

\* Whoever got a device reaches it until he lets go of it himself, whatever the
\* others open, share, fail to open and release meanwhile: the driver and the
\* accessors on the two tables implement DeviceLeases.
THEOREM HoldersKeepTheirDevices == Spec => HoldersKeepTheirDevice
<1>1. Init => IInv /\ GivenIs
  BY CInit, GivenIsKnown
<1>2. Init => Leases!LInit
  BY <1>1, NobodyReaches
<1> QED
  BY <1>2, CInvariance, GivenIsKnown, LeaseStep, PTL DEF Spec, HoldersKeepTheirDevice, Leases!LSpec
=============================================================================
