---------------------------- MODULE UioAccessors ----------------------------
(***************************************************************************)
(* MmapAccessor.h, UioAccessor.h and UdmabufAccessor.h: an accessor holds  *)
(* a shared pointer to a manager, which owns a descriptor and a mapping.   *)
(* GetAccessor makes further accessors of the same manager; the manager's  *)
(* destructor runs when the last of them goes.                             *)
(***************************************************************************)
EXTENDS UserTables

CONSTANTS
  Acc,     \* accessor objects
  Mgr,     \* manager objects
  UioSize  \* pages the program asks of a UIO device (main.cpp's 0x08000000)

VARIABLES
  mgr,     \* m_fd, m_ptr, m_size of each manager, and its device
  acc      \* the manager each accessor points at

accessorVars == <<mgr, acc>>

NoMgr == [is |-> FALSE]   \* not constructed
Gone == "gone"            \* the accessor does not exist
Null == "null"            \* it exists and has no manager: IsMapped() is false

ASSUME AccessorAssumption == UioSize \in Nat /\ Gone \notin Mgr /\ Null \notin Mgr

AccessorInit ==
  /\ mgr = [m \in Mgr |-> NoMgr]
  /\ acc = [a \in Acc |-> Gone]

\* Mutant: the search goes on and the last match wins.
SearchLastMatch(name) ==
  {id \in DOMAIN uio : /\ uio[id].name = name
                       /\ \A k \in DOMAIN uio : k > id => uio[k].name # name}

\* The id whose name file matches first, counting from 0 and giving up at the
\* first id that does not exist.
SearchDeviceId(name) ==
  {id \in DOMAIN uio : /\ uio[id].name = name
                       /\ \A k \in 0 .. id - 1 : k \in DOMAIN uio /\ uio[k].name # name}

\* Mutant: what mmap answers is not compared with MAP_FAILED.
OpenUnchecked(a, dev, n) ==
  \/ acc' = [acc EXCEPT ![a] = Null] /\ UNCHANGED <<mgr, files, pages>>
  \/ \E fd \in OpenResults \ {NoFd}, base \in MmapResults(dev, n), m \in Mgr :
       /\ ~mgr[m].is
       /\ files' = Opened(files, fd, dev)
       /\ pages' = Mapped(pages, base, n, dev)
       /\ mgr' = [mgr EXCEPT ![m] = [is |-> TRUE, fd |-> fd, base |-> base, size |-> n, dev |-> dev]]
       /\ acc' = [acc EXCEPT ![a] = m]

\* Mutant: the manager does not close its descriptor when mmap fails.
OpenLeaksFd(a, dev, n) ==
  \/ /\ \E fd \in OpenResults : files' = Opened(files, fd, dev)
     /\ acc' = [acc EXCEPT ![a] = Null]
     /\ UNCHANGED <<mgr, pages>>
  \/ \E fd \in OpenResults \ {NoFd}, base \in MmapResults(dev, n) \ {MapFailed}, m \in Mgr :
       /\ ~mgr[m].is
       /\ files' = Opened(files, fd, dev)
       /\ pages' = Mapped(pages, base, n, dev)
       /\ mgr' = [mgr EXCEPT ![m] = [is |-> TRUE, fd |-> fd, base |-> base, size |-> n, dev |-> dev]]
       /\ acc' = [acc EXCEPT ![a] = m]

\* open and mmap; when mmap fails the descriptor is closed, and the accessor
\* is left without a manager.
Open(a, dev, n) ==
  \/ /\ MapFailed \in MmapResults(dev, n)
     /\ acc' = [acc EXCEPT ![a] = Null]
     /\ UNCHANGED <<mgr, files, pages>>
  \/ \E fd \in OpenResults \ {NoFd}, base \in MmapResults(dev, n) \ {MapFailed}, m \in Mgr :
       /\ ~mgr[m].is
       /\ files' = Opened(files, fd, dev)
       /\ pages' = Mapped(pages, base, n, dev)
       /\ mgr' = [mgr EXCEPT ![m] = [is |-> TRUE, fd |-> fd, base |-> base, size |-> n, dev |-> dev]]
       /\ acc' = [acc EXCEPT ![a] = m]

UioAccessor(a, name) ==
  /\ acc[a] = Gone
  /\ \/ \E id \in SearchDeviceId(name) : Open(a, UioDev(id), UioSize)
     \/ SearchDeviceId(name) = {} /\ acc' = [acc EXCEPT ![a] = Null] /\ UNCHANGED <<mgr, files, pages>>
  /\ uio' = uio

\* The size comes from the class directory; a device without one is not opened.
UdmabufAccessor(a, name) ==
  /\ acc[a] = Gone
  /\ IF name \in DOMAIN Buffers /\ Buffers[name] > 0
       THEN Open(a, BufDev(name), Buffers[name])
       ELSE acc' = [acc EXCEPT ![a] = Null] /\ UNCHANGED <<mgr, files, pages>>
  /\ uio' = uio

\* Copies the shared pointer; programs call it on a mapped accessor only.
GetAccessor(a, b) ==
  /\ acc[a] \in Mgr /\ acc[b] = Gone
  /\ acc' = [acc EXCEPT ![b] = acc[a]]
  /\ UNCHANGED <<uio, files, pages, mgr>>

\* Mutant: the first accessor to go takes the manager with it.
DestroyTakesManager(a) ==
  /\ acc[a] # Gone
  /\ acc' = [acc EXCEPT ![a] = Gone]
  /\ IF acc[a] \in Mgr
       THEN LET m == acc[a] IN
            /\ files' = Closed(files, mgr[m].fd)
            /\ pages' = Unmapped(pages, mgr[m].base, mgr[m].size)
            /\ mgr' = mgr
       ELSE UNCHANGED <<mgr, files, pages>>
  /\ uio' = uio

LastHolder(a) == acc[a] \in Mgr /\ \A b \in Acc \ {a} : acc[b] # acc[a]

\* The last accessor runs ~AccessorUioManager, which unmaps and closes, and
\* then ~AccessorMmapManager, whose munmap of a null, empty range does nothing.
Destroy(a) ==
  /\ acc[a] # Gone
  /\ acc' = [acc EXCEPT ![a] = Gone]
  /\ IF LastHolder(a)
       THEN LET m == acc[a] IN
            /\ files' = Closed(files, mgr[m].fd)
            /\ pages' = Unmapped(pages, mgr[m].base, mgr[m].size)
            /\ mgr' = [mgr EXCEPT ![m] = NoMgr]
       ELSE UNCHANGED <<mgr, files, pages>>
  /\ uio' = uio
=============================================================================
