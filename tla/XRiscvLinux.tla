----------------------------- MODULE XRiscvLinux -----------------------------
(***************************************************************************)
(* xriscv_linux.c: XRiscv_Initialize finds the UIO device by its name,     *)
(* reads its map size from sysfs, opens and maps it; XRiscv_Release undoes *)
(* that.  Descriptor, number and size are in one static uio_info that all  *)
(* instances share; the instance has the mapped address and a ready flag.  *)
(***************************************************************************)
EXTENDS UserTables

CONSTANTS
  Inst,         \* XRiscv objects
  Alpha(_, _)   \* alphasort: entry "uio<x>" comes before "uio<y>"

\* One-digit numbers sort as they count.
ASSUME AlphaAssumption == \A x, y \in 0 .. 9 : Alpha(x, y) <=> x < y

VARIABLES
  info,         \* uio_info: uio_num, uio_fd and maps[0].size
  inst,         \* Control_BaseAddress and IsReady of each object
  held          \* the instance its caller has initialised and not released, with its device

driverVars == <<info, inst, held>>

NotHeld == [is |-> FALSE]

DriverInit ==
  /\ info = [num |-> 0, fd |-> NoFd, size |-> 0]
  /\ inst = [x \in Inst |-> [base |-> 0, ready |-> FALSE]]
  /\ held = [x \in Inst |-> NotHeld]

\* The entries whose name file matches, the first in scandir's order.
FirstNamed(name) ==
  LET hits == {id \in DOMAIN uio : uio[id].name = name}
  IN  {id \in hits : \A other \in hits \ {id} : Alpha(id, other)}

\* A size file that is missing leaves what the last device had.
MapSize(id) == IF uio[id].pages > 0 THEN uio[id].pages ELSE info.size

\* The device is found but cannot be opened: XST_OPEN_DEVICE_FAILED.
OpenDeviceFailed(name) ==
  /\ \E id \in FirstNamed(name) :
       info' = [num |-> id, fd |-> NoFd, size |-> MapSize(id)]
  /\ UNCHANGED <<uio, files, pages, inst, held>>

\* Found, opened and mapped; the result of mmap is kept as it is.
XRiscv_Initialize(x, name) ==
  \E id \in FirstNamed(name) : \E fd \in OpenResults \ {NoFd} :
    \E base \in MmapResults(UioDev(id), MapSize(id)) :
      /\ info' = [num |-> id, fd |-> fd, size |-> MapSize(id)]
      /\ files' = Opened(files, fd, UioDev(id))
      /\ pages' = Mapped(pages, base, MapSize(id), UioDev(id))
      /\ inst' = [inst EXCEPT ![x] = [base |-> base, ready |-> TRUE]]
      /\ held' = [held EXCEPT ![x] = [is |-> TRUE, name |-> name]]
      /\ uio' = uio

\* munmap and close with what uio_info has now; IsReady stays as it is.
XRiscv_Release(x) ==
  /\ held[x].is /\ inst[x].ready
  /\ pages' = Unmapped(pages, inst[x].base, info.size)
  /\ files' = Closed(files, info.fd)
  /\ held' = [held EXCEPT ![x] = NotHeld]
  /\ UNCHANGED <<uio, info, inst>>
=============================================================================
