------------------------------ MODULE UserTables ------------------------------
(***************************************************************************)
(* The process's descriptor table and page table, and the kernel's list of *)
(* devices, as xriscv_linux.c and the accessor classes use them: open,     *)
(* close, mmap, munmap and the files below /sys/class.                     *)
(***************************************************************************)
EXTENDS Naturals

CONSTANTS
  Name,        \* device names
  UioDirs,     \* contents of /sys/class/uio: id -> name and pages of map0
  Buffers,     \* u-dma-buf devices: name -> pages
  NumFds,      \* descriptors above stderr the process may have
  NumPages     \* pages of address space

FdSet == 3 .. (NumFds + 2)
PageSet == 1 .. NumPages

ASSUME TablesAssumption ==
  /\ NumFds \in Nat /\ NumPages \in Nat
  /\ \A u \in UioDirs : /\ DOMAIN u \subseteq Nat
                        /\ \A id \in DOMAIN u : u[id] \in [name : Name, pages : Nat]
  /\ DOMAIN Buffers \subseteq Name
  /\ \A x \in DOMAIN Buffers : Buffers[x] \in Nat

VARIABLES
  uio,      \* /sys/class/uio
  files,    \* descriptor table: the device behind each descriptor
  pages     \* page table: the device behind each page

Free == <<>>
UioDev(id) == <<"uio", id>>
BufDev(x) == <<"udmabuf", x>>

MapFailed == 0   \* mmap's (void *)-1
NoFd == 0        \* open's error, a negative number

TablesInit ==
  /\ uio \in UioDirs
  /\ files = [f \in FdSet |-> Free]
  /\ pages = [p \in PageSet |-> Free]

\* Pages of a device that mmap lets a process map; map0 missing is 0.
PagesOf(dev) == IF dev[1] = "uio" THEN uio[dev[2]].pages ELSE Buffers[dev[2]]

\* open: the lowest free descriptor, or an error.
OpenResults ==
  LET free == {f \in FdSet : files[f] = Free}
  IN  {NoFd} \cup {f \in free : \A g \in free : f <= g}

Opened(fs, fd, dev) == IF fd \in FdSet THEN [fs EXCEPT ![fd] = dev] ELSE fs
Closed(fs, fd) == IF fd \in FdSet THEN [fs EXCEPT ![fd] = Free] ELSE fs

Span(base, n) == {p \in PageSet : base <= p /\ p < base + n}

\* mmap: n free pages in a row, or an error; always an error when n is 0 or
\* more than the device has.
MmapResults(dev, n) ==
  {MapFailed} \cup
  {base \in PageSet : /\ 0 < n /\ n <= PagesOf(dev)
                      /\ base + n - 1 \in PageSet
                      /\ \A p \in Span(base, n) : pages[p] = Free}

Mapped(pt, base, n, dev) ==
  IF base = MapFailed THEN pt
  ELSE [p \in PageSet |-> IF p \in Span(base, n) THEN dev ELSE pt[p]]

\* munmap: an unaligned address or a zero length is an error and changes nothing.
Unmapped(pt, base, n) == Mapped(pt, base, n, Free)
=============================================================================
