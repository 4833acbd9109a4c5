------------------------------ MODULE MemAccess ------------------------------
(***************************************************************************)
(* Addresses of MemAccessor_: how an accessor's base, DataType and register*)
(* unit pass to the accessors made from it, where a register lies, typed   *)
(* stores of any width, and the row loops of ReadImage2d and WriteImage2d  *)
(* against a pixel-by-pixel definition of what they copy.                  *)
(*                                                                         *)
(* A store leaves one value in every byte it covers, so a word that was    *)
(* torn or overlapped shows.  Callers stay inside the mapping and their    *)
(* buffer, and rows do not overlap.                                        *)
(***************************************************************************)
EXTENDS Naturals

CONSTANTS
  MemSize, BufSize,  \* bytes of the mapping and of the caller's buffer
  Mem0, Buf0,        \* what they hold at first
  WordSizes,         \* sizeof of the types in use
  Tags,              \* values stored
  Regs, Addrs,       \* bound: register numbers and byte offsets in use
  Units,             \* register units given, besides the defaults 0 and sizeof of the type
  Images,            \* arguments of the image calls
  MaxMade, MaxOps    \* bounds: accessors made from one another, image and store calls

ASSUME MemAssumption ==
  /\ WordSizes \subseteq Nat \ {0} /\ Regs \subseteq Nat /\ Addrs \subseteq Nat /\ Units \subseteq Nat
  /\ Mem0 = [b \in DOMAIN Mem0 |-> Mem0[b]] /\ Buf0 = [b \in DOMAIN Buf0 |-> Buf0[b]]
  /\ \A i \in Images : /\ i.pixel \in Nat \ {0}
                       /\ {i.width, i.height, i.host_step, i.host_x, i.host_y,
                           i.addr, i.mem_step, i.mem_x, i.mem_y} \subseteq Nat

VARIABLES
  mem, buf,          \* the mapping and the caller's buffer
  acc,               \* the accessor in use: m_base_ptr, sizeof(DataType), m_reg_unit
  made, ops,         \* derivations and calls so far
  copy,              \* the locals of an image call, or Idle
  goal,              \* what the image call in progress is to leave
  regs,              \* {} or {<<the value last stored, its width>>} of each register of acc
  ruled              \* history: the calls that made acc and its stores kept the rules below

vars == <<mem, buf, acc, made, ops, copy, goal, regs, ruled>>

Idle == [dir |-> "none"]
Fresh == [r \in Regs |-> {}]

(* "Word addressing with DataType" is the caller's business where a call     *)
(* lets it choose.  The rules, which a caller can follow from the types and  *)
(* its own arguments: a unit that is given is no smaller than the DataType   *)
(* it is for; where none is given, the new DataType is no wider than the     *)
(* parent's; a typed store is no wider than the DataType.                    *)
Given(unit, size) == size <= unit

\* A MemAccessor_ constructed on a manager, with offset 0.
Init ==
  /\ mem = Mem0 /\ buf = Buf0
  /\ \E s \in WordSizes : \E u \in Units \cup {s} :
       acc = [base |-> 0, size |-> s, unit |-> u] /\ ruled = Given(u, s)
  /\ made = 0 /\ ops = 0
  /\ copy = Idle /\ goal = [mem |-> Mem0, buf |-> Buf0]
  /\ regs = Fresh

-----------------------------------------------------------------------------
(* Accessors made from accessors *)

\* The caller goes on with the new accessor.
UseAccessor(base, size, unit) ==
  /\ copy = Idle /\ made < MaxMade /\ made' = made + 1
  /\ base + size <= MemSize
  /\ acc' = [base |-> base, size |-> size, unit |-> unit]
  /\ regs' = Fresh
  /\ UNCHANGED <<mem, buf, ops, copy, goal>>

\* Mutant: a unit of 0 is handed on, as GetAccessorReg_ does.
GetAccessor_HandsOn(addr, size, unit) ==
  /\ UseAccessor(acc.base + addr, size, unit)
  /\ ruled' = IF unit = 0 THEN ruled /\ size <= acc.size ELSE Given(unit, size)

\* GetAccessor_<DT>, GetAccessor, GetAccessor64, 32, 16 and 8: a unit of 0
\* stands for this accessor's.
GetAccessor_(addr, size, unit) ==
  /\ UseAccessor(acc.base + addr, size, IF unit = 0 THEN acc.unit ELSE unit)
  /\ ruled' = IF unit = 0 THEN ruled /\ size <= acc.size ELSE Given(unit, size)

\* GetAccessorReg_<DT>, GetAccessorReg, GetAccessor64Reg, 32Reg, 16Reg and 8Reg:
\* the offset is counted in this DataType, the unit is handed on.
GetAccessorReg_(reg, size, unit) ==
  /\ UseAccessor(acc.base + reg * acc.size, size, unit)
  /\ ruled' = Given(unit, size)

SetRegAddrUnit(unit) ==
  /\ copy = Idle /\ made < MaxMade /\ made' = made + 1
  /\ acc' = [acc EXCEPT !.unit = unit] /\ regs' = Fresh
  /\ ruled' = Given(unit, acc.size)
  /\ UNCHANGED <<mem, buf, ops, copy, goal>>

-----------------------------------------------------------------------------
(* Registers and words *)

RegAddr(reg) == reg * acc.unit

\* The bytes of a word of the given width.
WordAt(addr, size) == (acc.base + addr) .. (acc.base + addr + size - 1)

\* A store of one typed word.
Store(addr, size, v) ==
  /\ copy = Idle /\ ops < MaxOps /\ ops' = ops + 1
  /\ WordAt(addr, size) \subseteq DOMAIN mem
  /\ mem' = [b \in DOMAIN mem |-> IF b \in WordAt(addr, size) THEN v ELSE mem[b]]
  /\ UNCHANGED <<buf, acc, made, copy, goal>>

\* WriteReg and its typed forms.
WriteReg_(reg, size, v) ==
  /\ Store(RegAddr(reg), size, v)
  /\ regs' = [regs EXCEPT ![reg] = {<<v, size>>}]
  /\ ruled' = (ruled /\ size <= acc.size)

\* WriteMem and its typed forms.  A register with a byte among them is stored
\* no more.
WriteMem_(addr, size, v) ==
  /\ Store(addr, size, v)
  /\ regs' = [r \in Regs |->
                {last \in regs[r] : WordAt(RegAddr(r), last[2]) \cap WordAt(addr, size) = {}}]
  /\ UNCHANGED ruled

\* The bytes that ReadReg and its typed forms put together.
ReadReg_(reg, size) == {mem[b] : b \in WordAt(RegAddr(reg), size)}

-----------------------------------------------------------------------------
(* Images *)

\* A step of 0 stands for rows without gaps.
Step(step, i) == IF step = 0 THEN i.width * i.pixel ELSE step

Start(step, x, y, i) == y * Step(step, i) + x * i.pixel
HostStart(i) == Start(i.host_step, i.host_x, i.host_y, i)
MemStart(i) == acc.base + i.addr + Start(i.mem_step, i.mem_x, i.mem_y, i)

\* The byte k of pixel (x, y), from the byte where the image starts.
ByteOf(step, x, y, k, i) == y * Step(step, i) + x * i.pixel + k

Places(i) == (0 .. i.width - 1) \X (0 .. i.height - 1) \X (0 .. i.pixel - 1)
HostByte(i, p) == HostStart(i) + ByteOf(i.host_step, p[1], p[2], p[3], i)
MemByte(i, p) == MemStart(i) + ByteOf(i.mem_step, p[1], p[2], p[3], i)

\* What a caller may ask for.
Fits(i) ==
  /\ \A p \in Places(i) : HostByte(i, p) < BufSize /\ MemByte(i, p) < MemSize
  /\ \A s \in {i.host_step, i.mem_step} : s = 0 \/ s >= i.width * i.pixel

\* Pixel by pixel: to[T(p)] becomes from[F(p)], and nothing else changes.
Pasted(to, from, i, T(_, _), F(_, _)) ==
  [b \in DOMAIN to |-> IF \E p \in Places(i) : T(i, p) = b
                       THEN from[F(i, CHOOSE p \in Places(i) : T(i, p) = b)] ELSE to[b]]

\* The locals before the loop.
Image2d(dir, i) ==
  /\ copy = Idle /\ ops < MaxOps /\ ops' = ops + 1
  /\ Fits(i)
  /\ copy' = [dir |-> dir, y |-> 0, height |-> i.height, row |-> i.width * i.pixel,
              host |-> HostStart(i), host_step |-> Step(i.host_step, i),
              addr |-> MemStart(i), mem_step |-> Step(i.mem_step, i)]
  /\ goal' = IF dir = "write"
               THEN [mem |-> Pasted(mem, buf, i, MemByte, HostByte), buf |-> buf]
               ELSE [mem |-> mem, buf |-> Pasted(buf, mem, i, HostByte, MemByte)]
  /\ regs' = Fresh
  /\ UNCHANGED <<mem, buf, acc, made, ruled>>

WriteImage2d(i) == Image2d("write", i)
ReadImage2d(i) == Image2d("read", i)

\* memcpy of n bytes.
MemCopy(to, at, from, src, n) ==
  [b \in DOMAIN to |-> IF b \in at .. (at + n - 1) THEN from[src + (b - at)] ELSE to[b]]

\* Mutant: the buffer's pointer does not move on.
NextRowSameHost ==
  copy' = [copy EXCEPT !.y = @ + 1, !.addr = @ + copy.mem_step]

NextRow ==
  copy' = [copy EXCEPT !.y = @ + 1, !.addr = @ + copy.mem_step, !.host = @ + copy.host_step]

CopyRow ==
  /\ copy # Idle /\ copy.y < copy.height
  /\ IF copy.dir = "write"
       THEN mem' = MemCopy(mem, copy.addr, buf, copy.host, copy.row) /\ UNCHANGED buf
       ELSE buf' = MemCopy(buf, copy.host, mem, copy.addr, copy.row) /\ UNCHANGED mem
  /\ NextRow
  /\ UNCHANGED <<acc, made, ops, goal, regs, ruled>>

Return ==
  /\ copy # Idle /\ copy.y = copy.height
  /\ copy' = Idle
  /\ UNCHANGED <<mem, buf, acc, made, ops, goal, regs, ruled>>

-----------------------------------------------------------------------------
\* Every type, every default unit and every unit given.
Derive ==
  \/ \E a \in Addrs, s \in WordSizes : \E u \in Units \cup {0, s} : GetAccessor_(a, s, u)
  \/ \E r \in Regs, s \in WordSizes : \E u \in Units \cup {0, s} : GetAccessorReg_(r, s, u)
  \/ \E u \in Units \cup {acc.size} : SetRegAddrUnit(u)

Next ==
  \/ Derive
  \/ \E r \in Regs, s \in WordSizes, v \in Tags : WriteReg_(r, s, v)
  \/ \E a \in Addrs, s \in WordSizes, v \in Tags : WriteMem_(a, s, v)
  \/ \E i \in Images : WriteImage2d(i) \/ ReadImage2d(i)
  \/ CopyRow \/ Return

Spec == Init /\ [][Next]_vars

-----------------------------------------------------------------------------
(* Properties *)

\* Every register keeps the value stored in it, at the width it was stored and
\* at every smaller one, while other registers are written: register r is word
\* r (MemAccessor.h:275, "word addressing with DataType").
WordAddressing ==
  \A r \in Regs : \A last \in regs[r], s \in WordSizes :
    s <= last[2] => ReadReg_(r, s) = {last[1]}

\* Callers who keep the rules have word addressing, through every chain of
\* accessors and units that were inherited, given, replaced or left to the
\* default, with stores of every width (MemAccessor.h:106-178, 254-306).
RegistersAreWords == ruled => WordAddressing

\* The row loops copy exactly the pixels asked for, whatever the steps, offsets
\* and pixel size, and touch no other byte (MemAccessor.h:220-252).
CopiesPixels == copy # Idle /\ copy.y = copy.height => mem = goal.mem /\ buf = goal.buf
=============================================================================
