-------------------------- MODULE MemAccess_proofs --------------------------
(***************************************************************************)
(* Proofs about MemAccess: registers do not overlap, and the row loops     *)
(* copy the pixels asked for, for every mapping, unit, step and size.      *)
(***************************************************************************)
EXTENDS MemAccess, TLAPS

-----------------------------------------------------------------------------
(* Rows and columns *)

\* The products that addresses are made of are natural numbers.
LEMMA ProductIsNat == \A a, b \in Nat : a * b \in Nat
  OBVIOUS

\* A row ends before the next one begins.
LEMMA RowsFollow == ASSUME NEW a \in Nat, NEW b \in Nat, NEW c \in Nat, a < b PROVE a * c + c <= b * c
<1>1. PICK d \in Nat : b = a + 1 + d
  <2>1. b - a - 1 \in Nat /\ b = a + 1 + (b - a - 1)
    OBVIOUS
  <2> QED
    BY <2>1
<1>2. b * c = a * c + c + d * c
  BY <1>1
<1>3. d * c >= 0
  OBVIOUS
<1> QED
  BY <1>2, <1>3

\* The next row begins one step on.
LEMMA NextRowIs == \A y, s \in Nat : (y + 1) * s = y * s + s
  OBVIOUS

\* Every offset into a row is a byte of one of its pixels.
LEMMA OffsetIsInPixel ==
  ASSUME NEW n \in Nat, NEW d \in Nat \ {0}, NEW w \in Nat, n < w * d
  PROVE  \E x \in 0 .. w - 1, k \in 0 .. d - 1 : n = x * d + k
<1> DEFINE q == n \div d
           r == n % d
<1>1. q \in Nat /\ r \in 0 .. d - 1
  OBVIOUS
<1>2. n - r = q * d
  BY SMTT(30)
<1> HIDE DEF q, r
<1>3. q * d \in Nat /\ w * d \in Nat
  BY <1>1
<1>4. n = q * d + r
  BY <1>1, <1>2, <1>3
<1>5. CASE q < w
  BY <1>1, <1>4, <1>5
<1>6. CASE q = w
  BY <1>1, <1>3, <1>4, <1>6
<1>7. CASE w < q
  <2>1. w * d + d <= q * d
    BY <1>1, <1>7, RowsFollow
  <2> QED
    BY <1>1, <1>3, <1>4, <2>1
<1> QED
  BY <1>1, <1>5, <1>6, <1>7

\* Two places whose offset, or whose byte, is one are one place.
LEMMA SamePixel ==
  ASSUME NEW d \in Nat \ {0}, NEW x \in Nat, NEW k \in 0 .. d - 1, NEW y \in Nat, NEW l \in 0 .. d - 1,
         x * d + k = y * d + l
  PROVE  x = y /\ k = l
<1>1. x * d \in Nat /\ y * d \in Nat
  OBVIOUS
<1>2. CASE x < y
  <2>1. x * d + d <= y * d
    BY <1>2, RowsFollow
  <2> QED
    BY <1>1, <2>1
<1>3. CASE y < x
  <2>1. y * d + d <= x * d
    BY <1>3, RowsFollow
  <2> QED
    BY <1>1, <2>1
<1>4. CASE x = y
  BY <1>1, <1>4
<1> QED
  BY <1>2, <1>3, <1>4

Row(i) == i.width * i.pixel

\* The images' numbers.
LEMMA ImageIs ==
  ASSUME NEW i \in Images
  PROVE  /\ i.pixel \in Nat \ {0} /\ i.width \in Nat /\ i.height \in Nat /\ Row(i) \in Nat
         /\ Step(i.host_step, i) \in Nat /\ Step(i.mem_step, i) \in Nat /\ HostStart(i) \in Nat
         /\ acc.base \in Nat => MemStart(i) \in Nat
<1>1. /\ i.pixel \in Nat \ {0} /\ i.width \in Nat /\ i.height \in Nat /\ i.host_step \in Nat
      /\ i.host_x \in Nat /\ i.host_y \in Nat /\ i.addr \in Nat /\ i.mem_step \in Nat
      /\ i.mem_x \in Nat /\ i.mem_y \in Nat
  BY MemAssumption
<1>2. i.width * i.pixel \in Nat
  BY <1>1, ProductIsNat
<1>3. Step(i.host_step, i) \in Nat /\ Step(i.mem_step, i) \in Nat
  BY <1>1, <1>2 DEF Step
<1>4. Start(i.host_step, i.host_x, i.host_y, i) \in Nat /\ Start(i.mem_step, i.mem_x, i.mem_y, i) \in Nat
  <2>1. i.host_y * Step(i.host_step, i) \in Nat /\ i.mem_y * Step(i.mem_step, i) \in Nat
    BY <1>1, <1>3, ProductIsNat
  <2>2. i.host_x * i.pixel \in Nat /\ i.mem_x * i.pixel \in Nat
    BY <1>1, ProductIsNat
  <2> QED
    BY <2>1, <2>2 DEF Start
<1> QED
  BY <1>1, <1>2, <1>3, <1>4 DEF Row, HostStart, MemStart

\* The offset of a place in its row lies in the row.
LEMMA PlaceInRow ==
  ASSUME NEW i \in Images, NEW p \in Places(i)
  PROVE  /\ p[1] \in 0 .. i.width - 1 /\ p[2] \in 0 .. i.height - 1 /\ p[3] \in 0 .. i.pixel - 1
         /\ p = <<p[1], p[2], p[3]>>
         /\ p[1] * i.pixel \in Nat /\ p[1] * i.pixel + p[3] \in 0 .. Row(i) - 1
<1>1. i.pixel \in Nat \ {0} /\ i.width \in Nat /\ i.height \in Nat /\ Row(i) \in Nat
  BY ImageIs
<1>2. p[1] \in 0 .. i.width - 1 /\ p[2] \in 0 .. i.height - 1 /\ p[3] \in 0 .. i.pixel - 1 /\ p = <<p[1], p[2], p[3]>>
  BY DEF Places
<1>3. p[1] * i.pixel + i.pixel <= i.width * i.pixel
  BY <1>1, <1>2, RowsFollow
<1>4. p[1] * i.pixel \in Nat
  BY <1>1, <1>2, ProductIsNat
<1> QED
  BY <1>1, <1>2, <1>3, <1>4 DEF Row

\* With rows that do not overlap, no two places have one byte.
LEMMA PlacesDiffer ==
  ASSUME NEW i \in Images, NEW step \in Nat, step >= Row(i),
         NEW p \in Places(i), NEW q \in Places(i),
         p[2] * step + (p[1] * i.pixel + p[3]) = q[2] * step + (q[1] * i.pixel + q[3])
  PROVE  p = q
<1> DEFINE o == p[1] * i.pixel + p[3]
           u == q[1] * i.pixel + q[3]
<1>1. o \in 0 .. Row(i) - 1 /\ u \in 0 .. Row(i) - 1 /\ Row(i) \in Nat
  BY PlaceInRow, ImageIs
<1>2. p[2] \in Nat /\ q[2] \in Nat /\ p[2] * step + o = q[2] * step + u
  BY PlaceInRow, ImageIs
<1>3. p[2] = q[2] /\ o = u
  <2> DEFINE y == p[2]
             z == q[2]
  <2> HIDE DEF o, u, y, z
  <2>1. step \in Nat \ {0} /\ o \in 0 .. step - 1 /\ u \in 0 .. step - 1 /\ y \in Nat /\ z \in Nat
    BY <1>1, <1>2 DEF y, z
  <2>2. y * step + o = z * step + u
    BY <1>2 DEF y, z
  <2>3. y = z /\ o = u
    BY <2>1, <2>2, SamePixel
  <2> QED
    BY <2>3 DEF y, z
<1>4. p[1] = q[1] /\ p[3] = q[3]
  <2> DEFINE d == i.pixel
             x == p[1]
             z == q[1]
             k == p[3]
             l == q[3]
  <2>1. x * d + k = z * d + l
    BY <1>3
  <2>2. d \in Nat \ {0} /\ x \in Nat /\ z \in Nat /\ k \in 0 .. d - 1 /\ l \in 0 .. d - 1
    BY PlaceInRow, ImageIs
  <2> HIDE DEF d, x, z, k, l
  <2>3. x = z /\ k = l
    BY <2>1, <2>2, SamePixel
  <2> QED
    BY <2>3 DEF x, z, k, l
<1> QED
  BY <1>3, <1>4, PlaceInRow

-----------------------------------------------------------------------------
(* Accessors and their registers *)

\* An accessor's numbers, and what was stored in each register, at which width.
AccOK ==
  /\ acc \in [base : Nat, size : WordSizes, unit : Nat]
  /\ regs \in [Regs -> SUBSET (Tags \X WordSizes)]

\* Every accessor is made of natural numbers.
LEMMA AInit == Init => AccOK
  BY MemAssumption DEF Init, AccOK, Fresh, Given

\* What making an accessor does: a base, a size and a unit of its own, and no
\* register stored yet.  By the rules, the unit is given and large enough, or it
\* is the parent's and the word is no wider than the parent's.
LEMMA DeriveDoes ==
  ASSUME AccOK, Derive
  PROVE  /\ copy = Idle /\ UNCHANGED <<mem, buf, copy, goal>>
         /\ regs' = Fresh
         /\ acc' \in [base : Nat, size : WordSizes, unit : Nat]
         /\ ruled' => \/ acc'.size <= acc'.unit
                      \/ ruled /\ acc'.unit = acc.unit /\ acc'.size <= acc.size
<1> USE MemAssumption DEF AccOK
<1>1. acc.base \in Nat /\ acc.size \in WordSizes /\ acc.size \in Nat /\ acc.unit \in Nat
  OBVIOUS
<1>2. ASSUME NEW a \in Addrs, NEW s \in WordSizes, NEW u \in Units \cup {0, s}, GetAccessor_(a, s, u)
      PROVE  /\ copy = Idle /\ UNCHANGED <<mem, buf, copy, goal>> /\ regs' = Fresh
             /\ acc' \in [base : Nat, size : WordSizes, unit : Nat]
             /\ ruled' => \/ acc'.size <= acc'.unit
                          \/ ruled /\ acc'.unit = acc.unit /\ acc'.size <= acc.size
  <2>1. /\ copy = Idle /\ UNCHANGED <<mem, buf, copy, goal>> /\ regs' = Fresh
        /\ acc' = [base |-> acc.base + a, size |-> s, unit |-> IF u = 0 THEN acc.unit ELSE u]
    BY <1>2 DEF GetAccessor_, UseAccessor
  <2>2. ruled' = IF u = 0 THEN ruled /\ s <= acc.size ELSE s <= u
    BY <1>2, Zenon DEF GetAccessor_, Given
  <2>3. CASE u = 0
    <3>1. ruled' => ruled /\ s <= acc.size
      BY <2>2, <2>3, Zenon
    <3>2. acc'.unit = acc.unit /\ acc'.size = s /\ acc' \in [base : Nat, size : WordSizes, unit : Nat]
      BY <1>1, <2>1, <2>3
    <3> QED
      BY <2>1, <3>1, <3>2
  <2>4. CASE u # 0
    <3>1. ruled' => s <= u
      BY <2>2, <2>4, Zenon
    <3>2. acc'.unit = u /\ acc'.size = s /\ acc' \in [base : Nat, size : WordSizes, unit : Nat]
      BY <1>1, <2>1, <2>4
    <3> QED
      BY <2>1, <3>1, <3>2
  <2> QED
    BY <2>3, <2>4
<1>3. ASSUME NEW r \in Regs, NEW s \in WordSizes, NEW u \in Units \cup {0, s}, GetAccessorReg_(r, s, u)
      PROVE  /\ copy = Idle /\ UNCHANGED <<mem, buf, copy, goal>> /\ regs' = Fresh
             /\ acc' \in [base : Nat, size : WordSizes, unit : Nat]
             /\ ruled' => acc'.size <= acc'.unit
  <2>1. /\ copy = Idle /\ UNCHANGED <<mem, buf, copy, goal>> /\ regs' = Fresh
        /\ acc' = [base |-> acc.base + r * acc.size, size |-> s, unit |-> u]
    BY <1>3 DEF GetAccessorReg_, UseAccessor
  <2>2. ruled' => s <= u
    BY <1>3, Zenon DEF GetAccessorReg_, Given
  <2>3. acc.base + r * acc.size \in Nat /\ u \in Nat
    BY <1>1, ProductIsNat
  <2> QED
    BY <2>1, <2>2, <2>3
<1>4. ASSUME NEW u \in Units \cup {acc.size}, SetRegAddrUnit(u)
      PROVE  /\ copy = Idle /\ UNCHANGED <<mem, buf, copy, goal>> /\ regs' = Fresh
             /\ acc' \in [base : Nat, size : WordSizes, unit : Nat]
             /\ ruled' => acc'.size <= acc'.unit
  <2>1. ruled' => acc.size <= u
    BY <1>4, Zenon DEF SetRegAddrUnit, Given
  <2> QED
    BY <1>1, <1>4, <2>1 DEF SetRegAddrUnit
<1> QED
  BY <1>2, <1>3, <1>4 DEF Derive

\* A store changes a word's bytes, whatever becomes of the registers.
LEMMA StoreDoes ==
  ASSUME NEW a, NEW s, NEW v, Store(a, s, v)
  PROVE  /\ acc' = acc /\ buf' = buf /\ copy = Idle /\ copy' = copy
         /\ WordAt(a, s) \subseteq DOMAIN mem
         /\ mem' = [b \in DOMAIN mem |-> IF b \in WordAt(a, s) THEN v ELSE mem[b]]
  BY DEF Store

\* Every step keeps the accessor's numbers.
LEMMA AStep == AccOK /\ [Next]_vars => AccOK'
<1> SUFFICES ASSUME AccOK, [Next]_vars PROVE AccOK'
  OBVIOUS
<1>1. CASE Derive
  BY <1>1, DeriveDoes DEF AccOK, Fresh
<1>2. ASSUME NEW r \in Regs, NEW s \in WordSizes, NEW v \in Tags, WriteReg_(r, s, v) PROVE AccOK'
  <2>1. acc' = acc
    BY <1>2, StoreDoes DEF WriteReg_
  <2>2. regs' = [regs EXCEPT ![r] = {<<v, s>>}] /\ <<v, s>> \in Tags \X WordSizes
    BY <1>2 DEF WriteReg_
  <2> QED
    BY <2>1, <2>2 DEF AccOK
<1>3. ASSUME NEW a \in Addrs, NEW s \in WordSizes, NEW v \in Tags, WriteMem_(a, s, v) PROVE AccOK'
  <2>1. acc' = acc
    BY <1>3, StoreDoes DEF WriteMem_
  <2>2. \A r \in Regs : regs'[r] \subseteq regs[r]
    BY <1>3 DEF WriteMem_
  <2>3. regs' = [r \in Regs |-> regs'[r]]
    BY <1>3 DEF WriteMem_
  <2> QED
    BY <2>1, <2>2, <2>3 DEF AccOK
<1>4. CASE \E i \in Images : WriteImage2d(i) \/ ReadImage2d(i)
  BY <1>4 DEF WriteImage2d, ReadImage2d, Image2d, AccOK, Fresh
<1>5. CASE CopyRow \/ Return \/ UNCHANGED vars
  BY <1>5 DEF CopyRow, Return, vars, AccOK
<1> QED
  BY <1>1, <1>2, <1>3, <1>4, <1>5 DEF Next

\* By the rules a word fits its unit, and each stored register lies in the
\* mapping and holds what was stored; none is stored while an image is copied.
Holds(r, last) ==
  /\ last[2] <= acc.size
  /\ WordAt(RegAddr(r), last[2]) \subseteq DOMAIN mem
  /\ \A b \in WordAt(RegAddr(r), last[2]) : mem[b] = last[1]

RegInv ==
  /\ AccOK
  /\ ruled => acc.size <= acc.unit
  /\ copy # Idle => regs = Fresh
  /\ ruled => \A r \in Regs : \A last \in regs[r] : Holds(r, last)

\* Two registers of an accessor have no byte in common.
LEMMA WordsApart ==
  ASSUME AccOK, acc.size <= acc.unit, NEW r \in Regs, NEW q \in Regs, r # q,
         NEW s \in WordSizes, NEW t \in WordSizes, s <= acc.size, t <= acc.size
  PROVE  WordAt(RegAddr(r), s) \cap WordAt(RegAddr(q), t) = {}
<1> DEFINE u == acc.unit
           b == acc.base
<1>1. /\ r \in Nat /\ q \in Nat /\ u \in Nat /\ b \in Nat
      /\ s \in Nat /\ t \in Nat /\ s <= u /\ t <= u
  BY MemAssumption DEF AccOK
<1>2. /\ WordAt(RegAddr(r), s) = b + r * u .. b + r * u + s - 1
      /\ WordAt(RegAddr(q), t) = b + q * u .. b + q * u + t - 1
  BY DEF WordAt, RegAddr
<1> HIDE DEF u, b
<1>3. r * u \in Nat /\ q * u \in Nat
  BY <1>1, ProductIsNat
<1>4. r * u + u <= q * u \/ q * u + u <= r * u
  <2>1. r < q => r * u + u <= q * u
    BY <1>1, RowsFollow
  <2>2. q < r => q * u + u <= r * u
    BY <1>1, RowsFollow
  <2> QED
    BY <1>1, <2>1, <2>2
<1> QED
  BY <1>1, <1>2, <1>3, <1>4

\* A store that does not touch a register leaves it as it is.
LEMMA OtherHolds ==
  ASSUME NEW a, NEW s, NEW v, Store(a, s, v), NEW r \in Regs, NEW last, Holds(r, last),
         WordAt(RegAddr(r), last[2]) \cap WordAt(a, s) = {}
  PROVE  Holds(r, last)'
<1>1. /\ acc' = acc /\ mem' = [b \in DOMAIN mem |-> IF b \in WordAt(a, s) THEN v ELSE mem[b]]
  BY StoreDoes
<1>2. WordAt(RegAddr(r), last[2])' = WordAt(RegAddr(r), last[2])
  BY <1>1 DEF WordAt, RegAddr
<1>3. DOMAIN mem' = DOMAIN mem /\ \A b \in WordAt(RegAddr(r), last[2]) : mem'[b] = mem[b]
  BY <1>1 DEF Holds
<1> QED
  BY <1>1, <1>2, <1>3 DEF Holds

\* A store into a register.
LEMMA RWrite ==
  ASSUME RegInv, NEW r \in Regs, NEW s \in WordSizes, NEW v \in Tags, WriteReg_(r, s, v), AccOK'
  PROVE  RegInv'
<1>1. /\ Store(RegAddr(r), s, v) /\ regs' = [regs EXCEPT ![r] = {<<v, s>>}]
      /\ ruled' = (ruled /\ s <= acc.size)
  BY DEF WriteReg_
<1>2. /\ acc' = acc /\ copy = Idle /\ copy' = copy /\ WordAt(RegAddr(r), s) \subseteq DOMAIN mem
      /\ mem' = [b \in DOMAIN mem |-> IF b \in WordAt(RegAddr(r), s) THEN v ELSE mem[b]]
  BY <1>1, StoreDoes
<1>3. ASSUME ruled', NEW q \in Regs, NEW last \in regs'[q] PROVE Holds(q, last)'
  <2>1. ruled /\ s <= acc.size /\ acc.size <= acc.unit
    BY <1>1, <1>3 DEF RegInv
  <2>2. CASE q = r
    <3>1. last = <<v, s>>
      BY <1>1, <1>3, <2>2 DEF RegInv, AccOK
    <3>2. WordAt(RegAddr(q), s)' = WordAt(RegAddr(r), s)
      BY <1>2, <2>2 DEF WordAt, RegAddr
    <3>3. \A b \in WordAt(RegAddr(r), s) : mem'[b] = v
      BY <1>2
    <3> QED
      BY <1>2, <2>1, <3>1, <3>2, <3>3 DEF Holds
  <2>3. CASE q # r
    <3>1. last \in regs[q] /\ last[2] \in WordSizes
      BY <1>1, <1>3, <2>3 DEF RegInv, AccOK
    <3>2. Holds(q, last)
      BY <2>1, <3>1 DEF RegInv
    <3>3. WordAt(RegAddr(q), last[2]) \cap WordAt(RegAddr(r), s) = {}
      BY <2>1, <2>3, <3>1, <3>2, WordsApart DEF RegInv, Holds
    <3> QED
      BY <1>1, <3>2, <3>3, OtherHolds
  <2> QED
    BY <2>2, <2>3
<1> QED
  BY <1>1, <1>2, <1>3 DEF RegInv

\* A store into bytes: the registers it misses are as before.
LEMMA RWriteMem ==
  ASSUME RegInv, NEW a \in Addrs, NEW s \in WordSizes, NEW v \in Tags, WriteMem_(a, s, v), AccOK'
  PROVE  RegInv'
<1>1. /\ Store(a, s, v) /\ ruled' = ruled
      /\ regs' = [r \in Regs |-> {last \in regs[r] : WordAt(RegAddr(r), last[2]) \cap WordAt(a, s) = {}}]
  BY DEF WriteMem_
<1>2. acc' = acc /\ copy = Idle /\ copy' = copy
  BY <1>1, StoreDoes
<1>3. ASSUME ruled', NEW r \in Regs, NEW last \in regs'[r] PROVE Holds(r, last)'
  <2>1. last \in regs[r] /\ WordAt(RegAddr(r), last[2]) \cap WordAt(a, s) = {}
    BY <1>1, <1>3
  <2>2. Holds(r, last)
    BY <1>1, <1>3, <2>1 DEF RegInv
  <2> QED
    BY <1>1, <2>1, <2>2, OtherHolds
<1> QED
  BY <1>1, <1>2, <1>3 DEF RegInv

\* Every step keeps the registers.
LEMMA RStep == RegInv /\ [Next]_vars => RegInv'
<1> SUFFICES ASSUME RegInv, [Next]_vars PROVE RegInv'
  OBVIOUS
<1>0. AccOK'
  BY AStep DEF RegInv
<1>1. CASE Derive
  <2>1. /\ copy' = Idle /\ regs' = Fresh
        /\ ruled' => \/ acc'.size <= acc'.unit
                     \/ ruled /\ acc'.unit = acc.unit /\ acc'.size <= acc.size
    BY <1>1, DeriveDoes DEF RegInv
  <2>2. /\ acc.size \in Nat /\ acc.unit \in Nat /\ acc'.size \in Nat
        /\ ruled => acc.size <= acc.unit
    BY <1>0, MemAssumption DEF RegInv, AccOK
  <2>3. ruled' => acc'.size <= acc'.unit
    BY <2>1, <2>2
  <2> QED
    BY <1>0, <2>1, <2>3 DEF RegInv, Fresh
<1>2. ASSUME NEW r \in Regs, NEW s \in WordSizes, NEW v \in Tags, WriteReg_(r, s, v) PROVE RegInv'
  BY <1>0, <1>2, RWrite
<1>3. ASSUME NEW a \in Addrs, NEW s \in WordSizes, NEW v \in Tags, WriteMem_(a, s, v) PROVE RegInv'
  BY <1>0, <1>3, RWriteMem
<1>4. CASE \E i \in Images : WriteImage2d(i) \/ ReadImage2d(i)
  <2>1. regs' = Fresh /\ acc' = acc /\ ruled' = ruled
    BY <1>4 DEF WriteImage2d, ReadImage2d, Image2d
  <2> QED
    BY <1>0, <2>1 DEF RegInv, Fresh
<1>5. CASE CopyRow
  <2>1. regs' = regs /\ acc' = acc /\ ruled' = ruled /\ regs = Fresh
    BY <1>5 DEF CopyRow, RegInv
  <2> QED
    BY <1>0, <2>1 DEF RegInv, Fresh
<1>6. CASE Return
  <2>1. regs' = regs /\ acc' = acc /\ ruled' = ruled /\ regs = Fresh /\ copy' = Idle
    BY <1>6 DEF Return, RegInv
  <2> QED
    BY <1>0, <2>1 DEF RegInv, Fresh
<1>7. CASE UNCHANGED vars
  BY <1>7 DEF vars, RegInv, AccOK, Holds, WordAt, RegAddr
<1> QED
  BY <1>1, <1>2, <1>3, <1>4, <1>5, <1>6, <1>7 DEF Next

\* Callers who keep the rules have word addressing: every register keeps the
\* value stored in it while others are written, for all types and units and every
\* chain of accessors in which units are inherited, given, replaced or left to the
\* default, with stores of every width (MemAccessor.h:106-178, 254-306).
THEOREM RegistersKeepTheirWords == Spec => []RegistersAreWords
<1>1. Init => RegInv
  <2> SUFFICES ASSUME Init PROVE RegInv
    OBVIOUS
  <2>1. PICK s \in WordSizes : \E u \in Units \cup {s} :
          acc = [base |-> 0, size |-> s, unit |-> u] /\ ruled = Given(u, s)
    BY DEF Init
  <2>2. PICK u : acc = [base |-> 0, size |-> s, unit |-> u] /\ ruled = Given(u, s)
    BY <2>1
  <2>3. ruled => acc.size <= acc.unit
    <3>1. ruled => s <= u
      BY <2>2, Zenon DEF Given
    <3> QED
      BY <2>2, <3>1
  <2> QED
    BY <2>3, AInit DEF Init, RegInv, Fresh
<1>2. ASSUME RegInv PROVE RegistersAreWords
  <2> SUFFICES ASSUME ruled, NEW r \in Regs, NEW last \in regs[r], NEW s \in WordSizes, s <= last[2]
               PROVE  ReadReg_(r, s) = {last[1]}
    BY DEF RegistersAreWords, WordAddressing
  <2>1. Holds(r, last)
    BY <1>2 DEF RegInv
  <2>2. /\ s \in Nat \ {0} /\ last[2] \in Nat /\ acc.base \in Nat /\ acc.unit \in Nat /\ r \in Nat
    BY <1>2, MemAssumption DEF RegInv, AccOK
  <2>3. RegAddr(r) \in Nat
    BY <2>2, ProductIsNat DEF RegAddr
  <2>4. WordAt(RegAddr(r), s) \subseteq WordAt(RegAddr(r), last[2])
    BY <2>2, <2>3 DEF WordAt
  <2>5. acc.base + RegAddr(r) \in WordAt(RegAddr(r), s)
    BY <2>2, <2>3 DEF WordAt
  <2>6. \A b \in WordAt(RegAddr(r), s) : mem[b] = last[1]
    BY <2>1, <2>4 DEF Holds
  <2> QED
    BY <2>5, <2>6 DEF ReadReg_
<1> QED
  BY <1>1, <1>2, RStep, PTL DEF Spec

-----------------------------------------------------------------------------
(* Images *)

\* Rows 0 .. y-1 of an image are copied: to differs from whole in bytes of the
\* other rows only, and there whole has what from has at the same offset.  Row q
\* goes to byte d + q * ds and comes from byte s + q * ss.
Done(to, whole, from, d, ds, s, ss, n, y, h) ==
  /\ to = [b \in DOMAIN whole |-> to[b]] /\ whole = [b \in DOMAIN whole |-> whole[b]]
  /\ \A b \in DOMAIN whole : to[b] = whole[b] \/ \E q \in y .. h - 1, o \in 0 .. n - 1 : b = d + q * ds + o
  /\ \A q \in y .. h - 1, o \in 0 .. n - 1 :
       d + q * ds + o \in DOMAIN whole => whole[d + q * ds + o] = from[s + q * ss + o]

\* One more row.
LEMMA RowDone ==
  ASSUME NEW to, NEW whole, NEW from, NEW d \in Nat, NEW ds \in Nat, NEW s \in Nat, NEW ss \in Nat,
         NEW n \in Nat, NEW h \in Nat, NEW y \in 0 .. h - 1,
         Done(to, whole, from, d, ds, s, ss, n, y, h)
  PROVE  Done(MemCopy(to, d + y * ds, from, s + y * ss, n), whole, from, d, ds, s, ss, n, y + 1, h)
<1> DEFINE at == d + y * ds
           src == s + y * ss
           new == MemCopy(to, at, from, src, n)
<1>0. at \in Nat /\ src \in Nat /\ y \in Nat
  BY ProductIsNat
<1>1. /\ to = [b \in DOMAIN whole |-> to[b]] /\ whole = [b \in DOMAIN whole |-> whole[b]]
      /\ \A b \in DOMAIN whole : to[b] = whole[b] \/ \E q \in y .. h - 1, o \in 0 .. n - 1 : b = d + q * ds + o
      /\ \A q \in y .. h - 1, o \in 0 .. n - 1 :
           d + q * ds + o \in DOMAIN whole => whole[d + q * ds + o] = from[s + q * ss + o]
  BY DEF Done
<1>2. DOMAIN to = DOMAIN whole
  BY <1>1
<1>3. new = [b \in DOMAIN whole |-> IF b \in at .. (at + n - 1) THEN from[src + (b - at)] ELSE to[b]]
  BY <1>2 DEF MemCopy
<1>4. new = [b \in DOMAIN whole |-> new[b]]
  BY <1>3
<1>5. ASSUME NEW b \in DOMAIN whole
      PROVE  new[b] = whole[b] \/ \E q \in y + 1 .. h - 1, o \in 0 .. n - 1 : b = d + q * ds + o
  <2>1. CASE b \in at .. (at + n - 1)
    <3> DEFINE o == b - at
    <3>1. o \in 0 .. n - 1 /\ b = at + o /\ new[b] = from[src + o]
      BY <1>0, <1>3, <2>1
    <3>2. whole[at + o] = from[src + o]
      <4>1. y \in y .. h - 1
        BY <1>0
      <4> HIDE DEF o
      <4> QED
        BY <1>1, <3>1, <4>1
    <3> QED
      BY <3>1, <3>2
  <2>2. CASE b \notin at .. (at + n - 1)
    <3>1. new[b] = to[b]
      BY <1>3, <2>2
    <3>2. ASSUME NEW q \in y .. h - 1, NEW o \in 0 .. n - 1, b = d + q * ds + o
          PROVE  q \in y + 1 .. h - 1
      <4>1. q # y
        <5>1. q = y => b \in at .. (at + n - 1)
          BY <1>0, <3>2
        <5> QED
          BY <2>2, <5>1
      <4> QED
        BY <1>0, <4>1
    <3> QED
      BY <1>1, <3>1, <3>2
  <2> QED
    BY <2>1, <2>2
<1>6. \A q \in y + 1 .. h - 1 : q \in y .. h - 1
  BY <1>0
<1>7. \A q \in y + 1 .. h - 1, o \in 0 .. n - 1 :
        d + q * ds + o \in DOMAIN whole => whole[d + q * ds + o] = from[s + q * ss + o]
  BY <1>1, <1>6
<1> HIDE DEF new
<1>8. Done(new, whole, from, d, ds, s, ss, n, y + 1, h)
  BY <1>1, <1>4, <1>5, <1>7 DEF Done
<1> QED
  BY <1>8 DEF new

\* After the last row nothing is missing.
LEMMA AllDone ==
  ASSUME NEW to, NEW whole, NEW from, NEW d, NEW ds, NEW s, NEW ss, NEW n, NEW h \in Nat,
         Done(to, whole, from, d, ds, s, ss, n, h, h)
  PROVE  to = whole
<1>1. h .. h - 1 = {}
  OBVIOUS
<1>2. \A b \in DOMAIN whole : to[b] = whole[b]
  BY <1>1 DEF Done
<1> QED
  BY <1>2 DEF Done

\* The bytes of a place, from its row and its offset.
LEMMA BytesAre ==
  ASSUME NEW i \in Images, NEW p \in Places(i), AccOK
  PROVE  /\ MemByte(i, p) = MemStart(i) + p[2] * Step(i.mem_step, i) + (p[1] * i.pixel + p[3])
         /\ HostByte(i, p) = HostStart(i) + p[2] * Step(i.host_step, i) + (p[1] * i.pixel + p[3])
<1>1. /\ Step(i.host_step, i) \in Nat /\ Step(i.mem_step, i) \in Nat
      /\ HostStart(i) \in Nat /\ MemStart(i) \in Nat
  BY ImageIs DEF AccOK
<1>2. p[2] \in Nat /\ p[3] \in Nat /\ p[1] * i.pixel \in Nat
  BY PlaceInRow, ImageIs
<1>3. p[2] * Step(i.host_step, i) \in Nat /\ p[2] * Step(i.mem_step, i) \in Nat
  BY <1>1, <1>2, ProductIsNat
<1> QED
  BY <1>1, <1>2, <1>3 DEF MemByte, HostByte, ByteOf

\* The place at an offset of a row.
LEMMA PlaceAt ==
  ASSUME NEW i \in Images, NEW q \in 0 .. i.height - 1, NEW o \in 0 .. Row(i) - 1
  PROVE  \E p \in Places(i) : p[2] = q /\ p[1] * i.pixel + p[3] = o
<1>1. i.pixel \in Nat \ {0} /\ i.width \in Nat /\ i.height \in Nat
  BY ImageIs
<1>2. o \in Nat /\ o < i.width * i.pixel
  BY ImageIs DEF Row
<1>3. PICK x \in 0 .. i.width - 1, k \in 0 .. i.pixel - 1 : o = x * i.pixel + k
  BY <1>1, <1>2, OffsetIsInPixel
<1>4. <<x, q, k>> \in Places(i)
  BY DEF Places
<1> QED
  BY <1>3, <1>4

\* A write starts with no row copied: pixel by pixel and row by row mean one thing.
LEMMA WriteBegins ==
  ASSUME AccOK, NEW i \in Images, Fits(i), mem = [b \in DOMAIN mem |-> mem[b]]
  PROVE  Done(mem, Pasted(mem, buf, i, MemByte, HostByte), buf,
              MemStart(i), Step(i.mem_step, i), HostStart(i), Step(i.host_step, i), Row(i), 0, i.height)
<1> DEFINE whole == Pasted(mem, buf, i, MemByte, HostByte)
           P(b) == CHOOSE p \in Places(i) : MemByte(i, p) = b
<1>0. /\ Step(i.mem_step, i) \in Nat /\ Step(i.host_step, i) \in Nat /\ MemStart(i) \in Nat /\ HostStart(i) \in Nat
      /\ Row(i) \in Nat /\ i.height \in Nat
  BY ImageIs DEF AccOK
<1>1. Step(i.mem_step, i) >= Row(i)
  BY <1>0 DEF Fits, Step, Row
<1>2. whole = [b \in DOMAIN mem |-> IF \E p \in Places(i) : MemByte(i, p) = b THEN buf[HostByte(i, P(b))] ELSE mem[b]]
  BY DEF Pasted
<1>3. ASSUME NEW p \in Places(i) PROVE P(MemByte(i, p)) = p
  <2> DEFINE q == P(MemByte(i, p))
  <2>1. q \in Places(i) /\ MemByte(i, q) = MemByte(i, p)
    OBVIOUS
  <2> HIDE DEF q
  <2> DEFINE a == p[2] * Step(i.mem_step, i)
             b == q[2] * Step(i.mem_step, i)
             o == p[1] * i.pixel + p[3]
             u == q[1] * i.pixel + q[3]
  <2>2. MemByte(i, p) = MemStart(i) + a + o /\ MemByte(i, q) = MemStart(i) + b + u
    BY <2>1, BytesAre
  <2>3. a \in Nat /\ b \in Nat /\ o \in Nat /\ u \in Nat
    <3>1. p[2] \in Nat /\ q[2] \in Nat /\ o \in Nat /\ u \in Nat
      BY <1>0, <2>1, PlaceInRow, ImageIs
    <3> QED
      BY <1>0, <3>1, ProductIsNat
  <2>4. a + o = b + u
    <3> HIDE DEF a, b, o, u
    <3> QED
      BY <1>0, <2>1, <2>2, <2>3
  <2>5. p = q
    BY <1>0, <1>1, <2>1, <2>4, PlacesDiffer
  <2> QED
    BY <2>5 DEF q
<1>4. ASSUME NEW p \in Places(i), MemByte(i, p) \in DOMAIN whole PROVE whole[MemByte(i, p)] = buf[HostByte(i, p)]
  <2>1. whole[MemByte(i, p)] = buf[HostByte(i, P(MemByte(i, p)))]
    <3> HIDE DEF P, whole
    <3> QED
      BY <1>2, <1>4
  <2> HIDE DEF P, whole
  <2> QED
    BY <1>3, <2>1
<1>5. /\ DOMAIN whole = DOMAIN mem /\ whole = [b \in DOMAIN whole |-> whole[b]]
      /\ \A b \in DOMAIN whole : mem[b] = whole[b] \/ \E p \in Places(i) : MemByte(i, p) = b
  <2> HIDE DEF P, whole
  <2> QED
    BY <1>2
<1> HIDE DEF P, whole
<1>6. ASSUME NEW b \in DOMAIN whole
      PROVE  mem[b] = whole[b] \/ \E q \in 0 .. i.height - 1, o \in 0 .. Row(i) - 1 : b = MemStart(i) + q * Step(i.mem_step, i) + o
  <2>1. CASE \E p \in Places(i) : MemByte(i, p) = b
    <3>1. PICK p \in Places(i) : MemByte(i, p) = b
      BY <2>1
    <3>2. p[2] \in 0 .. i.height - 1 /\ p[1] * i.pixel + p[3] \in 0 .. Row(i) - 1
      BY PlaceInRow
    <3>3. b = MemStart(i) + p[2] * Step(i.mem_step, i) + (p[1] * i.pixel + p[3])
      BY <3>1, BytesAre
    <3> QED
      BY <3>2, <3>3
  <2> QED
    BY <1>5, <2>1
<1>7. ASSUME NEW q \in 0 .. i.height - 1, NEW o \in 0 .. Row(i) - 1, MemStart(i) + q * Step(i.mem_step, i) + o \in DOMAIN whole
      PROVE  whole[MemStart(i) + q * Step(i.mem_step, i) + o] = buf[HostStart(i) + q * Step(i.host_step, i) + o]
  <2>1. PICK p \in Places(i) : p[2] = q /\ p[1] * i.pixel + p[3] = o
    BY PlaceAt
  <2>2. MemByte(i, p) = MemStart(i) + q * Step(i.mem_step, i) + o /\ HostByte(i, p) = HostStart(i) + q * Step(i.host_step, i) + o
    BY <2>1, BytesAre
  <2> QED
    BY <1>4, <1>7, <2>2
<1>8. Done(mem, whole, buf, MemStart(i), Step(i.mem_step, i), HostStart(i), Step(i.host_step, i), Row(i), 0, i.height)
  BY <1>5, <1>6, <1>7 DEF Done
<1> QED
  BY <1>8 DEF whole

\* So does a read.
LEMMA ReadBegins ==
  ASSUME AccOK, NEW i \in Images, Fits(i), buf = [b \in DOMAIN buf |-> buf[b]]
  PROVE  Done(buf, Pasted(buf, mem, i, HostByte, MemByte), mem,
              HostStart(i), Step(i.host_step, i), MemStart(i), Step(i.mem_step, i), Row(i), 0, i.height)
<1> DEFINE whole == Pasted(buf, mem, i, HostByte, MemByte)
           P(b) == CHOOSE p \in Places(i) : HostByte(i, p) = b
<1>0. /\ Step(i.host_step, i) \in Nat /\ Step(i.mem_step, i) \in Nat /\ HostStart(i) \in Nat /\ MemStart(i) \in Nat
      /\ Row(i) \in Nat /\ i.height \in Nat
  BY ImageIs DEF AccOK
<1>1. Step(i.host_step, i) >= Row(i)
  BY <1>0 DEF Fits, Step, Row
<1>2. whole = [b \in DOMAIN buf |-> IF \E p \in Places(i) : HostByte(i, p) = b THEN mem[MemByte(i, P(b))] ELSE buf[b]]
  BY DEF Pasted
<1>3. ASSUME NEW p \in Places(i) PROVE P(HostByte(i, p)) = p
  <2> DEFINE q == P(HostByte(i, p))
  <2>1. q \in Places(i) /\ HostByte(i, q) = HostByte(i, p)
    OBVIOUS
  <2> HIDE DEF q
  <2> DEFINE a == p[2] * Step(i.host_step, i)
             b == q[2] * Step(i.host_step, i)
             o == p[1] * i.pixel + p[3]
             u == q[1] * i.pixel + q[3]
  <2>2. HostByte(i, p) = HostStart(i) + a + o /\ HostByte(i, q) = HostStart(i) + b + u
    BY <2>1, BytesAre
  <2>3. a \in Nat /\ b \in Nat /\ o \in Nat /\ u \in Nat
    <3>1. p[2] \in Nat /\ q[2] \in Nat /\ o \in Nat /\ u \in Nat
      BY <1>0, <2>1, PlaceInRow, ImageIs
    <3> QED
      BY <1>0, <3>1, ProductIsNat
  <2>4. a + o = b + u
    <3> HIDE DEF a, b, o, u
    <3> QED
      BY <1>0, <2>1, <2>2, <2>3
  <2>5. p = q
    BY <1>0, <1>1, <2>1, <2>4, PlacesDiffer
  <2> QED
    BY <2>5 DEF q
<1>4. ASSUME NEW p \in Places(i), HostByte(i, p) \in DOMAIN whole PROVE whole[HostByte(i, p)] = mem[MemByte(i, p)]
  <2>1. whole[HostByte(i, p)] = mem[MemByte(i, P(HostByte(i, p)))]
    <3> HIDE DEF P, whole
    <3> QED
      BY <1>2, <1>4
  <2> HIDE DEF P, whole
  <2> QED
    BY <1>3, <2>1
<1>5. /\ DOMAIN whole = DOMAIN buf /\ whole = [b \in DOMAIN whole |-> whole[b]]
      /\ \A b \in DOMAIN whole : buf[b] = whole[b] \/ \E p \in Places(i) : HostByte(i, p) = b
  <2> HIDE DEF P, whole
  <2> QED
    BY <1>2
<1> HIDE DEF P, whole
<1>6. ASSUME NEW b \in DOMAIN whole
      PROVE  buf[b] = whole[b] \/ \E q \in 0 .. i.height - 1, o \in 0 .. Row(i) - 1 : b = HostStart(i) + q * Step(i.host_step, i) + o
  <2>1. CASE \E p \in Places(i) : HostByte(i, p) = b
    <3>1. PICK p \in Places(i) : HostByte(i, p) = b
      BY <2>1
    <3>2. p[2] \in 0 .. i.height - 1 /\ p[1] * i.pixel + p[3] \in 0 .. Row(i) - 1
      BY PlaceInRow
    <3>3. b = HostStart(i) + p[2] * Step(i.host_step, i) + (p[1] * i.pixel + p[3])
      BY <3>1, BytesAre
    <3> QED
      BY <3>2, <3>3
  <2> QED
    BY <1>5, <2>1
<1>7. ASSUME NEW q \in 0 .. i.height - 1, NEW o \in 0 .. Row(i) - 1, HostStart(i) + q * Step(i.host_step, i) + o \in DOMAIN whole
      PROVE  whole[HostStart(i) + q * Step(i.host_step, i) + o] = mem[MemStart(i) + q * Step(i.mem_step, i) + o]
  <2>1. PICK p \in Places(i) : p[2] = q /\ p[1] * i.pixel + p[3] = o
    BY PlaceAt
  <2>2. HostByte(i, p) = HostStart(i) + q * Step(i.host_step, i) + o /\ MemByte(i, p) = MemStart(i) + q * Step(i.mem_step, i) + o
    BY <2>1, BytesAre
  <2> QED
    BY <1>4, <1>7, <2>2
<1>8. Done(buf, whole, mem, HostStart(i), Step(i.host_step, i), MemStart(i), Step(i.mem_step, i), Row(i), 0, i.height)
  BY <1>5, <1>6, <1>7 DEF Done
<1> QED
  BY <1>8 DEF whole

\* The locals of an image call at row y.
Locals(dir, i, y) ==
  [dir |-> dir, y |-> y, height |-> i.height, row |-> i.width * i.pixel,
   host |-> HostStart(i) + y * Step(i.host_step, i), host_step |-> Step(i.host_step, i),
   addr |-> MemStart(i) + y * Step(i.mem_step, i), mem_step |-> Step(i.mem_step, i)]

Writing(i, y) ==
  /\ copy = Locals("write", i, y) /\ buf = goal.buf
  /\ Done(mem, goal.mem, buf, MemStart(i), Step(i.mem_step, i), HostStart(i), Step(i.host_step, i), Row(i), y, i.height)

Reading(i, y) ==
  /\ copy = Locals("read", i, y) /\ mem = goal.mem
  /\ Done(buf, goal.buf, mem, HostStart(i), Step(i.host_step, i), MemStart(i), Step(i.mem_step, i), Row(i), y, i.height)

\* An image call in progress has copied the rows before y.
CopyInv ==
  /\ AccOK
  /\ mem = [b \in DOMAIN mem |-> mem[b]] /\ buf = [b \in DOMAIN buf |-> buf[b]]
  /\ copy # Idle => \E i \in Images : \E y \in 0 .. i.height : Writing(i, y) \/ Reading(i, y)

\* An image call begins.
LEMMA ImageBegins ==
  ASSUME CopyInv, NEW i \in Images, WriteImage2d(i) \/ ReadImage2d(i), AccOK'
  PROVE  CopyInv'
<1>1. /\ Fits(i) /\ UNCHANGED <<mem, buf, acc>>
      /\ mem = [b \in DOMAIN mem |-> mem[b]] /\ buf = [b \in DOMAIN buf |-> buf[b]]
  BY DEF WriteImage2d, ReadImage2d, Image2d, CopyInv
<1>2. /\ 0 \in 0 .. i.height
      /\ HostStart(i) + 0 * Step(i.host_step, i) = HostStart(i)
      /\ MemStart(i) + 0 * Step(i.mem_step, i) = MemStart(i)
      /\ MemStart(i)' = MemStart(i)
  BY <1>1, ImageIs DEF CopyInv, AccOK, MemStart
<1>3. CASE WriteImage2d(i)
  <2>1. copy' = Locals("write", i, 0) /\ goal' = [mem |-> Pasted(mem, buf, i, MemByte, HostByte), buf |-> buf]
    BY <1>2, <1>3 DEF WriteImage2d, Image2d, Locals
  <2>2. Done(mem, goal'.mem, buf, MemStart(i), Step(i.mem_step, i), HostStart(i), Step(i.host_step, i), Row(i), 0, i.height)
    BY <1>1, <2>1, WriteBegins DEF CopyInv
  <2>3. Locals("write", i, 0)' = Locals("write", i, 0)
    BY <1>2 DEF Locals
  <2>4. Writing(i, 0)'
    BY <1>1, <1>2, <2>1, <2>2, <2>3 DEF Writing
  <2> QED
    BY <1>1, <1>2, <2>4 DEF CopyInv
<1>4. CASE ReadImage2d(i)
  <2>1. copy' = Locals("read", i, 0) /\ goal' = [mem |-> mem, buf |-> Pasted(buf, mem, i, HostByte, MemByte)]
    BY <1>2, <1>4 DEF ReadImage2d, Image2d, Locals
  <2>2. Done(buf, goal'.buf, mem, HostStart(i), Step(i.host_step, i), MemStart(i), Step(i.mem_step, i), Row(i), 0, i.height)
    BY <1>1, <2>1, ReadBegins DEF CopyInv
  <2>3. Locals("read", i, 0)' = Locals("read", i, 0)
    BY <1>2 DEF Locals
  <2>4. Reading(i, 0)'
    BY <1>1, <1>2, <2>1, <2>2, <2>3 DEF Reading
  <2> QED
    BY <1>1, <1>2, <2>4 DEF CopyInv
<1> QED
  BY <1>3, <1>4

\* The locals move on by one row.
LEMMA LocalsMove ==
  ASSUME AccOK, NEW i \in Images, NEW y \in Nat, NEW dir, copy = Locals(dir, i, y), NextRow, acc' = acc
  PROVE  copy' = Locals(dir, i, y + 1) /\ Locals(dir, i, y + 1)' = Locals(dir, i, y + 1)
<1>0. /\ Step(i.host_step, i) \in Nat /\ Step(i.mem_step, i) \in Nat
      /\ HostStart(i) \in Nat /\ MemStart(i) \in Nat
  BY ImageIs DEF AccOK
<1>1. /\ (y + 1) * Step(i.host_step, i) = y * Step(i.host_step, i) + Step(i.host_step, i)
      /\ (y + 1) * Step(i.mem_step, i) = y * Step(i.mem_step, i) + Step(i.mem_step, i)
      /\ y * Step(i.host_step, i) \in Nat /\ y * Step(i.mem_step, i) \in Nat
  BY <1>0, NextRowIs, ProductIsNat
<1>2. copy' = [dir |-> dir, y |-> y + 1, height |-> i.height, row |-> i.width * i.pixel,
               host |-> HostStart(i) + y * Step(i.host_step, i) + Step(i.host_step, i), host_step |-> Step(i.host_step, i),
               addr |-> MemStart(i) + y * Step(i.mem_step, i) + Step(i.mem_step, i), mem_step |-> Step(i.mem_step, i)]
  BY DEF NextRow, Locals
<1>3. /\ HostStart(i) + y * Step(i.host_step, i) + Step(i.host_step, i) = HostStart(i) + (y + 1) * Step(i.host_step, i)
      /\ MemStart(i) + y * Step(i.mem_step, i) + Step(i.mem_step, i) = MemStart(i) + (y + 1) * Step(i.mem_step, i)
  BY <1>0, <1>1
<1>4. MemStart(i)' = MemStart(i)
  BY DEF MemStart
<1> QED
  BY <1>2, <1>3, <1>4 DEF Locals

\* One row is copied.
LEMMA ImageRow == ASSUME CopyInv, CopyRow, AccOK' PROVE CopyInv'
<1>0. AccOK /\ acc' = acc /\ goal' = goal /\ NextRow /\ copy # Idle /\ copy.y < copy.height
  BY DEF CopyRow, CopyInv
<1>1. PICK i \in Images : \E y \in 0 .. i.height : Writing(i, y) \/ Reading(i, y)
  BY <1>0 DEF CopyInv
<1>2. PICK y \in 0 .. i.height : Writing(i, y) \/ Reading(i, y)
  BY <1>1
<1>3. copy.y = y /\ copy.height = i.height
  BY <1>2 DEF Writing, Reading, Locals
<1>4. /\ i.height \in Nat /\ Row(i) \in Nat /\ Step(i.host_step, i) \in Nat /\ Step(i.mem_step, i) \in Nat
      /\ HostStart(i) \in Nat /\ MemStart(i) \in Nat
  BY <1>0, ImageIs DEF AccOK
<1>5. y \in 0 .. i.height - 1 /\ y + 1 \in 0 .. i.height /\ y \in Nat
  BY <1>0, <1>3, <1>4
<1>6. MemStart(i)' = MemStart(i)
  BY <1>0 DEF MemStart
<1>7. CASE Writing(i, y)
  <2>1. /\ copy.dir = "write" /\ copy.addr = MemStart(i) + y * Step(i.mem_step, i)
        /\ copy.host = HostStart(i) + y * Step(i.host_step, i) /\ copy.row = Row(i)
    BY <1>7 DEF Writing, Locals, Row
  <2>2. mem' = MemCopy(mem, copy.addr, buf, copy.host, copy.row) /\ buf' = buf
    BY <2>1 DEF CopyRow
  <2>3. Done(mem', goal.mem, buf, MemStart(i), Step(i.mem_step, i), HostStart(i), Step(i.host_step, i), Row(i), y + 1, i.height)
    BY <1>4, <1>5, <1>7, <2>1, <2>2, RowDone DEF Writing
  <2>4. copy' = Locals("write", i, y + 1) /\ Locals("write", i, y + 1)' = Locals("write", i, y + 1)
    BY <1>0, <1>5, <1>7, LocalsMove DEF Writing
  <2>5. Writing(i, y + 1)'
    BY <1>0, <1>6, <1>7, <2>2, <2>3, <2>4 DEF Writing
  <2>6. mem' = [b \in DOMAIN mem' |-> mem'[b]] /\ buf' = [b \in DOMAIN buf' |-> buf'[b]]
    BY <2>2 DEF MemCopy, CopyInv
  <2> QED
    BY <1>5, <2>5, <2>6 DEF CopyInv
<1>8. CASE Reading(i, y)
  <2>1. /\ copy.dir = "read" /\ copy.addr = MemStart(i) + y * Step(i.mem_step, i)
        /\ copy.host = HostStart(i) + y * Step(i.host_step, i) /\ copy.row = Row(i)
    BY <1>8 DEF Reading, Locals, Row
  <2>2. buf' = MemCopy(buf, copy.host, mem, copy.addr, copy.row) /\ mem' = mem
    BY <2>1 DEF CopyRow
  <2>3. Done(buf', goal.buf, mem, HostStart(i), Step(i.host_step, i), MemStart(i), Step(i.mem_step, i), Row(i), y + 1, i.height)
    BY <1>4, <1>5, <1>8, <2>1, <2>2, RowDone DEF Reading
  <2>4. copy' = Locals("read", i, y + 1) /\ Locals("read", i, y + 1)' = Locals("read", i, y + 1)
    BY <1>0, <1>5, <1>8, LocalsMove DEF Reading
  <2>5. Reading(i, y + 1)'
    BY <1>0, <1>6, <1>8, <2>2, <2>3, <2>4 DEF Reading
  <2>6. mem' = [b \in DOMAIN mem' |-> mem'[b]] /\ buf' = [b \in DOMAIN buf' |-> buf'[b]]
    BY <2>2 DEF MemCopy, CopyInv
  <2> QED
    BY <1>5, <2>5, <2>6 DEF CopyInv
<1> QED
  BY <1>2, <1>7, <1>8

\* Every step keeps the account of the rows.
LEMMA CopyStep == CopyInv /\ [Next]_vars => CopyInv'
<1> SUFFICES ASSUME CopyInv, [Next]_vars PROVE CopyInv'
  OBVIOUS
<1>0. AccOK /\ AccOK'
  BY AStep DEF CopyInv
<1>1. CASE Derive
  <2>1. copy' = Idle /\ mem' = mem /\ buf' = buf
    BY <1>0, <1>1, DeriveDoes
  <2> QED
    BY <1>0, <2>1 DEF CopyInv
<1>2. ASSUME NEW a, NEW s, NEW v, Store(a, s, v) PROVE CopyInv'
  <2>1. copy' = Idle /\ buf' = buf
    BY <1>2, StoreDoes
  <2>2. mem' = [b \in DOMAIN mem' |-> mem'[b]]
    BY <1>2, StoreDoes
  <2> QED
    BY <1>0, <2>1, <2>2 DEF CopyInv
<1>3. CASE \E i \in Images : WriteImage2d(i) \/ ReadImage2d(i)
  BY <1>0, <1>3, ImageBegins
<1>4. CASE CopyRow
  BY <1>0, <1>4, ImageRow
<1>5. CASE Return
  BY <1>0, <1>5 DEF Return, CopyInv
<1>6. CASE UNCHANGED vars
  BY <1>0, <1>6 DEF vars, CopyInv, Writing, Reading, Locals, MemStart
<1> QED
  BY <1>1, <1>2, <1>3, <1>4, <1>5, <1>6 DEF Next, WriteReg_, WriteMem_

\* The row loops of ReadImage2d and WriteImage2d copy exactly the pixels asked
\* for, and touch no other byte, for every size, step and offset that stays
\* inside and whose rows do not overlap (MemAccessor.h:220-252).
THEOREM ImagesAreCopied == Spec => []CopiesPixels
<1>1. Init => CopyInv
  BY AInit, MemAssumption DEF Init, CopyInv
<1>2. ASSUME CopyInv PROVE CopiesPixels
  <2> SUFFICES ASSUME copy # Idle, copy.y = copy.height PROVE mem = goal.mem /\ buf = goal.buf
    BY DEF CopiesPixels
  <2>1. PICK i \in Images : \E y \in 0 .. i.height : Writing(i, y) \/ Reading(i, y)
    BY <1>2 DEF CopyInv
  <2>2. PICK y \in 0 .. i.height : Writing(i, y) \/ Reading(i, y)
    BY <2>1
  <2>3. y = i.height /\ i.height \in Nat
    BY <2>2, ImageIs DEF Writing, Reading, Locals
  <2>4. CASE Writing(i, y)
    BY <2>3, <2>4, AllDone DEF Writing
  <2>5. CASE Reading(i, y)
    BY <2>3, <2>5, AllDone DEF Reading
  <2> QED
    BY <2>2, <2>4, <2>5
<1> QED
  BY <1>1, <1>2, CopyStep, PTL DEF Spec
=============================================================================
