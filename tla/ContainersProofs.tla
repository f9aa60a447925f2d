--------------------------- MODULE ContainersProofs ---------------------------
(***************************************************************************)
(* Proofs about Containers: for every layout of ELF, Mach-O and PE file that *)
(* is loadable, every payload and every alignment, a write leaves a loadable  *)
(* file, moves what it moves with all that points to it, and can be repeated. *)
(*                                                                         *)
(* First the arithmetic of alignment and the two operations on bytes, then   *)
(* one part for each writer that ends in a lemma on its step, and the         *)
(* theorems about all formats.                                               *)
(***************************************************************************)
EXTENDS Containers, WellFoundedInduction, TLAPS

(* A set of numbers that is not empty has a smallest member: what RoomEnd chooses. *)
LEMMA SmallestOf ==
  ASSUME NEW S \in SUBSET Nat, S # {}
  PROVE  \E m \in S : \A n \in S : m <= n
<1>1. PICK m \in S : \A n \in S : ~(<<n, m>> \in OpToRel(<, Nat))
  BY NatLessThanWellFounded, WFMin
<1>2. \A n \in S : ~(n < m)
  BY <1>1 DEF OpToRel
<1> QED  BY <1>2

(* One that is bounded too has a largest member: what ImageEnd chooses. *)
LEMMA LargestOf ==
  ASSUME NEW S \in SUBSET Nat, S # {}, NEW bound \in Nat, \A n \in S : n <= bound
  PROVE  \E m \in S : \A n \in S : n <= m
<1> DEFINE U == {u \in Nat : \A n \in S : n <= u}
<1>1. U \in SUBSET Nat /\ bound \in U
  OBVIOUS
<1>2. PICK m \in U : \A u \in U : m <= u
  <2> HIDE DEF U
  <2> QED  BY <1>1, SmallestOf
<1>3. m \in S
  <2>1. SUFFICES ASSUME m \notin S PROVE FALSE
    OBVIOUS
  <2>2. \A n \in S : n < m
    BY <2>1
  <2>3. PICK k \in S : k < m
    BY <2>2
  <2>4. PICK l \in Nat : m = l + 1
    <3>1. m \in Nat /\ k \in Nat
      OBVIOUS
    <3> QED  BY <2>3, <3>1
  <2>5. \A n \in S : n <= l
    BY <2>2, <2>4
  <2>6. l \in U
    BY <2>5
  <2> QED  BY <1>2, <2>4, <2>6
<1> QED  BY <1>3

(* Quotient and remainder. *)
LEMMA DivMod ==
  ASSUME NEW v \in Nat, NEW a \in Nat \ {0}
  PROVE  /\ v % a \in 0 .. a - 1
         /\ v \div a \in Nat
         /\ v = a * (v \div a) + (v % a)
BY SMT

(* A multiple leaves no remainder. *)
LEMMA MultipleMod ==
  ASSUME NEW k \in Nat, NEW a \in Nat \ {0}
  PROVE  (a * k) % a = 0
BY SMT

(* Aligning gives the next multiple of the alignment. *)
LEMMA AlignUpMultiple ==
  ASSUME NEW v \in Nat, NEW a \in Nat \ {0}
  PROVE  \E k \in Nat : /\ AlignUp(v, a) = a * k
                        /\ v <= a * k /\ a * k < v + a
<1>1. PICK q \in Nat, r \in 0 .. a - 1 : r = v % a /\ v = a * q + r
  BY DivMod
<1>2. q + 1 \in Nat /\ a * (q + 1) = a * q + a /\ a * q \in Nat
  BY <1>1
<1>3. CASE r = 0
  <2>1. AlignUp(v, a) = a * q
    BY <1>1, <1>2, <1>3 DEF AlignUp
  <2> QED  BY <2>1, <1>1, <1>2, <1>3
<1>4. CASE r # 0
  <2>1. AlignUp(v, a) = a * (q + 1)
    BY <1>1, <1>2, <1>4 DEF AlignUp
  <2> QED  BY <2>1, <1>1, <1>2, <1>4
<1> QED  BY <1>3, <1>4

(* Aligning does not make smaller, and what it makes is aligned. *)
LEMMA AlignUpFacts ==
  ASSUME NEW v \in Nat, NEW a \in Nat \ {0}
  PROVE  /\ AlignUp(v, a) \in Nat
         /\ v <= AlignUp(v, a)
         /\ AlignUp(v, a) % a = 0
<1>1. PICK k \in Nat : AlignUp(v, a) = a * k /\ v <= a * k /\ a * k < v + a
  BY AlignUpMultiple
<1> QED  BY <1>1, MultipleMod

(* Of two sizes, the smaller does not need more pages. *)
LEMMA AlignUpMonotone ==
  ASSUME NEW v \in Nat, NEW w \in Nat, v <= w, NEW a \in Nat \ {0}
  PROVE  AlignUp(v, a) <= AlignUp(w, a)
<1>1. PICK k \in Nat : AlignUp(v, a) = a * k /\ v <= a * k /\ a * k < v + a
  BY AlignUpMultiple
<1>2. PICK m \in Nat : AlignUp(w, a) = a * m /\ w <= a * m /\ a * m < w + a
  BY AlignUpMultiple
<1>3. a * k < a * (m + 1)
  BY <1>1, <1>2
<1>4. k <= m
  BY <1>3
<1> QED  BY <1>1, <1>2, <1>4

(* What Gap does to the bytes: those before it stay, it is zero, those behind it move. *)
GapMade(new, bytes, size, at, growth) ==
  /\ new \in Files(size + growth)
  /\ \A i \in 0 .. at - 1 : new[i] = bytes[i]
  /\ \A i \in at .. at + growth - 1 : new[i] = 0
  /\ \A i \in at .. size - 1 : new[i + growth] = bytes[i]

(* Gap does that to every file, wherever in it the gap is. *)
LEMMA GapFacts ==
  ASSUME NEW size \in Nat, NEW bytes \in Files(size), NEW at \in 0 .. size, NEW growth \in Nat
  PROVE  GapMade(Gap(bytes, size, at, growth), bytes, size, at, growth)
BY DEF Gap, Files, GapMade

(* Put writes into its room only, zeros what it leaves of it, and what it writes is what
   the reader finds there. *)
LEMMA PutFacts ==
  ASSUME NEW size \in Nat, NEW bytes \in Files(size), NEW at \in Nat, NEW capacity \in Nat,
         at + capacity <= size, NEW payload \in Seq(Nat), Required(payload) <= capacity
  PROVE  /\ Put(bytes, at, capacity, payload) \in Files(size)
         /\ \A i \in 0 .. size - 1 : i \notin at .. at + capacity - 1 =>
              Put(bytes, at, capacity, payload)[i] = bytes[i]
         /\ Put(bytes, at, capacity, payload)[at] = Len(payload)
         /\ \A i \in at + Required(payload) .. at + capacity - 1 :
              Put(bytes, at, capacity, payload)[i] = 0
         /\ PayloadAt(Put(bytes, at, capacity, payload), at) = payload
<1> USE WidthAssumption
<1> DEFINE new == Put(bytes, at, capacity, payload)
<1>1. \A i \in Nat : Cell(payload, i) \in Nat
  BY DEF Cell
<1>2. /\ DOMAIN bytes = 0 .. size - 1
      /\ \A i \in 0 .. size - 1 : bytes[i] \in Nat
  BY DEF Files
<1>3. /\ new = [i \in 0 .. size - 1 |-> new[i]]
      /\ \A i \in 0 .. size - 1 : i \in at .. at + capacity - 1 => new[i] = Cell(payload, i - at)
      /\ \A i \in 0 .. size - 1 : i \notin at .. at + capacity - 1 => new[i] = bytes[i]
  BY <1>2 DEF Put
<1> HIDE DEF new
<1>4. ASSUME NEW i \in 0 .. capacity - 1
      PROVE  new[at + i] = Cell(payload, i)
  <2>1. PICK k \in 0 .. size - 1 : k = at + i
    OBVIOUS
  <2>2. new[k] = Cell(payload, k - at) /\ k - at = i
    BY <2>1, <1>3
  <2> QED  BY <2>1, <2>2, Zenon
<1>5. new \in Files(size)
  <2>1. ASSUME NEW i \in 0 .. size - 1
        PROVE  new[i] \in Nat
    <3>1. CASE i \in at .. at + capacity - 1
      <4>1. new[i] = Cell(payload, i - at) /\ i - at \in Nat
        BY <3>1, <1>3
      <4> QED  BY <4>1, <1>1
    <3>2. CASE i \notin at .. at + capacity - 1
      BY <3>2, <1>2, <1>3
    <3> QED  BY <3>1, <3>2
  <2> QED  BY <2>1, <1>3 DEF Files
<1>6. Required(payload) = Width + Len(payload) /\ Len(payload) \in Nat
  BY DEF Required
<1>7. new[at] = Len(payload)
  <2>1. 0 \in 0 .. capacity - 1 /\ at + 0 = at
    BY <1>6
  <2> QED  BY <2>1, <1>4 DEF Cell
<1>8. ASSUME NEW i \in at + Required(payload) .. at + capacity - 1
      PROVE  new[i] = 0
  <2>1. i - at \in Required(payload) .. capacity - 1 /\ i - at \in 0 .. capacity - 1
        /\ i = at + (i - at)
    BY <1>6
  <2>2. new[i] = Cell(payload, i - at)
    BY <2>1, <1>4
  <2> QED  BY <2>1, <2>2, <1>6 DEF Cell
<1>9. ASSUME NEW i \in 1 .. Len(payload)
      PROVE  new[at + Width + i - 1] = payload[i]
  <2>1. Width + i - 1 \in 0 .. capacity - 1 /\ at + (Width + i - 1) = at + Width + i - 1
    BY <1>6
  <2>2. Cell(payload, Width + i - 1) = payload[i]
    BY <1>6 DEF Cell
  <2> QED  BY <2>1, <2>2, <1>4
<1>10. PayloadAt(new, at) = payload
  BY <1>7, <1>9 DEF PayloadAt
<1> QED  BY <1>3, <1>5, <1>7, <1>8, <1>10 DEF new

(* A stretch of b is found in c, by cells further back. *)
Moved(b, c, from, length, by) == \A i \in from .. from + length - 1 : c[i + by] = b[i]

(* A region whose bytes moved, has the same content at its new place. *)
LEMMA SliceMoved ==
  ASSUME NEW b, NEW c, NEW from \in Nat, NEW length \in Nat, NEW by \in Nat,
         Moved(b, c, from, length, by)
  PROVE  Slice(c, from + by, length) = Slice(b, from, length)
<1>1. ASSUME NEW i \in 0 .. length - 1
      PROVE  c[from + by + i] = b[from + i]
  <2>1. from + i \in from .. from + length - 1 /\ (from + i) + by = from + by + i
    OBVIOUS
  <2> QED  BY <2>1 DEF Moved
<1> QED  BY <1>1 DEF Slice

(* A stretch of b is found in c, at the same place. *)
Kept(b, c, from, length) == \A i \in from .. from + length - 1 : c[i] = b[i]

(* A region whose bytes stayed, has the same content. *)
LEMMA SliceKept ==
  ASSUME NEW b, NEW c, NEW from \in Nat, NEW length \in Nat,
         Kept(b, c, from, length)
  PROVE  Slice(c, from, length) = Slice(b, from, length)
<1>1. ASSUME NEW i \in 0 .. length - 1
      PROVE  c[from + i] = b[from + i]
  <2>1. from + i \in from .. from + length - 1
    OBVIOUS
  <2> QED  BY <2>1 DEF Kept
<1> QED  BY <1>1 DEF Slice

(* Wherever it is, a region of no bytes has the same content. *)
LEMMA EmptySlice == \A b, c, from, to : Slice(b, from, 0) = Slice(c, to, 0)
BY DEF Slice

-----------------------------------------------------------------------------
(* Mach-O *)

(* The two segments that the writer names. *)
LEMMA MachoNames ==
  /\ Bun \in MachoSegments /\ Linkedit \in MachoSegments /\ Bun # Linkedit
BY ContainersAssumption DEF Macho!Assumption

(* There is an alignment. *)
LEMMA MachoAlignment == Alignment \in Nat \ {0}
BY ContainersAssumption DEF Macho!Assumption

(* References and segments have names of their own. *)
LEMMA RefsAreNoSegments == Refs \cap MachoSegments = {}
BY ContainersAssumption DEF Macho!Assumption

(* The writer's operators on bytes are those of FileBytes. *)
LEMMA MachoBytes ==
  /\ \A n : Macho!Files(n) = Files(n)
  /\ \A b, from, length : Macho!Slice(b, from, length) = Slice(b, from, length)
  /\ \A b, n, at, growth : Macho!Gap(b, n, at, growth) = Gap(b, n, at, growth)
  /\ \A payload : Macho!Required(payload) = Required(payload)
  /\ \A b, at, capacity, payload :
       Macho!Put(b, at, capacity, payload) = Put(b, at, capacity, payload)
  /\ \A b, at : Macho!PayloadAt(b, at) = PayloadAt(b, at)
  /\ \A v, a : Macho!AlignUp(v, a) = AlignUp(v, a)
BY DEF Macho!Files, Files, Macho!Slice, Slice, Macho!Gap, Gap, Macho!Required, Required,
       Macho!Put, Put, Macho!Cell, Cell, Macho!PayloadAt, PayloadAt, Macho!AlignUp, AlignUp

(* The types of the fields of a Mach-O file. *)
LEMMA MachoFields ==
  ASSUME NEW f, Macho!IsMacho(f)
  PROVE  /\ f.size \in Nat /\ f.bytes \in Files(f.size) /\ f.commandsEnd \in Nat
         /\ \A s \in MachoSegments : /\ f.segments[s].fileoff \in Nat
                                     /\ f.segments[s].filesize \in Nat
                                     /\ f.segments[s].vmaddr \in Nat
                                     /\ f.segments[s].vmsize \in Nat
         /\ f.section.offset \in Nat /\ f.section.addr \in Nat /\ f.section.size \in Nat
         /\ \A r \in Refs : /\ f.refs[r].offset \in Nat
                            /\ f.refs[r].size \in Nat
                            /\ f.refs[r].kind \in Macho!Kind
                            /\ f.refs[r].crypt \in BOOLEAN
BY MachoBytes DEF Macho!IsMacho, Macho!SegmentCommand, Macho!SectionHeader, Macho!Reference

(* Filling __BUN changes no other region, and leaves a file that is loadable, mapped and
   growable if it was. *)
LEMMA MachoFilled ==
  ASSUME NEW f, Macho!IsMacho(f), Macho!Loadable(f), NEW payload \in Seq(Nat),
         Required(payload) <= f.segments[Bun].filesize,
         NEW g, g = Macho!Filled(f, f.segments[Bun].filesize, payload)
  PROVE  /\ Macho!IsMacho(g)
         /\ Macho!Loadable(g)
         /\ PayloadAt(g.bytes, Macho!BunStart(g)) = payload
         /\ \A r \in Macho!Regions : Macho!Region(g, r) = Macho!Region(f, r)
         /\ g.section.addr = f.section.addr
         /\ Macho!Mapped(f) => Macho!Mapped(g)
         /\ Macho!Growable(f) => Macho!Growable(g)
<1> USE MachoNames, WidthAssumption
<1>0. PICK start, room : start = f.segments[Bun].fileoff /\ room = f.segments[Bun].filesize
  OBVIOUS
<1>1. /\ f.size \in Nat /\ f.bytes \in Files(f.size) /\ start \in Nat /\ room \in Nat
      /\ start + room <= f.size
      /\ Macho!BunStart(f) = start /\ Macho!BunEnd(f) = start + room
  BY <1>0, MachoFields DEF Macho!Loadable, Macho!FileEnd, Macho!BunStart, Macho!BunEnd
<1>2. /\ g = [f EXCEPT !.bytes = Put(f.bytes, start, room, payload), !.section.size = Required(payload)]
      /\ Required(payload) \in Nat /\ Required(payload) = Width + Len(payload)
      /\ Len(payload) \in Nat
  <2>1. /\ Macho!Put(f.bytes, start, room, payload) = Put(f.bytes, start, room, payload)
        /\ Macho!Required(payload) = Required(payload)
    BY MachoBytes
  <2>2. g = [f EXCEPT !.bytes = Put(f.bytes, start, room, payload), !.section.size = Required(payload)]
    BY <2>1, <1>0, <1>1 DEF Macho!Filled
  <2> QED  BY <2>2 DEF Required
<1>3. /\ g.bytes = Put(f.bytes, start, room, payload)
      /\ g.section = [f.section EXCEPT !.size = Required(payload)]
      /\ g.size = f.size /\ g.commandsEnd = f.commandsEnd
      /\ g.segments = f.segments /\ g.refs = f.refs
      /\ g = [size |-> g.size, bytes |-> g.bytes, commandsEnd |-> g.commandsEnd,
              segments |-> g.segments, section |-> g.section, refs |-> g.refs]
  BY <1>2 DEF Macho!IsMacho
<1>4. /\ g.bytes \in Files(f.size)
      /\ \A i \in 0 .. f.size - 1 : i \notin start .. start + room - 1 => g.bytes[i] = f.bytes[i]
      /\ g.bytes[start] = Len(payload)
      /\ PayloadAt(g.bytes, start) = payload
  <2> DEFINE new == Put(f.bytes, start, room, payload)
  <2>1. /\ new \in Files(f.size)
        /\ \A i \in 0 .. f.size - 1 : i \notin start .. start + room - 1 => new[i] = f.bytes[i]
        /\ new[start] = Len(payload)
        /\ PayloadAt(new, start) = payload
    <3> HIDE DEF new
    <3>1. Required(payload) <= room
      BY <1>0
    <3> QED  BY <1>1, <3>1, PutFacts DEF new
  <2> QED  BY <2>1, <1>3
<1>5. /\ g.section.size = Required(payload) /\ g.section.addr = f.section.addr
      /\ g.section.offset = f.section.offset
      /\ g.section \in Macho!SectionHeader
  BY <1>2, <1>3 DEF Macho!IsMacho, Macho!SectionHeader
<1>6. Macho!IsMacho(g)
  <2>1. g.bytes \in Macho!Files(g.size)
    BY <1>3, <1>4, MachoBytes
  <2> QED  BY <1>3, <1>5, <2>1 DEF Macho!IsMacho
<1>7. Macho!Live(g) = Macho!Live(f) /\ Macho!BunStart(g) = start /\ Macho!BunEnd(g) = start + room
  BY <1>0, <1>3 DEF Macho!Live, Macho!BunStart, Macho!BunEnd, Macho!FileEnd
<1>8. Macho!Loadable(g)
  BY <1>0, <1>1, <1>2, <1>3, <1>4, <1>5, <1>7 DEF Macho!Loadable, Macho!FileEnd, Macho!MemoryEnd
<1>9. ASSUME NEW r \in Macho!Regions
      PROVE  Macho!Region(g, r) = Macho!Region(f, r)
  <2>1. ASSUME NEW from \in Nat, NEW length \in Nat, from + length <= f.size,
               length = 0 \/ room = 0 \/ from + length <= start \/ start + room <= from
        PROVE  Macho!Slice(g.bytes, from, length) = Macho!Slice(f.bytes, from, length)
    <3>1. Kept(f.bytes, g.bytes, from, length)
      BY <2>1, <1>1, <1>4 DEF Kept
    <3>2. Slice(g.bytes, from, length) = Slice(f.bytes, from, length)
      BY <3>1, SliceKept
    <3> QED  BY <3>2, MachoBytes
  <2>2. CASE r = "head"
    BY <2>1, <2>2, <1>1, <1>7 DEF Macho!Region
  <2>3. CASE r = "tail"
    <3>1. PICK length \in Nat : length = f.size - (start + room) /\ start + room + length = f.size
      BY <1>1
    <3>2. Macho!Slice(g.bytes, start + room, length) = Macho!Slice(f.bytes, start + room, length)
      BY <2>1, <3>1, <1>1
    <3> QED  BY <2>3, <3>1, <3>2, <1>1, <1>3, <1>7 DEF Macho!Region
  <2>4. CASE r \notin {"head", "tail"} /\ r \in Macho!Live(f)
    <3>1. /\ r \in Refs /\ f.refs[r].offset \in Nat /\ f.refs[r].size \in Nat
          /\ f.refs[r].offset + f.refs[r].size <= f.size
          /\ \/ f.refs[r].offset + f.refs[r].size <= start
             \/ start + room <= f.refs[r].offset
      <4>1. r \in Refs
        BY <2>4 DEF Macho!Live
      <4>2. /\ f.refs[r].offset + f.refs[r].size <= f.size
            /\ \/ f.refs[r].offset + f.refs[r].size <= start
               \/ start + room <= f.refs[r].offset
        BY <2>4, <1>1 DEF Macho!Loadable
      <4> QED  BY <4>1, <4>2, MachoFields
    <3> QED  BY <2>1, <2>4, <3>1, <1>3, <1>7 DEF Macho!Region
  <2>5. CASE r \notin {"head", "tail"} /\ r \notin Macho!Live(f) /\ r \in MachoSegments
    <3>1. r \in MachoSegments /\ r # Bun
      BY <2>5, RefsAreNoSegments DEF Macho!Regions
    <3>2. /\ f.segments[r].fileoff + f.segments[r].filesize <= f.size
          /\ \/ f.segments[r].filesize = 0 \/ room = 0
             \/ f.segments[r].fileoff + f.segments[r].filesize <= start
             \/ start + room <= f.segments[r].fileoff
      BY <3>1, <1>0 DEF Macho!Loadable, Macho!FileEnd
    <3>3. f.segments[r].fileoff \in Nat /\ f.segments[r].filesize \in Nat
      BY <3>1, MachoFields
    <3> QED  BY <2>1, <2>5, <3>2, <3>3, <1>3, <1>7 DEF Macho!Region
  <2>6. CASE r \notin {"head", "tail"} /\ r \notin Macho!Live(f) /\ r \notin MachoSegments
    BY <2>6, <1>7 DEF Macho!Region
  <2> QED  BY <2>2, <2>3, <2>4, <2>5, <2>6
<1>10. (Macho!Mapped(f) => Macho!Mapped(g)) /\ (Macho!Growable(f) => Macho!Growable(g))
  <2>1. Macho!Shiftable(g) = Macho!Shiftable(f)
    BY <1>1, <1>3, <1>7 DEF Macho!Shiftable, Macho!FileEnd
  <2>2. Macho!Mapped(f) => Macho!Mapped(g)
    BY <1>1, <1>3, <1>5, <1>7 DEF Macho!Mapped
  <2>3. Macho!Growable(f) => Macho!Growable(g)
    BY <1>1, <1>3, <1>7, <2>1 DEF Macho!Growable, Macho!FileEnd, Macho!MemoryEnd
  <2> QED  BY <2>2, <2>3
<1> QED  BY <1>4, <1>5, <1>6, <1>7, <1>8, <1>9, <1>10

(* Growing __BUN moves __LINKEDIT and every reference into it together: no region
   changes, nothing overlaps, and the file can grow again. *)
LEMMA MachoGrown ==
  ASSUME NEW f, Macho!IsMacho(f), Macho!Loadable(f), Macho!Mapped(f), Macho!Growable(f),
         NEW growth \in Nat, NEW h, h = Macho!Grown(f, growth)
  PROVE  /\ Macho!IsMacho(h)
         /\ Macho!Loadable(h)
         /\ Macho!Mapped(h)
         /\ (f.segments[Bun].filesize + growth) % Alignment = 0 => Macho!Growable(h)
         /\ h.segments[Bun].filesize = f.segments[Bun].filesize + growth
         /\ h.segments[Bun].fileoff = f.segments[Bun].fileoff
         /\ h.section = f.section
         /\ \A r \in Macho!Regions : Macho!Region(h, r) = Macho!Region(f, r)
<1> USE MachoNames
<1>0. PICK start, room, end : /\ start = f.segments[Bun].fileoff
                             /\ room = f.segments[Bun].filesize
                             /\ end = start + room
  OBVIOUS
<1>1. /\ f.size \in Nat /\ start \in Nat /\ room \in Nat /\ end \in Nat
      /\ end \in 0 .. f.size /\ end = start + room
      /\ Macho!BunStart(f) = start /\ Macho!BunEnd(f) = end
  BY <1>0, MachoFields DEF Macho!Loadable, Macho!FileEnd, Macho!BunStart, Macho!BunEnd
<1>2. /\ h = [size |-> h.size, bytes |-> h.bytes, commandsEnd |-> h.commandsEnd,
              segments |-> h.segments, section |-> h.section, refs |-> h.refs]
      /\ h.bytes = Gap(f.bytes, f.size, end, growth)
      /\ h.segments = [f.segments EXCEPT ![Bun].filesize = @ + growth,
                                         ![Bun].vmsize = @ + growth,
                                         ![Linkedit].fileoff = @ + growth,
                                         ![Linkedit].vmaddr = @ + growth]
      /\ h.refs = Macho!Shifted(f, growth)
  <2>1. Macho!Gap(f.bytes, f.size, end, growth) = Gap(f.bytes, f.size, end, growth)
    BY MachoBytes
  <2> QED  BY <2>1, <1>1 DEF Macho!Grown, Macho!IsMacho
<1>14. h.size = f.size + growth /\ h.commandsEnd = f.commandsEnd /\ h.section = f.section
  BY DEF Macho!Grown, Macho!IsMacho
<1>3. /\ h.bytes \in Files(f.size + growth)
      /\ \A i \in 0 .. end - 1 : h.bytes[i] = f.bytes[i]
      /\ \A i \in end .. f.size - 1 : h.bytes[i + growth] = f.bytes[i]
  <2>1. f.bytes \in Files(f.size)
    BY MachoFields
  <2>2. GapMade(h.bytes, f.bytes, f.size, end, growth)
    BY <2>1, <1>1, <1>2, GapFacts
  <2> QED  BY <2>2 DEF GapMade
<1>15. /\ h.segments \in [MachoSegments -> Macho!SegmentCommand]
       /\ \A s \in MachoSegments \ {Bun, Linkedit} : h.segments[s] = f.segments[s]
       /\ h.segments[Bun].fileoff = start
       /\ h.segments[Bun].filesize = room + growth
       /\ h.segments[Bun].vmaddr = f.segments[Bun].vmaddr
       /\ h.segments[Bun].vmsize = f.segments[Bun].vmsize + growth
       /\ h.segments[Linkedit].fileoff = f.segments[Linkedit].fileoff + growth
       /\ h.segments[Linkedit].filesize = f.segments[Linkedit].filesize
       /\ h.segments[Linkedit].vmaddr = f.segments[Linkedit].vmaddr + growth
       /\ h.segments[Linkedit].vmsize = f.segments[Linkedit].vmsize
  <2>1. f.segments \in [MachoSegments -> Macho!SegmentCommand]
    BY DEF Macho!IsMacho
  <2>2. /\ DOMAIN h.segments = MachoSegments
        /\ h.segments = [s \in MachoSegments |-> h.segments[s]]
        /\ \A s \in MachoSegments \ {Bun, Linkedit} : h.segments[s] = f.segments[s]
        /\ h.segments[Bun] = [f.segments[Bun] EXCEPT !.filesize = @ + growth,
                                                     !.vmsize = @ + growth]
        /\ h.segments[Linkedit] = [f.segments[Linkedit] EXCEPT !.fileoff = @ + growth,
                                                               !.vmaddr = @ + growth]
    BY <1>2, <2>1
  <2>3. /\ h.segments[Bun] \in Macho!SegmentCommand
        /\ h.segments[Bun].fileoff = start
        /\ h.segments[Bun].filesize = room + growth
        /\ h.segments[Bun].vmaddr = f.segments[Bun].vmaddr
        /\ h.segments[Bun].vmsize = f.segments[Bun].vmsize + growth
    <3>1. PICK c \in Macho!SegmentCommand : c = f.segments[Bun]
      BY <2>1
    <3>2. h.segments[Bun] = [c EXCEPT !.filesize = c.filesize + growth,
                                      !.vmsize = c.vmsize + growth]
      BY <2>2, <3>1
    <3>3. c.filesize + growth \in Nat /\ c.vmsize + growth \in Nat
      BY DEF Macho!SegmentCommand
    <3>4. h.segments[Bun] \in Macho!SegmentCommand
      BY <3>2, <3>3 DEF Macho!SegmentCommand
    <3>5. /\ h.segments[Bun].filesize = c.filesize + growth
          /\ h.segments[Bun].vmsize = c.vmsize + growth
          /\ h.segments[Bun].fileoff = c.fileoff
          /\ h.segments[Bun].vmaddr = c.vmaddr
      BY <3>2 DEF Macho!SegmentCommand
    <3> QED  BY <3>1, <3>4, <3>5, <1>0
  <2>4. /\ h.segments[Linkedit] \in Macho!SegmentCommand
        /\ h.segments[Linkedit].fileoff = f.segments[Linkedit].fileoff + growth
        /\ h.segments[Linkedit].filesize = f.segments[Linkedit].filesize
        /\ h.segments[Linkedit].vmaddr = f.segments[Linkedit].vmaddr + growth
        /\ h.segments[Linkedit].vmsize = f.segments[Linkedit].vmsize
    <3>1. PICK c \in Macho!SegmentCommand : c = f.segments[Linkedit]
      BY <2>1
    <3>2. h.segments[Linkedit] = [c EXCEPT !.fileoff = c.fileoff + growth,
                                           !.vmaddr = c.vmaddr + growth]
      BY <2>2, <3>1
    <3>3. c.fileoff + growth \in Nat /\ c.vmaddr + growth \in Nat
      BY DEF Macho!SegmentCommand
    <3>4. h.segments[Linkedit] \in Macho!SegmentCommand
      BY <3>2, <3>3 DEF Macho!SegmentCommand
    <3>5. /\ h.segments[Linkedit].fileoff = c.fileoff + growth
          /\ h.segments[Linkedit].vmaddr = c.vmaddr + growth
          /\ h.segments[Linkedit].filesize = c.filesize
          /\ h.segments[Linkedit].vmsize = c.vmsize
      BY <3>2 DEF Macho!SegmentCommand
    <3> QED  BY <3>1, <3>4, <3>5
  <2>5. \A s \in MachoSegments : h.segments[s] \in Macho!SegmentCommand
    BY <2>1, <2>2, <2>3, <2>4
  <2>6. h.segments \in [MachoSegments -> Macho!SegmentCommand]
    BY <2>2, <2>5
  <2> QED  BY <2>2, <2>3, <2>4, <2>6
<1>4. /\ \A s \in MachoSegments \ {Bun, Linkedit} : h.segments[s] = f.segments[s]
      /\ h.segments[Bun].fileoff = start
      /\ h.segments[Bun].filesize = room + growth
      /\ h.segments[Bun].vmaddr = f.segments[Bun].vmaddr
      /\ h.segments[Bun].vmsize = f.segments[Bun].vmsize + growth
      /\ h.segments[Linkedit].fileoff = f.segments[Linkedit].fileoff + growth
      /\ h.segments[Linkedit].filesize = f.segments[Linkedit].filesize
      /\ h.segments[Linkedit].vmaddr = f.segments[Linkedit].vmaddr + growth
      /\ h.segments[Linkedit].vmsize = f.segments[Linkedit].vmsize
  BY <1>15
<1>5. ASSUME NEW r \in Refs
      PROVE  /\ h.refs[r] \in Macho!Reference
             /\ h.refs[r].kind = f.refs[r].kind
             /\ h.refs[r].size = f.refs[r].size
             /\ h.refs[r].crypt = f.refs[r].crypt
             /\ h.refs[r].offset = IF f.refs[r].offset # 0 /\ f.refs[r].offset >= end
                                      /\ (f.refs[r].kind # "linkedit" => f.refs[r].size # 0)
                                   THEN f.refs[r].offset + growth ELSE f.refs[r].offset
  <2>1. f.refs[r] \in Macho!Reference
    BY DEF Macho!IsMacho
  <2>2. r \in Macho!Live(f) <=> f.refs[r].offset # 0 /\ f.refs[r].size # 0
    BY DEF Macho!Live
  <2>3. f.refs[r].kind = "linkedit" /\ f.refs[r].offset # 0 => f.refs[r].offset >= end
    <3>1. CASE f.refs[r].kind = "linkedit"
      <4>1. f.refs[r].offset # 0 => f.refs[r].offset \in Macho!BunEnd(f) .. Macho!FileEnd(f, Linkedit)
        BY <3>1 DEF Macho!Growable, Macho!Shiftable
      <4> QED  BY <4>1, <1>1
    <3> QED  BY <3>1
  <2>4. h.refs[r] = IF f.refs[r].offset # 0 /\ f.refs[r].offset >= end
                         /\ (f.refs[r].kind # "linkedit" => f.refs[r].size # 0)
                    THEN [f.refs[r] EXCEPT !.offset = @ + growth] ELSE f.refs[r]
    BY <1>1, <1>2, <2>2, <2>3 DEF Macho!Shifted
  <2> QED  BY <2>1, <2>4 DEF Macho!Reference
<1>6. Macho!IsMacho(h)
  <2>1. h.bytes \in Macho!Files(h.size)
    BY <1>3, <1>14, MachoBytes
  <2>2. h.refs \in [Refs -> Macho!Reference]
    BY <1>2, <1>5 DEF Macho!Shifted
  <2>3. h.size \in Nat /\ h.commandsEnd \in Nat /\ h.section \in Macho!SectionHeader
    BY <1>1, <1>14 DEF Macho!IsMacho
  <2>4. h.segments \in [MachoSegments -> Macho!SegmentCommand]
    BY <1>15
  <2> QED  BY <1>2, <2>1, <2>2, <2>3, <2>4 DEF Macho!IsMacho
<1>7. /\ Macho!Live(h) = Macho!Live(f) /\ Macho!BunStart(h) = start
      /\ Macho!BunEnd(h) = end + growth
  <2>1. Macho!Live(h) = Macho!Live(f)
    BY <1>5, MachoFields DEF Macho!Live
  <2> QED  BY <2>1, <1>0, <1>1, <1>4 DEF Macho!BunStart, Macho!BunEnd, Macho!FileEnd
<1>8. Macho!Loadable(h)
  <2>0. /\ \A s \in MachoSegments : /\ f.segments[s].fileoff \in Nat
                                     /\ f.segments[s].filesize \in Nat
                                     /\ f.segments[s].vmaddr \in Nat
                                     /\ f.segments[s].vmsize \in Nat
        /\ \A r \in Refs : f.refs[r].offset \in Nat /\ f.refs[r].size \in Nat
        /\ f.section.size \in Nat
    BY MachoFields
  <2>1. /\ f.segments[Linkedit].fileoff = end
        /\ f.segments[Linkedit].vmaddr = f.segments[Bun].vmaddr + f.segments[Bun].vmsize
        /\ f.segments[Linkedit].fileoff + f.segments[Linkedit].filesize <= f.size
        /\ f.segments[Bun].vmsize = room
        /\ \A s \in MachoSegments \ {Bun, Linkedit} :
             f.segments[s].filesize # 0 => f.segments[s].fileoff + f.segments[s].filesize <= start
    BY <1>0, <1>1 DEF Macho!Growable, Macho!FileEnd, Macho!MemoryEnd
  <2>2. h.commandsEnd <= h.size
    BY <1>1, <1>14, MachoFields DEF Macho!Loadable
  <2>3. \A s \in MachoSegments : /\ Macho!FileEnd(h, s) <= h.size
                                 /\ h.segments[s].filesize <= h.segments[s].vmsize
    <3>1. \A s \in MachoSegments : /\ f.segments[s].fileoff + f.segments[s].filesize <= f.size
                                   /\ f.segments[s].filesize <= f.segments[s].vmsize
      BY DEF Macho!Loadable, Macho!FileEnd
    <3>2. ASSUME NEW s \in MachoSegments
          PROVE  /\ h.segments[s].fileoff + h.segments[s].filesize <= f.size + growth
                 /\ h.segments[s].filesize <= h.segments[s].vmsize
      <4>1. CASE s = Bun
        BY <2>0, <3>1, <4>1, <1>0, <1>1, <1>4
      <4>2. CASE s = Linkedit
        BY <2>0, <3>1, <4>2, <1>1, <1>4
      <4>3. CASE s \notin {Bun, Linkedit}
        BY <2>0, <3>1, <4>3, <1>1, <1>4
      <4> QED  BY <4>1, <4>2, <4>3
    <3> QED  BY <3>2, <1>14 DEF Macho!FileEnd
  <2>4. ASSUME NEW s \in MachoSegments, NEW t \in MachoSegments, s # t
        PROVE  /\ \/ h.segments[s].filesize = 0 \/ h.segments[t].filesize = 0
                  \/ Macho!FileEnd(h, s) <= h.segments[t].fileoff
                  \/ Macho!FileEnd(h, t) <= h.segments[s].fileoff
               /\ \/ h.segments[s].vmsize = 0 \/ h.segments[t].vmsize = 0
                  \/ Macho!MemoryEnd(h, s) <= h.segments[t].vmaddr
                  \/ Macho!MemoryEnd(h, t) <= h.segments[s].vmaddr
    <3>1. /\ \/ f.segments[s].filesize = 0 \/ f.segments[t].filesize = 0
             \/ Macho!FileEnd(f, s) <= f.segments[t].fileoff
             \/ Macho!FileEnd(f, t) <= f.segments[s].fileoff
          /\ \/ f.segments[s].vmsize = 0 \/ f.segments[t].vmsize = 0
             \/ Macho!MemoryEnd(f, s) <= f.segments[t].vmaddr
             \/ Macho!MemoryEnd(f, t) <= f.segments[s].vmaddr
      BY <2>4 DEF Macho!Loadable
    <3>2. \A u \in MachoSegments \ {Linkedit} :
            f.segments[u].vmaddr + f.segments[u].vmsize <= f.segments[Linkedit].vmaddr
      BY DEF Macho!Loadable, Macho!MemoryEnd
    <3>3. CASE s \notin {Bun, Linkedit} /\ t \notin {Bun, Linkedit}
      BY <3>1, <3>3, <1>4 DEF Macho!FileEnd, Macho!MemoryEnd
    <3>4. CASE s = Bun /\ t = Linkedit
      BY <2>0, <2>1, <3>4, <1>0, <1>1, <1>4 DEF Macho!FileEnd, Macho!MemoryEnd
    <3>5. CASE s = Linkedit /\ t = Bun
      BY <2>0, <2>1, <3>5, <1>0, <1>1, <1>4 DEF Macho!FileEnd, Macho!MemoryEnd
    <3>6. CASE s \notin {Bun, Linkedit} /\ t = Bun
      BY <2>0, <2>1, <3>1, <3>2, <3>6, <1>0, <1>1, <1>4 DEF Macho!FileEnd, Macho!MemoryEnd
    <3>7. CASE s \notin {Bun, Linkedit} /\ t = Linkedit
      BY <2>0, <2>1, <3>1, <3>2, <3>7, <1>0, <1>1, <1>4 DEF Macho!FileEnd, Macho!MemoryEnd
    <3>8. CASE s = Bun /\ t \notin {Bun, Linkedit}
      BY <2>0, <2>1, <3>1, <3>2, <3>8, <1>0, <1>1, <1>4 DEF Macho!FileEnd, Macho!MemoryEnd
    <3>9. CASE s = Linkedit /\ t \notin {Bun, Linkedit}
      BY <2>0, <2>1, <3>1, <3>2, <3>9, <1>0, <1>1, <1>4 DEF Macho!FileEnd, Macho!MemoryEnd
    <3> QED  BY <2>4, <3>3, <3>4, <3>5, <3>6, <3>7, <3>8, <3>9
  <2>5. \A s \in MachoSegments \ {Linkedit} : Macho!MemoryEnd(h, s) <= h.segments[Linkedit].vmaddr
    <3>1. \A s \in MachoSegments \ {Linkedit} :
            f.segments[s].vmaddr + f.segments[s].vmsize <= f.segments[Linkedit].vmaddr
      BY DEF Macho!Loadable, Macho!MemoryEnd
    <3>2. ASSUME NEW s \in MachoSegments \ {Linkedit}
          PROVE  h.segments[s].vmaddr + h.segments[s].vmsize <= h.segments[Linkedit].vmaddr
      <4>1. CASE s = Bun
        BY <2>0, <2>1, <4>1, <1>4
      <4>2. CASE s # Bun
        BY <2>0, <3>1, <4>2, <1>4
      <4> QED  BY <4>1, <4>2
    <3> QED  BY <3>2 DEF Macho!MemoryEnd
  <2>6. ASSUME NEW r \in Macho!Live(h)
        PROVE  /\ h.refs[r].offset + h.refs[r].size <= h.size
               /\ \/ h.refs[r].offset + h.refs[r].size <= Macho!BunStart(h)
                  \/ Macho!BunEnd(h) <= h.refs[r].offset
               /\ h.refs[r].kind = "linkedit" =>
                    /\ h.segments[Linkedit].fileoff <= h.refs[r].offset
                    /\ h.refs[r].offset + h.refs[r].size <= Macho!FileEnd(h, Linkedit)
    <3>1. r \in Macho!Live(f) /\ r \in Refs /\ f.refs[r].size # 0 /\ f.refs[r].offset # 0
      BY <1>7 DEF Macho!Live
    <3>2. /\ f.refs[r].offset + f.refs[r].size <= f.size
          /\ f.refs[r].offset + f.refs[r].size <= start \/ end <= f.refs[r].offset
          /\ f.refs[r].kind = "linkedit" =>
               /\ f.segments[Linkedit].fileoff <= f.refs[r].offset
               /\ f.refs[r].offset + f.refs[r].size <= Macho!FileEnd(f, Linkedit)
      BY <3>1, <1>1 DEF Macho!Loadable
    <3>3. /\ h.refs[r].kind = f.refs[r].kind /\ h.refs[r].size = f.refs[r].size
          /\ h.refs[r].offset = IF f.refs[r].offset >= end
                                THEN f.refs[r].offset + growth ELSE f.refs[r].offset
      BY <3>1, <1>5
    <3>4. CASE f.refs[r].offset >= end
      BY <2>0, <2>1, <3>1, <3>2, <3>3, <3>4, <1>1, <1>14, <1>4, <1>7 DEF Macho!FileEnd
    <3>5. CASE f.refs[r].offset < end
      BY <2>0, <2>1, <3>1, <3>2, <3>3, <3>5, <1>1, <1>14, <1>4, <1>7 DEF Macho!FileEnd
    <3> QED  BY <2>0, <3>1, <3>4, <3>5, <1>1
  <2>7. /\ h.section.size <= h.segments[Bun].filesize
        /\ Width <= h.section.size /\ Width + h.bytes[Macho!BunStart(h)] <= h.section.size
    <3>1. /\ f.section.size <= room
          /\ Width <= f.section.size /\ Width + f.bytes[start] <= f.section.size
      BY <1>0, <1>1 DEF Macho!Loadable
    <3>2. start \in 0 .. end - 1
      BY <2>0, <3>1, <1>1, WidthAssumption
    <3>3. h.bytes[start] = f.bytes[start]
      BY <3>2, <1>3
    <3>4. h.section.size <= h.segments[Bun].filesize
      BY <2>0, <3>1, <1>1, <1>14, <1>4
    <3>5. h.section.size = f.section.size /\ Macho!BunStart(h) = start
      BY <1>14, <1>7
    <3> QED  BY <3>1, <3>3, <3>4, <3>5
  <2> QED  BY <2>2, <2>3, <2>4, <2>5, <2>6, <2>7 DEF Macho!Loadable
<1>9. Macho!Mapped(h)
  BY <1>1, <1>14, <1>4, <1>7 DEF Macho!Mapped
<1>10. (room + growth) % Alignment = 0 => Macho!Growable(h)
  <2>1. /\ start % Alignment = 0
        /\ f.segments[Bun].vmsize = room
        /\ f.segments[Linkedit].fileoff = end
        /\ f.segments[Linkedit].vmaddr = f.segments[Bun].vmaddr + room
        /\ f.segments[Linkedit].fileoff + f.segments[Linkedit].filesize <= f.size
        /\ \A s \in MachoSegments \ {Bun, Linkedit} :
             f.segments[s].filesize # 0 => f.segments[s].fileoff + f.segments[s].filesize <= start
    BY <1>0, <1>1 DEF Macho!Growable, Macho!FileEnd, Macho!MemoryEnd
  <2>2. Macho!Shiftable(h)
    <3>1. ASSUME NEW r \in Refs
          PROVE  /\ h.refs[r].kind = "linkedit" /\ h.refs[r].offset # 0 =>
                        h.refs[r].offset \in Macho!BunEnd(h) .. Macho!FileEnd(h, Linkedit)
                 /\ h.refs[r].kind \in {"note", "encryption"} =>
                      /\ ~h.refs[r].crypt
                      /\ r \in Macho!Live(h) =>
                           /\ h.refs[r].offset + h.refs[r].size <= h.size
                           /\ h.refs[r].offset < Macho!BunEnd(h) =>
                                h.refs[r].offset + h.refs[r].size <= Macho!BunEnd(h)
                 /\ h.refs[r].kind # "fileset"
      <4>1. r \in Macho!Live(h) <=> r \in Macho!Live(f)
        BY <1>7
      <4>2. r \in Macho!Live(f) <=> f.refs[r].offset # 0 /\ f.refs[r].size # 0
        BY DEF Macho!Live
      <4>3. PICK offset \in Nat, size \in Nat : offset = f.refs[r].offset /\ size = f.refs[r].size
        BY MachoFields
      <4>4. PICK last \in Nat : last = f.segments[Linkedit].filesize
        BY MachoFields
      <4>5. /\ h.refs[r].kind = f.refs[r].kind /\ h.refs[r].size = size
            /\ h.refs[r].crypt = f.refs[r].crypt
            /\ h.refs[r].offset = IF offset # 0 /\ offset >= end
                                     /\ (f.refs[r].kind # "linkedit" => size # 0)
                                  THEN offset + growth ELSE offset
        BY <4>3, <1>5
      <4>6. Macho!FileEnd(h, Linkedit) = end + growth + last /\ Macho!FileEnd(f, Linkedit) = end + last
        BY <2>1, <4>4, <1>1, <1>4 DEF Macho!FileEnd
      <4>7. CASE f.refs[r].kind = "linkedit"
        <5>1. offset # 0 => offset \in end .. end + last
          BY <4>3, <4>6, <4>7, <1>1 DEF Macho!Growable, Macho!Shiftable
        <5> QED  BY <4>5, <4>6, <4>7, <5>1, <1>1, <1>7
      <4>8. CASE f.refs[r].kind \in {"note", "encryption"}
        <5>1. /\ ~f.refs[r].crypt
              /\ r \in Macho!Live(f) =>
                   /\ offset + size <= f.size
                   /\ offset < end => offset + size <= end
          BY <4>3, <4>8, <1>1 DEF Macho!Growable, Macho!Shiftable
        <5> QED  BY <4>1, <4>2, <4>3, <4>5, <4>8, <5>1, <1>1, <1>7, <1>14
      <4>9. CASE f.refs[r].kind = "fileset"
        BY <4>9 DEF Macho!Growable, Macho!Shiftable
      <4> QED  BY <4>7, <4>8, <4>9, MachoFields DEF Macho!Kind
    <3>2. \A r \in Refs : h.refs[r].kind \in {"linkedit", "note", "encryption", "fileset"}
      BY <1>5 DEF Macho!Reference, Macho!Kind
    <3> QED  BY <3>1, <3>2 DEF Macho!Shiftable
  <2>3. /\ h.segments[Bun].vmsize = h.segments[Bun].filesize
        /\ h.segments[Linkedit].fileoff = Macho!BunEnd(h)
        /\ h.segments[Linkedit].vmaddr = Macho!MemoryEnd(h, Bun)
        /\ Macho!FileEnd(h, Linkedit) <= h.size
    <3>1. /\ f.segments[Bun].vmaddr \in Nat
          /\ f.segments[Linkedit].fileoff \in Nat /\ f.segments[Linkedit].filesize \in Nat
      BY MachoFields
    <3> QED  BY <2>1, <3>1, <1>1, <1>4, <1>7, <1>14 DEF Macho!FileEnd, Macho!MemoryEnd
  <2>4. \A s \in MachoSegments \ {Bun, Linkedit} :
          h.segments[s].filesize # 0 => Macho!FileEnd(h, s) <= Macho!BunStart(h)
    BY <2>1, <1>4, <1>7 DEF Macho!FileEnd
  <2> QED  BY <2>1, <2>2, <2>3, <2>4, <1>4, <1>7 DEF Macho!Growable
<1>11. ASSUME NEW r \in Macho!Regions
       PROVE  Macho!Region(h, r) = Macho!Region(f, r)
  <2>1. ASSUME NEW from \in Nat, NEW length \in Nat, from + length <= end
        PROVE  Macho!Slice(h.bytes, from, length) = Macho!Slice(f.bytes, from, length)
    <3>1. Kept(f.bytes, h.bytes, from, length)
      BY <2>1, <1>1, <1>3 DEF Kept
    <3>2. Slice(h.bytes, from, length) = Slice(f.bytes, from, length)
      BY <3>1, SliceKept
    <3> QED  BY <3>2, MachoBytes
  <2>2. ASSUME NEW from \in Nat, NEW length \in Nat, end <= from, from + length <= f.size
        PROVE  Macho!Slice(h.bytes, from + growth, length) = Macho!Slice(f.bytes, from, length)
    <3>1. Moved(f.bytes, h.bytes, from, length, growth)
      BY <2>2, <1>1, <1>3 DEF Moved
    <3>2. Slice(h.bytes, from + growth, length) = Slice(f.bytes, from, length)
      BY <3>1, SliceMoved
    <3> QED  BY <3>2, MachoBytes
  <2>3. CASE r = "head"
    <3>1. Macho!Slice(h.bytes, 0, start) = Macho!Slice(f.bytes, 0, start)
      BY <2>1, <1>1
    <3> QED  BY <2>3, <3>1, <1>1, <1>7 DEF Macho!Region
  <2>4. CASE r = "tail"
    <3>1. PICK length \in Nat : /\ length = f.size - end /\ end + length = f.size
                               /\ length = h.size - (end + growth)
      BY <1>1, <1>14
    <3>2. Macho!Slice(h.bytes, end + growth, length) = Macho!Slice(f.bytes, end, length)
      BY <2>2, <3>1, <1>1
    <3> QED  BY <2>4, <3>1, <3>2, <1>1, <1>7 DEF Macho!Region
  <2>5. CASE r \notin {"head", "tail"} /\ r \in Macho!Live(f)
    <3>1. r \in Refs /\ f.refs[r].offset # 0 /\ f.refs[r].size # 0
      BY <2>5 DEF Macho!Live
    <3>2. PICK offset \in Nat, size \in Nat : offset = f.refs[r].offset /\ size = f.refs[r].size
      BY <3>1, MachoFields
    <3>3. /\ offset + size <= f.size
          /\ offset + size <= start \/ end <= offset
      BY <2>5, <3>2, <1>1 DEF Macho!Loadable
    <3>4. /\ h.refs[r].size = size
          /\ h.refs[r].offset = IF offset >= end THEN offset + growth ELSE offset
      BY <3>1, <3>2, <1>5
    <3>5. Macho!Slice(h.bytes, h.refs[r].offset, size) = Macho!Slice(f.bytes, offset, size)
      BY <2>1, <2>2, <3>3, <3>4, <1>1
    <3> QED  BY <2>5, <3>2, <3>4, <3>5, <1>7 DEF Macho!Region
  <2>6. CASE r \notin {"head", "tail"} /\ r \notin Macho!Live(f) /\ r \in MachoSegments
    <3>1. r # Bun
      BY <2>6, RefsAreNoSegments DEF Macho!Regions
    <3>2. PICK offset \in Nat, size \in Nat : /\ offset = f.segments[r].fileoff
                                              /\ size = f.segments[r].filesize
      BY <2>6, MachoFields
    <3>3. CASE r = Linkedit
      <4>1. offset = end /\ offset + size <= f.size
        BY <3>2, <3>3, <1>1 DEF Macho!Growable, Macho!FileEnd
      <4>2. Macho!Slice(h.bytes, offset + growth, size) = Macho!Slice(f.bytes, offset, size)
        BY <2>2, <4>1, <1>1
      <4> QED  BY <2>6, <3>2, <3>3, <4>2, <1>4, <1>7 DEF Macho!Region
    <3>4. CASE r # Linkedit
      <4>1. size # 0 => offset + size <= start
        BY <2>6, <3>1, <3>2, <3>4, <1>1 DEF Macho!Growable, Macho!FileEnd
      <4>2. Macho!Slice(h.bytes, offset, size) = Macho!Slice(f.bytes, offset, size)
        <5>1. CASE size = 0
          BY <5>1, EmptySlice, MachoBytes
        <5>2. CASE size # 0
          BY <2>1, <4>1, <5>2, <1>1
        <5> QED  BY <5>1, <5>2
      <4> QED  BY <2>6, <3>1, <3>2, <3>4, <4>2, <1>4, <1>7 DEF Macho!Region
    <3> QED  BY <3>3, <3>4
  <2>7. CASE r \notin {"head", "tail"} /\ r \notin Macho!Live(f) /\ r \notin MachoSegments
    BY <2>7, <1>7 DEF Macho!Region
  <2> QED  BY <2>3, <2>4, <2>5, <2>6, <2>7
<1> QED  BY <1>0, <1>14, <1>4, <1>6, <1>8, <1>9, <1>10, <1>11

(* Both ways to write: into the segment as it is, or into the grown one. *)
LEMMA MachoWritten ==
  ASSUME NEW f, Macho!IsMacho(f), Macho!Loadable(f), NEW payload \in Seq(Nat),
         Macho!Mapped(f),
         NEW g,
         \/ /\ Required(payload) <= f.segments[Bun].filesize
            /\ g = Macho!Filled(f, f.segments[Bun].filesize, payload)
         \/ /\ Required(payload) > f.segments[Bun].filesize
            /\ Macho!Growable(f)
            /\ g = Macho!Filled(Macho!Grown(f, AlignUp(Required(payload), Alignment)
                                                 - f.segments[Bun].filesize),
                                AlignUp(Required(payload), Alignment), payload)
  PROVE  /\ Macho!IsMacho(g)
         /\ Macho!Loadable(g)
         /\ PayloadAt(g.bytes, Macho!BunStart(g)) = payload
         /\ \A r \in Macho!Regions : Macho!Region(g, r) = Macho!Region(f, r)
         /\ g.section.addr = f.section.addr
         /\ Macho!Mapped(g)
         /\ Macho!Growable(f) => Macho!Growable(g)
<1>1. CASE /\ Required(payload) <= f.segments[Bun].filesize
           /\ g = Macho!Filled(f, f.segments[Bun].filesize, payload)
  BY <1>1, MachoFilled
<1>2. CASE /\ Required(payload) > f.segments[Bun].filesize
           /\ Macho!Growable(f)
           /\ g = Macho!Filled(Macho!Grown(f, AlignUp(Required(payload), Alignment)
                                                - f.segments[Bun].filesize),
                               AlignUp(Required(payload), Alignment), payload)
  <2>1. PICK room, capacity : /\ room = f.segments[Bun].filesize
                              /\ capacity = AlignUp(Required(payload), Alignment)
    OBVIOUS
  <2>2. Required(payload) \in Nat
    BY WidthAssumption DEF Required
  <2>3. room \in Nat
    BY <2>1, MachoFields, MachoNames
  <2>4. capacity \in Nat /\ Required(payload) <= capacity /\ capacity % Alignment = 0
    BY <2>1, <2>2, AlignUpFacts, MachoAlignment
  <2>5. PICK growth \in Nat : growth = capacity - room /\ room + growth = capacity
    BY <1>2, <2>1, <2>2, <2>3, <2>4
  <2>6. PICK h : h = Macho!Grown(f, growth)
    OBVIOUS
  <2>7. (room + growth) % Alignment = 0
    BY <2>4, <2>5
  <2>8. /\ Macho!IsMacho(h) /\ Macho!Loadable(h) /\ Macho!Mapped(h) /\ Macho!Growable(h)
        /\ h.segments[Bun].filesize = capacity
        /\ h.section = f.section
        /\ \A r \in Macho!Regions : Macho!Region(h, r) = Macho!Region(f, r)
    BY <1>2, <2>1, <2>5, <2>6, <2>7, MachoGrown
  <2>9. g = Macho!Filled(h, h.segments[Bun].filesize, payload)
    BY <1>2, <2>1, <2>5, <2>6, <2>8
  <2>10. Required(payload) <= h.segments[Bun].filesize
    BY <2>4, <2>8
  <2> QED  BY <2>8, <2>9, <2>10, MachoFilled
<1> QED  BY <1>1, <1>2

(* A step of the Mach-O writer, in the words of the properties. *)
LEMMA MachoStep ==
  ASSUME Macho!Valid, Macho!Next
  PROVE  /\ Macho!Valid'
         /\ Macho!GrowthStep
         /\ Macho!Payload' \in PayloadsOf["MachO64"]
         /\ Macho!Address' = Macho!Address
         /\ Macho!Rest' = Macho!Rest
<1>1. PICK payload \in PayloadsOf["MachO64"] : Macho!WriteInPlace(payload) \/ Macho!Grow(payload)
  BY DEF Macho!Next
<1>2. PICK f, g : f = file /\ g = file'
  OBVIOUS
<1>3. payload \in Seq(Nat)
  BY ContainersAssumption DEF Macho!Assumption
<1>4. /\ Macho!IsMacho(f) /\ Macho!Loadable(f) /\ Macho!Mapped(f)
      /\ \/ /\ Required(payload) <= f.segments[Bun].filesize
            /\ g = Macho!Filled(f, f.segments[Bun].filesize, payload)
         \/ /\ Required(payload) > f.segments[Bun].filesize
            /\ Macho!Growable(f)
            /\ g = Macho!Filled(Macho!Grown(f, AlignUp(Required(payload), Alignment)
                                                 - f.segments[Bun].filesize),
                                AlignUp(Required(payload), Alignment), payload)
  <2>1. /\ Macho!Required(payload) = Required(payload)
        /\ Macho!AlignUp(Required(payload), Alignment) = AlignUp(Required(payload), Alignment)
    BY MachoBytes
  <2> QED  BY <1>1, <1>2, <2>1 DEF Macho!Valid, Macho!WriteInPlace, Macho!Grow
<1>5. /\ Macho!IsMacho(g)
      /\ Macho!Loadable(g)
      /\ PayloadAt(g.bytes, Macho!BunStart(g)) = payload
      /\ \A r \in Macho!Regions : Macho!Region(g, r) = Macho!Region(f, r)
      /\ g.section.addr = f.section.addr
      /\ Macho!Mapped(g)
      /\ Macho!Growable(f) => Macho!Growable(g)
  BY <1>3, <1>4, MachoWritten
<1>6. Macho!Valid'
  BY <1>2, <1>5 DEF Macho!Valid
<1>7. Macho!GrowthStep
  BY <1>2, <1>5 DEF Macho!GrowthStep
<1>8. Macho!Payload' \in PayloadsOf["MachO64"]
  BY <1>2, <1>5, MachoBytes DEF Macho!Payload
<1>9. Macho!Address' = Macho!Address /\ Macho!Rest' = Macho!Rest
  BY <1>2, <1>5 DEF Macho!Address, Macho!Rest
<1> QED  BY <1>6, <1>7, <1>8, <1>9

-----------------------------------------------------------------------------
(* PE *)

(* The alignments, and the section that the writer names. *)
LEMMA PeConstants ==
  /\ FileAlign \in Nat \ {0} /\ SectionAlign \in Nat \ {0}
  /\ Bun \in PeSections
BY ContainersAssumption DEF Pe!Assumption

(* Pointers and sections have names of their own. *)
LEMMA PointersAreNoSections == Pointers \cap PeSections = {}
BY ContainersAssumption DEF Pe!Assumption

(* The writer's operators on bytes are those of FileBytes. *)
LEMMA PeBytes ==
  /\ \A n : Pe!Files(n) = Files(n)
  /\ \A b, from, length : Pe!Slice(b, from, length) = Slice(b, from, length)
  /\ \A b, n, at, growth : Pe!Gap(b, n, at, growth) = Gap(b, n, at, growth)
  /\ \A payload : Pe!Required(payload) = Required(payload)
  /\ \A b, at, capacity, payload :
       Pe!Put(b, at, capacity, payload) = Put(b, at, capacity, payload)
  /\ \A b, at : Pe!PayloadAt(b, at) = PayloadAt(b, at)
  /\ \A v, a : Pe!AlignUp(v, a) = AlignUp(v, a)
BY DEF Pe!Files, Files, Pe!Slice, Slice, Pe!Gap, Gap, Pe!Required, Required,
       Pe!Put, Put, Pe!Cell, Cell, Pe!PayloadAt, PayloadAt, Pe!AlignUp, AlignUp

(* The types of the fields of a PE file. *)
LEMMA PeFields ==
  ASSUME NEW f, Pe!IsPe(f)
  PROVE  /\ f.size \in Nat /\ f.bytes \in Files(f.size) /\ f.headersEnd \in Nat
         /\ f.imageSize \in Nat /\ f.signed \in BOOLEAN /\ f.pe64 \in BOOLEAN
         /\ \A x \in PeSections : /\ f.sections[x].vsize \in Nat /\ f.sections[x].vaddr \in Nat
                                  /\ f.sections[x].raw \in Nat /\ f.sections[x].ptr \in Nat
         /\ \A p \in Pointers : f.pointers[p].offset \in Nat /\ f.pointers[p].size \in Nat
         /\ f.debug.rva \in Nat /\ f.debug.size \in Nat
BY PeBytes DEF Pe!IsPe, Pe!SectionHeader, Pe!Pointer

(* Where a section ends in memory is a number. *)
LEMMA VirtualEnds ==
  ASSUME NEW header \in Pe!SectionHeader
  PROVE  /\ Pe!Larger(header.vsize, header.raw) \in Nat
         /\ Pe!VirtualEnd(header)
              = header.vaddr + AlignUp(Pe!Larger(header.vsize, header.raw), SectionAlign)
         /\ Pe!VirtualEnd(header) \in Nat
<1>1. header.vsize \in Nat /\ header.raw \in Nat /\ header.vaddr \in Nat
  BY DEF Pe!SectionHeader
<1>2. PICK larger \in Nat : larger = Pe!Larger(header.vsize, header.raw)
  BY <1>1 DEF Pe!Larger
<1>3. AlignUp(larger, SectionAlign) \in Nat
  BY AlignUpFacts, PeConstants
<1>4. Pe!VirtualEnd(header) = header.vaddr + AlignUp(larger, SectionAlign)
  BY <1>2, PeBytes DEF Pe!VirtualEnd
<1> QED  BY <1>1, <1>2, <1>3, <1>4

(* The writer's size of the image is where the last section ends, aligned. *)
LEMMA ImageEnds ==
  ASSUME NEW sections \in [PeSections -> Pe!SectionHeader], NEW bound \in Nat,
         \A x \in PeSections : Pe!VirtualEnd(sections[x]) <= bound
  PROVE  /\ Pe!ImageEnd(sections) \in Nat
         /\ \A x \in PeSections : Pe!VirtualEnd(sections[x]) <= Pe!ImageEnd(sections)
         /\ \E x \in PeSections :
              Pe!AlignUp(Pe!VirtualEnd(sections[x]), SectionAlign) = Pe!ImageEnd(sections)
<1> DEFINE ends == {Pe!VirtualEnd(sections[x]) : x \in PeSections}
           last == CHOOSE end \in ends : \A other \in ends : other <= end
<1>1. \A x \in PeSections : Pe!VirtualEnd(sections[x]) \in Nat
  BY VirtualEnds
<1>2. ends \in SUBSET Nat /\ ends # {} /\ \A n \in ends : n <= bound
  BY <1>1, PeConstants
<1>3. \E end \in ends : \A other \in ends : other <= end
  <2> HIDE DEF ends
  <2> QED  BY <1>2, LargestOf
<1>4. last \in ends /\ \A other \in ends : other <= last
  <2> HIDE DEF ends
  <2> QED  BY <1>3
<1>5. Pe!ImageEnd(sections) = AlignUp(last, SectionAlign)
  BY PeBytes DEF Pe!ImageEnd
<1> HIDE DEF last
<1>6. last \in Nat /\ AlignUp(last, SectionAlign) \in Nat /\ last <= AlignUp(last, SectionAlign)
  BY <1>2, <1>4, AlignUpFacts, PeConstants
<1>7. ASSUME NEW x \in PeSections
      PROVE  Pe!VirtualEnd(sections[x]) <= Pe!ImageEnd(sections)
  <2>1. Pe!VirtualEnd(sections[x]) <= last
    BY <1>4
  <2> QED  BY <1>1, <1>5, <1>6, <2>1
<1>8. PICK x \in PeSections : last = Pe!VirtualEnd(sections[x])
  BY <1>4
<1>9. Pe!AlignUp(Pe!VirtualEnd(sections[x]), SectionAlign) = Pe!ImageEnd(sections)
  BY <1>5, <1>8, PeBytes
<1> QED  BY <1>5, <1>6, <1>7, <1>9

(* The write behind the gap, as a function of the file and the grown file. *)
PutIntoPe(f, grown, raw, payload) ==
  [grown EXCEPT !.bytes = Put(@, f.sections[Bun].ptr, raw, payload),
                !.sections = Pe!NewSections(f, payload),
                !.imageSize = Pe!ImageEnd(Pe!NewSections(f, payload))]

(* A write that the checks let through: the grown .bun meets no other section in the
   file or in memory, overlay and file pointers move together, and the next write
   meets the same checks. *)
LEMMA PeWritten ==
  ASSUME NEW f, Pe!IsPe(f), Pe!Loadable(f), NEW payload \in Seq(Nat),
         Pe!Writable(f, payload),
         NEW raw, raw = Pe!NewRawSize(f, payload),
         NEW grown, grown = Pe!Grown(f, raw - f.sections[Bun].raw),
         NEW g, g = PutIntoPe(f, grown, raw, payload)
  PROVE  /\ Pe!IsPe(g)
         /\ Pe!Loadable(g)
         /\ PayloadAt(g.bytes, Pe!BunStart(g)) = payload
         /\ \A r \in Pe!Regions : Pe!Region(g, r) = Pe!Region(f, r)
         /\ g.sections[Bun].vaddr = f.sections[Bun].vaddr
         /\ \A other \in Seq(Nat) : Pe!Writable(f, other) => Pe!Writable(g, other)
<1>1. PICK start \in Nat, raw0 \in Nat, required \in Nat, size \in Nat :
        /\ start = f.sections[Bun].ptr /\ raw0 = f.sections[Bun].raw
        /\ required = Required(payload) /\ size = f.size
  <2>1. Required(payload) \in Nat
    BY WidthAssumption DEF Required
  <2> QED  BY <2>1, PeFields, PeConstants
<1>2. /\ Pe!BunStart(f) = start /\ Pe!BunEnd(f) = start + raw0
      /\ start + raw0 <= size
      /\ f.headersEnd <= start
      /\ \A x \in PeSections \ {Bun} : f.sections[x].raw # 0 =>
           /\ f.sections[x].ptr + f.sections[x].raw <= size
           /\ ~ /\ start < f.sections[x].ptr + f.sections[x].raw
                /\ f.sections[x].ptr < start + raw0
  <2>1. Pe!BunStart(f) = start /\ Pe!BunEnd(f) = start + raw0
    BY <1>1 DEF Pe!BunStart, Pe!BunEnd, Pe!RawEnd
  <2> QED  BY <1>1, <2>1 DEF Pe!Writable, Pe!RangeValid, Pe!RawEnd
<1>3. raw \in Nat /\ raw0 <= raw /\ required <= raw
  <2>1. PICK aligned \in Nat : /\ aligned = Pe!AlignUp(Pe!Required(payload), FileAlign)
                               /\ required <= aligned
    BY <1>1, AlignUpFacts, PeConstants, PeBytes
  <2>2. raw = Pe!Larger(raw0, aligned)
    BY <1>1, <2>1 DEF Pe!NewRawSize
  <2> QED  BY <2>1, <2>2 DEF Pe!Larger
<1>4. PICK growth \in Nat : raw = raw0 + growth /\ growth = raw - f.sections[Bun].raw
  <2>1. raw - raw0 \in Nat /\ raw = raw0 + (raw - raw0)
    BY <1>3
  <2>2. raw - raw0 = raw - f.sections[Bun].raw
    BY <1>1
  <2> QED  BY <2>1, <2>2, Zenon
<1>5. growth # 0 => Pe!Growable(f)
  BY <1>1, <1>3, <1>4 DEF Pe!Writable
<1>6. ASSUME growth # 0
      PROVE  \A x \in PeSections \ {Bun} :
               /\ f.sections[x].raw # 0 => f.sections[x].ptr + f.sections[x].raw <= start
               /\ Pe!VirtualEnd(f.sections[x]) <= f.sections[Bun].vaddr
  <2>1. TAKE x \in PeSections \ {Bun}
  <2>2. /\ ~(f.sections[x].raw # 0 /\ f.sections[x].ptr >= start + raw0)
        /\ Pe!VirtualEnd(f.sections[x]) <= f.sections[Bun].vaddr
    BY <1>2, <1>5, <1>6 DEF Pe!Growable, Pe!BunIsLast
  <2>3. f.sections[x].raw \in Nat /\ f.sections[x].ptr \in Nat
    BY PeFields
  <2> QED  BY <1>2, <2>2, <2>3
<1>7. /\ g.bytes = Put(grown.bytes, start, raw, payload)
      /\ g.sections = Pe!NewSections(f, payload)
      /\ g.imageSize = Pe!ImageEnd(g.sections)
      /\ g.headersEnd = f.headersEnd /\ g.signed = f.signed
      /\ g.pe64 = f.pe64 /\ g.debug = f.debug
      /\ g.size = size + growth /\ g.pointers = grown.pointers
      /\ g = [size |-> g.size, bytes |-> g.bytes, headersEnd |-> g.headersEnd,
              signed |-> g.signed, pe64 |-> g.pe64, imageSize |-> g.imageSize,
              sections |-> g.sections, pointers |-> g.pointers, debug |-> g.debug]
  <2> DEFINE shape ==
        /\ grown = [size |-> grown.size, bytes |-> grown.bytes, headersEnd |-> f.headersEnd,
                    signed |-> f.signed, pe64 |-> f.pe64, imageSize |-> f.imageSize,
                    sections |-> f.sections, pointers |-> grown.pointers, debug |-> f.debug]
        /\ grown.size = size + growth
  <2>1. shape
    <3>1. CASE growth = 0
      BY <1>1, <1>4, <3>1 DEF Pe!IsPe, Pe!Grown
    <3>2. CASE growth # 0
      <4>1. grown = [f EXCEPT !.size = @ + growth,
                              !.bytes = Pe!Gap(@, f.size, Pe!BunEnd(f), growth),
                              !.pointers = Pe!Shifted(f, growth)]
        BY <1>4, <3>2 DEF Pe!Grown
      <4> QED  BY <1>1, <4>1 DEF Pe!IsPe
    <3> HIDE DEF shape
    <3> QED  BY <3>1, <3>2
  <2>2. PICK bytes, imageSize, sections, oldBytes, pointers :
          /\ bytes = Put(oldBytes, f.sections[Bun].ptr, raw, payload)
          /\ imageSize = Pe!ImageEnd(sections)
          /\ sections = Pe!NewSections(f, payload)
          /\ oldBytes = grown.bytes /\ pointers = grown.pointers
    OBVIOUS
  <2>3. grown = [size |-> size + growth, bytes |-> oldBytes, headersEnd |-> f.headersEnd,
                 signed |-> f.signed, pe64 |-> f.pe64, imageSize |-> f.imageSize,
                 sections |-> f.sections, pointers |-> pointers, debug |-> f.debug]
    BY <2>1, <2>2
  <2>4. g = [grown EXCEPT !.bytes = bytes, !.sections = sections, !.imageSize = imageSize]
    BY <2>2 DEF PutIntoPe
  <2>5. g = [size |-> size + growth, bytes |-> bytes, headersEnd |-> f.headersEnd,
             signed |-> f.signed, pe64 |-> f.pe64, imageSize |-> imageSize,
             sections |-> sections, pointers |-> pointers, debug |-> f.debug]
    <3>1. PICK first : first = [grown EXCEPT !.bytes = bytes]
      OBVIOUS
    <3>2. PICK second : second = [first EXCEPT !.sections = sections]
      OBVIOUS
    <3>3. first = [size |-> size + growth, bytes |-> bytes, headersEnd |-> f.headersEnd,
                   signed |-> f.signed, pe64 |-> f.pe64, imageSize |-> f.imageSize,
                   sections |-> f.sections, pointers |-> pointers, debug |-> f.debug]
      BY <2>3, <3>1
    <3>4. second = [size |-> size + growth, bytes |-> bytes, headersEnd |-> f.headersEnd,
                    signed |-> f.signed, pe64 |-> f.pe64, imageSize |-> f.imageSize,
                    sections |-> sections, pointers |-> pointers, debug |-> f.debug]
      BY <3>2, <3>3
    <3>5. g = [second EXCEPT !.imageSize = imageSize]
      BY <2>3, <2>4, <3>1, <3>2
    <3> QED  BY <3>4, <3>5
  <2>6. /\ g.bytes = bytes /\ g.sections = sections /\ g.imageSize = imageSize
        /\ g.headersEnd = f.headersEnd /\ g.signed = f.signed
        /\ g.pe64 = f.pe64 /\ g.debug = f.debug
        /\ g.size = size + growth /\ g.pointers = pointers
    BY <2>5
  <2> QED  BY <1>1, <2>2, <2>5, <2>6
<1>8. /\ g.bytes \in Files(size + growth)
      /\ g.bytes[start] = Len(payload)
      /\ PayloadAt(g.bytes, start) = payload
      /\ \A i \in 0 .. start - 1 : g.bytes[i] = f.bytes[i]
      /\ \A i \in start + raw0 .. size - 1 : g.bytes[i + growth] = f.bytes[i]
  <2>1. GapMade(grown.bytes, f.bytes, size, start + raw0, growth)
    <3>1. f.bytes \in Files(size)
      BY <1>1, PeFields
    <3>2. CASE growth = 0
      <4>1. grown.bytes = f.bytes
        BY <1>4, <3>2 DEF Pe!Grown
      <4> QED  BY <1>2, <3>1, <3>2, <4>1 DEF GapMade
    <3>3. CASE growth # 0
      <4>1. grown.bytes = Gap(f.bytes, size, start + raw0, growth)
        BY <1>1, <1>2, <1>4, <3>3, PeBytes DEF Pe!Grown, Pe!IsPe
      <4>2. start + raw0 \in 0 .. size
        BY <1>2
      <4> QED  BY <3>1, <4>1, <4>2, GapFacts
    <3> QED  BY <3>2, <3>3
  <2>2. /\ grown.bytes \in Files(size + growth)
        /\ start + raw <= size + growth /\ size + growth \in Nat
    BY <1>2, <1>4, <2>1 DEF GapMade
  <2>3. /\ g.bytes \in Files(size + growth)
        /\ \A i \in 0 .. size + growth - 1 : i \notin start .. start + raw - 1 =>
             g.bytes[i] = grown.bytes[i]
        /\ g.bytes[start] = Len(payload)
        /\ PayloadAt(g.bytes, start) = payload
    <3>1. Required(payload) <= raw
      BY <1>1, <1>3
    <3>2. raw \in Nat
      BY <1>3
    <3>3. PICK total \in Nat : total = size + growth
      OBVIOUS
    <3>4. grown.bytes \in Files(total) /\ start + raw <= total
      BY <2>2, <3>3
    <3>5. /\ g.bytes \in Files(total)
          /\ \A i \in 0 .. total - 1 : i \notin start .. start + raw - 1 =>
               g.bytes[i] = grown.bytes[i]
          /\ g.bytes[start] = Len(payload)
          /\ PayloadAt(g.bytes, start) = payload
      BY <1>7, <3>1, <3>2, <3>4, PutFacts
    <3> QED  BY <3>3, <3>5
  <2>4. ASSUME NEW i \in 0 .. start - 1
        PROVE  g.bytes[i] = f.bytes[i]
    <3>1. i \in 0 .. size + growth - 1 /\ i \notin start .. start + raw - 1
          /\ i \in 0 .. start + raw0 - 1
      BY <1>2
    <3> QED  BY <2>1, <2>3, <3>1 DEF GapMade
  <2>5. ASSUME NEW i \in start + raw0 .. size - 1
        PROVE  g.bytes[i + growth] = f.bytes[i]
    <3>1. i + growth \in 0 .. size + growth - 1 /\ i + growth \notin start .. start + raw - 1
      BY <1>4
    <3>2. grown.bytes[i + growth] = f.bytes[i]
      BY <2>1 DEF GapMade
    <3> QED  BY <2>3, <3>1, <3>2
  <2> QED  BY <2>3, <2>4, <2>5
<1>9. /\ g.sections \in [PeSections -> Pe!SectionHeader]
      /\ \A x \in PeSections \ {Bun} : g.sections[x] = f.sections[x]
      /\ g.sections[Bun].vsize = required /\ g.sections[Bun].raw = raw
      /\ g.sections[Bun].vaddr = f.sections[Bun].vaddr /\ g.sections[Bun].ptr = start
  <2>1. PICK bun : bun = f.sections[Bun]
    OBVIOUS
  <2>2. bun \in Pe!SectionHeader /\ f.sections \in [PeSections -> Pe!SectionHeader]
    BY <2>1, PeConstants DEF Pe!IsPe
  <2>3. PICK new : new = [bun EXCEPT !.vsize = required, !.raw = raw]
    OBVIOUS
  <2>4. /\ new \in Pe!SectionHeader /\ new.vsize = required /\ new.raw = raw
        /\ new.vaddr = bun.vaddr /\ new.ptr = bun.ptr
    BY <1>3, <2>2, <2>3 DEF Pe!SectionHeader
  <2>5. g.sections = [f.sections EXCEPT ![Bun] = new]
    <3>1. Pe!Required(payload) = required
      BY <1>1, PeBytes
    <3>2. g.sections = [f.sections EXCEPT ![Bun] =
                          [f.sections[Bun] EXCEPT !.vsize = required, !.raw = raw]]
      BY <1>7, <2>2, <3>1, PeConstants DEF Pe!NewSections
    <3> QED  BY <2>1, <2>3, <3>2, Zenon
  <2>6. /\ g.sections \in [PeSections -> Pe!SectionHeader]
        /\ \A x \in PeSections \ {Bun} : g.sections[x] = f.sections[x]
        /\ g.sections[Bun] = new
    BY <2>2, <2>4, <2>5, PeConstants
  <2> QED  BY <1>1, <2>1, <2>4, <2>6
<1>10. \A p \in Pointers :
         /\ g.pointers[p].size = f.pointers[p].size
         /\ g.pointers[p].offset =
              IF /\ f.pointers[p].offset # 0 /\ f.pointers[p].offset >= start + raw0
                 /\ p \in DebugPointers => Pe!HasDebug(f)
              THEN f.pointers[p].offset + growth ELSE f.pointers[p].offset
  <2>1. CASE growth = 0
    <3>1. g.pointers = f.pointers
      BY <1>4, <1>7, <2>1 DEF Pe!Grown
    <3>2. \A p \in Pointers : f.pointers[p].offset \in Nat
      BY PeFields
    <3> QED  BY <2>1, <3>1, <3>2
  <2>2. CASE growth # 0
    <3>1. g.pointers = Pe!Shifted(f, growth)
      BY <1>4, <1>7, <2>2 DEF Pe!Grown, Pe!IsPe
    <3>2. TAKE p \in Pointers
    <3>3. f.pointers[p] \in Pe!Pointer
      BY DEF Pe!IsPe
    <3>4. g.pointers[p] =
            IF /\ f.pointers[p].offset # 0 /\ f.pointers[p].offset >= start + raw0
               /\ p \in DebugPointers => Pe!HasDebug(f)
            THEN [f.pointers[p] EXCEPT !.offset = @ + growth] ELSE f.pointers[p]
      <4>1. Pe!BunEnd(f) = start + raw0
        BY <1>2
      <4>2. g.pointers[p] =
              IF /\ f.pointers[p].offset # 0 /\ f.pointers[p].offset >= Pe!BunEnd(f)
                 /\ p \in DebugPointers => Pe!HasDebug(f)
              THEN [f.pointers[p] EXCEPT !.offset = @ + growth] ELSE f.pointers[p]
        BY <3>1 DEF Pe!Shifted
      <4> QED  BY <4>1, <4>2
    <3>5. /\ f.pointers[p].offset \in Nat
          /\ [f.pointers[p] EXCEPT !.offset = @ + growth].offset = f.pointers[p].offset + growth
          /\ [f.pointers[p] EXCEPT !.offset = @ + growth].size = f.pointers[p].size
      BY <3>3 DEF Pe!Pointer
    <3>6. CASE /\ f.pointers[p].offset # 0 /\ f.pointers[p].offset >= start + raw0
               /\ p \in DebugPointers => Pe!HasDebug(f)
      BY <3>4, <3>5, <3>6
    <3>7. CASE ~ /\ f.pointers[p].offset # 0 /\ f.pointers[p].offset >= start + raw0
                 /\ p \in DebugPointers => Pe!HasDebug(f)
      BY <3>4, <3>7
    <3> QED  BY <3>6, <3>7
  <2> QED  BY <2>1, <2>2
<1>11. g.pointers \in [Pointers -> Pe!Pointer]
  <2>1. CASE growth = 0
    BY <1>4, <1>7, <2>1 DEF Pe!Grown, Pe!IsPe
  <2>2. CASE growth # 0
    <3>1. g.pointers = Pe!Shifted(f, growth)
      BY <1>4, <1>7, <2>2 DEF Pe!Grown, Pe!IsPe
    <3>2. f.pointers \in [Pointers -> Pe!Pointer]
      BY DEF Pe!IsPe
    <3>3. ASSUME NEW p \in Pointers
          PROVE  g.pointers[p] \in Pe!Pointer
      <4>1. \/ g.pointers[p] = f.pointers[p]
            \/ g.pointers[p] = [f.pointers[p] EXCEPT !.offset = @ + growth]
        BY <3>1 DEF Pe!Shifted
      <4> QED  BY <3>2, <4>1 DEF Pe!Pointer
    <3> QED  BY <3>1, <3>3 DEF Pe!Shifted
  <2> QED  BY <2>1, <2>2
<1>12. PICK bound \in Nat : \A x \in PeSections : Pe!VirtualEnd(g.sections[x]) <= bound
  <2>1. Pe!VirtualEnd(g.sections[Bun]) \in Nat
    BY <1>9, PeConstants, VirtualEnds
  <2>2. \A x \in PeSections : Pe!VirtualEnd(f.sections[x]) <= f.imageSize
    BY DEF Pe!Loadable, Pe!IsImageEnd
  <2>3. \A x \in PeSections : Pe!VirtualEnd(f.sections[x]) \in Nat
    BY VirtualEnds DEF Pe!IsPe
  <2>4. PICK bound \in Nat : bound = f.imageSize + Pe!VirtualEnd(g.sections[Bun])
    BY <2>1, PeFields
  <2>5. ASSUME NEW x \in PeSections
        PROVE  Pe!VirtualEnd(g.sections[x]) <= bound
    <3>1. CASE x = Bun
      BY <2>1, <2>4, <3>1, PeFields
    <3>2. CASE x # Bun
      <4>1. Pe!VirtualEnd(g.sections[x]) = Pe!VirtualEnd(f.sections[x])
        BY <1>9, <3>2
      <4> QED  BY <2>1, <2>2, <2>3, <2>4, <4>1, PeFields
    <3> QED  BY <3>1, <3>2
  <2> QED  BY <2>5
<1>13. /\ g.imageSize \in Nat
       /\ Pe!IsImageEnd(g, g.imageSize)
  BY <1>7, <1>9, <1>12, ImageEnds DEF Pe!IsImageEnd
<1>14. Pe!IsPe(g)
  <2>1. g.bytes \in Pe!Files(g.size) /\ g.size \in Nat
    BY <1>7, <1>8, PeBytes
  <2>2. /\ g.headersEnd \in Nat /\ g.signed \in BOOLEAN /\ g.pe64 \in BOOLEAN
        /\ g.debug \in [rva : Nat, size : Nat]
    BY <1>7 DEF Pe!IsPe
  <2> QED  BY <1>7, <1>9, <1>11, <1>13, <2>1, <2>2 DEF Pe!IsPe
<1>15. /\ Pe!BunStart(g) = start /\ Pe!BunEnd(g) = start + raw0 + growth
       /\ Pe!HasDebug(g) <=> Pe!HasDebug(f)
       /\ Pe!Live(g) = Pe!Live(f)
  <2>1. Pe!BunStart(g) = start /\ Pe!BunEnd(g) = start + raw0 + growth
    BY <1>4, <1>9 DEF Pe!BunStart, Pe!BunEnd, Pe!RawEnd
  <2>2. Pe!HasDebug(g) <=> Pe!HasDebug(f)
    BY <1>7 DEF Pe!HasDebug
  <2>3. ASSUME NEW p \in Pointers
        PROVE  g.pointers[p].offset # 0 <=> f.pointers[p].offset # 0
    <3>1. f.pointers[p].offset \in Nat
      BY PeFields
    <3> QED  BY <1>10, <3>1
  <2>4. Pe!Live(g) = Pe!Live(f)
    BY <1>10, <2>3 DEF Pe!Live
  <2> QED  BY <2>1, <2>2, <2>4
<1>16. ASSUME NEW p \in Pe!Live(f)
       PROVE  /\ p \in Pointers
              /\ f.pointers[p].offset \in Nat /\ f.pointers[p].size \in Nat
              /\ f.pointers[p].offset + f.pointers[p].size <= size
              /\ g.pointers[p].size = f.pointers[p].size
              /\ \/ /\ f.pointers[p].offset + f.pointers[p].size <= start
                    /\ g.pointers[p].offset = f.pointers[p].offset
                 \/ /\ start + raw0 <= f.pointers[p].offset
                    /\ g.pointers[p].offset = f.pointers[p].offset + growth
  <2>1. /\ p \in Pointers /\ f.pointers[p].offset # 0 /\ f.pointers[p].size # 0
        /\ p \in DebugPointers => Pe!HasDebug(f)
    BY <1>16 DEF Pe!Live, Pe!Loadable
  <2>2. f.pointers[p].offset \in Nat /\ f.pointers[p].size \in Nat
    BY <2>1, PeFields
  <2>3. /\ f.pointers[p].offset + f.pointers[p].size <= size
        /\ \/ f.pointers[p].offset + f.pointers[p].size <= start
           \/ start + raw0 <= f.pointers[p].offset
    BY <1>1, <1>2, <1>16 DEF Pe!Loadable
  <2>4. /\ g.pointers[p].size = f.pointers[p].size
        /\ g.pointers[p].offset = IF f.pointers[p].offset >= start + raw0
                                  THEN f.pointers[p].offset + growth ELSE f.pointers[p].offset
    BY <1>10, <2>1
  <2>5. ~(f.pointers[p].offset + f.pointers[p].size <= start
            /\ start + raw0 <= f.pointers[p].offset)
    BY <2>1, <2>2
  <2> QED  BY <2>1, <2>2, <2>3, <2>4, <2>5
<1>17. \A x \in PeSections \ {Bun} :
         /\ f.sections[x].raw \in Nat /\ f.sections[x].ptr \in Nat
         /\ f.sections[x].vaddr \in Nat
         /\ f.sections[x].raw # 0 =>
              /\ f.sections[x].ptr + f.sections[x].raw <= size
              /\ \/ f.sections[x].ptr + f.sections[x].raw <= start
                 \/ growth = 0 /\ start + raw0 <= f.sections[x].ptr
         /\ \/ Pe!VirtualEnd(f.sections[x]) <= f.sections[Bun].vaddr
            \/ Pe!VirtualEnd(g.sections[Bun]) <= f.sections[x].vaddr
  <2>1. TAKE x \in PeSections \ {Bun}
  <2>2. f.sections[x].raw \in Nat /\ f.sections[x].ptr \in Nat /\ f.sections[x].vaddr \in Nat
    BY PeFields
  <2>3. CASE growth # 0
    BY <1>2, <1>6, <2>2, <2>3
  <2>4. CASE growth = 0
    <3>1. f.sections[x].raw # 0 =>
            /\ f.sections[x].ptr + f.sections[x].raw <= size
            /\ \/ f.sections[x].ptr + f.sections[x].raw <= start
               \/ growth = 0 /\ start + raw0 <= f.sections[x].ptr
      <4>1. PICK from \in Nat, length \in Nat :
              from = f.sections[x].ptr /\ length = f.sections[x].raw
        BY <2>2
      <4>2. length # 0 => from + length <= size /\ ~(start < from + length /\ from < start + raw0)
        BY <1>2, <4>1
      <4> QED  BY <2>4, <4>1, <4>2
    <3>2. \/ Pe!VirtualEnd(f.sections[x]) <= f.sections[Bun].vaddr
          \/ Pe!VirtualEnd(f.sections[Bun]) <= f.sections[x].vaddr
      BY PeConstants DEF Pe!Loadable
    <3>3. Pe!VirtualEnd(g.sections[Bun]) <= Pe!VirtualEnd(f.sections[Bun])
      <4>1. PICK vaddr \in Nat, new \in Nat, old \in Nat :
              /\ vaddr = f.sections[Bun].vaddr
              /\ new = Pe!Larger(required, raw)
              /\ old = Pe!Larger(f.sections[Bun].vsize, raw0)
        <5>1. f.sections[Bun].vaddr \in Nat /\ f.sections[Bun].vsize \in Nat
          BY PeFields, PeConstants
        <5>2. Pe!Larger(required, raw) \in Nat /\ Pe!Larger(f.sections[Bun].vsize, raw0) \in Nat
          BY <1>3, <5>1 DEF Pe!Larger
        <5> QED  BY <5>1, <5>2
      <4>2. new <= old
        <5>1. f.sections[Bun].vsize \in Nat
          BY PeFields, PeConstants
        <5>2. raw = raw0
          <6>1. raw = raw0 + growth /\ raw0 + 0 = raw0
            BY <1>4
          <6> QED  BY <2>4, <6>1, Zenon
        <5>3. new = raw0
          BY <1>3, <4>1, <5>2 DEF Pe!Larger
        <5> QED  BY <4>1, <5>1, <5>3 DEF Pe!Larger
      <4>3. /\ AlignUp(new, SectionAlign) \in Nat /\ AlignUp(old, SectionAlign) \in Nat
            /\ AlignUp(new, SectionAlign) <= AlignUp(old, SectionAlign)
        BY <4>2, AlignUpMonotone, AlignUpFacts, PeConstants
      <4>4. Pe!VirtualEnd(g.sections[Bun]) = vaddr + AlignUp(new, SectionAlign)
        BY <1>9, <4>1, PeBytes DEF Pe!VirtualEnd
      <4>5. Pe!VirtualEnd(f.sections[Bun]) = vaddr + AlignUp(old, SectionAlign)
        BY <1>1, <4>1, PeBytes DEF Pe!VirtualEnd
      <4> QED  BY <4>1, <4>3, <4>4, <4>5
    <3>4. /\ Pe!VirtualEnd(g.sections[Bun]) \in Nat
          /\ Pe!VirtualEnd(f.sections[Bun]) \in Nat
      BY <1>9, VirtualEnds, PeConstants DEF Pe!IsPe
    <3> QED  BY <2>2, <3>1, <3>2, <3>3, <3>4
  <2> QED  BY <2>3, <2>4
<1>18. Pe!Loadable(g)
  <2>1. g.headersEnd <= g.size
    BY <1>1, <1>2, <1>7, PeFields
  <2>2. ASSUME NEW x \in PeSections, g.sections[x].raw # 0
        PROVE  Pe!RawEnd(g, x) <= g.size
    <3>1. CASE x = Bun
      <4>1. Pe!RawEnd(g, x) = start + raw
        BY <1>9, <3>1 DEF Pe!RawEnd
      <4>2. raw = raw0 + growth
        BY <1>4
      <4>3. Pe!RawEnd(g, x) <= size + growth
        BY <1>2, <4>1, <4>2
      <4> QED  BY <1>7, <4>3
    <3>2. CASE x # Bun
      <4>1. /\ g.sections[x] = f.sections[x] /\ f.sections[x].raw \in Nat
            /\ f.sections[x].ptr \in Nat
            /\ f.sections[x].ptr + f.sections[x].raw <= size
        BY <1>9, <1>17, <2>2, <3>2
      <4> QED  BY <1>7, <4>1 DEF Pe!RawEnd
    <3> QED  BY <3>1, <3>2
  <2>3. ASSUME NEW x \in PeSections \ {Bun}
        PROVE  /\ \/ g.sections[x].raw = 0
                  \/ Pe!RawEnd(g, x) <= g.sections[Bun].ptr
                  \/ Pe!RawEnd(g, Bun) <= g.sections[x].ptr
               /\ \/ Pe!VirtualEnd(g.sections[x]) <= g.sections[Bun].vaddr
                  \/ Pe!VirtualEnd(g.sections[Bun]) <= g.sections[x].vaddr
    <3>1. g.sections[x] = f.sections[x]
      BY <1>9
    <3>2. Pe!RawEnd(g, x) = f.sections[x].ptr + f.sections[x].raw
          /\ Pe!RawEnd(g, Bun) = start + raw0 + growth
      BY <1>4, <1>9, <3>1 DEF Pe!RawEnd
    <3>3. \/ f.sections[x].raw = 0
          \/ f.sections[x].ptr + f.sections[x].raw <= start
          \/ start + raw0 + growth <= f.sections[x].ptr
      BY <1>17
    <3>4. \/ Pe!VirtualEnd(f.sections[x]) <= f.sections[Bun].vaddr
          \/ Pe!VirtualEnd(g.sections[Bun]) <= f.sections[x].vaddr
      BY <1>17
    <3> QED  BY <1>9, <3>1, <3>2, <3>3, <3>4
  <2>4. ASSUME NEW x \in PeSections, NEW y \in PeSections, x # y
        PROVE  /\ \/ g.sections[x].raw = 0 \/ g.sections[y].raw = 0
                  \/ Pe!RawEnd(g, x) <= g.sections[y].ptr
                  \/ Pe!RawEnd(g, y) <= g.sections[x].ptr
               /\ \/ Pe!VirtualEnd(g.sections[x]) <= g.sections[y].vaddr
                  \/ Pe!VirtualEnd(g.sections[y]) <= g.sections[x].vaddr
    <3>1. CASE x = Bun
      BY <2>3, <2>4, <3>1
    <3>2. CASE y = Bun
      BY <2>3, <2>4, <3>2
    <3>3. CASE x # Bun /\ y # Bun
      <4>1. g.sections[x] = f.sections[x] /\ g.sections[y] = f.sections[y]
        BY <1>9, <3>3
      <4> QED  BY <2>4, <4>1 DEF Pe!Loadable, Pe!RawEnd
    <3> QED  BY <3>1, <3>2, <3>3
  <2>5. ASSUME NEW p \in Pe!Live(g)
        PROVE  /\ g.pointers[p].offset + g.pointers[p].size <= g.size
               /\ \/ g.pointers[p].offset + g.pointers[p].size <= Pe!BunStart(g)
                  \/ Pe!BunEnd(g) <= g.pointers[p].offset
    <3>1. PICK from \in Nat, length \in Nat :
            from = f.pointers[p].offset /\ length = f.pointers[p].size
      BY <1>15, <1>16
    <3>2. /\ from + length <= size
          /\ g.pointers[p].size = length
          /\ \/ from + length <= start /\ g.pointers[p].offset = from
             \/ start + raw0 <= from /\ g.pointers[p].offset = from + growth
      BY <1>15, <1>16, <3>1
    <3> QED  BY <1>7, <1>15, <3>2
  <2>6. ~Pe!HasDebug(g) => Pe!Live(g) \cap DebugPointers = {}
    BY <1>15 DEF Pe!Loadable
  <2>7. /\ Width + g.bytes[Pe!BunStart(g)] <= g.sections[Bun].vsize
        /\ Width <= g.sections[Bun].raw
        /\ Width + g.bytes[Pe!BunStart(g)] <= g.sections[Bun].raw
    <3>1. required = Width + Len(payload) /\ Width \in Nat /\ Len(payload) \in Nat
      BY <1>1, WidthAssumption DEF Required
    <3>2. g.bytes[Pe!BunStart(g)] = Len(payload)
      BY <1>8, <1>15
    <3>3. g.sections[Bun].vsize = required /\ g.sections[Bun].raw = raw
      BY <1>9
    <3> QED  BY <1>3, <3>1, <3>2, <3>3
  <2> QED  BY <1>13, <2>1, <2>2, <2>4, <2>5, <2>6, <2>7 DEF Pe!Loadable
<1>19. ASSUME NEW r \in Pe!Regions
       PROVE  Pe!Region(g, r) = Pe!Region(f, r)
  <2>1. ASSUME NEW from \in Nat, NEW length \in Nat, from + length <= start
        PROVE  Pe!Slice(g.bytes, from, length) = Pe!Slice(f.bytes, from, length)
    <3>1. Kept(f.bytes, g.bytes, from, length)
      BY <2>1, <1>8 DEF Kept
    <3>2. Slice(g.bytes, from, length) = Slice(f.bytes, from, length)
      BY <3>1, SliceKept
    <3> QED  BY <3>2, PeBytes
  <2>2. ASSUME NEW from \in Nat, NEW length \in Nat, start + raw0 <= from, from + length <= size
        PROVE  Pe!Slice(g.bytes, from + growth, length) = Pe!Slice(f.bytes, from, length)
    <3>1. Moved(f.bytes, g.bytes, from, length, growth)
      BY <2>2, <1>8 DEF Moved
    <3>2. Slice(g.bytes, from + growth, length) = Slice(f.bytes, from, length)
      BY <3>1, SliceMoved
    <3> QED  BY <3>2, PeBytes
  <2>3. CASE r = "head"
    BY <2>1, <2>3, <1>2, <1>15 DEF Pe!Region
  <2>4. CASE r = "overlay"
    <3>1. PICK from \in Nat, length \in Nat :
            /\ from = start + raw0 /\ length = size - from
            /\ from + growth = start + raw0 + growth
            /\ length = size + growth - (start + raw0 + growth)
            /\ from + length <= size
      BY <1>2
    <3>2. Pe!Slice(g.bytes, from + growth, length) = Pe!Slice(f.bytes, from, length)
      BY <2>2, <3>1
    <3>3. Pe!Region(f, r) = Pe!Slice(f.bytes, from, length)
      BY <1>1, <1>2, <2>4, <3>1 DEF Pe!Region
    <3>4. Pe!Region(g, r) = Pe!Slice(g.bytes, from + growth, length)
      BY <1>7, <1>15, <2>4, <3>1 DEF Pe!Region
    <3> QED  BY <3>2, <3>3, <3>4
  <2>5. CASE r \notin {"head", "overlay"} /\ r \in Pe!Live(f)
    <3>1. PICK from \in Nat, length \in Nat :
            from = f.pointers[r].offset /\ length = f.pointers[r].size
      BY <1>16, <2>5
    <3>2. /\ from + length <= size
          /\ g.pointers[r].size = length
          /\ \/ from + length <= start /\ g.pointers[r].offset = from
             \/ start + raw0 <= from /\ g.pointers[r].offset = from + growth
      BY <1>16, <2>5, <3>1
    <3>3. Pe!Slice(g.bytes, g.pointers[r].offset, length) = Pe!Slice(f.bytes, from, length)
      BY <2>1, <2>2, <3>2
    <3>4. Pe!Region(f, r) = Pe!Slice(f.bytes, from, length)
      BY <2>5, <3>1 DEF Pe!Region
    <3>5. Pe!Region(g, r) = Pe!Slice(g.bytes, g.pointers[r].offset, length)
      BY <1>15, <2>5, <3>2 DEF Pe!Region
    <3> QED  BY <3>3, <3>4, <3>5
  <2>6. CASE r \notin {"head", "overlay"} /\ r \notin Pe!Live(f) /\ r \in PeSections
    <3>1. r \in PeSections \ {Bun}
      BY <2>6, PointersAreNoSections DEF Pe!Regions
    <3>2. PICK from \in Nat, length \in Nat :
            from = f.sections[r].ptr /\ length = f.sections[r].raw
      BY <1>17, <3>1
    <3>3. length # 0 => /\ from + length <= size
                        /\ \/ from + length <= start
                           \/ growth = 0 /\ start + raw0 <= from
      BY <1>17, <3>1, <3>2
    <3>4. Pe!Slice(g.bytes, from, length) = Pe!Slice(f.bytes, from, length)
      <4>1. CASE length = 0
        BY <4>1, EmptySlice, PeBytes
      <4>2. CASE length # 0 /\ from + length <= start
        BY <2>1, <4>2
      <4>3. CASE length # 0 /\ growth = 0 /\ start + raw0 <= from
        <5>1. from + growth = from
          BY <4>3
        <5> QED  BY <2>2, <3>3, <4>3, <5>1
      <4> QED  BY <3>3, <4>1, <4>2, <4>3
    <3>5. Pe!Region(f, r) = Pe!Slice(f.bytes, from, length)
      BY <2>6, <3>2 DEF Pe!Region
    <3>6. Pe!Region(g, r) = Pe!Slice(g.bytes, from, length)
      BY <1>9, <1>15, <2>6, <3>1, <3>2 DEF Pe!Region
    <3> QED  BY <3>4, <3>5, <3>6
  <2>7. CASE r \notin {"head", "overlay"} /\ r \notin Pe!Live(f) /\ r \notin PeSections
    BY <1>15, <2>7 DEF Pe!Region
  <2> QED  BY <2>3, <2>4, <2>5, <2>6, <2>7
<1>20. ASSUME NEW other \in Seq(Nat), Pe!Writable(f, other)
       PROVE  Pe!Writable(g, other)
  <2>1. ~g.signed
    BY <1>7 DEF Pe!Writable
  <2>2. Pe!RangeValid(g)
    <3>1. Pe!BunEnd(g) <= g.size /\ g.headersEnd <= Pe!BunStart(g)
      BY <1>2, <1>7, <1>15
    <3>2. ASSUME NEW x \in PeSections \ {Bun}, g.sections[x].raw # 0
          PROVE  /\ Pe!RawEnd(g, x) <= g.size
                 /\ ~(Pe!BunStart(g) < Pe!RawEnd(g, x) /\ g.sections[x].ptr < Pe!BunEnd(g))
      <4>1. g.sections[x] = f.sections[x]
        BY <1>9
      <4>2. PICK from \in Nat, length \in Nat :
              from = f.sections[x].ptr /\ length = f.sections[x].raw
        BY <1>17
      <4>3. /\ from + length <= size
            /\ from + length <= start \/ (growth = 0 /\ start + raw0 <= from)
        <5>1. length # 0
          BY <3>2, <4>1, <4>2
        <5>2. f.sections[x].raw # 0
          BY <3>2, <4>1
        <5>3. /\ f.sections[x].ptr + f.sections[x].raw <= size
              /\ \/ f.sections[x].ptr + f.sections[x].raw <= start
                 \/ growth = 0 /\ start + raw0 <= f.sections[x].ptr
          BY <1>17, <5>2
        <5> QED  BY <4>2, <5>3
      <4>4. Pe!RawEnd(g, x) = from + length /\ g.sections[x].ptr = from
        BY <4>1, <4>2 DEF Pe!RawEnd
      <4> QED  BY <1>7, <1>15, <4>3, <4>4
    <3> QED  BY <3>1, <3>2 DEF Pe!RangeValid
  <2>3. ASSUME Pe!NewRawSize(g, other) # g.sections[Bun].raw
        PROVE  Pe!Growable(g)
    <3>1. Pe!Growable(f)
      <4>1. PICK aligned \in Nat : aligned = Pe!AlignUp(Pe!Required(other), FileAlign)
        <5>1. Required(other) \in Nat
          BY WidthAssumption DEF Required
        <5> QED  BY <5>1, AlignUpFacts, PeConstants, PeBytes
      <4>2. Pe!Larger(raw, aligned) # raw
        BY <1>9, <2>3, <4>1 DEF Pe!NewRawSize
      <4>3. Pe!Larger(raw0, aligned) # raw0
        BY <1>3, <4>1, <4>2 DEF Pe!Larger
      <4>4. Pe!NewRawSize(f, other) # f.sections[Bun].raw
        BY <1>1, <4>1, <4>3 DEF Pe!NewRawSize
      <4> QED  BY <1>20, <4>4 DEF Pe!Writable
    <3>2. Pe!BunIsLast(g)
      <4>1. SUFFICES ASSUME NEW x \in PeSections \ {Bun}
                     PROVE  /\ ~(g.sections[x].raw # 0 /\ g.sections[x].ptr >= Pe!BunEnd(g))
                            /\ g.sections[x].vaddr < g.sections[Bun].vaddr
                            /\ Pe!VirtualEnd(g.sections[x]) <= g.sections[Bun].vaddr
        BY DEF Pe!BunIsLast
      <4>2. g.sections[x] = f.sections[x] /\ g.sections[Bun].vaddr = f.sections[Bun].vaddr
        BY <1>9
      <4>3. /\ ~(f.sections[x].raw # 0 /\ f.sections[x].ptr >= start + raw0)
            /\ f.sections[x].vaddr < f.sections[Bun].vaddr
            /\ Pe!VirtualEnd(f.sections[x]) <= f.sections[Bun].vaddr
        BY <1>2, <3>1 DEF Pe!Growable, Pe!BunIsLast
      <4>4. PICK from \in Nat : from = f.sections[x].ptr
        BY <1>17
      <4>5. f.sections[x].raw # 0 => ~(from >= start + raw0 + growth)
        BY <4>3, <4>4
      <4> QED  BY <1>15, <4>2, <4>3, <4>4, <4>5
    <3>3. Pe!DebugMovable(g)
      <4>1. SUFFICES ASSUME Pe!HasDebug(g)
                     PROVE  \E x \in Pe!DebugHome(g) : Pe!DebugAt(g, x) < Pe!BunEnd(g)
        BY DEF Pe!DebugMovable
      <4>2. PICK x \in Pe!DebugHome(f) : Pe!DebugAt(f, x) < Pe!BunEnd(f)
        BY <1>15, <3>1, <4>1 DEF Pe!Growable, Pe!DebugMovable
      <4>3. /\ x \in PeSections /\ f.sections[x].vaddr <= f.debug.rva
            /\ f.debug.rva + f.debug.size <= f.sections[x].vaddr + f.sections[x].raw
            /\ f.sections[x].ptr + (f.debug.rva - f.sections[x].vaddr) < start + raw0
        BY <1>2, <4>2 DEF Pe!DebugHome, Pe!DebugAt
      <4>4. PICK address \in Nat, from \in Nat, length \in Nat, rva \in Nat, extent \in Nat :
              /\ address = f.sections[x].vaddr /\ from = f.sections[x].ptr
              /\ length = f.sections[x].raw /\ rva = f.debug.rva /\ extent = f.debug.size
        BY <4>3, PeFields
      <4>5. /\ g.sections[x].vaddr = address /\ g.sections[x].ptr = from
            /\ g.debug.rva = rva /\ g.debug.size = extent
        BY <1>1, <1>7, <1>9, <4>3, <4>4
      <4>6. PICK room \in Nat : room = g.sections[x].raw /\ length <= room
        <5>1. CASE x = Bun
          BY <1>1, <1>3, <1>9, <4>4, <5>1
        <5>2. CASE x # Bun
          BY <1>9, <4>3, <4>4, <5>2
        <5> QED  BY <5>1, <5>2
      <4>7. address <= rva /\ rva + extent <= address + room
        <5>1. address <= rva /\ rva + extent <= address + length
          BY <4>3, <4>4
        <5> QED  BY <4>6, <5>1
      <4>8. x \in Pe!DebugHome(g)
        BY <4>3, <4>5, <4>6, <4>7 DEF Pe!DebugHome
      <4>9. from + (rva - address) < start + raw0 + growth
        <5>1. from + (rva - address) < start + raw0
          BY <4>3, <4>4
        <5> QED  BY <5>1
      <4>10. Pe!DebugAt(g, x) < Pe!BunEnd(g)
        BY <1>15, <4>5, <4>9 DEF Pe!DebugAt
      <4> QED  BY <4>8, <4>10
    <3> QED  BY <1>7, <3>1, <3>2, <3>3 DEF Pe!Growable
  <2> QED  BY <2>1, <2>2, <2>3 DEF Pe!Writable
<1> QED  BY <1>1, <1>7, <1>8, <1>9, <1>14, <1>15, <1>18, <1>19, <1>20

(* A step of the PE writer, in the words of the properties. *)
LEMMA PeStep ==
  ASSUME Pe!Valid, Pe!Next
  PROVE  /\ Pe!Valid'
         /\ Pe!WritableStep
         /\ Pe!Payload' \in PayloadsOf["Pe"]
         /\ Pe!Address' = Pe!Address
         /\ Pe!Rest' = Pe!Rest
<1>1. PICK payload \in PayloadsOf["Pe"] : Pe!Write(payload)
  BY DEF Pe!Next
<1>2. PICK f, g : f = file /\ g = file'
  OBVIOUS
<1>3. PayloadsOf["Pe"] \subseteq Seq(Nat)
  BY ContainersAssumption DEF Pe!Assumption
<1>4. PICK raw, grown :
        /\ raw = Pe!NewRawSize(f, payload)
        /\ grown = Pe!Grown(f, raw - f.sections[Bun].raw)
  OBVIOUS
<1>5. Pe!IsPe(f) /\ Pe!Loadable(f) /\ Pe!Writable(f, payload)
  BY <1>1, <1>2 DEF Pe!Valid, Pe!Write
<1>6. g = PutIntoPe(f, grown, raw, payload)
  BY <1>1, <1>2, <1>4, PeBytes DEF Pe!Write, PutIntoPe, Pe!BunStart
<1>7. /\ Pe!IsPe(g)
      /\ Pe!Loadable(g)
      /\ PayloadAt(g.bytes, Pe!BunStart(g)) = payload
      /\ \A r \in Pe!Regions : Pe!Region(g, r) = Pe!Region(f, r)
      /\ g.sections[Bun].vaddr = f.sections[Bun].vaddr
      /\ \A other \in Seq(Nat) : Pe!Writable(f, other) => Pe!Writable(g, other)
  BY <1>3, <1>4, <1>5, <1>6, PeWritten
<1>8. Pe!Valid'
  BY <1>2, <1>7 DEF Pe!Valid
<1>9. Pe!WritableStep
  BY <1>2, <1>3, <1>7 DEF Pe!WritableStep
<1>10. Pe!Payload' \in PayloadsOf["Pe"]
  BY <1>2, <1>7, PeBytes DEF Pe!Payload
<1>11. Pe!Address' = Pe!Address /\ Pe!Rest' = Pe!Rest
  BY <1>2, <1>7 DEF Pe!Address, Pe!Rest
<1> QED  BY <1>8, <1>9, <1>10, <1>11

-----------------------------------------------------------------------------
(* ELF *)

(* The page size, and the section that the writer names. *)
LEMMA ElfConstants == Page \in Nat \ {0} /\ Bun \in ElfSections
BY ContainersAssumption DEF Elf!Assumption

(* The writer's operators on bytes are those of FileBytes. *)
LEMMA ElfBytes ==
  /\ \A n : Elf!Files(n) = Files(n)
  /\ \A b, from, length : Elf!Slice(b, from, length) = Slice(b, from, length)
  /\ \A b, n, at, growth : Elf!Gap(b, n, at, growth) = Gap(b, n, at, growth)
  /\ \A payload : Elf!Required(payload) = Required(payload)
  /\ \A b, at, capacity, payload :
       Elf!Put(b, at, capacity, payload) = Put(b, at, capacity, payload)
  /\ \A b, at : Elf!PayloadAt(b, at) = PayloadAt(b, at)
  /\ \A v, a : Elf!AlignUp(v, a) = AlignUp(v, a)
BY DEF Elf!Files, Files, Elf!Slice, Slice, Elf!Gap, Gap, Elf!Required, Required,
       Elf!Put, Put, Elf!Cell, Cell, Elf!PayloadAt, PayloadAt, Elf!AlignUp, AlignUp

(* The types of the fields of an ELF file. *)
LEMMA ElfFields ==
  ASSUME NEW f, Elf!IsElf(f)
  PROVE  /\ f.size \in Nat /\ f.bytes \in Files(f.size)
         /\ f.phoff \in Nat /\ f.phend \in Nat /\ f.shoff \in Nat /\ f.shend \in Nat
         /\ \A x \in ElfSections :
              /\ f.sections[x].nobits \in BOOLEAN /\ f.sections[x].offset \in Nat
              /\ f.sections[x].size \in Nat /\ f.sections[x].addr \in Nat
         /\ \A s \in ElfSegments :
              /\ f.segments[s].load \in BOOLEAN /\ f.segments[s].writable \in BOOLEAN
              /\ f.segments[s].offset \in Nat /\ f.segments[s].vaddr \in Nat
              /\ f.segments[s].filesz \in Nat /\ f.segments[s].memsz \in Nat
BY ElfBytes DEF Elf!IsElf, Elf!SectionHeader, Elf!ProgramHeader

(* The ranges that .bun must stay clear of are not empty; they are the header tables and
   the other sections. *)
LEMMA TakenRanges ==
  ASSUME NEW f, Elf!IsElf(f), Elf!Loadable(f)
  PROVE  /\ \A range \in Elf!Taken(f) :
              range.from \in Nat /\ range.to \in Nat /\ range.from < range.to
         /\ [from |-> f.phoff, to |-> f.phend] \in Elf!Taken(f)
         /\ [from |-> f.shoff, to |-> f.shend] \in Elf!Taken(f)
         /\ \A x \in Elf!Filed(f) \ {Bun} :
              [from |-> f.sections[x].offset, to |-> f.sections[x].offset + f.sections[x].size]
                \in Elf!Taken(f)
<1>1. ASSUME NEW x \in Elf!Filed(f)
      PROVE  /\ f.sections[x].offset \in Nat
             /\ Elf!SectionEnd(f, x) \in Nat
             /\ f.sections[x].offset < Elf!SectionEnd(f, x)
  <2>1. /\ f.sections[x].offset \in Nat /\ f.sections[x].size \in Nat
        /\ f.sections[x].size # 0
    BY <1>1, ElfFields DEF Elf!Filed
  <2> QED  BY <2>1 DEF Elf!SectionEnd
<1>2. /\ f.phoff \in Nat /\ f.phend \in Nat /\ f.shoff \in Nat /\ f.shend \in Nat
      /\ f.phoff < f.phend /\ f.shoff < f.shend
  BY ElfFields DEF Elf!Loadable
<1>3. ASSUME NEW range \in Elf!Taken(f)
      PROVE  range.from \in Nat /\ range.to \in Nat /\ range.from < range.to
  <2>1. \/ range = [from |-> f.phoff, to |-> f.phend]
        \/ range = [from |-> f.shoff, to |-> f.shend]
        \/ \E x \in Elf!Filed(f) :
             range = [from |-> f.sections[x].offset, to |-> Elf!SectionEnd(f, x)]
    BY <1>3 DEF Elf!Taken
  <2> QED  BY <1>1, <1>2, <2>1
<1> QED  BY <1>3 DEF Elf!Taken, Elf!SectionEnd

(* The padding of .bun ends at the end of its segment or at the first range behind it. *)
LEMMA RoomEnds ==
  ASSUME NEW f, Elf!IsElf(f), Elf!Loadable(f), NEW s \in ElfSegments, Elf!Maps(f, s)
  PROVE  /\ Elf!RoomEnd(f, s) \in Nat
         /\ Elf!BunEnd(f) <= Elf!RoomEnd(f, s)
         /\ Elf!RoomEnd(f, s) <= Elf!SegmentEnd(f, s)
         /\ \A range \in Elf!Taken(f) :
              Elf!BunEnd(f) <= range.from => Elf!RoomEnd(f, s) <= range.from
         /\ \/ Elf!RoomEnd(f, s) = Elf!SegmentEnd(f, s)
            \/ \E range \in Elf!Taken(f) :
                 Elf!BunEnd(f) <= range.from /\ Elf!RoomEnd(f, s) = range.from
<1> DEFINE ends == {Elf!SegmentEnd(f, s)}
              \cup {range.from : range \in {r \in Elf!Taken(f) : Elf!BunEnd(f) <= r.from}}
<1>1. Elf!SegmentEnd(f, s) \in Nat /\ Elf!BunEnd(f) \in Nat
  BY ElfFields, ElfConstants DEF Elf!SegmentEnd, Elf!BunEnd, Elf!BunHeader
<1>2. ends \in SUBSET Nat /\ ends # {}
  BY <1>1, TakenRanges
<1>3. \E end \in ends : \A other \in ends : end <= other
  <2> HIDE DEF ends
  <2> QED  BY <1>2, SmallestOf
<1>4. Elf!RoomEnd(f, s) = CHOOSE end \in ends : \A other \in ends : end <= other
  BY DEF Elf!RoomEnd
<1>5. Elf!RoomEnd(f, s) \in ends /\ \A other \in ends : Elf!RoomEnd(f, s) <= other
  <2> HIDE DEF ends
  <2> QED  BY <1>3, <1>4
<1>6. \A end \in ends : Elf!BunEnd(f) <= end
  BY DEF Elf!Maps
<1>7. /\ Elf!RoomEnd(f, s) \in Nat
      /\ Elf!BunEnd(f) <= Elf!RoomEnd(f, s)
  <2> HIDE DEF ends
  <2> QED  BY <1>2, <1>5, <1>6
<1>8. /\ Elf!RoomEnd(f, s) <= Elf!SegmentEnd(f, s)
      /\ \A range \in Elf!Taken(f) :
              Elf!BunEnd(f) <= range.from => Elf!RoomEnd(f, s) <= range.from
  BY <1>5
<1>9. \/ Elf!RoomEnd(f, s) = Elf!SegmentEnd(f, s)
      \/ \E range \in Elf!Taken(f) :
           Elf!BunEnd(f) <= range.from /\ Elf!RoomEnd(f, s) = range.from
  BY <1>5
<1> QED  BY <1>7, <1>8, <1>9

(* Two segments that map .bun to its address would share memory: there is one at most. *)
LEMMA OneSegmentMaps ==
  ASSUME NEW f, Elf!IsElf(f), Elf!Loadable(f), Bun \in Elf!Filed(f),
         NEW s \in ElfSegments, Elf!Maps(f, s), NEW t \in ElfSegments, Elf!Maps(f, t)
  PROVE  s = t
<1>1. PICK offset \in Nat, size \in Nat, addr \in Nat :
        /\ offset = f.sections[Bun].offset /\ size = f.sections[Bun].size
        /\ addr = f.sections[Bun].addr
  BY ElfFields, ElfConstants
<1>2. size # 0
  BY <1>1 DEF Elf!Filed
<1>3. ASSUME NEW u \in ElfSegments, Elf!Maps(f, u)
      PROVE  /\ u \in Elf!InMemory(f)
             /\ f.segments[u].vaddr <= addr
             /\ addr < f.segments[u].vaddr + f.segments[u].memsz
  <2>1. PICK off \in Nat, vaddr \in Nat, filesz \in Nat, memsz \in Nat :
          /\ off = f.segments[u].offset /\ vaddr = f.segments[u].vaddr
          /\ filesz = f.segments[u].filesz /\ memsz = f.segments[u].memsz
    BY ElfFields
  <2>2. /\ f.segments[u].load
        /\ off <= offset /\ offset + size <= off + filesz
        /\ vaddr + (offset - off) = addr
    BY <1>1, <1>3, <2>1 DEF Elf!Maps, Elf!BunEnd, Elf!BunHeader, Elf!SegmentEnd
  <2>3. filesz <= memsz
    BY <2>1 DEF Elf!Loadable
  <2>4. memsz # 0 /\ vaddr <= addr /\ addr < vaddr + memsz
    BY <1>2, <2>2, <2>3
  <2> QED  BY <2>1, <2>2, <2>4 DEF Elf!InMemory
<1>4. f.segments[s].vaddr \in Nat /\ f.segments[s].memsz \in Nat
      /\ f.segments[t].vaddr \in Nat /\ f.segments[t].memsz \in Nat
  BY ElfFields
<1>5. s # t => \/ f.segments[s].vaddr + f.segments[s].memsz <= f.segments[t].vaddr
               \/ f.segments[t].vaddr + f.segments[t].memsz <= f.segments[s].vaddr
  BY <1>3 DEF Elf!Loadable, Elf!MemoryDisjoint
<1>6. /\ f.segments[s].vaddr <= addr /\ addr < f.segments[s].vaddr + f.segments[s].memsz
      /\ f.segments[t].vaddr <= addr /\ addr < f.segments[t].vaddr + f.segments[t].memsz
  BY <1>3
<1> QED  BY <1>1, <1>4, <1>5, <1>6

(* The write into the room that there is, as a function of the file. *)
PutIntoElf(f, at, capacity, payload) ==
  [f EXCEPT !.bytes = Put(@, at, capacity, payload),
            !.sections[Bun].size = Required(payload)]

(* What the write changes: the bytes, and the size in the header of .bun. *)
LEMMA ElfPutFields ==
  ASSUME NEW f, Elf!IsElf(f), NEW at, NEW capacity, NEW payload, Required(payload) \in Nat,
         NEW g, g = PutIntoElf(f, at, capacity, payload)
  PROVE  /\ g.bytes = Put(f.bytes, at, capacity, payload)
         /\ g.size = f.size /\ g.phoff = f.phoff /\ g.phend = f.phend
         /\ g.shoff = f.shoff /\ g.shend = f.shend /\ g.segments = f.segments
         /\ g.sections \in [ElfSections -> Elf!SectionHeader]
         /\ \A x \in ElfSections \ {Bun} : g.sections[x] = f.sections[x]
         /\ g.sections[Bun].nobits = f.sections[Bun].nobits
         /\ g.sections[Bun].offset = f.sections[Bun].offset
         /\ g.sections[Bun].addr = f.sections[Bun].addr
         /\ g.sections[Bun].size = Required(payload)
         /\ g = [size |-> g.size, bytes |-> g.bytes, phoff |-> g.phoff, phend |-> g.phend,
                 shoff |-> g.shoff, shend |-> g.shend, sections |-> g.sections,
                 segments |-> g.segments]
<1>1. PICK bun, bytes, size :
        /\ bun = f.sections[Bun] /\ size = Required(payload)
        /\ bytes = Put(f.bytes, at, capacity, payload)
  OBVIOUS
<1>2. PICK new : new = [bun EXCEPT !.size = size]
  OBVIOUS
<1>3. bun \in Elf!SectionHeader /\ f.sections \in [ElfSections -> Elf!SectionHeader]
  BY <1>1, ElfConstants DEF Elf!IsElf
<1>4. /\ new \in Elf!SectionHeader /\ new.nobits = bun.nobits /\ new.offset = bun.offset
      /\ new.addr = bun.addr /\ new.size = size
  BY <1>1, <1>2, <1>3 DEF Elf!SectionHeader
<1>5. PICK sections : sections = [f.sections EXCEPT ![Bun] = new]
  OBVIOUS
<1>6. PICK first : first = [f EXCEPT !.bytes = bytes]
  OBVIOUS
<1>7. first = [size |-> f.size, bytes |-> bytes, phoff |-> f.phoff, phend |-> f.phend,
               shoff |-> f.shoff, shend |-> f.shend, sections |-> f.sections,
               segments |-> f.segments]
  BY <1>6 DEF Elf!IsElf
<1>8. g = [first EXCEPT !.sections = sections]
  <2>1. g = [f EXCEPT !.bytes = bytes, !.sections = sections]
    BY <1>1, <1>2, <1>5 DEF PutIntoElf
  <2> QED  BY <1>6, <2>1 DEF Elf!IsElf
<1>9. g = [size |-> f.size, bytes |-> bytes, phoff |-> f.phoff, phend |-> f.phend,
           shoff |-> f.shoff, shend |-> f.shend, sections |-> sections,
           segments |-> f.segments]
  BY <1>7, <1>8
<1>10. /\ g.size = f.size /\ g.bytes = bytes /\ g.phoff = f.phoff /\ g.phend = f.phend
       /\ g.shoff = f.shoff /\ g.shend = f.shend /\ g.sections = sections
       /\ g.segments = f.segments
  BY <1>9
<1>11. /\ sections \in [ElfSections -> Elf!SectionHeader]
       /\ \A x \in ElfSections \ {Bun} : sections[x] = f.sections[x]
       /\ sections[Bun] = new
  BY <1>3, <1>4, <1>5, ElfConstants
<1> QED  BY <1>1, <1>4, <1>9, <1>10, <1>11

(* ImageStep of two files. *)
SameImage(f, g) ==
  \A s \in ElfSegments :
    /\ g.segments[s].vaddr = f.segments[s].vaddr
    /\ g.segments[s].memsz >= f.segments[s].memsz
    /\ \A i \in 0 .. f.segments[s].memsz - 1 :
         \/ i < f.segments[s].filesz /\ Elf!Spare(f, f.segments[s].offset + i)
         \/ Elf!Image(g, s, i) = Elf!Image(f, s, i)

(* Writing into the room that there is changes only .bun and its padding, which no table,
   section or tail of the file shares; the room stays what it was. *)
LEMMA ElfPut ==
  ASSUME NEW f, Elf!IsElf(f), Elf!Loadable(f), Bun \in Elf!Filed(f),
         NEW s \in ElfSegments, Elf!Expandable(f, s),
         NEW payload \in Seq(Nat), Required(payload) <= Elf!Capacity(f, s),
         NEW g, g = PutIntoElf(f, Elf!BunHeader(f).offset, Elf!Capacity(f, s), payload)
  PROVE  /\ Elf!IsElf(g)
         /\ Elf!Loadable(g)
         /\ Bun \in Elf!Filed(g)
         /\ PayloadAt(g.bytes, Elf!BunHeader(g).offset) = payload
         /\ \A r \in Elf!Regions : Elf!Region(g, r) = Elf!Region(f, r)
         /\ Elf!BunHeader(g).addr = Elf!BunHeader(f).addr
         /\ SameImage(f, g)
         /\ Elf!Expandable(g, s)
         /\ Elf!ZeroPadded(f, s) => Elf!Capacity(g, s) = Elf!Capacity(f, s)
<1>1. PICK offset \in Nat, size \in Nat, required \in Nat, total \in Nat :
        /\ offset = f.sections[Bun].offset /\ size = f.sections[Bun].size
        /\ required = Required(payload) /\ total = f.size
  <2>1. Required(payload) \in Nat
    BY WidthAssumption DEF Required
  <2> QED  BY <2>1, ElfFields, ElfConstants
<1>2. /\ Elf!BunHeader(f).offset = offset /\ Elf!BunHeader(f).size = size
      /\ Elf!BunEnd(f) = offset + size /\ size # 0
      /\ required # 0 /\ required = Width + Len(payload)
  <2>1. required # 0 /\ required = Width + Len(payload)
    BY <1>1, WidthAssumption DEF Required
  <2> QED  BY <1>1, <2>1 DEF Elf!BunHeader, Elf!BunEnd, Elf!Filed
<1>3. Elf!Maps(f, s)
  BY DEF Elf!Expandable
<1>4. PICK room \in Nat, end \in Nat :
        /\ room = Elf!RoomEnd(f, s) /\ end = Elf!SegmentEnd(f, s)
        /\ offset + size <= room /\ room <= end /\ end <= total
        /\ \A range \in Elf!Taken(f) : offset + size <= range.from => room <= range.from
  <2>1. /\ Elf!RoomEnd(f, s) \in Nat
        /\ Elf!BunEnd(f) <= Elf!RoomEnd(f, s)
        /\ Elf!RoomEnd(f, s) <= Elf!SegmentEnd(f, s)
        /\ \A range \in Elf!Taken(f) :
              Elf!BunEnd(f) <= range.from => Elf!RoomEnd(f, s) <= range.from
    BY <1>3, RoomEnds
  <2>2. Elf!SegmentEnd(f, s) \in Nat
    BY ElfFields DEF Elf!SegmentEnd
  <2>3. Elf!SegmentEnd(f, s) <= total
    BY <1>1 DEF Elf!Loadable
  <2> QED  BY <1>2, <2>1, <2>2, <2>3
<1>5. PICK capacity \in Nat :
        /\ capacity = Elf!Capacity(f, s)
        /\ required <= capacity /\ offset + capacity <= room
        /\ \/ capacity = size /\ ~Elf!ZeroPadded(f, s)
           \/ offset + capacity = room /\ Elf!ZeroPadded(f, s)
  <2>1. CASE Elf!ZeroPadded(f, s)
    <3>1. PICK capacity \in Nat : capacity = room - offset /\ offset + capacity = room
      BY <1>4
    <3>2. capacity = Elf!Capacity(f, s)
      BY <1>2, <1>4, <2>1, <3>1 DEF Elf!Capacity
    <3>3. required <= capacity
      BY <1>1, <3>2
    <3> QED  BY <2>1, <3>1, <3>2, <3>3
  <2>2. CASE ~Elf!ZeroPadded(f, s)
    <3>1. size = Elf!Capacity(f, s)
      BY <1>2, <2>2 DEF Elf!Capacity
    <3>2. required <= size
      BY <1>1, <3>1
    <3> QED  BY <1>4, <2>2, <3>1, <3>2
  <2> QED  BY <2>1, <2>2
<1>6. /\ g.bytes = Put(f.bytes, offset, capacity, payload)
      /\ g.size = total /\ g.phoff = f.phoff /\ g.phend = f.phend
      /\ g.shoff = f.shoff /\ g.shend = f.shend /\ g.segments = f.segments
      /\ g.sections \in [ElfSections -> Elf!SectionHeader]
      /\ \A x \in ElfSections \ {Bun} : g.sections[x] = f.sections[x]
      /\ g.sections[Bun].nobits = f.sections[Bun].nobits
      /\ g.sections[Bun].offset = offset
      /\ g.sections[Bun].addr = f.sections[Bun].addr
      /\ g.sections[Bun].size = required
      /\ g = [size |-> g.size, bytes |-> g.bytes, phoff |-> g.phoff, phend |-> g.phend,
              shoff |-> g.shoff, shend |-> g.shend, sections |-> g.sections,
              segments |-> g.segments]
  <2>1. g = PutIntoElf(f, offset, capacity, payload) /\ Required(payload) \in Nat
    BY <1>1, <1>2, <1>5
  <2> QED  BY <1>1, <2>1, ElfPutFields
<1>7. /\ g.bytes \in Files(total)
      /\ \A i \in 0 .. total - 1 : i \notin offset .. offset + capacity - 1 =>
           g.bytes[i] = f.bytes[i]
      /\ g.bytes[offset] = Len(payload)
      /\ \A i \in offset + required .. offset + capacity - 1 : g.bytes[i] = 0
      /\ PayloadAt(g.bytes, offset) = payload
  <2>1. f.bytes \in Files(total)
    BY <1>1, ElfFields
  <2>2. offset + capacity <= total
    BY <1>4, <1>5
  <2>3. Required(payload) <= capacity
    BY <1>1, <1>5
  <2>4. /\ g.bytes \in Files(total)
        /\ \A i \in 0 .. total - 1 : i \notin offset .. offset + capacity - 1 =>
             g.bytes[i] = f.bytes[i]
        /\ g.bytes[offset] = Len(payload)
        /\ \A i \in offset + Required(payload) .. offset + capacity - 1 : g.bytes[i] = 0
        /\ PayloadAt(g.bytes, offset) = payload
    BY <1>6, <2>1, <2>2, <2>3, PutFacts
  <2> QED  BY <1>1, <2>4
<1>8. ASSUME NEW range \in Elf!Taken(f)
      PROVE  /\ range.from \in Nat /\ range.to \in Nat /\ range.from < range.to
             /\ range.to <= offset \/ room <= range.from
  <2>1. range.to <= offset \/ offset + size <= range.from
    BY <1>2 DEF Elf!Expandable, Elf!Clear
  <2> QED  BY <1>4, <2>1, TakenRanges
<1>9. Elf!Filed(g) = Elf!Filed(f) /\ Bun \in Elf!Filed(g)
  <2>1. ASSUME NEW x \in ElfSections
        PROVE  x \in Elf!Filed(g) <=> x \in Elf!Filed(f)
    <3>1. CASE x = Bun
      BY <1>1, <1>2, <1>6, <3>1 DEF Elf!Filed
    <3>2. CASE x # Bun
      BY <1>6, <3>2 DEF Elf!Filed
    <3> QED  BY <3>1, <3>2
  <2>2. Elf!Filed(g) \subseteq ElfSections /\ Elf!Filed(f) \subseteq ElfSections
    BY DEF Elf!Filed
  <2> QED  BY <2>1, <2>2, ElfConstants
<1>10. Elf!Taken(g) = Elf!Taken(f)
  <2>1. ASSUME NEW x \in Elf!Filed(f) \ {Bun}
        PROVE  [from |-> g.sections[x].offset, to |-> Elf!SectionEnd(g, x)]
               = [from |-> f.sections[x].offset, to |-> Elf!SectionEnd(f, x)]
    <3>1. g.sections[x] = f.sections[x]
      BY <1>6 DEF Elf!Filed
    <3> QED  BY <3>1 DEF Elf!SectionEnd
  <2>2. {[from |-> g.sections[x].offset, to |-> Elf!SectionEnd(g, x)] : x \in Elf!Filed(g) \ {Bun}}
        = {[from |-> f.sections[x].offset, to |-> Elf!SectionEnd(f, x)] : x \in Elf!Filed(f) \ {Bun}}
    BY <1>9, <2>1
  <2> QED  BY <1>6, <2>2 DEF Elf!Taken
<1>11. Elf!IsElf(g)
  <2>1. g.bytes \in Elf!Files(g.size)
    BY <1>6, <1>7, ElfBytes
  <2> QED  BY <1>6, <2>1 DEF Elf!IsElf
<1>12. /\ Elf!BunHeader(g).offset = offset /\ Elf!BunHeader(g).size = required
       /\ Elf!BunHeader(g).addr = Elf!BunHeader(f).addr
       /\ Elf!BunEnd(g) = offset + required
       /\ \A t \in ElfSegments : Elf!SegmentEnd(g, t) = Elf!SegmentEnd(f, t)
  BY <1>6 DEF Elf!BunHeader, Elf!BunEnd, Elf!SegmentEnd
<1>13. Elf!Maps(g, s)
  <2>1. offset + required <= end
    BY <1>4, <1>5
  <2> QED  BY <1>2, <1>3, <1>4, <1>6, <1>12, <2>1 DEF Elf!Maps
<1>14. Elf!Loadable(g)
  <2>1. ASSUME NEW x \in Elf!Filed(g)
        PROVE  Elf!SectionEnd(g, x) <= g.size
    <3>1. CASE x = Bun
      <4>1. offset + required <= total
        BY <1>4, <1>5
      <4> QED  BY <1>6, <3>1, <4>1 DEF Elf!SectionEnd
    <3>2. CASE x # Bun
      <4>1. g.sections[x] = f.sections[x] /\ x \in Elf!Filed(f)
        BY <1>6, <1>9, <3>2 DEF Elf!Filed
      <4> QED  BY <1>1, <1>6, <4>1 DEF Elf!Loadable, Elf!SectionEnd
    <3> QED  BY <3>1, <3>2
  <2>2. Elf!MemoryDisjoint(g)
    BY <1>6 DEF Elf!Loadable, Elf!MemoryDisjoint, Elf!InMemory
  <2>3. Width + g.bytes[Elf!BunHeader(g).offset] <= Elf!BunHeader(g).size
    <3>1. g.bytes[Elf!BunHeader(g).offset] = Len(payload)
      BY <1>7, <1>12
    <3> QED  BY <1>2, <1>12, <3>1
  <2>4. /\ g.phoff < g.phend /\ g.phend <= g.size
        /\ g.shoff < g.shend /\ g.shend <= g.size
        /\ \A t \in ElfSegments : /\ Elf!SegmentEnd(g, t) <= g.size
                                  /\ g.segments[t].filesz <= g.segments[t].memsz
    BY <1>1, <1>6, <1>12 DEF Elf!Loadable
  <2> QED  BY <1>13, <2>1, <2>2, <2>3, <2>4 DEF Elf!Loadable
<1>15. Elf!RoomEnd(g, s) = room
  <2>1. ASSUME NEW range \in Elf!Taken(f)
        PROVE  Elf!BunEnd(g) <= range.from <=> Elf!BunEnd(f) <= range.from
    <3>1. PICK from \in Nat, to \in Nat :
            /\ from = range.from /\ to = range.to /\ from < to
            /\ to <= offset \/ room <= from
      BY <1>8
    <3>2. offset + required <= room /\ offset + size <= room
      BY <1>4, <1>5
    <3>3. offset + required <= from <=> offset + size <= from
      BY <3>1, <3>2
    <3> QED  BY <1>2, <1>12, <3>1, <3>3
  <2>2. {r \in Elf!Taken(g) : Elf!BunEnd(g) <= r.from}
        = {r \in Elf!Taken(f) : Elf!BunEnd(f) <= r.from}
    BY <1>10, <2>1
  <2>3. Elf!SegmentEnd(g, s) = Elf!SegmentEnd(f, s)
    BY <1>12
  <2>4. Elf!RoomEnd(g, s) = Elf!RoomEnd(f, s)
    BY <2>2, <2>3 DEF Elf!RoomEnd
  <2> QED  BY <1>4, <2>4
<1>16. Elf!Expandable(g, s)
  <2>1. \A t \in ElfSegments : Elf!Maps(g, t) <=> t = s
    BY <1>9, <1>11, <1>13, <1>14, OneSegmentMaps
  <2>2. ASSUME NEW range \in Elf!Taken(g)
        PROVE  range.to <= Elf!BunHeader(g).offset \/ Elf!BunEnd(g) <= range.from
    <3>1. offset + required <= room
      BY <1>4, <1>5
    <3>2. /\ range.from \in Nat
          /\ range.to <= offset \/ room <= range.from
      BY <1>8, <1>10
    <3> QED  BY <1>12, <3>1, <3>2
  <2>3. Elf!RoomEnd(g, s) <= g.size
    BY <1>4, <1>6, <1>15
  <2> QED  BY <2>1, <2>2, <2>3 DEF Elf!Expandable, Elf!Clear
<1>17. ASSUME Elf!ZeroPadded(f, s)
       PROVE  Elf!Capacity(g, s) = Elf!Capacity(f, s)
  <2>1. offset + capacity = room
    BY <1>5, <1>17
  <2>2. Elf!ZeroPadded(g, s)
    BY <1>7, <1>12, <1>15, <2>1 DEF Elf!ZeroPadded
  <2>3. Elf!Capacity(g, s) = room - offset
    BY <1>12, <1>15, <2>2 DEF Elf!Capacity
  <2>4. room - offset = capacity
    BY <2>1
  <2> QED  BY <1>5, <2>3, <2>4
<1>18. SameImage(f, g)
  <2>1. ASSUME NEW t \in ElfSegments
        PROVE  /\ g.segments[t].vaddr = f.segments[t].vaddr
               /\ g.segments[t].memsz >= f.segments[t].memsz
    BY <1>6, ElfFields
  <2>2. ASSUME NEW t \in ElfSegments, NEW i \in 0 .. f.segments[t].memsz - 1,
               i < f.segments[t].filesz,
               f.segments[t].offset + i \in offset .. offset + capacity - 1
        PROVE  Elf!Spare(f, f.segments[t].offset + i)
    <3>1. PICK at \in Nat : at = f.segments[t].offset + i
      BY <1>4, <2>2, ElfFields
    <3>2. offset <= at /\ at < offset + capacity
      BY <2>2, <3>1
    <3>3. ASSUME NEW j \in offset + size .. at
          PROVE  /\ f.bytes[j] = 0
                 /\ \A x \in Elf!Filed(f) \ {Bun} :
                      j \notin f.sections[x].offset .. Elf!SectionEnd(f, x) - 1
      <4>1. offset + size <= j /\ j < offset + capacity /\ j < room /\ j \in Nat
        BY <1>5, <3>2, <3>3
      <4>2. Elf!ZeroPadded(f, s)
        BY <1>5, <4>1
      <4>3. f.bytes[j] = 0
        <5>1. j \in Elf!BunEnd(f) .. Elf!RoomEnd(f, s) - 1
          BY <1>2, <1>4, <4>1
        <5> QED  BY <4>2, <5>1 DEF Elf!ZeroPadded
      <4>4. ASSUME NEW x \in Elf!Filed(f) \ {Bun}
            PROVE  j \notin f.sections[x].offset .. Elf!SectionEnd(f, x) - 1
        <5>1. [from |-> f.sections[x].offset, to |-> Elf!SectionEnd(f, x)] \in Elf!Taken(f)
          BY TakenRanges DEF Elf!SectionEnd
        <5>2. PICK from \in Nat, to \in Nat :
                /\ from = f.sections[x].offset /\ to = Elf!SectionEnd(f, x)
                /\ to <= offset \/ room <= from
          BY <1>8, <5>1
        <5>3. j \notin from .. to - 1
          BY <4>1, <5>2
        <5> QED  BY <5>2, <5>3
      <4> QED  BY <4>3, <4>4
    <3> QED  BY <1>2, <3>1, <3>2, <3>3 DEF Elf!Spare
  <2>3. ASSUME NEW t \in ElfSegments, NEW i \in 0 .. f.segments[t].memsz - 1,
               i < f.segments[t].filesz =>
                 f.segments[t].offset + i \notin offset .. offset + capacity - 1
        PROVE  Elf!Image(g, t, i) = Elf!Image(f, t, i)
    <3>1. CASE i < f.segments[t].filesz
      <4>1. PICK off \in Nat, filesz \in Nat :
              off = f.segments[t].offset /\ filesz = f.segments[t].filesz
        BY ElfFields
      <4>2. off + filesz <= total
        BY <1>1, <4>1 DEF Elf!Loadable, Elf!SegmentEnd
      <4>3. i \in Nat
        BY ElfFields
      <4>4. off + i \in 0 .. total - 1
        BY <3>1, <4>1, <4>2, <4>3
      <4>5. g.bytes[off + i] = f.bytes[off + i]
        BY <1>7, <2>3, <3>1, <4>1, <4>4
      <4> QED  BY <1>6, <3>1, <4>1, <4>5 DEF Elf!Image
    <3>2. CASE ~(i < f.segments[t].filesz)
      BY <1>6, <3>2 DEF Elf!Image
    <3> QED  BY <3>1, <3>2
  <2> QED  BY <2>1, <2>2, <2>3 DEF SameImage
<1>19. ASSUME NEW r \in Elf!Regions
       PROVE  Elf!Region(g, r) = Elf!Region(f, r)
  <2>1. ASSUME NEW from \in Nat, NEW to \in Nat, from <= to, to <= total,
               to <= offset \/ room <= from
        PROVE  Elf!Slice(g.bytes, from, to - from) = Elf!Slice(f.bytes, from, to - from)
    <3>1. PICK length \in Nat : length = to - from /\ from + length = to
      BY <2>1
    <3>2. Kept(f.bytes, g.bytes, from, length)
      BY <1>5, <1>7, <2>1, <3>1 DEF Kept
    <3>3. Slice(g.bytes, from, length) = Slice(f.bytes, from, length)
      BY <3>2, SliceKept
    <3> QED  BY <3>1, <3>3, ElfBytes
  <2>2. CASE r = "program headers"
    <3>1. PICK from \in Nat, to \in Nat :
            /\ from = f.phoff /\ to = f.phend /\ from <= to /\ to <= total
            /\ to <= offset \/ room <= from
      <4>1. f.phend <= total
        BY <1>1 DEF Elf!Loadable
      <4>2. PICK range \in Elf!Taken(f) : range = [from |-> f.phoff, to |-> f.phend]
        BY TakenRanges
      <4>3. range.from = f.phoff /\ range.to = f.phend
        BY <4>2
      <4> QED  BY <1>8, <4>1, <4>3
    <3>2. Elf!Slice(g.bytes, from, to - from) = Elf!Slice(f.bytes, from, to - from)
      BY <2>1, <3>1
    <3> QED  BY <1>6, <2>2, <3>1, <3>2 DEF Elf!Region
  <2>3. CASE r = "section headers"
    <3>1. PICK from \in Nat, to \in Nat :
            /\ from = f.shoff /\ to = f.shend /\ from <= to /\ to <= total
            /\ to <= offset \/ room <= from
      <4>1. f.shend <= total
        BY <1>1 DEF Elf!Loadable
      <4>2. PICK range \in Elf!Taken(f) : range = [from |-> f.shoff, to |-> f.shend]
        BY TakenRanges
      <4>3. range.from = f.shoff /\ range.to = f.shend
        BY <4>2
      <4> QED  BY <1>8, <4>1, <4>3
    <3>2. Elf!Slice(g.bytes, from, to - from) = Elf!Slice(f.bytes, from, to - from)
      BY <2>1, <3>1
    <3> QED  BY <1>6, <2>3, <3>1, <3>2 DEF Elf!Region
  <2>4. CASE r = "head"
    <3>1. offset <= total /\ offset - 0 = offset
      BY <1>4
    <3>2. Elf!Slice(g.bytes, 0, offset) = Elf!Slice(f.bytes, 0, offset)
      BY <2>1, <3>1
    <3> QED  BY <1>2, <1>12, <2>4, <3>2 DEF Elf!Region
  <2>5. CASE r = "tail"
    <3>1. Elf!BunSegment(f) = s /\ Elf!BunSegment(g) = s
      BY <1>16 DEF Elf!BunSegment, Elf!Expandable
    <3>2. Elf!Slice(g.bytes, end, total - end) = Elf!Slice(f.bytes, end, total - end)
      BY <1>4, <2>1
    <3>3. Elf!SegmentEnd(g, s) = end
      BY <1>4, <1>12
    <3> QED  BY <1>1, <1>4, <1>6, <2>5, <3>1, <3>2, <3>3 DEF Elf!Region
  <2>6. CASE /\ r \notin {"program headers", "section headers", "head", "tail"}
             /\ r \in Elf!Filed(f)
    <3>1. r \in Elf!Filed(f) \ {Bun} /\ r \in ElfSections
      BY <2>6 DEF Elf!Regions
    <3>2. [from |-> f.sections[r].offset, to |-> Elf!SectionEnd(f, r)] \in Elf!Taken(f)
      BY <3>1, TakenRanges DEF Elf!SectionEnd
    <3>3. PICK from \in Nat, to \in Nat :
            /\ from = f.sections[r].offset /\ to = Elf!SectionEnd(f, r) /\ from <= to
            /\ to <= offset \/ room <= from
      BY <1>8, <3>2
    <3>4. to <= total
      BY <1>1, <3>1, <3>3 DEF Elf!Loadable
    <3>5. to - from = f.sections[r].size
      <4>1. f.sections[r].size \in Nat
        BY <3>1, ElfFields
      <4> QED  BY <3>3, <4>1 DEF Elf!SectionEnd
    <3>6. g.sections[r] = f.sections[r]
      BY <1>6, <3>1
    <3>7. Elf!Slice(g.bytes, from, to - from) = Elf!Slice(f.bytes, from, to - from)
      BY <2>1, <3>3, <3>4
    <3> QED  BY <1>9, <2>6, <3>3, <3>5, <3>6, <3>7 DEF Elf!Region
  <2>7. CASE /\ r \notin {"program headers", "section headers", "head", "tail"}
             /\ r \notin Elf!Filed(f)
    BY <1>9, <2>7 DEF Elf!Region
  <2> QED  BY <2>2, <2>3, <2>4, <2>5, <2>6, <2>7
<1> QED  BY <1>7, <1>9, <1>11, <1>12, <1>14, <1>16, <1>17, <1>18, <1>19

(* What growing the segment changes. *)
LEMMA ElfRelocatedFields ==
  ASSUME NEW f, Elf!IsElf(f), NEW s \in ElfSegments, NEW growth \in Nat,
         NEW h, h = Elf!Relocated(f, s, growth)
  PROVE  /\ h.size = f.size + growth
         /\ h.bytes = Gap(f.bytes, f.size, Elf!SegmentEnd(f, s), growth)
         /\ h.phoff = f.phoff /\ h.phend = f.phend
         /\ h.shoff = f.shoff + growth /\ h.shend = f.shend + growth
         /\ h.sections = Elf!MovedSections(f, s, growth)
         /\ h.segments \in [ElfSegments -> Elf!ProgramHeader]
         /\ \A t \in ElfSegments \ {s} : h.segments[t] = f.segments[t]
         /\ h.segments[s].load = f.segments[s].load
         /\ h.segments[s].offset = f.segments[s].offset
         /\ h.segments[s].vaddr = f.segments[s].vaddr
         /\ h.segments[s].filesz = f.segments[s].filesz + growth
         /\ h.segments[s].memsz = f.segments[s].memsz + growth
         /\ h = [size |-> h.size, bytes |-> h.bytes, phoff |-> h.phoff, phend |-> h.phend,
                 shoff |-> h.shoff, shend |-> h.shend, sections |-> h.sections,
                 segments |-> h.segments]
<1>1. PICK segment : segment = f.segments[s]
  OBVIOUS
<1>2. PICK new : new = [segment EXCEPT !.filesz = @ + growth, !.memsz = @ + growth]
  OBVIOUS
<1>3. segment \in Elf!ProgramHeader /\ f.segments \in [ElfSegments -> Elf!ProgramHeader]
  BY <1>1 DEF Elf!IsElf
<1>4. /\ new \in Elf!ProgramHeader /\ new.load = segment.load /\ new.offset = segment.offset
      /\ new.vaddr = segment.vaddr /\ new.filesz = segment.filesz + growth
      /\ new.memsz = segment.memsz + growth
  <2>1. PICK filesz \in Nat, memsz \in Nat :
          filesz = segment.filesz + growth /\ memsz = segment.memsz + growth
    BY <1>3 DEF Elf!ProgramHeader
  <2>2. new = [segment EXCEPT !.filesz = filesz, !.memsz = memsz]
    BY <1>2, <2>1
  <2>3. /\ new.load = segment.load /\ new.offset = segment.offset
        /\ new.vaddr = segment.vaddr /\ new.filesz = filesz /\ new.memsz = memsz
        /\ new.writable = segment.writable
    BY <1>3, <2>2 DEF Elf!ProgramHeader
  <2>4. new \in Elf!ProgramHeader
    <3>1. PICK first : first = [segment EXCEPT !.filesz = filesz]
      OBVIOUS
    <3>2. first \in Elf!ProgramHeader
      BY <1>3, <3>1 DEF Elf!ProgramHeader
    <3>3. new = [first EXCEPT !.memsz = memsz]
      BY <1>3, <2>2, <3>1 DEF Elf!ProgramHeader
    <3> QED  BY <3>2, <3>3 DEF Elf!ProgramHeader
  <2> QED  BY <2>1, <2>3, <2>4
<1>5. PICK segments : segments = [f.segments EXCEPT ![s] = new]
  OBVIOUS
<1>6. PICK bytes, sections, size, shoff, shend :
        /\ bytes = Gap(f.bytes, f.size, Elf!SegmentEnd(f, s), growth)
        /\ sections = Elf!MovedSections(f, s, growth)
        /\ size = f.size + growth /\ shoff = f.shoff + growth /\ shend = f.shend + growth
  OBVIOUS
<1>7. h = [f EXCEPT !.size = size, !.bytes = bytes, !.shoff = shoff, !.shend = shend,
                    !.sections = sections, !.segments = segments]
  <2>1. Elf!Gap(f.bytes, f.size, Elf!SegmentEnd(f, s), growth) = bytes
    BY <1>6, ElfBytes
  <2> QED  BY <1>1, <1>2, <1>3, <1>5, <1>6, <2>1 DEF Elf!Relocated
<1>8. h = [size |-> size, bytes |-> bytes, phoff |-> f.phoff, phend |-> f.phend,
           shoff |-> shoff, shend |-> shend, sections |-> sections, segments |-> segments]
  BY <1>7 DEF Elf!IsElf
<1>9. /\ h.size = size /\ h.bytes = bytes /\ h.phoff = f.phoff /\ h.phend = f.phend
      /\ h.shoff = shoff /\ h.shend = shend /\ h.sections = sections
      /\ h.segments = segments
  BY <1>8
<1>10. /\ segments \in [ElfSegments -> Elf!ProgramHeader]
       /\ \A t \in ElfSegments \ {s} : segments[t] = f.segments[t]
       /\ segments[s] = new
  BY <1>3, <1>4, <1>5
<1> QED  BY <1>1, <1>4, <1>6, <1>8, <1>9, <1>10

(* Growing the segment moves the tail of the file with all that points into it, changes
   no byte of memory, and makes the padding larger by the growth: the write that follows
   is one into the room that there is. *)
LEMMA ElfRelocated ==
  ASSUME NEW f, Elf!IsElf(f), Elf!Loadable(f), Bun \in Elf!Filed(f),
         NEW s \in ElfSegments, Elf!Expandable(f, s), Elf!Growable(f, s),
         NEW growth \in Nat, Elf!TailMovable(f, s, growth),
         NEW h, h = Elf!Relocated(f, s, growth)
  PROVE  /\ Elf!IsElf(h)
         /\ Elf!Loadable(h)
         /\ Bun \in Elf!Filed(h)
         /\ Elf!BunHeader(h) = Elf!BunHeader(f)
         /\ Elf!Expandable(h, s)
         /\ Elf!ZeroPadded(h, s)
         /\ Elf!Capacity(h, s) = Elf!Capacity(f, s) + growth
         /\ \A r \in Elf!Regions : Elf!Region(h, r) = Elf!Region(f, r)
         /\ \A g : Elf!IsElf(g) /\ SameImage(h, g) => SameImage(f, g)
<1>1. PICK offset \in Nat, size \in Nat, total \in Nat, end \in Nat :
        /\ offset = f.sections[Bun].offset /\ size = f.sections[Bun].size
        /\ total = f.size /\ end = Elf!SegmentEnd(f, s)
  BY ElfFields, ElfConstants DEF Elf!SegmentEnd
<1>2. /\ Elf!BunHeader(f).offset = offset /\ Elf!BunHeader(f).size = size
      /\ Elf!BunEnd(f) = offset + size /\ size # 0
      /\ end <= total
      /\ Elf!Maps(f, s) /\ offset + size <= end
  BY <1>1 DEF Elf!BunHeader, Elf!BunEnd, Elf!Filed, Elf!Expandable, Elf!Maps, Elf!Loadable
<1>3. /\ Elf!RoomEnd(f, s) = end
      /\ Elf!ZeroPadded(f, s)
      /\ Elf!Capacity(f, s) = end - offset
      /\ \A i \in offset + size .. end - 1 : f.bytes[i] = 0
      /\ \A range \in Elf!Taken(f) : offset + size <= range.from => end <= range.from
  <2>1. /\ Elf!RoomEnd(f, s) \in Nat /\ offset + size <= Elf!RoomEnd(f, s)
        /\ Elf!RoomEnd(f, s) <= end
        /\ \A range \in Elf!Taken(f) :
             offset + size <= range.from => Elf!RoomEnd(f, s) <= range.from
    BY <1>1, <1>2, RoomEnds
  <2>2. Elf!Capacity(f, s) = end - offset
    BY <1>1, <1>2 DEF Elf!Growable
  <2>3. CASE Elf!ZeroPadded(f, s)
    <3>1. Elf!RoomEnd(f, s) - offset = end - offset
      BY <1>2, <2>2, <2>3 DEF Elf!Capacity
    <3>2. Elf!RoomEnd(f, s) = end
      BY <2>1, <3>1
    <3> QED  BY <1>2, <2>1, <2>2, <2>3, <3>2 DEF Elf!ZeroPadded
  <2>4. CASE ~Elf!ZeroPadded(f, s)
    <3>1. size = end - offset
      BY <1>2, <2>2, <2>4 DEF Elf!Capacity
    <3>2. Elf!RoomEnd(f, s) = end /\ offset + size = end
      BY <2>1, <3>1
    <3>3. Elf!BunEnd(f) .. Elf!RoomEnd(f, s) - 1 = {}
      BY <1>2, <3>2
    <3>4. Elf!ZeroPadded(f, s)
      BY <3>3 DEF Elf!ZeroPadded
    <3> QED  BY <2>4, <3>4
  <2> QED  BY <2>3, <2>4
<1>4. /\ h.size = total + growth
      /\ h.bytes = Gap(f.bytes, total, end, growth)
      /\ h.phoff = f.phoff /\ h.phend = f.phend
      /\ h.shoff = f.shoff + growth /\ h.shend = f.shend + growth
      /\ h.sections = Elf!MovedSections(f, s, growth)
      /\ h.segments \in [ElfSegments -> Elf!ProgramHeader]
      /\ \A t \in ElfSegments \ {s} : h.segments[t] = f.segments[t]
      /\ h.segments[s].load = f.segments[s].load
      /\ h.segments[s].offset = f.segments[s].offset
      /\ h.segments[s].vaddr = f.segments[s].vaddr
      /\ h.segments[s].filesz = f.segments[s].filesz + growth
      /\ h.segments[s].memsz = f.segments[s].memsz + growth
      /\ h = [size |-> h.size, bytes |-> h.bytes, phoff |-> h.phoff, phend |-> h.phend,
              shoff |-> h.shoff, shend |-> h.shend, sections |-> h.sections,
              segments |-> h.segments]
  BY <1>1, ElfRelocatedFields
<1>5. /\ h.bytes \in Files(total + growth)
      /\ \A i \in 0 .. end - 1 : h.bytes[i] = f.bytes[i]
      /\ \A i \in end .. end + growth - 1 : h.bytes[i] = 0
      /\ \A i \in end .. total - 1 : h.bytes[i + growth] = f.bytes[i]
  <2>1. f.bytes \in Files(total) /\ end \in 0 .. total
    BY <1>1, <1>2, ElfFields
  <2> QED  BY <1>4, <2>1, GapFacts DEF GapMade
<1>6. /\ f.phoff \in Nat /\ f.phend \in Nat /\ f.shoff \in Nat /\ f.shend \in Nat
      /\ f.phoff < f.phend /\ f.phend <= end
      /\ end <= f.shoff /\ f.shoff < f.shend /\ f.shend <= total
  BY <1>1, ElfFields DEF Elf!Loadable, Elf!TailMovable
<1>7. ASSUME NEW x \in ElfSections
      PROVE  /\ h.sections[x] \in Elf!SectionHeader
             /\ h.sections[x].nobits = f.sections[x].nobits
             /\ h.sections[x].size = f.sections[x].size
             /\ h.sections[x].addr = f.sections[x].addr
             /\ h.sections[x].offset =
                  IF ~f.sections[x].nobits /\ f.sections[x].offset >= end
                     /\ f.sections[x].offset <= total
                  THEN f.sections[x].offset + growth ELSE f.sections[x].offset
  <2>1. PICK header : header = f.sections[x]
    OBVIOUS
  <2>2. header \in Elf!SectionHeader
    BY <2>1 DEF Elf!IsElf
  <2>3. h.sections[x] = IF ~header.nobits /\ header.offset >= end /\ header.offset <= total
                        THEN [header EXCEPT !.offset = @ + growth] ELSE header
    BY <1>1, <1>4, <2>1 DEF Elf!MovedSections
  <2>4. CASE ~header.nobits /\ header.offset >= end /\ header.offset <= total
    <3>1. h.sections[x] = [header EXCEPT !.offset = @ + growth]
      BY <2>3, <2>4
    <3>2. /\ h.sections[x] \in Elf!SectionHeader
          /\ h.sections[x].nobits = header.nobits /\ h.sections[x].size = header.size
          /\ h.sections[x].addr = header.addr /\ h.sections[x].offset = header.offset + growth
      BY <2>2, <3>1 DEF Elf!SectionHeader
    <3> QED  BY <2>1, <2>4, <3>2
  <2>5. CASE ~(~header.nobits /\ header.offset >= end /\ header.offset <= total)
    BY <2>1, <2>2, <2>3, <2>5
  <2> QED  BY <2>4, <2>5
<1>8. Elf!IsElf(h)
  <2>1. h.bytes \in Elf!Files(h.size) /\ h.size \in Nat
    BY <1>4, <1>5, ElfBytes
  <2>2. h.sections \in [ElfSections -> Elf!SectionHeader]
    <3>1. h.sections = [x \in ElfSections |-> h.sections[x]]
      BY <1>4 DEF Elf!MovedSections
    <3> QED  BY <1>7, <3>1
  <2> QED  BY <1>4, <1>6, <2>1, <2>2 DEF Elf!IsElf
<1>9. Elf!Filed(h) = Elf!Filed(f)
  BY <1>7 DEF Elf!Filed
<1>10. ASSUME NEW x \in Elf!Filed(f)
       PROVE  /\ x \in ElfSections
              /\ f.sections[x].offset \in Nat /\ f.sections[x].size \in Nat
              /\ f.sections[x].size # 0
              /\ h.sections[x].size = f.sections[x].size
              /\ \/ /\ f.sections[x].offset + f.sections[x].size <= end
                    /\ h.sections[x].offset = f.sections[x].offset
                 \/ /\ end <= f.sections[x].offset
                    /\ f.sections[x].offset + f.sections[x].size <= total
                    /\ h.sections[x].offset = f.sections[x].offset + growth
  <2>1. x \in ElfSections /\ ~f.sections[x].nobits /\ f.sections[x].size # 0
    BY <1>10 DEF Elf!Filed
  <2>2. PICK from \in Nat, length \in Nat :
          from = f.sections[x].offset /\ length = f.sections[x].size
    BY <2>1, ElfFields
  <2>3. from + length <= total /\ ~(from < end /\ from + length > end)
    BY <1>1, <1>10, <2>2 DEF Elf!TailMovable, Elf!SectionEnd
  <2>4. h.sections[x].offset = IF from >= end /\ from <= total THEN from + growth ELSE from
    BY <1>7, <2>1, <2>2
  <2>5. length # 0
    BY <2>1, <2>2
  <2>6. \/ from + length <= end /\ h.sections[x].offset = from
        \/ /\ end <= from /\ from + length <= total
           /\ h.sections[x].offset = from + growth
    BY <2>3, <2>4, <2>5
  <2> QED  BY <1>7, <2>1, <2>2, <2>6
<1>11. /\ h.sections[Bun] = f.sections[Bun]
       /\ Elf!BunHeader(h) = Elf!BunHeader(f) /\ Elf!BunEnd(h) = offset + size
  <2>1. ~(f.sections[Bun].offset >= end)
    BY <1>1, <1>2
  <2>2. h.sections[Bun] = f.sections[Bun]
    BY <1>1, <1>4, <2>1, ElfConstants DEF Elf!MovedSections
  <2> QED  BY <1>2, <2>2 DEF Elf!BunHeader, Elf!BunEnd
<1>12. ASSUME NEW t \in ElfSegments
       PROVE  /\ h.segments[t].load = f.segments[t].load
              /\ h.segments[t].vaddr = f.segments[t].vaddr
              /\ h.segments[t].offset = f.segments[t].offset
              /\ Elf!SegmentEnd(h, t) = IF t = s THEN end + growth ELSE Elf!SegmentEnd(f, t)
  <2>1. CASE t = s
    <3>1. f.segments[s].offset \in Nat /\ f.segments[s].filesz \in Nat
          /\ end = f.segments[s].offset + f.segments[s].filesz
      BY <1>1, ElfFields DEF Elf!SegmentEnd
    <3> QED  BY <1>4, <2>1, <3>1 DEF Elf!SegmentEnd
  <2>2. CASE t # s
    BY <1>4, <2>2 DEF Elf!SegmentEnd
  <2> QED  BY <2>1, <2>2
<1>13. Elf!Maps(h, s)
  <2>1. offset + size <= end + growth
    BY <1>2
  <2> QED  BY <1>2, <1>11, <1>12, <2>1 DEF Elf!Maps
<1>14. Elf!MemoryDisjoint(h)
  <2>1. PICK vaddr \in Nat, memsz \in Nat :
          /\ vaddr = f.segments[s].vaddr /\ memsz = f.segments[s].memsz
    BY ElfFields
  <2>2. /\ s \in Elf!InMemory(f)
        /\ h.segments[s].vaddr = vaddr /\ h.segments[s].memsz = memsz + growth
    <3>1. /\ f.segments[s].filesz <= f.segments[s].memsz /\ f.segments[s].load
          /\ f.segments[s].filesz \in Nat /\ f.segments[s].offset \in Nat
          /\ f.segments[s].offset <= offset
          /\ end = f.segments[s].offset + f.segments[s].filesz
      BY <1>1, <1>2, ElfFields DEF Elf!Loadable, Elf!Maps, Elf!SegmentEnd
    <3>2. memsz # 0
      BY <1>2, <2>1, <3>1
    <3> QED  BY <1>4, <2>1, <3>1, <3>2 DEF Elf!InMemory
  <2>3. ASSUME NEW t \in Elf!InMemory(h) \ {s}
        PROVE  /\ t \in Elf!InMemory(f)
               /\ h.segments[t] = f.segments[t]
               /\ \/ h.segments[t].vaddr + h.segments[t].memsz <= vaddr
                  \/ vaddr + memsz + growth <= h.segments[t].vaddr
    <3>1. t \in ElfSegments /\ h.segments[t] = f.segments[t]
      BY <1>4, <2>3 DEF Elf!InMemory
    <3>2. PICK from \in Nat, length \in Nat :
            from = f.segments[t].vaddr /\ length = f.segments[t].memsz
      BY <3>1, ElfFields
    <3>3. t \in Elf!InMemory(f) /\ f.segments[t].load /\ length # 0
      BY <2>3, <3>1, <3>2 DEF Elf!InMemory
    <3>4. vaddr + memsz <= from \/ from + length <= vaddr
      BY <2>1, <2>2, <2>3, <3>2, <3>3 DEF Elf!Loadable, Elf!MemoryDisjoint
    <3>5. ~(from < vaddr + memsz + growth /\ from + length > vaddr + memsz)
      BY <2>1, <2>3, <3>1, <3>2, <3>3 DEF Elf!TailMovable
    <3>6. from + length <= vaddr \/ vaddr + memsz + growth <= from
      BY <3>3, <3>4, <3>5
    <3> QED  BY <3>1, <3>2, <3>3, <3>6
  <2>4. ASSUME NEW t \in Elf!InMemory(h), NEW u \in Elf!InMemory(h), t # u
        PROVE  \/ h.segments[t].vaddr + h.segments[t].memsz <= h.segments[u].vaddr
               \/ h.segments[u].vaddr + h.segments[u].memsz <= h.segments[t].vaddr
    <3>1. vaddr + (memsz + growth) = vaddr + memsz + growth
      OBVIOUS
    <3>2. CASE t = s
      BY <2>2, <2>3, <2>4, <3>1, <3>2
    <3>3. CASE u = s
      BY <2>2, <2>3, <2>4, <3>1, <3>3
    <3>4. CASE t # s /\ u # s
      BY <2>3, <2>4, <3>4 DEF Elf!Loadable, Elf!MemoryDisjoint
    <3> QED  BY <3>2, <3>3, <3>4
  <2> QED  BY <2>4 DEF Elf!MemoryDisjoint
<1>15. Elf!Loadable(h)
  <2>1. /\ h.phoff < h.phend /\ h.phend <= h.size
        /\ h.shoff < h.shend /\ h.shend <= h.size
    BY <1>2, <1>4, <1>6
  <2>2. ASSUME NEW x \in Elf!Filed(h)
        PROVE  Elf!SectionEnd(h, x) <= h.size
    <3>1. PICK from \in Nat, length \in Nat :
            /\ from = f.sections[x].offset /\ length = f.sections[x].size
            /\ h.sections[x].size = length
            /\ \/ from + length <= end /\ h.sections[x].offset = from
               \/ from + length <= total /\ h.sections[x].offset = from + growth
      BY <1>9, <1>10
    <3> QED  BY <1>2, <1>4, <3>1 DEF Elf!SectionEnd
  <2>3. ASSUME NEW t \in ElfSegments
        PROVE  /\ Elf!SegmentEnd(h, t) <= h.size
               /\ h.segments[t].filesz <= h.segments[t].memsz
    <3>1. PICK last \in Nat, filesz \in Nat, memsz \in Nat :
            /\ last = Elf!SegmentEnd(f, t) /\ filesz = f.segments[t].filesz
            /\ memsz = f.segments[t].memsz
      BY ElfFields DEF Elf!SegmentEnd
    <3>2. last <= total /\ filesz <= memsz
      BY <1>1, <3>1 DEF Elf!Loadable
    <3>3. CASE t = s
      BY <1>2, <1>4, <1>12, <3>1, <3>2, <3>3
    <3>4. CASE t # s
      BY <1>4, <1>12, <3>1, <3>2, <3>4
    <3> QED  BY <3>3, <3>4
  <2>4. Width + h.bytes[Elf!BunHeader(h).offset] <= Elf!BunHeader(h).size
    <3>1. h.bytes[offset] = f.bytes[offset]
      BY <1>2, <1>5
    <3> QED  BY <1>2, <1>11, <3>1 DEF Elf!Loadable
  <2> QED  BY <1>13, <1>14, <2>1, <2>2, <2>3, <2>4 DEF Elf!Loadable
<1>16. ASSUME NEW range \in Elf!Taken(h)
       PROVE  /\ range.from \in Nat
              /\ range.to <= offset \/ end + growth <= range.from
  <2>1. CASE range = [from |-> h.phoff, to |-> h.phend]
    <3>1. range \in Elf!Taken(f)
      BY <1>4, <1>8, <1>15, <2>1, TakenRanges
    <3>2. range.to <= offset \/ offset + size <= range.from
      BY <1>2, <3>1 DEF Elf!Expandable, Elf!Clear
    <3>3. ~(offset + size <= range.from)
      BY <1>3, <1>4, <1>6, <2>1, <3>1
    <3> QED  BY <1>4, <1>6, <2>1, <3>2, <3>3
  <2>2. CASE range = [from |-> h.shoff, to |-> h.shend]
    <3>1. range.from = f.shoff + growth
      BY <1>4, <2>2
    <3> QED  BY <1>6, <3>1
  <2>3. ASSUME NEW x \in Elf!Filed(h) \ {Bun},
               range = [from |-> h.sections[x].offset, to |-> Elf!SectionEnd(h, x)]
        PROVE  /\ range.from \in Nat
               /\ range.to <= offset \/ end + growth <= range.from
    <3>1. PICK from \in Nat, length \in Nat :
            /\ from = f.sections[x].offset /\ length = f.sections[x].size
            /\ length # 0
            /\ h.sections[x].size = length
            /\ \/ from + length <= end /\ h.sections[x].offset = from
               \/ end <= from /\ h.sections[x].offset = from + growth
      BY <1>9, <1>10
    <3>2. PICK old \in Elf!Taken(f) : old = [from |-> from, to |-> from + length]
      BY <1>9, <3>1, TakenRanges
    <3>3. /\ from + length <= offset \/ offset + size <= from
          /\ offset + size <= from => end <= from
      BY <1>2, <1>3, <3>2 DEF Elf!Expandable, Elf!Clear
    <3>4. CASE from + length <= end /\ h.sections[x].offset = from
      <4>1. from + length <= offset
        BY <3>1, <3>3, <3>4
      <4> QED  BY <2>3, <3>1, <3>4, <4>1 DEF Elf!SectionEnd
    <3>5. CASE end <= from /\ h.sections[x].offset = from + growth
      BY <2>3, <3>5
    <3> QED  BY <3>1, <3>4, <3>5
  <2> QED  BY <1>16, <2>1, <2>2, <2>3 DEF Elf!Taken
<1>17. Elf!Expandable(h, s) /\ Elf!RoomEnd(h, s) = end + growth
  <2>1. \A t \in ElfSegments : Elf!Maps(h, t) <=> t = s
    BY <1>8, <1>9, <1>13, <1>15, OneSegmentMaps
  <2>2. ASSUME NEW range \in Elf!Taken(h)
        PROVE  range.to <= Elf!BunHeader(h).offset \/ Elf!BunEnd(h) <= range.from
    <3>1. range.from \in Nat /\ (range.to <= offset \/ end + growth <= range.from)
      BY <1>16
    <3> QED  BY <1>2, <1>11, <3>1
  <2>3. /\ Elf!RoomEnd(h, s) \in Nat
        /\ Elf!RoomEnd(h, s) <= end + growth
        /\ \/ Elf!RoomEnd(h, s) = end + growth
           \/ \E range \in Elf!Taken(h) :
                offset + size <= range.from /\ Elf!RoomEnd(h, s) = range.from
    BY <1>8, <1>11, <1>12, <1>13, <1>15, RoomEnds
  <2>4. ASSUME NEW range \in Elf!Taken(h), offset + size <= range.from
        PROVE  end + growth <= range.from
    <3>1. ~(range.to <= offset)
      <4>1. range.from \in Nat /\ range.to \in Nat /\ range.from < range.to
        BY <1>8, <1>15, TakenRanges
      <4> QED  BY <2>4, <4>1
    <3> QED  BY <1>16, <3>1
  <2>5. Elf!RoomEnd(h, s) = end + growth
    BY <2>3, <2>4
  <2>6. Elf!RoomEnd(h, s) <= h.size
    BY <1>2, <1>4, <2>5
  <2> QED  BY <2>1, <2>2, <2>5, <2>6 DEF Elf!Expandable, Elf!Clear
<1>18. Elf!ZeroPadded(h, s) /\ Elf!Capacity(h, s) = Elf!Capacity(f, s) + growth
  <2>1. ASSUME NEW i \in offset + size .. end + growth - 1
        PROVE  h.bytes[i] = 0
    <3>1. CASE i < end
      BY <1>3, <1>5, <3>1
    <3>2. CASE end <= i
      BY <1>5, <3>2
    <3> QED  BY <3>1, <3>2
  <2>2. Elf!ZeroPadded(h, s)
    BY <1>11, <1>17, <2>1 DEF Elf!ZeroPadded
  <2>3. Elf!Capacity(h, s) = end + growth - offset
    BY <1>2, <1>11, <1>17, <2>2 DEF Elf!Capacity
  <2>4. end + growth - offset = (end - offset) + growth
    OBVIOUS
  <2> QED  BY <1>3, <2>2, <2>3, <2>4
<1>19. ASSUME NEW r \in Elf!Regions
       PROVE  Elf!Region(h, r) = Elf!Region(f, r)
  <2>1. ASSUME NEW from \in Nat, NEW length \in Nat, from + length <= end
        PROVE  Elf!Slice(h.bytes, from, length) = Elf!Slice(f.bytes, from, length)
    <3>1. Kept(f.bytes, h.bytes, from, length)
      BY <2>1, <1>5 DEF Kept
    <3>2. Slice(h.bytes, from, length) = Slice(f.bytes, from, length)
      BY <3>1, SliceKept
    <3> QED  BY <3>2, ElfBytes
  <2>2. ASSUME NEW from \in Nat, NEW length \in Nat, end <= from, from + length <= total
        PROVE  Elf!Slice(h.bytes, from + growth, length) = Elf!Slice(f.bytes, from, length)
    <3>1. Moved(f.bytes, h.bytes, from, length, growth)
      BY <2>2, <1>5 DEF Moved
    <3>2. Slice(h.bytes, from + growth, length) = Slice(f.bytes, from, length)
      BY <3>1, SliceMoved
    <3> QED  BY <3>2, ElfBytes
  <2>3. CASE r = "program headers"
    <3>1. PICK length \in Nat : length = f.phend - f.phoff /\ f.phoff + length = f.phend
      BY <1>6
    <3>2. Elf!Slice(h.bytes, f.phoff, length) = Elf!Slice(f.bytes, f.phoff, length)
      BY <1>6, <2>1, <3>1
    <3> QED  BY <1>4, <2>3, <3>1, <3>2 DEF Elf!Region
  <2>4. CASE r = "section headers"
    <3>1. PICK length \in Nat :
            length = f.shend - f.shoff /\ f.shoff + length = f.shend
      BY <1>6
    <3>2. Elf!Slice(h.bytes, f.shoff + growth, length) = Elf!Slice(f.bytes, f.shoff, length)
      BY <1>6, <2>2, <3>1
    <3>3. Elf!Region(f, r) = Elf!Slice(f.bytes, f.shoff, length)
      BY <2>4, <3>1 DEF Elf!Region
    <3>4. Elf!Region(h, r) = Elf!Slice(h.bytes, f.shoff + growth, length)
      <4>1. h.shoff = f.shoff + growth /\ h.shend - h.shoff = length
        <5>1. h.shoff = f.shoff + growth /\ h.shend = f.shend + growth
          BY <1>4
        <5>2. h.shend - h.shoff = (f.shend + growth) - (f.shoff + growth)
          BY <5>1
        <5>3. (f.shend + growth) - (f.shoff + growth) = length
          <6>1. PICK from \in Nat, to \in Nat : from = f.shoff /\ to = f.shend
            BY <1>6
          <6>2. (to + growth) - (from + growth) = to - from
            OBVIOUS
          <6> QED  BY <3>1, <6>1, <6>2
        <5> QED  BY <5>1, <5>2, <5>3
      <4> QED  BY <2>4, <4>1 DEF Elf!Region
    <3> QED  BY <3>2, <3>3, <3>4
  <2>5. CASE r = "head"
    <3>1. 0 + offset <= end
      BY <1>2
    <3>2. Elf!Slice(h.bytes, 0, offset) = Elf!Slice(f.bytes, 0, offset)
      BY <2>1, <3>1
    <3> QED  BY <1>2, <1>11, <2>5, <3>2 DEF Elf!Region
  <2>6. CASE r = "tail"
    <3>1. Elf!BunSegment(f) = s /\ Elf!BunSegment(h) = s
      BY <1>17 DEF Elf!BunSegment, Elf!Expandable
    <3>2. PICK length \in Nat :
            /\ length = total - end /\ end + length = total
            /\ length = total + growth - (end + growth)
      BY <1>2
    <3>3. Elf!Slice(h.bytes, end + growth, length) = Elf!Slice(f.bytes, end, length)
      BY <2>2, <3>2
    <3>4. Elf!SegmentEnd(h, s) = end + growth
      BY <1>12
    <3>5. Elf!Region(f, r) = Elf!Slice(f.bytes, end, length)
      BY <1>1, <2>6, <3>1, <3>2 DEF Elf!Region
    <3>6. Elf!Region(h, r) = Elf!Slice(h.bytes, end + growth, length)
      BY <1>4, <2>6, <3>1, <3>2, <3>4 DEF Elf!Region
    <3> QED  BY <3>3, <3>5, <3>6
  <2>7. CASE /\ r \notin {"program headers", "section headers", "head", "tail"}
             /\ r \in Elf!Filed(f)
    <3>1. PICK from \in Nat, length \in Nat :
            /\ from = f.sections[r].offset /\ length = f.sections[r].size
            /\ h.sections[r].size = length
            /\ \/ from + length <= end /\ h.sections[r].offset = from
               \/ /\ end <= from /\ from + length <= total
                  /\ h.sections[r].offset = from + growth
      BY <1>10, <2>7
    <3>2. Elf!Slice(h.bytes, h.sections[r].offset, length) = Elf!Slice(f.bytes, from, length)
      BY <2>1, <2>2, <3>1
    <3>3. Elf!Region(f, r) = Elf!Slice(f.bytes, from, length)
      BY <2>7, <3>1 DEF Elf!Region
    <3>4. Elf!Region(h, r) = Elf!Slice(h.bytes, h.sections[r].offset, length)
      BY <1>9, <2>7, <3>1 DEF Elf!Region
    <3> QED  BY <3>2, <3>3, <3>4
  <2>8. CASE /\ r \notin {"program headers", "section headers", "head", "tail"}
             /\ r \notin Elf!Filed(f)
    BY <1>9, <2>8 DEF Elf!Region
  <2> QED  BY <2>3, <2>4, <2>5, <2>6, <2>7, <2>8
<1>20. ASSUME NEW g, Elf!IsElf(g), SameImage(h, g)
       PROVE  SameImage(f, g)
  <2>1. ASSUME NEW t \in ElfSegments
        PROVE  /\ f.segments[t].offset \in Nat /\ f.segments[t].filesz \in Nat
               /\ f.segments[t].memsz \in Nat /\ h.segments[t].memsz \in Nat
               /\ h.segments[t].filesz \in Nat
               /\ h.segments[t].vaddr = f.segments[t].vaddr
               /\ h.segments[t].offset = f.segments[t].offset
               /\ f.segments[t].filesz <= h.segments[t].filesz
               /\ f.segments[t].memsz <= h.segments[t].memsz
               /\ t = s => f.segments[t].filesz = f.segments[t].memsz
               /\ t # s => f.segments[t].filesz = h.segments[t].filesz
    <3>1. /\ f.segments[t].offset \in Nat /\ f.segments[t].filesz \in Nat
          /\ f.segments[t].memsz \in Nat
      BY ElfFields
    <3>2. t = s => f.segments[t].filesz = f.segments[t].memsz
      BY DEF Elf!Growable
    <3> QED  BY <1>4, <1>12, <3>1, <3>2
  <2>2. ASSUME NEW t \in ElfSegments, f.segments[t].filesz # 0
        PROVE  f.segments[t].offset + f.segments[t].filesz <= end
    <3>1. CASE t = s
      BY <1>1, <3>1 DEF Elf!SegmentEnd
    <3>2. CASE t # s
      <4>1. PICK off \in Nat, filesz \in Nat :
              off = f.segments[t].offset /\ filesz = f.segments[t].filesz
        BY <2>1
      <4>2. filesz # 0
        BY <2>2, <4>1
      <4>3. off + filesz <= total /\ ~(off < total /\ off + filesz > end)
        BY <1>1, <2>2, <3>2, <4>1 DEF Elf!TailMovable, Elf!SegmentEnd
      <4>4. off + filesz <= end
        BY <4>2, <4>3
      <4> QED  BY <4>1, <4>4
    <3> QED  BY <3>1, <3>2
  <2>3. ASSUME NEW t \in ElfSegments, NEW i \in 0 .. f.segments[t].memsz - 1
        PROVE  Elf!Image(h, t, i) = Elf!Image(f, t, i)
    <3>1. CASE i < f.segments[t].filesz
      <4>1. PICK at \in Nat : at = f.segments[t].offset + i /\ at < end
        BY <2>1, <2>2, <3>1
      <4>2. h.bytes[at] = f.bytes[at]
        BY <1>5, <4>1
      <4>3. i < h.segments[t].filesz
        BY <2>1, <3>1
      <4> QED  BY <2>1, <3>1, <4>1, <4>2, <4>3 DEF Elf!Image
    <3>2. CASE ~(i < f.segments[t].filesz)
      <4>1. t # s
        BY <2>1, <3>2
      <4> QED  BY <2>1, <3>2, <4>1 DEF Elf!Image
    <3> QED  BY <3>1, <3>2
  <2>4. ASSUME NEW at \in Nat, at < end, Elf!Spare(h, at)
        PROVE  Elf!Spare(f, at)
    <3>1. /\ offset <= at
          /\ \A i \in offset + size .. at :
               /\ h.bytes[i] = 0
               /\ \A x \in Elf!Filed(f) \ {Bun} :
                    i \notin h.sections[x].offset .. Elf!SectionEnd(h, x) - 1
      BY <1>2, <1>9, <1>11, <2>4 DEF Elf!Spare
    <3>2. ASSUME NEW i \in offset + size .. at
          PROVE  f.bytes[i] = 0
      <4>1. i \in 0 .. end - 1
        BY <2>4
      <4> QED  BY <1>5, <3>1, <4>1
    <3>3. ASSUME NEW i \in offset + size .. at, NEW x \in Elf!Filed(f) \ {Bun}
          PROVE  i \notin f.sections[x].offset .. Elf!SectionEnd(f, x) - 1
      <4>1. PICK from \in Nat, length \in Nat :
              /\ from = f.sections[x].offset /\ length = f.sections[x].size
              /\ h.sections[x].size = length
              /\ h.sections[x].offset = from \/ end <= from
        BY <1>10
      <4>2. i < end
        BY <2>4
      <4>3. CASE h.sections[x].offset = from
        BY <3>1, <4>1, <4>3 DEF Elf!SectionEnd
      <4>4. CASE end <= from
        BY <4>1, <4>2, <4>4
      <4> QED  BY <4>1, <4>3, <4>4
    <3> QED  BY <1>2, <3>1, <3>2, <3>3 DEF Elf!Spare
  <2>5. ASSUME NEW t \in ElfSegments
        PROVE  /\ g.segments[t].vaddr = f.segments[t].vaddr
               /\ g.segments[t].memsz >= f.segments[t].memsz
    <3>1. g.segments[t].memsz \in Nat
      BY <1>20, ElfFields
    <3>2. g.segments[t].vaddr = h.segments[t].vaddr /\ g.segments[t].memsz >= h.segments[t].memsz
      BY <1>20 DEF SameImage
    <3> QED  BY <2>1, <3>1, <3>2
  <2>6. ASSUME NEW t \in ElfSegments, NEW i \in 0 .. f.segments[t].memsz - 1
        PROVE  \/ i < f.segments[t].filesz /\ Elf!Spare(f, f.segments[t].offset + i)
               \/ Elf!Image(g, t, i) = Elf!Image(f, t, i)
    <3>1. i \in 0 .. h.segments[t].memsz - 1
      BY <2>1
    <3>2. \/ i < h.segments[t].filesz /\ Elf!Spare(h, h.segments[t].offset + i)
          \/ Elf!Image(g, t, i) = Elf!Image(h, t, i)
      BY <1>20, <3>1 DEF SameImage
    <3>3. CASE i < h.segments[t].filesz /\ Elf!Spare(h, h.segments[t].offset + i)
      <4>1. i < f.segments[t].filesz
        BY <2>1, <3>3
      <4>2. PICK at \in Nat : at = f.segments[t].offset + i /\ at < end
        BY <2>1, <2>2, <4>1
      <4>3. Elf!Spare(f, at)
        BY <2>1, <2>4, <3>3, <4>2
      <4> QED  BY <4>1, <4>2, <4>3
    <3>4. CASE Elf!Image(g, t, i) = Elf!Image(h, t, i)
      BY <2>3, <3>4
    <3> QED  BY <3>2, <3>3, <3>4
  <2> QED  BY <2>5, <2>6 DEF SameImage
<1> QED  BY <1>8, <1>9, <1>11, <1>15, <1>17, <1>18, <1>19, <1>20

(* Both ways to write: into the room that there is, or into the grown segment. *)
LEMMA ElfWritten ==
  ASSUME NEW f, Elf!IsElf(f), Elf!Loadable(f), Bun \in Elf!Filed(f),
         NEW s \in ElfSegments, Elf!Expandable(f, s), NEW payload \in Seq(Nat),
         NEW g,
         \/ /\ Required(payload) <= Elf!Capacity(f, s)
            /\ g = PutIntoElf(f, Elf!BunHeader(f).offset, Elf!Capacity(f, s), payload)
         \/ /\ Required(payload) > Elf!Capacity(f, s)
            /\ Elf!Growable(f, s)
            /\ Elf!TailMovable(f, s, Elf!Growth(f, s, payload))
            /\ g = PutIntoElf(Elf!Relocated(f, s, Elf!Growth(f, s, payload)),
                              Elf!BunHeader(f).offset, AlignUp(Required(payload), Page), payload)
  PROVE  /\ Elf!IsElf(g)
         /\ Elf!Loadable(g)
         /\ Bun \in Elf!Filed(g)
         /\ PayloadAt(g.bytes, Elf!BunHeader(g).offset) = payload
         /\ \A r \in Elf!Regions : Elf!Region(g, r) = Elf!Region(f, r)
         /\ Elf!BunHeader(g).addr = Elf!BunHeader(f).addr
         /\ SameImage(f, g)
         /\ Elf!Expandable(g, s)
         /\ Elf!ZeroPadded(f, s) => Elf!Capacity(g, s) >= Elf!Capacity(f, s)
<1>1. Elf!Capacity(f, s) \in Nat
  <2>1. PICK offset \in Nat, size \in Nat :
          /\ Elf!BunHeader(f).offset = offset /\ Elf!BunHeader(f).size = size
          /\ Elf!BunEnd(f) = offset + size
    BY ElfFields, ElfConstants DEF Elf!BunHeader, Elf!BunEnd
  <2>2. Elf!RoomEnd(f, s) \in Nat /\ offset + size <= Elf!RoomEnd(f, s)
    BY <2>1, RoomEnds DEF Elf!Expandable
  <2>3. Elf!RoomEnd(f, s) - offset \in Nat
    BY <2>2
  <2> QED  BY <2>1, <2>3 DEF Elf!Capacity
<1>2. CASE /\ Required(payload) <= Elf!Capacity(f, s)
           /\ g = PutIntoElf(f, Elf!BunHeader(f).offset, Elf!Capacity(f, s), payload)
  BY <1>1, <1>2, ElfPut
<1>3. CASE /\ Required(payload) > Elf!Capacity(f, s)
           /\ Elf!Growable(f, s)
           /\ Elf!TailMovable(f, s, Elf!Growth(f, s, payload))
           /\ g = PutIntoElf(Elf!Relocated(f, s, Elf!Growth(f, s, payload)),
                             Elf!BunHeader(f).offset, AlignUp(Required(payload), Page), payload)
  <2>1. PICK room \in Nat, required \in Nat, capacity \in Nat :
          /\ room = Elf!Capacity(f, s) /\ required = Required(payload)
          /\ capacity = AlignUp(required, Page) /\ required <= capacity
    <3>1. Required(payload) \in Nat
      BY WidthAssumption DEF Required
    <3> QED  BY <1>1, <3>1, AlignUpFacts, ElfConstants
  <2>2. PICK growth \in Nat : growth = Elf!Growth(f, s, payload) /\ room + growth = capacity
    <3>1. Elf!Growth(f, s, payload) = capacity - room
      BY <1>3, <2>1, ElfBytes DEF Elf!Growth, Elf!Growable
    <3>2. room < required
      BY <1>3, <2>1
    <3>3. capacity - room \in Nat /\ room + (capacity - room) = capacity
      BY <2>1, <3>2
    <3> QED  BY <3>1, <3>3
  <2>3. PICK h : h = Elf!Relocated(f, s, growth)
    OBVIOUS
  <2>4. /\ Elf!IsElf(h) /\ Elf!Loadable(h) /\ Bun \in Elf!Filed(h)
        /\ Elf!BunHeader(h) = Elf!BunHeader(f)
        /\ Elf!Expandable(h, s) /\ Elf!ZeroPadded(h, s)
        /\ Elf!Capacity(h, s) = capacity
        /\ \A r \in Elf!Regions : Elf!Region(h, r) = Elf!Region(f, r)
        /\ \A k : Elf!IsElf(k) /\ SameImage(h, k) => SameImage(f, k)
    <3>1. Elf!Growable(f, s) /\ Elf!TailMovable(f, s, growth)
      BY <1>3, <2>2
    <3> QED  BY <2>1, <2>2, <2>3, <3>1, ElfRelocated
  <2>5. g = PutIntoElf(h, Elf!BunHeader(h).offset, Elf!Capacity(h, s), payload)
    BY <1>3, <2>1, <2>2, <2>3, <2>4
  <2>6. Required(payload) <= Elf!Capacity(h, s)
    BY <2>1, <2>4
  <2>7. /\ Elf!IsElf(g) /\ Elf!Loadable(g) /\ Bun \in Elf!Filed(g)
        /\ PayloadAt(g.bytes, Elf!BunHeader(g).offset) = payload
        /\ \A r \in Elf!Regions : Elf!Region(g, r) = Elf!Region(h, r)
        /\ Elf!BunHeader(g).addr = Elf!BunHeader(h).addr
        /\ SameImage(h, g)
        /\ Elf!Expandable(g, s)
        /\ Elf!Capacity(g, s) = Elf!Capacity(h, s)
    BY <2>4, <2>5, <2>6, ElfPut
  <2>8. Elf!Capacity(g, s) >= Elf!Capacity(f, s)
    BY <2>1, <2>2, <2>4, <2>7
  <2> QED  BY <2>4, <2>7, <2>8
<1> QED  BY <1>2, <1>3

(* A step of the ELF writer, in the words of the properties. *)
LEMMA ElfStep ==
  ASSUME Elf!Valid, Elf!Next
  PROVE  /\ Elf!Valid'
         /\ Elf!ImageStep
         /\ Elf!RoomStep
         /\ Elf!Payload' \in PayloadsOf["Elf"]
         /\ Elf!Address' = Elf!Address
         /\ Elf!Rest' = Elf!Rest
<1>1. PICK payload \in PayloadsOf["Elf"] : Elf!WriteInPlace(payload) \/ Elf!Relocate(payload)
  BY DEF Elf!Next
<1>2. PICK f, g : f = file /\ g = file'
  OBVIOUS
<1>3. payload \in Seq(Nat)
  BY ContainersAssumption DEF Elf!Assumption
<1>4. Elf!IsElf(f) /\ Elf!Loadable(f) /\ Bun \in Elf!Filed(f)
  BY <1>2 DEF Elf!Valid
<1>5. PICK s \in ElfSegments :
        /\ Elf!Expandable(f, s)
        /\ \/ /\ Required(payload) <= Elf!Capacity(f, s)
              /\ g = PutIntoElf(f, Elf!BunHeader(f).offset, Elf!Capacity(f, s), payload)
           \/ /\ Required(payload) > Elf!Capacity(f, s)
              /\ Elf!Growable(f, s)
              /\ Elf!TailMovable(f, s, Elf!Growth(f, s, payload))
              /\ g = PutIntoElf(Elf!Relocated(f, s, Elf!Growth(f, s, payload)),
                                Elf!BunHeader(f).offset, AlignUp(Required(payload), Page), payload)
  <2>1. CASE Elf!WriteInPlace(payload)
    BY <1>2, <2>1, ElfBytes DEF Elf!WriteInPlace, PutIntoElf
  <2>2. CASE Elf!Relocate(payload)
    BY <1>2, <2>2, ElfBytes DEF Elf!Relocate, PutIntoElf
  <2> QED  BY <1>1, <2>1, <2>2
<1>6. /\ Elf!IsElf(g)
      /\ Elf!Loadable(g)
      /\ Bun \in Elf!Filed(g)
      /\ PayloadAt(g.bytes, Elf!BunHeader(g).offset) = payload
      /\ \A r \in Elf!Regions : Elf!Region(g, r) = Elf!Region(f, r)
      /\ Elf!BunHeader(g).addr = Elf!BunHeader(f).addr
      /\ SameImage(f, g)
      /\ Elf!Expandable(g, s)
      /\ Elf!ZeroPadded(f, s) => Elf!Capacity(g, s) >= Elf!Capacity(f, s)
  BY <1>3, <1>4, <1>5, ElfWritten
<1>7. Elf!Valid'
  BY <1>2, <1>6 DEF Elf!Valid
<1>8. Elf!ImageStep
  BY <1>2, <1>6 DEF Elf!ImageStep, SameImage
<1>9. Elf!RoomStep
  <2>1. ASSUME NEW t \in ElfSegments, Elf!Expandable(f, t), Elf!ZeroPadded(f, t)
        PROVE  Elf!Expandable(g, t) /\ Elf!Capacity(g, t) >= Elf!Capacity(f, t)
    <3>1. t = s
      BY <1>5, <2>1 DEF Elf!Expandable
    <3> QED  BY <1>6, <2>1, <3>1
  <2> QED  BY <1>2, <2>1 DEF Elf!RoomStep
<1>10. Elf!Payload' \in PayloadsOf["Elf"]
  BY <1>2, <1>6, ElfBytes DEF Elf!Payload
<1>11. Elf!Address' = Elf!Address /\ Elf!Rest' = Elf!Rest
  BY <1>2, <1>6 DEF Elf!Address, Elf!Rest
<1> QED  BY <1>7, <1>8, <1>9, <1>10, <1>11

-----------------------------------------------------------------------------
(* All formats *)

(* The inductive invariant: the file is one that the loader of its format
   accepts.  What the three steps need of a file is exactly this: a write is
   only right for a file that no earlier write has spoilt. *)
IInv == format \in Formats /\ StaysLoadable

(* The executables to start from are loadable: the assumption on the constants. *)
LEMMA InitIInv == Init => IInv
BY ContainersAssumption
   DEF Init, IInv, Formats, StaysLoadable, Elf!Assumption, Elf!Valid,
       Macho!Assumption, Macho!Valid, Pe!Assumption, Pe!Valid

(* A write keeps it, whichever writer it is. *)
LEMMA NextIInv == IInv /\ [Next]_vars => IInv'
<1> SUFFICES ASSUME IInv, [Next]_vars PROVE IInv'
  OBVIOUS
<1>1. CASE WriteElf
  <2>1. format = "Elf" /\ format' = format /\ Elf!Valid'
    BY <1>1, ElfStep DEF WriteElf, IInv, StaysLoadable
  <2> QED  BY <2>1 DEF IInv, Formats, StaysLoadable
<1>2. CASE WriteMachO
  <2>1. format = "MachO64" /\ format' = format /\ Macho!Valid'
    BY <1>2, MachoStep DEF WriteMachO, IInv, StaysLoadable
  <2> QED  BY <2>1 DEF IInv, Formats, StaysLoadable
<1>3. CASE WritePe
  <2>1. format = "Pe" /\ format' = format /\ Pe!Valid'
    BY <1>3, PeStep DEF WritePe, IInv, StaysLoadable
  <2> QED  BY <2>1 DEF IInv, Formats, StaysLoadable
<1>4. CASE UNCHANGED vars
  <2>1. format' = format /\ file' = file
    BY <1>4 DEF vars
  <2>2. /\ Elf!Valid' <=> Elf!Valid
        /\ Macho!Valid' <=> Macho!Valid
        /\ Pe!Valid' <=> Pe!Valid
    BY <2>1 DEF Elf!Valid, Macho!Valid, Pe!Valid
  <2> QED  BY <2>1, <2>2 DEF IInv, StaysLoadable
<1> QED  BY <1>1, <1>2, <1>3, <1>4 DEF Next

(* Every reachable file satisfies the inductive invariant. *)
THEOREM InvariantIInv == Spec => []IInv
BY InitIInv, NextIInv, PTL DEF Spec

(* Repacking never makes a file that the loader refuses: within the file, disjoint
   in the file and in memory, with every file offset of the headers outside .bun and
   .bun where the program looks for it, for all layouts, sizes and payloads. *)
THEOREM Loadability == Spec => []StaysLoadable
<1>1. IInv => StaysLoadable
  BY DEF IInv
<1> QED  BY <1>1, InvariantIInv, PTL

(* Only the ELF writer's steps are about the image. *)
LEMMA NextImage == IInv /\ [Next]_vars => [format = "Elf" => Elf!ImageStep]_vars
BY ElfStep DEF IInv, StaysLoadable, Next, WriteElf, WriteMachO, WritePe

(* The program sees the memory that it saw before, but for .bun and its padding,
   whether the ELF writer filled the padding or moved the tail of the file. *)
THEOREM ImageKeeping == Spec => ImageKept
BY NextImage, InvariantIInv, PTL DEF Spec, ImageKept

(* Each writer keeps the file writable in the sense of its own format. *)
LEMMA NextWritable ==
  IInv /\ [Next]_vars =>
    [/\ format = "Elf" => Elf!RoomStep
     /\ format = "MachO64" => Macho!GrowthStep
     /\ format = "Pe" => Pe!WritableStep]_vars
<1> SUFFICES ASSUME IInv, Next
             PROVE  /\ format = "Elf" => Elf!RoomStep
                    /\ format = "MachO64" => Macho!GrowthStep
                    /\ format = "Pe" => Pe!WritableStep
  OBVIOUS
<1>1. CASE WriteElf
  BY <1>1, ElfStep DEF WriteElf, IInv, StaysLoadable
<1>2. CASE WriteMachO
  BY <1>2, MachoStep DEF WriteMachO, IInv, StaysLoadable
<1>3. CASE WritePe
  BY <1>3, PeStep DEF WritePe, IInv, StaysLoadable
<1> QED  BY <1>1, <1>2, <1>3 DEF Next

(* A write does not use up the room, the movability or the payloads that the file
   could take before it. *)
THEOREM Rewritability == Spec => StaysWritable
BY NextWritable, InvariantIInv, PTL DEF Spec, StaysWritable

(* A file to start from holds one of the payloads. *)
LEMMA InitSlot == Init => Slot!Init
<1> SUFFICES ASSUME Init PROVE Slot!Init
  OBVIOUS
<1>1. CASE format = "Elf"
  <2>1. Elf!Payload \in PayloadsOf["Elf"]
    BY <1>1, ContainersAssumption DEF Init, Elf!Assumption, Elf!Payload
  <2> QED  BY <1>1, <2>1 DEF Slot!Init, Formats
<1>2. CASE format = "MachO64"
  <2>1. Macho!Payload \in PayloadsOf["MachO64"]
    BY <1>2, ContainersAssumption DEF Init, Macho!Assumption, Macho!Payload
  <2> QED  BY <1>2, <2>1 DEF Slot!Init, Formats
<1>3. CASE format = "Pe"
  <2>1. Pe!Payload \in PayloadsOf["Pe"]
    BY <1>3, ContainersAssumption DEF Init, Pe!Assumption, Pe!Payload
  <2> QED  BY <1>3, <2>1 DEF Slot!Init, Formats
<1> QED  BY <1>1, <1>2, <1>3 DEF Init, Formats

(* A write of each writer is the write of the slot, and nothing else is a step. *)
LEMMA NextSlot ==
  IInv /\ [Next]_vars =>
    [Slot!Write]_<<CASE format = "Elf" -> Elf!Payload
                     [] format = "MachO64" -> Macho!Payload
                     [] format = "Pe" -> Pe!Payload,
                   CASE format = "Elf" -> Elf!Address
                     [] format = "MachO64" -> Macho!Address
                     [] format = "Pe" -> Pe!Address,
                   CASE format = "Elf" -> Elf!Rest
                     [] format = "MachO64" -> Macho!Rest
                     [] format = "Pe" -> Pe!Rest>>
<1> SUFFICES ASSUME IInv, [Next]_vars
             PROVE  [Slot!Write]_<<CASE format = "Elf" -> Elf!Payload
                     [] format = "MachO64" -> Macho!Payload
                     [] format = "Pe" -> Pe!Payload,
                   CASE format = "Elf" -> Elf!Address
                     [] format = "MachO64" -> Macho!Address
                     [] format = "Pe" -> Pe!Address,
                   CASE format = "Elf" -> Elf!Rest
                     [] format = "MachO64" -> Macho!Rest
                     [] format = "Pe" -> Pe!Rest>>
  OBVIOUS
<1>1. CASE WriteElf
  <2>1. /\ format = "Elf" /\ format' = "Elf"
        /\ Elf!Payload' \in PayloadsOf["Elf"]
        /\ Elf!Address' = Elf!Address /\ Elf!Rest' = Elf!Rest
    BY <1>1, ElfStep DEF WriteElf, IInv, StaysLoadable
  <2> QED  BY <2>1 DEF Slot!Write, Formats
<1>2. CASE WriteMachO
  <2>1. /\ format = "MachO64" /\ format' = "MachO64"
        /\ Macho!Payload' \in PayloadsOf["MachO64"]
        /\ Macho!Address' = Macho!Address /\ Macho!Rest' = Macho!Rest
    BY <1>2, MachoStep DEF WriteMachO, IInv, StaysLoadable
  <2> QED  BY <2>1 DEF Slot!Write, Formats
<1>3. CASE WritePe
  <2>1. /\ format = "Pe" /\ format' = "Pe"
        /\ Pe!Payload' \in PayloadsOf["Pe"]
        /\ Pe!Address' = Pe!Address /\ Pe!Rest' = Pe!Rest
    BY <1>3, PeStep DEF WritePe, IInv, StaysLoadable
  <2> QED  BY <2>1 DEF Slot!Write, Formats
<1>4. CASE UNCHANGED vars
  <2>1. format' = format /\ file' = file
    BY <1>4 DEF vars
  <2>2. /\ Elf!Payload' = Elf!Payload /\ Elf!Address' = Elf!Address /\ Elf!Rest' = Elf!Rest
    BY <2>1 DEF Elf!Payload, Elf!Address, Elf!Rest
  <2>3. /\ Macho!Payload' = Macho!Payload /\ Macho!Address' = Macho!Address
        /\ Macho!Rest' = Macho!Rest
    BY <2>1 DEF Macho!Payload, Macho!Address, Macho!Rest
  <2>4. /\ Pe!Payload' = Pe!Payload /\ Pe!Address' = Pe!Address /\ Pe!Rest' = Pe!Rest
    BY <2>1 DEF Pe!Payload, Pe!Address, Pe!Rest
  <2> QED  BY <2>1, <2>2, <2>3, <2>4
<1> QED  BY <1>1, <1>2, <1>3, <1>4 DEF Next

(* The writers implement BunSlot: the payload is exchanged, the address at which
   the program finds it and all that the headers point to stay. *)
THEOREM SlotImplemented == Spec => SwapsPayloadOnly
BY InitSlot, NextSlot, InvariantIInv, PTL DEF Spec, SwapsPayloadOnly, Slot!Spec
=============================================================================
