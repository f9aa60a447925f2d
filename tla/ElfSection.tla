----------------------------- MODULE ElfSection -----------------------------
(***************************************************************************)
(* The ELF writer of debun, src/src/standalone/elf.rs: an executable whose   *)
(* .bun section gets one payload after another.  A payload goes into the    *)
(* zero padding behind the section, or the writable PT_LOAD segment grows    *)
(* by whole pages and the unmapped tail of the file moves back.             *)
(*                                                                         *)
(* The headers are fields of a record, at the places where the file has      *)
(* their tables.  A write that the code refuses leaves no output and is no    *)
(* step.                                                                   *)
(***************************************************************************)
EXTENDS FileBytes

CONSTANTS
  Bun,        \* the section with the name .bun
  Sections,   \* the section headers
  Segments,   \* the program headers
  Page,       \* page size of the machine: 4 KiB or 64 KiB in the code
  Payloads,   \* the payloads that are written
  Inputs      \* the executables to start from

VARIABLE file

-----------------------------------------------------------------------------
(* Executables *)

SectionHeader == [nobits : BOOLEAN, offset : Nat, size : Nat, addr : Nat]
ProgramHeader ==
  [load : BOOLEAN, writable : BOOLEAN, offset : Nat, vaddr : Nat, filesz : Nat, memsz : Nat]

IsElf(f) ==
  /\ f = [size |-> f.size, bytes |-> f.bytes, phoff |-> f.phoff, phend |-> f.phend,
          shoff |-> f.shoff, shend |-> f.shend, sections |-> f.sections,
          segments |-> f.segments]
  /\ f.size \in Nat
  /\ f.bytes \in Files(f.size)
  /\ {f.phoff, f.phend, f.shoff, f.shend} \subseteq Nat
  /\ f.sections \in [Sections -> SectionHeader]
  /\ f.segments \in [Segments -> ProgramHeader]

BunHeader(f)     == f.sections[Bun]
BunEnd(f)        == BunHeader(f).offset + BunHeader(f).size
SegmentEnd(f, s) == f.segments[s].offset + f.segments[s].filesz

(* Sections that have bytes in the file. *)
Filed(f) == {x \in Sections : ~f.sections[x].nobits /\ f.sections[x].size # 0}

SectionEnd(f, x) == f.sections[x].offset + f.sections[x].size

(* PT_LOAD segments do not share memory; one of no size has none. *)
InMemory(f) == {s \in Segments : f.segments[s].load /\ f.segments[s].memsz # 0}

MemoryDisjoint(f) ==
  \A s, t \in InMemory(f) :
    s # t =>
      \/ f.segments[s].vaddr + f.segments[s].memsz <= f.segments[t].vaddr
      \/ f.segments[t].vaddr + f.segments[t].memsz <= f.segments[s].vaddr

(* The segment maps .bun to its address. *)
Maps(f, s) ==
  LET segment == f.segments[s] IN
    /\ segment.load
    /\ segment.offset <= BunHeader(f).offset
    /\ BunEnd(f) <= SegmentEnd(f, s)
    /\ segment.vaddr + (BunHeader(f).offset - segment.offset) = BunHeader(f).addr

(* What the linker and Bun make, and the loader accepts. *)
Loadable(f) ==
  /\ f.phoff < f.phend /\ f.phend <= f.size
  /\ f.shoff < f.shend /\ f.shend <= f.size
  /\ \A x \in Filed(f) : SectionEnd(f, x) <= f.size
  /\ \A s \in Segments : /\ SegmentEnd(f, s) <= f.size
                         /\ f.segments[s].filesz <= f.segments[s].memsz
  /\ MemoryDisjoint(f)
  /\ \E s \in Segments : Maps(f, s)
  /\ Width + f.bytes[BunHeader(f).offset] <= BunHeader(f).size

(* What Containers assumes of the constants. *)
Assumption ==
  /\ Page \in Nat \ {0}
  /\ Bun \in Sections
  /\ Payloads \subseteq Seq(Nat)
  /\ \A f \in Inputs : /\ IsElf(f)
                       /\ Loadable(f)
                       /\ Bun \in Filed(f)
                       /\ PayloadAt(f.bytes, BunHeader(f).offset) \in Payloads

-----------------------------------------------------------------------------
(* The room for a payload without moving anything *)

\* Mutant: the section header table is not looked at.
TakenButTable(f) ==
  {[from |-> f.phoff, to |-> f.phend]}
  \cup {[from |-> f.sections[x].offset, to |-> SectionEnd(f, x)] : x \in Filed(f) \ {Bun}}

(* The ranges that the section must stay clear of: both header tables and the
   other sections. *)
Taken(f) ==
  {[from |-> f.phoff, to |-> f.phend], [from |-> f.shoff, to |-> f.shend]}
  \cup {[from |-> f.sections[x].offset, to |-> SectionEnd(f, x)] : x \in Filed(f) \ {Bun}}

Clear(f) ==
  \A range \in Taken(f) : range.to <= BunHeader(f).offset \/ BunEnd(f) <= range.from

(* Where the padding of .bun ends. *)
RoomEnd(f, s) ==
  LET ends == {SegmentEnd(f, s)}
              \cup {range.from : range \in {r \in Taken(f) : BunEnd(f) <= r.from}}
  IN CHOOSE end \in ends : \A other \in ends : end <= other

ZeroPadded(f, s) == \A i \in BunEnd(f) .. RoomEnd(f, s) - 1 : f.bytes[i] = 0

\* Mutant: the padding is not looked at.
CapacityUnchecked(f, s) == RoomEnd(f, s) - BunHeader(f).offset

(* bun_section_capacity: bytes that are not zero may belong to somebody. *)
Capacity(f, s) ==
  IF ZeroPadded(f, s) THEN RoomEnd(f, s) - BunHeader(f).offset ELSE BunHeader(f).size

(* find_bun_load_segment finds it, and bun_section_capacity has an answer. *)
Expandable(f, s) ==
  /\ \A t \in Segments : Maps(f, t) <=> t = s
  /\ Clear(f)
  /\ RoomEnd(f, s) <= f.size

-----------------------------------------------------------------------------
(* write_bun_section *)

Init == file \in Inputs

WriteInPlace(payload) ==
  \E s \in Segments :
    /\ Expandable(file, s)
    /\ Required(payload) <= Capacity(file, s)
    /\ file' = [file EXCEPT
         !.bytes = Put(@, BunHeader(file).offset, Capacity(file, s), payload),
         !.sections[Bun].size = Required(payload)]

(* How much the segment must grow. *)
Growth(f, s, payload) ==
  AlignUp(Required(payload), Page) - (SegmentEnd(f, s) - BunHeader(f).offset)

(* The first checks of relocate_elf_tail. *)
Growable(f, s) ==
  /\ Capacity(f, s) = SegmentEnd(f, s) - BunHeader(f).offset
  /\ f.segments[s].writable
  /\ f.segments[s].filesz = f.segments[s].memsz
  /\ BunHeader(f).offset % Page = 0
  /\ BunHeader(f).addr % Page = 0

(* validate_relocation_layout: the tail holds the section headers and whole
   sections, no other segment reaches into it, or into the memory that the
   segment will cover. *)
TailMovable(f, s, growth) ==
  /\ f.phend <= SegmentEnd(f, s)
  /\ f.shoff >= SegmentEnd(f, s) /\ f.shend <= f.size
  /\ \A x \in Filed(f) :
       /\ SectionEnd(f, x) <= f.size
       /\ ~(f.sections[x].offset < SegmentEnd(f, s) /\ SectionEnd(f, x) > SegmentEnd(f, s))
  /\ \A t \in Segments \ {s} :
       LET other == f.segments[t]
           end   == f.segments[s].vaddr + f.segments[s].memsz
       IN
         /\ other.filesz # 0 =>
              /\ SegmentEnd(f, t) <= f.size
              /\ ~(other.offset < f.size /\ SegmentEnd(f, t) > SegmentEnd(f, s))
         /\ other.load => ~(other.vaddr < end + growth /\ other.vaddr + other.memsz > end)

(* The section headers after the move. *)
MovedSections(f, s, growth) ==
  [x \in Sections |->
     LET header == f.sections[x] IN
       IF ~header.nobits /\ header.offset >= SegmentEnd(f, s) /\ header.offset <= f.size
       THEN [header EXCEPT !.offset = @ + growth]
       ELSE header]

(* The executable with a larger segment. *)
Relocated(f, s, growth) ==
  [f EXCEPT
     !.size = @ + growth,
     !.bytes = Gap(@, f.size, SegmentEnd(f, s), growth),
     !.shoff = @ + growth,
     !.shend = @ + growth,
     !.sections = MovedSections(f, s, growth),
     !.segments[s].filesz = @ + growth,
     !.segments[s].memsz = @ + growth]

(* relocate_elf_tail. *)
Relocate(payload) ==
  \E s \in Segments :
    LET growth == Growth(file, s, payload)
        grown  == Relocated(file, s, growth)
    IN
      /\ Expandable(file, s)
      /\ Required(payload) > Capacity(file, s)
      /\ Growable(file, s)
      /\ TailMovable(file, s, growth)
      /\ file' = [grown EXCEPT
           !.bytes = Put(@, BunHeader(file).offset, AlignUp(Required(payload), Page), payload),
           !.sections[Bun].size = Required(payload)]

Next == \E payload \in Payloads : WriteInPlace(payload) \/ Relocate(payload)

-----------------------------------------------------------------------------
(* The parts of Containers' properties that are about this format *)

(* Header tables, sections and segments are within the file, segments do not
   share memory, .bun is mapped at its address and holds its payload. *)
Valid == IsElf(file) /\ Loadable(file) /\ Bun \in Filed(file)

(* Bytes that are up to the writer: those of .bun, and zeros right behind it that
   belong to no other section. *)
Spare(f, at) ==
  /\ BunHeader(f).offset <= at
  /\ \A i \in BunEnd(f) .. at :
       /\ f.bytes[i] = 0
       /\ \A x \in Filed(f) \ {Bun} : i \notin f.sections[x].offset .. SectionEnd(f, x) - 1

(* The byte the loader puts at the i-th address of a segment. *)
Image(f, s, i) ==
  IF i < f.segments[s].filesz THEN f.bytes[f.segments[s].offset + i] ELSE 0

(* Every segment keeps its address, and every byte of memory that it had before
   keeps its value, unless it is part of .bun or spare. *)
ImageStep ==
  \A s \in Segments :
    /\ file'.segments[s].vaddr = file.segments[s].vaddr
    /\ file'.segments[s].memsz >= file.segments[s].memsz
    /\ \A i \in 0 .. file.segments[s].memsz - 1 :
         \/ /\ i < file.segments[s].filesz
            /\ Spare(file, file.segments[s].offset + i)
         \/ Image(file', s, i) = Image(file, s, i)

(* A smaller payload does not cost room: where the padding was zero, a payload
   that would have fitted before fits afterwards. *)
RoomStep ==
  \A s \in Segments :
    Expandable(file, s) /\ ZeroPadded(file, s) =>
      Expandable(file', s) /\ Capacity(file', s) >= Capacity(file, s)

(* The rest of the file: what the section headers point to, the header tables,
   everything before .bun and everything behind the segment. *)
Regions == (Sections \ {Bun}) \cup {"program headers", "section headers", "head", "tail"}

BunSegment(f) == CHOOSE s \in Segments : Maps(f, s)

Region(f, r) ==
  IF r = "program headers" THEN Slice(f.bytes, f.phoff, f.phend - f.phoff)
  ELSE IF r = "section headers" THEN Slice(f.bytes, f.shoff, f.shend - f.shoff)
  ELSE IF r = "head" THEN Slice(f.bytes, 0, BunHeader(f).offset)
  ELSE IF r = "tail" THEN Slice(f.bytes, SegmentEnd(f, BunSegment(f)),
                                f.size - SegmentEnd(f, BunSegment(f)))
  ELSE IF r \in Filed(f) THEN Slice(f.bytes, f.sections[r].offset, f.sections[r].size)
  ELSE << >>

Payload == PayloadAt(file.bytes, BunHeader(file).offset)
Address == BunHeader(file).addr
Rest    == [r \in Regions |-> Region(file, r)]

=============================================================================
