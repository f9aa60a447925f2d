----------------------------- MODULE PeSection -----------------------------
(***************************************************************************)
(* The PE writer of debun, src/src/standalone/pe.rs: the payload goes into   *)
(* the .bun section, which grows at the end of the image if it is the last    *)
(* one; what is appended behind it (an overlay) moves back with every file    *)
(* pointer into it, and the size of the image is computed again.             *)
(*                                                                         *)
(* Headers and the debug directory are fields of a record; the checksum is    *)
(* left out.  A write that the code refuses leaves no output and is no step.  *)
(***************************************************************************)
EXTENDS FileBytes

CONSTANTS
  Bun,            \* the section with the name .bun
  Sections,       \* the section headers
  Pointers,       \* file pointers: COFF symbols, relocations, line numbers
  DebugPointers,  \* those in the entries of the debug directory
  FileAlign,      \* FileAlignment
  SectionAlign,   \* SectionAlignment
  Payloads,       \* the payloads that are written
  Inputs          \* the executables to start from

VARIABLE file

-----------------------------------------------------------------------------
(* Executables *)

SectionHeader == [vsize : Nat, vaddr : Nat, raw : Nat, ptr : Nat]
Pointer       == [offset : Nat, size : Nat]

IsPe(f) ==
  /\ f = [size |-> f.size, bytes |-> f.bytes, headersEnd |-> f.headersEnd,
          signed |-> f.signed, pe64 |-> f.pe64, imageSize |-> f.imageSize,
          sections |-> f.sections, pointers |-> f.pointers, debug |-> f.debug]
  /\ {f.size, f.headersEnd, f.imageSize} \subseteq Nat
  /\ f.bytes \in Files(f.size)
  /\ {f.signed, f.pe64} \subseteq BOOLEAN
  /\ f.sections \in [Sections -> SectionHeader]
  /\ f.pointers \in [Pointers -> Pointer]
  /\ f.debug \in [rva : Nat, size : Nat]

BunStart(f)  == f.sections[Bun].ptr
RawEnd(f, x) == f.sections[x].ptr + f.sections[x].raw
BunEnd(f)    == RawEnd(f, Bun)
Larger(a, b) == IF a >= b THEN a ELSE b

(* Where a section of this size ends in memory. *)
VirtualEnd(header) == header.vaddr + AlignUp(Larger(header.vsize, header.raw), SectionAlign)

(* Where the image ends. *)
IsImageEnd(f, end) ==
  /\ \A x \in Sections : VirtualEnd(f.sections[x]) <= end
  /\ \E x \in Sections : AlignUp(VirtualEnd(f.sections[x]), SectionAlign) = end

Live(f) == {p \in Pointers : f.pointers[p].offset # 0 /\ f.pointers[p].size # 0}

HasDebug(f) == f.debug.rva # 0 /\ f.debug.size # 0

(* Entries of a debug directory that there is not, point nowhere. *)
Loadable(f) ==
  /\ f.headersEnd <= f.size
  /\ \A x \in Sections : f.sections[x].raw # 0 => RawEnd(f, x) <= f.size
  /\ \A x, y \in Sections : x # y =>
       /\ \/ f.sections[x].raw = 0 \/ f.sections[y].raw = 0
          \/ RawEnd(f, x) <= f.sections[y].ptr \/ RawEnd(f, y) <= f.sections[x].ptr
       /\ \/ VirtualEnd(f.sections[x]) <= f.sections[y].vaddr
          \/ VirtualEnd(f.sections[y]) <= f.sections[x].vaddr
  /\ \A p \in Live(f) :
       LET pointer == f.pointers[p] IN
         /\ pointer.offset + pointer.size <= f.size
         /\ pointer.offset + pointer.size <= BunStart(f) \/ BunEnd(f) <= pointer.offset
  /\ ~HasDebug(f) => Live(f) \cap DebugPointers = {}
  /\ Width + f.bytes[BunStart(f)] <= f.sections[Bun].vsize
  /\ Width <= f.sections[Bun].raw /\ Width + f.bytes[BunStart(f)] <= f.sections[Bun].raw
  /\ IsImageEnd(f, f.imageSize)

(* What Containers assumes of the constants. *)
Assumption ==
  /\ {FileAlign, SectionAlign} \subseteq Nat \ {0}
  /\ Bun \in Sections
  /\ DebugPointers \subseteq Pointers
  /\ Pointers \cap Sections = {}
  /\ Payloads \subseteq Seq(Nat)
  /\ \A f \in Inputs : /\ IsPe(f)
                       /\ Loadable(f)
                       /\ PayloadAt(f.bytes, BunStart(f)) \in Payloads

-----------------------------------------------------------------------------
(* write_bun_section *)

(* validate_bun_file_range. *)
RangeValid(f) ==
  /\ BunEnd(f) <= f.size
  /\ f.headersEnd <= BunStart(f)
  /\ \A x \in Sections \ {Bun} : f.sections[x].raw # 0 =>
       /\ RawEnd(f, x) <= f.size
       /\ ~(BunStart(f) < RawEnd(f, x) /\ f.sections[x].ptr < BunEnd(f))

(* validate_bun_is_last. *)
BunIsLast(f) ==
  \A x \in Sections \ {Bun} :
    /\ ~(f.sections[x].raw # 0 /\ f.sections[x].ptr >= BunEnd(f))
    /\ f.sections[x].vaddr < f.sections[Bun].vaddr
    /\ VirtualEnd(f.sections[x]) <= f.sections[Bun].vaddr

(* rva_to_file_offset: the first section whose bytes include the directory; they
   do not overlap in memory, so there is one at most. *)
DebugHome(f) ==
  {x \in Sections : /\ f.sections[x].vaddr <= f.debug.rva
                    /\ f.debug.rva + f.debug.size <= f.sections[x].vaddr + f.sections[x].raw}

DebugAt(f, x) == f.sections[x].ptr + (f.debug.rva - f.sections[x].vaddr)

(* shift_debug_directory_pointers goes through. *)
DebugMovable(f) ==
  HasDebug(f) => \E x \in DebugHome(f) : DebugAt(f, x) < BunEnd(f)

Growable(f) == f.pe64 /\ BunIsLast(f) /\ DebugMovable(f)

(* shift_overlay_file_pointers. *)
Shifted(f, growth) ==
  [p \in Pointers |->
     IF /\ f.pointers[p].offset # 0
        /\ f.pointers[p].offset >= BunEnd(f)
        /\ p \in DebugPointers => HasDebug(f)
     THEN [f.pointers[p] EXCEPT !.offset = @ + growth] ELSE f.pointers[p]]

(* The overlay and the pointers into it make room; unchanged without growth. *)
Grown(f, growth) ==
  IF growth = 0 THEN f
  ELSE [f EXCEPT !.size = @ + growth,
                 !.bytes = Gap(@, f.size, BunEnd(f), growth),
                 !.pointers = Shifted(f, growth)]

(* calculate_size_of_image. *)
ImageEnd(sections) ==
  LET ends == {VirtualEnd(sections[x]) : x \in Sections} IN
    AlignUp(CHOOSE end \in ends : \A other \in ends : other <= end, SectionAlign)

NewRawSize(f, payload) ==
  Larger(f.sections[Bun].raw, AlignUp(Required(payload), FileAlign))

Init == file \in Inputs

(* The checks of the code; .bun need not be the last section while it does not
   grow. *)
Writable(f, payload) ==
  /\ ~f.signed
  /\ RangeValid(f)
  /\ NewRawSize(f, payload) # f.sections[Bun].raw => Growable(f)

\* Mutant: the header gets the size that the payload needs, not the room's.
HeaderOfPayload(f, payload) ==
  [f.sections EXCEPT ![Bun].vsize = Required(payload),
                     ![Bun].raw = AlignUp(Required(payload), FileAlign)]

(* The section headers after the write. *)
NewSections(f, payload) ==
  [f.sections EXCEPT ![Bun].vsize = Required(payload),
                     ![Bun].raw = NewRawSize(f, payload)]

Write(payload) ==
  LET raw      == NewRawSize(file, payload)
      grown    == Grown(file, raw - file.sections[Bun].raw)
      sections == NewSections(file, payload)
  IN
    /\ Writable(file, payload)
    /\ file' = [grown EXCEPT !.bytes = Put(@, BunStart(file), raw, payload),
                             !.sections = sections,
                             !.imageSize = ImageEnd(sections)]

Next == \E payload \in Payloads : Write(payload)

-----------------------------------------------------------------------------
(* The parts of Containers' properties that are about this format *)

(* Sections share neither the file nor memory, file pointers point outside .bun,
   the payload is in the part of .bun that is loaded, and the size of the image
   is where its last section ends. *)
Valid == IsPe(file) /\ Loadable(file)

(* No payload that could be written before is refused after another one. *)
WritableStep ==
  \A payload \in Payloads : Writable(file, payload) => Writable(file', payload)

(* The rest of the file: what sections and file pointers point to, all before
   .bun and the overlay. *)
Regions == (Sections \ {Bun}) \cup Pointers \cup {"head", "overlay"}

Region(f, r) ==
  IF r = "head" THEN Slice(f.bytes, 0, BunStart(f))
  ELSE IF r = "overlay" THEN Slice(f.bytes, BunEnd(f), f.size - BunEnd(f))
  ELSE IF r \in Live(f) THEN Slice(f.bytes, f.pointers[r].offset, f.pointers[r].size)
  ELSE IF r \in Sections THEN Slice(f.bytes, f.sections[r].ptr, f.sections[r].raw)
  ELSE << >>

Payload == PayloadAt(file.bytes, BunStart(file))
Address == file.sections[Bun].vaddr
Rest    == [r \in Regions |-> Region(file, r)]

=============================================================================
