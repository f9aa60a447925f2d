---------------------------- MODULE MachoSegment ----------------------------
(***************************************************************************)
(* The 64-bit Mach-O writer of debun, src/src/standalone/macho.rs: the       *)
(* payload goes into the __BUN segment, which grows in place by whole pages  *)
(* of 16 KiB; __LINKEDIT, which is right behind it, and everything else       *)
(* moves back, and every load command that points there has to follow.       *)
(*                                                                         *)
(* Load commands are fields of a record.  A write that the code refuses       *)
(* leaves no output and is no step.                                         *)
(***************************************************************************)
EXTENDS FileBytes

CONSTANTS
  Bun,        \* the segment __BUN
  Linkedit,   \* the segment __LINKEDIT
  Segments,   \* all LC_SEGMENT_64 commands
  Refs,       \* file offsets in the other load commands
  Alignment,  \* BUN_ALIGNMENT
  Payloads,   \* the payloads that are written
  Inputs      \* the executables to start from

VARIABLE file

-----------------------------------------------------------------------------
(* Executables *)

SegmentCommand == [fileoff : Nat, filesize : Nat, vmaddr : Nat, vmsize : Nat]
SectionHeader  == [offset : Nat, addr : Nat, size : Nat]

(* "linkedit": the offset fields that shift_command_u32 moves; "note" and
   "encryption": those that go with a size; "fileset": LC_FILESET_ENTRY. *)
Kind      == {"linkedit", "note", "encryption", "fileset"}
Reference == [kind : Kind, offset : Nat, size : Nat, crypt : BOOLEAN]

IsMacho(f) ==
  /\ f = [size |-> f.size, bytes |-> f.bytes, commandsEnd |-> f.commandsEnd,
          segments |-> f.segments, section |-> f.section, refs |-> f.refs]
  /\ f.size \in Nat
  /\ f.bytes \in Files(f.size)
  /\ f.commandsEnd \in Nat
  /\ f.segments \in [Segments -> SegmentCommand]
  /\ f.section \in SectionHeader
  /\ f.refs \in [Refs -> Reference]

FileEnd(f, s)   == f.segments[s].fileoff + f.segments[s].filesize
MemoryEnd(f, s) == f.segments[s].vmaddr + f.segments[s].vmsize
BunStart(f)     == f.segments[Bun].fileoff
BunEnd(f)       == FileEnd(f, Bun)

(* References to something: an offset of zero means that there is nothing. *)
Live(f) == {r \in Refs : f.refs[r].offset # 0 /\ f.refs[r].size # 0}

(* What the linker and Bun make: segments share neither the file nor memory,
   __LINKEDIT is the last of them, and every reference is to something outside
   __BUN. *)
Loadable(f) ==
  /\ f.commandsEnd <= f.size
  /\ \A s \in Segments : /\ FileEnd(f, s) <= f.size
                         /\ f.segments[s].filesize <= f.segments[s].vmsize
  /\ \A s, t \in Segments : s # t =>
       /\ \/ f.segments[s].filesize = 0 \/ f.segments[t].filesize = 0
          \/ FileEnd(f, s) <= f.segments[t].fileoff
          \/ FileEnd(f, t) <= f.segments[s].fileoff
       /\ \/ f.segments[s].vmsize = 0 \/ f.segments[t].vmsize = 0
          \/ MemoryEnd(f, s) <= f.segments[t].vmaddr
          \/ MemoryEnd(f, t) <= f.segments[s].vmaddr
  /\ \A s \in Segments \ {Linkedit} : MemoryEnd(f, s) <= f.segments[Linkedit].vmaddr
  /\ \A r \in Live(f) :
       LET ref == f.refs[r] IN
         /\ ref.offset + ref.size <= f.size
         /\ ref.offset + ref.size <= BunStart(f) \/ BunEnd(f) <= ref.offset
         /\ ref.kind = "linkedit" => /\ f.segments[Linkedit].fileoff <= ref.offset
                                     /\ ref.offset + ref.size <= FileEnd(f, Linkedit)
  /\ f.section.size <= f.segments[Bun].filesize
  /\ Width <= f.section.size /\ Width + f.bytes[BunStart(f)] <= f.section.size

(* What Containers assumes of the constants. *)
Assumption ==
  /\ Alignment \in Nat \ {0}
  /\ {Bun, Linkedit} \subseteq Segments /\ Bun # Linkedit
  /\ Refs \cap Segments = {}
  /\ Payloads \subseteq Seq(Nat)
  /\ \A f \in Inputs : /\ IsMacho(f)
                       /\ Loadable(f)
                       /\ PayloadAt(f.bytes, BunStart(f)) \in Payloads

-----------------------------------------------------------------------------
(* write_bun_section *)

(* validate_bun_mapping. *)
Mapped(f) ==
  /\ f.commandsEnd <= BunStart(f)
  /\ f.section.offset = BunStart(f)
  /\ f.section.addr = f.segments[Bun].vmaddr

(* What shift_linkedit_offsets can move: an offset of the first kind must be in
   __LINKEDIT or at its end, a range must not reach over the end of __BUN. *)
Shiftable(f) ==
  \A r \in Refs :
    LET ref == f.refs[r] IN
      CASE ref.kind = "linkedit" ->
             ref.offset # 0 => ref.offset \in BunEnd(f) .. FileEnd(f, Linkedit)
        [] ref.kind \in {"note", "encryption"} ->
             /\ ~ref.crypt
             /\ r \in Live(f) =>
                  /\ ref.offset + ref.size <= f.size
                  /\ ref.offset < BunEnd(f) => ref.offset + ref.size <= BunEnd(f)
        [] ref.kind = "fileset" -> FALSE

(* Bun's layout, validate_growth_layout and what is to be shifted. *)
Growable(f) ==
  /\ BunStart(f) % Alignment = 0
  /\ f.segments[Bun].filesize % Alignment = 0
  /\ f.segments[Bun].vmsize = f.segments[Bun].filesize
  /\ f.segments[Linkedit].fileoff = BunEnd(f)
  /\ f.segments[Linkedit].vmaddr = MemoryEnd(f, Bun)
  /\ FileEnd(f, Linkedit) <= f.size
  /\ \A s \in Segments \ {Bun, Linkedit} :
       f.segments[s].filesize # 0 => FileEnd(f, s) <= BunStart(f)
  /\ Shiftable(f)

\* Mutant: ranges with a size are left where they were.
ShiftedLinkedit(f, growth) ==
  [r \in Refs |->
     IF f.refs[r].kind = "linkedit" /\ f.refs[r].offset # 0
     THEN [f.refs[r] EXCEPT !.offset = @ + growth] ELSE f.refs[r]]

(* shift_linkedit_offsets. *)
Shifted(f, growth) ==
  [r \in Refs |->
     LET ref  == f.refs[r]
         move == IF ref.kind = "linkedit" THEN ref.offset # 0
                 ELSE r \in Live(f) /\ ref.offset >= BunEnd(f)
     IN IF move THEN [ref EXCEPT !.offset = @ + growth] ELSE ref]

(* The executable with a larger __BUN. *)
Grown(f, growth) ==
  [f EXCEPT
     !.size = @ + growth,
     !.bytes = Gap(@, f.size, BunEnd(f), growth),
     !.segments[Bun].filesize = @ + growth,
     !.segments[Bun].vmsize = @ + growth,
     !.segments[Linkedit].fileoff = @ + growth,
     !.segments[Linkedit].vmaddr = @ + growth,
     !.refs = Shifted(f, growth)]

(* write_payload. *)
Filled(f, capacity, payload) ==
  [f EXCEPT !.bytes = Put(@, BunStart(f), capacity, payload),
            !.section.size = Required(payload)]

Init == file \in Inputs

WriteInPlace(payload) ==
  /\ Mapped(file)
  /\ Required(payload) <= file.segments[Bun].filesize
  /\ file' = Filled(file, file.segments[Bun].filesize, payload)

Grow(payload) ==
  LET capacity == AlignUp(Required(payload), Alignment) IN
    /\ Mapped(file)
    /\ Required(payload) > file.segments[Bun].filesize
    /\ Growable(file)
    /\ file' = Filled(Grown(file, capacity - file.segments[Bun].filesize), capacity, payload)

Next == \E payload \in Payloads : WriteInPlace(payload) \/ Grow(payload)

-----------------------------------------------------------------------------
(* The parts of Containers' properties that are about this format *)

(* Segments share neither the file nor memory, every load command points to
   something outside __BUN, offsets into __LINKEDIT stay in it, and __BUN holds
   its payload. *)
Valid == IsMacho(file) /\ Loadable(file)

(* An executable whose payload has been replaced can be given a payload of any
   size if it could before: the writer leaves the layout that it asks for. *)
GrowthStep == Mapped(file) /\ Growable(file) => Mapped(file') /\ Growable(file')

(* The rest of the file: what segments and load commands point to, the load
   commands and what is not pointed to before and behind __BUN. *)
Regions == (Segments \ {Bun}) \cup Refs \cup {"head", "tail"}

Region(f, r) ==
  IF r = "head" THEN Slice(f.bytes, 0, BunStart(f))
  ELSE IF r = "tail" THEN Slice(f.bytes, BunEnd(f), f.size - BunEnd(f))
  ELSE IF r \in Live(f) THEN Slice(f.bytes, f.refs[r].offset, f.refs[r].size)
  ELSE IF r \in Segments THEN Slice(f.bytes, f.segments[r].fileoff, f.segments[r].filesize)
  ELSE << >>

Payload == PayloadAt(file.bytes, BunStart(file))
Address == file.section.addr
Rest    == [r \in Regions |-> Region(file, r)]

=============================================================================
