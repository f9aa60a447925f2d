----------------------------- MODULE Containers -----------------------------
(***************************************************************************)
(* An executable that is repacked again and again: write_container           *)
(* (src/src/standalone/write.rs) hands each new payload to the writer of the  *)
(* file's format, which ElfSection, MachoSegment and PeSection model.  The    *)
(* properties say of all formats what a repack promises.                     *)
(***************************************************************************)
EXTENDS FileBytes

CONSTANTS
  Bun,                \* the section or segment that holds the payload
  PayloadsOf,         \* the payloads that are written, by format
  InputsOf,           \* the executables to start from, by format
  ElfSections, ElfSegments, Page,
  Linkedit, MachoSegments, Refs, Alignment,
  PeSections, Pointers, DebugPointers, FileAlign, SectionAlign

VARIABLES
  format,   \* StandaloneSectionKind; Pe32 and Pe64 are told apart in file
  file

vars == <<format, file>>

Formats == {"Elf", "MachO64", "Pe"}

Elf == INSTANCE ElfSection
  WITH Sections <- ElfSections, Segments <- ElfSegments,
       Payloads <- PayloadsOf["Elf"], Inputs <- InputsOf["Elf"]

Macho == INSTANCE MachoSegment
  WITH Segments <- MachoSegments,
       Payloads <- PayloadsOf["MachO64"], Inputs <- InputsOf["MachO64"]

Pe == INSTANCE PeSection
  WITH Sections <- PeSections, Payloads <- PayloadsOf["Pe"], Inputs <- InputsOf["Pe"]

ASSUME ContainersAssumption ==
  /\ DOMAIN PayloadsOf = Formats /\ DOMAIN InputsOf = Formats
  /\ Elf!Assumption
  /\ Macho!Assumption
  /\ Pe!Assumption

-----------------------------------------------------------------------------
(* write_container: the writer goes by the format that the reader found. *)

Init == format \in Formats /\ file \in InputsOf[format]

WriteElf   == format = "Elf" /\ Elf!Next /\ UNCHANGED format
WriteMachO == format = "MachO64" /\ Macho!Next /\ UNCHANGED format
WritePe    == format = "Pe" /\ Pe!Next /\ UNCHANGED format

Next == WriteElf \/ WriteMachO \/ WritePe

Spec == Init /\ [][Next]_vars

-----------------------------------------------------------------------------
(* Properties *)

(* However often the payload is replaced, the file stays one that the loader
   accepts: tables, sections and segments are within the file and share neither
   bytes nor memory, every file offset in the headers still points to something
   outside .bun, and .bun is mapped where the program looks for its payload. *)
StaysLoadable ==
  /\ format = "Elf" => Elf!Valid
  /\ format = "MachO64" => Macho!Valid
  /\ format = "Pe" => Pe!Valid

(* In an ELF file every segment keeps its address, and every byte of memory that
   it had before keeps its value, unless it is part of .bun or spare: growing the
   segment moves file offsets and never what the program sees. *)
ImageKept == [][format = "Elf" => Elf!ImageStep]_vars

(* A write does not use up the writer's ability to write: the room of an ELF
   section whose padding is zero does not shrink with a smaller payload, a Mach-O
   file that could take a payload of any size still can, and no payload that a
   PE file could take is refused after another one. *)
StaysWritable ==
  [][/\ format = "Elf" => Elf!RoomStep
     /\ format = "MachO64" => Macho!GrowthStep
     /\ format = "Pe" => Pe!WritableStep]_vars

(* Every writer implements the promise of BunSlot: the payload is replaced, the
   address at which the program finds it stays, and so does all that the headers
   of the format point to, wherever it is moved. *)
Slot == INSTANCE BunSlot
  WITH Payloads <- UNION {PayloadsOf[f] : f \in Formats},
       payload <- CASE format = "Elf" -> Elf!Payload
                    [] format = "MachO64" -> Macho!Payload
                    [] format = "Pe" -> Pe!Payload,
       address <- CASE format = "Elf" -> Elf!Address
                    [] format = "MachO64" -> Macho!Address
                    [] format = "Pe" -> Pe!Address,
       rest <- CASE format = "Elf" -> Elf!Rest
                 [] format = "MachO64" -> Macho!Rest
                 [] format = "Pe" -> Pe!Rest

SwapsPayloadOnly == Slot!Spec

=============================================================================
