------------------------------ MODULE Payload ------------------------------
(***************************************************************************)
(* The payload of a standalone executable: src/src/standalone/write.rs puts  *)
(* a module graph into cells, container.rs, layout.rs and parse.rs read it   *)
(* again.  Nothing in a payload says which record layout, which offsets and  *)
(* which width of the length prefix it has: all three are guessed.           *)
(*                                                                         *)
(* A payload is a sequence of cells.  A cell at or above zero is a word of   *)
(* four bytes; a cell below zero is a piece of text, of which the reader      *)
(* tells apart what it looks at.  The terminator of a string is a zero.       *)
(***************************************************************************)
EXTENDS Integers, SequencesExt

CONSTANTS
  None,       \* no such part (Option::None)
  Keep,       \* the part is not replaced
  MaxOffset,  \* the largest offset or length of a pointer (u32::MAX)
  Values,         \* contents and sidecars: sequences of text
  Names,          \* names of modules: sequences of text
  Replacements,   \* what is replaced at once: functions on names
  Inputs          \* the executables to start from

VARIABLES
  file,       \* the executable: what kind of container, and its cells
  binary      \* what it holds according to the promises of Standalone

-----------------------------------------------------------------------------
(* Cells *)

Root    == -1    \* BUNFS_ROOT_PREFIX or one of its older forms
Letter  == -2    \* other text
Control == -3    \* text with a control character
Binary  == -4    \* bytes that are not UTF-8
Trailer == -5    \* TRAILER

Text == {Root, Letter}

(* The k-th byte of a word; a piece of text has bytes of its own. *)
Byte(word, k) == IF word < 0 THEN 255 ELSE (word \div 256 ^ k) % 256

(* pointer_fits_body: a pointer to cells that are there.  Four characters of text
   read as a number are beyond any body. *)
Within(offset, length, size) == offset >= 0 /\ length >= 0 /\ offset + length <= size

Cut(body, offset, length) == SubSeq(body, offset + 1, offset + length)

-----------------------------------------------------------------------------
(* Module records *)

RecordLayouts == <<"Extended", "WithModuleInfo", "Compact", "LegacyEncoding", "LegacyLoader">>
OffsetsLayouts == <<"WithCompileArgv", "Legacy">>
Legacy == {"LegacyLoader", "LegacyEncoding"}

(* The pointers of a record, in their order. *)
Pointers ==
  LET common == <<"name", "contents", "sourcemap">> IN
    [LegacyLoader   |-> common,
     LegacyEncoding |-> common,
     Compact        |-> common \o <<"bytecode">>,
     WithModuleInfo |-> common \o <<"bytecode", "module_info">>,
     Extended       |-> common \o <<"bytecode", "module_info", "origin">>]

TailSize(layout) == IF layout = "LegacyLoader" THEN 2 ELSE 1

RecordSize(layout) == 2 * Len(Pointers[layout]) + TailSize(layout)

OffsetsSize == [Legacy |-> 6, WithCompileArgv |-> 8]

\* Mutant: so are source maps.
TerminatedMaps == {"name", "contents", "sourcemap", "origin"}

(* Strings that push_bytes_z terminates. *)
Terminated == {"name", "contents", "origin"}

Part == {"contents", "sourcemap", "bytecode", "module_info"}

\* Mutant: format and side are written in the wrong order.
SwappedTail(layout, module) ==
  CASE layout = "LegacyLoader"   -> <<module.loader, 0>>
    [] layout = "LegacyEncoding" -> <<module.encoding + 256 * module.loader>>
    [] OTHER -> <<module.encoding + 256 * module.loader + 256 ^ 2 * module.side
                   + 256 ^ 3 * module.format>>

(* What the record of the layout says about loader, encoding, format and side. *)
TailWords(layout, module) ==
  CASE layout = "LegacyLoader"   -> <<module.loader, 0>>
    [] layout = "LegacyEncoding" -> <<module.encoding + 256 * module.loader>>
    [] OTHER -> <<module.encoding + 256 * module.loader + 256 ^ 2 * module.format
                   + 256 ^ 3 * module.side>>

-----------------------------------------------------------------------------
(* serialize_payload *)

(* push_bytes, push_bytes_z, push_optional_bytes(_z). *)
Push(acc, value, terminated) ==
  IF value = None THEN [acc EXCEPT !.table = @ \o <<0, 0>>]
  ELSE [body  |-> acc.body \o value \o (IF terminated THEN <<0>> ELSE << >>),
        table |-> acc.table \o <<Len(acc.body), Len(value)>>]

PushModule(layout, acc, module) ==
  LET fields == Pointers[layout]
      pushed[k \in 0 .. Len(fields)] ==
        IF k = 0 THEN acc
        ELSE Push(pushed[k - 1], module[fields[k]], fields[k] \in Terminated)
  IN [pushed[Len(fields)] EXCEPT !.table = @ \o TailWords(layout, module)]

(* Body and module table; the arguments of the program come first. *)
Pushed(g) ==
  LET argv == Push([body |-> << >>, table |-> << >>], g.argv, TRUE)
      pushed[i \in 0 .. Len(g.modules)] ==
        IF i = 0 THEN [argv EXCEPT !.table = << >>]
        ELSE PushModule(g.layout, pushed[i - 1], g.modules[i])
  IN pushed[Len(g.modules)]

ArgvPointer(g) == IF g.argv = None THEN <<0, 0>> ELSE <<0, Len(g.argv)>>

(* What the legacy layouts cannot store, and what u32 cannot count. *)
Serializable(g) ==
  LET pushed == Pushed(g) IN
    /\ g.offsets = "Legacy" => g.argv = None
    /\ g.layout \in Legacy =>
         \A i \in 1 .. Len(g.modules) :
           g.modules[i].bytecode = None /\ g.modules[i].module_info = None
    /\ Len(pushed.body) <= MaxOffset
    /\ Len(pushed.table) <= MaxOffset

Offsets(g, byteCount, modulesAt, modulesSize) ==
  <<byteCount, 0, modulesAt, modulesSize, g.entry>>
  \o IF g.offsets = "Legacy" THEN <<0>> ELSE ArgvPointer(g) \o <<g.flags>>

Serialize(g) ==
  LET pushed == Pushed(g)
      body   == pushed.body \o pushed.table
  IN body \o Offsets(g, Len(body), Len(pushed.body), Len(pushed.table)) \o <<Trailer>>

-----------------------------------------------------------------------------
(* Containers *)

(* write_container: at the end of the file behind its own length, or behind a
   length of one or two words in a section.  An ELF section ends where the payload
   ends, the others keep the room they have; only a 32-bit Mach-O cannot grow. *)
Kind == {"Appended", "Elf", "Pe64", "MachO32"}

Zeros(n) == [i \in 1 .. n |-> 0]

Prefixed(width, payload) == <<Len(payload)>> \o Zeros(width - 1) \o payload

HasRoom(c, payload) == c.kind = "MachO32" => c.width + Len(payload) <= c.room

Written(c, payload) ==
  LET padding == c.room - c.width - Len(payload) IN
    IF c.kind = "Appended"
    THEN c.prefix \o payload \o <<Len(c.prefix) + Len(payload) + 2, 0>>
    ELSE IF c.kind = "Elf" \/ padding <= 0
    THEN Prefixed(c.width, payload)
    ELSE Prefixed(c.width, payload) \o Zeros(padding)

-----------------------------------------------------------------------------
(* container.rs: where the payload is, and how wide its offsets are *)

OffsetsAt(payload, layout) == Len(payload) - 1 - OffsetsSize[layout]

(* parse_offsets; a count with a second word is larger than any payload. *)
OffsetsFit(payload, layout) ==
  LET start == OffsetsAt(payload, layout)
      word(k) == payload[start + k]
  IN
    /\ start >= 0
    /\ word(1) = start /\ word(2) = 0
    /\ Within(word(3), word(4), start)
    /\ layout = "WithCompileArgv" => Within(word(6), word(7), start)

(* detect_offsets_layout: the first that fits. *)
DetectOffsets(payload) ==
  IF payload = << >> \/ Last(payload) # Trailer THEN None
  ELSE IF OffsetsFit(payload, "WithCompileArgv") THEN "WithCompileArgv"
  ELSE IF OffsetsFit(payload, "Legacy") THEN "Legacy"
  ELSE None

\* Mutant: the length of the section is taken for that of the payload.
WholeSection(section, width) ==
  /\ Len(section) >= width
  /\ width = 2 => section[2] = 0
  /\ DetectOffsets(SubSeq(section, width + 1, Len(section))) # None

(* parse_length_prefixed_payload: two words are tried before one. *)
InSection(section, width) ==
  LET length == section[1] IN
    /\ Len(section) >= width
    /\ width = 2 => section[2] = 0
    /\ width + length <= Len(section)
    /\ DetectOffsets(SubSeq(section, width + 1, width + length)) # None

WidthOf(section) ==
  IF InSection(section, 2) THEN 2 ELSE IF InSection(section, 1) THEN 1 ELSE None

(* extract_appended_payload, of a file that ends with its own length. *)
AppendedFrom(cells, layout) ==
  LET offsets == Len(cells) - 3 - OffsetsSize[layout] IN
    offsets - cells[offsets + 1]

AppendedFits(cells, layout) ==
  LET offsets == Len(cells) - 3 - OffsetsSize[layout] IN
    /\ cells[Len(cells) - 1] = Len(cells) /\ Last(cells) = 0
    /\ cells[Len(cells) - 2] = Trailer
    /\ offsets >= 0
    /\ cells[offsets + 1] \in 0 .. offsets /\ cells[offsets + 2] = 0
    /\ DetectOffsets(SubSeq(cells, AppendedFrom(cells, layout) + 1, Len(cells) - 2)) = layout

(* extract_container_payload: the payload, and what is around it. *)
Extracted(f) ==
  LET cells    == f.cells
      width    == WidthOf(cells)
      fitting  == SelectSeq(OffsetsLayouts, LAMBDA l : AppendedFits(cells, l))
      from     == AppendedFrom(cells, fitting[1])
  IN
    IF f.kind = "Appended" /\ fitting # << >>
    THEN [payload |-> SubSeq(cells, from + 1, Len(cells) - 2), kind |-> f.kind,
          prefix |-> SubSeq(cells, 1, from)]
    ELSE IF f.kind # "Appended" /\ width # None
    THEN [payload |-> SubSeq(cells, width + 1, width + cells[1]), kind |-> f.kind,
          width |-> width, room |-> Len(cells)]
    ELSE None

-----------------------------------------------------------------------------
(* parse.rs: the module records *)

(* The i-th record of a module table: its pointers and the words behind them. *)
Record(table, layout, i) ==
  LET from == (i - 1) * RecordSize(layout)
      tail == from + 2 * Len(Pointers[layout])
      index(field) == CHOOSE k \in 1 .. Len(Pointers[layout]) : Pointers[layout][k] = field
  IN
    [pointer |-> [field \in Range(Pointers[layout]) |->
                    <<table[from + 2 * index(field) - 1], table[from + 2 * index(field)]>>],
     loader   |-> IF layout = "LegacyLoader" THEN Byte(table[tail + 1], 0)
                  ELSE Byte(table[tail + 1], 1),
     encoding |-> IF layout = "LegacyLoader" THEN 0 ELSE Byte(table[tail + 1], 0),
     format   |-> IF layout \in Legacy THEN 0 ELSE Byte(table[tail + 1], 2),
     side     |-> IF layout \in Legacy THEN 0 ELSE Byte(table[tail + 1], 3)]

Field(body, record, field) ==
  IF field \notin DOMAIN record.pointer THEN << >>
  ELSE Cut(body, record.pointer[field][1], record.pointer[field][2])

(* The checks on one record: a name is text without control characters. *)
RecordFits(body, record) ==
  /\ record.encoding <= 2 /\ record.format <= 2 /\ record.side <= 1
  /\ \A field \in DOMAIN record.pointer :
       \/ record.pointer[field][2] = 0 /\ field \notin {"name", "contents"}
       \/ Within(record.pointer[field][1], record.pointer[field][2], Len(body))
  /\ Field(body, record, "name") # << >>
  /\ Range(Field(body, record, "name")) \subseteq Text
  /\ Binary \notin Range(Field(body, record, "origin"))

Records(table, layout) ==
  [i \in 1 .. Len(table) \div RecordSize(layout) |-> Record(table, layout, i)]

(* try_parse_module_records. *)
LayoutFits(body, table, entry, layout) ==
  /\ Len(table) % RecordSize(layout) = 0
  /\ entry < Len(table) \div RecordSize(layout)
  /\ \A i \in 1 .. Len(table) \div RecordSize(layout) :
       RecordFits(body, Record(table, layout, i))

(* Modules whose name is below the BunFS root. *)
Score(body, table, layout) ==
  Len(SelectSeq(Records(table, layout), LAMBDA r : Field(body, r, "name")[1] = Root))

Better(body, table, best, layout) ==
  IF best = None \/ Score(body, table, layout) > Score(body, table, best) THEN layout ELSE best

(* parse_module_records: the first layout with the best score. *)
DetectRecords(body, table, entry) ==
  FoldLeft(LAMBDA best, layout : Better(body, table, best, layout), None,
           SelectSeq(RecordLayouts, LAMBDA l : LayoutFits(body, table, entry, l)))

(* optional_part: a pointer of length zero is no part. *)
Optional(cells) == IF cells = << >> THEN None ELSE cells

(* build_module. *)
Module(body, record) ==
  [name        |-> Field(body, record, "name"),
   contents    |-> Field(body, record, "contents"),
   sourcemap   |-> Optional(Field(body, record, "sourcemap")),
   bytecode    |-> Optional(Field(body, record, "bytecode")),
   module_info |-> Optional(Field(body, record, "module_info")),
   origin      |-> Optional(Field(body, record, "origin")),
   loader |-> record.loader, encoding |-> record.encoding,
   format |-> record.format, side |-> record.side]

(* parse_payload. *)
Graph(payload) ==
  LET offsets == DetectOffsets(payload)
      start   == OffsetsAt(payload, offsets)
      word(k) == payload[start + k]
      body    == SubSeq(payload, 1, start)
      table   == Cut(body, word(3), word(4))
      layout  == DetectRecords(body, table, word(5))
      modules == [i \in 1 .. Len(table) \div RecordSize(layout) |->
                    Module(body, Record(table, layout, i))]
  IN
    IF offsets = None \/ layout = None THEN None
    ELSE [offsets |-> offsets, layout |-> layout, entry |-> word(5), modules |-> modules,
          argv  |-> IF offsets = "Legacy" THEN None ELSE Optional(Cut(body, word(6), word(7))),
          flags |-> IF offsets = "Legacy" THEN 0 ELSE word(8)]

(* inspect_executable; paths must be unique. *)
Inspected(f) ==
  LET container == Extracted(f)
      g         == Graph(container.payload)
  IN
    IF container = None \/ g = None THEN None
    ELSE IF Cardinality({g.modules[i].name : i \in 1 .. Len(g.modules)}) = Len(g.modules) THEN g
    ELSE None

-----------------------------------------------------------------------------
(* repack_executable *)

Promise == INSTANCE Standalone
  WITH BunFS <- {n \in Names : n[1] = Root}, Foreign <- {n \in Names : n[1] # Root},
       Bytes <- Values \ {<< >>}, Empty <- << >>,
       Length <- [value \in Values \ {<< >>} |-> Len(value)]

(* The modules of a graph as Standalone has them. *)
Parts(g) ==
  LET at(n) == CHOOSE i \in 1 .. Len(g.modules) : g.modules[i].name = n IN
    [n \in {g.modules[i].name : i \in 1 .. Len(g.modules)} |->
       [p \in Part |-> g.modules[at(n)][p]]]

(* The room for parts: what u32 can count, and what a section that cannot grow has,
   less what else goes into the payload. *)
Room(g, c) ==
  LET counted == MaxOffset - Len(Pushed(g).body)
      left    == c.room - c.width - Len(Serialize(g))
  IN Promise!Size(Parts(g))
     + IF c.kind = "MachO32" /\ left < counted THEN left ELSE counted

(* The executable as Standalone sees it. *)
AsBinary(g, c) ==
  [layout |-> g.layout, container |-> "lasting", room |-> Room(g, c), graph |-> Parts(g)]

(* ResolvedModuleParts::new. *)
Resolved(module, replacements) ==
  LET wanted == IF module.name \in DOMAIN replacements THEN replacements[module.name]
                ELSE Promise!KeepAll
  IN [f \in DOMAIN module |-> IF f \in Part /\ wanted[f] # Keep THEN wanted[f] ELSE module[f]]

Replaced(g, replacements) ==
  [g EXCEPT !.modules = [i \in DOMAIN @ |-> Resolved(@[i], replacements)]]

Executable(c, payload) == [kind |-> c.kind, cells |-> Written(c, payload)]

Init ==
  \E input \in Inputs :
    /\ file = Executable(input.container, Serialize(input.graph))
    /\ binary = AsBinary(input.graph, input.container)

(* Neither serialize_payload nor write_container refuses. *)
CanRepack(g, c) == Serializable(g) /\ HasRoom(c, Serialize(g))

Repack(replacements) ==
  LET before    == Inspected(file)
      container == Extracted(file)
      g         == Replaced(before, replacements)
  IN
    /\ before # None
    /\ CanRepack(g, container)
    /\ file' = Executable(container, Serialize(g))
    /\ binary' = Promise!Repack(binary, replacements)

Next == \E replacements \in Replacements : Repack(replacements)

Spec == Init /\ [][Next]_<<file, binary>>

-----------------------------------------------------------------------------
(* Properties *)

(* Whatever was replaced how often, the executable reads back, and reads back as
   what Standalone says of the replacements: the guesses at the record layout, the
   width of the offsets and that of the length find what was written. *)
ReadsBack ==
  LET g == Inspected(file) IN
    /\ g # None
    /\ g.layout = binary.layout
    /\ Parts(g) = binary.graph

(* What a graph says besides its parts, and what is around the payload. *)
Rest(f) ==
  LET g == Inspected(f)
      c == Extracted(f)
  IN [offsets |-> g.offsets, entry |-> g.entry, argv |-> g.argv, flags |-> g.flags,
      modules |-> [i \in DOMAIN g.modules |->
                     [x \in DOMAIN g.modules[i] \ Part |-> g.modules[i][x]]],
      prefix  |-> IF c.kind = "Appended" THEN c.prefix ELSE <<c.width>>]

(* Names, loaders, origins, the entry point, the arguments, the program in front of
   the payload and the width of its length are as they were. *)
RestKept == [][Rest(file') = Rest(file)]_<<file, binary>>

(* What is refused is what Standalone says: parts that a legacy record has no pointer
   for, and parts that together are larger than the room the executable had to begin
   with.  No sequence of repacks uses room up, nor makes any. *)
RefusesAsPromised ==
  LET g == Inspected(file)
      c == Extracted(file)
  IN \A replacements \in Replacements :
       CanRepack(Replaced(g, replacements), c) <=> Promise!CanRepack(binary, replacements)

=============================================================================
