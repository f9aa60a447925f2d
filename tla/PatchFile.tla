----------------------------- MODULE PatchFile -----------------------------
(***************************************************************************)
(* The patch file of src/src/patch.rs: a string of bytes that one run writes  *)
(* and another one, on another machine, reads.  On its way a byte of it may be *)
(* changed, lost or added.                                                   *)
(*                                                                         *)
(* write_patch_bundle is one step, because write_atomic_file shows its result  *)
(* as a whole (AtomicFile).  parse_patch_bundle is one step for each field.     *)
(***************************************************************************)
EXTENDS ByteWords

CONSTANTS
  HashSize,  \* SHA256_LEN
  Magic,     \* PATCH_MAGIC
  Bundles    \* what there is to write

VARIABLES
  bundle,    \* what create_patch has to write
  file,      \* the patch file, None as long as there is none
  pc,        \* the field that is read next; "ok" or "error" at the end
  at,        \* PatchReader.offset
  read,      \* the PatchBundle that was read so far
  left,      \* how many records are still to be read
  draft      \* the fields of the current record that were read

vars == <<bundle, file, pc, at, read, left, draft>>

Part == <<"contents", "sourcemap", "bytecode", "module_info">>

Parts == {Part[k] : k \in 1 .. 4}

Absent == 0
Present == 1

(* PatchRecord and PatchBundle.  A hash, a replacement and the path of the original may be
   missing. *)
Record ==
  [path : Seq(Utf8), part : Parts,
   expected : [1 .. HashSize -> Byte] \cup {None}, replacement : Seq(Byte) \cup {None}]

Bundle == [origin : Seq(Utf8) \cup {None}, records : Seq(Record)]

OneEach(records) ==
  \A j, k \in 1 .. Len(records) :
    records[j].path = records[k].path /\ records[j].part = records[k].part => j = k

ASSUME SizesAssumption ==
  Radix > 4 /\ HashSize \in Nat /\ Magic \in Seq(Byte)

(* create_patch makes at most one record for a part of a module, and the modules of an
   executable have different paths. *)
ASSUME BundlesAssumption == \A b \in Bundles : b \in Bundle /\ OneEach(b.records)

ASSUME NoneAssumption ==
  None \notin Seq(Byte) /\ None \notin [value : Seq(Byte) \cup Parts \cup {None}, at : Nat]

-----------------------------------------------------------------------------
(* write_patch_bundle *)

WriteBytes(bytes) == Word(Len(bytes)) \o bytes

WriteOptional(value, bytes) ==
  IF value = None THEN <<Absent>> ELSE <<Present>> \o bytes

Tag(part) == (CHOOSE k \in 1 .. 4 : Part[k] = part) - 1

\* Mutant: the length of a replacement is left out when it is empty.
WriteRecordShort(r) ==
  WriteBytes(r.path) \o <<Tag(r.part)>> \o WriteOptional(r.expected, r.expected)
  \o WriteOptional(r.replacement,
       IF r.replacement = << >> THEN << >> ELSE WriteBytes(r.replacement))

WriteRecord(r) ==
  WriteBytes(r.path) \o <<Tag(r.part)>> \o WriteOptional(r.expected, r.expected)
  \o WriteOptional(r.replacement, WriteBytes(r.replacement))

WriteRecords(records) ==
  LET upto[k \in 0 .. Len(records)] ==
        IF k = 0 THEN << >> ELSE upto[k - 1] \o WriteRecord(records[k])
  IN upto[Len(records)]

Written(b) ==
  Magic \o WriteOptional(b.origin, WriteBytes(b.origin))
  \o Word(Len(b.records)) \o WriteRecords(b.records)

(* u32::try_from of every length. *)
Fits(b) ==
  LET small(text) == Len(text) <= MaxWord IN
    /\ b.origin # None => small(b.origin)
    /\ small(b.records)
    /\ \A k \in 1 .. Len(b.records) :
         /\ small(b.records[k].path)
         /\ b.records[k].replacement # None => small(b.records[k].replacement)

-----------------------------------------------------------------------------
(* The run that writes, and the way of the file *)

Nothing == [origin |-> None, records |-> << >>]

Init ==
  /\ bundle \in Bundles
  /\ file = None
  /\ pc = "write"
  /\ at = 0
  /\ read = Nothing
  /\ left = 0
  /\ draft = << >>

Write ==
  /\ pc = "write" /\ file = None /\ Fits(bundle)
  /\ file' = Written(bundle)
  /\ UNCHANGED <<bundle, pc, at, read, left, draft>>

(* A length that u32 cannot hold; write_atomic_file removes what was written. *)
WriteFails ==
  /\ pc = "write" /\ file = None /\ ~Fits(bundle)
  /\ pc' = "error"
  /\ UNCHANGED <<bundle, file, at, read, left, draft>>

(* The file is damaged on its way, at most once. *)
Damage ==
  /\ pc = "write" /\ file # None /\ file = Written(bundle)
  /\ \/ \E n \in 0 .. Len(file) - 1 : file' = SubSeq(file, 1, n)
     \/ \E b \in Byte : file' = Append(file, b)
     \/ \E k \in 1 .. Len(file), b \in Byte : file' = [file EXCEPT ![k] = b]
  /\ UNCHANGED <<bundle, pc, at, read, left, draft>>

-----------------------------------------------------------------------------
(* PatchReader: what is read from an offset, and the offset behind it; None where
   the file ends too early. *)

ReadBytes(p) == TakeCounted(file, p, 1)

ReadString(p) ==
  LET text == ReadBytes(p) IN
    IF text # None /\ \A k \in 1 .. Len(text.value) : text.value[k] \in Utf8 THEN text ELSE None

ReadHash(p) == Take(file, p, HashSize)

(* A state, and a value (what is read behind it) if the state says so. *)
ReadOptional(p, content) ==
  LET state == Take(file, p, 1) IN
    IF state = None THEN None
    ELSE CASE state.value = <<Absent>>  -> [value |-> None, at |-> state.at]
           [] state.value = <<Present>> -> content
           [] OTHER -> None

ReadTag(p) ==
  LET tag == Take(file, p, 1) IN
    IF tag # None /\ tag.value[1] < 4
    THEN [value |-> Part[tag.value[1] + 1], at |-> tag.at] ELSE None

(* parse_patch_bundle, field by field. *)

Fail ==
  /\ pc' = "error"
  /\ UNCHANGED <<bundle, file, at, read, left, draft>>

ReadMagic ==
  LET magic == Take(file, 0, Len(Magic)) IN
    /\ pc = "write" /\ file # None
    /\ IF magic = None \/ magic.value # Magic
       THEN Fail
       ELSE /\ pc' = "origin"
            /\ at' = magic.at
            /\ UNCHANGED <<bundle, file, read, left, draft>>

ReadOrigin ==
  LET origin == ReadOptional(at, ReadString(at + 1)) IN
    /\ pc = "origin"
    /\ IF origin = None
       THEN Fail
       ELSE /\ pc' = "count"
            /\ at' = origin.at
            /\ read' = [read EXCEPT !.origin = origin.value]
            /\ UNCHANGED <<bundle, file, left, draft>>

ReadCount ==
  LET count == Take(file, at, WordSize) IN
    /\ pc = "count"
    /\ IF count = None
       THEN Fail
       ELSE /\ pc' = "path"
            /\ at' = count.at
            /\ left' = Number(count.value)
            /\ UNCHANGED <<bundle, file, read, draft>>

Keys == {<<read.records[k].path, read.records[k].part>> : k \in 1 .. Len(read.records)}

\* Mutant: a second record for a module is refused, whatever its part is.
ReadKeyOfModule ==
  LET path == ReadString(at)
      part == ReadTag(path.at)
  IN
    /\ pc = "path" /\ left > 0
    /\ IF path = None \/ part = None \/ path.value \in {key[1] : key \in Keys}
       THEN Fail
       ELSE /\ pc' = "expected"
            /\ at' = part.at
            /\ draft' = [path |-> path.value, part |-> part.value]
            /\ UNCHANGED <<bundle, file, read, left>>

\* Mutant: the part is not compared with that of earlier records.
ReadKeyAgain ==
  LET path == ReadString(at)
      part == ReadTag(path.at)
  IN
    /\ pc = "path" /\ left > 0
    /\ IF path = None \/ part = None
       THEN Fail
       ELSE /\ pc' = "expected"
            /\ at' = part.at
            /\ draft' = [path |-> path.value, part |-> part.value]
            /\ UNCHANGED <<bundle, file, read, left>>

(* Path and part of a record, which no earlier record may have. *)
ReadKey ==
  LET path == ReadString(at)
      part == ReadTag(path.at)
  IN
    /\ pc = "path" /\ left > 0
    /\ IF path = None \/ part = None \/ <<path.value, part.value>> \in Keys
       THEN Fail
       ELSE /\ pc' = "expected"
            /\ at' = part.at
            /\ draft' = [path |-> path.value, part |-> part.value]
            /\ UNCHANGED <<bundle, file, read, left>>

ReadExpected ==
  LET expected == ReadOptional(at, ReadHash(at + 1)) IN
    /\ pc = "expected"
    /\ IF expected = None
       THEN Fail
       ELSE /\ pc' = "replacement"
            /\ at' = expected.at
            /\ draft' = [path |-> draft.path, part |-> draft.part, expected |-> expected.value]
            /\ UNCHANGED <<bundle, file, read, left>>

ReadReplacement ==
  LET replacement == ReadOptional(at, ReadBytes(at + 1)) IN
    /\ pc = "replacement"
    /\ IF replacement = None
       THEN Fail
       ELSE /\ pc' = "path"
            /\ at' = replacement.at
            /\ read' = [read EXCEPT !.records = Append(@,
                 [path |-> draft.path, part |-> draft.part,
                  expected |-> draft.expected, replacement |-> replacement.value])]
            /\ left' = left - 1
            /\ draft' = << >>
            /\ UNCHANGED <<bundle, file>>

\* Mutant: bytes behind the last record are ignored.
FinishEarly ==
  /\ pc = "path" /\ left = 0
  /\ pc' = "ok"
  /\ UNCHANGED <<bundle, file, at, read, left, draft>>

Finish ==
  /\ pc = "path" /\ left = 0
  /\ pc' = IF at = Len(file) THEN "ok" ELSE "error"
  /\ UNCHANGED <<bundle, file, at, read, left, draft>>

Next ==
  \/ Write \/ WriteFails \/ Damage
  \/ ReadMagic \/ ReadOrigin \/ ReadCount
  \/ ReadKey \/ ReadExpected \/ ReadReplacement
  \/ Finish

Spec == Init /\ [][Next]_vars

-----------------------------------------------------------------------------
(* Properties *)

(* A patch that is accepted is one that create_patch writes, byte for byte: no byte of
   the file is without a meaning, and none is read twice.  So no part of a patch and
   no two patches glued together are a patch. *)
OnlyWritten == pc = "ok" => file = Written(read)

(* A patch that arrives as it was sent is accepted, and says what it said. *)
Understood ==
  file = Written(bundle) =>
    /\ pc # "error"
    /\ pc = "ok" => read = bundle

(* However the bytes were changed: at most one record speaks of a part of a module,
   so that the order of the records does not matter to build_replacements. *)
OneRecordEach == OneEach(read.records)

=============================================================================
