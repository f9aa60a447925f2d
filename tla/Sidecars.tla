------------------------------ MODULE Sidecars ------------------------------
(***************************************************************************)
(* The sidecars that Bun stores next to a module, and what debun makes of them: *)
(* src/src/standalone_decode.  module_info lists what a module declares, imports *)
(* and exports; a serialized sourcemap has its sources in compressed frames.     *)
(*                                                                         *)
(* A sidecar reaches the decoder as Bun wrote it, or after it was damaged or     *)
(* edited in a workspace and packed again.  Bun's writers are external.          *)
(***************************************************************************)
EXTENDS ByteWords, SequencesExt

CONSTANTS
  StarDefault, StarNamespace,     \* names that are not in the string table
  JavaScript, WebAssembly, Json,  \* import attributes that are not in it either
  Frame,       \* the byte that begins a compressed frame
  Replacement, \* the bytes of the character that stands for what is no text (U+FFFD)
  Limit,       \* MAX_DECOMPRESSED_SOURCE_BYTES
  Infos,       \* what Bun records about modules
  Maps,        \* sourcemaps, with no source beyond the limit
  Unread       \* not decoded yet

VARIABLES
  recorded,    \* what Bun recorded
  sidecar,     \* the bytes of the sidecar
  damaged,     \* whether it was changed since
  view         \* what the decoder made of it: Unread, and None if it was refused

SidecarVars == <<recorded, sidecar, damaged, view>>

Words(bytes) ==
  [k \in 1 .. Len(bytes) \div WordSize |->
     Number(SubSeq(bytes, (k - 1) * WordSize + 1, k * WordSize))]

Flat(words) == FlattenSeq([k \in DOMAIN words |-> Word(words[k])])

(* Where the k-th of some pieces begins that lie one behind the other. *)
Start(lengths, k) ==
  LET sum[i \in 0 .. Len(lengths)] == IF i = 0 THEN 0 ELSE sum[i - 1] + lengths[i]
  IN sum[k - 1]

Total(lengths) == Start(lengths, Len(lengths) + 1)

Pieces(sequence, lengths) ==
  [k \in DOMAIN lengths |->
     SubSeq(sequence, Start(lengths, k) + 1, Start(lengths, k + 1))]

(* String::from_utf8_lossy: what is no text is replaced, and may grow by that. *)
Lossy(bytes) ==
  FlattenSeq([k \in DOMAIN bytes |-> IF bytes[k] \in Utf8 THEN <<bytes[k]>> ELSE Replacement])

-----------------------------------------------------------------------------
(* module_info *)

Kinds == <<"declared", "lexical", "import", "import type", "import namespace",
           "indirect", "local", "namespace", "star">>

(* ModuleInfoRecordKind::width, and how many of the words are names. *)
Width == <<1, 1, 3, 3, 3, 3, 3, 2, 1>>
Arity == <<1, 1, 3, 3, 3, 3, 2, 2, 1>>

KindByte(kind) == (CHOOSE k \in DOMAIN Kinds : Kinds[k] = kind) - 1

\* Mutant: kinds that need no padding get some.
PaddingAlways(n) == WordSize - (n % WordSize)

(* The kinds are padded to whole words. *)
Padding(n) == (WordSize - (n % WordSize)) % WordSize

Zeros(n) == [k \in 1 .. n |-> 0]

(* Bun's writer: an id for every string, numbers that are no ids for the others. *)
InfoStrings(info) ==
  SetToSeq((UNION ({Range(info.records[k].names) : k \in DOMAIN info.records}
                   \cup {{r.module, r.attributes} : r \in Range(info.requested)}))
           \ {StarDefault, StarNamespace, None, JavaScript, WebAssembly, Json})

Id(strings, value) ==
  CASE value \in {StarDefault, None}         -> MaxWord
    [] value \in {StarNamespace, JavaScript} -> MaxWord - 1
    [] value = WebAssembly                   -> MaxWord - 2
    [] value = Json                          -> MaxWord - 3
    [] OTHER -> (CHOOSE k \in DOMAIN strings : strings[k] = value) - 1

InfoBytes(info) ==
  LET strings == InfoStrings(info)
      kinds   == [k \in DOMAIN info.records |-> KindByte(info.records[k].kind)]
      words(r) == [k \in 1 .. Width[KindByte(r.kind) + 1] |->
                     IF k \in DOMAIN r.names THEN Id(strings, r.names[k]) ELSE 0]
      buffer  == FlattenSeq([k \in DOMAIN info.records |-> words(info.records[k])])
      keys    == [k \in DOMAIN info.requested |-> Id(strings, info.requested[k].module)]
      values  == [k \in DOMAIN info.requested |-> Id(strings, info.requested[k].attributes)]
  IN
    FlattenSeq(<<
      Word(Len(kinds)), kinds, Zeros((-Len(kinds)) % WordSize),
      Word(Len(FlattenSeq(strings))), FlattenSeq(strings),
      Word(Len(strings)), Flat([k \in DOMAIN strings |-> Len(strings[k])]),
      Word(Len(buffer)), Flat(buffer),
      Word(Len(keys)), Flat(keys \o values),
      <<info.flags>> \o Zeros(WordSize - 1)>>)

(* resolve_string_id: None if there is no such string. *)
Resolve(id, strings) ==
  CASE id = MaxWord     -> StarDefault
    [] id = MaxWord - 1 -> StarNamespace
    [] id < Len(strings) -> strings[id + 1]
    [] OTHER -> None

(* decode_fetch_parameters, of a value that is no string. *)
Attribute(value) ==
  CASE value = MaxWord     -> None
    [] value = MaxWord - 1 -> JavaScript
    [] value = MaxWord - 2 -> WebAssembly
    [] value = MaxWord - 3 -> Json

(* decode_requested_modules and decode_records: None when a number is no id. *)
Meaning(kinds, buffer, keys, values, strings, flags) ==
  LET pieces == Pieces(buffer, [k \in DOMAIN kinds |-> Width[kinds[k] + 1]])
      ids    == [k \in DOMAIN kinds |-> SubSeq(pieces[k], 1, Arity[kinds[k] + 1])]
      known(id) == Resolve(id, strings) # None
  IN
    IF /\ \A k \in DOMAIN ids : \A i \in DOMAIN ids[k] : known(ids[k][i])
       /\ \A k \in DOMAIN keys : known(keys[k]) /\ (values[k] <= MaxWord - 4 => known(values[k]))
    THEN [records   |-> [k \in DOMAIN kinds |->
                           [kind  |-> Kinds[kinds[k] + 1],
                            names |-> [i \in DOMAIN ids[k] |-> Resolve(ids[k][i], strings)]]],
          requested |-> [k \in DOMAIN keys |->
                           [module     |-> Resolve(keys[k], strings),
                            attributes |-> IF values[k] > MaxWord - 4 THEN Attribute(values[k])
                                           ELSE Resolve(values[k], strings)]],
          flags     |-> flags % 4]
    ELSE None

\* Mutant: bytes behind the last field are not looked at.
AtEndLoose(bytes, flags) == TRUE

AtEnd(bytes, flags) == flags.at = Len(bytes)

(* decode_module_info. *)
DecodeInfo(bytes) ==
  LET from(before, padding, size) ==
        IF before = None THEN None ELSE TakeCounted(bytes, before.at + padding, size)
      kinds     == TakeCounted(bytes, 0, 1)
      text      == from(kinds, Padding(Len(kinds.value)), 1)
      lengths   == from(text, 0, WordSize)
      buffer    == from(lengths, 0, WordSize)
      requested == from(buffer, 0, 2 * WordSize)
      flags     == IF requested = None THEN None ELSE Take(bytes, requested.at, WordSize)
      pairs     == Words(requested.value)
      half      == Len(pairs) \div 2
      names     == Pieces(text.value, Words(lengths.value))
  IN
    IF flags = None THEN None
    ELSE IF /\ AtEnd(bytes, flags)
            /\ \A k \in DOMAIN kinds.value : kinds.value[k] < Len(Kinds)
            /\ Total(Words(lengths.value)) = Len(text.value)
            /\ Total([k \in DOMAIN kinds.value |-> Width[kinds.value[k] + 1]])
                 = Len(Words(buffer.value))
    THEN Meaning(kinds.value, Words(buffer.value), SubSeq(pairs, 1, half),
                 SubSeq(pairs, half + 1, 2 * half),
                 [k \in DOMAIN names |-> Lossy(names[k])], flags.value[1])
    ELSE None

-----------------------------------------------------------------------------
(* Serialized sourcemaps.  A source is as good as its size: its frame says how many
   bytes it unfolds to.  The text that from_utf8_lossy then makes of these bytes is not
   modelled: it is the same if they are text, and up to three times larger if not. *)

(* Bun's writer: numbers, pointers to the names, pointers to the frames, mappings, and
   the names and frames themselves. *)
MapBytes(map) ==
  LET n       == Len(map.sources)
      texts   == [k \in 1 .. 2 * n |->
                    IF k <= n THEN map.sources[k].name ELSE <<Frame, map.sources[k - n].size>>]
      lengths == [k \in 1 .. 2 * n |-> Len(texts[k])]
      first   == 2 * WordSize + 4 * WordSize * n + Len(map.mappings)
  IN
    FlattenSeq(<<
      Word(n), Word(Len(map.mappings)),
      FlattenSeq([k \in 1 .. 2 * n |-> Word(first + Start(lengths, k)) \o Word(lengths[k])]),
      map.mappings, FlattenSeq(texts)>>)

\* Mutant: there is no limit.
DecompressAll(bytes) ==
  IF Len(bytes) < 2 \/ bytes[1] # Frame THEN None ELSE bytes[2]

(* decompress_zstd_frame: how many bytes there are; None if this is no frame, or if
   there are more than the limit. *)
Decompress(bytes) ==
  IF Len(bytes) < 2 \/ bytes[1] # Frame \/ bytes[2] > Limit THEN None ELSE bytes[2]

(* decode_serialized_sourcemap.  A pointer may point anywhere. *)
DecodeMap(bytes) ==
  LET header   == Take(bytes, 0, 2 * WordSize)
      n        == Words(header.value)[1]
      table    == Take(bytes, header.at, 4 * WordSize * n)
      mappings == Take(bytes, table.at, Words(header.value)[2])
      pointer  == Words(table.value)
      text(k)  == Take(bytes, pointer[2 * k - 1], pointer[2 * k])
  IN
    IF header = None THEN None
    ELSE IF table = None THEN None
    ELSE IF mappings = None \/ \E k \in 1 .. 2 * n : text(k) = None THEN None
    ELSE IF \E k \in n + 1 .. 2 * n : Decompress(text(k).value) = None THEN None
    ELSE [sources  |-> [k \in 1 .. n |->
                          [name |-> Lossy(text(k).value), size |-> Decompress(text(n + k).value)]],
          mappings |-> Lossy(mappings.value)]

-----------------------------------------------------------------------------
(* What Bun records *)

(* Bun's strings are text. *)
Text == Seq(Utf8)

InfoRecord == [kind : Range(Kinds), names : Seq(Text \cup {StarDefault, StarNamespace})]

Request == [module     : Text \cup {StarDefault, StarNamespace},
            attributes : Text \cup {None, JavaScript, WebAssembly, Json}]

(* A sidecar is no larger than a number in it can be. *)
Recordable(info) ==
  /\ info \in [records : Seq(InfoRecord), requested : Seq(Request), flags : 0 .. 3]
  /\ \A k \in DOMAIN info.records :
       Len(info.records[k].names) = Arity[KindByte(info.records[k].kind) + 1]
  /\ Len(InfoBytes(info)) <= MaxWord

Mappable(map) ==
  /\ map \in [sources : Seq([name : Text, size : Byte \cap 0 .. Limit]), mappings : Text]
  /\ Len(MapBytes(map)) <= MaxWord

(* What is no text, and is not mistaken for another. *)
Special == <<None, StarDefault, StarNamespace, JavaScript, WebAssembly, Json>>

WellFormed ==
  /\ Radix > Len(Kinds) /\ Frame \in Byte /\ Limit \in Nat
  /\ IsInjective(Special) /\ Range(Special) \cap Seq(Byte) = {}
  /\ None \notin Byte /\ None \notin [value : Seq(Byte), at : Nat]
  /\ Replacement \in Text
  /\ \A info \in Infos : Recordable(info)
  /\ \A map \in Maps : Mappable(map)

ASSUME SidecarsAssumption == WellFormed

-----------------------------------------------------------------------------

IsInfo == recorded \in Infos

SidecarInit ==
  /\ recorded \in Infos \cup Maps
  /\ sidecar = IF IsInfo THEN InfoBytes(recorded) ELSE MapBytes(recorded)
  /\ damaged = FALSE
  /\ view = Unread

DamageSidecar ==
  /\ ~damaged /\ view = Unread
  /\ damaged' = TRUE
  /\ \/ \E n \in 0 .. Len(sidecar) - 1 : sidecar' = SubSeq(sidecar, 1, n)
     \/ \E b \in Byte : sidecar' = Append(sidecar, b)
     \/ \E k \in DOMAIN sidecar, b \in Byte : sidecar' = [sidecar EXCEPT ![k] = b]
  /\ UNCHANGED <<recorded, view>>

Decode ==
  /\ view = Unread
  /\ view' = IF IsInfo THEN DecodeInfo(sidecar) ELSE DecodeMap(sidecar)
  /\ UNCHANGED <<recorded, sidecar, damaged>>

SidecarNext == DamageSidecar \/ Decode

SidecarSpec == SidecarInit /\ [][SidecarNext]_SidecarVars

-----------------------------------------------------------------------------
(* Properties *)

(* What Bun recorded is what the decoders show, name by name; the sources of Maps are
   within the limit. *)
ShowsRecorded == ~damaged /\ view # Unread => view = recorded

(* A module_info of which a part is missing, or to which something was added, is never
   shown: each byte of it belongs to exactly one field. *)
NoPartShown ==
  IsInfo /\ view \notin {Unread, None} =>
    \A n \in 0 .. Len(sidecar) - 1 : DecodeInfo(SubSeq(sidecar, 1, n)) = None

(* README: "Zstd source content is limited to 512 MiB per source".  Whatever the bytes
   say, no source unfolds to more, and a sidecar to no more than the limit for every
   pair of pointers that it has room for.  This is said of the bytes that zstd yields:
   the text made of them may be larger, if they are none. *)
UnfoldsToLimit ==
  ~IsInfo /\ view \notin {Unread, None} =>
    /\ \A k \in DOMAIN view.sources : view.sources[k].size <= Limit
    /\ Total([k \in DOMAIN view.sources |-> view.sources[k].size])
       <= Limit * (Len(sidecar) \div (4 * WordSize))

=============================================================================
