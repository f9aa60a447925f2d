----------------------------- MODULE Standalone -----------------------------
(***************************************************************************)
(* A Bun standalone executable as debun sees it once inspect_executable    *)
(* has read it (src/src/standalone/): the record layout of its module      *)
(* table and the parts of each module.  Repack is repack_executable        *)
(* followed by the inspection of what it wrote, so that it maps executables *)
(* to executables: what the record layout has no field for is gone, and a   *)
(* part of length zero reads back as absent.                               *)
(*                                                                         *)
(* Byte strings are abstract values.  What a module carries besides its     *)
(* parts (name, loader, encoding, ...) is copied unchanged and left out, and *)
(* so are the offsets; of the container there is only how large a payload it *)
(* takes.                                                                   *)
(***************************************************************************)
EXTENDS Integers, FiniteSets

CONSTANTS
  BunFS,      \* the modules under the BunFS root: those unpack extracts
  Foreign,    \* the modules elsewhere: kept, never extracted
  Bytes,      \* byte strings of some length
  Length,     \* how long they are
  Empty,      \* the byte string of length zero
  None,       \* no such part (Option::None)
  Keep        \* RequiredReplacement::Keep, OptionalReplacement::Keep

Modules == BunFS \cup Foreign
Data    == Bytes \cup {Empty}

ASSUME SentinelsAssumption ==
  /\ BunFS \cap Foreign = {}
  /\ IsFiniteSet(Modules)
  /\ Empty \notin Bytes
  /\ Length \in [Bytes -> Nat \ {0}]
  /\ None \notin Data
  /\ Keep \notin Data \cup {None}

-----------------------------------------------------------------------------
(* Parts and record layouts *)

Part == {"contents", "sourcemap", "bytecode", "module_info"}

(* The parts a module record of each layout has a pointer for. *)
Stored ==
  [LegacyLoader   |-> {"contents", "sourcemap"},
   LegacyEncoding |-> {"contents", "sourcemap"},
   Compact        |-> {"contents", "sourcemap", "bytecode"},
   WithModuleInfo |-> Part,
   Extended       |-> Part]

Layout == {"LegacyLoader", "LegacyEncoding", "Compact", "WithModuleInfo", "Extended"}
Legacy == {"LegacyLoader", "LegacyEncoding"}

Parts == [Part -> Data \cup {None}]

(* What parsing a record of the layout can yield. *)
Parsed(layout) ==
  {parts \in Parts :
     /\ parts["contents"] # None
     /\ \A p \in Part \ {"contents"} :
          /\ parts[p] # Empty
          /\ parts[p] # None => p \in Stored[layout]}

(* The containers, by what they refuse: a signed PE file every payload, the others one
   that is beyond their room.  A write leaves the room as it is, but for an ELF file with
   bytes behind .bun that are not zero: its room is its section, and the next one ends
   where the payload ends. *)
Container == {"signed", "shrinking", "lasting"}

IsBinary(b) ==
  /\ b = [layout |-> b.layout, container |-> b.container, room |-> b.room, graph |-> b.graph]
  /\ b.layout \in Layout
  /\ b.container \in Container
  /\ b.room \in Nat
  /\ DOMAIN b.graph \subseteq Modules
  /\ b.graph \in [DOMAIN b.graph -> Parsed(b.layout)]

(* How many bytes the parts take up in a payload; what else is in it stays. *)
LengthOf(data) == IF data \in Bytes THEN Length[data] ELSE 0

Size(graph) ==
  Cardinality(UNION {{k} \X (1 .. LengthOf(graph[k[1]][k[2]])) : k \in (DOMAIN graph) \X Part})

(* Whether write_container takes a payload with these modules, and the room then. *)
Fits(b, graph) == b.container # "signed" /\ Size(graph) <= b.room

\* Mutant: every container is cut to the payload that is written.
RoomOfPayload(b, graph) == Size(graph)

RoomAfter(b, graph) == IF b.container = "shrinking" THEN Size(graph) ELSE b.room

(* bunfs_modules. *)
BunFSModules(b) == {m \in DOMAIN b.graph : m \in BunFS}

-----------------------------------------------------------------------------
(* Replacements: Keep, None to remove the part, or the bytes to put there *)

KeepAll == [p \in Part |-> Keep]

(* ResolvedModuleParts::new: a module without an entry keeps all its parts. *)
Resolved(b, replacements, m) ==
  LET wanted == IF m \in DOMAIN replacements THEN replacements[m] ELSE KeepAll IN
    [p \in Part |-> IF wanted[p] = Keep THEN b.graph[m][p] ELSE wanted[p]]

(* reject_unsupported_legacy_parts. *)
Unsupported(layout, parts) ==
  /\ layout \in Legacy
  /\ parts["bytecode"] # None \/ parts["module_info"] # None

\* Mutant: the pointers of bytecode and module info are pushed in the wrong order.
ReadBackSwapped(layout, parts) ==
  LET slot == [contents |-> "contents", sourcemap |-> "sourcemap",
               bytecode |-> "module_info", module_info |-> "bytecode"] IN
    [p \in Part |->
       IF p = "contents" THEN parts[p]
       ELSE IF p \notin Stored[layout] \/ parts[slot[p]] = Empty THEN None
       ELSE parts[slot[p]]]

(* What parse_payload reads from the record that serialize_payload wrote. *)
ReadBack(layout, parts) ==
  [p \in Part |->
     IF p = "contents" THEN parts[p]
     ELSE IF p \notin Stored[layout] \/ parts[p] = Empty THEN None
     ELSE parts[p]]

(* The modules as the inspection finds them in what was written. *)
Rewritten(b, replacements) ==
  [m \in DOMAIN b.graph |-> ReadBack(b.layout, Resolved(b, replacements, m))]

(* Err of serialize_payload and of write_container. *)
CanRepack(b, replacements) ==
  /\ Fits(b, Rewritten(b, replacements))
  /\ \A m \in DOMAIN b.graph : ~Unsupported(b.layout, Resolved(b, replacements, m))

(* repack_executable and the inspection of the result. *)
Repack(b, replacements) ==
  LET graph == Rewritten(b, replacements)
  IN [b EXCEPT !.graph = graph, !.room = RoomAfter(b, graph)]

(* pack_binary and apply_patch: without a replacement the bytes are copied. *)
CanRebuild(b, replacements) ==
  DOMAIN replacements = {} \/ CanRepack(b, replacements)

Rebuild(b, replacements) ==
  IF DOMAIN replacements = {} THEN b ELSE Repack(b, replacements)

=============================================================================
