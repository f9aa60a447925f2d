----------------------------- MODULE MCPayload -----------------------------
(***************************************************************************)
(* Instances of Payload for TLC: two modules in every kind of container, and  *)
(* as many modules as it takes for the table to have the size of a table of   *)
(* another record layout.                                                   *)
(***************************************************************************)
EXTENDS Payload

(* Names are told apart by their length. *)
Name(first, i) == <<first>> \o [k \in 1 .. i |-> Letter]

AllNames == {Name(first, i) : first \in Text, i \in 1 .. 13}

Long == <<Control, Binary>> \o [k \in 1 .. 28 |-> Letter]

AllValues == {<< >>, <<Letter>>, <<Root, Letter>>, Long}

OnePart(p, value) == [q \in Part |-> IF q = p THEN value ELSE Keep]

(* The first module is edited.  Contents cannot be removed; some are only ever put
   there together with bytecode. *)
AllReplacements ==
  LET edit(p, value) == [n \in {Name(Root, 1)} |-> OnePart(p, value)] IN
    {edit("contents", value) : value \in {<< >>, Long}}
    \cup {edit("sourcemap", value) : value \in {None, << >>, <<Root, Letter>>}}
    \cup {edit(p, value) : p \in {"bytecode", "module_info"}, value \in {None, <<Root, Letter>>}}
    \cup {[n \in {Name(Root, 1)} |->
            [OnePart("contents", <<Root, Letter>>) EXCEPT !["bytecode"] = <<Root, Letter>>]]}

(* first: how the names but the first begin; map: the sidecars and origins. *)
Graphs ==
  [layout : Range(RecordLayouts), offsets : Range(OffsetsLayouts),
   count : {2} \cup {RecordSize(RecordLayouts[i]) : i \in 1 .. 5},
   first : Text, map : {None, <<Root, Letter>>}, argv : {None, <<Letter>>}]

(* The byte 1 stands for any other than zero; it is zero in the large tables, where
   that makes the most pointers that fit. *)
ModuleOf(s, i) ==
  LET one == IF s.count = 2 THEN 1 ELSE 0 IN
    [name        |-> Name(IF i = 1 THEN Root ELSE s.first, i),
     contents    |-> <<Letter>>,
     sourcemap   |-> s.map,
     bytecode    |-> IF s.layout \in Legacy THEN None ELSE s.map,
     module_info |-> IF s.layout \in Legacy \cup {"Compact"} THEN None ELSE s.map,
     origin      |-> IF s.layout = "Extended" THEN s.map ELSE None,
     loader      |-> one,
     encoding    |-> IF s.layout = "LegacyLoader" THEN 0 ELSE one,
     format      |-> 0,
     side        |-> IF s.layout \in Legacy THEN 0 ELSE one]

GraphOf(s) ==
  [offsets |-> s.offsets, layout |-> s.layout, entry |-> s.count - 1,
   modules |-> [i \in 1 .. s.count |-> ModuleOf(s, i)],
   argv |-> s.argv, flags |-> IF s.offsets = "Legacy" THEN 0 ELSE 3]

RoomFor(g) == Len(Serialize(g)) + 4

Containers(g) ==
  {[kind |-> "Appended", prefix |-> <<Binary, 4>>], [kind |-> "Elf", width |-> 2, room |-> 0]}
  \cup {[kind |-> kind, width |-> 1, room |-> RoomFor(g)] : kind \in {"Pe64", "MachO32"}}

AllInputs ==
  LET small == {s \in Graphs : s.count = 2 /\ s.first = Root /\
                               (s.offsets = "Legacy" => s.argv = None)}
      large == {s \in Graphs : s.count > 2 /\ s.argv = None /\ s.map = None /\
                               s.offsets = "WithCompileArgv"}
  IN
    UNION {[graph : {GraphOf(s)}, container : Containers(GraphOf(s))] : s \in small}
    \cup {[graph |-> GraphOf(s), container |-> [kind |-> "Elf", width |-> 2, room |-> 0]] :
             s \in large}
=============================================================================
