----------------------------- MODULE MCSidecars -----------------------------
(***************************************************************************)
(* Instances of Sidecars for TLC: bytes with ten values, so that one of them is  *)
(* no kind of record and one no text, and numbers of two bytes.  What replaces the *)
(* latter is longer.                                                           *)
(***************************************************************************)
EXTENDS Sidecars

Substitute == <<7, 7, 7>>

Name == {<< >>, <<1>>, <<1, 2>>, StarDefault, StarNamespace}

RecordOf(kind, name) ==
  [kind  |-> kind,
   names |-> [i \in 1 .. Arity[KindByte(kind) + 1] |-> IF i = 1 THEN name ELSE <<i>>]]

RecordsOf == {<< >>}
  \cup {<<RecordOf(kind, name)>> : kind \in Range(Kinds), name \in Name}
  \cup {<<RecordOf(first, <<1, 2>>), RecordOf(second, StarDefault), RecordOf("star", <<5>>)>> :
          first \in Range(Kinds), second \in {"local"}}

Requests ==
  {<< >>} \cup {<<[module |-> <<1>>, attributes |-> attributes]>> :
                  attributes \in {JavaScript, WebAssembly, <<5>>}}
          \cup {<<[module |-> <<5>>, attributes |-> Json], [module |-> <<1, 2>>, attributes |-> None]>>}

AllInfos ==
  {[records |-> records, requested |-> requested, flags |-> flags] :
     records \in RecordsOf, requested \in Requests, flags \in {3}}

Sources == [name : {<< >>, <<Frame, 1>>}, size : {0, 1, Limit}]

AllMaps ==
  {[sources |-> sources, mappings |-> mappings] :
     sources \in {<< >>} \cup {<<s>> : s \in Sources} \cup {<<s, t>> : s, t \in Sources},
     mappings \in {<< >>, <<3>>}}
=============================================================================
