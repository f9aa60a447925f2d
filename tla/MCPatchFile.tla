---------------------------- MODULE MCPatchFile ----------------------------
(***************************************************************************)
(* Instances of PatchFile for TLC: bytes with five values, lengths of one byte, *)
(* so that there are lengths that do not fit, and bundles of up to two records. *)
(***************************************************************************)
EXTENDS PatchFile

Header == <<3>>

(* 4 is a byte that is not text. *)
Paths == {<<1>>, <<1, 0>>}
Contents == {None, << >>, <<4>>, <<1, 0, 4, 1>>, <<0, 0, 0, 0, 0>>}

Records ==
  [path : Paths, part : {Part[1], Part[4]}, expected : {None, <<1>>}, replacement : Contents]

AllBundles ==
  {[origin |-> origin, records |-> records] :
     origin \in {None, <<2>>},
     records \in {<< >>}
       \cup {<<r>> : r \in Records}
       \cup {<<r, s>> : r \in {t \in Records : t.expected = None /\ t.path = <<1>>},
                        s \in {t \in Records : t.expected = <<1>>}}}

(* create_patch makes at most one record for a part. *)
Sendable ==
  {b \in AllBundles : Len(b.records) = 2 =>
     <<b.records[1].path, b.records[1].part>> # <<b.records[2].path, b.records[2].part>>}
=============================================================================
