---------------------------- MODULE MCPackPatch ----------------------------
(***************************************************************************)
(* Instances of PackPatch for TLC: two modules under the BunFS root, one    *)
(* elsewhere, two byte strings one of which decodes.                       *)
(***************************************************************************)
EXTENDS PackPatch, TLC

CONSTANTS main, lib, native, x, y

Graph(c, s, b, i) ==
  [p \in Part |-> IF p = "contents" THEN c
                  ELSE IF p = "sourcemap" THEN s
                  ELSE IF p = "bytecode" THEN b ELSE i]

Plain(c) == Graph(c, None, None, None)

(* A release with all parts; the next one, with another main module and an ELF file that
   loses its room; ... *)
First ==
  [layout |-> "Extended", container |-> "lasting", room |-> 9,
   graph |-> (main :> Graph(x, x, None, y)) @@ (lib :> Plain(Empty)) @@ (native :> Plain(y))]

Second ==
  [layout |-> "WithModuleInfo", container |-> "shrinking", room |-> 6,
   graph |-> (main :> Graph(y, x, None, y)) @@ (lib :> Plain(Empty))]

(* ... one built by a Bun without module_info, one by a Bun without bytecode, in which
   there is little room, and one that is signed. *)
Older ==
  [layout |-> "Compact", container |-> "lasting", room |-> 9,
   graph |-> (main :> Graph(x, x, y, None))]

Oldest ==
  [layout |-> "LegacyLoader", container |-> "lasting", room |-> 3,
   graph |-> (main :> Graph(x, x, None, None)) @@ (lib :> Plain(Empty))]

Signed == [First EXCEPT !.container = "signed"]

MCLength == (x :> 1) @@ (y :> 2)

AllReleases == {First, Second, Older, Oldest, Signed}
=============================================================================
