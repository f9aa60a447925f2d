------------------------------ MODULE MCRename ------------------------------
(***************************************************************************)
(* Instances of Rename for TLC: programs with up to three symbols in three    *)
(* scopes, one within the other or side by side.                            *)
(***************************************************************************)
EXTENDS Rename

CONSTANT Count    \* bound of the model: symbols of a program

X       == <<"x", 0>>
Exports == <<"exports", 0>>
AllNames   == {X, Exports, <<"var", 1>>, <<"var", 2>>, <<"import", 1>>}

AllSymbols ==
  [scope : Scopes, kind : {"var"}, name : AllNames \ {<<"import", 1>>}, preferred : {None}]
  \cup [scope : Scopes, kind : {"var"}, name : {X}, preferred : {Exports}]
  \cup [scope : {1}, kind : {"import"}, name : {X, <<"import", 1>>}, preferred : {None}]

(* One scope in the other, and two side by side. *)
Nestings == {[scope \in Scopes |-> IF scope = 1 THEN None ELSE scope - 1],
             [scope \in Scopes |-> IF scope = 1 THEN None ELSE 1]}

AllPrograms ==
  {[parent |-> parent, symbols |-> symbols] :
     parent \in Nestings,
     symbols \in {f \in [1 .. Count -> AllSymbols] :
                    \A s, t \in 1 .. Count :
                      s # t /\ f[s].scope = f[t].scope => f[s].name # f[t].name}}
=============================================================================
