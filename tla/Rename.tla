------------------------------- MODULE Rename -------------------------------
(***************************************************************************)
(* The renamer of debun, src/src/js/rename.rs: the symbols of a program get  *)
(* new names one after the other, and a new name is only compared with those *)
(* of the same scope.                                                       *)
(*                                                                         *)
(* A name is a pair of a word and an ordinal.  Generated names have an       *)
(* ordinal above zero, which stands for <module>_<word>_<ordinal>; the word   *)
(* is then the prefix of the kind of symbol.  Parsing, scopes and references  *)
(* are the oxc library's.                                                   *)
(***************************************************************************)
EXTENDS Naturals, Sequences

CONSTANTS
  None,      \* no name is preferred; no scope is around
  Scopes,    \* the scopes; an inner scope has a larger number
  Kinds,     \* prefixes of the kinds of symbols that occur
  Minified,  \* words that looks_minified recognises
  Names,     \* names that references in the program have
  Programs   \* the programs to start from

ASSUME ScopesAssumption == Scopes \subseteq Nat
ASSUME NamesAssumption  ==
  /\ Kinds \subseteq STRING
  /\ Names \subseteq STRING \X Nat
  /\ None \notin STRING \X Nat

VARIABLES
  program,   \* the program as it was parsed
  names,     \* the present name of each symbol (Scoping)
  next,      \* the symbol whose turn it is
  counters   \* RenameCounters

vars == <<program, names, next, counters>>

Generated(name) == name[2] > 0

(* What parsing yields: the names of a scope are distinct, and only exports and
   module are preferred. *)
IsProgram(p) ==
  /\ p.parent \in [Scopes -> Scopes \cup {None}]
  /\ p.symbols \in Seq([scope : Scopes, kind : Kinds, name : Names,
                        preferred : Names \cup {None}])
  /\ \A s, t \in 1 .. Len(p.symbols) :
       s # t /\ p.symbols[s].scope = p.symbols[t].scope => p.symbols[s].name # p.symbols[t].name
  /\ \A s \in 1 .. Len(p.symbols) :
       p.symbols[s].preferred # None => ~Generated(p.symbols[s].preferred)

ASSUME ProgramsAssumption == \A p \in Programs : IsProgram(p)

Symbols == 1 .. Len(program.symbols)

Symbol(s) == program.symbols[s]

Done == next > Len(program.symbols)

-----------------------------------------------------------------------------
(* rename_symbols *)

\* Mutant: names that an earlier run generated are left alone.
MinifiedOnly(name, kind) == name[1] \in Minified /\ ~Generated(name)

(* should_rename; a generated name is too long to look minified, and any name that
   looks generated counts as one. *)
ShouldRename(name, kind) ==
  \/ name[1] \in Minified /\ ~Generated(name)
  \/ Generated(name) /\ kind # "import"

\* Mutant: nothing is compared.
AlwaysAvailable(s, name) == TRUE

(* local_name_available. *)
Available(s, name) ==
  \A t \in Symbols \ {s} : Symbol(t).scope = Symbol(s).scope => names[t] # name

Init ==
  /\ program \in Programs
  /\ names = [s \in Symbols |-> Symbol(s).name]
  /\ next = 1
  /\ counters = [kind \in Kinds |-> 0]

(* continue, in rename_symbols. *)
Keep ==
  LET preferred == Symbol(next).preferred IN
    /\ ~Done
    /\ \/ preferred = names[next]
       \/ /\ preferred = None \/ ~Available(next, preferred)
          /\ ~ShouldRename(names[next], Symbol(next).kind)
    /\ next' = next + 1
    /\ UNCHANGED <<program, names, counters>>

TakePreferred ==
  LET preferred == Symbol(next).preferred IN
    /\ ~Done
    /\ preferred \notin {None, names[next]}
    /\ Available(next, preferred)
    /\ names' = [names EXCEPT ![next] = preferred]
    /\ next' = next + 1
    /\ UNCHANGED <<program, counters>>

\* Mutant: the counter only advances when its name is taken.
AdvanceIfTaken(kind, name) ==
  counters' = IF Available(next, name) THEN [counters EXCEPT ![kind] = name[2]] ELSE counters

(* RenameCounters::next. *)
Advance(kind, name) == counters' = [counters EXCEPT ![kind] = name[2]]

(* One turn of the loop in next_name. *)
TryGenerated ==
  LET preferred == Symbol(next).preferred
      kind      == Symbol(next).kind
      name      == <<kind, counters[kind] + 1>>
  IN
    /\ ~Done
    /\ preferred = None \/ (preferred # names[next] /\ ~Available(next, preferred))
    /\ ShouldRename(names[next], kind)
    /\ Advance(kind, name)
    /\ IF Available(next, name)
       THEN names' = [names EXCEPT ![next] = name] /\ next' = next + 1
       ELSE UNCHANGED <<names, next>>
    /\ UNCHANGED program

Next == Keep \/ TakePreferred \/ TryGenerated

Spec == Init /\ [][Next]_vars /\ WF_vars(Next)

-----------------------------------------------------------------------------
(* What a name means in a scope *)

(* The scope and those around it. *)
Around ==
  LET around[scope \in Scopes] ==
        {scope} \cup (IF program.parent[scope] = None THEN {}
                      ELSE around[program.parent[scope]])
  IN around

Original == [s \in Symbols |-> Symbol(s).name]

Declares(given, scope, name) ==
  {s \in Symbols : Symbol(s).scope \in Around[scope] /\ given[s] = name}

(* In the scope, the name of the symbol means the symbol: no scope between has it. *)
Sees(given, scope, s) ==
  /\ s \in Declares(given, scope, given[s])
  /\ \A t \in Declares(given, scope, given[s]) : Symbol(t).scope <= Symbol(s).scope

-----------------------------------------------------------------------------
(* Properties *)

TypeOK ==
  /\ IsProgram(program)
  /\ names \in [Symbols -> Names \cup (Kinds \X Nat)]
  /\ next \in 1 .. Len(program.symbols) + 1
  /\ counters \in [Kinds -> Nat]

(* At no time do two symbols of a scope have one name: the map of a scope's bindings
   would lose one of them. *)
ScopesDistinct ==
  \A s, t \in Symbols :
    s # t /\ Symbol(s).scope = Symbol(t).scope => names[s] # names[t]

(* Names that are given or left to a symbol whatever other scopes hold: the ones that
   are preferred, and those of imports. *)
Exposed(name) ==
  \E s \in Symbols :
    name = Symbol(s).preferred \/ (Symbol(s).kind = "import" /\ name = names[s])

(* When all is done, the new name of a symbol means the symbol wherever its old one
   did, and a name that meant nothing still does, although new names are only
   compared within a scope: a name that an inner or outer scope already had is itself
   renamed. *)
BindingsKept ==
  Done =>
    \A scope \in Scopes :
      /\ \A s \in Symbols :
           Sees(Original, scope, s) /\ ~Exposed(names[s]) => Sees(names, scope, s)
      /\ \A name \in Names :
           /\ ~Generated(name) /\ ~Exposed(name)
           /\ Declares(Original, scope, name) = {}
           => Declares(names, scope, name) = {}

(* The search for a free name ends, for every symbol. *)
Finishes == <>Done
=============================================================================
