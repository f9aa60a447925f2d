---------------------------- MODULE RenameProofs ----------------------------
(***************************************************************************)
(* Proofs about Rename, for any programs and any number of symbols.          *)
(*                                                                         *)
(* That bindings are kept is a statement about the end of a run.  The        *)
(* inductive invariant says what is known of the symbols whose turn is over: *)
(* a name that looks generated is one that this run has counted, and has     *)
(* given once.                                                             *)
(***************************************************************************)
EXTENDS Rename, TLAPS

(* A symbol whose turn is still to come has the name it was parsed with. *)
Untouched == \A s \in Symbols : s >= next => names[s] = Symbol(s).name

(* A name that does not look generated was there before, or is preferred. *)
KeptOrPreferred ==
  \A s \in Symbols :
    ~Generated(names[s]) => names[s] = Symbol(s).name \/ names[s] = Symbol(s).preferred

Turned == {s \in Symbols : s < next /\ Symbol(s).kind # "import" /\ Generated(names[s])}

Counted ==
  \A s \in Turned :
    names[s][1] = Symbol(s).kind /\ names[s][2] <= counters[Symbol(s).kind]

GivenOnce == \A s, t \in Turned : s # t => names[s] # names[t]

IInv ==
  /\ TypeOK
  /\ ScopesDistinct
  /\ Untouched
  /\ KeptOrPreferred
  /\ Counted
  /\ GivenOnce

-----------------------------------------------------------------------------

LEMMA SymbolType ==
  ASSUME IsProgram(program), NEW s \in Symbols
  PROVE  /\ Symbol(s) \in [scope : Scopes, kind : Kinds, name : Names,
                           preferred : Names \cup {None}]
         /\ Symbol(s).scope \in Scopes
         /\ Symbol(s).kind \in Kinds
         /\ Symbol(s).name \in Names
         /\ Symbol(s).preferred \in Names \cup {None}
         /\ Symbol(s).preferred # None => ~Generated(Symbol(s).preferred)
<1> DEFINE Record == [scope : Scopes, kind : Kinds, name : Names,
                      preferred : Names \cup {None}]
<1>1. program.symbols \in Seq(Record)
  BY DEF IsProgram
<1>2. program.symbols[s] \in Record
  <2> HIDE DEF Record
  <2> QED
    BY <1>1 DEF Symbols
<1> QED
  BY <1>2 DEF IsProgram, Symbols, Symbol

LEMMA LengthType ==
  ASSUME IsProgram(program)
  PROVE  Len(program.symbols) \in Nat
  BY DEF IsProgram

(* Every name is a pair. *)
LEMMA NameType ==
  ASSUME TypeOK, NEW s \in Symbols
  PROVE  names[s] \in STRING \X Nat
  BY NamesAssumption DEF TypeOK

LEMMA Initially == Init => IInv
<1> SUFFICES ASSUME Init PROVE IInv
  OBVIOUS
<1>1. IsProgram(program)
  BY ProgramsAssumption DEF Init
<1>2. TypeOK
  <2>1. Len(program.symbols) \in Nat
    BY <1>1, LengthType
  <2>2. names \in [Symbols -> Names \cup (Kinds \X Nat)]
    BY <1>1, SymbolType DEF Init
  <2>3. next \in 1 .. Len(program.symbols) + 1
    BY <2>1 DEF Init
  <2> QED
    BY <1>1, <2>2, <2>3 DEF Init, TypeOK
<1>3. ScopesDistinct
  BY <1>1 DEF Init, ScopesDistinct, IsProgram, Symbols, Symbol
<1>4. Turned = {}
  BY DEF Init, Turned, Symbols
<1> QED
  BY <1>2, <1>3, <1>4 DEF Init, IInv, Untouched, KeptOrPreferred, Counted, GivenOnce

-----------------------------------------------------------------------------
(* Steps *)

(* The turn goes to the next symbol. *)
LEMMA TurnType ==
  ASSUME TypeOK, ~Done
  PROVE  /\ next \in Symbols
         /\ next + 1 \in 1 .. Len(program.symbols) + 1
<1>1. Len(program.symbols) \in Nat
  BY LengthType DEF TypeOK
<1> QED
  BY <1>1 DEF TypeOK, Done, Symbols

(* A symbol that keeps its name at its turn is an import, or its name does not look
   generated. *)
LEMMA KeptName ==
  ASSUME TypeOK, Keep
  PROVE  Symbol(next).kind = "import" \/ ~Generated(names[next])
<1>1. next \in Symbols
  BY TurnType DEF Keep
<1>2. CASE Symbol(next).preferred = names[next]
  <2>1. names[next] # None
    BY <1>1, NamesAssumption, NameType, SymbolType DEF TypeOK
  <2> QED
    BY <1>1, <1>2, <2>1, SymbolType DEF TypeOK
<1>3. CASE ~ShouldRename(names[next], Symbol(next).kind)
  BY <1>3 DEF ShouldRename
<1> QED
  BY <1>2, <1>3 DEF Keep

(* Keep gives no name. *)
LEMMA KeepStep == IInv /\ Keep => IInv'
<1> SUFFICES ASSUME IInv, Keep PROVE IInv'
  OBVIOUS
<1> USE DEF IInv
<1>1. /\ next \in Symbols
      /\ next + 1 \in 1 .. Len(program.symbols) + 1
  BY TurnType DEF Keep
<1>2. next \in Nat /\ Symbols \subseteq Nat
  BY <1>1 DEF Symbols
<1>3. TypeOK'
  BY <1>1 DEF Keep, TypeOK, Symbols, Symbol
<1>4. ScopesDistinct' /\ KeptOrPreferred'
  BY DEF Keep, ScopesDistinct, KeptOrPreferred, Symbols, Symbol
<1>5. Untouched'
  BY <1>2 DEF Keep, Untouched, Symbols, Symbol
<1>6. Turned' \subseteq Turned
  BY <1>2, KeptName DEF Keep, Turned, Symbols, Symbol
<1>7. Counted' /\ GivenOnce'
  BY <1>6 DEF Keep, Counted, GivenOnce, Symbols, Symbol
<1> QED
  BY <1>3, <1>4, <1>5, <1>7

(* A name given at the turn of a symbol that was available keeps a scope's names
   distinct. *)
LEMMA GivenAvailable ==
  ASSUME IInv, next \in Symbols, NEW name, Available(next, name),
         program' = program, names' = [names EXCEPT ![next] = name]
  PROVE  ScopesDistinct'
<1>1. \A s \in Symbols : names'[s] = IF s = next THEN name ELSE names[s]
  BY DEF IInv, TypeOK
<1> QED
  BY <1>1 DEF IInv, ScopesDistinct, Available, Symbols, Symbol

LEMMA TakePreferredStep == IInv /\ TakePreferred => IInv'
<1> SUFFICES ASSUME IInv, TakePreferred PROVE IInv'
  OBVIOUS
<1> USE DEF IInv
<1> DEFINE preferred == Symbol(next).preferred
<1>1. /\ next \in Symbols
      /\ next + 1 \in 1 .. Len(program.symbols) + 1
  BY TurnType DEF TakePreferred
<1>2. next \in Nat /\ Symbols \subseteq Nat
  BY <1>1 DEF Symbols
<1>3. preferred \in Names /\ ~Generated(preferred)
  BY <1>1, SymbolType DEF TakePreferred, TypeOK
<1>4. \A s \in Symbols : names'[s] = IF s = next THEN preferred ELSE names[s]
  BY DEF TakePreferred, TypeOK
<1>5. TypeOK'
  BY <1>1, <1>3 DEF TakePreferred, TypeOK, Symbols, Symbol
<1>6. ScopesDistinct'
  BY <1>1, GivenAvailable DEF TakePreferred
<1>7. Untouched'
  BY <1>2, <1>4 DEF TakePreferred, Untouched, Symbols, Symbol
<1>8. KeptOrPreferred'
  BY <1>4 DEF TakePreferred, KeptOrPreferred, Symbols, Symbol
<1>9. Turned' \subseteq Turned /\ next \notin Turned'
  BY <1>1, <1>2, <1>3, <1>4 DEF TakePreferred, Turned, Symbols, Symbol
<1>10. Counted' /\ GivenOnce'
  BY <1>4, <1>9 DEF TakePreferred, Counted, GivenOnce, Turned, Symbols, Symbol
<1> QED
  BY <1>5, <1>6, <1>7, <1>8, <1>10

LEMMA TryGeneratedStep == IInv /\ TryGenerated => IInv'
<1> SUFFICES ASSUME IInv, TryGenerated PROVE IInv'
  OBVIOUS
<1> USE DEF IInv
<1> DEFINE kind == Symbol(next).kind
           name == <<kind, counters[kind] + 1>>
<1>1. /\ next \in Symbols
      /\ next + 1 \in 1 .. Len(program.symbols) + 1
  BY TurnType DEF TryGenerated
<1>2. next \in Nat /\ Symbols \subseteq Nat
  BY <1>1 DEF Symbols
<1>3. kind \in Kinds /\ counters[kind] \in Nat
  BY <1>1, SymbolType DEF TypeOK
<1>4. name \in Kinds \X Nat /\ name[1] = kind /\ name[2] = counters[kind] + 1
  BY <1>3
<1>5. /\ program' = program
      /\ counters' = [counters EXCEPT ![kind] = counters[kind] + 1]
  BY <1>4 DEF TryGenerated, Advance
<1>6. counters' \in [Kinds -> Nat] /\ \A k \in Kinds : counters[k] <= counters'[k]
  BY <1>3, <1>5 DEF TypeOK
<1>7. counters'[kind] = counters[kind] + 1
  BY <1>3, <1>5 DEF TypeOK
<1>8. CASE Available(next, name)
  <2>1. /\ names' = [names EXCEPT ![next] = name]
        /\ next' = next + 1
    BY <1>8 DEF TryGenerated
  <2>2. \A s \in Symbols : names'[s] = IF s = next THEN name ELSE names[s]
    BY <2>1 DEF TypeOK
  <2>3. TypeOK'
    BY <1>1, <1>4, <1>5, <1>6, <2>1 DEF TypeOK, Symbols, Symbol
  <2>4. ScopesDistinct'
    BY <1>1, <1>5, <1>8, <2>1, GivenAvailable
  <2>5. Untouched'
    BY <1>2, <1>5, <2>1, <2>2 DEF Untouched, Symbols, Symbol
  <2>6. Generated(name)
    BY <1>3, <1>4 DEF Generated
  <2>7. KeptOrPreferred'
    BY <1>5, <2>2, <2>6 DEF KeptOrPreferred, Symbols, Symbol
  <2>8. Turned' \subseteq Turned \cup {next} /\ next \notin Turned
    BY <1>1, <1>2, <1>5, <2>1, <2>2 DEF Turned, Symbols, Symbol
  <2>9. \A s \in Turned : names'[s] = names[s] /\ names[s] # name
    BY <1>3, <1>4, <2>2, <2>8 DEF Counted, Turned, TypeOK
  <2>10. Counted'
    <3> SUFFICES ASSUME NEW s \in Turned'
                 PROVE  names'[s][1] = Symbol(s).kind /\ names'[s][2] <= counters'[Symbol(s).kind]
      BY <1>5 DEF Counted, Symbol
    <3>1. CASE s = next
      BY <1>1, <1>3, <1>4, <1>7, <2>2, <3>1
    <3>2. CASE s \in Turned
      <4>1. Symbol(s).kind \in Kinds /\ names[s][2] \in Nat
        BY <3>2, SymbolType, NameType DEF Turned, TypeOK
      <4>2. names[s][1] = Symbol(s).kind /\ names[s][2] <= counters[Symbol(s).kind]
        BY <3>2 DEF Counted
      <4> QED
        BY <1>6, <2>9, <3>2, <4>1, <4>2 DEF TypeOK
    <3> QED
      BY <2>8, <3>1, <3>2
  <2>11. GivenOnce'
    BY <1>1, <2>2, <2>8, <2>9 DEF GivenOnce
  <2> QED
    BY <2>3, <2>4, <2>5, <2>7, <2>10, <2>11
<1>9. CASE ~Available(next, name)
  <2>1. UNCHANGED <<names, next>>
    BY <1>9 DEF TryGenerated
  <2>2. TypeOK'
    BY <1>5, <1>6, <2>1 DEF TypeOK, Symbols
  <2>3. ScopesDistinct' /\ Untouched' /\ KeptOrPreferred' /\ GivenOnce'
    BY <1>5, <2>1
       DEF ScopesDistinct, Untouched, KeptOrPreferred, GivenOnce, Turned, Symbols, Symbol
  <2>4. Counted'
    <3> SUFFICES ASSUME NEW s \in Turned
                 PROVE  names[s][1] = Symbol(s).kind /\ names[s][2] <= counters'[Symbol(s).kind]
      BY <1>5, <2>1 DEF Counted, Turned, Symbols, Symbol
    <3>1. Symbol(s).kind \in Kinds /\ names[s][2] \in Nat
      BY SymbolType, NameType DEF Turned, TypeOK
    <3> QED
      BY <1>6, <3>1 DEF Counted, TypeOK
  <2> QED
    BY <2>2, <2>3, <2>4
<1> QED
  BY <1>8, <1>9

LEMMA Stutter == IInv /\ UNCHANGED vars => IInv'
  BY DEF IInv, vars, TypeOK, ScopesDistinct, Untouched, KeptOrPreferred, Counted, GivenOnce,
         Turned, Symbols, Symbol

LEMMA Inductive == Spec => []IInv
<1>1. IInv /\ [Next]_vars => IInv'
  BY KeepStep, TakePreferredStep, TryGeneratedStep, Stutter DEF Next
<1> QED
  BY Initially, <1>1, PTL DEF Spec

-----------------------------------------------------------------------------
(* Theorems *)

(* Names are those of the program, or of a kind and an ordinal, at all times. *)
THEOREM TypeCorrect == Spec => []TypeOK
<1>1. IInv => TypeOK
  BY DEF IInv
<1> QED
  BY Inductive, <1>1, PTL

(* rename_symbols never gives two symbols of a scope one name: the bindings of the scope
   stay a map. *)
THEOREM ScopesStayDistinct == Spec => []ScopesDistinct
<1>1. IInv => ScopesDistinct
  BY DEF IInv
<1> QED
  BY Inductive, <1>1, PTL

(* local_name_available looks at one scope only, and yet no generated name captures a
   reference of another: names are given once, and every name that looks generated is
   replaced by one of them. *)
THEOREM BindingsAreKept == Spec => []BindingsKept
<1>1. IInv => BindingsKept
  <2> SUFFICES ASSUME IInv, Done, NEW scope \in Scopes
               PROVE  /\ \A s \in Symbols :
                           Sees(Original, scope, s) /\ ~Exposed(names[s]) => Sees(names, scope, s)
                      /\ \A name \in Names :
                           /\ ~Generated(name) /\ ~Exposed(name)
                           /\ Declares(Original, scope, name) = {}
                           => Declares(names, scope, name) = {}
    BY DEF BindingsKept
  <2> USE DEF IInv
  <2>1. \A s \in Symbols : s < next
    BY LengthType DEF Done, Symbols, TypeOK
  <2>2. \A s \in Symbols : Original[s] = Symbol(s).name
    BY DEF Original
  <2>3. ASSUME NEW t \in Symbols, ~Generated(names[t]), ~Exposed(names[t])
        PROVE  Original[t] = names[t]
    BY <2>2, <2>3 DEF KeptOrPreferred, Exposed
  <2>4. ASSUME NEW s \in Symbols, Sees(Original, scope, s), ~Exposed(names[s])
        PROVE  Sees(names, scope, s)
    <3>1. s \in Declares(names, scope, names[s])
      BY <2>4 DEF Sees, Declares
    <3>2. ASSUME NEW t \in Declares(names, scope, names[s])
          PROVE  Symbol(t).scope <= Symbol(s).scope
      <4>1. t \in Symbols /\ names[t] = names[s] /\ Symbol(t).scope \in Around[scope]
        BY <3>2 DEF Declares
      <4>2. CASE Generated(names[s])
        <5>1. s \in Turned /\ t \in Turned
          BY <2>1, <2>4, <4>1, <4>2 DEF Turned, Exposed
        <5>2. s = t
          BY <4>1, <5>1 DEF GivenOnce
        <5>3. Symbol(s).scope \in Nat
          BY <2>4, SymbolType, ScopesAssumption DEF TypeOK
        <5> QED
          BY <5>2, <5>3
      <4>3. CASE ~Generated(names[s])
        <5>1. Original[t] = names[t] /\ Original[s] = names[s]
          BY <2>3, <2>4, <4>1, <4>3
        <5>2. t \in Declares(Original, scope, Original[s])
          BY <4>1, <5>1 DEF Declares
        <5> QED
          BY <2>4, <5>2 DEF Sees
      <4> QED
        BY <4>2, <4>3
    <3> QED
      BY <3>1, <3>2 DEF Sees
  <2>5. ASSUME NEW name \in Names, ~Generated(name), ~Exposed(name),
               Declares(Original, scope, name) = {},
               NEW t \in Declares(names, scope, name)
        PROVE  FALSE
    <3>1. t \in Symbols /\ names[t] = name /\ Symbol(t).scope \in Around[scope]
      BY <2>5 DEF Declares
    <3>2. Original[t] = name
      BY <2>3, <2>5, <3>1
    <3> QED
      BY <2>5, <3>1, <3>2 DEF Declares
  <2> QED
    BY <2>4, <2>5
<1> QED
  BY Inductive, <1>1, PTL
=============================================================================
