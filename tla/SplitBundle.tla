---------------------------- MODULE SplitBundle ----------------------------
(***************************************************************************)
(* A bundle that was taken apart: src/src/split, rewrite and js/unbundle.rs     *)
(* make one file of each wrapped module, and output/runtime.rs runs the files.  *)
(*                                                                         *)
(* A bundle is a sequence of top-level statements.  A statement declares names  *)
(* (variables and functions), holds the wrappers of modules, or calls one.      *)
(* Names are those that rename_symbols gives, unless the bundle is not renamed.  *)
(***************************************************************************)
EXTENDS Integers, SequencesExt

CONSTANTS
  None,       \* no value (Option::None)
  Driver,     \* the user's code that requires the first file
  Modules,    \* the wrapped modules
  Variables,  \* the variables of the bundle
  Target,     \* the functions of the bundle, and the variable each of them changes
  Undefined,  \* the value undefined
  Programs    \* bundles

VARIABLES
  program,    \* the bundle
  files,      \* the files that unpack --unbundle makes of it, by module
  outcome,    \* "unpack", "run", "done", or why unpacking or running failed
  status,     \* the file of a module: "absent", "loading" or "loaded" (require)
  cells,      \* the variables at the top of each file
  cache,      \* what createLazyInit remembers of each module
  stack,      \* the code that runs, the innermost last
  started,    \* the modules whose body was started, in order
  seen        \* the values that were looked at, in order

vars == <<program, files, outcome, status, cells, cache, stack, started, seen>>

-----------------------------------------------------------------------------
(* Bundles *)

Names == Variables \cup DOMAIN Target

(* A call of a wrapper, a look at a variable or an assignment to it, a call of a function. *)
Expression ==
  ({"call"} \X Modules) \cup ({"use", "set"} \X Variables) \cup ({"bump"} \X DOMAIN Target)

Statement == [names : SUBSET Names, wraps : Seq(Modules), call : Modules \cup {None}]

(* What a variable or a function is: "set" or "bumped", the module in whose file it is a
   function, or undefined. *)
Value == Modules \cup {"set", "bumped", Undefined}

Scopes == UNION {[S -> Value] : S \in SUBSET Names}

-----------------------------------------------------------------------------
(* split: statements to modules *)

(* collect_module_candidates. *)
Candidates(p) == FlattenSeq([i \in DOMAIN p.statements |-> p.statements[i].wraps])

(* Each wrapper is bound to a name of its own. *)
IsProgram(p) ==
  /\ p.statements \in Seq(Statement)
  /\ IsInjective(Candidates(p)) /\ Range(Candidates(p)) = Modules
  /\ p.kind \in [Modules -> {"lazy", "cjs"}]
  /\ p.body \in [Modules -> Seq(Seq(Expression))]
  /\ p.entry \in Modules /\ p.renamed \in BOOLEAN

ASSUME SplitBundleAssumption ==
  /\ \A p \in Programs : IsProgram(p)
  /\ Target \in [DOMAIN Target -> Variables] /\ Variables \cap DOMAIN Target = {}
  /\ None \notin Modules /\ Driver \notin Modules /\ Undefined \notin Modules
  /\ None \notin Scopes

StatementOf(p, m) ==
  CHOOSE i \in DOMAIN p.statements : m \in Range(p.statements[i].wraps)

\* Mutant: the statements of a module end where the next module's end.
SupportTwice(p, m) == StatementOf(p, m) + 1 .. Len(p.statements)

(* extract_modules: the statements up to the one of the next candidate, which may be
   the same statement. *)
Support(p, m) ==
  LET k == CHOOSE k \in DOMAIN Candidates(p) : Candidates(p)[k] = m IN
    StatementOf(p, m) + 1 ..
      (IF k = Len(Candidates(p)) THEN Len(p.statements)
       ELSE StatementOf(p, Candidates(p)[k + 1]) - 1)

SupportNames(p, m) == UNION {p.statements[i].names : i \in Support(p, m)}

(* Calls of wrappers among the statements of a module. *)
SupportCalls(p, m) ==
  FlattenSeq([i \in DOMAIN p.statements |->
                IF i \in Support(p, m) /\ p.statements[i].call # None
                THEN << <<"call", p.statements[i].call>> >> ELSE << >>])

-----------------------------------------------------------------------------
(* rewrite/analysis: names *)

Code(p, m) == FlattenSeq(p.body[m])

Calls(p, m) == {e[2] : e \in {f \in Range(Code(p, m)) : f[1] = "call"}}

Assigned(p, m) == {e[2] : e \in {f \in Range(Code(p, m)) : f[1] = "set"}}

(* The names in the text of a module: in its body, and in its functions. *)
Named(p, m) ==
  {e[2] : e \in {f \in Range(Code(p, m)) : f[1] # "call"}}
  \cup {Target[f] : f \in SupportNames(p, m) \cap DOMAIN Target}

(* collect_external_bundle_refs: names that look like those of the renamer and are
   bound nowhere in the text. *)
External(p, m, bound) == IF p.renamed THEN Named(p, m) \ bound ELSE {}

(* analyze_lazy_exports. *)
Exports(p, m) ==
  IF p.kind[m] = "lazy" THEN SupportNames(p, m) \cup Assigned(p, m) ELSE {}

-----------------------------------------------------------------------------
(* rewrite/planner: calls of wrappers.  exports[d] is the registry, the names that a
   call of d destructures. *)

(* The operands in front of the first one that is not a call of a lazy module with
   exports: each of them opens a function of its own around the operands behind it. *)
Opened(p, exports, s) ==
  LET opens(e) == e[1] = "call" /\ p.kind[e[2]] = "lazy" /\ exports[e[2]] # {} IN
    CHOOSE k \in 0 .. Len(s) :
      /\ \A i \in 1 .. k : opens(s[i])
      /\ k < Len(s) => ~opens(s[k + 1])

(* The last operand alone is rewritten as a statement, and "return var" is no code. *)
Parses(p, exports, s) == Len(s) = 1 \/ Opened(p, exports, s) < Len(s)

(* What the k-th expression of a statement binds, and whether in a function of its own. *)
Rewritten(p, exports, s) ==
  [k \in DOMAIN s |->
     [expression |-> s[k],
      first      |-> k = 1,
      inner      |-> Len(s) > 1,
      binds      |-> IF k <= Opened(p, exports, s) THEN exports[s[k][2]] ELSE {}]]

RewrittenBody(p, exports, m) ==
  FlattenSeq([i \in DOMAIN p.body[m] |-> Rewritten(p, exports, p.body[m][i])])

(* The calls among the statements of a module. *)
SupportSteps(p, exports, m) ==
  FlattenSeq([k \in DOMAIN SupportCalls(p, m) |-> Rewritten(p, exports, <<SupportCalls(p, m)[k]>>)])

Bound(steps) == UNION {step.binds : step \in Range(steps)}

(* Outside of the functions around operands. *)
BoundOutside(steps) == UNION {step.binds : step \in {s \in Range(steps) : ~s.inner}}

-----------------------------------------------------------------------------
(* js/unbundle: build_split_modules *)

(* The registry that a module's text is rewritten with; a call of the module itself is
   left alone. *)
InitialRegistry(p, m) == [d \in Modules |-> IF d = m THEN {} ELSE Exports(p, d)]

\* Mutant: names that no dependency exports are not declared.
NoImplicit(p, m) == Exports(p, m)

(* With the names that are bound nowhere once the calls are rewritten. *)
FinalExports(p, m) ==
  LET registry == InitialRegistry(p, m) IN
    IF p.kind[m] = "cjs" THEN {}
    ELSE Exports(p, m) \cup
         External(p, m, SupportNames(p, m) \cup Bound(RewrittenBody(p, registry, m))
                                           \cup Bound(SupportSteps(p, registry, m)))

(* narrow_registry_for_module: only the names that the raw text of the module needs. *)
Narrowed(p, m) ==
  [d \in Modules |->
     IF d = m THEN {} ELSE FinalExports(p, d) \cap External(p, m, SupportNames(p, m))]

(* The first pass parses what it made of the lazy modules. *)
Splits(p) ==
  \A m \in Modules : p.kind[m] = "lazy" =>
    \A s \in Range(p.body[m]) : Parses(p, InitialRegistry(p, m), s)

\* Mutant: the exports are declared in the body, where functions do not see them.
LocalsShadow(p, m) ==
  IF p.kind[m] = "cjs" THEN {}
  ELSE FinalExports(p, m) \cup BoundOutside(RewrittenBody(p, Narrowed(p, m), m))

(* What the statements of a lazy module's body declare there. *)
LocalNames(p, m) ==
  IF p.kind[m] = "cjs" THEN {} ELSE BoundOutside(RewrittenBody(p, Narrowed(p, m), m))

(* render_source: what is declared at the top of the file, and what in its body; the
   body of a CommonJs module is the top of its file.  transform_source_best_effort then
   parses it: of a text with a syntax error nothing is left, and an empty file is written. *)
File(p, m) ==
  LET steps == RewrittenBody(p, Narrowed(p, m), m)
      calls == SupportSteps(p, Narrowed(p, m), m)
      lets  == IF p.kind[m] = "lazy" THEN FinalExports(p, m) \ SupportNames(p, m) ELSE {}
  IN
    [empty    |-> \E s \in Range(p.body[m]) : ~Parses(p, Narrowed(p, m), s),
     twice    |-> lets \cap Bound(calls) # {},
     declared |-> SupportNames(p, m) \cup lets \cup Bound(calls)
                    \cup (IF p.kind[m] = "cjs" THEN BoundOutside(steps) ELSE {}),
     local    |-> LocalNames(p, m),
     exports  |-> FinalExports(p, m),
     calls    |-> calls,
     steps    |-> steps]

-----------------------------------------------------------------------------
(* unpack --unbundle, and the start of the first file *)

NoNames == [n \in {} |-> Undefined]

(* The names of one scope in front of those of another. *)
Over(scope, other) ==
  [n \in DOMAIN scope \cup DOMAIN other |-> IF n \in DOMAIN scope THEN scope[n] ELSE other[n]]

Frame(m, part, local) ==
  [module |-> m, part |-> part, at |-> 1, inner |-> NoNames,
   local  |-> [n \in local |-> Undefined]]

DriverFile(p) ==
  [calls |-> << >>, steps |-> Rewritten(p, [d \in Modules |-> {}], << <<"call", p.entry>> >>)]

Files(p) == [m \in Modules \cup {Driver} |-> IF m = Driver THEN DriverFile(p) ELSE File(p, m)]

Init ==
  /\ program \in Programs
  /\ files = None
  /\ outcome = "unpack"
  /\ status = [m \in Modules |-> "absent"]
  /\ cells = [m \in Modules |-> NoNames]
  /\ cache = [m \in Modules |-> None]
  /\ stack = <<Frame(Driver, "body", {})>>
  /\ started = << >>
  /\ seen = << >>

Unpack ==
  /\ outcome = "unpack"
  /\ IF Splits(program)
     THEN /\ outcome' = "run"
          /\ files' = Files(program)
     ELSE /\ outcome' = "unpack failed"
          /\ UNCHANGED files
  /\ UNCHANGED <<program, status, cells, cache, stack, started, seen>>

-----------------------------------------------------------------------------
(* Running the files *)

Top == Last(stack)

Steps(frame) == IF frame.part = "load" THEN files[frame.module].calls ELSE files[frame.module].steps

InCode == outcome = "run" /\ stack # << >> /\ Top.at <= Len(Steps(Top))

AtEnd == outcome = "run" /\ stack # << >> /\ Top.at > Len(Steps(Top))

Step == Steps(Top)[Top.at]

Does(what) == InCode /\ Step.expression[1] = what

(* What the functions around the operands of this statement have bound. *)
Inner == IF Step.first THEN NoNames ELSE Top.inner

Scope == Over(Inner, Over(Top.local, cells[Top.module]))

Throw(why) ==
  /\ outcome' = why
  /\ UNCHANGED <<program, files, status, cells, cache, stack, started, seen>>

(* This code at its next expression. *)
Passed(inner, local) == [Top EXCEPT !.at = @ + 1, !.inner = inner, !.local = local]

(* The next expression, after names got values in one of the scopes. *)
Advance(values, scope) ==
  /\ stack' = Append(Front(stack),
       Passed(IF scope = "inner" THEN Over(values, Inner) ELSE Inner,
              IF scope = "local" THEN Over(values, Top.local) ELSE Top.local))
  /\ cells' = IF scope = "top" THEN [cells EXCEPT ![Top.module] = Over(values, @)] ELSE cells

(* Where the names of a destructured call are declared. *)
DestructuredIn ==
  IF Step.inner THEN "inner"
  ELSE IF Top.part = "body" /\ Top.module # Driver /\ program.kind[Top.module] = "lazy"
  THEN "local" ELSE "top"

(* The call of a module that runs or ran: createLazyInit has its exports, or nothing
   yet; of nothing no names can be taken. *)
CallStarted(d) ==
  IF Step.binds # {} /\ cache[d] = None
  THEN Throw("nothing to bind")
  ELSE /\ IF Step.binds = {} THEN Advance(NoNames, "inner")
          ELSE Advance([n \in Step.binds |-> cache[d][n]], DestructuredIn)
       /\ UNCHANGED <<program, files, outcome, status, cache, started, seen>>

\* Mutant: a module is marked only when its body has returned.
InitialisedLate(d) == d \in Range(started) /\ (program.kind[d] = "lazy" => cache[d] # None)

(* createLazyInit marks a module before it runs the body. *)
Initialised(d) == d \in Range(started)

(* createLazyInit, and a CommonJs file behind its support statements. *)
Start(d) ==
  /\ stack' = Append(stack, Frame(d, "body", files[d].local))
  /\ started' = Append(started, d)
  /\ UNCHANGED <<program, files, outcome, status, cells, cache, seen>>

(* require: the file of a module is loaded once. *)
LoadText(d) ==
  /\ status' = [status EXCEPT ![d] = "loading"]
  /\ cells' = [cells EXCEPT ![d] = [n \in files[d].declared |->
       IF n \in DOMAIN Target \cap SupportNames(program, d) THEN d ELSE Undefined]]
  /\ stack' = Append(stack, Frame(d, "load", {}))
  /\ UNCHANGED <<program, files, outcome, cache, started, seen>>

(* An empty file exports {}: this is no function that a lazy module could be called by,
   while the call of a CommonJs module goes on. *)
LoadEmpty(d) ==
  IF program.kind[d] = "lazy" THEN Throw("no function")
  ELSE /\ status' = [status EXCEPT ![d] = "loaded"]
       /\ Advance(NoNames, "inner")
       /\ UNCHANGED <<program, files, outcome, cache, started, seen>>

(* A file that declares a name by let and by var is no program. *)
Load(d) ==
  IF files[d].empty THEN LoadEmpty(d)
  ELSE IF files[d].twice THEN Throw("no code") ELSE LoadText(d)

(* A wrapper's call.  That of the module itself is left as it was, and a file that is
   being loaded exports nothing yet that could be called. *)
Call ==
  LET d == Step.expression[2]
      goesOn == Initialised(d) \/ files[d].empty
  IN
    /\ Does("call")
    /\ CASE d = Top.module         -> Throw("own wrapper")
         [] d # Top.module /\ status[d] = "absent" -> Load(d)
         [] d # Top.module /\ status[d] = "loading" /\ program.kind[d] = "lazy"
                                   -> Throw("not loaded")
         [] d # Top.module /\ status[d] = "loading" /\ program.kind[d] = "cjs"
                                   -> CallStarted(d)
         [] d # Top.module /\ status[d] = "loaded" /\ ~goesOn -> Start(d)
         [] d # Top.module /\ status[d] = "loaded" /\ goesOn  -> CallStarted(d)

Set ==
  LET x == Step.expression[2] IN
    /\ Does("set")
    /\ Advance([n \in {x} |-> "set"],
         IF x \in DOMAIN Inner THEN "inner"
         ELSE IF x \in DOMAIN Top.local THEN "local" ELSE "top")
    /\ UNCHANGED <<program, files, outcome, status, cache, started, seen>>

Use ==
  LET x == Step.expression[2] IN
    /\ Does("use")
    /\ IF x \in DOMAIN Scope
       THEN /\ Advance(NoNames, "inner")
            /\ seen' = Append(seen, Scope[x])
            /\ UNCHANGED <<program, files, outcome, status, cache, started>>
       ELSE Throw("unbound")

(* A function changes the variable of the file that declares it. *)
Bump ==
  LET f    == Step.expression[2]
      home == Scope[f]
      x    == Target[f]
  IN
    /\ Does("bump")
    /\ CASE f \notin DOMAIN Scope -> Throw("unbound")
         [] f \in DOMAIN Scope /\ home = Undefined -> Throw("no function")
         [] f \in DOMAIN Scope /\ home # Undefined ->
              IF x \in DOMAIN cells[home]
              THEN /\ stack' = Append(Front(stack), Passed(Inner, Top.local))
                   /\ cells' = [cells EXCEPT ![home][x] = "bumped"]
                   /\ UNCHANGED <<program, files, outcome, status, cache, started, seen>>
              ELSE Throw("unbound")

(* The file of a lazy module is loaded once its support statements ran; that of a
   CommonJs module goes on with the body. *)
Loaded ==
  LET m == Top.module IN
    /\ AtEnd /\ Top.part = "load"
    /\ IF program.kind[m] = "lazy"
       THEN /\ status' = [status EXCEPT ![m] = "loaded"]
            /\ stack' = Front(stack)
            /\ UNCHANGED started
       ELSE /\ stack' = Append(Front(stack), Frame(m, "body", {}))
            /\ started' = Append(started, m)
            /\ UNCHANGED status
    /\ UNCHANGED <<program, files, outcome, cells, cache, seen>>

(* The body of a module is at its end; a lazy one returns its exports. *)
Return ==
  LET m == Top.module IN
    /\ AtEnd /\ Top.part = "body" /\ m # Driver
    /\ stack' = Front(stack)
    /\ status' = [status EXCEPT ![m] = "loaded"]
    /\ cache' = IF program.kind[m] = "lazy"
                THEN [cache EXCEPT ![m] = [n \in files[m].exports |->
                        Over(Top.local, cells[m])[n]]]
                ELSE cache
    /\ UNCHANGED <<program, files, outcome, cells, started, seen>>

Finish ==
  /\ AtEnd /\ Top.module = Driver
  /\ stack' = << >>
  /\ outcome' = "done"
  /\ UNCHANGED <<program, files, status, cells, cache, started, seen>>

Next == Unpack \/ Call \/ Set \/ Use \/ Bump \/ Loaded \/ Return \/ Finish

Spec == Init /\ [][Next]_vars

-----------------------------------------------------------------------------
(* Properties *)

Failure == {"own wrapper", "not loaded", "nothing to bind", "no code", "unbound", "no function"}

(* split/extract.rs: a statement behind the first wrapper belongs to exactly one module,
   one in front of it to none, and the statement of a wrapper to none. *)
StatementsOnce ==
  \A i \in DOMAIN program.statements :
    LET owners  == {m \in Modules : i \in Support(program, m)}
        behind  == \E m \in Modules : StatementOf(program, m) < i
        wrapper == program.statements[i].wraps # << >>
    IN Cardinality(owners) = IF behind /\ ~wrapper THEN 1 ELSE 0

(* The modules whose file is empty: each operand of a comma called a lazy module whose names
   are taken, and what the last one became is no expression. *)
Emptied == {m \in Modules : files[m].empty}

(* The modules that the first one needs, but for those that only an empty file would have
   called: those in every set of modules that has the first and whatever its members
   call. *)
Reachable ==
  {m \in Modules : \A closed \in SUBSET Modules :
     (program.entry \in closed /\ \A d \in closed \ Emptied : Calls(program, d) \subseteq closed)
       => m \in closed}

(* A run that comes to its end has run every body that the bundle would have, but for
   those of empty files and what only these would have called, and whatever cycles there
   are, no body runs twice. *)
AllRan ==
  /\ IsInjective(started)
  /\ outcome = "done" => Reachable \ Emptied \subseteq Range(started)

(* Names can only be missing from what a call returns while the body of the module
   that is called still runs further down. *)
OnlyCyclesLackNames ==
  outcome = "nothing to bind" =>
    \E k \in 1 .. Len(stack) - 1 : stack[k].module = Step.expression[2] /\ stack[k].part = "body"

(* A function looks for its variable at the top of its file, where the body of that file
   has taken it from another module: init() destructures it into a local of its own. *)
TakenByBody ==
  /\ Step.expression[1] = "bump"
  /\ LET f == Step.expression[2] IN
       f \in DOMAIN Scope /\ Scope[f] \in Modules /\ Target[f] \in files[Scope[f]].local

(* In a renamed bundle whose calls are statements of their own, each name that a lazy
   module looks at is bound in its file, to whatever value, and so is each variable of its
   functions but for TakenByBody. *)
NamesBound ==
  /\ outcome = "unbound"
  /\ program.renamed
  /\ \A m \in Modules : \A s \in Range(program.body[m]) : Len(s) = 1
  => program.kind[Top.module] = "cjs" \/ TakenByBody

(* No rewritten file runs into a name that splitting took away, but in the cases above. *)
NamesFound == OnlyCyclesLackNames /\ NamesBound

-----------------------------------------------------------------------------
(* The files do what the bundle did *)

(* The module that declares a name behind its wrapper. *)
Owners(p, n) == {m \in Modules : n \in SupportNames(p, m)}

(* Bundles whose modules only depend on each other in the plain way: a variable is
   declared and set by one lazy module, which others call, as a statement, before they
   look at it; only its own body changes it; no cycles; no calls at the top. *)
Direct(p) ==
  LET own(m, n) == Owners(p, n) = {m}
      called(m, k) == {Code(p, m)[j][2] : j \in {i \in 1 .. k - 1 : Code(p, m)[i][1] = "call"}}
  IN
    /\ p.renamed
    /\ \A i \in DOMAIN p.statements : p.statements[i].call = None
    /\ \A cycle \in (SUBSET Modules) \ {{}} : \E m \in cycle : Calls(p, m) \cap cycle = {}
    /\ \A m \in Modules :
         /\ p.kind[m] = "cjs" => SupportNames(p, m) = {}
         /\ \A f \in DOMAIN Target : own(m, f) <=> own(m, Target[f])
         /\ \A s \in Range(p.body[m]) : Len(s) = 1
         /\ \A k \in DOMAIN Code(p, m) :
              LET e == Code(p, m)[k] IN
                /\ e[1] \in {"set", "bump"} => own(m, e[2])
                /\ e[1] = "use" => own(m, e[2]) \/ \E d \in called(m, k) : own(d, e[2])

(* What runs of a direct bundle: nothing runs while a file is loaded, so that all but the
   innermost are bodies.  Files that fail look like a bundle that has stopped in the middle,
   which a bundle never does. *)
BodiesRun ==
  LET bodies == IF stack # << >> /\ Top.part = "load" THEN Front(stack) ELSE stack IN
    IF outcome \in Failure \cup {"unpack failed"} THEN << >>
    ELSE [k \in 1 .. Len(bodies) |-> [module |-> bodies[k].module, at |-> bodies[k].at]]

(* A variable is kept in the file of the module that declares it. *)
Kept(x) ==
  LET homes == {m \in Owners(program, x) : status[m] # "absent"} IN
    IF homes = {} THEN Undefined ELSE cells[CHOOSE m \in homes : TRUE][x]

VariablesKept == [x \in Variables |-> Kept(x)]

(* The bundle, as the files keep it. *)
Original == INSTANCE Bundle WITH stack <- BodiesRun, shared <- VariablesKept

(* The files of a direct bundle do not fail, run the same bodies in the same order, and
   see the same values. *)
RunsLikeBundle ==
  /\ Direct(program) => Original!Init
  /\ [][Direct(program) => [Original!Next]_(Original!vars)]_vars

=============================================================================
