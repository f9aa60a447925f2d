------------------------------- MODULE Bundle -------------------------------
(***************************************************************************)
(* What a bundle does when it runs.  The bundler put the modules of a program   *)
(* into one scope: a wrapper around the body of each module, which runs it at   *)
(* its first call, and variables that all of them share.                       *)
(*                                                                         *)
(* A body is a sequence of statements, a statement a non-empty sequence of      *)
(* expressions (the operands of a comma):                                     *)
(*   <<"call", m>>  the wrapper of module m       <<"set", x>>   x is assigned     *)
(*   <<"bump", f>>  a function that changes a      <<"use", x>>   x is looked at    *)
(*                variable                                                    *)
(***************************************************************************)
EXTENDS SequencesExt

CONSTANTS
  Driver,     \* the code that calls the first module
  Modules,    \* the wrapped modules
  Variables,  \* the variables of the bundle
  Target,     \* the functions of the bundle, and the variable each of them changes
  Undefined   \* the value of a variable nobody has set

VARIABLES
  program,    \* the bundle: any, and always the same
  stack,      \* the bodies that run, the innermost last
  started,    \* the modules whose body was started, in order
  shared,     \* the values of the variables
  seen        \* the values that were looked at, in order

vars == <<program, stack, started, shared, seen>>

Body(p, m) == IF m = Driver THEN << << <<"call", p.entry>> >> >> ELSE p.body[m]

Code(p, m) == FlattenSeq(Body(p, m))

-----------------------------------------------------------------------------

Frame(m) == [module |-> m, at |-> 1]

Init ==
  /\ stack = <<Frame(Driver)>>
  /\ started = << >>
  /\ shared = [x \in Variables |-> Undefined]
  /\ seen = << >>

Running == stack # << >> /\ Last(stack).at <= Len(Code(program, Last(stack).module))

Expression == Code(program, Last(stack).module)[Last(stack).at]

Advanced == [stack EXCEPT ![Len(stack)].at = @ + 1]

(* A wrapper runs its body once; a module that still runs is not run again. *)
Call ==
  /\ Running /\ Expression[1] = "call"
  /\ IF Expression[2] \in Range(started)
     THEN stack' = Advanced /\ UNCHANGED started
     ELSE /\ stack' = Append(stack, Frame(Expression[2]))
          /\ started' = Append(started, Expression[2])
  /\ UNCHANGED <<program, shared, seen>>

Set ==
  /\ Running /\ Expression[1] = "set"
  /\ stack' = Advanced
  /\ shared' = [shared EXCEPT ![Expression[2]] = "set"]
  /\ UNCHANGED <<program, started, seen>>

Bump ==
  /\ Running /\ Expression[1] = "bump"
  /\ stack' = Advanced
  /\ shared' = [shared EXCEPT ![Target[Expression[2]]] = "bumped"]
  /\ UNCHANGED <<program, started, seen>>

Use ==
  /\ Running /\ Expression[1] = "use"
  /\ stack' = Advanced
  /\ seen' = Append(seen, shared[Expression[2]])
  /\ UNCHANGED <<program, started, shared>>

Return ==
  /\ stack # << >> /\ ~Running
  /\ stack' = Front(stack)
  /\ UNCHANGED <<program, started, shared, seen>>

Next == Call \/ Set \/ Bump \/ Use \/ Return

Spec == Init /\ [][Next]_vars

=============================================================================
