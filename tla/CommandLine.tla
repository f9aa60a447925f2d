----------------------------- MODULE CommandLine -----------------------------
(***************************************************************************)
(* What debun is asked to do, and where it writes when it is not told:           *)
(* src/src/args/parse.rs and src/src/args/defaults.rs.                     *)
(*                                                                         *)
(* A path is a directory and the parts of a file name between dots.  Texts of    *)
(* help and of errors, names that are not UTF-8 and paths that end with .. are    *)
(* left out.                                                               *)
(***************************************************************************)
EXTENDS Integers, SequencesExt

CONSTANTS
  Paths,       \* [dir, name] of files that may lie there
  Here,        \* the directory that is the default (".")
  CommandLines,   \* sequences of arguments [flag, path]; the flag is "" for a mere path
  Originals,   \* paths that a workspace or a patch names
  None

(* The parts of a name between dots; a file has a name. *)
Path == [dir : Seq(Seq(STRING)), name : Seq(STRING) \ {<<>>}]

Argument == [flag : STRING, path : Path]

CommandNames == {"unpack", "pack", "patch", "apply-patch"}

(* The parts of names that debun adds. *)
Added == {"readable", "repacked", "patch", "patched", "packed-binary", "changes"}

AllSlots == {"input", "from", "patch file", "out", "module name", "no rename", "unbundle"}

(* The last conjunct is a fact about literals that no prover knows. *)
ASSUME CommandLineAssumption ==
  /\ Here \in Path
  /\ \A path \in Paths \cup Originals : path \in Path
  /\ \A line \in CommandLines : line \in Seq(Argument)
  /\ None \notin Path \cup CommandNames \cup AllSlots
  /\ Added \subseteq STRING

VARIABLES
  argv,        \* the arguments behind the name of the program
  original,    \* the path that the workspace or patch names as the executable, or None
  at,          \* the argument that is read
  command,     \* None until it is known
  slots,       \* slot -> value
  source,      \* slot -> the argument that the value is, 0 for a default (history)
  given,       \* argument -> the slot it was given to, or None (history)
  outcome      \* "reading", "help", "error" or "run"

vars == <<argv, original, at, command, slots, source, given, outcome>>

Commands == {"pack", "patch", "apply-patch"}     \* else unpack

Flags == {"-h", "--help", "--out-dir", "--module-name", "--no-rename", "--unbundle",
          "--from", "--out", "--input", "--other"}

(* The options that take a value, and those that do not. *)
Option(c) ==
  CASE c = "unpack"            -> [o \in {"--out-dir", "--module-name"} |->
                                     IF o = "--out-dir" THEN "out" ELSE "module name"]
    [] c \in {"pack", "patch"} -> [o \in {"--from", "--out"} |->
                                     IF o = "--from" THEN "from" ELSE "out"]
    [] c = "apply-patch"       -> [o \in {"--input", "--out"} |->
                                     IF o = "--input" THEN "input" ELSE "out"]

Switch(c) ==
  IF c = "unpack"
  THEN [o \in {"--no-rename", "--unbundle"} |->
          IF o = "--no-rename" THEN "no rename" ELSE "unbundle"]
  ELSE [o \in {} |-> None]

Positional(c) ==
  CASE c = "unpack"            -> <<"input">>
    [] c \in {"pack", "patch"} -> <<"from">>
    [] c = "apply-patch"       -> <<"patch file", "input">>

-----------------------------------------------------------------------------
(* Default paths *)

(* Path::extension and file_stem: a dot at the front is part of the stem. *)
HasExtension(name) == Len(name) > 1 /\ ~(Len(name) = 2 /\ name[1] = "")

Stem(name) == IF HasExtension(name) THEN Front(name) ELSE name

(* default_out_dir and default_patch_path. *)
Beside(path, suffix) == [path EXCEPT !.name = Append(Stem(path.name), suffix)]

\* Mutant: the suffix is left out when there is an extension.
VariantOf(path, suffix) ==
  [path EXCEPT !.name =
     IF HasExtension(path.name) THEN path.name ELSE Append(path.name, suffix)]

\* Mutant: the extension is lost.
VariantReplacing(path, suffix) == [path EXCEPT !.name = Append(Stem(path.name), suffix)]

(* default_variant_path: in front of the extension, if there is one. *)
Variant(path, suffix) ==
  [path EXCEPT !.name =
     IF HasExtension(path.name) /\ Last(path.name) # ""
     THEN Append(Stem(path.name), suffix) \o <<Last(path.name)>>
     ELSE Append(path.name, suffix)]

(* In the workspace, under its name; . has none. *)
Inside(path, name, suffix) ==
  [dir  |-> Append(path.dir, path.name),
   name |-> Append(IF path = Here THEN <<name>> ELSE path.name, suffix)]

(* For apply-patch the original is the one that the patch names: src/src/patch.rs. *)
DefaultOut(c, s) ==
  CASE c = "unpack" -> Beside(s["input"], "readable")
    [] c = "pack"   -> IF original # None THEN Variant(original, "repacked")
                       ELSE Inside(s["from"], "packed-binary", "repacked")
    [] c = "patch"  -> IF original # None THEN Beside(original, "patch")
                       ELSE Inside(s["from"], "changes", "patch")
    [] c = "apply-patch" -> Variant(s["input"], "patched")

-----------------------------------------------------------------------------
(* Parsing *)

Init ==
  /\ argv \in CommandLines
  /\ original \in Originals \cup {None}
  /\ at = 1
  /\ command = None
  /\ slots = [s \in AllSlots |-> None]
  /\ source = [s \in AllSlots |-> 0]
  /\ given = [k \in DOMAIN argv |-> None]
  /\ outcome = "reading"

Reading == outcome = "reading" /\ command # None /\ at <= Len(argv)

Fail ==
  /\ outcome' = "error"
  /\ UNCHANGED <<argv, original, at, command, slots, source, given>>

Assign(slot, k) ==
  /\ slots' = [slots EXCEPT ![slot] = argv[k].path]
  /\ source' = [source EXCEPT ![slot] = k]
  /\ given' = [given EXCEPT ![k] = slot]
  /\ at' = k + 1
  /\ UNCHANGED <<argv, original, command, outcome>>

(* parse_args: the first argument is a command, or already one of unpack. *)
Begin ==
  /\ outcome = "reading" /\ command = None /\ argv # <<>>
  /\ IF argv[1].flag \in {"-h", "--help"}
     THEN outcome' = "help" /\ UNCHANGED <<at, command>>
     ELSE /\ command' = IF argv[1].flag \in Commands THEN argv[1].flag ELSE "unpack"
          /\ at' = IF argv[1].flag \in Commands THEN 2 ELSE 1
          /\ UNCHANGED outcome
  /\ UNCHANGED <<argv, original, slots, source, given>>

Empty ==
  /\ outcome = "reading" /\ argv = <<>>
  /\ Fail

Help ==
  /\ Reading
  /\ argv[at].flag \in {"-h", "--help"}
  /\ outcome' = "help"
  /\ UNCHANGED <<argv, original, at, command, slots, source, given>>

(* require_value: the next argument, whatever it is. *)
TakeOption ==
  /\ Reading
  /\ argv[at].flag \in DOMAIN Option(command)
  /\ IF at = Len(argv) THEN Fail
     ELSE Assign(Option(command)[argv[at].flag], at + 1)

TakeSwitch ==
  /\ Reading
  /\ argv[at].flag \in DOMAIN Switch(command)
  /\ Assign(Switch(command)[argv[at].flag], at)

Unknown ==
  /\ Reading
  /\ argv[at].flag \in Flags \ (DOMAIN Option(command) \cup DOMAIN Switch(command)
                               \cup {"-h", "--help"})
  /\ Fail

(* The positional slots that have no value yet. *)
Free == {i \in DOMAIN Positional(command) : slots[Positional(command)[i]] = None}

\* Mutant: a further path takes the place of the first.
TakeAnyPath ==
  /\ Reading
  /\ argv[at].flag \notin Flags
  /\ Assign(Positional(command)[IF Free = {} THEN Len(Positional(command)) ELSE Min(Free)], at)

(* assign_positional.  What was named by an option is not free any more; the patch file
   cannot be named by one. *)
TakePath ==
  /\ Reading
  /\ argv[at].flag \notin Flags
  /\ IF Free = {} THEN Fail ELSE Assign(Positional(command)[Min(Free)], at)

(* The input that is used when none is given: the workspace is here, the executable is
   what the patch names. *)
WithInput ==
  IF command \in {"pack", "patch"} /\ slots["from"] = None
  THEN [slots EXCEPT !["from"] = Here]
  ELSE IF command = "apply-patch" /\ slots["input"] = None
  THEN [slots EXCEPT !["input"] = original] ELSE slots

Needed == IF command \in {"pack", "patch"} THEN {"from"} ELSE Range(Positional(command))

(* The defaults; then the command runs. *)
Finish ==
  /\ outcome = "reading" /\ command # None /\ at > Len(argv)
  /\ IF \E s \in Needed : WithInput[s] = None THEN Fail
     ELSE /\ slots' = IF WithInput["out"] # None THEN WithInput
                      ELSE [WithInput EXCEPT !["out"] = DefaultOut(command, WithInput)]
          /\ outcome' = "run"
          /\ UNCHANGED <<argv, original, at, command, source, given>>

Next ==
  \/ Begin \/ Empty \/ Help \/ TakeOption \/ TakeSwitch \/ Unknown \/ TakePath \/ Finish

Spec == Init /\ [][Next]_vars

-----------------------------------------------------------------------------
(* Properties *)

(* The argument k is the value of an option that names the slot. *)
NamedFor(slot, k) ==
  /\ k - 1 \in DOMAIN argv
  /\ argv[k - 1].flag \in DOMAIN Option(command)
  /\ Option(command)[argv[k - 1].flag] = slot

(* An argument that is the command, an option whose value came next, a switch that was
   set, or a value: that of its slot, or one that an option for this slot gave again. *)
Accounted(k) ==
  \/ k = 1 /\ argv[1].flag \in Commands
  \/ /\ argv[k].flag \in DOMAIN Option(command)
     /\ k + 1 \in DOMAIN argv /\ given[k + 1] = Option(command)[argv[k].flag]
  \/ /\ argv[k].flag \in DOMAIN Switch(command)
     /\ given[k] = Switch(command)[argv[k].flag]
  \/ /\ given[k] # None
     /\ \/ source[given[k]] = k
        \/ source[given[k]] > k /\ NamedFor(given[k], source[given[k]])

(* What is given is used: each argument of a command that runs is the command, the name
   of an option that took the next one, a switch, or the value of the slot it was given
   to, unless a later option named this slot again.  Nothing else is swallowed. *)
NothingDropped == outcome = "run" => \A k \in DOMAIN argv : Accounted(k)

(* A command that is not told where to write never names an executable that it reads or
   that its workspace came from: an original is not overwritten by default.  (Unless
   unpack is asked to read a file called app.readable, or the workspace of patch came
   from one called app.patch.) *)
OriginalSpared ==
  outcome = "run" /\ source["out"] = 0 =>
    \A path \in {IF command \in {"pack", "patch"} THEN original ELSE slots["input"]} \ {None} :
      \/ slots["out"] # path
      \/ command = "unpack" /\ Last(path.name) = "readable"
      \/ command = "patch" /\ Last(path.name) = "patch"

(* The default output of apply-patch belongs to one executable: no two that lie side by
   side share it, whatever dots their names have.  (They do share the workspace and the
   patch file: app and app.exe.) *)
OutputOfOne ==
  outcome = "run" /\ source["out"] = 0 /\ command = "apply-patch" =>
    \A path \in Paths : Variant(path, "patched") = slots["out"] => path = slots["input"]

=============================================================================
