----------------------------- MODULE Workspace -----------------------------
(***************************************************************************)
(* The directory that unpack writes and pack reads, call by call            *)
(* (src/src/output/writer.rs, pack.rs).  Nothing locks it: two unpack runs  *)
(* may write it at once, the user may edit it or pack it while it is being   *)
(* written, a call may fail, a run may be killed.                           *)
(*                                                                         *)
(* Unpack replaces <out>/.debun by a copy of its input that it stages next  *)
(* to it, then empties <out>/embedded and writes the files one by one.  The  *)
(* input may be the base executable in .debun itself.  What unpack writes    *)
(* besides (modules, symbols, the reports) no command reads, and is left out. *)
(*                                                                         *)
(* Directories and files are told apart by the run that created them, as the *)
(* file system tells them apart by their inode: remove_dir_all holds on to   *)
(* the directory it opened, and a write to the file it created.             *)
(***************************************************************************)
EXTENDS Naturals, Sequences

CONSTANTS
  Unpackers,  \* runs of unpack
  FromBase,   \* those whose input is .debun/base-executable
  Packers,    \* runs of pack
  Versions,   \* executables
  Graphless,  \* those without a module graph, which pack cannot put together again
  Plain,      \* of those, the ones without a section of Bun's: they embed no files
  Order,      \* the embedded files of an executable, in the order written
  Required,   \* those that are the contents of a module
  User,       \* who made what no run has made
  None,       \* no such file or directory
  MaxEdits    \* bound of the model: what the user changes in a behaviour

Keys == {Order[i] : i \in 1 .. Len(Order)}

ASSUME WorkspaceAssumption ==
  /\ FromBase \subseteq Unpackers
  /\ Plain \subseteq Graphless
  /\ Graphless \subseteq Versions
  /\ Required \subseteq Keys
  /\ Order \in Seq(Keys) /\ Order # << >>
  /\ User \notin Unpackers \cup Versions
  /\ None \notin Unpackers \cup Versions \cup {User}
  /\ MaxEdits \in Nat

VARIABLES
  input,     \* the executable outside the workspace
  support,   \* the directory .debun, or None
  stage,     \* the staged directory of each unpack run, or None
  tree,      \* the directory embedded, or None
  upc,       \* where each unpack run is
  seen,      \* the version each unpack run has inspected
  target,    \* the directory each unpack run has opened to remove
  next,      \* which embedded file each unpack run is at
  ppc,       \* where each pack run is
  got,       \* the base and the files each pack run has read
  at,        \* which embedded file each pack run is at
  edits,     \* history: how often the user has changed something
  since,     \* history: the unpack runs that wrote since the workspace was idle
  touched,   \* history: the files the user has changed since then
  expect     \* history: the run whose workspace each pack run found, or None

userVars   == <<input, edits, touched>>
unpackVars == <<support, stage, tree, upc, seen, target, next, since>>
packVars   == <<ppc, got, at, expect>>
vars       == <<userVars, unpackVars, packVars>>

-----------------------------------------------------------------------------
(* Directories and files *)

(* A file holds what it was given of a version, or what the user made of it. *)
Copied(v)       == [from |-> v, by |-> User, whole |-> TRUE]
Creators        == Unpackers \cup {User}
File            == [from : Versions \cup {User}, by : Creators, whole : BOOLEAN]
Image           == [from : Versions, by : Creators, whole : BOOLEAN]
UserFile        == [from |-> User, by |-> User, whole |-> TRUE]

(* .debun and its staged form: base-executable and original-path.txt. *)
SupportDir == [by : Creators, base : Image \cup {None}, path : BOOLEAN]
EmptyDir(d) == d.base = None /\ ~d.path

(* embedded: the files under embedded/files. *)
Tree       == [by : Creators, files : [Keys -> File \cup {None}]]
NewTree(u) == [by |-> u, files |-> [k \in Keys |-> None]]

ASSUME NoneAssumption ==
  /\ None \notin File
  /\ None \notin SupportDir
  /\ None \notin Tree

FileAt(k) == IF tree = None THEN None ELSE tree.files[k]
Base      == IF support = None THEN None ELSE support.base

(* What an unpack run finds at the path of its input. *)
Source(u) == IF u \in FromBase THEN Base ELSE Copied(input)

-----------------------------------------------------------------------------
(* Where runs are *)

Staging == {"copy", "copying", "path"}
Writing == {"dropping", "install", "clear", "clearing", "make", "create", "fill"}
Ended   == {"done", "failed", "killed"}
UPC     == {"idle", "stage", "drop"} \cup Staging \cup Writing \cup Ended
PPC     == {"idle", "read", "permissions", "validate", "collect", "write", "done", "failed"}

Step(u, from, to) ==
  /\ upc[u] = from
  /\ upc' = [upc EXCEPT ![u] = to]

(* The unpack run that wrote the workspace alone, without a failure, and from an
   input that did not change under it. *)
Coherent(u) ==
  /\ since = {u}
  /\ upc[u] = "done"
  /\ Base # None
  /\ Base.from = seen[u]

NothingRead == [base |-> None, files |-> [k \in Keys |-> None]]

-----------------------------------------------------------------------------
Unpacked(v) ==
  /\ support = [by |-> User, base |-> Copied(v), path |-> TRUE]
  /\ tree = [by |-> User, files |-> [k \in Keys |-> Copied(v)]]

Init ==
  /\ input \in Versions
  /\ \/ support = None /\ tree = None
     \/ \E v \in Versions \ Graphless : Unpacked(v)
  /\ stage = [u \in Unpackers |-> None]
  /\ upc = [u \in Unpackers |-> "idle"]
  /\ seen = [u \in Unpackers |-> None]
  /\ target = [u \in Unpackers |-> None]
  /\ next = [u \in Unpackers |-> 1]
  /\ ppc = [p \in Packers |-> "idle"]
  /\ got = [p \in Packers |-> NothingRead]
  /\ edits = 0
  /\ since = {}
  /\ touched = {}
  /\ at = [p \in Packers |-> 1]
  /\ expect = [p \in Packers |-> None]

-----------------------------------------------------------------------------
(* unpack: .debun *)

\* Mutant: .debun is removed before its successor is staged.
InspectDropsFirst(u) ==
  /\ upc[u] = "idle"
  /\ Source(u) # None
  /\ seen' = [seen EXCEPT ![u] = Source(u).from]
  /\ Step(u, "idle", "drop")
  /\ UNCHANGED <<support, stage, tree, target, next, since, userVars, packVars>>

(* inspect_binary reads the input; only an executable with a module graph can be
   packed again and has its base saved.  For the others .debun is removed. *)
Inspect(u) ==
  /\ upc[u] = "idle"
  /\ Source(u) # None
  /\ seen' = [seen EXCEPT ![u] = Source(u).from]
  /\ Step(u, "idle", IF Source(u).from \in Graphless THEN "drop" ELSE "stage")
  /\ UNCHANGED <<support, stage, tree, target, next, since, userVars, packVars>>

(* create_temporary_sibling_directory. *)
CreateStage(u) ==
  /\ Step(u, "stage", "copy")
  /\ stage' = [stage EXCEPT ![u] = [by |-> u, base |-> None, path |-> FALSE]]
  /\ UNCHANGED <<support, tree, seen, target, next, since, userVars, packVars>>

(* fs::copy opens the input again, which need not be what was inspected. *)
BeginCopy(u) ==
  /\ Source(u) # None
  /\ Step(u, "copy", "copying")
  /\ stage' = [stage EXCEPT ![u].base =
                 [from |-> Source(u).from, by |-> u, whole |-> FALSE]]
  /\ UNCHANGED <<support, tree, seen, target, next, since, userVars, packVars>>

EndCopy(u) ==
  /\ Step(u, "copying", "path")
  /\ stage' = [stage EXCEPT ![u].base.whole = TRUE]
  /\ UNCHANGED <<support, tree, seen, target, next, since, userVars, packVars>>

WritePath(u) ==
  /\ Step(u, "path", "drop")
  /\ stage' = [stage EXCEPT ![u].path = TRUE]
  /\ UNCHANGED <<support, tree, seen, target, next, since, userVars, packVars>>

\* Mutant: the error of a call while staging is ignored.
FailStagingIgnored(u) ==
  /\ upc[u] \in Staging
  /\ Step(u, upc[u], "drop")
  /\ UNCHANGED <<support, stage, tree, seen, target, next, since, userVars, packVars>>

(* A failure while staging: remove_dir_all of the stage, which may fail too. *)
FailStaging(u) ==
  /\ upc[u] \in Staging
  /\ Step(u, upc[u], "failed")
  /\ \/ stage' = [stage EXCEPT ![u] = None]
     \/ UNCHANGED stage
  /\ UNCHANGED <<support, tree, seen, target, next, since, userVars, packVars>>

(* The unpack runs that wrote, when u starts to. *)
Joined(u) ==
  IF \E v \in Unpackers : upc[v] \in Writing THEN since \cup {u} ELSE {u}

(* Where the run goes when there is no .debun any more. *)
AfterSupport(u) == IF seen[u] \in Graphless THEN "clear" ELSE "install"

(* remove_dir_if_exists opens .debun, if there is one. *)
OpenSupport(u) ==
  /\ Step(u, "drop", IF support = None THEN AfterSupport(u) ELSE "dropping")
  /\ target' = [target EXCEPT ![u] = IF support = None THEN None ELSE support.by]
  /\ since' = Joined(u)
  /\ touched' = IF Joined(u) = {u} THEN {} ELSE touched
  /\ UNCHANGED <<support, stage, tree, seen, next, input, edits, packVars>>

(* It unlinks the entries of the directory it has opened. *)
UnlinkSupport(u) ==
  /\ upc[u] = "dropping"
  /\ support # None
  /\ support.by = target[u]
  /\ \/ support.base # None /\ support' = [support EXCEPT !.base = None]
     \/ support.path /\ support' = [support EXCEPT !.path = FALSE]
  /\ UNCHANGED <<stage, tree, upc, seen, target, next, since, userVars, packVars>>

(* It removes the directory that is at the path now, if it is empty; that there
   is none is no error. *)
RemoveSupport(u) ==
  /\ support # None => EmptyDir(support)
  /\ Step(u, "dropping", AfterSupport(u))
  /\ support' = None
  /\ target' = [target EXCEPT ![u] = None]
  /\ UNCHANGED <<stage, tree, seen, next, since, userVars, packVars>>

(* fs::rename, which replaces an empty directory only. *)
Install(u) ==
  /\ support # None => EmptyDir(support)
  /\ Step(u, "install", "clear")
  /\ support' = stage[u]
  /\ stage' = [stage EXCEPT ![u] = None]
  /\ UNCHANGED <<tree, seen, target, next, since, userVars, packVars>>

(* It fails, for another reason or because .debun is there again: the stage is
   removed, unless that fails. *)
FailInstall(u) ==
  /\ Step(u, "install", "failed")
  /\ \/ stage' = [stage EXCEPT ![u] = None]
     \/ UNCHANGED stage
  /\ UNCHANGED <<support, tree, seen, target, next, since, userVars, packVars>>

-----------------------------------------------------------------------------
(* unpack: embedded *)

(* remove_dir_if_exists of embedded, as above.  Of a plain input there is nothing
   to write; of one without a module graph there are the files that
   extract_embedded_files finds in its section. *)
AfterTree(u) == IF seen[u] \in Plain THEN "done" ELSE "make"

OpenTree(u) ==
  /\ Step(u, "clear", IF tree = None THEN AfterTree(u) ELSE "clearing")
  /\ target' = [target EXCEPT ![u] = IF tree = None THEN None ELSE tree.by]
  /\ UNCHANGED <<support, stage, tree, seen, next, since, userVars, packVars>>

UnlinkFile(u, k) ==
  /\ upc[u] = "clearing"
  /\ FileAt(k) # None
  /\ tree.by = target[u]
  /\ tree' = [tree EXCEPT !.files[k] = None]
  /\ UNCHANGED <<support, stage, upc, seen, target, next, since, userVars, packVars>>

(* A directory that was made meanwhile is not empty: it has a manifest. *)
RemoveTree(u) ==
  /\ tree # None => tree.by = target[u]
  /\ \A k \in Keys : FileAt(k) = None
  /\ Step(u, "clearing", AfterTree(u))
  /\ tree' = None
  /\ target' = [target EXCEPT ![u] = None]
  /\ UNCHANGED <<support, stage, seen, next, since, userVars, packVars>>

(* create_dir_all, which is content with a directory that is there. *)
MakeTree(u) ==
  /\ Step(u, "make", "create")
  /\ tree' = IF tree = None THEN NewTree(u) ELSE tree
  /\ UNCHANGED <<support, stage, seen, target, next, since, userVars, packVars>>

\* Mutant: File::create instead of create_new takes over the file of another run.
CreateFileShared(u) ==
  LET made == IF tree = None THEN NewTree(u) ELSE tree
      k    == Order[next[u]]
  IN
  /\ Step(u, "create", "fill")
  /\ tree' = [made EXCEPT !.files[k] = [from |-> seen[u], by |-> u, whole |-> FALSE]]
  /\ UNCHANGED <<support, stage, seen, target, next, since, userVars, packVars>>

(* write_new_file, after create_dir_all of its parent: create_new refuses a file
   that is there already ... *)
CreateFile(u) ==
  LET made == IF tree = None THEN NewTree(u) ELSE tree
      k    == Order[next[u]]
  IN
  /\ Step(u, "create", "fill")
  /\ made.files[k] = None
  /\ tree' = [made EXCEPT !.files[k] = [from |-> seen[u], by |-> u, whole |-> FALSE]]
  /\ UNCHANGED <<support, stage, seen, target, next, since, userVars, packVars>>

\* Mutant: the loop leaves out the last file.
FillFileButLast(u) ==
  LET k == Order[next[u]] IN
  /\ Step(u, "fill", IF next[u] + 1 = Len(Order) THEN "done" ELSE "create")
  /\ next' = [next EXCEPT ![u] = @ + 1]
  /\ IF FileAt(k) # None /\ FileAt(k).by = u
     THEN tree' = [tree EXCEPT !.files[k].whole = TRUE]
     ELSE UNCHANGED tree
  /\ UNCHANGED <<support, stage, seen, target, since, userVars, packVars>>

(* ... and write_all goes to the file that was created, linked or not. *)
FillFile(u) ==
  LET k == Order[next[u]] IN
  /\ Step(u, "fill", IF next[u] = Len(Order) THEN "done" ELSE "create")
  /\ next' = [next EXCEPT ![u] = IF @ = Len(Order) THEN 1 ELSE @ + 1]
  /\ IF FileAt(k) # None /\ FileAt(k).by = u
     THEN tree' = [tree EXCEPT !.files[k].whole = TRUE]
     ELSE UNCHANGED tree
  /\ UNCHANGED <<support, stage, seen, target, since, userVars, packVars>>

(* What a run knew ends with it. *)
Forget(u) ==
  /\ target' = [target EXCEPT ![u] = None]
  /\ next' = [next EXCEPT ![u] = 1]

(* A failure anywhere else ends the run where it is, and so does a kill. *)
FailUnpack(u) ==
  /\ upc[u] \in UPC \ (Ended \cup Staging \cup {"install"})
  /\ Step(u, upc[u], "failed")
  /\ Forget(u)
  /\ UNCHANGED <<support, stage, tree, seen, since, userVars, packVars>>

Kill(u) ==
  /\ upc[u] \in UPC \ (Ended \cup {"idle"})
  /\ Step(u, upc[u], "killed")
  /\ Forget(u)
  /\ UNCHANGED <<support, stage, tree, seen, since, userVars, packVars>>

-----------------------------------------------------------------------------
(* pack *)

PackStep(p, from, to) ==
  /\ ppc[p] = from
  /\ ppc' = [ppc EXCEPT ![p] = to]

(* resolve_workspace_root. *)
Resolve(p) ==
  /\ Base # None
  /\ PackStep(p, "idle", "read")
  /\ expect' = [expect EXCEPT ![p] =
                  IF \E u \in Unpackers : Coherent(u)
                  THEN CHOOSE u \in Unpackers : Coherent(u) ELSE None]
  /\ UNCHANGED <<got, at, userVars, unpackVars>>

(* fs::read of the base executable. *)
ReadBase(p) ==
  /\ Base # None
  /\ PackStep(p, "read", "permissions")
  /\ got' = [got EXCEPT ![p].base = Base]
  /\ UNCHANGED <<at, expect, userVars, unpackVars>>

(* fs::metadata of the base executable. *)
ReadPermissions(p) ==
  /\ Base # None
  /\ PackStep(p, "permissions", "validate")
  /\ UNCHANGED <<got, at, expect, userVars, unpackVars>>

(* resolve_replacements_root and validate_workspace_files: without embedded/files
   pack looks at the workspace itself, where it finds files it has no use for. *)
Validate(p) ==
  /\ tree # None
  /\ PackStep(p, "validate", "collect")
  /\ UNCHANGED <<got, at, expect, userVars, unpackVars>>

(* collect_replacements, file by file: one that is missing is a part to remove,
   unless it is the contents of a module. *)
Collect(p) ==
  LET k == Order[at[p]] IN
  /\ PackStep(p, "collect", IF at[p] = Len(Order) THEN "write" ELSE "collect")
  /\ FileAt(k) = None => k \notin Required
  /\ got' = [got EXCEPT ![p].files[k] = FileAt(k)]
  /\ at' = [at EXCEPT ![p] = IF @ = Len(Order) THEN @ ELSE @ + 1]
  /\ UNCHANGED <<expect, userVars, unpackVars>>

EndPack(p) ==
  /\ got' = [got EXCEPT ![p] = NothingRead]
  /\ at' = [at EXCEPT ![p] = 1]
  /\ expect' = [expect EXCEPT ![p] = None]

(* write_repacked_executable; AtomicFile has its steps. *)
Write(p) ==
  /\ PackStep(p, "write", "done")
  /\ EndPack(p)
  /\ UNCHANGED <<userVars, unpackVars>>

(* Any of the calls before may fail, and a missing file makes it. *)
FailPack(p) ==
  /\ ppc[p] \in {"idle", "read", "permissions", "validate", "collect", "write"}
  /\ PackStep(p, ppc[p], "failed")
  /\ EndPack(p)
  /\ UNCHANGED <<userVars, unpackVars>>

-----------------------------------------------------------------------------
(* The user changes or removes an embedded file, or builds another executable. *)
Edit(k, file) ==
  /\ tree # None
  /\ edits < MaxEdits
  /\ edits' = edits + 1
  /\ tree' = [tree EXCEPT !.files[k] = file]
  /\ touched' = touched \cup {k}
  /\ UNCHANGED <<input, support, stage, upc, seen, target, next, since, packVars>>

Rebuild(v) ==
  /\ edits < MaxEdits
  /\ edits' = edits + 1
  /\ input' = v
  /\ UNCHANGED <<touched, unpackVars, packVars>>

Unpack(u) ==
  \/ Inspect(u) \/ CreateStage(u) \/ BeginCopy(u) \/ EndCopy(u) \/ WritePath(u)
  \/ OpenSupport(u) \/ UnlinkSupport(u) \/ RemoveSupport(u) \/ Install(u)
  \/ OpenTree(u) \/ (\E k \in Keys : UnlinkFile(u, k)) \/ RemoveTree(u)
  \/ MakeTree(u) \/ CreateFile(u) \/ FillFile(u)

Pack(p) ==
  \/ Resolve(p) \/ ReadBase(p) \/ ReadPermissions(p) \/ Validate(p) \/ Collect(p)
  \/ Write(p)

Next ==
  \/ \E u \in Unpackers :
       Unpack(u) \/ FailStaging(u) \/ FailInstall(u) \/ FailUnpack(u) \/ Kill(u)
  \/ \E p \in Packers : Pack(p) \/ FailPack(p)
  \/ \E k \in Keys, file \in {UserFile, None} : Edit(k, file)
  \/ \E v \in Versions : Rebuild(v)

Spec == Init /\ [][Next]_vars

-----------------------------------------------------------------------------
(* Properties *)

TypeOK ==
  /\ input \in Versions
  /\ support \in SupportDir \cup {None}
  /\ stage \in [Unpackers -> SupportDir \cup {None}]
  /\ tree \in Tree \cup {None}
  /\ upc \in [Unpackers -> UPC]
  /\ seen \in [Unpackers -> Versions \cup {None}]
  /\ target \in [Unpackers -> Creators \cup {None}]
  /\ next \in [Unpackers -> 1 .. Len(Order)]
  /\ ppc \in [Packers -> PPC]
  /\ got \in [Packers -> [base : Image \cup {None}, files : [Keys -> File \cup {None}]]]
  /\ at \in [Packers -> 1 .. Len(Order)]
  /\ edits \in 0 .. MaxEdits
  /\ since \subseteq Unpackers
  /\ touched \subseteq Keys
  /\ expect \in [Packers -> Unpackers \cup {None}]

Whole(f) == f # None /\ f.whole

(* pack and patch never find a part of a base executable, wherever an unpack run
   fails, is killed, or meets another one. *)
BaseWhole == Base # None => Base.whole

(* A base executable that was there when a run started to replace it, or the one
   that replaces it, can be found in .debun or in a staged directory: a run that
   is killed loses neither (one that fails may: see OriginalPreserved; one whose
   input has no module graph is to leave no base executable). *)
BaseRecoverable ==
  /\ \E u \in FromBase : seen[u] # None
  /\ \A u \in Unpackers : upc[u] # "failed" /\ seen[u] \notin Graphless
  => \/ Whole(Base)
     \/ \E u \in Unpackers : stage[u] # None /\ Whole(stage[u].base)

(* Unpack runs that write at once and all succeed leave the whole files of one of
   them: create_new makes every other mixture fail. *)
TreeOfOneRun ==
  /\ since # {}
  /\ \A u \in since : upc[u] = "done" /\ seen[u] \notin Plain
  /\ touched = {}
  => /\ tree # None
     /\ \E u \in since : \A k \in Keys :
          tree.files[k] = [from |-> seen[u], by |-> u, whole |-> TRUE]

(* pack of a workspace that one undisturbed unpack run has written, and that no
   other run writes meanwhile, puts together the base executable of that run and
   its files, but for those the user has changed. *)
PackCoherent ==
  [][\A p \in Packers : Write(p) /\ expect[p] # None /\ since = {expect[p]} =>
       LET v == seen[expect[p]] IN
         /\ Whole(got[p].base) /\ got[p].base.from = v
         /\ \A k \in Keys : \/ Whole(got[p].files[k]) /\ got[p].files[k].from = v
                            \/ k \in touched]_vars

(* "Preserve the original executable before cleaning any workspace output.  The
   input may itself be a previously saved .debun/base-executable"
   (src/src/output/mod.rs:22): once a run alone in the workspace has inspected
   the base executable, that executable is in .debun or in the staged copy. *)
OriginalPreserved ==
  \A u \in FromBase :
    seen[u] # None /\ since \subseteq {u} =>
      \/ Whole(Base) /\ Base.from = seen[u]
      \/ stage[u] # None /\ Whole(stage[u].base) /\ stage[u].base.from = seen[u]

=============================================================================
