----------------------------- MODULE AtomicFile -----------------------------
(***************************************************************************)
(* The output writer of debun, src/src/pack_support.rs: pack, patch and    *)
(* apply-patch put their result in a temporary sibling of the destination  *)
(* (write_atomic_file_with), set its permissions, flush it, let a          *)
(* finalizer rework it (codesign on macOS) and rename it over the          *)
(* destination.                                                            *)
(*                                                                         *)
(* Several runs write the same destination at once.  A run has a process   *)
(* id, which need not be unique: runs in two containers that share the     *)
(* directory have pid namespaces of their own, and ids are reused after a  *)
(* crash.  Every system call may fail, a run may be killed between any two *)
(* calls, the machine may lose power.                                      *)
(*                                                                         *)
(* A file carries the run whose content it holds and how far that run got  *)
(* with it; the bytes are abstracted away.                                 *)
(***************************************************************************)
EXTENDS Naturals

CONSTANTS
  Writers,      \* the runs that write the destination
  Packers,      \* those that write an executable (pack, apply-patch)
  Resigners,    \* those whose finalizer re-signs the file (macOS)
  Pids,         \* process ids
  MaxAttempts,  \* how many temporary names a run tries
  Original,     \* the content of the destination before any run
  NoFile        \* no file under that name

ASSUME ConstantsAssumption ==
  /\ Resigners \subseteq Packers
  /\ Packers \subseteq Writers
  /\ Pids # {}
  /\ MaxAttempts \in Nat \ {0}
  /\ Original \notin Writers
  /\ NoFile \notin Writers \cup {Original}

VARIABLES
  dest,         \* the file at the destination path, or NoFile
  temps,        \* the files under the temporary names, or NoFile
  survivors,    \* the versions of dest a power loss may bring back
  pc,           \* where each run is
  pid,          \* the process id of each run
  attempt,      \* how many temporary names each run has tried
  given,        \* whether the run has permissions to set (Some or None)
  stranded,     \* the runs whose remove_file failed, silently
  powerLost     \* a power loss has happened

vars == <<dest, temps, survivors, pc, pid, attempt, given, stranded, powerLost>>

-----------------------------------------------------------------------------
(* Files and names *)

Content == Writers \cup {Original}

File ==
  [by : Content,          \* whose content
   whole : BOOLEAN,       \* all of it was written
   moded : BOOLEAN,       \* the permissions were set
   signed : BOOLEAN,      \* the finalizer reworked it
   synced : BOOLEAN]      \* its data is on the disk

ASSUME NoFileAssumption == NoFile \notin File

OriginalFile ==
  [by |-> Original, whole |-> TRUE, moded |-> TRUE, signed |-> TRUE, synced |-> TRUE]

(* What create_new leaves: an empty file with default permissions. *)
EmptyFile(w) ==
  [by |-> w, whole |-> FALSE, moded |-> FALSE, signed |-> FALSE, synced |-> FALSE]

(* .<file name>.debun-tmp-<pid>-<counter>.  A command writes one output, so the
   process-wide counter is the number of names this run has tried. *)
TempNames == Pids \X (0 .. MaxAttempts - 1)

(* The name of the run's temporary file, once it has one. *)
TempName(w) == <<pid[w], attempt[w] - 1>>

-----------------------------------------------------------------------------
(* The steps of a run, one per system call *)

Holding == {"write", "perm", "sync", "finalize", "replace", "discard"}
Running == {"stat", "parent", "create"} \cup Holding
Ended   == {"done", "failed", "killed"}
PC      == {"idle"} \cup Running \cup Ended

Goto(w, label) == pc' = [pc EXCEPT ![w] = label]

Init ==
  /\ dest \in {OriginalFile, NoFile}
  /\ temps = [n \in TempNames |-> NoFile]
  /\ survivors = {dest}
  /\ pc = [w \in Writers |-> "idle"]
  /\ pid \in [Writers -> Pids]
  /\ attempt = [w \in Writers |-> 0]
  /\ given = [w \in Writers |-> w \in Packers]
  /\ stranded = {}
  /\ powerLost = FALSE

(* write_repacked_executable comes with the permissions of the executable it
   started from, write_atomic_file asks the destination for them first. *)
Start(w) ==
  /\ pc[w] = "idle"
  /\ Goto(w, IF w \in Packers THEN "parent" ELSE "stat")
  /\ UNCHANGED <<dest, temps, survivors, pid, attempt, given, stranded, powerLost>>

(* fs::metadata: the permissions of the destination, or None if there is none. *)
Stat(w) ==
  /\ pc[w] = "stat"
  /\ given' = [given EXCEPT ![w] = dest # NoFile]
  /\ Goto(w, "parent")
  /\ UNCHANGED <<dest, temps, survivors, pid, attempt, stranded, powerLost>>

(* create_dir_all of the parent; no file changes. *)
MakeParent(w) ==
  /\ pc[w] = "parent"
  /\ Goto(w, "create")
  /\ UNCHANGED <<dest, temps, survivors, pid, attempt, given, stranded, powerLost>>

\* Mutant: create instead of create_new takes over a name that exists.
CreateTempTakesOver(w) ==
  /\ pc[w] = "create"
  /\ attempt[w] < MaxAttempts
  /\ attempt' = [attempt EXCEPT ![w] = @ + 1]
  /\ temps' = [temps EXCEPT ![<<pid[w], attempt[w]>>] = EmptyFile(w)]
  /\ Goto(w, "write")
  /\ UNCHANGED <<dest, survivors, pid, given, stranded, powerLost>>

\* Mutant: the counter is not advanced when the name is taken.
CreateTempSameName(w) ==
  /\ pc[w] = "create"
  /\ attempt[w] < MaxAttempts
  /\ temps[<<pid[w], attempt[w]>>] = NoFile
  /\ temps' = [temps EXCEPT ![<<pid[w], attempt[w]>>] = EmptyFile(w)]
  /\ attempt' = [attempt EXCEPT ![w] = @ + 1]
  /\ Goto(w, "write")
  /\ UNCHANGED <<dest, survivors, pid, given, stranded, powerLost>>

(* One turn of the loop of create_temporary_sibling.  create_new refuses a name
   that exists; the loop then takes the next number, MaxAttempts times. *)
CreateTemp(w) ==
  /\ pc[w] = "create"
  /\ attempt[w] < MaxAttempts
  /\ attempt' = [attempt EXCEPT ![w] = @ + 1]
  /\ LET name == <<pid[w], attempt[w]>> IN
       IF temps[name] = NoFile
       THEN /\ temps' = [temps EXCEPT ![name] = EmptyFile(w)]
            /\ Goto(w, "write")
       ELSE UNCHANGED <<temps, pc>>
  /\ UNCHANGED <<dest, survivors, pid, given, stranded, powerLost>>

(* The loop ran out of names. *)
GiveUp(w) ==
  /\ pc[w] = "create"
  /\ attempt[w] = MaxAttempts
  /\ Goto(w, "failed")
  /\ UNCHANGED <<dest, temps, survivors, pid, attempt, given, stranded, powerLost>>

(* A failure before there is a temporary file ends the run. *)
FailEarly(w) ==
  /\ pc[w] \in {"stat", "parent", "create"}
  /\ Goto(w, "failed")
  /\ UNCHANGED <<dest, temps, survivors, pid, attempt, given, stranded, powerLost>>

(* A call on the temporary file of the run that leaves it as file. *)
Rework(w, from, file, to) ==
  /\ pc[w] = from
  /\ temps' = [temps EXCEPT ![TempName(w)] = file]
  /\ Goto(w, to)
  /\ UNCHANGED <<dest, survivors, pid, attempt, given, stranded, powerLost>>

WriteContents(w) ==
  Rework(w, "write", [temps[TempName(w)] EXCEPT !.whole = TRUE], "perm")

SetPermissions(w) ==
  Rework(w, "perm", [temps[TempName(w)] EXCEPT !.moded = given[w]], "sync")

\* Mutant: the data is left in the page cache.
SyncNothing(w) ==
  Rework(w, "sync", temps[TempName(w)], "finalize")

SyncAll(w) ==
  Rework(w, "sync", [temps[TempName(w)] EXCEPT !.synced = TRUE], "finalize")

(* resign_if_needed: codesign rewrites the file, after sync_all. *)
Finalize(w) ==
  Rework(w, "finalize",
         IF w \in Resigners
         THEN [temps[TempName(w)] EXCEPT !.signed = TRUE, !.synced = FALSE]
         ELSE temps[TempName(w)],
         "replace")

\* Mutant: a call after the rename fails, and its error is returned.
ReplaceThenFail(w) ==
  /\ pc[w] = "replace"
  /\ dest' = temps[TempName(w)]
  /\ temps' = [temps EXCEPT ![TempName(w)] = NoFile]
  /\ survivors' = survivors \cup {dest'}
  /\ pc' \in {[pc EXCEPT ![w] = label] : label \in {"done", "failed"}}
  /\ UNCHANGED <<pid, attempt, given, stranded, powerLost>>

(* replace_destination: one rename, which also removes the temporary name. *)
Replace(w) ==
  /\ pc[w] = "replace"
  /\ dest' = temps[TempName(w)]
  /\ temps' = [temps EXCEPT ![TempName(w)] = NoFile]
  /\ survivors' = survivors \cup {dest'}
  /\ Goto(w, "done")
  /\ UNCHANGED <<pid, attempt, given, stranded, powerLost>>

(* The calls of the prepared temporary file that can fail: a run without
   permissions makes no call to set them, only re-signing can fail to finalize. *)
CanFail(w) ==
  \/ pc[w] \in {"write", "sync", "replace"}
  \/ pc[w] = "perm" /\ given[w]
  \/ pc[w] = "finalize" /\ w \in Resigners

\* Mutant: an error is returned before the temporary file is removed.
FailLateNoCleanup(w) ==
  /\ CanFail(w)
  /\ Goto(w, "failed")
  /\ UNCHANGED <<dest, temps, survivors, pid, attempt, given, stranded, powerLost>>

(* A call on the temporary file fails: the run has to clean up. *)
FailLate(w) ==
  /\ CanFail(w)
  /\ Goto(w, "discard")
  /\ UNCHANGED <<dest, temps, survivors, pid, attempt, given, stranded, powerLost>>

(* let _ = fs::remove_file(..): its own failure goes unnoticed. *)
Discard(w) ==
  /\ pc[w] = "discard"
  /\ \/ /\ temps' = [temps EXCEPT ![TempName(w)] = NoFile]
        /\ UNCHANGED stranded
     \/ /\ stranded' = stranded \cup {w}
        /\ UNCHANGED temps
  /\ Goto(w, "failed")
  /\ UNCHANGED <<dest, survivors, pid, attempt, given, powerLost>>

(* The steps a run that is not killed goes on taking. *)
Advance(w) ==
  \/ Stat(w) \/ MakeParent(w) \/ CreateTemp(w) \/ GiveUp(w)
  \/ WriteContents(w) \/ SetPermissions(w) \/ SyncAll(w) \/ Finalize(w)
  \/ Replace(w) \/ Discard(w)

Fail(w) == FailEarly(w) \/ FailLate(w)

-----------------------------------------------------------------------------
(* The surroundings *)

(* The process is killed. *)
Kill(w) ==
  /\ pc[w] \in Running
  /\ Goto(w, "killed")
  /\ UNCHANGED <<dest, temps, survivors, pid, attempt, given, stranded, powerLost>>

UserDeletes ==
  /\ dest # NoFile
  /\ dest' = NoFile
  /\ survivors' = survivors \cup {NoFile}
  /\ UNCHANGED <<temps, pc, pid, attempt, given, stranded, powerLost>>

(* The file system commits its journal: the directory is durable now.  debun
   never asks for it. *)
Settle ==
  /\ survivors # {dest}
  /\ survivors' = {dest}
  /\ UNCHANGED <<dest, temps, pc, pid, attempt, given, stranded, powerLost>>

(* What is left of a file whose data was not flushed. *)
Torn(f) == [f EXCEPT !.whole = FALSE, !.synced = TRUE]

(* What the disk may hold of a file. *)
OnDisk(f) == IF f = NoFile \/ f.synced THEN {f} ELSE {f, Torn(f)}

(* The runs whose temporary file may be found under a name after a power loss:
   its owner, or a run whose rename of it did not last. *)
Litterers(n) ==
  {w \in Writers : /\ TempName(w) = n
                   /\ \E f \in {temps[n]} \cup survivors : f # NoFile /\ f.by = w}

(* Any of the temporary files may be lost; nobody reads those that are not. *)
PowerLoss ==
  /\ ~powerLost
  /\ powerLost' = TRUE
  /\ \E version \in survivors : dest' \in OnDisk(version)
  /\ survivors' = {dest'}
  /\ temps' \in {t \in [TempNames -> {NoFile} \cup {Torn(EmptyFile(w)) : w \in Writers}] :
                   \A n \in TempNames : t[n] # NoFile => t[n].by \in Litterers(n)}
  /\ pc' = [w \in Writers |-> IF pc[w] \in Running THEN "killed" ELSE pc[w]]
  /\ UNCHANGED <<pid, attempt, given, stranded>>

-----------------------------------------------------------------------------
Next ==
  \/ \E w \in Writers : Start(w) \/ Advance(w) \/ Fail(w) \/ Kill(w)
  \/ UserDeletes
  \/ Settle
  \/ PowerLoss

Spec == Init /\ [][Next]_vars

(* A process that is not killed goes on to its next call; no call has to fail. *)
FairSpec == Spec /\ \A w \in Writers : WF_vars(Advance(w))

-----------------------------------------------------------------------------
(* Properties *)

TypeOK ==
  /\ dest \in File \cup {NoFile}
  /\ temps \in [TempNames -> File \cup {NoFile}]
  /\ survivors \subseteq File \cup {NoFile}
  /\ pc \in [Writers -> PC]
  /\ pid \in [Writers -> Pids]
  /\ attempt \in [Writers -> 0 .. MaxAttempts]
  /\ given \in [Writers -> BOOLEAN]
  /\ stranded \subseteq Writers
  /\ powerLost \in BOOLEAN

(* What a reader of the destination may count on: all the content, with the
   permissions the run meant it to have, signed if it had to be. *)
Complete(f) ==
  /\ f.whole
  /\ f.by \in Writers => (f.moded = given[f.by])
  /\ f.by \in Resigners => f.signed

(* The destination is the original file or the complete output of one run,
   whatever other runs do, wherever a run fails or is killed, and after a
   power loss; except that a power loss may tear a file that codesign rewrote
   after sync_all, before its data reached the disk. *)
DestComplete ==
  dest # NoFile => Complete(dest) \/ (powerLost /\ dest.by \in Resigners)

(* create_new makes the temporary file of a run its own: nobody else writes,
   renames or removes it, even a run with the same process id. *)
TempExclusive ==
  \A v, w \in Writers :
    /\ pc[w] \in Holding
    /\ pc[v] \in Holding
    /\ TempName(v) = TempName(w)
    => v = w

(* A temporary file belongs to a run that is still at work, unless that run was
   killed, could not remove it, or its rename was undone by a power loss. *)
NoLitter ==
  \A n \in TempNames : temps[n] # NoFile =>
    LET w == temps[n].by IN
      \/ pc[w] \in Holding \cup {"killed"}
      \/ w \in stranded
      \/ powerLost

(* A run that has been started ends, whatever its siblings do. *)
RunsEnd == \A w \in Writers : (pc[w] \in Running) ~> (pc[w] \in Ended)

(* The code implements the promise of AtomicReplace: a run that fails leaves the
   destination alone, one that succeeds replaced it in one step. *)
ContentOf(f) == IF f = NoFile THEN NoFile ELSE f.by

Outcome(w) ==
  IF pc[w] = "done" THEN "ok"
  ELSE IF pc[w] = "failed" THEN "error"
  ELSE IF pc[w] = "killed" THEN "dead"
  ELSE "pending"

Promise == INSTANCE AtomicReplace
  WITH content <- ContentOf(dest),
       fallback <- {ContentOf(f) : f \in survivors},
       outcome <- [w \in Writers |-> Outcome(w)]

ImplementsPromise == Promise!Spec

=============================================================================
