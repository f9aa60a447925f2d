----------------------------- MODULE PackPatch -----------------------------
(***************************************************************************)
(* The editing workflow of debun on one workspace: unpack an executable,    *)
(* edit the extracted files, pack them into the saved base executable, or   *)
(* make a patch of the edits and apply it to an executable, the same one or *)
(* another release (src/src/pack.rs, patch.rs, replacement_workspace.rs).   *)
(*                                                                         *)
(* One command runs at a time, as a whole; Workspace is about what happens  *)
(* when it does not.  A command that is refused changes nothing (AtomicFile) *)
(* and is not a step.                                                      *)
(***************************************************************************)
EXTENDS Standalone

CONSTANTS
  Releases,   \* the executables that Bun built, before any edit
  Decodable,  \* the byte strings that the sidecar decoders can read
  Scribble,   \* a decoded helper file the user has changed
  NoBase,     \* no workspace
  NoPatch,    \* no patch file
  MaxEdits    \* bound of the model: edits the user makes in a behaviour

ASSUME WorkflowAssumption ==
  /\ \A release \in Releases : IsBinary(release)
  /\ Decodable \subseteq Bytes
  /\ MaxEdits \in Nat

VARIABLES
  app,      \* the executable the user works on
  base,     \* .debun/base-executable, or NoBase
  files,    \* the packable files under embedded/files
  helpers,  \* the decoded .json files: what they are the rendering of
  strange,  \* the workspace holds a symlink or a file pack has no use for
  patch,    \* the patch file, or NoPatch
  origin,   \* history: the executable and the files the patch was made of
  edits     \* history: how often the user has edited

vars == <<app, base, files, helpers, strange, patch, origin, edits>>

-----------------------------------------------------------------------------
(* Files of a workspace *)

Decoded == {"sourcemap", "module_info"}

Files   == [BunFS -> Parts]
Helpers == [BunFS -> [Decoded -> Decodable \cup {None, Scribble}]]

(* A patch: for each part that differs, the state it must have in the target
   (by its SHA-256, taken as injective) and the state it gets. *)
Record  == [expected : Data \cup {None}, replacement : Data \cup {None}]

IsPatch(records) ==
  /\ DOMAIN records \subseteq BunFS \X Part
  /\ records \in [DOMAIN records -> Record]

(* structured_embedded_files. *)
Extracted(b) ==
  [m \in BunFS |-> IF m \in BunFSModules(b) THEN b.graph[m] ELSE [p \in Part |-> None]]

(* The helper a part is decoded to, if the decoder accepts it. *)
Rendering(b, m, d) ==
  IF m \in BunFSModules(b) /\ b.graph[m][d] \in Decodable THEN b.graph[m][d] ELSE None

Rendered(b) == [m \in BunFS |-> [d \in Decoded |-> Rendering(b, m, d)]]

-----------------------------------------------------------------------------
(* What pack and patch read from a workspace *)

\* Mutant: files that belong to no module are skipped.
ValidIgnoringUnknown(b) ==
  /\ ~strange
  /\ \A m \in BunFS, d \in Decoded : helpers[m][d] \in {None, Rendering(b, m, d)}

(* validate_workspace_files: no file is unknown, no helper was changed. *)
ValidWorkspace(b) ==
  /\ ~strange
  /\ \A m \in BunFS \ BunFSModules(b), p \in Part : files[m][p] = None
  /\ \A m \in BunFS, d \in Decoded : helpers[m][d] \in {None, Rendering(b, m, d)}

(* Both refuse a workspace without the contents of a module. *)
Ready(b) ==
  /\ ValidWorkspace(b)
  /\ \A m \in BunFSModules(b) : files[m]["contents"] # None

(* The parts that are not what they are in the base. *)
Changed(b) ==
  {k \in BunFSModules(b) \X Part : files[k[1]][k[2]] # b.graph[k[1]][k[2]]}

\* Mutant: an optional part that is absent is kept instead of removed.
CollectKeepingAbsent(b) ==
  [m \in {k[1] : k \in Changed(b)} |->
     [p \in Part |-> IF <<m, p>> \in Changed(b) /\ files[m][p] # None
                     THEN files[m][p] ELSE Keep]]

(* collect_replacements. *)
CollectReplacements(b) ==
  [m \in {k[1] : k \in Changed(b)} |->
     [p \in Part |-> IF <<m, p>> \in Changed(b) THEN files[m][p] ELSE Keep]]

(* pack_binary: whether it goes through, and what it writes. *)
CanPack(b) == Ready(b) /\ CanRebuild(b, CollectReplacements(b))
Packed(b)  == Rebuild(b, CollectReplacements(b))

(* create_patch: it goes through if the workspace is ready; what it writes. *)
Records(b) ==
  [k \in Changed(b) |->
     [expected |-> b.graph[k[1]][k[2]], replacement |-> files[k[1]][k[2]]]]

-----------------------------------------------------------------------------
(* What apply-patch makes of an executable *)

\* Mutant: the hash of the expected part is not compared.
ApplicableUnchecked(records, b) ==
  \A k \in DOMAIN records :
    /\ k[1] \in BunFSModules(b)
    /\ k[2] = "contents" => records[k].replacement # None

(* The checks of build_replacements, record by record. *)
Applicable(records, b) ==
  \A k \in DOMAIN records :
    /\ k[1] \in BunFSModules(b)
    /\ records[k].expected = b.graph[k[1]][k[2]]
    /\ k[2] = "contents" => records[k].replacement # None

\* Mutant: the parts of a module that the patch does not mention are removed.
BuildRemovingOthers(records) ==
  [m \in {k[1] : k \in DOMAIN records} |->
     [p \in Part |-> IF <<m, p>> \in DOMAIN records THEN records[<<m, p>>].replacement
                     ELSE IF p = "contents" THEN Keep ELSE None]]

(* The replacements of build_replacements. *)
BuildReplacements(records) ==
  [m \in {k[1] : k \in DOMAIN records} |->
     [p \in Part |-> IF <<m, p>> \in DOMAIN records
                     THEN records[<<m, p>>].replacement
                     ELSE Keep]]

(* apply_patch: whether it goes through, and what it writes. *)
CanApply(records, b) ==
  Applicable(records, b) /\ CanRebuild(b, BuildReplacements(records))
Applied(records, b) == Rebuild(b, BuildReplacements(records))

-----------------------------------------------------------------------------
Init ==
  /\ app \in Releases
  /\ base = NoBase
  /\ files = [m \in BunFS |-> [p \in Part |-> None]]
  /\ helpers = [m \in BunFS |-> [d \in Decoded |-> None]]
  /\ strange = FALSE
  /\ patch = NoPatch
  /\ origin = NoPatch
  /\ edits = 0

(* unpack: the workspace is rewritten from the executable. *)
Unpack ==
  /\ base' = app
  /\ files' = Extracted(app)
  /\ helpers' = Rendered(app)
  /\ strange' = FALSE
  /\ UNCHANGED <<app, patch, origin, edits>>

Editing ==
  /\ base # NoBase
  /\ edits < MaxEdits
  /\ edits' = edits + 1
  /\ UNCHANGED <<app, base, patch, origin>>

(* The user writes or removes a file, of a module of the base or not. *)
EditFile(m, p, data) ==
  /\ Editing
  /\ files' = [files EXCEPT ![m][p] = data]
  /\ UNCHANGED <<helpers, strange>>

(* The user changes, removes or makes up a decoded file. *)
EditHelper(m, d, text) ==
  /\ Editing
  /\ helpers' = [helpers EXCEPT ![m][d] = text]
  /\ UNCHANGED <<files, strange>>

(* The user puts a symlink or a file of no module into the tree. *)
AddStrange ==
  /\ Editing
  /\ strange' = TRUE
  /\ UNCHANGED <<files, helpers>>

(* pack --out app. *)
Pack ==
  /\ base # NoBase
  /\ CanPack(base)
  /\ app' = Packed(base)
  /\ UNCHANGED <<base, files, helpers, strange, patch, origin, edits>>

(* patch: create_patch. *)
CreatePatch ==
  /\ base # NoBase
  /\ Ready(base)
  /\ patch' = Records(base)
  /\ origin' = [base |-> base, files |-> files]
  /\ UNCHANGED <<app, base, files, helpers, strange, edits>>

(* apply-patch patch app --out app. *)
ApplyPatch ==
  /\ patch # NoPatch
  /\ CanApply(patch, app)
  /\ app' = Applied(patch, app)
  /\ UNCHANGED <<base, files, helpers, strange, patch, origin, edits>>

(* The user takes another release of the program. *)
TakeRelease ==
  /\ app' \in Releases
  /\ UNCHANGED <<base, files, helpers, strange, patch, origin, edits>>

Next ==
  \/ Unpack
  \/ \E m \in BunFS, p \in Part, data \in Data \cup {None} : EditFile(m, p, data)
  \/ \E m \in BunFS, d \in Decoded, text \in {None, Scribble} : EditHelper(m, d, text)
  \/ AddStrange
  \/ Pack
  \/ CreatePatch
  \/ ApplyPatch
  \/ TakeRelease

Spec == Init /\ [][Next]_vars

-----------------------------------------------------------------------------
(* Properties *)

TypeOK ==
  /\ IsBinary(app)
  /\ base # NoBase => IsBinary(base)
  /\ files \in Files
  /\ helpers \in Helpers
  /\ strange \in BOOLEAN
  /\ patch # NoPatch => /\ IsPatch(patch)
                        /\ IsBinary(origin.base)
                        /\ origin.files \in Files
  /\ edits \in 0 .. MaxEdits

(* The patch workflow has the packable surface of pack (README.md:121): if patch
   takes a workspace, applying the patch to the base gives what pack gives, and
   is refused where pack is. *)
PatchMeansPack ==
  base # NoBase /\ Ready(base) =>
    /\ CanApply(Records(base), base) <=> CanPack(base)
    /\ Applied(Records(base), base) = Packed(base)

(* Applying a patch a second time is refused or changes nothing. *)
ReapplyHarmless ==
  patch # NoPatch /\ CanApply(patch, app) =>
    LET once == Applied(patch, app) IN
      CanApply(patch, once) => Applied(patch, once) = once

(* Patches of different parts (the patch file and one of the workspace as it is now) that
   both apply to an executable make the same of it in either order, and the second one is
   refused for nothing but the size of what both make.  If it is, then in either order,
   but for an ELF file that loses with the first what room the second would need. *)
DisjointPatchesCommute ==
  patch # NoPatch /\ base # NoBase =>
    LET other == Records(base)
        first == Applied(patch, app)
        then  == Applied(other, app)
        both  == Applied(other, first)
    IN
      /\ Ready(base)
      /\ DOMAIN patch \cap DOMAIN other = {}
      /\ CanApply(patch, app)
      /\ CanApply(other, app)
      => /\ both = Applied(patch, then)
         /\ CanApply(other, first) \/ ~Fits(first, both.graph)
         /\ CanApply(patch, then) \/ ~Fits(then, both.graph)
         /\ app.container # "shrinking" => (CanApply(other, first) <=> CanApply(patch, then))

(* apply-patch changes what the user changed and nothing else, and only where the
   executable still has what the user changed: each part whose file was not that of
   the patch's base was that of the base, and is the file now (or is gone, where the file
   is an empty sidecar or the record has no field for it); every other part stays. *)
ChangesWereMeant ==
  [][ApplyPatch =>
       /\ DOMAIN app'.graph = DOMAIN app.graph
       /\ \A m \in DOMAIN app.graph, p \in Part :
            IF m \in BunFSModules(origin.base) /\ origin.files[m][p] # origin.base.graph[m][p]
            THEN /\ app.graph[m][p] = origin.base.graph[m][p]
                 /\ \/ app'.graph[m][p] = origin.files[m][p]
                    \/ p # "contents" /\ origin.files[m][p] = Empty /\ app'.graph[m][p] = None
                    \/ p \notin Stored[app.layout] /\ app'.graph[m][p] = None
            ELSE app'.graph[m][p] = app.graph[m][p]]_vars

(* pack puts every file into the executable and nothing else: unpacking it again
   gives the same files, but for sidecars of length zero and those the record
   layout has no field for. *)
PackKeepsFiles ==
  [][Pack =>
       /\ DOMAIN app'.graph = DOMAIN base.graph
       /\ \A m \in BunFS, p \in Part :
            \/ Extracted(app')[m][p] = files[m][p]
            \/ p # "contents" /\ files[m][p] = Empty /\ Extracted(app')[m][p] = None
            \/ p \notin Stored[base.layout] /\ Extracted(app')[m][p] = None
       /\ \A m \in DOMAIN base.graph \cap Foreign : app'.graph[m] = base.graph[m]]_vars

=============================================================================
