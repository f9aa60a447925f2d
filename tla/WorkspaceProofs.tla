-------------------------- MODULE WorkspaceProofs --------------------------
(***************************************************************************)
(* The safety of Workspace for any number of runs, executables, embedded     *)
(* files and edits: types, a base executable that is whole and not lost by a  *)
(* kill, embedded files of one run, and a pack that reads one run's work.     *)
(***************************************************************************)
EXTENDS Workspace, TLAPS

-----------------------------------------------------------------------------
(* The inductive invariant *)

(* What a run has inspected and staged, by where it is. *)
StagedBy(u) ==
  /\ upc[u] = "idle" => seen[u] = None
  /\ upc[u] \in {"idle", "stage"} => stage[u] = None
  /\ upc[u] \notin {"idle", "failed", "killed"} => seen[u] \in Versions
  /\ upc[u] \in Staging \cup {"stage", "install"} => seen[u] \notin Graphless
  /\ upc[u] \in {"make", "create", "fill"} => seen[u] \notin Plain
  /\ upc[u] \in Staging => stage[u] # None
  /\ upc[u] = "copy" => stage[u].base = None
  /\ upc[u] = "copying" => stage[u].base # None
  /\ upc[u] = "path" => Whole(stage[u].base)
  /\ upc[u] \in {"drop", "dropping", "install"} /\ seen[u] \notin Graphless =>
       stage[u] # None /\ Whole(stage[u].base)
  /\ upc[u] \in {"drop", "dropping"} /\ seen[u] \in Graphless => stage[u] = None

Staged == \A u \in Unpackers : StagedBy(u)

(* The runs that wrote are known, and where they are in the order of files. *)
Sessions ==
  \A u \in Unpackers :
    /\ upc[u] \in Writing => u \in since
    /\ u \in since => upc[u] \in Writing \cup Ended
    /\ upc[u] \notin {"create", "fill"} => next[u] = 1

(* The i-th file of run u is created, and filled. *)
Made(u, i)   == upc[u] = "done" \/ i < next[u] \/ (upc[u] = "fill" /\ i = next[u])
Filled(u, i) == upc[u] = "done" \/ i < next[u]

(* Whatever run u has made of embedded is there and its own, but for what the user
   has changed. *)
Leads(u) ==
  \A i \in 1 .. Len(Order) : Made(u, i) =>
    \/ Order[i] \in touched
    \/ /\ FileAt(Order[i]) # None
       /\ FileAt(Order[i]).by = u
       /\ FileAt(Order[i]).from = seen[u]
       /\ Filled(u, i) => FileAt(Order[i]).whole

(* Once the runs that write have all emptied embedded, and as long as none of them
   fails, one of them leads: the last that found embedded empty. *)
PastClearing(u) == upc[u] \in {"make", "create", "fill", "done"} /\ seen[u] \notin Plain

OneLeads ==
  since # {} /\ (\A u \in since : PastClearing(u)) => \E u \in since : Leads(u)

(* An executable without a module graph leaves no .debun behind. *)
GraphlessLeavesNone ==
  \A u \in Unpackers :
    /\ since = {u}
    /\ upc[u] \in {"clear", "clearing", "make", "create", "fill", "done"}
    /\ seen[u] \in Graphless
    => support = None

(* What a pack run has read of the workspace that it found. *)
ReadOf(p, u) ==
  /\ Base # None /\ Base.from = seen[u] /\ seen[u] \notin Graphless
  /\ ppc[p] \in {"permissions", "validate", "collect", "write"} =>
       Whole(got[p].base) /\ got[p].base.from = seen[u]
  /\ \A i \in 1 .. Len(Order) :
       ppc[p] = "write" \/ (ppc[p] = "collect" /\ i < at[p]) =>
         \/ Whole(got[p].files[Order[i]]) /\ got[p].files[Order[i]].from = seen[u]
         \/ Order[i] \in touched

PackReads ==
  \A p \in Packers :
    /\ ppc[p] \in {"idle", "read", "permissions", "validate"} => at[p] = 1
    /\ expect[p] # None =>
       /\ upc[expect[p]] = "done"
       /\ since = {expect[p]} => ReadOf(p, expect[p])

IInv ==
  /\ TypeOK
  /\ Staged
  /\ BaseWhole
  /\ Sessions
  /\ OneLeads
  /\ GraphlessLeavesNone
  /\ PackReads
  /\ BaseRecoverable

-----------------------------------------------------------------------------
(* Lemmas about types *)

LEMMA Orders ==
  /\ Len(Order) \in Nat \ {0}
  /\ \A i \in 1 .. Len(Order) : Order[i] \in Keys
  /\ \A k \in Keys : \E i \in 1 .. Len(Order) : Order[i] = k
<1>1. Order \in Seq(Keys) /\ Order # << >>
  BY WorkspaceAssumption
<1>2. Len(Order) \in Nat \ {0}
  BY <1>1
<1> QED
  BY <1>2 DEF Keys

(* What runs and the user put into files and directories. *)
LEMMA Values ==
  /\ \A v \in Versions, u \in Unpackers, whole \in BOOLEAN : [from |-> v, by |-> u, whole |-> whole] \in Image
  /\ \A v \in Versions : Copied(v) \in Image
  /\ Image \subseteq File
  /\ \A f \in Image : f.from \in Versions /\ f.by \in Creators /\ f.whole \in BOOLEAN
  /\ UserFile \in File
  /\ \A f \in File : f.from \in Versions \cup {User} /\ f.by \in Creators /\ f.whole \in BOOLEAN
  /\ NothingRead \in [base : Image \cup {None}, files : [Keys -> File \cup {None}]]
  /\ \A u \in Unpackers : NewTree(u) \in Tree
BY DEF File, Image, Creators, Copied, UserFile, NothingRead, NewTree, Tree

(* FileAt and Base are files. *)
LEMMA FileTypes ==
  ASSUME TypeOK
  PROVE  /\ Base \in Image \cup {None}
         /\ \A k \in Keys : FileAt(k) \in File \cup {None}
         /\ support # None => support \in SupportDir
         /\ tree # None => tree \in Tree
BY DEF TypeOK, Base, FileAt, SupportDir, Tree

LEMMA SourceTypes ==
  ASSUME TypeOK, NEW u \in Unpackers, Source(u) # None
  PROVE  Source(u) \in Image
BY FileTypes, Values DEF TypeOK, Source

-----------------------------------------------------------------------------
(* Types *)

LEMMA TypeStep ==
  ASSUME TypeOK, Staged, [Next]_vars
  PROVE  TypeOK'
<1>1. ASSUME NEW u \in Unpackers, Inspect(u) PROVE TypeOK'
  BY <1>1, SourceTypes, Values DEF Inspect, Step, TypeOK, UPC, Staging, Writing, Ended, userVars, packVars
<1>2. ASSUME NEW u \in Unpackers, CreateStage(u) PROVE TypeOK'
  BY <1>2 DEF CreateStage, Step, SupportDir, Creators, TypeOK, UPC, Staging, Writing, Ended, userVars, packVars
<1>3. ASSUME NEW u \in Unpackers, BeginCopy(u) PROVE TypeOK'
  BY <1>3, SourceTypes, Values DEF BeginCopy, Step, SupportDir, TypeOK, UPC, Staging, Writing, Ended, userVars, packVars, Staged, StagedBy, Staging
<1>4. ASSUME NEW u \in Unpackers, EndCopy(u) PROVE TypeOK'
  BY <1>4 DEF EndCopy, Step, SupportDir, Image, TypeOK, UPC, Staging, Writing, Ended, userVars, packVars, Staged, StagedBy, Staging
<1>5. ASSUME NEW u \in Unpackers, WritePath(u) PROVE TypeOK'
  BY <1>5 DEF WritePath, Step, SupportDir, TypeOK, UPC, Staging, Writing, Ended, userVars, packVars, Staged, StagedBy, Staging
<1>6. ASSUME NEW u \in Unpackers, OpenSupport(u) PROVE TypeOK'
  BY <1>6 DEF OpenSupport, Step, AfterSupport, Joined, SupportDir, TypeOK, UPC, Staging, Writing, Ended, userVars, packVars
<1>7. ASSUME NEW u \in Unpackers, UnlinkSupport(u) PROVE TypeOK'
  BY <1>7 DEF UnlinkSupport, Step, SupportDir, TypeOK, UPC, Staging, Writing, Ended, userVars, packVars
<1>8. ASSUME NEW u \in Unpackers, RemoveSupport(u) PROVE TypeOK'
  BY <1>8 DEF RemoveSupport, Step, AfterSupport, TypeOK, UPC, Staging, Writing, Ended, userVars, packVars
<1>9. ASSUME NEW u \in Unpackers, Install(u) PROVE TypeOK'
  BY <1>9 DEF Install, Step, TypeOK, UPC, Staging, Writing, Ended, userVars, packVars
<1>10. ASSUME NEW u \in Unpackers, OpenTree(u) PROVE TypeOK'
  BY <1>10 DEF OpenTree, Step, AfterTree, Tree, TypeOK, UPC, Staging, Writing, Ended, userVars, packVars
<1>11. ASSUME NEW u \in Unpackers, NEW k \in Keys, UnlinkFile(u, k) PROVE TypeOK'
  BY <1>11 DEF UnlinkFile, Step, Tree, FileAt, TypeOK, UPC, Staging, Writing, Ended, userVars, packVars
<1>12. ASSUME NEW u \in Unpackers, RemoveTree(u) PROVE TypeOK'
  BY <1>12 DEF RemoveTree, Step, AfterTree, TypeOK, UPC, Staging, Writing, Ended, userVars, packVars
<1>13. ASSUME NEW u \in Unpackers, MakeTree(u) PROVE TypeOK'
  BY <1>13, Values DEF MakeTree, Step, TypeOK, UPC, Staging, Writing, Ended, userVars, packVars
<1>14. ASSUME NEW u \in Unpackers, CreateFile(u) PROVE TypeOK'
  <2> DEFINE k == Order[next[u]]
             made == IF tree = None THEN NewTree(u) ELSE tree
             file == [from |-> seen[u], by |-> u, whole |-> FALSE]
  <2>1. k \in Keys /\ made \in Tree
    BY Values, Orders, FileTypes DEF TypeOK
  <2>2. file \in File
    BY <1>14, Values DEF CreateFile, Step, Staged, StagedBy
  <2>3. [made EXCEPT !.files[k] = file] \in Tree
    BY <2>1, <2>2 DEF Tree
  <2>4. tree' \in Tree
    BY <1>14, <2>3 DEF CreateFile
  <2>5. upc' \in [Unpackers -> UPC]
    BY <1>14 DEF CreateFile, Step, TypeOK, UPC, Writing
  <2> QED
    BY <1>14, <2>4, <2>5 DEF CreateFile, TypeOK, userVars, packVars
<1>15. ASSUME NEW u \in Unpackers, FillFile(u) PROVE TypeOK'
  <2> DEFINE k == Order[next[u]]
  <2>1. k \in Keys
    BY Orders DEF TypeOK
  <2>2. tree' \in Tree \cup {None}
    <3>1. CASE FileAt(k) # None /\ FileAt(k).by = u
      <4>1. tree \in Tree /\ FileAt(k) = tree.files[k] /\ tree.files[k] \in File
        BY <2>1, <3>1, FileTypes DEF FileAt, Tree
      <4>2. [tree.files[k] EXCEPT !.whole = TRUE] \in File
        BY <4>1 DEF File
      <4>3. tree' = [tree EXCEPT !.files[k].whole = TRUE]
        BY <1>15, <3>1 DEF FillFile
      <4> QED
        BY <4>1, <4>2, <4>3, <2>1 DEF Tree
    <3> QED
      BY <1>15, <3>1 DEF FillFile, TypeOK
  <2>3. upc' \in [Unpackers -> UPC]
    BY <1>15 DEF FillFile, Step, TypeOK, UPC, Writing, Ended
  <2>4. next' \in [Unpackers -> 1 .. Len(Order)]
    BY <1>15, Orders DEF FillFile, TypeOK
  <2> QED
    BY <1>15, <2>2, <2>3, <2>4 DEF FillFile, TypeOK, userVars, packVars
<1>16. ASSUME NEW u \in Unpackers, FailStaging(u) PROVE TypeOK'
  BY <1>16 DEF FailStaging, Step, TypeOK, UPC, Staging, Writing, Ended, userVars, packVars
<1>17. ASSUME NEW u \in Unpackers, FailInstall(u) PROVE TypeOK'
  BY <1>17 DEF FailInstall, Step, TypeOK, UPC, Staging, Writing, Ended, userVars, packVars
<1>18. ASSUME NEW u \in Unpackers, FailUnpack(u) PROVE TypeOK'
  BY <1>18, Orders DEF FailUnpack, Step, Forget, TypeOK, UPC, Staging, Writing, Ended, userVars, packVars
<1>19. ASSUME NEW u \in Unpackers, Kill(u) PROVE TypeOK'
  BY <1>19, Orders DEF Kill, Step, Forget, TypeOK, UPC, Staging, Writing, Ended, userVars, packVars
<1>20. ASSUME NEW p \in Packers, Resolve(p) PROVE TypeOK'
  BY <1>20 DEF Resolve, PackStep, TypeOK, PPC, userVars, unpackVars
<1>21. ASSUME NEW p \in Packers, ReadBase(p) PROVE TypeOK'
  BY <1>21, FileTypes DEF ReadBase, PackStep, TypeOK, PPC, userVars, unpackVars
<1>22. ASSUME NEW p \in Packers, ReadPermissions(p) PROVE TypeOK'
  BY <1>22 DEF ReadPermissions, PackStep, TypeOK, PPC, userVars, unpackVars
<1>23. ASSUME NEW p \in Packers, Validate(p) PROVE TypeOK'
  BY <1>23 DEF Validate, PackStep, TypeOK, PPC, userVars, unpackVars
<1>24. ASSUME NEW p \in Packers, Collect(p) PROVE TypeOK'
  <2> DEFINE k == Order[at[p]]
  <2>1. k \in Keys /\ FileAt(k) \in File \cup {None}
    BY Orders, FileTypes DEF TypeOK
  <2>2. got' = [got EXCEPT ![p].files[k] = FileAt(k)]
    BY <1>24 DEF Collect
  <2>3. got' \in [Packers -> [base : Image \cup {None}, files : [Keys -> File \cup {None}]]]
    BY <2>1, <2>2 DEF TypeOK
  <2>4. at' \in [Packers -> 1 .. Len(Order)]
    BY <1>24, Orders DEF Collect, TypeOK
  <2>5. ppc' \in [Packers -> PPC]
    BY <1>24 DEF Collect, PackStep, TypeOK, PPC
  <2> QED
    BY <1>24, <2>3, <2>4, <2>5 DEF Collect, TypeOK, userVars, unpackVars
<1>25. ASSUME NEW p \in Packers, Write(p) PROVE TypeOK'
  BY <1>25, Values, Orders DEF Write, PackStep, EndPack, TypeOK, PPC, userVars, unpackVars
<1>26. ASSUME NEW p \in Packers, FailPack(p) PROVE TypeOK'
  BY <1>26, Values, Orders DEF FailPack, PackStep, EndPack, TypeOK, PPC, userVars, unpackVars
<1>27. ASSUME NEW k \in Keys, NEW file \in {UserFile, None}, Edit(k, file) PROVE TypeOK'
  <2>1. tree' \in Tree
    BY <1>27, Values, FileTypes DEF Edit, Tree
  <2>2. edits' \in 0 .. MaxEdits
    BY <1>27, WorkspaceAssumption DEF Edit, TypeOK
  <2> QED
    BY <1>27, <2>1, <2>2 DEF Edit, TypeOK, packVars
<1>28. ASSUME NEW v \in Versions, Rebuild(v) PROVE TypeOK'
  BY <1>28, WorkspaceAssumption DEF Rebuild, TypeOK, unpackVars, packVars
<1>29. CASE UNCHANGED vars
  BY <1>29 DEF vars, userVars, unpackVars, packVars, TypeOK
<1> QED
  BY <1>1, <1>2, <1>3, <1>4, <1>5, <1>6, <1>7, <1>8, <1>9, <1>10, <1>11, <1>12, <1>13, <1>14, <1>15, <1>16, <1>17, <1>18, <1>19, <1>20, <1>21, <1>22, <1>23, <1>24, <1>25, <1>26, <1>27, <1>28, <1>29
  DEF Next, Unpack, Pack

-----------------------------------------------------------------------------
(* Staged directories and the base executable *)

LEMMA StagedStep ==
  ASSUME TypeOK, Staged, [Next]_vars
  PROVE  Staged'
<1>1. ASSUME NEW u \in Unpackers, Inspect(u) PROVE Staged'
  BY <1>1, SourceTypes DEF Inspect, Step, Staged, StagedBy, TypeOK, UPC, Staging, Writing, Ended, Image
<1>2. ASSUME NEW u \in Unpackers, CreateStage(u) PROVE Staged'
  <2>1. stage'[u] \in SupportDir /\ stage'[u].base = None
    BY <1>2 DEF CreateStage, SupportDir, Creators, TypeOK
  <2> QED
    BY <1>2, <2>1, NoneAssumption DEF CreateStage, Step, Staged, StagedBy, TypeOK, UPC, Staging, Writing, Ended, Whole
<1>3. ASSUME NEW u \in Unpackers, BeginCopy(u) PROVE Staged'
  <2>1. stage[u] \in SupportDir
    BY <1>3 DEF BeginCopy, Step, Staged, StagedBy, Staging, TypeOK
  <2>2. stage'[u].base \in Image
    BY <1>3, <2>1, SourceTypes, Values DEF BeginCopy, TypeOK, SupportDir
  <2>3. stage'[u] \in SupportDir
    BY <1>3, <2>1, <2>2 DEF BeginCopy, TypeOK, SupportDir
  <2>4. stage'[u] # None /\ stage'[u].base # None
    BY <2>2, <2>3, NoneAssumption, Values
  <2> QED
    BY <1>3, <2>4 DEF BeginCopy, Step, Staged, StagedBy, TypeOK, UPC, Staging, Writing, Ended, Whole
<1>4. ASSUME NEW u \in Unpackers, EndCopy(u) PROVE Staged'
  <2>1. stage[u] \in SupportDir /\ stage[u].base \in Image
    BY <1>4 DEF EndCopy, Step, Staged, StagedBy, Staging, TypeOK, SupportDir
  <2>2. stage'[u] \in SupportDir /\ stage'[u].base \in Image /\ stage'[u].base.whole
    BY <1>4, <2>1 DEF EndCopy, TypeOK, SupportDir, Image
  <2>3. stage'[u] # None /\ stage'[u].base # None
    BY <2>2, NoneAssumption, Values
  <2> QED
    BY <1>4, <2>2, <2>3 DEF EndCopy, Step, Staged, StagedBy, TypeOK, UPC, Staging, Writing, Ended, Whole
<1>5. ASSUME NEW u \in Unpackers, WritePath(u) PROVE Staged'
  <2>1. stage[u] \in SupportDir
    BY <1>5 DEF WritePath, Step, Staged, StagedBy, Staging, TypeOK
  <2>2. stage'[u] \in SupportDir /\ stage'[u].base = stage[u].base
    BY <1>5, <2>1 DEF WritePath, TypeOK, SupportDir
  <2>3. stage'[u] # None
    BY <2>2, NoneAssumption
  <2> QED
    BY <1>5, <2>2, <2>3 DEF WritePath, Step, Staged, StagedBy, TypeOK, UPC, Staging, Writing, Ended, Whole
<1>6. ASSUME NEW u \in Unpackers, OpenSupport(u) PROVE Staged'
  BY <1>6 DEF OpenSupport, Step, AfterSupport, Joined, Staged, StagedBy, TypeOK, UPC, Staging, Writing, Ended, Whole, userVars, packVars
<1>7. ASSUME NEW u \in Unpackers, UnlinkSupport(u) PROVE Staged'
  BY <1>7 DEF UnlinkSupport, Step, Staged, StagedBy, TypeOK, UPC, Staging, Writing, Ended, Whole, userVars, packVars
<1>8. ASSUME NEW u \in Unpackers, RemoveSupport(u) PROVE Staged'
  BY <1>8 DEF RemoveSupport, Step, AfterSupport, Staged, StagedBy, TypeOK, UPC, Staging, Writing, Ended, Whole, userVars, packVars
<1>9. ASSUME NEW u \in Unpackers, Install(u) PROVE Staged'
  BY <1>9 DEF Install, Step, Staged, StagedBy, TypeOK, UPC, Staging, Writing, Ended, Whole, userVars, packVars
<1>10. ASSUME NEW u \in Unpackers, OpenTree(u) PROVE Staged'
  BY <1>10 DEF OpenTree, Step, AfterTree, Staged, StagedBy, TypeOK, UPC, Staging, Writing, Ended, Whole, userVars, packVars
<1>11. ASSUME NEW u \in Unpackers, NEW k \in Keys, UnlinkFile(u, k) PROVE Staged'
  BY <1>11 DEF UnlinkFile, Step, Staged, StagedBy, TypeOK, UPC, Staging, Writing, Ended, Whole, userVars, packVars
<1>12. ASSUME NEW u \in Unpackers, RemoveTree(u) PROVE Staged'
  BY <1>12 DEF RemoveTree, Step, AfterTree, Staged, StagedBy, TypeOK, UPC, Staging, Writing, Ended, Whole, userVars, packVars
<1>13. ASSUME NEW u \in Unpackers, MakeTree(u) PROVE Staged'
  BY <1>13 DEF MakeTree, Step, Staged, StagedBy, TypeOK, UPC, Staging, Writing, Ended, Whole, userVars, packVars
<1>14. ASSUME NEW u \in Unpackers, CreateFile(u) PROVE Staged'
  BY <1>14 DEF CreateFile, Step, Staged, StagedBy, TypeOK, UPC, Staging, Writing, Ended, Whole, userVars, packVars
<1>15. ASSUME NEW u \in Unpackers, FillFile(u) PROVE Staged'
  BY <1>15 DEF FillFile, Step, Staged, StagedBy, TypeOK, UPC, Staging, Writing, Ended, Whole, userVars, packVars
<1>16. ASSUME NEW u \in Unpackers, FailStaging(u) PROVE Staged'
  BY <1>16 DEF FailStaging, Step, Staged, StagedBy, TypeOK, UPC, Staging, Writing, Ended, Whole, userVars, packVars
<1>17. ASSUME NEW u \in Unpackers, FailInstall(u) PROVE Staged'
  BY <1>17 DEF FailInstall, Step, Staged, StagedBy, TypeOK, UPC, Staging, Writing, Ended, Whole, userVars, packVars
<1>18. ASSUME NEW u \in Unpackers, FailUnpack(u) PROVE Staged'
  BY <1>18 DEF FailUnpack, Step, Forget, Staged, StagedBy, TypeOK, UPC, Staging, Writing, Ended, Whole, userVars, packVars
<1>19. ASSUME NEW u \in Unpackers, Kill(u) PROVE Staged'
  BY <1>19 DEF Kill, Step, Forget, Staged, StagedBy, TypeOK, UPC, Staging, Writing, Ended, Whole, userVars, packVars
<1>20. CASE UNCHANGED unpackVars
  BY <1>20 DEF unpackVars, Staged, StagedBy
<1>21. ASSUME NEW p \in Packers, Pack(p) \/ FailPack(p) PROVE UNCHANGED unpackVars
  BY <1>21 DEF Pack, FailPack, Resolve, ReadBase, ReadPermissions, Validate, Collect, Write
<1>22. ASSUME NEW k \in Keys, NEW file \in {UserFile, None}, Edit(k, file) PROVE Staged'
  BY <1>22 DEF Edit, Staged, StagedBy
<1>23. ASSUME NEW v \in Versions, Rebuild(v) PROVE UNCHANGED unpackVars
  BY <1>23 DEF Rebuild
<1>24. CASE UNCHANGED vars
  BY <1>24, <1>20 DEF vars
<1> QED
  BY <1>1, <1>2, <1>3, <1>4, <1>5, <1>6, <1>7, <1>8, <1>9, <1>10, <1>11, <1>12, <1>13, <1>14, <1>15, <1>16, <1>17, <1>18, <1>19, <1>20, <1>21, <1>22, <1>23, <1>24
  DEF Next, Unpack

(* .debun changes in three places only: entries go, the directory goes, and a
   staged one takes its place. *)
LEMMA SupportChanges ==
  ASSUME [Next]_vars
  PROVE  \/ UNCHANGED support
         \/ \E u \in Unpackers : UnlinkSupport(u) \/ RemoveSupport(u) \/ Install(u)
BY DEF Next, Unpack, Pack, Inspect, CreateStage, BeginCopy, EndCopy, WritePath, OpenSupport,
  OpenTree, UnlinkFile, RemoveTree, MakeTree, CreateFile, FillFile, FailStaging, FailInstall,
  FailUnpack, Kill, Resolve, ReadBase, ReadPermissions, Validate, Collect, Write, FailPack, Edit,
  Rebuild, vars, unpackVars, userVars, packVars

LEMMA BaseWholeStep ==
  ASSUME TypeOK, Staged, BaseWhole, [Next]_vars
  PROVE  BaseWhole'
<1>1. CASE UNCHANGED support
  BY <1>1 DEF BaseWhole, Base
<1>2. ASSUME NEW u \in Unpackers, UnlinkSupport(u) PROVE BaseWhole'
  <2>1. support \in SupportDir
    BY <1>2 DEF UnlinkSupport, TypeOK
  <2>2. support' # None => support'.base \in {support.base, None}
    BY <1>2, <2>1 DEF UnlinkSupport, SupportDir
  <2> QED
    BY <1>2, <2>2 DEF UnlinkSupport, BaseWhole, Base
<1>3. ASSUME NEW u \in Unpackers, RemoveSupport(u) PROVE BaseWhole'
  BY <1>3 DEF RemoveSupport, BaseWhole, Base
<1>4. ASSUME NEW u \in Unpackers, Install(u) PROVE BaseWhole'
  <2>1. stage[u] # None /\ Whole(stage[u].base)
    BY <1>4 DEF Install, Step, Staged, StagedBy
  <2> QED
    BY <1>4, <2>1 DEF Install, BaseWhole, Base, Whole
<1> QED
  BY <1>1, <1>2, <1>3, <1>4, SupportChanges

-----------------------------------------------------------------------------
(* The runs that write *)

LEMMA SessionsStep ==
  ASSUME TypeOK, Sessions, [Next]_vars
  PROVE  Sessions'
<1>1. ASSUME NEW u \in Unpackers, Inspect(u) PROVE Sessions'
  BY <1>1 DEF Inspect, Step, Sessions, TypeOK, UPC, Staging, Writing, Ended, userVars, packVars
<1>2. ASSUME NEW u \in Unpackers, CreateStage(u) PROVE Sessions'
  BY <1>2 DEF CreateStage, Step, Sessions, TypeOK, UPC, Staging, Writing, Ended, userVars, packVars
<1>3. ASSUME NEW u \in Unpackers, BeginCopy(u) PROVE Sessions'
  BY <1>3 DEF BeginCopy, Step, Sessions, TypeOK, UPC, Staging, Writing, Ended, userVars, packVars
<1>4. ASSUME NEW u \in Unpackers, EndCopy(u) PROVE Sessions'
  BY <1>4 DEF EndCopy, Step, Sessions, TypeOK, UPC, Staging, Writing, Ended, userVars, packVars
<1>5. ASSUME NEW u \in Unpackers, WritePath(u) PROVE Sessions'
  BY <1>5 DEF WritePath, Step, Sessions, TypeOK, UPC, Staging, Writing, Ended, userVars, packVars
<1>6. ASSUME NEW u \in Unpackers, OpenSupport(u) PROVE Sessions'
  <2>1. \A v \in Unpackers \ {u} : upc[v] \in Writing => v \in since'
    BY <1>6 DEF OpenSupport, Joined, Sessions
  <2>2. u \in since' /\ since' \subseteq since \cup {u}
    BY <1>6 DEF OpenSupport, Joined
  <2>3. upc' = [upc EXCEPT ![u] = upc'[u]] /\ upc'[u] \in {"install", "clear", "dropping"}
    BY <1>6 DEF OpenSupport, Step, AfterSupport, TypeOK
  <2> QED
    BY <1>6, <2>1, <2>2, <2>3 DEF OpenSupport, Step, Sessions, TypeOK, UPC, Staging, Writing, Ended
<1>7. ASSUME NEW u \in Unpackers, UnlinkSupport(u) PROVE Sessions'
  BY <1>7 DEF UnlinkSupport, Step, Sessions, TypeOK, UPC, Staging, Writing, Ended, userVars, packVars
<1>8. ASSUME NEW u \in Unpackers, RemoveSupport(u) PROVE Sessions'
  BY <1>8 DEF RemoveSupport, Step, AfterSupport, Sessions, TypeOK, UPC, Staging, Writing, Ended, userVars, packVars
<1>9. ASSUME NEW u \in Unpackers, Install(u) PROVE Sessions'
  BY <1>9 DEF Install, Step, Sessions, TypeOK, UPC, Staging, Writing, Ended, userVars, packVars
<1>10. ASSUME NEW u \in Unpackers, OpenTree(u) PROVE Sessions'
  BY <1>10 DEF OpenTree, Step, AfterTree, Sessions, TypeOK, UPC, Staging, Writing, Ended, userVars, packVars
<1>11. ASSUME NEW u \in Unpackers, NEW k \in Keys, UnlinkFile(u, k) PROVE Sessions'
  BY <1>11 DEF UnlinkFile, Step, Sessions, TypeOK, UPC, Staging, Writing, Ended, userVars, packVars
<1>12. ASSUME NEW u \in Unpackers, RemoveTree(u) PROVE Sessions'
  BY <1>12 DEF RemoveTree, Step, AfterTree, Sessions, TypeOK, UPC, Staging, Writing, Ended, userVars, packVars
<1>13. ASSUME NEW u \in Unpackers, MakeTree(u) PROVE Sessions'
  BY <1>13 DEF MakeTree, Step, Sessions, TypeOK, UPC, Staging, Writing, Ended, userVars, packVars
<1>14. ASSUME NEW u \in Unpackers, CreateFile(u) PROVE Sessions'
  BY <1>14 DEF CreateFile, Step, Sessions, TypeOK, UPC, Staging, Writing, Ended, userVars, packVars
<1>15. ASSUME NEW u \in Unpackers, FillFile(u) PROVE Sessions'
  BY <1>15 DEF FillFile, Step, Sessions, TypeOK, UPC, Staging, Writing, Ended, userVars, packVars
<1>16. ASSUME NEW u \in Unpackers, FailStaging(u) PROVE Sessions'
  BY <1>16 DEF FailStaging, Step, Sessions, TypeOK, UPC, Staging, Writing, Ended, userVars, packVars
<1>17. ASSUME NEW u \in Unpackers, FailInstall(u) PROVE Sessions'
  BY <1>17 DEF FailInstall, Step, Sessions, TypeOK, UPC, Staging, Writing, Ended, userVars, packVars
<1>18. ASSUME NEW u \in Unpackers, FailUnpack(u) PROVE Sessions'
  BY <1>18 DEF FailUnpack, Step, Forget, Sessions, TypeOK, UPC, Staging, Writing, Ended, userVars, packVars
<1>19. ASSUME NEW u \in Unpackers, Kill(u) PROVE Sessions'
  BY <1>19 DEF Kill, Step, Forget, Sessions, TypeOK, UPC, Staging, Writing, Ended, userVars, packVars
<1>20. CASE UNCHANGED unpackVars
  BY <1>20 DEF unpackVars, Sessions
<1>21. ASSUME NEW p \in Packers, Pack(p) \/ FailPack(p) PROVE UNCHANGED unpackVars
  BY <1>21 DEF Pack, FailPack, Resolve, ReadBase, ReadPermissions, Validate, Collect, Write
<1>22. ASSUME NEW k \in Keys, NEW file \in {UserFile, None}, Edit(k, file) PROVE Sessions'
  BY <1>22 DEF Edit, Sessions
<1>23. ASSUME NEW v \in Versions, Rebuild(v) PROVE UNCHANGED unpackVars
  BY <1>23 DEF Rebuild
<1>24. CASE UNCHANGED vars
  BY <1>24, <1>20 DEF vars
<1> QED
  BY <1>1, <1>2, <1>3, <1>4, <1>5, <1>6, <1>7, <1>8, <1>9, <1>10, <1>11, <1>12, <1>13, <1>14, <1>15, <1>16, <1>17, <1>18, <1>19, <1>20, <1>21, <1>22, <1>23, <1>24
  DEF Next, Unpack

LEMMA GraphlessStep ==
  ASSUME TypeOK, Staged, Sessions, GraphlessLeavesNone, [Next]_vars
  PROVE  GraphlessLeavesNone'
<1>1. ASSUME NEW u \in Unpackers, Inspect(u) PROVE GraphlessLeavesNone'
  BY <1>1 DEF Staged, StagedBy, Inspect, Step, GraphlessLeavesNone, Sessions, TypeOK, UPC, Staging, Writing, Ended, userVars, packVars
<1>2. ASSUME NEW u \in Unpackers, CreateStage(u) PROVE GraphlessLeavesNone'
  BY <1>2 DEF Staged, StagedBy, CreateStage, Step, GraphlessLeavesNone, Sessions, TypeOK, UPC, Staging, Writing, Ended, userVars, packVars
<1>3. ASSUME NEW u \in Unpackers, BeginCopy(u) PROVE GraphlessLeavesNone'
  BY <1>3 DEF Staged, StagedBy, BeginCopy, Step, GraphlessLeavesNone, Sessions, TypeOK, UPC, Staging, Writing, Ended, userVars, packVars
<1>4. ASSUME NEW u \in Unpackers, EndCopy(u) PROVE GraphlessLeavesNone'
  BY <1>4 DEF Staged, StagedBy, EndCopy, Step, GraphlessLeavesNone, Sessions, TypeOK, UPC, Staging, Writing, Ended, userVars, packVars
<1>5. ASSUME NEW u \in Unpackers, WritePath(u) PROVE GraphlessLeavesNone'
  BY <1>5 DEF Staged, StagedBy, WritePath, Step, GraphlessLeavesNone, Sessions, TypeOK, UPC, Staging, Writing, Ended, userVars, packVars
<1>6. ASSUME NEW u \in Unpackers, OpenSupport(u) PROVE GraphlessLeavesNone'
  <2>1. u \in since' /\ upc'[u] \in {"install", "clear", "dropping"}
    BY <1>6 DEF OpenSupport, Step, Joined, AfterSupport, TypeOK
  <2>2. since' = {u} /\ upc'[u] = "clear" => support' = None
    BY <1>6 DEF OpenSupport, Step, AfterSupport, TypeOK
  <2> QED
    BY <1>6, <2>1, <2>2 DEF OpenSupport, GraphlessLeavesNone
<1>7. ASSUME NEW u \in Unpackers, UnlinkSupport(u) PROVE GraphlessLeavesNone'
  BY <1>7 DEF Staged, StagedBy, UnlinkSupport, Step, GraphlessLeavesNone, Sessions, TypeOK, UPC, Staging, Writing, Ended, userVars, packVars
<1>8. ASSUME NEW u \in Unpackers, RemoveSupport(u) PROVE GraphlessLeavesNone'
  BY <1>8 DEF Staged, StagedBy, RemoveSupport, Step, AfterSupport, GraphlessLeavesNone, Sessions, TypeOK, UPC, Staging, Writing, Ended, userVars, packVars
<1>9. ASSUME NEW u \in Unpackers, Install(u) PROVE GraphlessLeavesNone'
  BY <1>9 DEF Staged, StagedBy, Install, Step, GraphlessLeavesNone, Sessions, TypeOK, UPC, Staging, Writing, Ended, userVars, packVars
<1>10. ASSUME NEW u \in Unpackers, OpenTree(u) PROVE GraphlessLeavesNone'
  BY <1>10 DEF Staged, StagedBy, OpenTree, Step, AfterTree, GraphlessLeavesNone, Sessions, TypeOK, UPC, Staging, Writing, Ended, userVars, packVars
<1>11. ASSUME NEW u \in Unpackers, NEW k \in Keys, UnlinkFile(u, k) PROVE GraphlessLeavesNone'
  BY <1>11 DEF Staged, StagedBy, UnlinkFile, Step, GraphlessLeavesNone, Sessions, TypeOK, UPC, Staging, Writing, Ended, userVars, packVars
<1>12. ASSUME NEW u \in Unpackers, RemoveTree(u) PROVE GraphlessLeavesNone'
  BY <1>12 DEF Staged, StagedBy, RemoveTree, Step, AfterTree, GraphlessLeavesNone, Sessions, TypeOK, UPC, Staging, Writing, Ended, userVars, packVars
<1>13. ASSUME NEW u \in Unpackers, MakeTree(u) PROVE GraphlessLeavesNone'
  BY <1>13 DEF Staged, StagedBy, MakeTree, Step, GraphlessLeavesNone, Sessions, TypeOK, UPC, Staging, Writing, Ended, userVars, packVars
<1>14. ASSUME NEW u \in Unpackers, CreateFile(u) PROVE GraphlessLeavesNone'
  BY <1>14 DEF Staged, StagedBy, CreateFile, Step, GraphlessLeavesNone, Sessions, TypeOK, UPC, Staging, Writing, Ended, userVars, packVars
<1>15. ASSUME NEW u \in Unpackers, FillFile(u) PROVE GraphlessLeavesNone'
  BY <1>15 DEF Staged, StagedBy, FillFile, Step, GraphlessLeavesNone, Sessions, TypeOK, UPC, Staging, Writing, Ended, userVars, packVars
<1>16. ASSUME NEW u \in Unpackers, FailStaging(u) PROVE GraphlessLeavesNone'
  BY <1>16 DEF Staged, StagedBy, FailStaging, Step, GraphlessLeavesNone, Sessions, TypeOK, UPC, Staging, Writing, Ended, userVars, packVars
<1>17. ASSUME NEW u \in Unpackers, FailInstall(u) PROVE GraphlessLeavesNone'
  BY <1>17 DEF Staged, StagedBy, FailInstall, Step, GraphlessLeavesNone, Sessions, TypeOK, UPC, Staging, Writing, Ended, userVars, packVars
<1>18. ASSUME NEW u \in Unpackers, FailUnpack(u) PROVE GraphlessLeavesNone'
  BY <1>18 DEF Staged, StagedBy, FailUnpack, Step, Forget, GraphlessLeavesNone, Sessions, TypeOK, UPC, Staging, Writing, Ended, userVars, packVars
<1>19. ASSUME NEW u \in Unpackers, Kill(u) PROVE GraphlessLeavesNone'
  BY <1>19 DEF Staged, StagedBy, Kill, Step, Forget, GraphlessLeavesNone, Sessions, TypeOK, UPC, Staging, Writing, Ended, userVars, packVars
<1>20. CASE UNCHANGED unpackVars
  BY <1>20 DEF unpackVars, GraphlessLeavesNone
<1>21. ASSUME NEW p \in Packers, Pack(p) \/ FailPack(p) PROVE UNCHANGED unpackVars
  BY <1>21 DEF Pack, FailPack, Resolve, ReadBase, ReadPermissions, Validate, Collect, Write
<1>22. ASSUME NEW k \in Keys, NEW file \in {UserFile, None}, Edit(k, file) PROVE GraphlessLeavesNone'
  BY <1>22 DEF Edit, GraphlessLeavesNone
<1>23. ASSUME NEW v \in Versions, Rebuild(v) PROVE UNCHANGED unpackVars
  BY <1>23 DEF Rebuild
<1>24. CASE UNCHANGED vars
  BY <1>24, <1>20 DEF vars
<1> QED
  BY <1>1, <1>2, <1>3, <1>4, <1>5, <1>6, <1>7, <1>8, <1>9, <1>10, <1>11, <1>12, <1>13, <1>14, <1>15, <1>16, <1>17, <1>18, <1>19, <1>20, <1>21, <1>22, <1>23, <1>24
  DEF Next, Unpack

-----------------------------------------------------------------------------
(* The run that leads *)

(* A run that is not past the emptying of embedded keeps the claim from being made. *)
LEMMA NoClaim ==
  ASSUME NEW u \in since', ~PastClearing(u)'
  PROVE  OneLeads'
BY DEF OneLeads

(* A step that leaves embedded and the runs that wrote alone, and at most adds to what
   the user has touched. *)
LEMMA FrameLeads ==
  ASSUME OneLeads, UNCHANGED <<tree, since>>, touched \subseteq touched',
         \A w \in since : upc'[w] = upc[w] /\ next'[w] = next[w] /\ seen'[w] = seen[w]
  PROVE  OneLeads'
<1>1. \A w \in since : PastClearing(w)' => PastClearing(w)
  BY DEF PastClearing
<1>2. \A w \in since : Leads(w) => Leads(w)'
  BY DEF Leads, Made, Filled, FileAt
<1> QED
  BY <1>1, <1>2 DEF OneLeads

(* A run that has just found embedded empty leads. *)
LEMMA NewLeader ==
  ASSUME NEW u \in Unpackers, u \in since', upc'[u] = "make", next'[u] = 1
  PROVE  OneLeads'
<1>1. ASSUME NEW i \in 1 .. Len(Order), Made(u, i)' PROVE FALSE
  BY <1>1, Orders DEF Made
<1>2. Leads(u)'
  BY <1>1 DEF Leads
<1> QED
  BY <1>2 DEF OneLeads

(* What is embedded after a file was created, and after it was filled. *)
LEMMA CreateFileAt ==
  ASSUME TypeOK, Staged, NEW u \in Unpackers, CreateFile(u), NEW k \in Keys
  PROVE  /\ FileAt(Order[next[u]]) = None
         /\ FileAt(k)' = IF k = Order[next[u]]
                         THEN [from |-> seen[u], by |-> u, whole |-> FALSE] ELSE FileAt(k)
<1> DEFINE made == IF tree = None THEN NewTree(u) ELSE tree
           file == [from |-> seen[u], by |-> u, whole |-> FALSE]
           j    == Order[next[u]]
<1>1. j \in Keys
  BY Orders DEF TypeOK
<1>2. made \in Tree
  BY Values, FileTypes
<1>3. \A key \in Keys : made.files[key] = FileAt(key)
  BY DEF FileAt, NewTree
<1>4. tree' = [made EXCEPT !.files[j] = file] /\ made.files[j] = None
  BY DEF CreateFile
<1>5. file \in File
  BY Values DEF CreateFile, Step, Staged, StagedBy
<1>6. tree' \in Tree /\ tree'.files[k] = IF k = j THEN file ELSE made.files[k]
  BY <1>1, <1>2, <1>4, <1>5 DEF Tree
<1>7. tree' # None
  BY <1>6, NoneAssumption
<1> QED
  BY <1>1, <1>3, <1>4, <1>6, <1>7 DEF FileAt

LEMMA FillFileAt ==
  ASSUME TypeOK, NEW u \in Unpackers, FillFile(u), NEW k \in Keys
  PROVE  /\ FileAt(k)' # None <=> FileAt(k) # None
         /\ FileAt(k) # None => /\ FileAt(k)'.by = FileAt(k).by
                                /\ FileAt(k)'.from = FileAt(k).from
                                /\ FileAt(k).whole => FileAt(k)'.whole
                                /\ k = Order[next[u]] /\ FileAt(k).by = u => FileAt(k)'.whole
<1> DEFINE j == Order[next[u]]
<1>1. j \in Keys
  BY Orders DEF TypeOK
<1>2. CASE FileAt(j) # None /\ FileAt(j).by = u
  <2>1. tree' = [tree EXCEPT !.files[j].whole = TRUE]
    BY <1>2 DEF FillFile
  <2>2. tree \in Tree /\ FileAt(j) = tree.files[j] /\ tree.files[j] \in File /\ FileAt(k) = tree.files[k]
    BY <1>1, <1>2, FileTypes DEF FileAt, Tree
  <2>3. [tree.files[j] EXCEPT !.whole = TRUE] \in File
    BY <2>2 DEF File
  <2>4. tree' \in Tree
    BY <1>1, <2>1, <2>2, <2>3 DEF Tree
  <2>5. tree'.files[k] = IF k = j THEN [tree.files[j] EXCEPT !.whole = TRUE] ELSE tree.files[k]
    BY <1>1, <2>1, <2>2 DEF Tree
  <2>6. FileAt(k)' = tree'.files[k]
    BY <2>4, NoneAssumption DEF FileAt
  <2>7. CASE k = j
    <3>1. FileAt(k)' \in File /\ FileAt(k)'.by = FileAt(k).by /\ FileAt(k)'.from = FileAt(k).from /\ FileAt(k)'.whole
      BY <2>2, <2>3, <2>5, <2>6, <2>7 DEF File
    <3> QED
      BY <3>1, <1>2, <2>7, Values, NoneAssumption
  <2>8. CASE k # j
    BY <2>2, <2>5, <2>6, <2>8
  <2> QED
    BY <2>7, <2>8
<1>3. CASE ~(FileAt(j) # None /\ FileAt(j).by = u)
  <2>1. tree' = tree
    BY <1>3 DEF FillFile
  <2> QED
    BY <1>3, <2>1 DEF FileAt
<1> QED
  BY <1>2, <1>3

(* The steps of runs that have emptied embedded. *)
LEMMA MakeTreeLeads ==
  ASSUME TypeOK, Sessions, OneLeads, NEW u \in Unpackers, MakeTree(u)
  PROVE  OneLeads'
<1>1. \A k \in Keys : FileAt(k)' = FileAt(k)
  BY Values, NoneAssumption DEF MakeTree, FileAt, NewTree
<1>2. u \in since /\ next[u] = 1 /\ upc[u] = "make" /\ upc' = [upc EXCEPT ![u] = "create"]
  BY DEF MakeTree, Step, Sessions, Writing
<1>3. UNCHANGED <<since, seen, touched, next>>
  BY DEF MakeTree, userVars
<1>4. \A w \in since : PastClearing(w)' => PastClearing(w)
  BY <1>2, <1>3 DEF PastClearing, TypeOK
<1>5. ASSUME NEW w \in since, Leads(w) PROVE Leads(w)'
  <2>1. w \in Unpackers
    BY DEF TypeOK
  <2>2. ASSUME NEW i \in 1 .. Len(Order), Made(w, i)' PROVE Made(w, i) /\ (Filled(w, i)' => Filled(w, i))
    BY <1>2, <1>3, <2>1, <2>2 DEF Made, Filled, TypeOK
  <2> QED
    BY <1>1, <1>3, <1>5, <2>2, Orders DEF Leads
<1> QED
  BY <1>3, <1>4, <1>5 DEF OneLeads

LEMMA CreateFileLeads ==
  ASSUME TypeOK, Staged, Sessions, OneLeads, NEW u \in Unpackers, CreateFile(u)
  PROVE  OneLeads'
<1>1. u \in since /\ upc[u] = "create" /\ upc' = [upc EXCEPT ![u] = "fill"]
  BY DEF CreateFile, Step, Sessions, Writing
<1>2. UNCHANGED <<since, seen, touched, next>>
  BY DEF CreateFile, userVars
<1>3. \A w \in since : PastClearing(w)' => PastClearing(w)
  BY <1>1, <1>2 DEF PastClearing, TypeOK
<1>4. ASSUME NEW w \in since, Leads(w) PROVE Leads(w)'
  <2>1. w \in Unpackers
    BY DEF TypeOK
  <2>2. SUFFICES ASSUME NEW i \in 1 .. Len(Order), Made(w, i)', Order[i] \notin touched
                 PROVE  /\ FileAt(Order[i])' # None
                        /\ FileAt(Order[i])'.by = w
                        /\ FileAt(Order[i])'.from = seen[w]
                        /\ Filled(w, i)' => FileAt(Order[i])'.whole
    BY <1>2 DEF Leads
  <2>3. Filled(w, i)' <=> Filled(w, i)
    BY <1>1, <1>2, <2>1 DEF Filled, TypeOK
  <2>4. CASE Made(w, i)
    <3>1. FileAt(Order[i]) # None /\ FileAt(Order[i]).by = w /\ FileAt(Order[i]).from = seen[w]
            /\ (Filled(w, i) => FileAt(Order[i]).whole)
      BY <1>4, <2>2, <2>4 DEF Leads
    <3>2. Order[i] # Order[next[u]]
      BY <3>1, CreateFileAt, Orders
    <3>3. FileAt(Order[i])' = FileAt(Order[i])
      BY <3>2, CreateFileAt, Orders
    <3> QED
      BY <2>3, <3>1, <3>3
  <2>5. CASE ~Made(w, i)
    <3>1. w = u /\ i = next[u]
      BY <1>1, <1>2, <2>1, <2>2, <2>5 DEF Made, TypeOK
    <3>2. FileAt(Order[i])' = [from |-> seen[u], by |-> u, whole |-> FALSE]
      BY <3>1, CreateFileAt, Orders
    <3>3. FileAt(Order[i])' # None
      <4>1. seen[u] \in Versions
        BY <1>1 DEF Staged, StagedBy
      <4> QED
        BY <3>2, <4>1, Values, NoneAssumption
    <3>4. ~Filled(w, i)
      BY <2>5 DEF Filled, Made
    <3> QED
      BY <2>3, <3>1, <3>2, <3>3, <3>4
  <2> QED
    BY <2>4, <2>5
<1> QED
  BY <1>2, <1>3, <1>4 DEF OneLeads

LEMMA FillFileLeads ==
  ASSUME TypeOK, Sessions, OneLeads, NEW u \in Unpackers, FillFile(u)
  PROVE  OneLeads'
<1>1. u \in since /\ upc[u] = "fill"
  BY DEF FillFile, Step, Sessions, Writing
<1>2. upc' = [upc EXCEPT ![u] = IF next[u] = Len(Order) THEN "done" ELSE "create"]
      /\ next' = [next EXCEPT ![u] = IF @ = Len(Order) THEN 1 ELSE @ + 1]
  BY DEF FillFile, Step
<1>3. UNCHANGED <<since, seen, touched>>
  BY DEF FillFile, userVars
<1>4. \A w \in since : PastClearing(w)' => PastClearing(w)
  BY <1>1, <1>2, <1>3 DEF PastClearing, TypeOK
<1>5. ASSUME NEW w \in since, Leads(w) PROVE Leads(w)'
  <2>1. w \in Unpackers
    BY DEF TypeOK
  <2>2. SUFFICES ASSUME NEW i \in 1 .. Len(Order), Made(w, i)', Order[i] \notin touched
                 PROVE  /\ FileAt(Order[i])' # None
                        /\ FileAt(Order[i])'.by = w
                        /\ FileAt(Order[i])'.from = seen[w]
                        /\ Filled(w, i)' => FileAt(Order[i])'.whole
    BY <1>3 DEF Leads
  <2>3. Made(w, i)
    BY <1>1, <1>2, <2>1, <2>2, Orders DEF Made, TypeOK
  <2>4. FileAt(Order[i]) # None /\ FileAt(Order[i]).by = w /\ FileAt(Order[i]).from = seen[w]
          /\ (Filled(w, i) => FileAt(Order[i]).whole)
    BY <1>5, <2>2, <2>3 DEF Leads
  <2>5. Filled(w, i)' => Filled(w, i) \/ (w = u /\ i = next[u])
    BY <1>1, <1>2, <2>1, Orders DEF Filled, TypeOK
  <2> QED
    BY <2>4, <2>5, FillFileAt, Orders
<1> QED
  BY <1>3, <1>4, <1>5 DEF OneLeads

(* What the user changes is known. *)
LEMMA EditLeads ==
  ASSUME TypeOK, OneLeads, NEW k \in Keys, NEW file \in {UserFile, None}, Edit(k, file)
  PROVE  OneLeads'
<1>1. UNCHANGED <<since, seen, upc, next>> /\ touched' = touched \cup {k}
  BY DEF Edit
<1>2. ASSUME NEW j \in Keys, j # k PROVE FileAt(j)' = FileAt(j)
  <2>1. tree \in Tree /\ tree' = [tree EXCEPT !.files[k] = file]
    BY FileTypes DEF Edit
  <2>2. tree' \in Tree /\ tree'.files[j] = tree.files[j]
    BY <1>2, <2>1, Values DEF Tree
  <2> QED
    BY <2>1, <2>2, NoneAssumption DEF FileAt
<1>3. \A w \in since : Leads(w) => Leads(w)'
  BY <1>1, <1>2, Orders DEF Leads, Made, Filled
<1> QED
  BY <1>1, <1>3 DEF OneLeads, PastClearing

LEMMA OneLeadsStep ==
  ASSUME TypeOK, Staged, Sessions, OneLeads, [Next]_vars
  PROVE  OneLeads'
<1>1. ASSUME NEW u \in Unpackers,
             Inspect(u) \/ CreateStage(u) \/ BeginCopy(u) \/ EndCopy(u) \/ WritePath(u) \/ FailStaging(u)
      PROVE  OneLeads'
  <2>1. u \notin since
    BY <1>1 DEF Inspect, CreateStage, BeginCopy, EndCopy, WritePath, FailStaging, Step, Sessions,
         Staging, Writing, Ended
  <2>2. UNCHANGED <<tree, since, touched, next>>
    BY <1>1 DEF Inspect, CreateStage, BeginCopy, EndCopy, WritePath, FailStaging, userVars
  <2>3. \A w \in Unpackers \ {u} : upc'[w] = upc[w] /\ seen'[w] = seen[w]
    BY <1>1 DEF Inspect, CreateStage, BeginCopy, EndCopy, WritePath, FailStaging, Step, TypeOK
  <2> QED
    BY <2>1, <2>2, <2>3, FrameLeads DEF TypeOK
<1>2. ASSUME NEW u \in Unpackers, OpenSupport(u) PROVE OneLeads'
  <2>1. u \in since' /\ upc'[u] \in {"install", "clear", "dropping"}
    BY <1>2 DEF OpenSupport, Step, Joined, AfterSupport, TypeOK
  <2> QED
    BY <2>1, NoClaim DEF PastClearing
<1>3. ASSUME NEW u \in Unpackers, UnlinkSupport(u) \/ RemoveSupport(u) \/ Install(u) \/ FailInstall(u)
      PROVE  OneLeads'
  <2>1. u \in since'
    BY <1>3 DEF UnlinkSupport, RemoveSupport, Install, FailInstall, Step, Sessions, Writing
  <2>2. upc'[u] \in {"install", "clear", "dropping", "failed"}
    BY <1>3 DEF UnlinkSupport, RemoveSupport, Install, FailInstall, Step, AfterSupport, TypeOK
  <2> QED
    BY <2>1, <2>2, NoClaim DEF PastClearing
<1>4. ASSUME NEW u \in Unpackers, NEW k \in Keys, UnlinkFile(u, k) PROVE OneLeads'
  BY <1>4, NoClaim DEF UnlinkFile, Sessions, Writing, PastClearing
<1>5. ASSUME NEW u \in Unpackers, OpenTree(u) \/ RemoveTree(u) PROVE OneLeads'
  <2>1. u \in since' /\ next'[u] = 1
    BY <1>5 DEF OpenTree, RemoveTree, Step, Sessions, Writing
  <2>2. \/ upc'[u] = "clearing"
        \/ upc'[u] = "done" /\ seen'[u] \in Plain
        \/ upc'[u] = "make"
    BY <1>5 DEF OpenTree, RemoveTree, Step, AfterTree, TypeOK
  <2> QED
    BY <2>1, <2>2, NoClaim, NewLeader DEF PastClearing
<1>6. ASSUME NEW u \in Unpackers, FailUnpack(u) \/ Kill(u) PROVE OneLeads'
  <2>1. upc'[u] \in {"failed", "killed"} /\ UNCHANGED <<tree, since, touched, seen>>
    BY <1>6 DEF FailUnpack, Kill, Step, TypeOK, userVars
  <2>2. CASE u \in since
    BY <2>1, <2>2, NoClaim DEF PastClearing
  <2>3. CASE u \notin since
    <3>1. \A w \in Unpackers \ {u} : upc'[w] = upc[w] /\ next'[w] = next[w]
      BY <1>6 DEF FailUnpack, Kill, Step, Forget, TypeOK
    <3> QED
      BY <2>1, <2>3, <3>1, FrameLeads DEF TypeOK
  <2> QED
    BY <2>2, <2>3
<1>7. ASSUME NEW p \in Packers, Pack(p) \/ FailPack(p) PROVE UNCHANGED <<userVars, unpackVars>>
  BY <1>7 DEF Pack, FailPack, Resolve, ReadBase, ReadPermissions, Validate, Collect, Write
<1>8. ASSUME NEW v \in Versions, Rebuild(v) PROVE UNCHANGED <<touched, unpackVars>>
  BY <1>8 DEF Rebuild
<1>9. CASE UNCHANGED <<touched, unpackVars>>
  BY <1>9, FrameLeads DEF unpackVars
<1> QED
  BY <1>1, <1>2, <1>3, <1>4, <1>5, <1>6, <1>7, <1>8, <1>9,
     MakeTreeLeads, CreateFileLeads, FillFileLeads, EditLeads
  DEF Next, Unpack, vars, userVars

-----------------------------------------------------------------------------
(* What pack runs have read *)

(* An unpack run leaves alone what was read of the workspace of another one that is
   done, or starts a workspace of its own. *)
LEMMA UnpackReads ==
  ASSUME TypeOK, Sessions, PackReads, NEW u \in Unpackers,
         Unpack(u) \/ FailStaging(u) \/ FailInstall(u) \/ FailUnpack(u) \/ Kill(u)
  PROVE  PackReads'
<1>1. upc[u] \notin Ended /\ UNCHANGED packVars
  BY DEF Unpack, Inspect, CreateStage, BeginCopy, EndCopy, WritePath, OpenSupport, UnlinkSupport,
    RemoveSupport, Install, OpenTree, UnlinkFile, RemoveTree, MakeTree, CreateFile, FillFile,
    FailStaging, FailInstall, FailUnpack, Kill, Step, Staging, Ended
<1>2. \A w \in Unpackers \ {u} : upc'[w] = upc[w] /\ seen'[w] = seen[w]
  BY DEF TypeOK, Unpack, Inspect, CreateStage, BeginCopy, EndCopy, WritePath, OpenSupport, UnlinkSupport,
    RemoveSupport, Install, OpenTree, UnlinkFile, RemoveTree, MakeTree, CreateFile, FillFile,
    FailStaging, FailInstall, FailUnpack, Kill, Step
<1>3. \/ u \in since'
      \/ UNCHANGED <<support, since, touched>>
  <2>1. CASE OpenSupport(u)
    BY <2>1 DEF OpenSupport, Joined
  <2>2. CASE UnlinkSupport(u) \/ RemoveSupport(u) \/ Install(u)
    BY <2>2 DEF UnlinkSupport, RemoveSupport, Install, Step, Sessions, Writing
  <2> QED
    BY <2>1, <2>2 DEF Unpack, Inspect, CreateStage, BeginCopy, EndCopy, WritePath, OpenTree,
      UnlinkFile, RemoveTree, MakeTree, CreateFile, FillFile, FailStaging, FailInstall, FailUnpack,
      Kill, userVars
<1>4. ASSUME NEW p \in Packers, expect[p] # None
      PROVE  /\ upc'[expect[p]] = "done"
             /\ since' = {expect[p]} => ReadOf(p, expect[p])'
  <2>1. expect[p] \in Unpackers /\ upc[expect[p]] = "done" /\ expect[p] # u
    BY <1>1, <1>4 DEF PackReads, TypeOK, Ended
  <2>2. since' = {expect[p]} => UNCHANGED <<support, since, touched>> /\ ReadOf(p, expect[p])
    BY <1>3, <1>4, <2>1 DEF PackReads
  <2> QED
    BY <1>1, <1>2, <2>1, <2>2 DEF ReadOf, Base, packVars
<1> QED
  BY <1>1, <1>4 DEF PackReads, packVars

(* A pack run finds the workspace of one run, reads its base and then its files. *)
LEMMA ResolveReads ==
  ASSUME TypeOK, GraphlessLeavesNone, PackReads, NEW p \in Packers, Resolve(p)
  PROVE  PackReads'
<1>1. UNCHANGED <<userVars, unpackVars, got, at>> /\ ppc' = [ppc EXCEPT ![p] = "read"] /\ ppc[p] = "idle"
  BY DEF Resolve, PackStep
<1>2. \A q \in Packers \ {p} : expect'[q] = expect[q]
  BY DEF Resolve, TypeOK
<1>3. ASSUME NEW u, u = expect'[p], u # None
      PROVE  u \in Unpackers /\ Coherent(u)
  <2>1. \E v \in Unpackers : Coherent(v)
    BY <1>3 DEF Resolve, TypeOK
  <2>2. u = CHOOSE v \in Unpackers : Coherent(v)
    BY <1>3, <2>1 DEF Resolve, TypeOK
  <2> HIDE DEF Coherent
  <2> QED
    BY <2>1, <2>2
<1>4. ASSUME NEW u, u = expect'[p], u # None
      PROVE  upc[u] = "done" /\ ReadOf(p, u)'
  <2>1. u \in Unpackers /\ since = {u} /\ upc[u] = "done" /\ Base # None /\ Base.from = seen[u]
    BY <1>3, <1>4 DEF Coherent
  <2>2. seen[u] \notin Graphless
    BY <2>1 DEF GraphlessLeavesNone, Base
  <2>3. ppc'[p] = "read"
    BY <1>1 DEF TypeOK
  <2>4. Base' = Base /\ seen' = seen
    BY <1>1 DEF Base, unpackVars
  <2> QED
    BY <2>1, <2>2, <2>3, <2>4 DEF ReadOf
<1>5. ASSUME NEW q \in Packers \ {p}, NEW u, ReadOf(q, u) PROVE ReadOf(q, u)'
  BY <1>1, <1>5 DEF ReadOf, Base, unpackVars, userVars, TypeOK
<1>6. \A q \in Packers : ppc'[q] \in {"idle", "read", "permissions", "validate"} => at'[q] = 1
  BY <1>1 DEF PackReads, TypeOK
<1>7. ASSUME NEW q \in Packers, expect'[q] # None
      PROVE  /\ upc'[expect'[q]] = "done"
             /\ since' = {expect'[q]} => ReadOf(q, expect[q])'
  <2>1. CASE q = p
    BY <1>1, <1>4, <1>7, <2>1 DEF unpackVars
  <2>2. CASE q # p
    BY <1>1, <1>2, <1>5, <1>7, <2>2 DEF PackReads, unpackVars
  <2> QED
    BY <2>1, <2>2
<1> QED
  BY <1>6, <1>7 DEF PackReads

(* What one run, alone and done, has left of embedded. *)
LEMMA LoneLeader ==
  ASSUME OneLeads, NEW u \in Unpackers, since = {u}, upc[u] = "done", seen[u] \notin Plain,
         NEW i \in 1 .. Len(Order), Order[i] \notin touched
  PROVE  Whole(FileAt(Order[i])) /\ FileAt(Order[i]).from = seen[u]
<1>1. Leads(u)
  BY DEF OneLeads, PastClearing
<1> QED
  BY <1>1 DEF Leads, Made, Filled, Whole

LEMMA CollectReads ==
  ASSUME TypeOK, OneLeads, PackReads, NEW p \in Packers, Collect(p)
  PROVE  PackReads'
<1> DEFINE k == Order[at[p]]
<1>1. /\ UNCHANGED <<userVars, unpackVars, expect>>
      /\ ppc[p] = "collect" /\ ppc' = [ppc EXCEPT ![p] = IF at[p] = Len(Order) THEN "write" ELSE "collect"]
      /\ got' = [got EXCEPT ![p].files[k] = FileAt(k)]
      /\ at' = [at EXCEPT ![p] = IF @ = Len(Order) THEN @ ELSE @ + 1]
  BY DEF Collect, PackStep
<1>2. Base' = Base /\ UNCHANGED <<upc, seen, since, touched>>
  BY <1>1 DEF Base, unpackVars, userVars
<1>3. k \in Keys
  BY Orders DEF TypeOK
<1>4. got'[p].base = got[p].base /\ \A j \in Keys : got'[p].files[j] = IF j = k THEN FileAt(k) ELSE got[p].files[j]
  BY <1>1, <1>3 DEF TypeOK
<1>5. ASSUME NEW u \in Unpackers, since = {u}, upc[u] = "done", ReadOf(p, u)
      PROVE  ReadOf(p, u)'
  <2>1. ASSUME NEW i \in 1 .. Len(Order), ppc'[p] = "write" \/ (ppc'[p] = "collect" /\ i < at'[p]),
               Order[i] \notin touched
        PROVE  Whole(got'[p].files[Order[i]]) /\ got'[p].files[Order[i]].from = seen[u]
    <3>1. i < at[p] \/ i = at[p]
      BY <1>1, <2>1 DEF TypeOK
    <3>2. CASE Order[i] = k
      <4>1. seen[u] \notin Plain
        BY <1>5, WorkspaceAssumption DEF ReadOf
      <4> QED
        BY <1>3, <1>4, <1>5, <2>1, <3>2, <4>1, LoneLeader
    <3>3. CASE Order[i] # k
      <4>1. i < at[p]
        BY <3>1, <3>3
      <4>2. Whole(got[p].files[Order[i]]) /\ got[p].files[Order[i]].from = seen[u]
        BY <1>1, <1>5, <2>1, <4>1 DEF ReadOf
      <4> QED
        BY <1>4, <3>3, <4>2, Orders
    <3> QED
      BY <3>2, <3>3
  <2>2. Whole(got'[p].base) /\ got'[p].base.from = seen[u]
    BY <1>1, <1>4, <1>5 DEF ReadOf
  <2> QED
    BY <1>2, <1>5, <2>1, <2>2 DEF ReadOf
<1>6. ASSUME NEW q \in Packers \ {p}, NEW u, ReadOf(q, u) PROVE ReadOf(q, u)'
  BY <1>1, <1>2, <1>6 DEF ReadOf, TypeOK
<1>7. \A q \in Packers : ppc'[q] \in {"idle", "read", "permissions", "validate"} => at'[q] = 1
  BY <1>1 DEF PackReads, TypeOK
<1>8. \A q \in Packers : expect[q] # None => expect[q] \in Unpackers
  BY DEF TypeOK
<1>9. ASSUME NEW q \in Packers, expect[q] # None, since = {expect[q]}
      PROVE  ReadOf(q, expect[q])'
  <2>1. upc[expect[q]] = "done" /\ ReadOf(q, expect[q])
    BY <1>9 DEF PackReads
  <2>2. expect' = expect
    BY <1>1
  <2>3. CASE q = p
    BY <1>5, <1>8, <1>9, <2>1, <2>2, <2>3
  <2>4. CASE q # p
    BY <1>6, <2>1, <2>2, <2>4
  <2> QED
    BY <2>3, <2>4
<1> QED
  BY <1>1, <1>2, <1>7, <1>9 DEF PackReads

(* The other steps of a pack run. *)
LEMMA PackRunReads ==
  ASSUME TypeOK, BaseWhole, PackReads, NEW p \in Packers,
         ReadBase(p) \/ ReadPermissions(p) \/ Validate(p) \/ Write(p) \/ FailPack(p)
  PROVE  PackReads'
<1> USE DEF PackStep
<1>1. UNCHANGED <<userVars, unpackVars>>
  BY DEF ReadBase, ReadPermissions, Validate, Write, FailPack
<1>2. Base' = Base /\ UNCHANGED <<upc, seen, since, touched>>
  BY <1>1 DEF Base, unpackVars, userVars
<1>3. \A q \in Packers \ {p} : ppc'[q] = ppc[q] /\ got'[q] = got[q] /\ at'[q] = at[q] /\ expect'[q] = expect[q]
  BY DEF ReadBase, ReadPermissions, Validate, Write, FailPack, EndPack, TypeOK
<1>4. ASSUME NEW q \in Packers \ {p}, NEW u, ReadOf(q, u) PROVE ReadOf(q, u)'
  BY <1>2, <1>3, <1>4 DEF ReadOf
<1>5. CASE Write(p) \/ FailPack(p)
  <2>1. expect'[p] = None /\ at'[p] = 1
    BY <1>5 DEF Write, FailPack, EndPack, TypeOK
  <2>2. ASSUME NEW q \in Packers, expect'[q] # None PROVE q # p
    BY <2>1, <2>2
  <2> QED
    BY <1>2, <1>3, <1>4, <2>1, <2>2 DEF PackReads
<1>6. CASE ReadBase(p) \/ ReadPermissions(p) \/ Validate(p)
  <2>1. expect' = expect /\ at' = at
    BY <1>6 DEF ReadBase, ReadPermissions, Validate
  <2>2. at[p] = 1
    BY <1>6 DEF ReadBase, ReadPermissions, Validate, PackReads
  <2>3. ppc'[p] \in {"permissions", "validate", "collect"}
    BY <1>6 DEF ReadBase, ReadPermissions, Validate, TypeOK
  <2>4. ASSUME NEW u, ReadOf(p, u) PROVE ReadOf(p, u)'
    <3>1. Whole(got'[p].base) /\ got'[p].base.from = seen[u]
      <4>1. CASE ReadBase(p)
        BY <2>4, <4>1 DEF ReadBase, ReadOf, BaseWhole, Whole, TypeOK
      <4>2. CASE ReadPermissions(p) \/ Validate(p)
        BY <2>4, <4>2 DEF ReadPermissions, Validate, ReadOf
      <4> QED
        BY <1>6, <4>1, <4>2
    <3> QED
      BY <1>2, <2>1, <2>2, <2>3, <2>4, <3>1 DEF ReadOf
  <2>5. ASSUME NEW q \in Packers, NEW u, ReadOf(q, u) PROVE ReadOf(q, u)'
    BY <1>4, <2>4, <2>5
  <2>6. \A q \in Packers : ppc'[q] \in {"idle", "read", "permissions", "validate"} => at'[q] = 1
    BY <1>3, <2>1, <2>2 DEF PackReads
  <2> QED
    BY <1>2, <2>1, <2>5, <2>6 DEF PackReads
<1> QED
  BY <1>5, <1>6

LEMMA PackReadsStep ==
  ASSUME TypeOK, BaseWhole, Sessions, OneLeads, GraphlessLeavesNone, PackReads, [Next]_vars
  PROVE  PackReads'
<1>1. CASE UNCHANGED <<support, upc, seen, since, packVars>> /\ touched \subseteq touched'
  BY <1>1 DEF PackReads, ReadOf, Base, packVars
<1>2. ASSUME NEW k \in Keys, NEW file \in {UserFile, None}, Edit(k, file) PROVE PackReads'
  BY <1>1, <1>2 DEF Edit
<1>3. ASSUME NEW v \in Versions, Rebuild(v) PROVE PackReads'
  BY <1>1, <1>3 DEF Rebuild, unpackVars
<1>4. CASE UNCHANGED vars
  BY <1>1, <1>4 DEF vars, unpackVars, userVars
<1> QED
  BY <1>2, <1>3, <1>4, UnpackReads, ResolveReads, CollectReads, PackRunReads DEF Next, Pack

-----------------------------------------------------------------------------
(* The base executable that a run has inspected *)

(* BaseRecoverable claims something only from when a run has inspected the saved base,
   and until one fails or finds a plain executable. *)
BaseSeen ==
  /\ \E u \in FromBase : seen[u] # None
  /\ \A u \in Unpackers : upc[u] # "failed" /\ seen[u] \notin Graphless

WholeStage(u) == stage[u] # None /\ Whole(stage[u].base)

LEMMA InspectRecovers ==
  ASSUME TypeOK, Staged, BaseWhole, BaseRecoverable, NEW u \in Unpackers, Inspect(u)
  PROVE  BaseRecoverable'
<1>1. UNCHANGED <<stage, support>> /\ upc[u] = "idle" /\ seen[u] = None
  BY DEF Inspect, Staged, StagedBy
<1>2. Base' = Base /\ \A v \in Unpackers : WholeStage(v)' <=> WholeStage(v)
  BY <1>1 DEF Base, WholeStage
<1>3. \A v \in Unpackers \ {u} : seen'[v] = seen[v] /\ upc'[v] = upc[v]
  BY DEF Inspect, Step, TypeOK
<1>4. ASSUME BaseSeen', ~BaseSeen PROVE Whole(Base)
  <2>1. \A v \in Unpackers : upc[v] # "failed" /\ seen[v] \notin Graphless
    BY <1>1, <1>3, <1>4, WorkspaceAssumption DEF BaseSeen
  <2>2. u \in FromBase
    BY <1>3, <1>4, <2>1, WorkspaceAssumption DEF BaseSeen
  <2>3. Base # None
    BY <2>2 DEF Inspect, Source
  <2> QED
    BY <2>3 DEF BaseWhole, Whole
<1> QED
  BY <1>1, <1>2, <1>4 DEF BaseRecoverable, BaseSeen, WholeStage, Whole

(* Steps that keep the claim keep what was seen, and whole stages whole. *)
LEMMA KeepRecovers ==
  ASSUME BaseRecoverable,
         BaseSeen' => BaseSeen,
         BaseSeen /\ Whole(Base) => Whole(Base)' \/ \E v \in Unpackers : WholeStage(v)',
         \A u \in Unpackers : WholeStage(u) => WholeStage(u)' \/ Whole(Base)'
  PROVE  BaseRecoverable'
BY DEF BaseRecoverable, BaseSeen, WholeStage

LEMMA RecoverableStep ==
  ASSUME TypeOK, Staged, BaseWhole, BaseRecoverable, [Next]_vars
  PROVE  BaseRecoverable'
<1>1. ASSUME NEW u \in Unpackers,
             CreateStage(u) \/ BeginCopy(u) \/ EndCopy(u) \/ WritePath(u)
      PROVE  BaseRecoverable'
  <2>1. UNCHANGED <<seen, support>> /\ upc[u] # "failed" /\ \A v \in Unpackers \ {u} : upc'[v] = upc[v] /\ stage'[v] = stage[v]
    BY <1>1 DEF CreateStage, BeginCopy, EndCopy, WritePath, Step, TypeOK
  <2>2. Base' = Base /\ (BaseSeen' => BaseSeen)
    BY <2>1 DEF Base, BaseSeen
  <2>3. CASE CreateStage(u) \/ BeginCopy(u)
    <3>1. ~WholeStage(u)
      BY <2>3 DEF CreateStage, BeginCopy, Step, Staged, StagedBy, WholeStage, Whole
    <3> QED
      BY <2>1, <2>2, <3>1, KeepRecovers DEF WholeStage, Whole
  <2>4. CASE EndCopy(u) \/ WritePath(u)
    <3>1. WholeStage(u)'
      <4>1. Staged'
        BY <1>1, StagedStep DEF Next, Unpack
      <4>2. CASE EndCopy(u)
        <5>1. upc'[u] = "path"
          BY <4>2 DEF EndCopy, Step, TypeOK
        <5> QED
          BY <4>1, <5>1 DEF Staged, StagedBy, Staging, WholeStage, Whole
      <4>3. CASE WritePath(u)
        <5>1. upc'[u] = "drop" /\ seen'[u] \notin Graphless
          BY <4>3 DEF WritePath, Step, Staged, StagedBy, Staging, TypeOK
        <5> QED
          BY <4>1, <5>1 DEF Staged, StagedBy, WholeStage, Whole
      <4> QED
        BY <2>4, <4>2, <4>3
    <3> QED
      BY <2>1, <2>2, <3>1, KeepRecovers DEF WholeStage, Whole
  <2> QED
    BY <1>1, <2>3, <2>4
<1>2. ASSUME NEW u \in Unpackers, UnlinkSupport(u) PROVE BaseRecoverable'
  <2>1. UNCHANGED <<seen, upc, stage>> /\ upc[u] = "dropping"
    BY <1>2 DEF UnlinkSupport
  <2>2. BaseSeen => WholeStage(u)
    BY <2>1 DEF BaseSeen, Staged, StagedBy, WholeStage
  <2> QED
    BY <2>1, <2>2, KeepRecovers DEF BaseSeen, WholeStage, Whole
<1>3. ASSUME NEW u \in Unpackers, RemoveSupport(u) PROVE BaseRecoverable'
  <2>1. UNCHANGED <<seen, stage>> /\ upc[u] = "dropping" /\ \A v \in Unpackers \ {u} : upc'[v] = upc[v]
    BY <1>3 DEF RemoveSupport, Step, TypeOK
  <2>2. ~Whole(Base)
    BY <1>3 DEF RemoveSupport, EmptyDir, Base, Whole
  <2> QED
    BY <2>1, <2>2, KeepRecovers DEF BaseSeen, WholeStage, Whole
<1>4. ASSUME NEW u \in Unpackers, Install(u) PROVE BaseRecoverable'
  <2>1. UNCHANGED seen /\ upc[u] = "install" /\ \A v \in Unpackers \ {u} : upc'[v] = upc[v]
    BY <1>4 DEF Install, Step, TypeOK
  <2>2. WholeStage(u)
    BY <2>1 DEF Staged, StagedBy, WholeStage
  <2>3. Whole(Base)'
    BY <1>4, <2>2 DEF Install, Base, WholeStage, Whole
  <2> QED
    BY <2>1, <2>3, KeepRecovers DEF BaseSeen
<1>5. ASSUME NEW u \in Unpackers, FailStaging(u) \/ FailInstall(u) \/ FailUnpack(u) PROVE BaseRecoverable'
  <2>1. upc'[u] = "failed"
    BY <1>5 DEF FailStaging, FailInstall, FailUnpack, Step, TypeOK
  <2> QED
    BY <2>1 DEF BaseRecoverable
<1>6. ASSUME NEW u \in Unpackers, NEW k \in Keys,
             \/ OpenSupport(u) \/ OpenTree(u) \/ UnlinkFile(u, k) \/ RemoveTree(u) \/ MakeTree(u)
             \/ CreateFile(u) \/ FillFile(u) \/ Kill(u)
      PROVE  BaseRecoverable'
  <2>1. UNCHANGED <<seen, stage, support>>
    BY <1>6 DEF OpenSupport, OpenTree, UnlinkFile, RemoveTree, MakeTree, CreateFile, FillFile, Kill
  <2>2. \A v \in Unpackers : upc'[v] = upc[v] \/ upc[v] # "failed"
    BY <1>6 DEF OpenSupport, OpenTree, UnlinkFile, RemoveTree, MakeTree, CreateFile, FillFile, Kill,
      Step, TypeOK, Ended
  <2> QED
    BY <2>1, <2>2, KeepRecovers DEF BaseSeen, WholeStage, Whole, Base
<1>7. CASE UNCHANGED <<seen, stage, support, upc>>
  BY <1>7, KeepRecovers DEF BaseSeen, WholeStage, Whole, Base
<1>8. ASSUME NEW p \in Packers, Pack(p) \/ FailPack(p) PROVE UNCHANGED unpackVars
  BY <1>8 DEF Pack, FailPack, Resolve, ReadBase, ReadPermissions, Validate, Collect, Write
<1>9. ASSUME NEW k \in Keys, NEW file \in {UserFile, None}, Edit(k, file)
      PROVE UNCHANGED <<seen, stage, support, upc>>
  BY <1>9 DEF Edit
<1>10. ASSUME NEW v \in Versions, Rebuild(v) PROVE UNCHANGED unpackVars
  BY <1>10 DEF Rebuild
<1>11. \E k \in Keys : TRUE
  BY Orders
<1> QED
  BY <1>1, <1>2, <1>3, <1>4, <1>5, <1>6, <1>7, <1>8, <1>9, <1>10, <1>11, InspectRecovers
  DEF Next, Unpack, vars, unpackVars

-----------------------------------------------------------------------------
(* The theorems *)

LEMMA InitIInv == Init => IInv
<1> SUFFICES ASSUME Init PROVE IInv
  OBVIOUS
<1>1. TypeOK
  <2>1. support \in SupportDir \cup {None} /\ tree \in Tree \cup {None}
    <3>1. ASSUME NEW v \in Versions, Unpacked(v) PROVE support \in SupportDir /\ tree \in Tree
      <4>1. Copied(v) \in Image /\ Copied(v) \in File /\ User \in Creators
        BY Values DEF Creators
      <4> QED
        BY <3>1, <4>1 DEF Unpacked, SupportDir, Tree
    <3> QED
      BY <3>1 DEF Init
  <2> QED
    BY <2>1, Values, Orders, WorkspaceAssumption DEF Init, TypeOK, UPC, PPC
<1>2. Staged
  BY DEF Init, Staged, StagedBy, Staging
<1>3. BaseWhole
  BY DEF Init, Unpacked, BaseWhole, Base, Copied
<1>4. Sessions
  BY DEF Init, Sessions, Writing
<1>5. OneLeads /\ GraphlessLeavesNone
  BY DEF Init, OneLeads, GraphlessLeavesNone
<1>6. PackReads
  BY DEF Init, PackReads
<1>7. BaseRecoverable
  BY WorkspaceAssumption DEF Init, BaseRecoverable
<1> QED
  BY <1>1, <1>2, <1>3, <1>4, <1>5, <1>6, <1>7 DEF IInv

LEMMA NextIInv == IInv /\ [Next]_vars => IInv'
<1> SUFFICES ASSUME IInv, [Next]_vars PROVE IInv'
  OBVIOUS
<1> USE DEF IInv
<1>1. TypeOK' /\ Staged' /\ BaseWhole'
  BY TypeStep, StagedStep, BaseWholeStep
<1>2. Sessions' /\ OneLeads' /\ GraphlessLeavesNone'
  BY SessionsStep, OneLeadsStep, GraphlessStep
<1>3. PackReads' /\ BaseRecoverable'
  BY PackReadsStep, RecoverableStep
<1> QED
  BY <1>1, <1>2, <1>3

LEMMA Invariance == Spec => []IInv
<1>1. Init => IInv
  BY InitIInv
<1>2. IInv /\ [Next]_vars => IInv'
  BY NextIInv
<1> QED
  BY <1>1, <1>2, PTL DEF Spec

(* The variables of Workspace keep to their types: a base is always made of a version,
   never of what a user edits, and no run loses its place in the order of files. *)
THEOREM TypeCorrect == Spec => []TypeOK
<1>1. IInv => TypeOK
  BY DEF IInv
<1> QED
  BY <1>1, Invariance, PTL

(* pack never finds a part of a base executable in .debun, whatever unpack runs write
   it at once, fail or are killed (replace_pack_support). *)
THEOREM BaseIsWhole == Spec => []BaseWhole
<1>1. IInv => BaseWhole
  BY DEF IInv
<1> QED
  BY <1>1, Invariance, PTL

(* Unpack runs fed with the saved base executable that are killed, or overtake each
   other, leave a whole base executable in .debun or in a staged directory. *)
THEOREM BaseIsNotLost == Spec => []BaseRecoverable
<1>1. IInv => BaseRecoverable
  BY DEF IInv
<1> QED
  BY <1>1, Invariance, PTL

(* Unpack runs that fill embedded at once and all succeed leave the files of one of them
   (write_new_file refuses what is there). *)
THEOREM TreeIsOfOneRun == Spec => []TreeOfOneRun
<1>1. ASSUME IInv PROVE TreeOfOneRun
  <2>1. SUFFICES ASSUME since # {}, \A u \in since : upc[u] = "done" /\ seen[u] \notin Plain, touched = {}
                 PROVE  tree # None /\ \E u \in since : \A k \in Keys :
                          tree.files[k] = [from |-> seen[u], by |-> u, whole |-> TRUE]
    BY DEF TreeOfOneRun
  <2>2. PICK u \in since : Leads(u)
    BY <1>1, <2>1 DEF IInv, OneLeads, PastClearing
  <2>3. ASSUME NEW k \in Keys
        PROVE  FileAt(k) # None /\ FileAt(k) = [from |-> seen[u], by |-> u, whole |-> TRUE]
    <3>1. PICK i \in 1 .. Len(Order) : Order[i] = k
      BY Orders
    <3>2. /\ FileAt(k) # None
          /\ FileAt(k).by = u
          /\ FileAt(k).from = seen[u]
          /\ FileAt(k).whole
      BY <2>1, <2>2, <3>1 DEF Leads, Made, Filled
    <3>3. FileAt(k) \in File
      BY <1>1, <3>2, FileTypes DEF IInv
    <3> QED
      BY <3>2, <3>3 DEF File
  <2>4. \E k \in Keys : TRUE
    BY Orders
  <2>5. tree # None
    BY <2>3, <2>4 DEF FileAt
  <2> QED
    BY <2>3, <2>5 DEF FileAt
<1> QED
  BY <1>1, Invariance, PTL

(* pack writes the base executable of the one run whose workspace it found with the files
   of that run and the user's, as long as no other run starts to write
   (pack_binary, collect_replacements). *)
THEOREM PackIsCoherent == Spec => PackCoherent
<1> DEFINE OneRun(p) ==
      Write(p) /\ expect[p] # None /\ since = {expect[p]} =>
        LET v == seen[expect[p]] IN
          /\ Whole(got[p].base) /\ got[p].base.from = v
          /\ \A k \in Keys : \/ Whole(got[p].files[k]) /\ got[p].files[k].from = v
                             \/ k \in touched
<1>1. ASSUME IInv, NEW p \in Packers PROVE OneRun(p)
  <2>1. SUFFICES ASSUME Write(p), expect[p] # None, since = {expect[p]}
                 PROVE  /\ Whole(got[p].base) /\ got[p].base.from = seen[expect[p]]
                        /\ \A k \in Keys :
                             \/ Whole(got[p].files[k]) /\ got[p].files[k].from = seen[expect[p]]
                             \/ k \in touched
    OBVIOUS
  <2>2. ppc[p] = "write" /\ ReadOf(p, expect[p])
    BY <1>1, <2>1 DEF IInv, PackReads, Write, PackStep
  <2> QED
    BY <2>2, Orders DEF ReadOf
<1>2. IInv => \A p \in Packers : OneRun(p)
  BY <1>1
<1> HIDE DEF OneRun
<1>3. IInv => [\A p \in Packers : OneRun(p)]_vars
  BY <1>2
<1> USE DEF OneRun
<1> QED
  BY <1>3, Invariance, PTL DEF PackCoherent

=============================================================================
