-------------------------- MODULE AtomicFileProofs --------------------------
(***************************************************************************)
(* The safety of AtomicFile for any number of runs, process ids and        *)
(* attempts: types, exclusive temporary files, a destination that is       *)
(* always complete, no litter, and the refinement of AtomicReplace.        *)
(***************************************************************************)
EXTENDS AtomicFile, TLAPS

-----------------------------------------------------------------------------
(* The inductive invariant *)

(* A run that holds a temporary file finds its own file under the name, in the
   state its last call left it in. *)
Prepared(w, f) ==
  /\ f \in File
  /\ f.by = w
  /\ pc[w] \in {"perm", "sync", "finalize", "replace"} => f.whole
  /\ pc[w] \in {"sync", "finalize", "replace"} => f.moded = given[w]
  /\ pc[w] \in {"finalize", "replace"} => f.synced \/ w \in Resigners
  /\ pc[w] = "replace" /\ w \in Resigners => f.signed

OwnTemp ==
  \A w \in Writers : pc[w] \in Holding =>
    /\ attempt[w] \in 1 .. MaxAttempts
    /\ Prepared(w, temps[TempName(w)])

(* A version of the destination is the original or the output of a run that is
   done with it, and only a re-signed file can be torn or lie unflushed. *)
Sound(f) ==
  /\ f \in File
  /\ f.by = Original => f.whole /\ f.synced
  /\ f.by # Original =>
       /\ pc[f.by] = "done"
       /\ f.moded = given[f.by]
       /\ f.by \in Resigners => f.signed
       /\ f.synced \/ f.by \in Resigners
       /\ f.whole \/ (powerLost /\ f.by \in Resigners)

SoundVersions ==
  /\ dest \in survivors
  /\ \A f \in survivors : f # NoFile => Sound(f)

IInv == TypeOK /\ OwnTemp /\ SoundVersions

-----------------------------------------------------------------------------
(* Lemmas *)

(* The name of a run that has tried one is a temporary name. *)
LEMMA TempNameType ==
  ASSUME NEW w \in Writers, TypeOK, attempt[w] \in 1 .. MaxAttempts
  PROVE  TempName(w) \in TempNames
<1>1. pid[w] \in Pids
  BY DEF TypeOK
<1>2. attempt[w] - 1 \in 0 .. MaxAttempts - 1
  BY ConstantsAssumption
<1> QED
  BY <1>1, <1>2 DEF TempName, TempNames

(* Two runs never hold the same temporary file: it has one owner. *)
LEMMA OwnTempExclusive == OwnTemp => TempExclusive
<1> SUFFICES ASSUME OwnTemp,
                    NEW v \in Writers, NEW w \in Writers,
                    pc[w] \in Holding, pc[v] \in Holding, TempName(v) = TempName(w)
             PROVE  v = w
  BY DEF TempExclusive
<1>1. temps[TempName(w)].by = w /\ temps[TempName(v)].by = v
  BY DEF OwnTemp, Prepared
<1> QED
  BY <1>1

(* The initial states satisfy the invariant. *)
LEMMA InitIInv == Init => IInv
<1> SUFFICES ASSUME Init PROVE IInv
  OBVIOUS
<1>1. TypeOK
  <2>1. OriginalFile \in File
    BY DEF OriginalFile, File, Content
  <2>2. attempt \in [Writers -> 0 .. MaxAttempts]
    BY ConstantsAssumption DEF Init
  <2>3. given \in [Writers -> BOOLEAN]
    <3>1. \A w \in Writers : (w \in Packers) \in BOOLEAN
      BY SMT
    <3> QED
      BY <3>1 DEF Init
  <2>4. dest \in File \cup {NoFile} /\ survivors \subseteq File \cup {NoFile}
    BY <2>1 DEF Init
  <2>5. temps \in [TempNames -> File \cup {NoFile}]
    BY DEF Init
  <2>6. pc \in [Writers -> PC]
    BY DEF Init, PC
  <2> QED
    BY <2>2, <2>3, <2>4, <2>5, <2>6 DEF Init, TypeOK
<1>2. OwnTemp
  BY DEF Init, OwnTemp, Holding
<1>3. SoundVersions
  <2>1. OriginalFile \in File
    BY DEF OriginalFile, File, Content
  <2>2. Sound(OriginalFile)
    BY <2>1, Zenon DEF Sound, OriginalFile
  <2> QED
    BY <2>2 DEF Init, SoundVersions
<1> QED
  BY <1>1, <1>2, <1>3 DEF IInv

(* A step that leaves the destination, its versions and the temporary files
   alone and moves one run to a label where it holds no file. *)
LEMMA MoveIInv ==
  ASSUME IInv, NEW w \in Writers, NEW to \in PC \ Holding,
         Goto(w, to), pc[w] # "done",
         TypeOK',
         pc[w] = "stat" \/ given' = given,
         UNCHANGED <<dest, temps, survivors, pid, powerLost>>,
         \A v \in Writers \ {w} : attempt'[v] = attempt[v] /\ given'[v] = given[v]
  PROVE  IInv'
<1> USE DEF IInv
<1>1. \A v \in Writers : pc'[v] \in Holding => v # w /\ pc'[v] = pc[v]
  BY DEF Goto, TypeOK
<1>2. OwnTemp'
  BY <1>1 DEF OwnTemp, Prepared, TempName
<1>3. ASSUME NEW f \in survivors', f # NoFile
      PROVE  Sound(f)'
  <2>1. f \in survivors /\ Sound(f)
    BY <1>3 DEF SoundVersions
  <2>2. CASE f.by = Original
    BY <2>1, <2>2 DEF Sound
  <2>3. CASE f.by # Original
    <3>1. f.by \in Writers /\ pc[f.by] = "done"
      BY <2>1, <2>3 DEF Sound, File, Content
    <3>2. f.by # w
      BY <3>1
    <3>3. pc'[f.by] = "done" /\ given'[f.by] = given[f.by]
      BY <3>1, <3>2 DEF Goto, TypeOK
    <3> QED
      BY <2>1, <2>3, <3>3 DEF Sound
  <2> QED
    BY <2>2, <2>3
<1>4. SoundVersions'
  BY <1>3 DEF SoundVersions
<1> QED
  BY <1>2, <1>4

(* A call on the temporary file of a run changes nothing but that file. *)
LEMMA ReworkIInv ==
  ASSUME IInv, NEW w \in Writers, NEW from \in Holding, NEW to \in Holding, NEW file,
         Rework(w, from, file, to),
         Prepared(w, file)'
  PROVE  IInv'
<1> USE DEF IInv
<1>0. pc[w] \in Holding /\ attempt[w] \in 1 .. MaxAttempts /\ TempName(w) \in TempNames
  BY TempNameType DEF Rework, OwnTemp
<1>1. pc' \in [Writers -> PC] /\ pc'[w] = to /\ \A v \in Writers \ {w} : pc'[v] = pc[v]
  BY DEF Rework, Goto, TypeOK, PC, Running
<1>2. temps'[TempName(w)] = file /\ file \in File
  BY <1>0 DEF Rework, TypeOK, Prepared
<1>3. TypeOK'
  BY <1>0, <1>1, <1>2 DEF TypeOK, Rework
<1>4. OwnTemp'
  <2> SUFFICES ASSUME NEW v \in Writers, pc'[v] \in Holding
               PROVE  /\ attempt'[v] \in 1 .. MaxAttempts
                      /\ Prepared(v, temps[TempName(v)])'
    BY DEF OwnTemp
  <2>1. CASE v = w
    BY <1>0, <1>2, <2>1 DEF Rework, TempName
  <2>2. CASE v # w
    <3>1. pc[v] \in Holding /\ TempName(v) # TempName(w)
      BY <1>0, <1>1, <2>2, OwnTempExclusive DEF TempExclusive
    <3>2. temps'[TempName(v)] = temps[TempName(v)]
      BY <3>1, <1>0, TempNameType DEF Rework, TypeOK, OwnTemp
    <3>3. Prepared(v, temps[TempName(v)]) /\ attempt[v] \in 1 .. MaxAttempts
      BY <3>1 DEF OwnTemp
    <3> QED
      BY <1>1, <2>2, <3>2, <3>3 DEF Rework, Prepared, TempName
  <2> QED
    BY <2>1, <2>2
<1>5. SoundVersions'
  <2>1. ASSUME NEW f \in survivors, f # NoFile
        PROVE  Sound(f)'
    <3>1. Sound(f)
      BY <2>1 DEF SoundVersions
    <3>2. f.by # Original => f.by \in Writers /\ f.by # w /\ pc'[f.by] = pc[f.by]
      BY <1>0, <1>1, <3>1 DEF Sound, File, Content, Holding
    <3> QED
      BY <3>1, <3>2 DEF Sound, Rework
  <2> QED
    BY <2>1 DEF SoundVersions, Rework
<1> QED
  BY <1>3, <1>4, <1>5

(* Every step of a run preserves the invariant. *)
LEMMA StartIInv == ASSUME IInv, NEW w \in Writers, Start(w) PROVE IInv'
<1>1. \E to \in {"parent", "stat"} : Goto(w, to)
  BY DEF Start
<1>2. PICK to \in {"parent", "stat"} : Goto(w, to)
  BY <1>1
<1>3. TypeOK'
  BY <1>2 DEF IInv, TypeOK, Start, Goto, PC, Running
<1>4. to \in PC \ Holding
  BY DEF PC, Running, Holding
<1> QED
  BY <1>2, <1>3, <1>4, MoveIInv DEF Start, IInv

LEMMA StatIInv == ASSUME IInv, NEW w \in Writers, Stat(w) PROVE IInv'
<1>1. (dest # NoFile) \in BOOLEAN
  OBVIOUS
<1>2. given' \in [Writers -> BOOLEAN] /\ \A v \in Writers \ {w} : given'[v] = given[v]
  BY <1>1 DEF IInv, TypeOK, Stat
<1>3. TypeOK'
  BY <1>2 DEF IInv, TypeOK, Stat, Goto, PC, Running
<1>4. "parent" \in PC \ Holding
  BY DEF PC, Running, Holding
<1> QED
  BY <1>2, <1>3, <1>4, MoveIInv DEF Stat, IInv

LEMMA MakeParentIInv == ASSUME IInv, NEW w \in Writers, MakeParent(w) PROVE IInv'
<1>1. TypeOK'
  BY DEF IInv, TypeOK, MakeParent, Goto, PC, Running
<1>2. "create" \in PC \ Holding
  BY DEF PC, Running, Holding
<1> QED
  BY <1>1, <1>2, MoveIInv DEF MakeParent, IInv

LEMMA EndIInv ==
  ASSUME IInv, NEW w \in Writers, GiveUp(w) \/ FailEarly(w) \/ Kill(w)
  PROVE  IInv'
<1>1. PICK to \in {"failed", "killed"} : Goto(w, to)
  BY DEF GiveUp, FailEarly, Kill
<1>2. TypeOK'
  BY <1>1 DEF IInv, TypeOK, GiveUp, FailEarly, Kill, Goto, PC, Ended
<1>3. to \in PC \ Holding
  BY DEF PC, Ended, Holding
<1>4. pc[w] # "done"
  BY DEF GiveUp, FailEarly, Kill, Running, Holding
<1> QED
  BY <1>1, <1>2, <1>3, <1>4, MoveIInv DEF GiveUp, FailEarly, Kill, IInv

LEMMA CreateTempIInv == ASSUME IInv, NEW w \in Writers, CreateTemp(w) PROVE IInv'
<1> DEFINE name == <<pid[w], attempt[w]>>
<1> USE DEF IInv
<1>1. attempt[w] \in Nat /\ attempt[w] < MaxAttempts /\ MaxAttempts \in Nat
  BY ConstantsAssumption DEF CreateTemp, TypeOK
<1>2. attempt' \in [Writers -> 0 .. MaxAttempts] /\ attempt'[w] = attempt[w] + 1
  <2>1. attempt[w] + 1 \in 0 .. MaxAttempts
    BY <1>1
  <2> QED
    BY <2>1 DEF CreateTemp, TypeOK
<1>3. \A v \in Writers \ {w} : attempt'[v] = attempt[v]
  BY DEF CreateTemp, TypeOK
<1>4. name \in TempNames
  BY <1>1 DEF TempNames, TypeOK
<1>5. CASE temps[name] # NoFile
  <2>1. UNCHANGED <<dest, temps, survivors, pc, pid, given, stranded, powerLost>>
    BY <1>5 DEF CreateTemp
  <2>2. TypeOK'
    BY <1>2, <2>1 DEF TypeOK
  <2>3. "create" \in PC \ Holding /\ pc[w] = "create" /\ Goto(w, "create")
    BY <2>1 DEF PC, Running, Holding, CreateTemp, Goto, TypeOK
  <2> QED
    BY <1>3, <2>1, <2>2, <2>3, MoveIInv
<1>6. CASE temps[name] = NoFile
  <2>1. /\ temps' = [temps EXCEPT ![name] = EmptyFile(w)]
        /\ Goto(w, "write")
        /\ pc[w] = "create"
        /\ UNCHANGED <<dest, survivors, pid, given, stranded, powerLost>>
    BY <1>6 DEF CreateTemp
  <2>2. EmptyFile(w) \in File
    BY DEF EmptyFile, File, Content
  <2>3. pc' \in [Writers -> PC] /\ pc'[w] = "write" /\ \A v \in Writers \ {w} : pc'[v] = pc[v]
    BY <2>1 DEF Goto, TypeOK, PC, Running, Holding
  <2>4. TypeOK'
    BY <1>2, <2>1, <2>2, <2>3 DEF TypeOK
  <2>5. OwnTemp'
    <3> SUFFICES ASSUME NEW v \in Writers, pc'[v] \in Holding
                 PROVE  /\ attempt'[v] \in 1 .. MaxAttempts
                        /\ Prepared(v, temps[TempName(v)])'
      BY DEF OwnTemp
    <3>1. CASE v = w
      <4>1. TempName(w)' = name
        BY <1>1, <1>2, <2>1 DEF TempName
      <4>2. temps'[name] = EmptyFile(w)
        BY <1>4, <2>1 DEF TypeOK
      <4>3. attempt'[w] \in 1 .. MaxAttempts
        BY <1>1, <1>2
      <4>4. Prepared(w, EmptyFile(w))'
        BY <2>2, <2>3 DEF Prepared, EmptyFile
      <4> QED
        BY <3>1, <4>1, <4>2, <4>3, <4>4
    <3>2. CASE v # w
      <4>1. pc[v] \in Holding /\ pc'[v] = pc[v] /\ attempt'[v] = attempt[v]
        BY <1>3, <2>3, <3>2
      <4>2. Prepared(v, temps[TempName(v)]) /\ attempt[v] \in 1 .. MaxAttempts
        BY <4>1 DEF OwnTemp
      <4>3. TempName(v)' = TempName(v)
        BY <2>1, <4>1 DEF TempName
      <4>4. temps[TempName(v)] # NoFile
        BY <4>2, NoFileAssumption DEF Prepared
      <4>5. temps'[TempName(v)] = temps[TempName(v)]
        BY <1>4, <1>6, <2>1, <4>2, <4>4, TempNameType DEF TypeOK
      <4> QED
        BY <2>1, <4>1, <4>2, <4>3, <4>5 DEF Prepared
    <3> QED
      BY <3>1, <3>2
  <2>6. SoundVersions'
    <3>1. ASSUME NEW f \in survivors, f # NoFile
          PROVE  Sound(f)'
      <4>1. Sound(f)
        BY <3>1 DEF SoundVersions
      <4>2. f.by # Original => f.by \in Writers /\ f.by # w /\ pc'[f.by] = pc[f.by]
        BY <2>1, <2>3, <4>1 DEF Sound, File, Content
      <4> QED
        BY <2>1, <4>1, <4>2 DEF Sound
    <3> QED
      BY <2>1, <3>1 DEF SoundVersions
  <2> QED
    BY <2>4, <2>5, <2>6
<1> QED
  BY <1>5, <1>6

LEMMA PrepareIInv ==
  ASSUME IInv, NEW w \in Writers,
         WriteContents(w) \/ SetPermissions(w) \/ SyncAll(w) \/ Finalize(w)
  PROVE  IInv'
<1> USE DEF Holding
<1>0. PICK f : f = temps[TempName(w)]
  OBVIOUS
<1>1. pc[w] \in Holding /\ Prepared(w, f)
  BY <1>0 DEF IInv, OwnTemp, WriteContents, SetPermissions, SyncAll, Finalize, Rework
<1>2. ASSUME NEW from \in Holding, NEW to \in Holding, NEW g, Rework(w, from, g, to)
      PROVE  pc'[w] = to /\ given' = given
  BY <1>2 DEF IInv, TypeOK, Rework, Goto
<1>3. CASE WriteContents(w)
  <2> DEFINE g == [f EXCEPT !.whole = TRUE]
  <2>1. Rework(w, "write", g, "perm")
    BY <1>0, <1>3 DEF WriteContents
  <2>2. Prepared(w, g)'
    BY <1>1, <1>2, <2>1 DEF Prepared, File
  <2> QED
    BY <2>1, <2>2, ReworkIInv
<1>4. CASE SetPermissions(w)
  <2>0. PICK perm \in BOOLEAN : perm = given[w]
    BY DEF IInv, TypeOK
  <2> DEFINE g == [f EXCEPT !.moded = perm]
  <2>1. Rework(w, "perm", g, "sync") /\ pc[w] = "perm"
    BY <1>0, <1>4, <2>0 DEF SetPermissions, Rework
  <2>3. Prepared(w, g)'
    BY <1>1, <1>2, <2>0, <2>1 DEF Prepared, File
  <2> QED
    BY <2>1, <2>3, ReworkIInv
<1>5. CASE SyncAll(w)
  <2> DEFINE g == [f EXCEPT !.synced = TRUE]
  <2>1. Rework(w, "sync", g, "finalize") /\ pc[w] = "sync"
    BY <1>0, <1>5 DEF SyncAll, Rework
  <2>2. Prepared(w, g)'
    BY <1>1, <1>2, <2>1 DEF Prepared, File
  <2> QED
    BY <2>1, <2>2, ReworkIInv
<1>6. CASE Finalize(w)
  <2> DEFINE g == IF w \in Resigners
                  THEN [f EXCEPT !.signed = TRUE, !.synced = FALSE] ELSE f
  <2>1. Rework(w, "finalize", g, "replace") /\ pc[w] = "finalize"
    BY <1>0, <1>6 DEF Finalize, Rework
  <2>2. Prepared(w, g)'
    BY <1>1, <1>2, <2>1 DEF Prepared, File
  <2> QED
    BY <2>1, <2>2, ReworkIInv
<1> QED
  BY <1>3, <1>4, <1>5, <1>6

LEMMA ReplaceIInv == ASSUME IInv, NEW w \in Writers, Replace(w) PROVE IInv'
<1> USE DEF IInv
<1>0. PICK f : f = temps[TempName(w)]
  OBVIOUS
<1>1. /\ pc[w] = "replace" /\ pc[w] \in Holding /\ attempt[w] \in 1 .. MaxAttempts
      /\ Prepared(w, f) /\ TempName(w) \in TempNames
  BY <1>0, TempNameType DEF Replace, Holding, OwnTemp
<1>2. pc' \in [Writers -> PC] /\ pc'[w] = "done" /\ \A v \in Writers \ {w} : pc'[v] = pc[v]
  BY DEF Replace, Goto, TypeOK, PC, Ended
<1>3. f # NoFile
  BY <1>1, NoFileAssumption DEF Prepared
<1>4. TypeOK'
  BY <1>0, <1>1, <1>2 DEF TypeOK, Replace, Prepared
<1>5. OwnTemp'
  <2> SUFFICES ASSUME NEW v \in Writers, pc'[v] \in Holding
               PROVE  /\ attempt'[v] \in 1 .. MaxAttempts
                      /\ Prepared(v, temps[TempName(v)])'
    BY DEF OwnTemp
  <2>1. v # w /\ pc'[v] = pc[v] /\ pc[v] \in Holding
    BY <1>2 DEF Holding
  <2>2. TempName(v) # TempName(w)
    BY <1>1, <2>1, OwnTempExclusive DEF TempExclusive
  <2>3. temps'[TempName(v)] = temps[TempName(v)]
    BY <1>1, <2>1, <2>2, TempNameType DEF Replace, TypeOK, OwnTemp
  <2>4. Prepared(v, temps[TempName(v)]) /\ attempt[v] \in 1 .. MaxAttempts
    BY <2>1 DEF OwnTemp
  <2> QED
    BY <2>1, <2>3, <2>4 DEF Replace, Prepared, TempName
<1>6. SoundVersions'
  <2>1. dest' = f /\ survivors' = survivors \cup {f}
    BY <1>0 DEF Replace
  <2>2. Sound(f)'
    <3>1. f.by = w /\ w # Original
      BY <1>1, ConstantsAssumption DEF Prepared
    <3> QED
      BY <1>1, <1>2, <3>1 DEF Sound, Prepared, Replace
  <2>3. ASSUME NEW g \in survivors, g # NoFile
        PROVE  Sound(g)'
    <3>1. Sound(g)
      BY <2>3 DEF SoundVersions
    <3>2. g.by # Original => pc'[g.by] = "done"
      BY <1>2, <3>1 DEF Sound, File, Content
    <3> QED
      BY <3>1, <3>2 DEF Sound, Replace
  <2> QED
    BY <2>1, <2>2, <2>3 DEF SoundVersions
<1> QED
  BY <1>4, <1>5, <1>6

LEMMA FailLateIInv == ASSUME IInv, NEW w \in Writers, FailLate(w) PROVE IInv'
<1>0. PICK f : f = temps[TempName(w)]
  OBVIOUS
<1>1. pc[w] \in Holding
  BY DEF FailLate, CanFail, Holding
<1>2. attempt[w] \in 1 .. MaxAttempts /\ Prepared(w, f) /\ TempName(w) \in TempNames
  BY <1>0, <1>1, TempNameType DEF IInv, OwnTemp
<1>3. temps' = [temps EXCEPT ![TempName(w)] = f]
  BY <1>0, <1>2 DEF FailLate, IInv, TypeOK
<1>4. Rework(w, pc[w], f, "discard") /\ "discard" \in Holding
  BY <1>3 DEF FailLate, Rework, Holding
<1>5. pc'[w] = "discard" /\ given' = given
  BY DEF FailLate, Goto, IInv, TypeOK
<1>6. Prepared(w, f)'
  BY <1>2, <1>5 DEF Prepared
<1> QED
  BY <1>1, <1>4, <1>6, ReworkIInv

LEMMA DiscardIInv == ASSUME IInv, NEW w \in Writers, Discard(w) PROVE IInv'
<1> USE DEF IInv
<1>1. /\ pc[w] = "discard" /\ pc[w] \in Holding /\ attempt[w] \in 1 .. MaxAttempts
      /\ TempName(w) \in TempNames
  BY TempNameType DEF Discard, Holding, OwnTemp
<1>2. pc' \in [Writers -> PC] /\ pc'[w] = "failed" /\ \A v \in Writers \ {w} : pc'[v] = pc[v]
  BY DEF Discard, Goto, TypeOK, PC, Ended
<1>3. TypeOK'
  BY <1>1, <1>2 DEF TypeOK, Discard
<1>4. OwnTemp'
  <2> SUFFICES ASSUME NEW v \in Writers, pc'[v] \in Holding
               PROVE  /\ attempt'[v] \in 1 .. MaxAttempts
                      /\ Prepared(v, temps[TempName(v)])'
    BY DEF OwnTemp
  <2>1. v # w /\ pc'[v] = pc[v] /\ pc[v] \in Holding
    BY <1>2 DEF Holding
  <2>2. TempName(v) # TempName(w)
    BY <1>1, <2>1, OwnTempExclusive DEF TempExclusive
  <2>3. temps'[TempName(v)] = temps[TempName(v)]
    BY <1>1, <2>1, <2>2, TempNameType DEF Discard, TypeOK, OwnTemp
  <2>4. Prepared(v, temps[TempName(v)]) /\ attempt[v] \in 1 .. MaxAttempts
    BY <2>1 DEF OwnTemp
  <2> QED
    BY <2>1, <2>3, <2>4 DEF Discard, Prepared, TempName
<1>5. SoundVersions'
  <2>1. ASSUME NEW g \in survivors, g # NoFile
        PROVE  Sound(g)'
    <3>1. Sound(g)
      BY <2>1 DEF SoundVersions
    <3>2. g.by # Original => pc'[g.by] = "done"
      BY <1>1, <1>2, <3>1 DEF Sound, File, Content
    <3> QED
      BY <3>1, <3>2 DEF Sound, Discard
  <2> QED
    BY <2>1 DEF SoundVersions, Discard
<1> QED
  BY <1>3, <1>4, <1>5

(* So does the file system, and the user. *)
LEMMA UserDeletesIInv == ASSUME IInv, UserDeletes \/ Settle PROVE IInv'
<1> USE DEF IInv
<1>1. UNCHANGED <<temps, pc, pid, attempt, given, stranded, powerLost>>
  BY DEF UserDeletes, Settle
<1>2. TypeOK'
  BY <1>1 DEF TypeOK, UserDeletes, Settle
<1>3. OwnTemp'
  BY <1>1 DEF OwnTemp, Prepared, TempName
<1>4. SoundVersions'
  BY <1>1 DEF SoundVersions, Sound, UserDeletes, Settle
<1> QED
  BY <1>2, <1>3, <1>4

LEMMA PowerLossIInv == ASSUME IInv, PowerLoss PROVE IInv'
<1> USE DEF IInv
<1>1. \A w \in Writers : Torn(EmptyFile(w)) \in File
  BY DEF Torn, EmptyFile, File, Content
<1>2. temps' \in [TempNames -> File \cup {NoFile}]
  BY <1>1 DEF PowerLoss
<1>3. pc' \in [Writers -> PC] /\ \A w \in Writers : pc'[w] \notin Holding
  BY DEF PowerLoss, TypeOK, PC, Ended, Running, Holding
<1>4. \A w \in Writers : pc[w] = "done" => pc'[w] = "done"
  BY DEF PowerLoss, Running, Holding
<1>5. PICK version \in survivors : dest' \in OnDisk(version)
  BY DEF PowerLoss
<1>6. CASE version = NoFile
  <2>1. dest' = NoFile
    BY <1>5, <1>6 DEF OnDisk
  <2> QED
    BY <1>2, <1>3, <2>1 DEF PowerLoss, TypeOK, OwnTemp, SoundVersions
<1>7. CASE version # NoFile
  <2>1. Sound(version)
    BY <1>7 DEF SoundVersions
  <2>2. version.by # Original => version.by \in Writers /\ pc'[version.by] = "done"
    BY <1>4, <2>1 DEF Sound, File, Content
  <2>3. Sound(version)'
    BY <2>1, <2>2 DEF Sound, PowerLoss
  <2>4. ~version.synced => Sound(Torn(version))'
    BY <2>1, <2>2 DEF Sound, Torn, PowerLoss, File
  <2>5. Sound(dest)' /\ dest' \in File
    BY <1>5, <1>7, <2>3, <2>4 DEF OnDisk, Sound
  <2> QED
    BY <1>2, <1>3, <2>5 DEF PowerLoss, TypeOK, OwnTemp, SoundVersions
<1> QED
  BY <1>6, <1>7

(* The invariant is inductive. *)
LEMMA NextIInv == IInv /\ [Next]_vars => IInv'
<1> SUFFICES ASSUME IInv, [Next]_vars PROVE IInv'
  OBVIOUS
<1>1. ASSUME NEW w \in Writers, Start(w) \/ Advance(w) \/ Fail(w) \/ Kill(w)
      PROVE  IInv'
  BY <1>1, StartIInv, StatIInv, MakeParentIInv, EndIInv, CreateTempIInv, PrepareIInv,
     ReplaceIInv, FailLateIInv, DiscardIInv DEF Advance, Fail
<1>2. CASE UserDeletes \/ Settle
  BY <1>2, UserDeletesIInv
<1>3. CASE PowerLoss
  BY <1>3, PowerLossIInv
<1>4. CASE UNCHANGED vars
  BY <1>4 DEF vars, IInv, TypeOK, OwnTemp, SoundVersions, Sound, Prepared, TempName
<1> QED
  BY <1>1, <1>2, <1>3, <1>4 DEF Next

LEMMA InvariantIInv == Spec => []IInv
  BY InitIInv, NextIInv, PTL DEF Spec

-----------------------------------------------------------------------------
(* The theorems *)

(* The variables of the writer keep their types. *)
THEOREM TypeCorrect == Spec => []TypeOK
<1>1. IInv => TypeOK
  BY DEF IInv
<1> QED
  BY <1>1, InvariantIInv, PTL

(* Whatever process ids the runs have, no two of them ever work on the same
   temporary file (create_temporary_sibling). *)
THEOREM TempsExclusive == Spec => []TempExclusive
<1>1. IInv => TempExclusive
  BY OwnTempExclusive DEF IInv
<1> QED
  BY <1>1, InvariantIInv, PTL

(* The destination is the original or the complete output of one run, at every
   moment, however many runs write it and wherever they stop; only a file that
   was re-signed after sync_all can be torn by a power loss. *)
THEOREM DestAlwaysComplete == Spec => []DestComplete
<1>1. IInv => DestComplete
  <2> SUFFICES ASSUME IInv, dest # NoFile
               PROVE  Complete(dest) \/ (powerLost /\ dest.by \in Resigners)
    BY DEF DestComplete
  <2>1. Sound(dest)
    BY DEF IInv, SoundVersions
  <2>2. Original \notin Writers /\ Original \notin Resigners
    BY ConstantsAssumption
  <2> QED
    BY <2>1, <2>2 DEF Sound, Complete, File, Content
<1> QED
  BY <1>1, InvariantIInv, PTL

-----------------------------------------------------------------------------
(* No litter *)

(* NoLitter, with the name under which the owner still holds the file. *)
Owned ==
  \A n \in TempNames : temps[n] # NoFile =>
    LET w == temps[n].by IN
      /\ w \in Writers
      /\ \/ pc[w] \in Holding /\ TempName(w) = n
         \/ pc[w] = "killed"
         \/ w \in stranded
         \/ powerLost

LEMMA InitOwned == Init => Owned
  BY DEF Init, Owned

(* A step of one run that leaves the files of the others where they are. *)
LEMMA StepOwned ==
  ASSUME IInv, Owned, NEW w \in Writers, Start(w) \/ Advance(w) \/ Fail(w) \/ Kill(w)
  PROVE  Owned'
<1> USE DEF IInv
<1>0. pc'[w] \in PC /\ \A v \in Writers \ {w} : pc'[v] = pc[v]
  BY DEF Start, Advance, Fail, Kill, Stat, MakeParent, CreateTemp, GiveUp, FailEarly, Rework,
         WriteContents, SetPermissions, SyncAll, Finalize, Replace, FailLate, Discard, Goto,
         TypeOK, PC, Running, Ended, Holding
<1>1. CASE Start(w) \/ Stat(w) \/ MakeParent(w) \/ GiveUp(w) \/ FailEarly(w) \/ Kill(w)
  <2>1. UNCHANGED <<temps, pid, attempt, stranded, powerLost>>
    BY <1>1 DEF Start, Stat, MakeParent, GiveUp, FailEarly, Kill
  <2>2. \/ pc[w] \notin Holding /\ pc[w] # "killed"
        \/ pc'[w] = "killed"
    BY <1>1 DEF Start, Stat, MakeParent, GiveUp, FailEarly, Kill, Holding, Running, Goto, TypeOK
  <2> QED
    BY <1>0, <2>1, <2>2 DEF Owned, TempName
<1>2. CASE CreateTemp(w)
  <2>1. /\ pc[w] = "create" /\ attempt[w] < MaxAttempts
        /\ attempt'[w] = attempt[w] + 1 /\ attempt[w] \in Nat
        /\ \A v \in Writers \ {w} : attempt'[v] = attempt[v]
        /\ UNCHANGED <<pid, stranded, powerLost>>
    BY <1>2, ConstantsAssumption DEF CreateTemp, TypeOK
  <2>2. CASE UNCHANGED temps /\ UNCHANGED pc
    BY <2>1, <2>2 DEF Owned, TempName, Holding
  <2>3. CASE /\ temps' = [temps EXCEPT ![<<pid[w], attempt[w]>>] = EmptyFile(w)]
             /\ Goto(w, "write")
    <3>1. pc'[w] = "write" /\ TempName(w)' = <<pid[w], attempt[w]>>
      BY <2>1, <2>3 DEF Goto, TypeOK, TempName
    <3>2. SUFFICES ASSUME NEW n \in TempNames, temps'[n] # NoFile
                   PROVE  /\ temps'[n].by \in Writers
                          /\ \/ pc'[temps'[n].by] \in Holding /\ TempName(temps[n].by)' = n
                             \/ pc'[temps'[n].by] = "killed"
                             \/ temps'[n].by \in stranded'
                             \/ powerLost'
      BY DEF Owned
    <3>3. CASE n = <<pid[w], attempt[w]>>
      BY <2>3, <3>1, <3>3 DEF TypeOK, EmptyFile, Holding
    <3>4. CASE n # <<pid[w], attempt[w]>>
      BY <1>0, <2>1, <2>3, <3>2, <3>4 DEF TypeOK, Owned, TempName, Holding
    <3> QED
      BY <3>3, <3>4
  <2> QED
    BY <1>2, <2>2, <2>3 DEF CreateTemp
<1>3. CASE WriteContents(w) \/ SetPermissions(w) \/ SyncAll(w) \/ Finalize(w) \/ FailLate(w)
  <2>1. pc[w] \in Holding /\ pc'[w] \in Holding
    BY <1>3 DEF WriteContents, SetPermissions, SyncAll, Finalize, FailLate, CanFail, Rework,
                Goto, TypeOK, Holding
  <2>2. UNCHANGED <<pid, attempt, stranded, powerLost>>
    BY <1>3 DEF WriteContents, SetPermissions, SyncAll, Finalize, FailLate, Rework
  <2>3. TempName(w) \in TempNames /\ temps[TempName(w)] \in File /\ temps[TempName(w)].by = w
    BY <2>1, TempNameType DEF OwnTemp, Prepared
  <2>4. /\ \A n \in TempNames : n # TempName(w) => temps'[n] = temps[n]
        /\ temps'[TempName(w)].by = w
    <3>1. CASE FailLate(w)
      BY <2>3, <3>1 DEF FailLate
    <3>2. CASE WriteContents(w)
      BY <2>3, <3>2 DEF WriteContents, Rework, TypeOK, File
    <3>3. CASE SetPermissions(w)
      BY <2>3, <3>3 DEF SetPermissions, Rework, TypeOK, File
    <3>4. CASE SyncAll(w)
      BY <2>3, <3>4 DEF SyncAll, Rework, TypeOK, File
    <3>5. CASE Finalize(w)
      <4>1. CASE w \in Resigners
        BY <2>3, <3>5, <4>1 DEF Finalize, Rework, TypeOK, File
      <4>2. CASE w \notin Resigners
        BY <2>3, <3>5, <4>2 DEF Finalize, Rework, TypeOK, File
      <4> QED
        BY <4>1, <4>2
    <3> QED
      BY <1>3, <3>1, <3>2, <3>3, <3>4, <3>5
  <2>5. \A v \in Writers : TempName(v)' = TempName(v)
    BY <2>2 DEF TempName
  <2>6. ASSUME NEW n \in TempNames, temps'[n] # NoFile
        PROVE  LET v == temps'[n].by IN
                 /\ v \in Writers
                 /\ \/ pc'[v] \in Holding /\ TempName(v) = n
                    \/ pc'[v] = "killed"
                    \/ v \in stranded
                    \/ powerLost
    <3>1. CASE n = TempName(w)
      BY <2>1, <2>4, <3>1
    <3>2. CASE n # TempName(w)
      BY <1>0, <2>1, <2>4, <2>6, <3>2 DEF Owned, Holding
    <3> QED
      BY <3>1, <3>2
  <2> QED
    BY <2>2, <2>5, <2>6 DEF Owned
<1>4. CASE Replace(w) \/ Discard(w)
  <2>1. pc[w] \in Holding /\ TempName(w) \in TempNames
    BY <1>4, TempNameType DEF Replace, Discard, Holding, OwnTemp
  <2>2. UNCHANGED <<pid, attempt, powerLost>> /\ stranded \subseteq stranded'
    BY <1>4 DEF Replace, Discard
  <2>3. CASE temps' = [temps EXCEPT ![TempName(w)] = NoFile]
    <3>1. temps'[TempName(w)] = NoFile
      BY <2>1, <2>3 DEF TypeOK
    <3>2. \A n \in TempNames : n # TempName(w) => temps'[n] = temps[n]
      BY <2>3 DEF TypeOK
    <3> QED
      BY <1>0, <2>1, <2>2, <3>1, <3>2 DEF Owned, TempName, Holding
  <2>4. CASE stranded' = stranded \cup {w} /\ UNCHANGED temps
    BY <1>0, <2>1, <2>2, <2>4 DEF Owned, TempName
  <2> QED
    BY <1>4, <2>3, <2>4 DEF Replace, Discard
<1> QED
  BY <1>1, <1>2, <1>3, <1>4 DEF Advance, Fail

LEMMA NextOwned == IInv /\ Owned /\ [Next]_vars => Owned'
<1> SUFFICES ASSUME IInv, Owned, [Next]_vars PROVE Owned'
  OBVIOUS
<1>1. ASSUME NEW w \in Writers, Start(w) \/ Advance(w) \/ Fail(w) \/ Kill(w)
      PROVE  Owned'
  BY <1>1, StepOwned
<1>2. CASE UserDeletes \/ Settle \/ UNCHANGED vars
  BY <1>2 DEF UserDeletes, Settle, vars, Owned, TempName
<1>3. CASE PowerLoss
  <2>1. powerLost' /\ \A n \in TempNames : temps'[n] # NoFile => temps'[n].by \in Writers
    BY <1>3 DEF PowerLoss, Litterers
  <2> QED
    BY <2>1 DEF Owned
<1> QED
  BY <1>1, <1>2, <1>3 DEF Next

(* A run that ends leaves no temporary file behind: one that lies around belongs
   to a run at work or killed, or to one whose remove_file failed, or a power
   loss brought it back. *)
THEOREM NoTempsLeft == Spec => []NoLitter
<1>1. Owned => NoLitter
  BY DEF Owned, NoLitter
<1>2. Spec => []Owned
  BY InitOwned, NextOwned, InvariantIInv, PTL DEF Spec
<1> QED
  BY <1>1, <1>2, PTL

-----------------------------------------------------------------------------
(* The refinement of AtomicReplace *)

(* The mapped outcomes, and what one move of a run does to them. *)
Outcomes == [w \in Writers |-> Outcome(w)]

LEMMA OutcomeMoves ==
  ASSUME TypeOK, NEW w \in Writers, NEW to \in PC, Goto(w, to)
  PROVE  Outcomes' = [Outcomes EXCEPT ![w] =
                        IF to = "done" THEN "ok" ELSE IF to = "failed" THEN "error"
                        ELSE IF to = "killed" THEN "dead" ELSE "pending"]
<1>1. pc'[w] = to /\ \A v \in Writers \ {w} : pc'[v] = pc[v]
  BY DEF TypeOK, Goto
<1>2. Outcome(w)' = IF to = "done" THEN "ok" ELSE IF to = "failed" THEN "error"
                    ELSE IF to = "killed" THEN "dead" ELSE "pending"
  BY <1>1 DEF Outcome
<1>3. \A v \in Writers \ {w} : Outcome(v)' = Outcome(v)
  BY <1>1 DEF Outcome
<1> QED
  BY <1>2, <1>3 DEF Outcomes

LEMMA PendingWhileRunning ==
  \A w \in Writers : pc[w] \in Running \cup {"idle"} => Outcome(w) = "pending"
  BY DEF Running, Holding, Outcome

LEMMA InitPromise == Init => Promise!Init
<1> SUFFICES ASSUME Init PROVE Promise!Init
  OBVIOUS
<1>1. ContentOf(dest) \in {Original, NoFile}
  BY DEF Init, ContentOf, OriginalFile
<1>2. {ContentOf(f) : f \in survivors} = {ContentOf(dest)}
  BY DEF Init
<1>3. [w \in Writers |-> Outcome(w)] = [w \in Writers |-> "pending"]
  BY PendingWhileRunning DEF Init
<1> QED
  BY <1>1, <1>2, <1>3 DEF Promise!Init

(* A step of a run commits, abandons, or is invisible. *)
LEMMA RunPromise ==
  ASSUME IInv, NEW w \in Writers, Start(w) \/ Advance(w) \/ Fail(w) \/ Kill(w)
  PROVE  [Promise!Next]_(Promise!vars)
<1> USE DEF IInv
<1>1. CASE Replace(w)
  <2>1. PICK f : f = temps[TempName(w)] /\ f # NoFile /\ f.by = w
    BY <1>1, NoFileAssumption DEF Replace, OwnTemp, Prepared, Holding
  <2>2. dest' = f /\ survivors' = survivors \cup {f}
    BY <1>1, <2>1 DEF Replace
  <2>3. ContentOf(f) = w
    BY <2>1 DEF ContentOf
  <2>4. ContentOf(dest)' = w
    BY <2>2, <2>3 DEF ContentOf
  <2>5. {ContentOf(g) : g \in survivors}' = {ContentOf(g) : g \in survivors} \cup {w}
    BY <2>2, <2>3 DEF ContentOf
  <2>6. Outcomes' = [Outcomes EXCEPT ![w] = "ok"]
    BY <1>1, OutcomeMoves DEF Replace, PC, Ended
  <2>7. Outcomes[w] = "pending"
    BY <1>1, PendingWhileRunning DEF Outcomes, Replace, Running, Holding
  <2>8. Promise!Commit(w)
    BY <2>4, <2>5, <2>6, <2>7 DEF Promise!Commit, Outcomes
  <2> QED
    BY <2>8 DEF Promise!Next
<1>2. CASE ~Replace(w)
  <2>1. UNCHANGED <<dest, survivors>>
    BY <1>2 DEF Start, Advance, Fail, Kill, Stat, MakeParent, CreateTemp, GiveUp, FailEarly,
         Rework, WriteContents, SetPermissions, SyncAll, Finalize, FailLate, Discard
  <2>2. UNCHANGED <<ContentOf(dest), {ContentOf(f) : f \in survivors}>>
    BY <2>1 DEF ContentOf
  <2>3. Outcomes[w] = "pending"
    BY PendingWhileRunning
       DEF Outcomes, Start, Advance, Fail, Kill, Stat, MakeParent, CreateTemp, GiveUp, FailEarly,
         Rework, WriteContents, SetPermissions, SyncAll, Finalize, Replace, FailLate, CanFail,
         Discard, Running, Holding
  <2>4. pc' = pc \/ \E to \in PC \ {"done"} : Goto(w, to)
    BY <1>2 DEF Start, Advance, Fail, Kill, Stat, MakeParent, CreateTemp, GiveUp, FailEarly,
         Rework, WriteContents, SetPermissions, SyncAll, Finalize, FailLate, Discard,
         PC, Running, Holding, Ended
  <2>5. CASE pc' = pc
    BY <2>2, <2>5 DEF Promise!vars, Outcome
  <2>6. ASSUME NEW to \in PC \ {"done"}, Goto(w, to)
        PROVE  [Promise!Next]_(Promise!vars)
    <3>1. CASE to \notin {"failed", "killed"}
      <4>1. Outcomes' = [Outcomes EXCEPT ![w] = "pending"]
        BY <2>6, <3>1, OutcomeMoves
      <4>2. Outcomes' = Outcomes
        BY <2>3, <4>1 DEF Outcomes
      <4> QED
        BY <2>2, <4>2 DEF Promise!vars, Outcomes
    <3>2. CASE to = "failed"
      <4>1. Promise!Abandon(w, "error")
        BY <2>2, <2>3, <2>6, <3>2, OutcomeMoves DEF Promise!Abandon, Outcomes
      <4> QED
        BY <4>1 DEF Promise!Next
    <3>3. CASE to = "killed"
      <4>1. Promise!Abandon(w, "dead")
        BY <2>2, <2>3, <2>6, <3>3, OutcomeMoves DEF Promise!Abandon, Outcomes
      <4> QED
        BY <4>1 DEF Promise!Next
    <3> QED
      BY <3>1, <3>2, <3>3
  <2> QED
    BY <2>4, <2>5, <2>6
<1> QED
  BY <1>1, <1>2

LEMMA PowerLossPromise == ASSUME IInv, PowerLoss PROVE Promise!PowerLoss
<1>1. PICK version \in survivors : dest' \in OnDisk(version)
  BY DEF PowerLoss
<1>2. ContentOf(dest') = ContentOf(version)
  <2>1. CASE version = NoFile \/ version.synced
    BY <1>1, <2>1 DEF OnDisk
  <2>2. CASE version # NoFile /\ ~version.synced
    <3>1. version \in File
      BY <2>2 DEF IInv, SoundVersions, Sound
    <3>2. Torn(version) \in File /\ Torn(version).by = version.by
      BY <3>1 DEF Torn, File
    <3> QED
      BY <1>1, <2>2, <3>2, NoFileAssumption DEF OnDisk, ContentOf
  <2> QED
    BY <2>1, <2>2
<1>3. ContentOf(dest)' \in {ContentOf(f) : f \in survivors}
  BY <1>1, <1>2 DEF ContentOf
<1>4. {ContentOf(f) : f \in survivors}' = {ContentOf(dest)'}
  BY DEF PowerLoss, ContentOf
<1> DEFINE gone == {w \in Writers : pc[w] \in Running}
<1>5. gone \in SUBSET {w \in Writers : Outcomes[w] = "pending"}
  BY PendingWhileRunning DEF Outcomes
<1>6. \A w \in Writers : Outcome(w)' = IF w \in gone THEN "dead" ELSE Outcome(w)
  BY DEF PowerLoss, Outcome
<1>7. Outcomes' = [w \in Writers |-> IF w \in gone THEN "dead" ELSE Outcomes[w]]
  BY <1>6 DEF Outcomes
<1>8. \E lost \in SUBSET {w \in Writers : Outcomes[w] = "pending"} :
        Outcomes' = [w \in Writers |-> IF w \in lost THEN "dead" ELSE Outcomes[w]]
  BY <1>5, <1>7
<1> QED
  BY <1>3, <1>4, <1>8 DEF Promise!PowerLoss, Outcomes

LEMMA NextPromise == IInv /\ [Next]_vars => [Promise!Next]_(Promise!vars)
<1> SUFFICES ASSUME IInv, [Next]_vars PROVE [Promise!Next]_(Promise!vars)
  OBVIOUS
<1>1. ASSUME NEW w \in Writers, Start(w) \/ Advance(w) \/ Fail(w) \/ Kill(w)
      PROVE  [Promise!Next]_(Promise!vars)
  BY <1>1, RunPromise
<1>2. CASE UserDeletes
  BY <1>2 DEF UserDeletes, Promise!Next, Promise!Delete, ContentOf, Outcome
<1>3. CASE Settle
  BY <1>3 DEF Settle, Promise!Next, Promise!Settle, ContentOf, Outcome
<1>4. CASE PowerLoss
  BY <1>4, PowerLossPromise DEF Promise!Next
<1>5. CASE UNCHANGED vars
  BY <1>5 DEF vars, Promise!vars, ContentOf, Outcome
<1> QED
  BY <1>1, <1>2, <1>3, <1>4, <1>5 DEF Next

(* The writer implements AtomicReplace: the destination changes only by the one
   step in which a run succeeds, and a run that fails or is killed leaves it. *)
THEOREM Refinement == Spec => ImplementsPromise
  BY InitPromise, NextPromise, InvariantIInv, PTL DEF Spec, ImplementsPromise, Promise!Spec
=============================================================================
