--------------------------- MODULE PackPatchProofs ---------------------------
(***************************************************************************)
(* Proofs about PackPatch, for any modules, byte strings and releases.      *)
(*                                                                         *)
(* Everything rests on two lemmas about apply-patch.  AppliedParts says     *)
(* what every part of the result is, whether the executable was rebuilt or  *)
(* copied; CanApplyIff says when a patch is refused, record by record.      *)
(***************************************************************************)
EXTENDS PackPatch, FiniteSetTheorems, TLAPS

(* What is left of a part once a record of the layout was written and read. *)
Kept(layout, p, data) ==
  IF p = "contents" THEN data
  ELSE IF p \notin Stored[layout] \/ data = Empty THEN None
  ELSE data

(* A record a legacy layout refuses. *)
Unstorable(layout, p, data) ==
  layout \in Legacy /\ p \in {"bytecode", "module_info"} /\ data # None

-----------------------------------------------------------------------------
(* Executables *)

LEMMA PartsOfBinary ==
  ASSUME NEW b, IsBinary(b), NEW m \in DOMAIN b.graph
  PROVE  /\ b.graph[m] \in Parsed(b.layout)
         /\ b.graph[m] \in Parts
         /\ b.graph[m]["contents"] \in Data
         /\ \A p \in Part : Kept(b.layout, p, b.graph[m][p]) = b.graph[m][p]
         /\ \A p \in Part : ~Unstorable(b.layout, p, b.graph[m][p])
<1>1. b.graph[m] \in Parsed(b.layout)
  BY DEF IsBinary
<1>2. /\ b.graph[m] \in Parts
      /\ b.graph[m]["contents"] # None
      /\ \A p \in Part \ {"contents"} :
           /\ b.graph[m][p] # Empty
           /\ b.graph[m][p] # None => p \in Stored[b.layout]
  BY <1>1 DEF Parsed
<1>3. b.graph[m]["contents"] \in Data
  BY <1>2 DEF Parts, Part
<1>4. ASSUME NEW p \in Part
      PROVE  Kept(b.layout, p, b.graph[m][p]) = b.graph[m][p]
  BY <1>2 DEF Kept
<1>5. ASSUME NEW p \in Part
      PROVE  ~Unstorable(b.layout, p, b.graph[m][p])
  BY <1>2 DEF Unstorable, Legacy, Stored
<1> QED
  BY <1>1, <1>2, <1>3, <1>4, <1>5

(* A payload has a size. *)
LEMMA SizeType ==
  ASSUME NEW graph, DOMAIN graph \in SUBSET Modules
  PROVE  Size(graph) \in Nat
<1> DEFINE K == (DOMAIN graph) \X Part
           F == [k \in K |-> {k} \X (1 .. LengthOf(graph[k[1]][k[2]]))]
           R == {F[k] : k \in K}
<1>1. IsFiniteSet(DOMAIN graph)
  BY SentinelsAssumption, FS_Subset
<1>2. IsFiniteSet(Part)
  <2>1. /\ IsFiniteSet({"contents"} \cup {"sourcemap"})
        /\ IsFiniteSet({"bytecode"} \cup {"module_info"})
    BY FS_Singleton, FS_Union
  <2>2. Part = ({"contents"} \cup {"sourcemap"}) \cup ({"bytecode"} \cup {"module_info"})
    BY DEF Part
  <2> QED
    BY <2>1, <2>2, FS_Union
<1>3. IsFiniteSet(K)
  BY <1>1, <1>2, FS_Product
<1>4. IsFiniteSet(R)
  <2>1. F \in Surjection(K, R)
    BY DEF Surjection
  <2> QED
    BY <1>3, <2>1, FS_Surjection
<1>5. ASSUME NEW T \in R
      PROVE  IsFiniteSet(T)
  <2>1. PICK k \in K : T = {k} \X (1 .. LengthOf(graph[k[1]][k[2]]))
    OBVIOUS
  <2>2. LengthOf(graph[k[1]][k[2]]) \in Int
    BY SentinelsAssumption DEF LengthOf
  <2>3. PICK n \in Int : n = LengthOf(graph[k[1]][k[2]])
    BY <2>2
  <2>4. IsFiniteSet(1 .. n)
    BY FS_Interval
  <2>5. IsFiniteSet({k})
    BY FS_Singleton
  <2> QED
    BY <2>1, <2>3, <2>4, <2>5, FS_Product
<1>6. IsFiniteSet(UNION R)
  BY <1>4, <1>5, FS_UNION
<1>7. Size(graph) = Cardinality(UNION R)
  <2>1. R = {{k} \X (1 .. LengthOf(graph[k[1]][k[2]])) : k \in K}
    OBVIOUS
  <2> QED
    BY <2>1 DEF Size
<1> QED
  BY <1>6, <1>7, FS_CardinalityType

LEMMA BunFSModulesOf ==
  ASSUME NEW b, NEW m
  PROVE  m \in BunFSModules(b) <=> m \in DOMAIN b.graph /\ m \in BunFS
BY DEF BunFSModules

-----------------------------------------------------------------------------
(* Applying a patch *)

LEMMA BuiltFor ==
  ASSUME NEW r, IsPatch(r), NEW b, IsBinary(b), NEW m \in DOMAIN b.graph, NEW p \in Part,
         \A k \in DOMAIN r : r[k].replacement \in Data \cup {None}
  PROVE  Resolved(b, BuildReplacements(r), m)[p] =
           IF <<m, p>> \in DOMAIN r THEN r[<<m, p>>].replacement ELSE b.graph[m][p]
<1> DEFINE rs == BuildReplacements(r)
<1>1. DOMAIN rs = {k[1] : k \in DOMAIN r}
  BY DEF BuildReplacements
<1>2. CASE <<m, p>> \in DOMAIN r
  <2>1. m \in DOMAIN rs
    BY <1>1, <1>2
  <2>2. rs[m][p] = r[<<m, p>>].replacement
    BY <1>1, <1>2, <2>1 DEF BuildReplacements
  <2>3. rs[m][p] # Keep
    BY <1>2, <2>2, SentinelsAssumption
  <2> QED
    BY <1>2, <2>1, <2>2, <2>3 DEF Resolved
<1>3. CASE <<m, p>> \notin DOMAIN r
  <2>1. CASE m \in DOMAIN rs
    <3>1. rs[m][p] = Keep
      BY <1>1, <1>3, <2>1 DEF BuildReplacements
    <3> QED
      BY <1>3, <2>1, <3>1 DEF Resolved
  <2>2. CASE m \notin DOMAIN rs
    BY <1>3, <2>2 DEF Resolved, KeepAll
  <2> QED
    BY <2>1, <2>2
<1> QED
  BY <1>2, <1>3

LEMMA PatchData ==
  ASSUME NEW r, IsPatch(r)
  PROVE  \A k \in DOMAIN r : /\ r[k].expected \in Data \cup {None}
                             /\ r[k].replacement \in Data \cup {None}
                             /\ k[1] \in BunFS
                             /\ k[2] \in Part
                             /\ k = <<k[1], k[2]>>
<1> SUFFICES ASSUME NEW k \in DOMAIN r
             PROVE  /\ r[k].expected \in Data \cup {None}
                    /\ r[k].replacement \in Data \cup {None}
                    /\ k[1] \in BunFS
                    /\ k[2] \in Part
                    /\ k = <<k[1], k[2]>>
  OBVIOUS
<1>1. k \in BunFS \X Part
  BY DEF IsPatch
<1>2. r[k] \in Record
  BY DEF IsPatch
<1> QED
  BY <1>1, <1>2 DEF Record

(* Every part of the result. *)
AppliedGraph(r, b) ==
  [m \in DOMAIN b.graph |-> [p \in Part |->
     IF <<m, p>> \in DOMAIN r THEN Kept(b.layout, p, r[<<m, p>>].replacement)
     ELSE b.graph[m][p]]]

LEMMA RewrittenParts ==
  ASSUME NEW r, IsPatch(r), NEW b, IsBinary(b)
  PROVE  Rewritten(b, BuildReplacements(r)) = AppliedGraph(r, b)
<1> DEFINE rs == BuildReplacements(r)
<1>1. \A m \in DOMAIN b.graph :
        ReadBack(b.layout, Resolved(b, rs, m)) = AppliedGraph(r, b)[m]
  <2> SUFFICES ASSUME NEW m \in DOMAIN b.graph
               PROVE  ReadBack(b.layout, Resolved(b, rs, m)) = AppliedGraph(r, b)[m]
    OBVIOUS
  <2>1. ASSUME NEW p \in Part
        PROVE  ReadBack(b.layout, Resolved(b, rs, m))[p] = AppliedGraph(r, b)[m][p]
    <3>1. ReadBack(b.layout, Resolved(b, rs, m))[p] =
            Kept(b.layout, p, Resolved(b, rs, m)[p])
      BY DEF ReadBack, Kept
    <3>2. Resolved(b, rs, m)[p] =
            IF <<m, p>> \in DOMAIN r THEN r[<<m, p>>].replacement ELSE b.graph[m][p]
      BY BuiltFor, PatchData
    <3> QED
      BY <3>1, <3>2, PartsOfBinary DEF AppliedGraph
  <2> QED
    BY <2>1 DEF ReadBack, AppliedGraph
<1> QED
  BY <1>1 DEF Rewritten, AppliedGraph

LEMMA AppliedParts ==
  ASSUME NEW r, IsPatch(r), NEW b, IsBinary(b)
  PROVE  Applied(r, b) =
           [layout |-> b.layout, container |-> b.container,
            room  |-> IF DOMAIN r = {} THEN b.room ELSE RoomAfter(b, AppliedGraph(r, b)),
            graph |-> AppliedGraph(r, b)]
<1> DEFINE rs == BuildReplacements(r)
<1>1. DOMAIN rs = {k[1] : k \in DOMAIN r}
  BY DEF BuildReplacements
<1>2. b = [layout |-> b.layout, container |-> b.container, room |-> b.room, graph |-> b.graph]
  BY DEF IsBinary
<1>3. CASE DOMAIN r = {}
  <2>1. DOMAIN rs = {}
    BY <1>1, <1>3
  <2>2. \A m \in DOMAIN b.graph : b.graph[m] = [p \in Part |-> b.graph[m][p]]
    BY PartsOfBinary DEF Parts
  <2>3. b.graph = [m \in DOMAIN b.graph |-> b.graph[m]]
    BY DEF IsBinary
  <2>4. AppliedGraph(r, b) = b.graph
    BY <1>3, <2>2, <2>3 DEF AppliedGraph
  <2> QED
    BY <1>2, <1>3, <2>1, <2>4 DEF Applied, Rebuild
<1>4. CASE DOMAIN r # {}
  <2>1. DOMAIN rs # {}
    BY <1>1, <1>4
  <2>2. Applied(r, b) = Repack(b, rs)
    BY <2>1 DEF Applied, Rebuild
  <2>3. PICK g : g = AppliedGraph(r, b)
    OBVIOUS
  <2>4. Rewritten(b, rs) = g
    BY <2>3, RewrittenParts
  <2>5. PICK room : room = RoomAfter(b, g)
    OBVIOUS
  <2>6. Applied(r, b) = [b EXCEPT !.graph = g, !.room = room]
    BY <2>2, <2>4, <2>5 DEF Repack
  <2>7. Applied(r, b) =
          [layout |-> b.layout, container |-> b.container, room |-> room, graph |-> g]
    BY <1>2, <2>6
  <2> QED
    BY <1>4, <2>3, <2>5, <2>7
<1> QED
  BY <1>3, <1>4

(* When apply-patch goes through. *)
LEMMA CanApplyIff ==
  ASSUME NEW r, IsPatch(r), NEW b, IsBinary(b)
  PROVE  CanApply(r, b) <=>
           /\ Applicable(r, b)
           /\ \/ DOMAIN r = {}
              \/ /\ Fits(b, AppliedGraph(r, b))
                 /\ \A k \in DOMAIN r : ~Unstorable(b.layout, k[2], r[k].replacement)
<1> DEFINE rs == BuildReplacements(r)
<1>1. DOMAIN rs = {} <=> DOMAIN r = {}
  BY DEF BuildReplacements
<1>2. ASSUME NEW m \in DOMAIN b.graph
      PROVE  Unsupported(b.layout, Resolved(b, rs, m)) <=>
               \E p \in Part : Unstorable(b.layout, p, Resolved(b, rs, m)[p])
  BY DEF Unsupported, Unstorable, Part
<1>3. ASSUME NEW m \in DOMAIN b.graph, NEW p \in Part
      PROVE  Unstorable(b.layout, p, Resolved(b, rs, m)[p]) <=>
               /\ <<m, p>> \in DOMAIN r
               /\ Unstorable(b.layout, p, r[<<m, p>>].replacement)
  <2>1. Resolved(b, rs, m)[p] =
          IF <<m, p>> \in DOMAIN r THEN r[<<m, p>>].replacement ELSE b.graph[m][p]
    BY BuiltFor, PatchData
  <2> QED
    BY <2>1, PartsOfBinary
<1>4. ASSUME Applicable(r, b)
      PROVE  (\A m \in DOMAIN b.graph : ~Unsupported(b.layout, Resolved(b, rs, m))) <=>
             (\A k \in DOMAIN r : ~Unstorable(b.layout, k[2], r[k].replacement))
  <2>1. \A k \in DOMAIN r : k[1] \in DOMAIN b.graph
    BY <1>4 DEF Applicable, BunFSModules
  <2>2. \A m \in DOMAIN b.graph :
          Unsupported(b.layout, Resolved(b, rs, m)) <=>
            \E p \in Part : /\ <<m, p>> \in DOMAIN r
                            /\ Unstorable(b.layout, p, r[<<m, p>>].replacement)
    BY <1>2, <1>3
  <2>3. ASSUME NEW m \in DOMAIN b.graph, Unsupported(b.layout, Resolved(b, rs, m))
        PROVE  \E k \in DOMAIN r : Unstorable(b.layout, k[2], r[k].replacement)
    <3>1. PICK p \in Part : /\ <<m, p>> \in DOMAIN r
                            /\ Unstorable(b.layout, p, r[<<m, p>>].replacement)
      BY <2>2, <2>3
    <3>2. <<m, p>>[2] = p
      OBVIOUS
    <3> QED
      BY <3>1, <3>2
  <2>4. ASSUME NEW k \in DOMAIN r, Unstorable(b.layout, k[2], r[k].replacement)
        PROVE  \E m \in DOMAIN b.graph : Unsupported(b.layout, Resolved(b, rs, m))
    <3>1. k = <<k[1], k[2]>> /\ k[2] \in Part
      BY PatchData
    <3> QED
      BY <2>1, <2>2, <2>4, <3>1
  <2> QED
    BY <2>3, <2>4
<1> QED
  BY <1>1, <1>4, RewrittenParts DEF CanApply, CanRebuild, CanRepack

-----------------------------------------------------------------------------
(* Executables stay executables *)

LEMMA AppliedIsBinary ==
  ASSUME NEW r, IsPatch(r), NEW b, IsBinary(b), Applicable(r, b)
  PROVE  /\ IsBinary(Applied(r, b))
         /\ DOMAIN Applied(r, b).graph = DOMAIN b.graph
         /\ Applied(r, b).layout = b.layout
         /\ Applied(r, b).container = b.container
         /\ b.container # "shrinking" => Applied(r, b).room = b.room
         /\ b.container = "shrinking" /\ DOMAIN r # {} =>
              Applied(r, b).room = Size(Applied(r, b).graph)
         /\ Applied(r, b).graph = AppliedGraph(r, b)
<1> DEFINE g == [m \in DOMAIN b.graph |-> [p \in Part |->
                  IF <<m, p>> \in DOMAIN r
                  THEN Kept(b.layout, p, r[<<m, p>>].replacement)
                  ELSE b.graph[m][p]]]
           room == IF DOMAIN r = {} THEN b.room ELSE RoomAfter(b, g)
<1>1. g = AppliedGraph(r, b)
  BY DEF AppliedGraph
<1>2. ASSUME NEW m \in DOMAIN b.graph
      PROVE  g[m] \in Parsed(b.layout)
  <2>1. ASSUME NEW p \in Part
        PROVE  /\ g[m][p] \in Data \cup {None}
               /\ p = "contents" => g[m][p] # None
               /\ p # "contents" => /\ g[m][p] # Empty
                                    /\ g[m][p] # None => p \in Stored[b.layout]
    <3>1. CASE <<m, p>> \in DOMAIN r
      <4>1. g[m][p] = Kept(b.layout, p, r[<<m, p>>].replacement)
        BY <3>1
      <4>2. r[<<m, p>>].replacement \in Data \cup {None}
        BY <3>1, PatchData
      <4>3. p = "contents" => r[<<m, p>>].replacement # None
        BY <3>1 DEF Applicable
      <4> QED
        BY <4>1, <4>2, <4>3, SentinelsAssumption DEF Kept, Data
    <3>2. CASE <<m, p>> \notin DOMAIN r
      <4>1. g[m][p] = b.graph[m][p]
        BY <3>2
      <4>2. b.graph[m] \in Parsed(b.layout)
        BY PartsOfBinary
      <4> QED
        BY <4>1, <4>2 DEF Parsed, Parts
    <3> QED
      BY <3>1, <3>2
  <2>2. g[m] \in Parts
    BY <2>1 DEF Parts
  <2>3. g[m]["contents"] # None
    BY <2>1 DEF Part
  <2> QED
    BY <2>1, <2>2, <2>3 DEF Parsed
<1>3. g \in [DOMAIN b.graph -> Parsed(b.layout)]
  BY <1>2
<1>4. DOMAIN g = DOMAIN b.graph
  OBVIOUS
<1> HIDE DEF g
<1>5. Applied(r, b) =
        [layout |-> b.layout, container |-> b.container, room |-> room, graph |-> g]
  BY <1>1, AppliedParts
<1>6. Size(g) \in Nat
  BY <1>4, SizeType DEF IsBinary
<1>7. room \in Nat
  BY <1>6 DEF RoomAfter, IsBinary
<1>8. /\ b.container # "shrinking" => room = b.room
      /\ b.container = "shrinking" /\ DOMAIN r # {} => room = Size(g)
  BY DEF RoomAfter
<1> HIDE DEF room
<1>9. /\ Applied(r, b).graph = g
      /\ Applied(r, b).layout = b.layout
      /\ Applied(r, b).container = b.container
      /\ Applied(r, b).room = room
  BY <1>5
<1>10. IsBinary(Applied(r, b))
  BY <1>3, <1>4, <1>5, <1>7, <1>9 DEF IsBinary
<1> QED
  BY <1>1, <1>4, <1>8, <1>9, <1>10

(* The patch of a workspace is one, and asks pack for the same replacements. *)
LEMMA RecordsOf ==
  ASSUME NEW b, IsBinary(b), files \in Files
  PROVE  /\ IsPatch(Records(b))
         /\ DOMAIN Records(b) = Changed(b)
         /\ BuildReplacements(Records(b)) = CollectReplacements(b)
         /\ Ready(b) => Applicable(Records(b), b)
<1>1. DOMAIN Records(b) = Changed(b)
  BY DEF Records
<1>2. \A k \in Changed(b) : /\ k = <<k[1], k[2]>>
                             /\ k[1] \in BunFS
                             /\ k[1] \in DOMAIN b.graph
                             /\ k[2] \in Part
  BY DEF Changed, BunFSModules
<1>3. \A k \in Changed(b) : /\ Records(b)[k].expected = b.graph[k[1]][k[2]]
                             /\ Records(b)[k].replacement = files[k[1]][k[2]]
                             /\ Records(b)[k] = [expected |-> b.graph[k[1]][k[2]],
                                                 replacement |-> files[k[1]][k[2]]]
  BY DEF Records
<1>4. \A k \in Changed(b) : Records(b)[k] \in Record
  <2> SUFFICES ASSUME NEW k \in Changed(b)
               PROVE  Records(b)[k] \in Record
    OBVIOUS
  <2>1. b.graph[k[1]] \in Parts /\ files[k[1]] \in Parts
    BY <1>2, PartsOfBinary DEF Files
  <2>2. k[2] \in Part
    BY <1>2
  <2>3. b.graph[k[1]][k[2]] \in Data \cup {None} /\ files[k[1]][k[2]] \in Data \cup {None}
    BY <2>1, <2>2 DEF Parts
  <2>4. Records(b)[k] = [expected |-> b.graph[k[1]][k[2]],
                        replacement |-> files[k[1]][k[2]]]
    BY <1>3
  <2>5. PICK e \in Data \cup {None}, r \in Data \cup {None} :
          Records(b)[k] = [expected |-> e, replacement |-> r]
    BY <2>3, <2>4
  <2> QED
    BY <2>5 DEF Record
<1>5. IsPatch(Records(b))
  <2>1. Changed(b) \subseteq BunFS \X Part
    BY DEF Changed, BunFSModules
  <2>2. Records(b) \in [Changed(b) -> Record]
    BY <1>4 DEF Records
  <2> QED
    BY <1>1, <2>1, <2>2 DEF IsPatch
<1>6. BuildReplacements(Records(b)) = CollectReplacements(b)
  <2>1. \A m, p : <<m, p>> \in Changed(b) =>
                    Records(b)[<<m, p>>].replacement = files[m][p]
    BY <1>3
  <2> QED
    BY <1>1, <2>1 DEF BuildReplacements, CollectReplacements
<1>7. ASSUME Ready(b)
      PROVE  Applicable(Records(b), b)
  BY <1>1, <1>2, <1>3, <1>7 DEF Applicable, Ready, BunFSModules
<1> QED
  BY <1>1, <1>5, <1>6, <1>7

LEMMA PackedIsApplied ==
  ASSUME NEW b, IsBinary(b), files \in Files, Ready(b)
  PROVE  /\ CanApply(Records(b), b) <=> CanPack(b)
         /\ Applied(Records(b), b) = Packed(b)
BY RecordsOf DEF CanApply, CanPack, Applied, Packed

-----------------------------------------------------------------------------
(* The patch file is the patch of the files and the base it was made of. *)
PatchOfOrigin ==
  patch # NoPatch =>
    /\ DOMAIN patch = {k \in BunFSModules(origin.base) \X Part :
                         origin.files[k[1]][k[2]] # origin.base.graph[k[1]][k[2]]}
    /\ \A k \in DOMAIN patch :
         /\ patch[k].expected = origin.base.graph[k[1]][k[2]]
         /\ patch[k].replacement = origin.files[k[1]][k[2]]

(* The inductive invariant. *)
IInv == TypeOK /\ PatchOfOrigin

LEMMA ExtractedIsFiles ==
  ASSUME NEW b, IsBinary(b)
  PROVE  Extracted(b) \in Files /\ Rendered(b) \in Helpers
<1>1. \A m \in BunFSModules(b) : b.graph[m] \in Parts
  BY PartsOfBinary DEF BunFSModules
<1>2. [p \in Part |-> None] \in Parts
  BY DEF Parts
<1>3. Extracted(b) \in Files
  BY <1>1, <1>2 DEF Extracted, Files
<1>4. \A m \in BunFS, d \in Decoded : Rendering(b, m, d) \in Decodable \cup {None}
  BY DEF Rendering
<1>5. Rendered(b) \in Helpers
  BY <1>4 DEF Rendered, Helpers
<1> QED
  BY <1>3, <1>5

LEMMA InitIInv == Init => IInv
<1> SUFFICES ASSUME Init
             PROVE  IInv
  OBVIOUS
<1>1. IsBinary(app)
  BY WorkflowAssumption DEF Init
<1>2. files \in Files
  BY DEF Init, Files, Parts
<1>3. helpers \in Helpers
  BY DEF Init, Helpers
<1>4. edits \in 0 .. MaxEdits
  BY WorkflowAssumption DEF Init
<1> QED
  BY <1>1, <1>2, <1>3, <1>4 DEF Init, IInv, TypeOK, PatchOfOrigin

LEMMA NextIInv ==
  ASSUME IInv, [Next]_vars
  PROVE  IInv'
<1> USE DEF IInv, TypeOK
<1>1. CASE Unpack
  <2>1. IsBinary(app) /\ files' \in Files /\ helpers' \in Helpers
    BY <1>1, ExtractedIsFiles DEF Unpack
  <2> QED
    BY <1>1, <2>1 DEF Unpack, PatchOfOrigin
<1>2. ASSUME NEW m \in BunFS, NEW p \in Part, NEW data \in Data \cup {None},
             EditFile(m, p, data)
      PROVE  IInv'
  <2>1. files' \in Files
    BY <1>2 DEF EditFile, Files, Parts
  <2>2. edits' \in 0 .. MaxEdits
    BY <1>2, WorkflowAssumption DEF EditFile, Editing
  <2> QED
    BY <1>2, <2>1, <2>2 DEF EditFile, Editing, PatchOfOrigin
<1>3. ASSUME NEW m \in BunFS, NEW d \in Decoded, NEW text \in {None, Scribble},
             EditHelper(m, d, text)
      PROVE  IInv'
  <2>1. helpers' \in Helpers
    BY <1>3 DEF EditHelper, Helpers
  <2>2. edits' \in 0 .. MaxEdits
    BY <1>3, WorkflowAssumption DEF EditHelper, Editing
  <2> QED
    BY <1>3, <2>1, <2>2 DEF EditHelper, Editing, PatchOfOrigin
<1>4. CASE AddStrange
  <2>1. edits' \in 0 .. MaxEdits
    BY <1>4, WorkflowAssumption DEF AddStrange, Editing
  <2> QED
    BY <1>4, <2>1 DEF AddStrange, Editing, PatchOfOrigin
<1>5. CASE Pack
  <2>1. /\ IsBinary(base)
        /\ Ready(base)
    BY <1>5 DEF Pack, CanPack
  <2>2. Packed(base) = Applied(Records(base), base)
    BY <2>1, PackedIsApplied
  <2>3. IsBinary(Applied(Records(base), base))
    BY <2>1, RecordsOf, AppliedIsBinary
  <2>4. app' = Packed(base)
    BY <1>5 DEF Pack
  <2>5. IsBinary(app')
    BY <2>2, <2>3, <2>4
  <2> QED
    BY <1>5, <2>5 DEF Pack, PatchOfOrigin
<1>6. CASE CreatePatch
  <2>1. /\ base # NoBase
        /\ IsBinary(base)
    BY <1>6 DEF CreatePatch
  <2>2. /\ IsPatch(Records(base))
        /\ DOMAIN Records(base) = Changed(base)
    BY <2>1, RecordsOf
  <2>3. /\ patch' = Records(base)
        /\ origin' = [base |-> base, files |-> files]
    BY <1>6 DEF CreatePatch
  <2>4. /\ IsPatch(patch')
        /\ IsBinary(origin'.base)
        /\ origin'.files \in Files
    BY <2>1, <2>2, <2>3
  <2>5. PatchOfOrigin'
    <3>1. \A k \in Changed(base) : /\ Records(base)[k].expected = base.graph[k[1]][k[2]]
                                   /\ Records(base)[k].replacement = files[k[1]][k[2]]
      BY DEF Records
    <3> QED
      BY <2>2, <2>3, <3>1 DEF PatchOfOrigin, Changed
  <2> QED
    BY <1>6, <2>4, <2>5 DEF CreatePatch
<1>7. CASE ApplyPatch
  <2>1. /\ IsPatch(patch)
        /\ Applicable(patch, app)
        /\ app' = Applied(patch, app)
    BY <1>7 DEF ApplyPatch, CanApply
  <2>2. IsBinary(Applied(patch, app))
    BY <2>1, AppliedIsBinary
  <2>3. IsBinary(app')
    BY <2>1, <2>2
  <2> QED
    BY <1>7, <2>3 DEF ApplyPatch, PatchOfOrigin
<1>8. CASE TakeRelease
  <2>1. IsBinary(app')
    BY <1>8, WorkflowAssumption DEF TakeRelease
  <2> QED
    BY <1>8, <2>1 DEF TakeRelease, PatchOfOrigin
<1>9. CASE UNCHANGED vars
  BY <1>9 DEF vars, PatchOfOrigin
<1> QED
  BY <1>1, <1>2, <1>3, <1>4, <1>5, <1>6, <1>7, <1>8, <1>9 DEF Next

(* The inductive invariant holds in every behaviour. *)
THEOREM Invariance == Spec => []IInv
<1>1. Init => IInv
  BY InitIInv
<1>2. IInv /\ [Next]_vars => IInv'
  BY NextIInv
<1> QED
  BY <1>1, <1>2, PTL DEF Spec

-----------------------------------------------------------------------------
(* The executables, the files and the patch are always of their types: above all,
   whatever pack and apply-patch write can be inspected again, by the same
   record layout. *)
THEOREM TypeCorrect == Spec => []TypeOK
<1>1. IInv => TypeOK
  BY DEF IInv
<1> QED
  BY <1>1, Invariance, PTL

(* pack, and patch followed by apply-patch, are the same command. *)
THEOREM PatchAndPackAgree == Spec => []PatchMeansPack
<1>1. IInv => PatchMeansPack
  BY PackedIsApplied DEF IInv, TypeOK, PatchMeansPack
<1> QED
  BY <1>1, Invariance, PTL

-----------------------------------------------------------------------------
(* The single parts of the result of apply-patch, for use below. *)
LEMMA AppliedPart ==
  ASSUME NEW r, IsPatch(r), NEW b, IsBinary(b), Applicable(r, b),
         NEW m \in DOMAIN b.graph, NEW p \in Part
  PROVE  Applied(r, b).graph[m][p] =
           IF <<m, p>> \in DOMAIN r
           THEN Kept(b.layout, p, r[<<m, p>>].replacement)
           ELSE b.graph[m][p]
<1>1. Applied(r, b).graph = AppliedGraph(r, b)
  BY AppliedIsBinary
<1>2. AppliedGraph(r, b)[m][p] =
        IF <<m, p>> \in DOMAIN r
        THEN Kept(b.layout, p, r[<<m, p>>].replacement)
        ELSE b.graph[m][p]
  BY DEF AppliedGraph
<1> QED
  BY <1>1, <1>2

LEMMA NothingApplied ==
  ASSUME NEW r, DOMAIN r = {}, NEW b
  PROVE  Applied(r, b) = b
BY DEF Applied, Rebuild, BuildReplacements

(* Two executables are the same if their parts and their containers are. *)
LEMMA SameGraph ==
  ASSUME NEW b, IsBinary(b), NEW c, IsBinary(c),
         DOMAIN b.graph = DOMAIN c.graph,
         \A m \in DOMAIN b.graph, p \in Part : b.graph[m][p] = c.graph[m][p]
  PROVE  b.graph = c.graph
<1>1. \A m \in DOMAIN b.graph : b.graph[m] \in Parts /\ c.graph[m] \in Parts
  BY PartsOfBinary
<1>2. \A m \in DOMAIN b.graph : b.graph[m] = c.graph[m]
  BY <1>1 DEF Parts
<1> QED
  BY <1>2 DEF IsBinary

LEMMA SameBinary ==
  ASSUME NEW b, IsBinary(b), NEW c, IsBinary(c),
         b.layout = c.layout, b.container = c.container, b.room = c.room,
         b.graph = c.graph
  PROVE  b = c
BY DEF IsBinary

(* A patch that applies to its own result has changed no part, so that applying
   it again is a no-op. *)
THEOREM ReapplyIsHarmless == Spec => []ReapplyHarmless
<1>1. IInv => ReapplyHarmless
  <2> SUFFICES ASSUME IInv, patch # NoPatch, CanApply(patch, app),
                      CanApply(patch, Applied(patch, app))
               PROVE  Applied(patch, Applied(patch, app)) = Applied(patch, app)
    BY DEF ReapplyHarmless
  <2>1. /\ IsPatch(patch)
        /\ IsBinary(app)
        /\ Applicable(patch, app)
        /\ Applicable(patch, Applied(patch, app))
    BY DEF IInv, TypeOK, CanApply
  <2>2. PICK once : once = Applied(patch, app)
    OBVIOUS
  <2>3. /\ IsBinary(once)
        /\ DOMAIN once.graph = DOMAIN app.graph
        /\ once.layout = app.layout
        /\ once.container = app.container
        /\ once.container # "shrinking" => once.room = app.room
        /\ once.container = "shrinking" /\ DOMAIN patch # {} => once.room = Size(once.graph)
        /\ Applicable(patch, once)
    BY <2>1, <2>2, AppliedIsBinary
  <2>4. PICK twice : twice = Applied(patch, once)
    OBVIOUS
  <2>5. /\ IsBinary(twice)
        /\ DOMAIN twice.graph = DOMAIN once.graph
        /\ twice.layout = once.layout
        /\ twice.container = once.container
        /\ twice.container # "shrinking" => twice.room = once.room
        /\ twice.container = "shrinking" /\ DOMAIN patch # {} =>
             twice.room = Size(twice.graph)
    BY <2>1, <2>3, <2>4, AppliedIsBinary
  <2>6. ASSUME NEW m \in DOMAIN once.graph, NEW p \in Part
        PROVE  twice.graph[m][p] = once.graph[m][p]
    <3>1. CASE <<m, p>> \in DOMAIN patch
      <4>1. /\ once.graph[m][p] = Kept(app.layout, p, patch[<<m, p>>].replacement)
            /\ twice.graph[m][p] = Kept(once.layout, p, patch[<<m, p>>].replacement)
        BY <2>1, <2>2, <2>3, <2>4, <3>1, AppliedPart
      <4> QED
        BY <2>3, <4>1
    <3>2. CASE <<m, p>> \notin DOMAIN patch
      BY <2>1, <2>3, <2>4, <3>2, AppliedPart
    <3> QED
      BY <3>1, <3>2
  <2>7. twice.graph = once.graph
    BY <2>3, <2>5, <2>6, SameGraph
  <2>8. DOMAIN patch = {} => twice.room = once.room
    BY <2>1, <2>3, <2>4, AppliedParts
  <2>9. twice.room = once.room
    BY <2>3, <2>5, <2>7, <2>8
  <2>10. twice = once
    BY <2>3, <2>5, <2>7, <2>9, SameBinary
  <2> QED
    BY <2>2, <2>4, <2>10
<1> QED
  BY <1>1, Invariance, PTL

(* A patch applies to what another patch of other parts has made of an executable
   that both apply to, if there is room for what both make. *)
LEMMA StillApplies ==
  ASSUME NEW b, IsBinary(b), NEW q, IsPatch(q), NEW r, IsPatch(r),
         DOMAIN q \cap DOMAIN r = {}, CanApply(q, b), CanApply(r, b)
  PROVE  /\ Applicable(q, b)
         /\ Applicable(r, b)
         /\ IsBinary(Applied(r, b))
         /\ Applicable(q, Applied(r, b))
         /\ CanApply(q, Applied(r, b)) <=>
              \/ DOMAIN q = {}
              \/ Fits(Applied(r, b), Applied(q, Applied(r, b)).graph)
<1>1. Applicable(q, b) /\ Applicable(r, b)
  BY DEF CanApply
<1>2. PICK c : c = Applied(r, b)
  OBVIOUS
<1>3. /\ IsBinary(c)
      /\ DOMAIN c.graph = DOMAIN b.graph
      /\ c.layout = b.layout
  BY <1>1, <1>2, AppliedIsBinary
<1>4. Applicable(q, c)
  <2> SUFFICES ASSUME NEW k \in DOMAIN q
               PROVE  /\ k[1] \in BunFSModules(c)
                      /\ q[k].expected = c.graph[k[1]][k[2]]
                      /\ k[2] = "contents" => q[k].replacement # None
    BY DEF Applicable
  <2>1. /\ k[1] \in BunFSModules(b)
        /\ q[k].expected = b.graph[k[1]][k[2]]
        /\ k[2] = "contents" => q[k].replacement # None
    BY <1>1 DEF Applicable
  <2>2. /\ k = <<k[1], k[2]>>
        /\ k[2] \in Part
        /\ k[1] \in DOMAIN b.graph
    BY <2>1, PatchData, BunFSModulesOf
  <2>3. <<k[1], k[2]>> \notin DOMAIN r
    BY <2>2
  <2>4. c.graph[k[1]][k[2]] = b.graph[k[1]][k[2]]
    BY <1>1, <1>2, <2>2, <2>3, AppliedPart
  <2>5. k[1] \in BunFSModules(c)
    BY <1>3, <2>1, BunFSModulesOf
  <2> QED
    BY <2>1, <2>4, <2>5
<1>5. \/ DOMAIN q = {}
      \/ \A k \in DOMAIN q : ~Unstorable(c.layout, k[2], q[k].replacement)
  BY <1>3, CanApplyIff
<1>6. Applied(q, c).graph = AppliedGraph(q, c)
  BY <1>3, <1>4, AppliedIsBinary
<1>7. CanApply(q, c) <=> DOMAIN q = {} \/ Fits(c, Applied(q, c).graph)
  BY <1>3, <1>4, <1>5, <1>6, CanApplyIff
<1> QED
  BY <1>1, <1>2, <1>3, <1>4, <1>7

(* What both make of it does not depend on the order. *)
LEMMA Commute ==
  ASSUME NEW b, IsBinary(b), NEW q, IsPatch(q), NEW r, IsPatch(r),
         DOMAIN q \cap DOMAIN r = {}, CanApply(q, b), CanApply(r, b)
  PROVE  Applied(q, Applied(r, b)) = Applied(r, Applied(q, b))
<1>1. PICK c : c = Applied(r, b)
  OBVIOUS
<1>2. PICK d : d = Applied(q, b)
  OBVIOUS
<1>3. PICK e : e = Applied(q, c)
  OBVIOUS
<1>4. PICK f : f = Applied(r, d)
  OBVIOUS
<1>5. /\ Applicable(q, b) /\ Applicable(r, b)
      /\ IsBinary(c) /\ Applicable(q, c)
      /\ IsBinary(d) /\ Applicable(r, d)
  BY <1>1, <1>2, StillApplies
<1>6. /\ DOMAIN c.graph = DOMAIN b.graph
      /\ c.layout = b.layout
      /\ c.container = b.container
      /\ b.container # "shrinking" => c.room = b.room
  BY <1>1, <1>5, AppliedIsBinary
<1>7. /\ DOMAIN d.graph = DOMAIN b.graph
      /\ d.layout = b.layout
      /\ d.container = b.container
      /\ b.container # "shrinking" => d.room = b.room
  BY <1>2, <1>5, AppliedIsBinary
<1>8. /\ IsBinary(e)
      /\ DOMAIN e.graph = DOMAIN c.graph
      /\ e.layout = c.layout
      /\ e.container = c.container
      /\ c.container # "shrinking" => e.room = c.room
      /\ c.container = "shrinking" /\ DOMAIN q # {} => e.room = Size(e.graph)
  BY <1>3, <1>5, AppliedIsBinary
<1>9. /\ IsBinary(f)
      /\ DOMAIN f.graph = DOMAIN d.graph
      /\ f.layout = d.layout
      /\ f.container = d.container
      /\ d.container # "shrinking" => f.room = d.room
      /\ d.container = "shrinking" /\ DOMAIN r # {} => f.room = Size(f.graph)
  BY <1>4, <1>5, AppliedIsBinary
<1>10. ASSUME NEW m \in DOMAIN b.graph, NEW p \in Part
       PROVE  e.graph[m][p] = f.graph[m][p]
  <2>1. d.graph[m][p] =
          IF <<m, p>> \in DOMAIN q THEN Kept(b.layout, p, q[<<m, p>>].replacement)
          ELSE b.graph[m][p]
    BY <1>2, <1>5, AppliedPart
  <2>2. c.graph[m][p] =
          IF <<m, p>> \in DOMAIN r THEN Kept(b.layout, p, r[<<m, p>>].replacement)
          ELSE b.graph[m][p]
    BY <1>1, <1>5, AppliedPart
  <2>3. e.graph[m][p] =
          IF <<m, p>> \in DOMAIN q THEN Kept(b.layout, p, q[<<m, p>>].replacement)
          ELSE c.graph[m][p]
    BY <1>3, <1>5, <1>6, AppliedPart
  <2>4. f.graph[m][p] =
          IF <<m, p>> \in DOMAIN r THEN Kept(b.layout, p, r[<<m, p>>].replacement)
          ELSE d.graph[m][p]
    BY <1>4, <1>5, <1>7, AppliedPart
  <2> QED
    BY <2>1, <2>2, <2>3, <2>4
<1>11. e.graph = f.graph
  BY <1>6, <1>7, <1>8, <1>9, <1>10, SameGraph
<1>12. CASE DOMAIN q = {}
  <2>1. e = c /\ d = b
    BY <1>2, <1>3, <1>5, <1>12, NothingApplied
  <2> QED
    BY <1>1, <1>2, <1>3, <2>1
<1>13. CASE DOMAIN r = {}
  <2>1. c = b /\ f = d
    BY <1>1, <1>4, <1>5, <1>13, NothingApplied
  <2> QED
    BY <1>1, <1>2, <1>4, <2>1
<1>14. CASE DOMAIN q # {} /\ DOMAIN r # {}
  <2>1. e.room = f.room
    BY <1>6, <1>7, <1>8, <1>9, <1>11, <1>14
  <2>2. e = f
    BY <1>6, <1>7, <1>8, <1>9, <1>11, <2>1, SameBinary
  <2> QED
    BY <1>1, <1>2, <1>3, <1>4, <2>2
<1> QED
  BY <1>12, <1>13, <1>14

(* Patches of different parts can be applied in either order, as far as there is room. *)
THEOREM PatchesCommute == Spec => []DisjointPatchesCommute
<1>1. IInv => DisjointPatchesCommute
  <2> SUFFICES ASSUME IInv, patch # NoPatch, base # NoBase,
                      DOMAIN patch \cap DOMAIN Records(base) = {},
                      CanApply(patch, app), CanApply(Records(base), app),
                      NEW other, other = Records(base),
                      NEW first, first = Applied(patch, app),
                      NEW then, then = Applied(other, app),
                      NEW both, both = Applied(other, first)
               PROVE  /\ both = Applied(patch, then)
                      /\ CanApply(other, first) \/ ~Fits(first, both.graph)
                      /\ CanApply(patch, then) \/ ~Fits(then, both.graph)
                      /\ app.container # "shrinking" =>
                           (CanApply(other, first) <=> CanApply(patch, then))
    BY DEF DisjointPatchesCommute
  <2>1. /\ IsPatch(patch)
        /\ IsBinary(app)
        /\ IsPatch(other)
    BY RecordsOf DEF IInv, TypeOK
  <2>2. DOMAIN other \cap DOMAIN patch = {}
    OBVIOUS
  <2>3. both = Applied(patch, then)
    BY <2>1, <2>2, Commute
  <2>4. /\ Applicable(patch, app)
        /\ CanApply(other, first) <=> DOMAIN other = {} \/ Fits(first, both.graph)
    BY <2>1, <2>2, StillApplies
  <2>5. /\ Applicable(other, app)
        /\ CanApply(patch, then) <=> DOMAIN patch = {} \/ Fits(then, both.graph)
    BY <2>1, <2>3, StillApplies
  <2>6. ASSUME app.container # "shrinking"
        PROVE  CanApply(other, first) <=> CanApply(patch, then)
    <3>1. first.room = app.room /\ first.container = app.container
      BY <2>1, <2>4, <2>6, AppliedIsBinary
    <3>2. then.room = app.room /\ then.container = app.container
      BY <2>1, <2>5, <2>6, AppliedIsBinary
    <3>3. Fits(first, both.graph) <=> Fits(then, both.graph)
      BY <3>1, <3>2 DEF Fits
    <3>4. DOMAIN other = {} => CanApply(patch, then)
      BY <2>1, NothingApplied
    <3>5. DOMAIN patch = {} => CanApply(other, first)
      BY <2>1, NothingApplied
    <3> QED
      BY <2>4, <2>5, <3>3, <3>4, <3>5
  <2> QED
    BY <2>3, <2>4, <2>5, <2>6
<1> QED
  BY <1>1, Invariance, PTL

-----------------------------------------------------------------------------
(* apply-patch changes each part the user changed, if it is the one the patch was made
   against, to what the user had made of it, and no other part. *)
THEOREM AppliedChangesWereMeant == Spec => ChangesWereMeant
<1> DEFINE Meant ==
      ApplyPatch =>
        /\ DOMAIN app'.graph = DOMAIN app.graph
        /\ \A m \in DOMAIN app.graph, p \in Part :
             IF m \in BunFSModules(origin.base) /\ origin.files[m][p] # origin.base.graph[m][p]
             THEN /\ app.graph[m][p] = origin.base.graph[m][p]
                  /\ \/ app'.graph[m][p] = origin.files[m][p]
                     \/ p # "contents" /\ origin.files[m][p] = Empty /\ app'.graph[m][p] = None
                     \/ p \notin Stored[app.layout] /\ app'.graph[m][p] = None
             ELSE app'.graph[m][p] = app.graph[m][p]
<1>1. IInv /\ [Next]_vars => [Meant]_vars
  <2> SUFFICES ASSUME IInv, ApplyPatch
               PROVE  Meant
    OBVIOUS
  <2>1. /\ patch # NoPatch
        /\ IsPatch(patch)
        /\ IsBinary(app)
        /\ Applicable(patch, app)
        /\ app' = Applied(patch, app)
    BY DEF IInv, TypeOK, ApplyPatch, CanApply
  <2>2. DOMAIN app'.graph = DOMAIN app.graph
    BY <2>1, AppliedIsBinary
  <2>3. ASSUME NEW m \in DOMAIN app.graph, NEW p \in Part
        PROVE  IF m \in BunFSModules(origin.base) /\ origin.files[m][p] # origin.base.graph[m][p]
               THEN /\ app.graph[m][p] = origin.base.graph[m][p]
                    /\ \/ app'.graph[m][p] = origin.files[m][p]
                       \/ p # "contents" /\ origin.files[m][p] = Empty /\ app'.graph[m][p] = None
                       \/ p \notin Stored[app.layout] /\ app'.graph[m][p] = None
               ELSE app'.graph[m][p] = app.graph[m][p]
    <3>1. <<m, p>> \in DOMAIN patch <=>
            m \in BunFSModules(origin.base) /\ origin.files[m][p] # origin.base.graph[m][p]
      BY <2>1 DEF IInv, PatchOfOrigin
    <3>2. CASE <<m, p>> \in DOMAIN patch
      <4>1. /\ patch[<<m, p>>].expected = origin.base.graph[m][p]
            /\ patch[<<m, p>>].replacement = origin.files[m][p]
        BY <2>1, <3>2 DEF IInv, PatchOfOrigin
      <4>2. patch[<<m, p>>].expected = app.graph[m][p]
        BY <2>1, <3>2 DEF Applicable
      <4>3. app'.graph[m][p] = Kept(app.layout, p, patch[<<m, p>>].replacement)
        BY <2>1, <3>2, AppliedPart
      <4> QED
        BY <3>1, <3>2, <4>1, <4>2, <4>3 DEF Kept
    <3>3. CASE <<m, p>> \notin DOMAIN patch
      <4>1. app'.graph[m][p] = app.graph[m][p]
        BY <2>1, <3>3, AppliedPart
      <4> QED
        BY <3>1, <3>3, <4>1
    <3> QED
      BY <3>2, <3>3
  <2> QED
    BY <2>2, <2>3
<1> QED
  BY <1>1, Invariance, PTL DEF Spec, ChangesWereMeant

(* pack followed by unpack gives the files back, but for empty sidecars and
   those the record layout has no field for; other modules are untouched. *)
THEOREM PackKeepsTheFiles == Spec => PackKeepsFiles
<1> DEFINE KeptAll ==
      Pack =>
        /\ DOMAIN app'.graph = DOMAIN base.graph
        /\ \A m \in BunFS, p \in Part :
             \/ Extracted(app')[m][p] = files[m][p]
             \/ p # "contents" /\ files[m][p] = Empty /\ Extracted(app')[m][p] = None
             \/ p \notin Stored[base.layout] /\ Extracted(app')[m][p] = None
        /\ \A m \in DOMAIN base.graph \cap Foreign : app'.graph[m] = base.graph[m]
<1>1. IInv /\ [Next]_vars => [KeptAll]_vars
  <2> SUFFICES ASSUME IInv, Pack
               PROVE  KeptAll
    OBVIOUS
  <2>1. /\ IsBinary(base)
        /\ files \in Files
        /\ Ready(base)
        /\ IsPatch(Records(base))
        /\ DOMAIN Records(base) = Changed(base)
        /\ Applicable(Records(base), base)
        /\ app' = Applied(Records(base), base)
    BY RecordsOf, PackedIsApplied DEF IInv, TypeOK, Pack, CanPack
  <2>2. /\ DOMAIN app'.graph = DOMAIN base.graph
        /\ IsBinary(app')
    BY <2>1, AppliedIsBinary
  <2>3. ASSUME NEW m \in DOMAIN base.graph, NEW p \in Part
        PROVE  app'.graph[m][p] =
                 IF <<m, p>> \in Changed(base) THEN Kept(base.layout, p, files[m][p])
                 ELSE base.graph[m][p]
    <3>1. <<m, p>> \in Changed(base) =>
            Records(base)[<<m, p>>].replacement = files[m][p]
      BY DEF Records
    <3> QED
      BY <2>1, <3>1, AppliedPart
  <2>4. ASSUME NEW m \in BunFS, NEW p \in Part
        PROVE  \/ Extracted(app')[m][p] = files[m][p]
               \/ p # "contents" /\ files[m][p] = Empty /\ Extracted(app')[m][p] = None
               \/ p \notin Stored[base.layout] /\ Extracted(app')[m][p] = None
    <3>1. CASE m \in DOMAIN base.graph
      <4>1. Extracted(app')[m][p] = app'.graph[m][p]
        BY <2>2, <3>1 DEF Extracted, BunFSModules
      <4>2. <<m, p>> \notin Changed(base) => base.graph[m][p] = files[m][p]
        BY <3>1 DEF Changed, BunFSModules
      <4> QED
        BY <2>3, <3>1, <4>1, <4>2 DEF Kept, Stored, Part
    <3>2. CASE m \notin DOMAIN base.graph
      <4>1. Extracted(app')[m][p] = None
        BY <2>2, <3>2 DEF Extracted, BunFSModules
      <4>2. files[m][p] = None
        BY <2>1, <3>2 DEF Ready, ValidWorkspace, BunFSModules
      <4> QED
        BY <4>1, <4>2
    <3> QED
      BY <3>1, <3>2
  <2>5. ASSUME NEW m \in DOMAIN base.graph \cap Foreign
        PROVE  app'.graph[m] = base.graph[m]
    <3>1. m \notin BunFS
      BY SentinelsAssumption
    <3>2. \A p \in Part : <<m, p>> \notin Changed(base)
      BY <3>1 DEF Changed, BunFSModules
    <3>3. \A p \in Part : app'.graph[m][p] = base.graph[m][p]
      BY <2>3, <3>2
    <3>4. app'.graph[m] \in Parts /\ base.graph[m] \in Parts
      BY <2>1, <2>2, PartsOfBinary
    <3> QED
      BY <3>3, <3>4 DEF Parts
  <2> QED
    BY <2>2, <2>4, <2>5
<1> QED
  BY <1>1, Invariance, PTL DEF Spec, PackKeepsFiles

=============================================================================
