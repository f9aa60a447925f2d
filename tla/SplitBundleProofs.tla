-------------------------- MODULE SplitBundleProofs --------------------------
(***************************************************************************)
(* Proofs about SplitBundle, for every bundle and any number of modules:   *)
(* the statements are given out once, no body runs twice and none is left  *)
(* out, names are found, and the files of a direct bundle run like it.     *)
(***************************************************************************)
EXTENDS SplitBundle, SequenceTheorems, FiniteSetTheorems, WellFoundedInduction, TLAPS

Frames == [module : Modules \cup {Driver}, part : {"body", "load"}, at : Nat \ {0},
           inner : Scopes, local : Scopes]

(* Each variable is of its type: the state that the program can represent. *)
TypeOK ==
  /\ program \in Programs
  /\ outcome \in {"unpack", "unpack failed", "run", "done"} \cup Failure
  /\ status \in [Modules -> {"absent", "loading", "loaded"}]
  /\ cells \in [Modules -> Scopes]
  /\ cache \in [Modules -> Scopes \cup {None}]
  /\ stack \in Seq(Frames)
  /\ started \in Seq(Modules)
  /\ seen \in Seq(Value)

(* The files are those of the bundle, and nothing runs before there are files. *)
FilesMade ==
  IF outcome \in {"unpack", "unpack failed"}
  THEN stack = <<Frame(Driver, "body", {})>>
  ELSE files = Files(program)

(* The operators below take what they speak of as parameters: a bundle p, a stack s, the
   bodies b that were started, the status st of the files. *)

(* The driver is outermost. *)
DriverFirst(o, s) ==
  /\ o = "done" => s = << >>
  /\ o # "done" => s # << >> /\ s[1].module = Driver /\ s[1].part = "body"
  /\ \A k \in DOMAIN s : k # 1 => s[k].module # Driver

IsCall(e) == e[1] = "call"

Running(s, m) == \E k \in DOMAIN s : s[k].module = m /\ s[k].part = "body"
Loading(s, m) == \E k \in DOMAIN s : s[k].module = m /\ s[k].part = "load"

LoadsOnce(s) ==
  \A j, k \in DOMAIN s :
    /\ s[j].module = s[k].module
    /\ s[j].part = "load" /\ s[k].part = "load"
    => j = k

(* A body is started once, behind the one load of its file. *)
StartedOnce(s, st, b) ==
  /\ IsInjective(b)
  /\ LoadsOnce(s)
  /\ \A m \in Modules :
       /\ st[m] = "absent" => ~Loading(s, m) /\ m \notin Range(b)
       /\ Loading(s, m) => st[m] = "loading" /\ m \notin Range(b)
       /\ st[m] = "loading" => Loading(s, m) \/ m \in Range(b)
       /\ Running(s, m) => m \in Range(b)

Text(p, frame) ==
  IF frame.part = "load" THEN Files(p)[frame.module].calls ELSE Files(p)[frame.module].steps

(* The body was started, or will be once its file is loaded; of the empty file of a CommonJs
   module there is none. *)
Covered(p, s, b, m) ==
  m \in Range(b) \/ (p.kind[m] = "cjs" /\ (Loading(s, m) \/ File(p, m).empty))

(* What a running body has called is covered. *)
CallsDone(p, s, b, frame) ==
  /\ frame.at <= Len(Text(p, frame)) + 1
  /\ frame.part = "body" =>
       \A j \in 1 .. frame.at - 1 :
         IsCall(Text(p, frame)[j].expression) => Covered(p, s, b, Text(p, frame)[j].expression[2])

(* All that the other bodies call is covered. *)
CallsCovered(p, s, b, o) ==
  /\ \A m \in Range(b) : Running(s, m) \/ \A d \in Calls(p, m) : Covered(p, s, b, d)
  /\ o = "done" => Covered(p, s, b, p.entry)

(* A lazy body that has returned left its exports, all of them. *)
CacheKept(p, s, b, c) ==
  \A m \in Modules :
    /\ m \in Range(b) /\ p.kind[m] = "lazy" => c[m] # None \/ Running(s, m)
    /\ c[m] # None => DOMAIN c[m] = FinalExports(p, m)

(* The names of a file are there from its load on, those of a body from its start on.  Of the
   empty files only that of a CommonJs module comes to be loaded. *)
NamesThere(p, st, ce) ==
  \A m \in Modules :
    st[m] # "absent" =>
      IF File(p, m).empty THEN p.kind[m] = "cjs" ELSE File(p, m).declared \subseteq DOMAIN ce[m]

LocalsThere(p, st, frame) ==
  frame.module # Driver =>
    /\ st[frame.module] # "absent"
    /\ frame.part = "body" => File(p, frame.module).local \subseteq DOMAIN frame.local

(* The functions of a scope are at home in files of the kinds given. *)
Homes(p, st, scope, kinds) ==
  \A f \in DOMAIN scope \cap DOMAIN Target :
    scope[f] # Undefined =>
      /\ scope[f] \in Modules /\ p.kind[scope[f]] \in kinds
      /\ f \in SupportNames(p, scope[f]) /\ st[scope[f]] # "absent"

KindsIn(p, m) == IF p.kind[m] = "lazy" THEN {"lazy"} ELSE {"lazy", "cjs"}

(* A CommonJs module does not give its functions away. *)
FunctionsHome(p, st, ce, c) ==
  \A m \in Modules :
    /\ Homes(p, st, ce[m], KindsIn(p, m))
    /\ c[m] # None => Homes(p, st, c[m], {"lazy"})

(* What holds of each frame. *)
FrameKept(p, s, st, b, frame) ==
  /\ CallsDone(p, s, b, frame)
  /\ LocalsThere(p, st, frame)
  /\ Homes(p, st, frame.inner, {"lazy"}) /\ Homes(p, st, frame.local, {"lazy"})

FramesKept(p, s, st, b) == \A k \in DOMAIN s : FrameKept(p, s, st, b, s[k])

(* The inductive invariant. *)
IInv ==
  /\ TypeOK /\ FilesMade /\ DriverFirst(outcome, stack)
  /\ StartedOnce(stack, status, started)
  /\ CallsCovered(program, stack, started, outcome)
  /\ CacheKept(program, stack, started, cache)
  /\ NamesThere(program, status, cells)
  /\ FunctionsHome(program, status, cells, cache)
  /\ FramesKept(program, stack, status, started)
  /\ NamesFound

-----------------------------------------------------------------------------
(* Sequences of sequences *)

(* A set of natural numbers has a smallest member. *)
LEMMA SmallestOf ==
  ASSUME NEW S \in SUBSET Nat, S # {}
  PROVE  \E m \in S : \A n \in S : m <= n
<1>1. PICK m \in S : \A n \in S : ~(<<n, m>> \in OpToRel(<, Nat))
  BY NatLessThanWellFounded, WFMin
<1>2. \A n \in S : ~(n < m)  BY <1>1 DEF OpToRel
<1>. QED  BY <1>2

(* The function that FlattenSeq computes exists: each part is the one before with one
   sequence more. *)
LEMMA Flattening ==
  ASSUME NEW S, NEW s \in Seq(Seq(S)), s # << >>
  PROVE  \E f \in [1 .. Len(s) -> Seq(S)] :
           /\ f[1] = s[1]
           /\ \A i \in 2 .. Len(s) : f[i] = f[i - 1] \o s[i]
           /\ FlattenSeq(s) = f[Len(s)]
<1>. DEFINE Upto(k, f) == f = [i \in 1 .. k |-> IF i = 1 THEN s[i] ELSE f[i - 1] \o s[i]]
<1>1. PICK n \in Nat : n = Len(s) /\ n > 0  BY EmptySeq
<1>2. \E f : Upto(n, f)
  <2>. DEFINE Has(k) == \E f : Upto(k, f)
              Bad == {k \in 1 .. n : ~Has(k)}
  <2>. HIDE DEF Has
  <2>. SUFFICES ASSUME Bad # {} PROVE FALSE
    <3>1. n \in 1 .. n /\ n \notin Bad => Has(n)  OBVIOUS
    <3>2. n \in 1 .. n  BY <1>1
    <3>. QED  BY <3>1, <3>2 DEF Has
  <2>1. PICK k \in Bad : \A j \in Bad : k <= j
    <3>1. Bad \in SUBSET Nat  OBVIOUS
    <3>. HIDE DEF Bad
    <3>. QED  BY <3>1, SmallestOf
  <2>2. k \in 1 .. n /\ ~Has(k)  BY <2>1
  <2>3. CASE k = 1
    <3>. DEFINE f == [i \in 1 .. 1 |-> s[i]]
    <3>1. f = [i \in 1 .. 1 |-> IF i = 1 THEN s[i] ELSE f[i - 1] \o s[i]]  OBVIOUS
    <3>2. Upto(k, f)  BY <2>3, <3>1
    <3>3. Has(k)  BY <3>2, Zenon DEF Has
    <3>. QED  BY <2>2, <3>3
  <2>4. CASE k # 1
    <3>1. k - 1 \in 1 .. n /\ k - 1 \notin Bad  BY <2>1, <2>2, <2>4
    <3>2. PICK g : Upto(k - 1, g)
      <4>1. Has(k - 1)  BY <3>1
      <4>. QED  BY <4>1 DEF Has
    <3>. DEFINE f == [i \in 1 .. k |-> IF i = k THEN g[k - 1] \o s[k] ELSE g[i]]
    <3>3. \A i \in 1 .. k : f[i] = IF i = 1 THEN s[i] ELSE f[i - 1] \o s[i]
      <4>. SUFFICES ASSUME NEW i \in 1 .. k
                    PROVE  f[i] = IF i = 1 THEN s[i] ELSE f[i - 1] \o s[i]
        OBVIOUS
      <4>1. \A j \in 1 .. k - 1 : f[j] = g[j]  BY <2>2
      <4>2. CASE i = k
        <5>1. k - 1 \in 1 .. k - 1  BY <2>2, <2>4
        <5>2. f[k - 1] = g[k - 1]  BY <4>1, <5>1
        <5>. QED  BY <2>4, <4>2, <5>2
      <4>3. CASE i # k
        <5>1. i \in 1 .. k - 1 /\ (i # 1 => i - 1 \in 1 .. k - 1)  BY <2>2, <4>3
        <5>2. g[i] = IF i = 1 THEN s[i] ELSE g[i - 1] \o s[i]  BY <3>2, <5>1
        <5>3. f[i] = g[i] /\ (i # 1 => f[i - 1] = g[i - 1])  BY <4>1, <5>1
        <5>. QED  BY <5>2, <5>3
      <4>. QED  BY <4>2, <4>3
    <3>4. f = [i \in 1 .. k |-> f[i]]  OBVIOUS
    <3>. HIDE DEF f
    <3>5. Upto(k, f)  BY <3>3, <3>4
    <3>6. Has(k)  BY <3>5, Zenon DEF Has
    <3>. QED  BY <2>2, <3>6
  <2>. QED  BY <2>3, <2>4
<1>3. PICK f : f = CHOOSE g : Upto(n, g)  OBVIOUS
<1>4. Upto(n, f)  BY <1>2, <1>3
<1>5. FlattenSeq(s) = f[n]  BY <1>1, <1>3 DEF FlattenSeq
<1>6. DOMAIN f = 1 .. n  BY <1>4
<1>7. /\ f[1] = s[1]
      /\ \A i \in 2 .. n : f[i] = f[i - 1] \o s[i]
  <2>1. \A i \in 1 .. n : f[i] = IF i = 1 THEN s[i] ELSE f[i - 1] \o s[i]  BY <1>4
  <2>2. 1 \in 1 .. n /\ \A i \in 2 .. n : i \in 1 .. n /\ i # 1  BY <1>1
  <2>. HIDE DEF Upto
  <2>. QED  BY <2>1, <2>2
<1>8. \A i \in 1 .. n : f[i] \in Seq(S)
  <2>. DEFINE Bad == {k \in 1 .. n : f[k] \notin Seq(S)}
  <2>. SUFFICES ASSUME Bad # {} PROVE FALSE  OBVIOUS
  <2>1. PICK k \in Bad : \A j \in Bad : k <= j
    <3>1. Bad \in SUBSET Nat  OBVIOUS
    <3>. HIDE DEF Bad
    <3>. QED  BY <3>1, SmallestOf
  <2>2. k \in 1 .. n /\ f[k] \notin Seq(S)  BY <2>1
  <2>3. s[k] \in Seq(S)  BY <1>1, <2>2, ElementOfSeq
  <2>4. CASE k = 1  BY <1>7, <2>2, <2>3, <2>4
  <2>5. CASE k # 1
    <3>1. k - 1 \in 1 .. n /\ k - 1 \notin Bad /\ k \in 2 .. n  BY <2>1, <2>2, <2>5
    <3>2. f[k - 1] \in Seq(S)  BY <3>1
    <3>3. f[k] = f[k - 1] \o s[k]  BY <1>7, <3>1
    <3>4. f[k - 1] \o s[k] \in Seq(S)  BY <2>3, <3>2, ConcatProperties
    <3>. QED  BY <2>2, <3>3, <3>4
  <2>. QED  BY <2>4, <2>5
<1>9. f = [i \in 1 .. n |-> f[i]]  BY <1>4
<1>10. f \in [1 .. n -> Seq(S)]  BY <1>8, <1>9
<1>. QED  BY <1>1, <1>5, <1>7, <1>10

(* o says of each place of t which of the first i sequences of s it is from. *)
Origin(s, i, t, o) ==
  /\ o \in [1 .. Len(t) -> 1 .. i]
  /\ \A a, b \in 1 .. Len(t) : a <= b => o[a] <= o[b]
  /\ \A a \in 1 .. Len(t) : t[a] \in Range(s[o[a]])
  /\ \A j \in 1 .. i : \A x \in Range(s[j]) : \E a \in 1 .. Len(t) : o[a] = j /\ t[a] = x

(* One sequence more. *)
LEMMA OriginStep ==
  ASSUME NEW S, NEW s \in Seq(Seq(S)), NEW i \in Nat, i + 1 \in 1 .. Len(s),
         NEW t \in Seq(S), NEW o, Origin(s, i, t, o)
  PROVE  \E more : Origin(s, i + 1, t \o s[i + 1], more)
<1>1. PICK next \in Seq(S) : next = s[i + 1]  BY ElementOfSeq
<1>2. PICK n \in Nat, k \in Nat : n = Len(t) /\ k = Len(next)  OBVIOUS
<1>3. PICK u : u = t \o next  OBVIOUS
<1>4. /\ Len(u) = n + k
      /\ \A a \in 1 .. n + k : u[a] = IF a <= n THEN t[a] ELSE next[a - n]
  BY <1>2, <1>3, ConcatProperties
<1>. DEFINE more == [a \in 1 .. n + k |-> IF a <= n THEN o[a] ELSE i + 1]
<1>5. \A a \in 1 .. n : /\ o[a] \in 1 .. i /\ t[a] \in Range(s[o[a]])
                       /\ \A b \in 1 .. n : a <= b => o[a] <= o[b]
  BY <1>2 DEF Origin
<1>6. more \in [1 .. n + k -> 1 .. i + 1]
  <2>. SUFFICES ASSUME NEW a \in 1 .. n + k
                PROVE  (IF a <= n THEN o[a] ELSE i + 1) \in 1 .. i + 1
    OBVIOUS
  <2>1. CASE a <= n
    <3>1. a \in 1 .. n  BY <1>2, <2>1
    <3>2. o[a] \in 1 .. i  BY <1>5, <3>1
    <3>. QED  BY <2>1, <3>2
  <2>2. CASE ~(a <= n)  BY <2>2
  <2>. QED  BY <2>1, <2>2
<1>7. ASSUME NEW a \in 1 .. n + k, NEW b \in 1 .. n + k, a <= b
      PROVE  more[a] <= more[b]
  <2>1. CASE b <= n
    <3>1. a \in 1 .. n /\ b \in 1 .. n  BY <1>2, <1>7, <2>1
    <3>2. o[a] <= o[b]  BY <1>5, <1>7, <3>1
    <3>3. more[a] = o[a] /\ more[b] = o[b]  BY <3>1
    <3>. QED  BY <3>2, <3>3
  <2>2. CASE ~(b <= n)
    <3>1. more[b] = i + 1 /\ more[a] \in 1 .. i + 1  BY <1>6, <2>2
    <3>. QED  BY <3>1
  <2>. QED  BY <2>1, <2>2
<1>8. ASSUME NEW a \in 1 .. n + k
      PROVE  u[a] \in Range(s[more[a]])
  <2>1. CASE a <= n
    <3>1. a \in 1 .. n  BY <1>2, <2>1
    <3>2. more[a] = o[a] /\ u[a] = t[a]  BY <1>4, <2>1
    <3>. QED  BY <1>5, <3>1, <3>2
  <2>2. CASE ~(a <= n)
    <3>1. a - n \in 1 .. k  BY <1>2, <2>2
    <3>2. next[a - n] \in Range(next)  BY <1>1, <1>2, <3>1 DEF Range
    <3>3. more[a] = i + 1 /\ u[a] = next[a - n]  BY <1>4, <2>2
    <3>. QED  BY <1>1, <3>2, <3>3
  <2>. QED  BY <2>1, <2>2
<1>9. ASSUME NEW j \in 1 .. i + 1, NEW x \in Range(s[j])
      PROVE  \E a \in 1 .. n + k : more[a] = j /\ u[a] = x
  <2>1. CASE j = i + 1
    <3>1. PICK c \in 1 .. k : next[c] = x  BY <1>1, <1>2, <1>9, <2>1 DEF Range
    <3>2. n + c \in 1 .. n + k /\ ~(n + c <= n) /\ (n + c) - n = c  BY <1>2
    <3>3. more[n + c] = j  BY <2>1, <3>2
    <3>4. u[n + c] = x  BY <1>4, <3>1, <3>2
    <3>. QED  BY <3>2, <3>3, <3>4
  <2>2. CASE j # i + 1
    <3>1. j \in 1 .. i  BY <2>2
    <3>2. PICK a \in 1 .. n : o[a] = j /\ t[a] = x  BY <1>2, <1>9, <3>1 DEF Origin
    <3>3. a \in 1 .. n + k /\ a <= n  BY <1>2
    <3>4. more[a] = j /\ u[a] = x  BY <1>4, <3>2, <3>3
    <3>. QED  BY <3>3, <3>4
  <2>. QED  BY <2>1, <2>2
<1>. HIDE DEF more
<1>10. Origin(s, i + 1, u, more)  BY <1>4, <1>6, <1>7, <1>8, <1>9 DEF Origin
<1>. QED  BY <1>1, <1>3, <1>10

(* Where each part of a flattened sequence is from. *)
LEMMA FlattenOrigin ==
  ASSUME NEW S, NEW s \in Seq(Seq(S))
  PROVE  /\ FlattenSeq(s) \in Seq(S)
         /\ \E o : Origin(s, Len(s), FlattenSeq(s), o)
<1>1. CASE s = << >>
  <2>1. Len(s) = 0 /\ FlattenSeq(s) = s /\ s \in Seq(S)  BY <1>1, EmptySeq DEF FlattenSeq
  <2>. DEFINE o == [a \in 1 .. 0 |-> 0]
  <2>2. Origin(s, 0, s, o)
    <3>1. o \in [1 .. 0 -> 1 .. 0]  OBVIOUS
    <3>2. \A a \in 1 .. 0 : FALSE  OBVIOUS
    <3>. QED  BY <2>1, <3>1, <3>2 DEF Origin
  <2>. QED  BY <2>1, <2>2
<1>2. CASE s # << >>
  <2>1. PICK n \in Nat : n = Len(s) /\ n > 0  BY <1>2, EmptySeq
  <2>2. PICK f \in [1 .. n -> Seq(S)] :
           /\ f[1] = s[1]
           /\ \A i \in 2 .. n : f[i] = f[i - 1] \o s[i]
           /\ FlattenSeq(s) = f[n]
    BY <1>2, <2>1, Flattening
  <2>. DEFINE Has(k) == \E o : Origin(s, k, f[k], o)
              Bad == {k \in 1 .. n : ~Has(k)}
  <2>3. Bad = {}
    <3>. SUFFICES ASSUME Bad # {} PROVE FALSE  OBVIOUS
    <3>. HIDE DEF Has
    <3>1. PICK k \in Bad : \A j \in Bad : k <= j
      <4>1. Bad \in SUBSET Nat  OBVIOUS
      <4>. HIDE DEF Bad
      <4>. QED  BY <4>1, SmallestOf
    <3>2. k \in 1 .. n /\ ~Has(k)  BY <3>1
    <3>3. CASE k = 1
      <4>. DEFINE o == [a \in 1 .. Len(s[1]) |-> 1]
      <4>1. s[1] \in Seq(S)  BY <2>1, ElementOfSeq
      <4>2. PICK m \in Nat : m = Len(s[1]) /\ DOMAIN s[1] = 1 .. m  BY <4>1
      <4>3. o \in [1 .. m -> 1 .. 1] /\ \A a \in 1 .. m : o[a] = 1  BY <4>2
      <4>. HIDE DEF o
      <4>4. \A a \in 1 .. m : s[1][a] \in Range(s[1])  BY <4>2 DEF Range
      <4>5. \A x \in Range(s[1]) : \E a \in 1 .. m : s[1][a] = x  BY <4>2 DEF Range
      <4>6. \A j \in 1 .. 1 : j = 1  OBVIOUS
      <4>7. Origin(s, 1, s[1], o)  BY <4>2, <4>3, <4>4, <4>5, <4>6 DEF Origin
      <4>8. Has(1)  BY <2>2, <4>7, Zenon DEF Has
      <4>. QED  BY <3>2, <3>3, <4>8
    <3>4. CASE k # 1
      <4>1. PICK i \in Nat : k = i + 1 /\ i \in 1 .. n /\ i \notin Bad /\ k \in 2 .. n /\ k - 1 = i
        <5>1. k - 1 \in Nat /\ k - 1 \in 1 .. n /\ k - 1 \notin Bad /\ k \in 2 .. n
          BY <3>1, <3>2, <3>4
        <5>. QED  BY <5>1
      <4>2. PICK o : Origin(s, i, f[i], o)
        <5>1. Has(i)  BY <4>1
        <5>. QED  BY <5>1 DEF Has
      <4>3. f[i] \in Seq(S) /\ f[k] = f[i] \o s[k]  BY <2>2, <4>1
      <4>4. \E more : Origin(s, i + 1, f[i] \o s[i + 1], more)
        BY <2>1, <3>2, <4>1, <4>2, <4>3, OriginStep
      <4>5. Has(k)  BY <4>1, <4>3, <4>4 DEF Has
      <4>. QED  BY <3>2, <4>5
    <3>. QED  BY <3>3, <3>4
  <2>4. n \in 1 .. n  BY <2>1
  <2>5. Has(n)  BY <2>3, <2>4
  <2>. QED  BY <2>1, <2>2, <2>4, <2>5
<1>. QED  BY <1>1, <1>2

(* What is in a flattened sequence is what is in the sequences. *)
LEMMA FlattenRange ==
  ASSUME NEW S, NEW s \in Seq(Seq(S))
  PROVE  /\ FlattenSeq(s) \in Seq(S)
         /\ \A x \in Range(FlattenSeq(s)) : \E j \in 1 .. Len(s) : x \in Range(s[j])
         /\ \A j \in 1 .. Len(s) : Range(s[j]) \subseteq Range(FlattenSeq(s))
<1>1. PICK t \in Seq(S) : t = FlattenSeq(s)  BY FlattenOrigin
<1>2. PICK o : Origin(s, Len(s), t, o)  BY <1>1, FlattenOrigin
<1>3. DOMAIN t = 1 .. Len(t)  OBVIOUS
<1>4. ASSUME NEW x \in Range(t) PROVE \E j \in 1 .. Len(s) : x \in Range(s[j])
  <2>1. PICK a \in 1 .. Len(t) : x = t[a]  BY <1>3, <1>4 DEF Range
  <2>2. o[a] \in 1 .. Len(s) /\ t[a] \in Range(s[o[a]])  BY <1>2 DEF Origin
  <2>. QED  BY <2>1, <2>2
<1>5. ASSUME NEW j \in 1 .. Len(s), NEW x \in Range(s[j]) PROVE x \in Range(t)
  <2>1. PICK a \in 1 .. Len(t) : t[a] = x  BY <1>2 DEF Origin
  <2>. QED  BY <1>3, <2>1 DEF Range
<1>. QED  BY <1>1, <1>4, <1>5

-----------------------------------------------------------------------------
(* Statements *)

(* The modules c, in the order of their wrappers, and the statements o of the wrappers. *)
Placed(p, c, o) ==
  /\ c \in Seq(Modules) /\ c = Candidates(p)
  /\ \A a, b \in 1 .. Len(c) : c[a] = c[b] => a = b
  /\ \A m \in Modules : \E a \in 1 .. Len(c) : c[a] = m
  /\ o \in [1 .. Len(c) -> 1 .. Len(p.statements)]
  /\ \A a, b \in 1 .. Len(c) : a <= b => o[a] <= o[b]
  /\ \A a \in 1 .. Len(c) : StatementOf(p, c[a]) = o[a]
  /\ \A i \in 1 .. Len(p.statements) :
       p.statements[i].wraps # << >> <=> \E a \in 1 .. Len(c) : o[a] = i

(* Wrappers are numbered in the order of the statements that hold them. *)
LEMMA WrappersPlaced ==
  ASSUME NEW p, IsProgram(p)
  PROVE  \E c, o : Placed(p, c, o)
<1>1. PICK st \in Seq(Statement) : st = p.statements  BY DEF IsProgram
<1>2. PICK n \in Nat : n = Len(st) /\ DOMAIN st = 1 .. n  OBVIOUS
<1>3. \A i \in 1 .. n : st[i] \in Statement  BY <1>2, ElementOfSeq
<1>4. \A i \in 1 .. n : st[i].wraps \in Seq(Modules)  BY <1>3 DEF Statement
<1>5. PICK w : w = [i \in 1 .. n |-> st[i].wraps]  OBVIOUS
<1>6. w \in Seq(Seq(Modules)) /\ Len(w) = n /\ \A i \in 1 .. n : w[i] = st[i].wraps
  BY <1>4, <1>5
<1>7. Candidates(p) = FlattenSeq(w)  BY <1>1, <1>2, <1>5, Zenon DEF Candidates
<1>8. PICK c \in Seq(Modules) : c = Candidates(p)  BY <1>6, <1>7, FlattenOrigin
<1>9. PICK o : Origin(w, n, c, o)  BY <1>6, <1>7, <1>8, FlattenOrigin
<1>10. PICK k \in Nat : k = Len(c) /\ DOMAIN c = 1 .. k  OBVIOUS
<1>11. \A a, b \in 1 .. k : c[a] = c[b] => a = b
  <2>1. IsInjective(c)  BY <1>8 DEF IsProgram
  <2>. QED  BY <1>10, <2>1 DEF IsInjective
<1>12. \A m \in Modules : \E a \in 1 .. k : c[a] = m
  <2>1. Range(c) = Modules  BY <1>8 DEF IsProgram
  <2>. QED  BY <1>10, <2>1 DEF Range
<1>13. /\ o \in [1 .. k -> 1 .. n]
       /\ \A a, b \in 1 .. k : a <= b => o[a] <= o[b]
       /\ \A a \in 1 .. k : c[a] \in Range(w[o[a]])
       /\ \A j \in 1 .. n : \A x \in Range(w[j]) : \E a \in 1 .. k : o[a] = j /\ c[a] = x
  BY <1>9, <1>10 DEF Origin
<1>14. ASSUME NEW a \in 1 .. k PROVE StatementOf(p, c[a]) = o[a]
  <2>1. o[a] \in 1 .. n /\ c[a] \in Range(st[o[a]].wraps)  BY <1>6, <1>13
  <2>2. ASSUME NEW i \in 1 .. n, c[a] \in Range(st[i].wraps) PROVE i = o[a]
    <3>1. PICK b \in 1 .. k : o[b] = i /\ c[b] = c[a]  BY <1>6, <1>13, <2>2
    <3>. QED  BY <1>11, <3>1
  <2>3. StatementOf(p, c[a]) = CHOOSE i \in 1 .. n : c[a] \in Range(st[i].wraps)
    BY <1>1, <1>2, Zenon DEF StatementOf
  <2>. QED  BY <2>1, <2>2, <2>3
<1>15. ASSUME NEW i \in 1 .. n
       PROVE  st[i].wraps # << >> <=> \E a \in 1 .. k : o[a] = i
  <2>1. PICK v \in Seq(Modules) : v = w[i] /\ v = st[i].wraps  BY <1>4, <1>6
  <2>2. ASSUME v # << >> PROVE \E a \in 1 .. k : o[a] = i
    <3>1. 1 \in DOMAIN v  BY <2>2, EmptySeq
    <3>2. v[1] \in Range(w[i])  BY <2>1, <3>1 DEF Range
    <3>. QED  BY <1>13, <3>2
  <2>3. ASSUME NEW a \in 1 .. k, o[a] = i PROVE v # << >>
    <3>1. c[a] \in Range(v)  BY <1>13, <2>1, <2>3
    <3>. QED  BY <3>1 DEF Range
  <2>. QED  BY <2>1, <2>2, <2>3
<1>16. Len(c) = k /\ Len(p.statements) = n /\ p.statements = st  BY <1>1, <1>2, <1>10
<1>17. \A a \in 1 .. k : StatementOf(p, c[a]) = o[a]  BY <1>14
<1>18. \A i \in 1 .. n : st[i].wraps # << >> <=> \E a \in 1 .. k : o[a] = i  BY <1>15
<1>19. \A a, b \in 1 .. k : a <= b => o[a] <= o[b]  BY <1>13
<1>20. o \in [1 .. k -> 1 .. n]  BY <1>13
<1>21. Placed(p, c, o) <=>
        /\ c \in Seq(Modules) /\ c = Candidates(p)
        /\ \A a, b \in 1 .. k : c[a] = c[b] => a = b
        /\ \A m \in Modules : \E a \in 1 .. k : c[a] = m
        /\ o \in [1 .. k -> 1 .. n]
        /\ \A a, b \in 1 .. k : a <= b => o[a] <= o[b]
        /\ \A a \in 1 .. k : StatementOf(p, c[a]) = o[a]
        /\ \A i \in 1 .. n : st[i].wraps # << >> <=> \E a \in 1 .. k : o[a] = i
  BY <1>16 DEF Placed
<1>. QED  BY <1>8, <1>11, <1>12, <1>17, <1>18, <1>19, <1>20, <1>21

(* The statements of a module lie between its wrapper's and the next wrapper's. *)
LEMMA SupportBetween ==
  ASSUME NEW p, p.statements \in Seq(Statement), NEW c, NEW o, Placed(p, c, o), NEW a \in 1 .. Len(c)
  PROVE  /\ c[a] \in Modules /\ StatementOf(p, c[a]) = o[a]
         /\ Support(p, c[a]) \subseteq 1 .. Len(p.statements)
         /\ \A i \in 1 .. Len(p.statements) :
              i \in Support(p, c[a]) <=> o[a] < i /\ (a # Len(c) => i < o[a + 1])
<1>1. PICK k \in Nat, n \in Nat :
        k = Len(c) /\ n = Len(p.statements) /\ DOMAIN c = 1 .. k /\ DOMAIN p.statements = 1 .. n
  BY DEF Placed
<1>2. c[a] \in Modules /\ StatementOf(p, c[a]) = o[a] /\ o[a] \in 1 .. n
  BY <1>1, ElementOfSeq DEF Placed
<1>3. c = Candidates(p)  BY DEF Placed
<1>4. (CHOOSE j \in DOMAIN c : c[j] = c[a]) = a
  <2>1. \A j \in 1 .. k : c[j] = c[a] => j = a  BY <1>1 DEF Placed
  <2>. QED  BY <1>1, <2>1
<1>5. Support(p, c[a]) = StatementOf(p, c[a]) + 1 ..
        (IF a = k THEN n ELSE StatementOf(p, c[a + 1]) - 1)
  BY <1>1, <1>3, <1>4, Zenon DEF Support
<1>6. a # k => /\ a + 1 \in 1 .. k
               /\ StatementOf(p, c[a + 1]) = o[a + 1] /\ o[a + 1] \in 1 .. n
  <2>1. a # k => a + 1 \in 1 .. k  BY <1>1
  <2>. QED  BY <1>1, <2>1 DEF Placed
<1>7. CASE a = k
  <2>1. Support(p, c[a]) = o[a] + 1 .. n  BY <1>2, <1>5, <1>7
  <2>. QED  BY <1>1, <1>2, <1>7, <2>1
<1>8. CASE a # k
  <2>1. Support(p, c[a]) = o[a] + 1 .. o[a + 1] - 1  BY <1>2, <1>5, <1>6, <1>8
  <2>. QED  BY <1>1, <1>2, <1>6, <1>8, <2>1
<1>. QED  BY <1>7, <1>8

(* Each statement behind the first wrapper that holds none goes to one module, every other
   to none. *)
LEMMA GivenOnce ==
  ASSUME NEW p, IsProgram(p), NEW i \in DOMAIN p.statements
  PROVE  LET owners  == {m \in Modules : i \in Support(p, m)}
             behind  == \E m \in Modules : StatementOf(p, m) < i
             wrapper == p.statements[i].wraps # << >>
         IN Cardinality(owners) = IF behind /\ ~wrapper THEN 1 ELSE 0
<1>. DEFINE owners == {m \in Modules : i \in Support(p, m)}
            behind == \E m \in Modules : StatementOf(p, m) < i
            wrapper == p.statements[i].wraps # << >>
<1>1. p.statements \in Seq(Statement)  BY DEF IsProgram
<1>2. PICK c, o : Placed(p, c, o)  BY WrappersPlaced
<1>3. PICK k \in Nat, n \in Nat :
        k = Len(c) /\ n = Len(p.statements) /\ DOMAIN p.statements = 1 .. n
  BY <1>1, <1>2 DEF Placed
<1>4. i \in 1 .. n  BY <1>3
<1>5. \A m \in Modules : \E a \in 1 .. k : c[a] = m  BY <1>2, <1>3 DEF Placed
<1>6. \A a \in 1 .. k :
        /\ c[a] \in Modules /\ StatementOf(p, c[a]) = o[a] /\ o[a] \in 1 .. n
        /\ i \in Support(p, c[a]) <=> o[a] < i /\ (a # k => i < o[a + 1])
  <2>1. ASSUME NEW a \in 1 .. k
        PROVE  /\ c[a] \in Modules /\ StatementOf(p, c[a]) = o[a]
               /\ i \in Support(p, c[a]) <=> o[a] < i /\ (a # k => i < o[a + 1])
    BY <1>1, <1>2, <1>3, <1>4, SupportBetween
  <2>2. \A a \in 1 .. k : o[a] \in 1 .. n  BY <1>2, <1>3 DEF Placed
  <2>. QED  BY <2>1, <2>2
<1>7. \A a, b \in 1 .. k : a <= b => o[a] <= o[b]  BY <1>2, <1>3 DEF Placed
<1>8. wrapper <=> \E a \in 1 .. k : o[a] = i  BY <1>2, <1>3, <1>4 DEF Placed
<1>9. behind <=> \E a \in 1 .. k : o[a] < i
  <2>1. ASSUME NEW m \in Modules, StatementOf(p, m) < i PROVE \E a \in 1 .. k : o[a] < i
    <3>1. PICK a \in 1 .. k : c[a] = m  BY <1>5
    <3>. QED  BY <1>6, <2>1, <3>1
  <2>2. ASSUME NEW a \in 1 .. k, o[a] < i PROVE behind
    BY <1>6, <2>2
  <2>. QED  BY <2>1, <2>2
<1>10. ASSUME ~behind PROVE Cardinality(owners) = 0
  <2>1. owners = {}
    <3>. SUFFICES ASSUME NEW m \in Modules, i \in Support(p, m) PROVE FALSE  OBVIOUS
    <3>1. PICK a \in 1 .. k : c[a] = m  BY <1>5
    <3>2. o[a] < i  BY <1>6, <3>1
    <3>. QED  BY <1>9, <1>10, <3>2
  <2>. QED  BY <2>1, FS_EmptySet
<1>11. ASSUME wrapper PROVE Cardinality(owners) = 0
  <2>1. PICK b \in 1 .. k : o[b] = i  BY <1>8, <1>11
  <2>2. owners = {}
    <3>. SUFFICES ASSUME NEW m \in Modules, i \in Support(p, m) PROVE FALSE  OBVIOUS
    <3>1. PICK a \in 1 .. k : c[a] = m  BY <1>5
    <3>2. o[a] < i /\ (a # k => i < o[a + 1])  BY <1>6, <3>1
    <3>3. ~(b <= a)  BY <1>6, <1>7, <2>1, <3>2
    <3>4. a + 1 \in 1 .. k /\ a + 1 <= b /\ a # k  BY <1>3, <3>3
    <3>5. o[a + 1] <= i  BY <1>7, <2>1, <3>4
    <3>. QED  BY <1>4, <1>6, <3>2, <3>4, <3>5
  <2>. QED  BY <2>2, FS_EmptySet
<1>12. ASSUME behind, ~wrapper PROVE Cardinality(owners) = 1
  <2>. DEFINE Later == {b \in 1 .. k + 1 : b = k + 1 \/ i < o[b]}
  <2>1. PICK b \in Later : \A j \in Later : b <= j
    <3>1. Later \in SUBSET Nat /\ k + 1 \in Later  BY <1>3
    <3>. HIDE DEF Later
    <3>. QED  BY <3>1, SmallestOf
  <2>2. PICK a0 \in 1 .. k : o[a0] < i  BY <1>9, <1>12
  <2>3. ~(b <= a0)
    <3>. SUFFICES ASSUME b <= a0 PROVE FALSE  OBVIOUS
    <3>1. b \in 1 .. k /\ i < o[b]  BY <1>3, <2>1
    <3>2. o[b] <= o[a0]  BY <1>7, <3>1
    <3>. QED  BY <1>4, <1>6, <2>2, <3>1, <3>2
  <2>4. PICK a \in 1 .. k : b = a + 1
    <3>1. b - 1 \in 1 .. k /\ b = (b - 1) + 1  BY <1>3, <2>1, <2>3
    <3>. QED  BY <3>1
  <2>5. o[a] < i
    <3>1. a \in 1 .. k + 1 /\ ~(b <= a)  BY <1>3, <2>4
    <3>2. a \notin Later  BY <2>1, <3>1
    <3>3. ~(i < o[a])  BY <3>1, <3>2
    <3>4. o[a] # i  BY <1>8, <1>12
    <3>. QED  BY <1>4, <1>6, <3>3, <3>4
  <2>6. a # k => i < o[a + 1]  BY <2>1, <2>4
  <2>7. c[a] \in Modules /\ i \in Support(p, c[a])  BY <1>6, <2>5, <2>6
  <2>8. ASSUME NEW m \in Modules, i \in Support(p, m) PROVE m = c[a]
    <3>1. PICK d \in 1 .. k : c[d] = m  BY <1>5
    <3>2. o[d] < i /\ (d # k => i < o[d + 1])  BY <1>6, <2>8, <3>1
    <3>3. CASE d < a
      <4>1. d + 1 \in 1 .. k /\ d + 1 <= a /\ d # k  BY <1>3, <3>3
      <4>2. o[d + 1] <= o[a]  BY <1>7, <4>1
      <4>. QED  BY <1>4, <1>6, <2>5, <3>2, <4>1, <4>2
    <3>4. CASE a < d
      <4>1. a + 1 \in 1 .. k /\ a + 1 <= d /\ a # k  BY <1>3, <3>4
      <4>2. o[a + 1] <= o[d]  BY <1>7, <4>1
      <4>. QED  BY <1>4, <1>6, <2>6, <3>2, <4>1, <4>2
    <3>5. CASE d = a  BY <3>1, <3>5
    <3>. QED  BY <1>3, <3>3, <3>4, <3>5
  <2>9. owners = {c[a]}  BY <2>7, <2>8
  <2>. QED  BY <2>9, FS_Singleton
<1>. HIDE DEF owners, behind, wrapper
<1>13. Cardinality(owners) = IF behind /\ ~wrapper THEN 1 ELSE 0
  BY <1>10, <1>11, <1>12, Zenon
<1>. QED  BY <1>13 DEF owners, behind, wrapper

-----------------------------------------------------------------------------
(* The text of a file *)

StepType == [expression : Expression, first : BOOLEAN, inner : BOOLEAN, binds : SUBSET Names]

Registry == [Modules -> SUBSET Names]

(* The three kinds of expressions. *)
LEMMA ExpressionKinds ==
  ASSUME NEW e \in Expression
  PROVE  \/ e[1] = "call" /\ e[2] \in Modules
         \/ e[1] \in {"use", "set"} /\ e[2] \in Variables
         \/ e[1] = "bump" /\ e[2] \in DOMAIN Target
BY DEF Expression

(* Opened stops at the first operand that does not open a function. *)
LEMMA OpenedShape ==
  ASSUME NEW p, NEW exports, NEW s, Len(s) \in Nat
  PROVE  LET opens(e) == e[1] = "call" /\ p.kind[e[2]] = "lazy" /\ exports[e[2]] # {}
             k == Opened(p, exports, s)
         IN /\ k \in 0 .. Len(s)
            /\ \A i \in 1 .. k : opens(s[i])
            /\ k < Len(s) => ~opens(s[k + 1])
<1>. DEFINE opens(e) == e[1] = "call" /\ p.kind[e[2]] = "lazy" /\ exports[e[2]] # {}
            Good(k) == /\ \A i \in 1 .. k : opens(s[i])
                       /\ k < Len(s) => ~opens(s[k + 1])
<1>1. Opened(p, exports, s) = CHOOSE k \in 0 .. Len(s) : Good(k)  BY DEF Opened
<1>2. \E k \in 0 .. Len(s) : Good(k)
  <2>. HIDE DEF opens
  <2>1. PICK n \in Nat : n = Len(s)  OBVIOUS
  <2>. DEFINE Stops == {j \in 1 .. n + 1 : j = n + 1 \/ ~opens(s[j])}
  <2>2. PICK j \in Stops : \A i \in Stops : j <= i
    <3>1. Stops \in SUBSET Nat /\ n + 1 \in Stops  BY <2>1
    <3>. HIDE DEF Stops
    <3>. QED  BY <3>1, SmallestOf
  <2>3. PICK k \in 0 .. n : j = k + 1  BY <2>1, <2>2
  <2>4. ASSUME NEW i \in 1 .. k PROVE opens(s[i])
    <3>1. i \in 1 .. n + 1 /\ ~(j <= i) /\ i # n + 1  BY <2>1, <2>3, <2>4
    <3>. QED  BY <2>2, <3>1
  <2>5. k < n => ~opens(s[k + 1])  BY <2>1, <2>2, <2>3
  <2>. QED  BY <2>1, <2>3, <2>4, <2>5
<1>. HIDE DEF Good
<1>3. Opened(p, exports, s) \in 0 .. Len(s) /\ Good(Opened(p, exports, s))  BY <1>1, <1>2
<1>. QED  BY <1>3 DEF Good

(* A step as it is made of the expression s[k]: what it binds is of a lazy module's call. *)
StepOf(p, exports, s, k, step) ==
  /\ step \in StepType /\ step.expression = s[k] /\ step.inner = (Len(s) > 1)
  /\ step.binds # {} => /\ IsCall(s[k]) /\ p.kind[s[k][2]] = "lazy"
                        /\ step.binds = exports[s[k][2]]

(* One step of each expression. *)
LEMMA RewrittenShape ==
  ASSUME NEW p, IsProgram(p), NEW exports \in Registry, NEW s \in Seq(Expression)
  PROVE  /\ Rewritten(p, exports, s) \in Seq(StepType)
         /\ Len(Rewritten(p, exports, s)) = Len(s)
         /\ \A k \in 1 .. Len(s) : StepOf(p, exports, s, k, Rewritten(p, exports, s)[k])
<1>1. PICK n \in Nat : n = Len(s) /\ DOMAIN s = 1 .. n  OBVIOUS
<1>2. PICK m : m = Opened(p, exports, s)  OBVIOUS
<1>3. m \in 0 .. n /\ \A i \in 1 .. m : s[i][1] = "call" /\ p.kind[s[i][2]] = "lazy"
  BY <1>1, <1>2, OpenedShape
<1>. DEFINE made(k) == [expression |-> s[k], first |-> k = 1, inner |-> Len(s) > 1,
                        binds |-> IF k <= m THEN exports[s[k][2]] ELSE {}]
<1>4. Rewritten(p, exports, s) = [k \in 1 .. n |-> made(k)]
  BY <1>1, <1>2 DEF Rewritten
<1>5. ASSUME NEW k \in 1 .. n PROVE StepOf(p, exports, s, k, made(k))
  <2>1. s[k] \in Expression  BY <1>1, ElementOfSeq
  <2>2. k <= m => k \in 1 .. m  BY <1>3
  <2>3. k <= m => s[k][2] \in Modules  BY <1>3, <2>1, <2>2, ExpressionKinds
  <2>4. k <= m => exports[s[k][2]] \in SUBSET Names  BY <2>3 DEF Registry
  <2>5. made(k) \in StepType
    <3>1. (IF k <= m THEN exports[s[k][2]] ELSE {}) \in SUBSET Names  BY <2>4
    <3>2. (k = 1) \in BOOLEAN /\ (Len(s) > 1) \in BOOLEAN  OBVIOUS
    <3>. QED  BY <2>1, <3>1, <3>2 DEF StepType
  <2>6. made(k).binds # {} => k <= m /\ made(k).binds = exports[s[k][2]]  OBVIOUS
  <2>7. made(k).expression = s[k] /\ made(k).inner = (Len(s) > 1)  OBVIOUS
  <2>. HIDE DEF made
  <2>. QED  BY <1>3, <2>2, <2>5, <2>6, <2>7 DEF StepOf, IsCall
<1>6. \A k \in 1 .. n : made(k) \in StepType  BY <1>5 DEF StepOf
<1>7. PICK r : r = [k \in 1 .. n |-> made(k)]  OBVIOUS
<1>8. r \in Seq(StepType) /\ Len(r) = n /\ \A k \in 1 .. n : r[k] = made(k)
  <2>. HIDE DEF made
  <2>. QED  BY <1>6, <1>7
<1>. HIDE DEF made
<1>. QED  BY <1>1, <1>4, <1>5, <1>7, <1>8

(* The steps of statements are those of one statement after the other. *)
LEMMA StepsOfStatements ==
  ASSUME NEW p, IsProgram(p), NEW exports \in Registry, NEW b \in Seq(Seq(Expression)),
         NEW t, t = FlattenSeq([i \in DOMAIN b |-> Rewritten(p, exports, b[i])])
  PROVE  /\ t \in Seq(StepType)
         /\ \A step \in Range(t) : \E s \in Range(b) : \E k \in 1 .. Len(s) :
              step = Rewritten(p, exports, s)[k]
         /\ \A s \in Range(b) : \A k \in 1 .. Len(s) : Rewritten(p, exports, s)[k] \in Range(t)
<1>1. PICK n \in Nat : n = Len(b) /\ DOMAIN b = 1 .. n  OBVIOUS
<1>. DEFINE made(i) == Rewritten(p, exports, b[i])
<1>2. PICK parts : parts = [i \in 1 .. n |-> made(i)]  OBVIOUS
<1>3. ASSUME NEW i \in 1 .. n
      PROVE  /\ b[i] \in Seq(Expression) /\ made(i) \in Seq(StepType)
             /\ Len(made(i)) = Len(b[i])
  <2>1. b[i] \in Seq(Expression)  BY <1>1, ElementOfSeq
  <2>. QED  BY <2>1, RewrittenShape
<1>4. \A i \in 1 .. n : made(i) \in Seq(StepType)  BY <1>3
<1>5. t = FlattenSeq(parts)  BY <1>1, <1>2
<1>. HIDE DEF made
<1>6. parts \in Seq(Seq(StepType)) /\ Len(parts) = n /\ \A i \in 1 .. n : parts[i] = made(i)
  BY <1>2, <1>4
<1>7. /\ t \in Seq(StepType)
      /\ \A x \in Range(t) : \E j \in 1 .. n : x \in Range(parts[j])
      /\ \A j \in 1 .. n : Range(parts[j]) \subseteq Range(t)
  BY <1>5, <1>6, FlattenRange
<1>8. ASSUME NEW step \in Range(t)
      PROVE  \E s \in Range(b) : \E k \in 1 .. Len(s) : step = Rewritten(p, exports, s)[k]
  <2>1. PICK j \in 1 .. n : step \in Range(made(j))  BY <1>6, <1>7
  <2>2. made(j) \in Seq(StepType) /\ Len(made(j)) = Len(b[j]) /\ b[j] \in Range(b)
    BY <1>1, <1>3 DEF Range
  <2>3. PICK k \in 1 .. Len(b[j]) : step = made(j)[k]  BY <2>1, <2>2 DEF Range
  <2>. QED  BY <2>2, <2>3 DEF made
<1>9. ASSUME NEW s \in Range(b), NEW k \in 1 .. Len(s)
      PROVE  Rewritten(p, exports, s)[k] \in Range(t)
  <2>1. PICK j \in 1 .. n : s = b[j]  BY <1>1 DEF Range
  <2>2. made(j) \in Seq(StepType) /\ Len(made(j)) = Len(s)  BY <1>3, <2>1
  <2>3. made(j)[k] \in Range(made(j))  BY <2>2 DEF Range
  <2>4. made(j)[k] \in Range(t)  BY <1>6, <1>7, <2>3
  <2>. QED  BY <2>1, <2>4 DEF made
<1>. QED  BY <1>7, <1>8, <1>9

(* The calls at the top are calls of modules. *)
LEMMA SupportCallsTyped ==
  ASSUME NEW p, IsProgram(p), NEW m
  PROVE  SupportCalls(p, m) \in Seq(Expression) /\ \A e \in Range(SupportCalls(p, m)) : IsCall(e)
<1>. DEFINE CallExpressions == {e \in Expression : IsCall(e)}
<1>1. PICK st \in Seq(Statement) : st = p.statements  BY DEF IsProgram
<1>2. PICK n \in Nat : n = Len(st) /\ DOMAIN st = 1 .. n  OBVIOUS
<1>. DEFINE made(i) == IF i \in Support(p, m) /\ st[i].call # None
                       THEN << <<"call", st[i].call>> >> ELSE << >>
<1>3. ASSUME NEW i \in 1 .. n PROVE made(i) \in Seq(CallExpressions)
  <2>1. CASE i \in Support(p, m) /\ st[i].call # None
    <3>1. st[i] \in Statement  BY <1>2, ElementOfSeq
    <3>2. st[i].call \in Modules  BY <2>1, <3>1 DEF Statement
    <3>3. PICK e : e = <<"call", st[i].call>>  OBVIOUS
    <3>4. e \in {"call"} \X Modules /\ e[1] = "call"  BY <3>2, <3>3
    <3>5. e \in CallExpressions  BY <3>4 DEF Expression, IsCall
    <3>6. made(i) = <<e>>  BY <2>1, <3>3
    <3>. HIDE DEF made, CallExpressions
    <3>. QED  BY <3>5, <3>6
  <2>2. CASE ~(i \in Support(p, m) /\ st[i].call # None)
    <3>1. made(i) = << >>  BY <2>2
    <3>. HIDE DEF made, CallExpressions
    <3>. QED  BY <3>1
  <2>. QED  BY <2>1, <2>2
<1>4. PICK parts : parts = [i \in 1 .. n |-> made(i)]  OBVIOUS
<1>5. SupportCalls(p, m) = FlattenSeq(parts)  BY <1>1, <1>2, <1>4 DEF SupportCalls
<1>. HIDE DEF made
<1>6. parts \in Seq(Seq(CallExpressions))  BY <1>3, <1>4
<1>7. PICK t \in Seq(CallExpressions) : t = SupportCalls(p, m)
  <2>. HIDE DEF CallExpressions
  <2>. QED  BY <1>5, <1>6, FlattenOrigin
<1>8. t \in Seq(Expression)
  <2>1. CallExpressions \subseteq Expression  OBVIOUS
  <2>. HIDE DEF CallExpressions
  <2>. QED  BY <1>7, <2>1
<1>9. \A e \in Range(t) : e \in CallExpressions
  <2>. HIDE DEF CallExpressions
  <2>. QED  BY <1>7 DEF Range
<1>. QED  BY <1>7, <1>8, <1>9

(* The code of a module is that of its statements. *)
LEMMA CodeShape ==
  ASSUME NEW p, IsProgram(p), NEW m \in Modules
  PROVE  /\ p.body[m] \in Seq(Seq(Expression)) /\ Code(p, m) \in Seq(Expression)
         /\ \A e \in Range(Code(p, m)) : \E s \in Range(p.body[m]) : e \in Range(s)
         /\ \A s \in Range(p.body[m]) : Range(s) \subseteq Range(Code(p, m))
<1>1. PICK b \in Seq(Seq(Expression)) : b = p.body[m]  BY DEF IsProgram
<1>2. PICK n \in Nat : n = Len(b) /\ DOMAIN b = 1 .. n  OBVIOUS
<1>3. Code(p, m) = FlattenSeq(b)  BY <1>1 DEF Code
<1>4. PICK t \in Seq(Expression) :
        /\ t = Code(p, m)
        /\ \A x \in Range(t) : \E j \in 1 .. n : x \in Range(b[j])
        /\ \A j \in 1 .. n : Range(b[j]) \subseteq Range(t)
  BY <1>2, <1>3, FlattenRange
<1>5. \A e \in Range(t) : \E s \in Range(b) : e \in Range(s)
  <2>. SUFFICES ASSUME NEW e \in Range(t) PROVE \E s \in Range(b) : e \in Range(s)  OBVIOUS
  <2>1. PICK j \in 1 .. n : e \in Range(b[j])  BY <1>4
  <2>2. b[j] \in Range(b)  BY <1>2 DEF Range
  <2>. QED  BY <2>1, <2>2
<1>6. \A s \in Range(b) : Range(s) \subseteq Range(t)
  <2>. SUFFICES ASSUME NEW s \in Range(b) PROVE Range(s) \subseteq Range(t)  OBVIOUS
  <2>1. PICK j \in 1 .. n : s = b[j]  BY <1>2 DEF Range
  <2>. QED  BY <1>4, <2>1
<1>. QED  BY <1>1, <1>4, <1>5, <1>6

(* The names of a module are names. *)
LEMMA NamesTyped ==
  ASSUME NEW p, IsProgram(p), NEW m \in Modules
  PROVE  /\ SupportNames(p, m) \subseteq Names /\ Named(p, m) \subseteq Names
         /\ Exports(p, m) \subseteq Names /\ FinalExports(p, m) \subseteq Names
<1>1. PICK st \in Seq(Statement) : st = p.statements  BY DEF IsProgram
<1>2. PICK n \in Nat : n = Len(st) /\ DOMAIN st = 1 .. n  OBVIOUS
<1>3. Support(p, m) \subseteq 1 .. n
  <2>1. PICK c, o : Placed(p, c, o)  BY WrappersPlaced
  <2>2. PICK a \in 1 .. Len(c) : c[a] = m  BY <2>1 DEF Placed
  <2>. QED  BY <1>1, <1>2, <2>1, <2>2, SupportBetween
<1>4. SupportNames(p, m) \subseteq Names
  <2>1. \A i \in 1 .. n : st[i].names \subseteq Names
    <3>1. \A i \in 1 .. n : st[i] \in Statement  BY <1>2, ElementOfSeq
    <3>. QED  BY <3>1 DEF Statement
  <2>. QED  BY <1>1, <1>3, <2>1 DEF SupportNames
<1>5. \A e \in Range(Code(p, m)) : e \in Expression
  <2>1. Code(p, m) \in Seq(Expression)  BY CodeShape
  <2>. QED  BY <2>1 DEF Range
<1>6. \A e \in Range(Code(p, m)) : e[1] # "call" => e[2] \in Names
  <2>. SUFFICES ASSUME NEW e \in Range(Code(p, m)), e[1] # "call" PROVE e[2] \in Names
    OBVIOUS
  <2>1. e \in Expression  BY <1>5
  <2>. QED  BY <2>1, ExpressionKinds DEF Names
<1>7. \A f \in DOMAIN Target : Target[f] \in Names
  BY SplitBundleAssumption DEF SplitBundleAssumption, Names
<1>8. Named(p, m) \subseteq Names  BY <1>6, <1>7 DEF Named
<1>9. Assigned(p, m) \subseteq Names  BY <1>6 DEF Assigned
<1>10. Exports(p, m) \subseteq Names  BY <1>4, <1>9 DEF Exports
<1>11. \A bound : External(p, m, bound) \subseteq Names  BY <1>8 DEF External
<1>12. FinalExports(p, m) \subseteq Names
  <2>. DEFINE bound == SupportNames(p, m)
                         \cup Bound(RewrittenBody(p, InitialRegistry(p, m), m))
                         \cup Bound(SupportSteps(p, InitialRegistry(p, m), m))
  <2>1. FinalExports(p, m) =
          IF p.kind[m] = "cjs" THEN {} ELSE Exports(p, m) \cup External(p, m, bound)
    BY Zenon DEF FinalExports
  <2>. HIDE DEF bound
  <2>. QED  BY <1>10, <1>11, <2>1
<1>. QED  BY <1>4, <1>8, <1>10, <1>12

(* The registries name names. *)
LEMMA RegistriesTyped ==
  ASSUME NEW p, IsProgram(p), NEW m \in Modules
  PROVE  InitialRegistry(p, m) \in Registry /\ Narrowed(p, m) \in Registry
<1>1. \A d \in Modules : Exports(p, d) \subseteq Names /\ FinalExports(p, d) \subseteq Names
  BY NamesTyped
<1>2. InitialRegistry(p, m) \in Registry  BY <1>1 DEF InitialRegistry, Registry
<1>3. \A d \in Modules : FinalExports(p, d) \cap External(p, m, SupportNames(p, m)) \subseteq Names
  BY <1>1
<1>4. Narrowed(p, m) \in Registry  BY <1>3 DEF Narrowed, Registry
<1>. QED  BY <1>2, <1>4

(* The steps of a body, and what they are made of. *)
LEMMA BodySteps ==
  ASSUME NEW p, IsProgram(p), NEW m \in Modules, NEW exports \in Registry,
         NEW t, t = RewrittenBody(p, exports, m)
  PROVE  /\ t \in Seq(StepType)
         /\ \A step \in Range(t) : \E s \in Range(p.body[m]) : \E k \in 1 .. Len(s) :
              /\ s \in Seq(Expression) /\ s[k] \in Range(Code(p, m))
              /\ step = Rewritten(p, exports, s)[k] /\ StepOf(p, exports, s, k, step)
         /\ \A s \in Range(p.body[m]) : \A k \in 1 .. Len(s) :
              /\ s \in Seq(Expression)
              /\ Rewritten(p, exports, s)[k] \in Range(t)
              /\ StepOf(p, exports, s, k, Rewritten(p, exports, s)[k])
<1>1. PICK b \in Seq(Seq(Expression)) : b = p.body[m]  BY CodeShape
<1>2. t = FlattenSeq([i \in DOMAIN b |-> Rewritten(p, exports, b[i])])
  BY <1>1 DEF RewrittenBody
<1>3. /\ t \in Seq(StepType)
      /\ \A step \in Range(t) : \E s \in Range(b) : \E k \in 1 .. Len(s) :
           step = Rewritten(p, exports, s)[k]
      /\ \A s \in Range(b) : \A k \in 1 .. Len(s) : Rewritten(p, exports, s)[k] \in Range(t)
  BY <1>2, StepsOfStatements
<1>4. \A s \in Range(b) : s \in Seq(Expression)  BY <1>1 DEF Range
<1>5. \A s \in Range(b) : \A k \in 1 .. Len(s) :
        StepOf(p, exports, s, k, Rewritten(p, exports, s)[k])
  BY <1>4, RewrittenShape
<1>6. \A s \in Range(b) : \A k \in 1 .. Len(s) : s[k] \in Range(Code(p, m))
  <2>1. \A s \in Range(b) : Range(s) \subseteq Range(Code(p, m))  BY <1>1, CodeShape
  <2>2. \A s \in Range(b) : \A k \in 1 .. Len(s) : s[k] \in Range(s)  BY <1>4 DEF Range
  <2>. QED  BY <2>1, <2>2
<1>7. ASSUME NEW step \in Range(t)
      PROVE  \E s \in Range(b) : \E k \in 1 .. Len(s) :
               /\ s \in Seq(Expression) /\ s[k] \in Range(Code(p, m))
               /\ step = Rewritten(p, exports, s)[k] /\ StepOf(p, exports, s, k, step)
  <2>1. PICK s \in Range(b) : \E k \in 1 .. Len(s) : step = Rewritten(p, exports, s)[k]
    BY <1>3
  <2>2. PICK k \in 1 .. Len(s) : step = Rewritten(p, exports, s)[k]  BY <2>1
  <2>. QED  BY <1>4, <1>5, <1>6, <2>2
<1>. QED  BY <1>1, <1>3, <1>4, <1>5, <1>7

(* The steps that calls at the top are made of. *)
LEMMA CallSteps ==
  ASSUME NEW p, IsProgram(p), NEW m \in Modules, NEW exports \in Registry,
         NEW t, t = SupportSteps(p, exports, m)
  PROVE  /\ t \in Seq(StepType)
         /\ \A step \in Range(t) : \E e \in Range(SupportCalls(p, m)) :
              /\ <<e>> \in Seq(Expression) /\ <<e>>[1] = e /\ Len(<<e>>) = 1
              /\ IsCall(step.expression)
              /\ step = Rewritten(p, exports, <<e>>)[1] /\ StepOf(p, exports, <<e>>, 1, step)
         /\ \A e \in Range(SupportCalls(p, m)) : Rewritten(p, exports, <<e>>)[1] \in Range(t)
<1>1. PICK c \in Seq(Expression) : c = SupportCalls(p, m) /\ \A e \in Range(c) : IsCall(e)
  BY SupportCallsTyped
<1>2. PICK n \in Nat : n = Len(c) /\ DOMAIN c = 1 .. n  OBVIOUS
<1>3. \A e \in Range(c) : e \in Expression  BY <1>1 DEF Range
<1>4. \A e \in Range(c) : <<e>> \in Seq(Expression) /\ <<e>>[1] = e /\ Len(<<e>>) = 1
  BY <1>3
<1>. DEFINE one(k) == <<c[k]>>
<1>5. PICK b : b = [k \in 1 .. n |-> one(k)]  OBVIOUS
<1>6. \A k \in 1 .. n : c[k] \in Range(c)  BY <1>2 DEF Range
<1>7. \A k \in 1 .. n : one(k) \in Seq(Expression)  BY <1>4, <1>6
<1>8. b \in Seq(Seq(Expression)) /\ DOMAIN b = 1 .. n /\ \A k \in 1 .. n : b[k] = one(k)
  <2>. HIDE DEF one
  <2>. QED  BY <1>2, <1>5, <1>7
<1>9. t = FlattenSeq([k \in 1 .. n |-> Rewritten(p, exports, one(k))])
  BY <1>1, <1>2 DEF SupportSteps
<1>10. [k \in 1 .. n |-> Rewritten(p, exports, one(k))]
         = [k \in DOMAIN b |-> Rewritten(p, exports, b[k])]
  <2>. HIDE DEF one
  <2>. QED  BY <1>8
<1>11. /\ t \in Seq(StepType)
       /\ \A step \in Range(t) : \E s \in Range(b) : \E k \in 1 .. Len(s) :
            step = Rewritten(p, exports, s)[k]
       /\ \A s \in Range(b) : \A k \in 1 .. Len(s) : Rewritten(p, exports, s)[k] \in Range(t)
  <2>1. t = FlattenSeq([k \in DOMAIN b |-> Rewritten(p, exports, b[k])])  BY <1>9, <1>10
  <2>2. b \in Seq(Seq(Expression))  BY <1>8
  <2>. HIDE DEF one
  <2>. QED  BY <2>1, <2>2, StepsOfStatements
<1>12. \A s \in Range(b) : \E e \in Range(c) : s = <<e>>
  <2>. SUFFICES ASSUME NEW s \in Range(b) PROVE \E e \in Range(c) : s = <<e>>  OBVIOUS
  <2>1. PICK k \in 1 .. n : s = b[k]  BY <1>8 DEF Range
  <2>. QED  BY <1>6, <1>8, <2>1
<1>13. \A e \in Range(c) : <<e>> \in Range(b)
  <2>. SUFFICES ASSUME NEW e \in Range(c) PROVE <<e>> \in Range(b)  OBVIOUS
  <2>1. PICK k \in 1 .. n : e = c[k]  BY <1>2 DEF Range
  <2>2. b[k] = <<e>>  BY <1>8, <2>1
  <2>. QED  BY <1>8, <2>2 DEF Range
<1>14. \A e \in Range(c) : StepOf(p, exports, <<e>>, 1, Rewritten(p, exports, <<e>>)[1])
  <2>. SUFFICES ASSUME NEW e \in Range(c)
                PROVE  StepOf(p, exports, <<e>>, 1, Rewritten(p, exports, <<e>>)[1])
    OBVIOUS
  <2>1. PICK s \in Seq(Expression) : s = <<e>> /\ Len(s) = 1  BY <1>4
  <2>2. 1 \in 1 .. Len(s)  BY <2>1
  <2>3. \A k \in 1 .. Len(s) : StepOf(p, exports, s, k, Rewritten(p, exports, s)[k])
    BY RewrittenShape
  <2>4. StepOf(p, exports, s, 1, Rewritten(p, exports, s)[1])  BY <2>2, <2>3
  <2>. QED  BY <2>1, <2>4
<1>15. ASSUME NEW step \in Range(t)
       PROVE  \E e \in Range(c) :
                /\ <<e>> \in Seq(Expression) /\ <<e>>[1] = e /\ Len(<<e>>) = 1
                /\ IsCall(step.expression)
                /\ step = Rewritten(p, exports, <<e>>)[1] /\ StepOf(p, exports, <<e>>, 1, step)
  <2>1. PICK s \in Range(b) : \E k \in 1 .. Len(s) : step = Rewritten(p, exports, s)[k]
    BY <1>11
  <2>2. PICK e \in Range(c) : s = <<e>>  BY <1>12
  <2>3. Len(s) = 1 /\ s[1] = e  BY <1>4, <2>2
  <2>4. step = Rewritten(p, exports, s)[1]  BY <2>1, <2>3
  <2>5. step = Rewritten(p, exports, <<e>>)[1]  BY <2>2, <2>4
  <2>6. StepOf(p, exports, <<e>>, 1, step)  BY <1>14, <2>5
  <2>7. step.expression = e  BY <2>2, <2>3, <2>6 DEF StepOf
  <2>. QED  BY <1>1, <1>4, <2>5, <2>6, <2>7
<1>16. ASSUME NEW e \in Range(c) PROVE Rewritten(p, exports, <<e>>)[1] \in Range(t)
  <2>1. <<e>> \in Range(b) /\ 1 \in 1 .. Len(<<e>>)  BY <1>4, <1>13
  <2>. QED  BY <1>11, <2>1
<1>. QED  BY <1>1, <1>11, <1>15, <1>16

(* A step that takes names takes exports of the lazy module that it calls. *)
Takes(p, step) ==
  step.binds # {} =>
    /\ IsCall(step.expression) /\ step.expression[2] \in Modules
    /\ p.kind[step.expression[2]] = "lazy"
    /\ step.binds \subseteq FinalExports(p, step.expression[2])

(* What running a file needs to know of it. *)
Shaped(p, m, file) ==
  /\ file.steps \in Seq(StepType) /\ file.calls \in Seq(StepType)
  /\ \A step \in Range(file.calls) : IsCall(step.expression) /\ Takes(p, step)
  /\ \A step \in Range(file.steps) : step.expression \in Range(Code(p, m)) /\ Takes(p, step)
  /\ \A d \in Calls(p, m) : \E step \in Range(file.steps) :
       IsCall(step.expression) /\ step.expression[2] = d
  /\ file.declared \subseteq Names /\ file.local \subseteq Names
  /\ file.exports = FinalExports(p, m) /\ SupportNames(p, m) \subseteq file.declared
  /\ IF p.kind[m] = "lazy" THEN file.exports \subseteq file.declared ELSE file.local = {}

LEMMA TakesNames ==
  ASSUME NEW p, IsProgram(p), NEW m \in Modules, NEW s, NEW k, s[k] \in Expression,
         NEW step, StepOf(p, Narrowed(p, m), s, k, step)
  PROVE  Takes(p, step)
<1>1. \A d \in Modules : Narrowed(p, m)[d] \subseteq FinalExports(p, d)  BY DEF Narrowed
<1>2. IsCall(s[k]) => s[k][2] \in Modules  BY ExpressionKinds DEF IsCall
<1>3. PICK e : e = s[k] /\ e = step.expression  BY DEF StepOf
<1>4. step.binds # {} =>
        IsCall(e) /\ p.kind[e[2]] = "lazy" /\ step.binds = Narrowed(p, m)[e[2]]
  BY <1>3 DEF StepOf
<1>. QED  BY <1>1, <1>2, <1>3, <1>4 DEF Takes

LEMMA BoundTyped ==
  ASSUME NEW t \in Seq(StepType)
  PROVE  Bound(t) \subseteq Names /\ BoundOutside(t) \subseteq Names
<1>1. \A step \in Range(t) : step.binds \subseteq Names
  <2>1. \A step \in Range(t) : step \in StepType  BY DEF Range
  <2>. QED  BY <2>1 DEF StepType
<1>. QED  BY <1>1 DEF Bound, BoundOutside

LEMMA FileShape ==
  ASSUME NEW p, IsProgram(p), NEW m \in Modules
  PROVE  Shaped(p, m, File(p, m))
<1>1. PICK n \in Registry : n = Narrowed(p, m)  BY RegistriesTyped
<1>2. PICK steps, calls : steps = RewrittenBody(p, n, m) /\ calls = SupportSteps(p, n, m)
  OBVIOUS
<1>3. PICK lets : lets = IF p.kind[m] = "lazy" THEN FinalExports(p, m) \ SupportNames(p, m) ELSE {}
  OBVIOUS
<1>4. PICK file : file = File(p, m)  OBVIOUS
<1>5. /\ file.steps = steps /\ file.calls = calls
      /\ file.local = LocalNames(p, m) /\ file.exports = FinalExports(p, m)
      /\ file.declared = SupportNames(p, m) \cup lets \cup Bound(calls)
                           \cup (IF p.kind[m] = "cjs" THEN BoundOutside(steps) ELSE {})
  BY <1>1, <1>2, <1>3, <1>4 DEF File
<1>6. steps \in Seq(StepType) /\ calls \in Seq(StepType)
  BY <1>2, BodySteps, CallSteps
<1>7. ASSUME NEW step \in Range(calls) PROVE IsCall(step.expression) /\ Takes(p, step)
  <2>1. PICK e : /\ <<e>> \in Seq(Expression) /\ <<e>>[1] = e /\ Len(<<e>>) = 1
                 /\ IsCall(step.expression) /\ StepOf(p, n, <<e>>, 1, step)
    BY <1>2, CallSteps
  <2>2. PICK s \in Seq(Expression) : s = <<e>> /\ Len(s) = 1  BY <2>1
  <2>3. s[1] \in Expression  BY <2>2, ElementOfSeq
  <2>4. StepOf(p, n, s, 1, step)  BY <2>1, <2>2
  <2>. QED  BY <1>1, <2>1, <2>3, <2>4, TakesNames
<1>8. ASSUME NEW step \in Range(steps)
      PROVE  step.expression \in Range(Code(p, m)) /\ Takes(p, step)
  <2>1. PICK s, k : s[k] \in Range(Code(p, m)) /\ StepOf(p, n, s, k, step)
    BY <1>2, BodySteps
  <2>2. s[k] \in Expression
    <3>1. Code(p, m) \in Seq(Expression)  BY CodeShape
    <3>. QED  BY <2>1, <3>1 DEF Range
  <2>3. Takes(p, step)  BY <1>1, <2>1, <2>2, TakesNames
  <2>4. step.expression = s[k]  BY <2>1 DEF StepOf
  <2>. QED  BY <2>1, <2>3, <2>4
<1>9. ASSUME NEW d \in Calls(p, m)
      PROVE  \E step \in Range(steps) : IsCall(step.expression) /\ step.expression[2] = d
  <2>1. PICK e \in Range(Code(p, m)) : e[1] = "call" /\ e[2] = d  BY DEF Calls
  <2>2. PICK s \in Range(p.body[m]) : e \in Range(s)  BY CodeShape
  <2>3. s \in Seq(Expression)
    <3>1. p.body[m] \in Seq(Seq(Expression))  BY CodeShape
    <3>. QED  BY <3>1 DEF Range
  <2>4. PICK k \in 1 .. Len(s) : s[k] = e  BY <2>2, <2>3 DEF Range
  <2>5. PICK step \in Range(steps) : StepOf(p, n, s, k, step)  BY <1>2, BodySteps
  <2>6. step.expression = e  BY <2>4, <2>5 DEF StepOf
  <2>. QED  BY <2>1, <2>6 DEF IsCall
<1>10. SupportNames(p, m) \subseteq Names /\ FinalExports(p, m) \subseteq Names  BY NamesTyped
<1>11. lets \subseteq Names  BY <1>3, <1>10
<1>12. file.declared \subseteq Names
  <2>1. Bound(calls) \subseteq Names /\ BoundOutside(steps) \subseteq Names  BY <1>6, BoundTyped
  <2>. QED  BY <1>5, <1>10, <1>11, <2>1
<1>13. file.local \subseteq Names
  <2>1. file.local = IF p.kind[m] = "cjs" THEN {} ELSE BoundOutside(steps)
    BY <1>1, <1>2, <1>5, Zenon DEF LocalNames
  <2>2. BoundOutside(steps) \subseteq Names  BY <1>6, BoundTyped
  <2>. QED  BY <2>1, <2>2
<1>14. p.kind[m] = "lazy" => file.exports \subseteq file.declared  BY <1>3, <1>5
<1>15. p.kind[m] # "lazy" => file.local = {}
  <2>1. p.kind[m] \in {"lazy", "cjs"}  BY DEF IsProgram
  <2>2. p.kind[m] = "cjs" => file.local = {}  BY <1>5 DEF LocalNames
  <2>. QED  BY <2>1, <2>2
<1>16. /\ file.steps \in Seq(StepType) /\ file.calls \in Seq(StepType)
       /\ \A step \in Range(file.calls) : IsCall(step.expression) /\ Takes(p, step)
       /\ \A step \in Range(file.steps) : step.expression \in Range(Code(p, m)) /\ Takes(p, step)
       /\ \A d \in Calls(p, m) : \E step \in Range(file.steps) :
            IsCall(step.expression) /\ step.expression[2] = d
  BY <1>5, <1>6, <1>7, <1>8, <1>9
<1>17. SupportNames(p, m) \subseteq file.declared /\ file.exports = FinalExports(p, m)  BY <1>5
<1>. QED  BY <1>4, <1>12, <1>13, <1>14, <1>15, <1>16, <1>17 DEF Shaped

(* In a renamed bundle whose calls are statements, all that a lazy module names is declared
   at the top of its file or taken by its body. *)
LEMMA NamesCovered ==
  ASSUME NEW p, IsProgram(p), p.renamed, NEW m \in Modules, p.kind[m] = "lazy",
         \A d \in Modules : \A s \in Range(p.body[d]) : Len(s) = 1
  PROVE  Named(p, m) \subseteq File(p, m).declared \cup File(p, m).local
<1>1. PICK r \in Registry : r = InitialRegistry(p, m)  BY RegistriesTyped
<1>2. PICK n \in Registry : n = Narrowed(p, m)  BY RegistriesTyped
<1>3. PICK file : file = File(p, m)  OBVIOUS
<1>4. /\ SupportNames(p, m) \subseteq file.declared
      /\ FinalExports(p, m) \subseteq file.declared
  <2>1. Shaped(p, m, file)  BY <1>3, FileShape
  <2>. QED  BY <2>1 DEF Shaped
<1>5. Bound(SupportSteps(p, n, m)) \subseteq file.declared
  <2>1. file.declared = SupportNames(p, m)
             \cup (IF p.kind[m] = "lazy" THEN FinalExports(p, m) \ SupportNames(p, m) ELSE {})
             \cup Bound(SupportSteps(p, n, m))
             \cup (IF p.kind[m] = "cjs" THEN BoundOutside(RewrittenBody(p, n, m)) ELSE {})
    BY <1>2, <1>3 DEF File
  <2>. QED  BY <2>1
<1>6. file.local = BoundOutside(RewrittenBody(p, n, m))
  BY <1>2, <1>3 DEF File, LocalNames
<1>. SUFFICES ASSUME NEW x \in Named(p, m), x \notin SupportNames(p, m),
                     x \notin FinalExports(p, m)
              PROVE  x \in file.declared \cup file.local
  BY <1>3, <1>4
<1>7. /\ x \in External(p, m, SupportNames(p, m))
      /\ x \notin Exports(p, m)
      /\ x \in Bound(RewrittenBody(p, r, m)) \cup Bound(SupportSteps(p, r, m))
  <2>1. FinalExports(p, m) = Exports(p, m) \cup
          (Named(p, m) \ (SupportNames(p, m) \cup Bound(RewrittenBody(p, r, m))
                                             \cup Bound(SupportSteps(p, r, m))))
    BY <1>1 DEF FinalExports, External
  <2>2. External(p, m, SupportNames(p, m)) = Named(p, m) \ SupportNames(p, m)
    BY DEF External
  <2>. QED  BY <2>1, <2>2
(* A call alone that opens with the first registry and takes x does so with the second. *)
<1>8. ASSUME NEW s \in Seq(Expression), Len(s) = 1, x \in Rewritten(p, r, s)[1].binds
      PROVE  x \in Rewritten(p, n, s)[1].binds
  <2>1. StepOf(p, r, s, 1, Rewritten(p, r, s)[1])
    <3>1. 1 \in 1 .. Len(s)  BY <1>8
    <3>. QED  BY <3>1, RewrittenShape
  <2>2. PICK d : d = s[1][2]  OBVIOUS
  <2>3. s[1][1] = "call" /\ p.kind[d] = "lazy" /\ x \in r[d]
    BY <1>8, <2>1, <2>2 DEF StepOf, IsCall
  <2>4. d \in Modules
    <3>1. s[1] \in Expression  BY <1>8, ElementOfSeq
    <3>. QED  BY <2>2, <2>3, <3>1, ExpressionKinds
  <2>5. d # m /\ x \in Exports(p, d)  BY <1>1, <2>3, <2>4 DEF InitialRegistry
  <2>6. x \in FinalExports(p, d)
    <3>1. p.kind[d] # "cjs"  BY <2>3
    <3>. QED  BY <2>5, <3>1 DEF FinalExports
  <2>7. x \in n[d]  BY <1>2, <1>7, <2>4, <2>5, <2>6 DEF Narrowed
  <2>8. Opened(p, n, s) = 1
    <3>. DEFINE opens(e) == e[1] = "call" /\ p.kind[e[2]] = "lazy" /\ n[e[2]] # {}
    <3>1. Opened(p, n, s) \in 0 .. 1
      BY <1>8, OpenedShape
    <3>2. Opened(p, n, s) < 1 => ~opens(s[Opened(p, n, s) + 1])
      BY <1>8, OpenedShape
    <3>3. opens(s[1])  BY <2>2, <2>3, <2>7
    <3>. HIDE DEF opens
    <3>. QED  BY <3>1, <3>2, <3>3
  <2>9. Rewritten(p, n, s)[1].binds = n[d]
    <3>1. DOMAIN s = 1 .. 1  BY <1>8
    <3>. QED  BY <2>2, <2>8, <3>1 DEF Rewritten
  <2>. QED  BY <2>7, <2>9
<1>9. CASE x \in Bound(RewrittenBody(p, r, m))
  <2>1. PICK step \in Range(RewrittenBody(p, r, m)) : x \in step.binds  BY <1>9 DEF Bound
  <2>2. PICK s \in Range(p.body[m]) : \E k \in 1 .. Len(s) :
          s \in Seq(Expression) /\ step = Rewritten(p, r, s)[k]
    BY BodySteps
  <2>3. s \in Seq(Expression) /\ Len(s) = 1 /\ step = Rewritten(p, r, s)[1]
    <3>1. PICK k \in 1 .. Len(s) : s \in Seq(Expression) /\ step = Rewritten(p, r, s)[k]  BY <2>2
    <3>2. Len(s) = 1  OBVIOUS
    <3>3. k = 1  BY <3>1, <3>2
    <3>. QED  BY <3>1, <3>2, <3>3
  <2>4. x \in Rewritten(p, n, s)[1].binds  BY <1>8, <2>1, <2>3
  <2>5. 1 \in 1 .. Len(s)  BY <2>3
  <2>6. /\ Rewritten(p, n, s)[1] \in Range(RewrittenBody(p, n, m))
        /\ StepOf(p, n, s, 1, Rewritten(p, n, s)[1])
    BY <2>5, BodySteps
  <2>7. ~Rewritten(p, n, s)[1].inner
    <3>1. Rewritten(p, n, s)[1].inner = (Len(s) > 1)  BY <2>6 DEF StepOf
    <3>2. ~(Len(s) > 1)  BY <2>3
    <3>. QED  BY <3>1, <3>2
  <2>8. x \in file.local  BY <1>6, <2>4, <2>6, <2>7 DEF BoundOutside
  <2>. QED  BY <2>8
<1>10. CASE x \in Bound(SupportSteps(p, r, m))
  <2>1. PICK step \in Range(SupportSteps(p, r, m)) : x \in step.binds  BY <1>10 DEF Bound
  <2>2. PICK e \in Range(SupportCalls(p, m)) :
          /\ <<e>> \in Seq(Expression) /\ Len(<<e>>) = 1
          /\ step = Rewritten(p, r, <<e>>)[1]
    BY CallSteps
  <2>3. PICK s \in Seq(Expression) : s = <<e>> /\ Len(s) = 1  BY <2>2
  <2>4. x \in Rewritten(p, n, s)[1].binds
    <3>1. x \in Rewritten(p, r, s)[1].binds  BY <2>1, <2>2, <2>3
    <3>. QED  BY <1>8, <2>3, <3>1
  <2>5. Rewritten(p, n, <<e>>)[1] \in Range(SupportSteps(p, n, m))  BY CallSteps
  <2>6. x \in Bound(SupportSteps(p, n, m))  BY <2>3, <2>4, <2>5 DEF Bound
  <2>. QED  BY <1>5, <2>6
<1>. QED  BY <1>7, <1>9, <1>10

-----------------------------------------------------------------------------
(* Scopes and stacks *)

(* Names in front of names. *)
LEMMA OverScopes ==
  ASSUME NEW a \in Scopes, NEW b \in Scopes
  PROVE  /\ Over(a, b) \in Scopes
         /\ DOMAIN Over(a, b) = DOMAIN a \cup DOMAIN b
         /\ \A n \in DOMAIN a \cup DOMAIN b :
              Over(a, b)[n] = IF n \in DOMAIN a THEN a[n] ELSE b[n]
<1>1. PICK A, B : /\ A \subseteq Names /\ a \in [A -> Value]
                  /\ B \subseteq Names /\ b \in [B -> Value]
  BY DEF Scopes
<1>2. PICK c : c = [n \in A \cup B |-> IF n \in A THEN a[n] ELSE b[n]]  OBVIOUS
<1>3. Over(a, b) = c  BY <1>1, <1>2 DEF Over
<1>4. c \in [A \cup B -> Value]  BY <1>1, <1>2
<1>5. A \cup B \in SUBSET Names  BY <1>1
<1>6. c \in Scopes  BY <1>4, <1>5 DEF Scopes
<1>. QED  BY <1>1, <1>2, <1>3, <1>6

LEMMA NoNamesScope == NoNames \in Scopes /\ DOMAIN NoNames = {}
<1>1. NoNames \in [{} -> Value] /\ DOMAIN NoNames = {}  BY DEF NoNames
<1>. QED  BY <1>1 DEF Scopes

(* Functions stay at home when scopes are laid over each other, and as files are loaded. *)
LEMMA HomesOver ==
  ASSUME NEW p, NEW st, NEW kinds, NEW a \in Scopes, NEW b \in Scopes,
         Homes(p, st, a, kinds), Homes(p, st, b, kinds)
  PROVE  Homes(p, st, Over(a, b), kinds)
<1>. SUFFICES ASSUME NEW f \in DOMAIN Over(a, b) \cap DOMAIN Target, Over(a, b)[f] # Undefined
              PROVE  /\ Over(a, b)[f] \in Modules /\ p.kind[Over(a, b)[f]] \in kinds
                     /\ f \in SupportNames(p, Over(a, b)[f]) /\ st[Over(a, b)[f]] # "absent"
  BY DEF Homes
<1>1. CASE f \in DOMAIN a
  <2>1. Over(a, b)[f] = a[f]  BY <1>1, OverScopes
  <2>. QED  BY <1>1, <2>1 DEF Homes
<1>2. CASE f \notin DOMAIN a
  <2>1. f \in DOMAIN a \cup DOMAIN b  BY OverScopes
  <2>2. Over(a, b)[f] = b[f]  BY <1>2, <2>1, OverScopes
  <2>. QED  BY <1>2, <2>1, <2>2 DEF Homes
<1>. QED  BY <1>1, <1>2

(* No file that was there is absent again. *)
Later(st, su) == \A m \in Modules : st[m] # "absent" => su[m] # "absent"

LEMMA HomesLater ==
  ASSUME NEW p, NEW st, NEW su, NEW kinds, NEW more, kinds \subseteq more, Later(st, su),
         NEW scope, Homes(p, st, scope, kinds)
  PROVE  Homes(p, su, scope, more)
BY DEF Homes, Later

LEMMA HomesNoNames ==
  ASSUME NEW p, NEW st, NEW kinds
  PROVE  Homes(p, st, NoNames, kinds)
BY NoNamesScope DEF Homes

(* A new frame: at its first expression, with no values. *)
LEMMA NewFrame ==
  ASSUME NEW m, m \in Modules \cup {Driver}, NEW part, part = "body" \/ part = "load",
         NEW local, local \subseteq Names
  PROVE  /\ Frame(m, part, local) \in Frames
         /\ Frame(m, part, local).module = m /\ Frame(m, part, local).part = part
         /\ Frame(m, part, local).at = 1 /\ DOMAIN Frame(m, part, local).local = local
         /\ \A p, st : /\ Homes(p, st, Frame(m, part, local).inner, {"lazy"})
                       /\ Homes(p, st, Frame(m, part, local).local, {"lazy"})
<1>1. PICK l : l = [n \in local |-> Undefined]  OBVIOUS
<1>2. PICK f : f = Frame(m, part, local)  OBVIOUS
<1>3. f = [module |-> m, part |-> part, at |-> 1, inner |-> NoNames, local |-> l]
  BY <1>1, <1>2 DEF Frame
<1>4. l \in Scopes
  <2>1. l \in [local -> Value]  BY <1>1 DEF Value
  <2>. QED  BY <2>1 DEF Scopes
<1>5. f \in Frames  BY <1>3, <1>4, NoNamesScope DEF Frames
<1>6. \A p, st : Homes(p, st, l, {"lazy"})  BY <1>1 DEF Homes
<1>7. \A p, st : Homes(p, st, NoNames, {"lazy"})  BY HomesNoNames
<1>8. f.inner = NoNames /\ f.local = l  BY <1>3
<1>9. DOMAIN l = local  BY <1>1
<1>10. \A p, st : Homes(p, st, f.inner, {"lazy"}) /\ Homes(p, st, f.local, {"lazy"})
  BY <1>6, <1>7, <1>8
<1>11. f.module = m /\ f.part = part /\ f.at = 1  BY <1>3
<1>. QED  BY <1>2, <1>5, <1>8, <1>9, <1>10, <1>11

(* A stack is what is under its top, and the top. *)
LEMMA TopOfStack ==
  ASSUME NEW s \in Seq(Frames), s # << >>
  PROVE  /\ Front(s) \in Seq(Frames) /\ Last(s) \in Frames
         /\ s = Append(Front(s), Last(s)) /\ Last(s) = s[Len(s)] /\ Len(Front(s)) = Len(s) - 1
         /\ \A k \in 1 .. Len(s) - 1 : Front(s)[k] = s[k]
<1>1. PICK n \in Nat : n = Len(s) /\ n > 0  BY EmptySeq
<1>2. PICK u : u = [k \in 1 .. n - 1 |-> s[k]]  OBVIOUS
<1>3. \A k \in 1 .. n : s[k] \in Frames  BY <1>1, ElementOfSeq
<1>4. n - 1 \in Nat /\ \A k \in 1 .. n - 1 : k \in 1 .. n  BY <1>1
<1>5. u \in Seq(Frames) /\ Len(u) = n - 1 /\ \A k \in 1 .. n - 1 : u[k] = s[k]
  BY <1>2, <1>3, <1>4
<1>6. Front(s) = u
  <2>1. Front(s) = SubSeq(s, 1, n - 1)  BY <1>1 DEF Front
  <2>. QED  BY <1>1, <1>2, <1>4, <2>1
<1>7. Last(s) = s[n] /\ s[n] \in Frames
  <2>1. n \in 1 .. n  BY <1>1
  <2>. QED  BY <1>1, <1>3, <2>1 DEF Last
<1>8. s = Append(u, s[n])
  <2>1. PICK t : t = Append(u, s[n])  OBVIOUS
  <2>2. t \in Seq(Frames) /\ Len(t) = (n - 1) + 1
    BY <1>5, <1>7, <2>1, AppendProperties
  <2>3. t[(n - 1) + 1] = s[n] /\ \A k \in 1 .. n - 1 : t[k] = u[k]
    BY <1>5, <1>7, <2>1, AppendProperties
  <2>4. Len(t) = n /\ t[n] = s[n]  BY <1>1, <2>2, <2>3
  <2>5. \A k \in 1 .. n : t[k] = s[k]
    <3>1. \A k \in 1 .. n : k = n \/ k \in 1 .. n - 1  BY <1>1
    <3>. QED  BY <1>5, <2>3, <2>4, <3>1
  <2>. QED  BY <1>1, <2>1, <2>2, <2>4, <2>5
<1>. QED  BY <1>1, <1>5, <1>6, <1>7, <1>8

(* A frame on top of others. *)
LEMMA OnTop ==
  ASSUME NEW u \in Seq(Frames), NEW f \in Frames, NEW t, t = Append(u, f)
  PROVE  /\ t \in Seq(Frames) /\ t # << >> /\ Len(t) = Len(u) + 1
         /\ \A k \in DOMAIN u : k \in DOMAIN t /\ t[k] = u[k]
         /\ \A k \in DOMAIN t : k \in DOMAIN u \/ k = Len(u) + 1
         /\ Len(u) + 1 \in DOMAIN t /\ t[Len(u) + 1] = f
         /\ DOMAIN u = 1 .. Len(u) /\ Len(u) \in Nat
<1>1. PICK n \in Nat : n = Len(u) /\ DOMAIN u = 1 .. n  OBVIOUS
<1>2. t \in Seq(Frames) /\ Len(t) = n + 1 /\ DOMAIN t = 1 .. n + 1
      /\ t[n + 1] = f /\ \A k \in 1 .. n : t[k] = u[k]
  BY <1>1, AppendProperties
<1>3. t # << >>  BY <1>2, EmptySeq
<1>. QED  BY <1>1, <1>2, <1>3

(* What runs and what is loaded. *)
LEMMA RunningOnTop ==
  ASSUME NEW u \in Seq(Frames), NEW f \in Frames, NEW t, t = Append(u, f), NEW m
  PROVE  /\ Running(t, m) <=> Running(u, m) \/ (f.module = m /\ f.part = "body")
         /\ Loading(t, m) <=> Loading(u, m) \/ (f.module = m /\ f.part = "load")
BY OnTop DEF Running, Loading

LEMMA LoadsOnTop ==
  ASSUME NEW u \in Seq(Frames), NEW f \in Frames, NEW t, t = Append(u, f)
  PROVE  LoadsOnce(t) <=> LoadsOnce(u) /\ (f.part = "load" => ~Loading(u, f.module))
<1>1. /\ \A k \in DOMAIN u : k \in DOMAIN t /\ t[k] = u[k]
      /\ \A k \in DOMAIN t : k \in DOMAIN u \/ k = Len(u) + 1
      /\ Len(u) + 1 \in DOMAIN t /\ t[Len(u) + 1] = f
      /\ \A k \in DOMAIN u : k # Len(u) + 1
  BY OnTop
<1>2. ASSUME LoadsOnce(t) PROVE LoadsOnce(u) /\ (f.part = "load" => ~Loading(u, f.module))
  BY <1>1, <1>2 DEF LoadsOnce, Loading
<1>3. ASSUME LoadsOnce(u), f.part = "load" => ~Loading(u, f.module) PROVE LoadsOnce(t)
  <2>. SUFFICES ASSUME NEW j \in DOMAIN t, NEW k \in DOMAIN t, t[j].module = t[k].module,
                       t[j].part = "load", t[k].part = "load"
                PROVE  j = k
    BY DEF LoadsOnce
  <2>1. CASE j \in DOMAIN u /\ k \in DOMAIN u  BY <1>1, <1>3, <2>1 DEF LoadsOnce
  <2>2. CASE j \in DOMAIN u /\ k \notin DOMAIN u  BY <1>1, <1>3, <2>2 DEF Loading
  <2>3. CASE j \notin DOMAIN u /\ k \in DOMAIN u  BY <1>1, <1>3, <2>3 DEF Loading
  <2>4. CASE j \notin DOMAIN u /\ k \notin DOMAIN u  BY <1>1, <2>4
  <2>. QED  BY <2>1, <2>2, <2>3, <2>4
<1>. QED  BY <1>2, <1>3

-----------------------------------------------------------------------------
(* Bodies are started once *)

LEMMA StartedMore ==
  ASSUME NEW b \in Seq(Modules), NEW d \in Modules, NEW c, c = Append(b, d)
  PROVE  /\ c \in Seq(Modules) /\ Range(c) = Range(b) \cup {d}
         /\ IsInjective(b) /\ d \notin Range(b) => IsInjective(c)
<1>1. PICK n \in Nat : n = Len(b) /\ DOMAIN b = 1 .. n  OBVIOUS
<1>2. c \in Seq(Modules) /\ DOMAIN c = 1 .. n + 1
      /\ c[n + 1] = d /\ \A k \in 1 .. n : c[k] = b[k]
  BY <1>1, AppendProperties
<1>3. n + 1 \in 1 .. n + 1 /\ \A k \in 1 .. n + 1 : k = n + 1 \/ k \in 1 .. n  BY <1>1
<1>4. \A k \in 1 .. n : k \in 1 .. n + 1  BY <1>1
<1>5. Range(c) = Range(b) \cup {d}
  <2>1. ASSUME NEW x \in Range(c) PROVE x \in Range(b) \cup {d}
    BY <1>1, <1>2, <1>3, <2>1 DEF Range
  <2>2. ASSUME NEW x \in Range(b) PROVE x \in Range(c)
    BY <1>1, <1>2, <1>4, <2>2 DEF Range
  <2>3. d \in Range(c)  BY <1>2, <1>3 DEF Range
  <2>. QED  BY <2>1, <2>2, <2>3
<1>6. ASSUME IsInjective(b), d \notin Range(b) PROVE IsInjective(c)
  <2>. SUFFICES ASSUME NEW j \in 1 .. n + 1, NEW k \in 1 .. n + 1, c[j] = c[k] PROVE j = k
    BY <1>2 DEF IsInjective
  <2>1. \A i \in 1 .. n : b[i] # d  BY <1>1, <1>6 DEF Range
  <2>2. \A i, l \in 1 .. n : b[i] = b[l] => i = l  BY <1>1, <1>6 DEF IsInjective
  <2>. QED  BY <1>2, <1>3, <2>1, <2>2
<1>. QED  BY <1>2, <1>5, <1>6

LEMMA StartedMoved ==
  ASSUME NEW u \in Seq(Frames), NEW top \in Frames, NEW f \in Frames, NEW s, NEW t,
         s = Append(u, top), t = Append(u, f), f.module = top.module, f.part = top.part,
         NEW st, NEW b, StartedOnce(s, st, b)
  PROVE  StartedOnce(t, st, b)
<1>1. \A m : (Loading(t, m) <=> Loading(s, m)) /\ (Running(t, m) <=> Running(s, m))
  BY RunningOnTop
<1>2. LoadsOnce(t)
  <2>1. LoadsOnce(s)  BY DEF StartedOnce
  <2>. QED  BY <2>1, LoadsOnTop
<1>. QED  BY <1>1, <1>2 DEF StartedOnce

LEMMA StartedLoad ==
  ASSUME NEW s \in Seq(Frames), NEW f \in Frames, NEW t, t = Append(s, f),
         NEW d \in Modules, f.module = d, f.part = "load",
         NEW st \in [Modules -> {"absent", "loading", "loaded"}], st[d] = "absent",
         NEW su, su = [st EXCEPT ![d] = "loading"], NEW b, StartedOnce(s, st, b)
  PROVE  StartedOnce(t, su, b)
<1>1. \A m : /\ Loading(t, m) <=> Loading(s, m) \/ m = d
             /\ Running(t, m) <=> Running(s, m)
  BY RunningOnTop
<1>2. ~Loading(s, d) /\ d \notin Range(b) /\ LoadsOnce(s) /\ IsInjective(b)  BY DEF StartedOnce
<1>3. LoadsOnce(t)  BY <1>2, LoadsOnTop
<1>4. su[d] = "loading" /\ \A m \in Modules : m # d => su[m] = st[m]  OBVIOUS
<1>5. ASSUME NEW m \in Modules
      PROVE  /\ su[m] = "absent" => ~Loading(t, m) /\ m \notin Range(b)
             /\ Loading(t, m) => su[m] = "loading" /\ m \notin Range(b)
             /\ su[m] = "loading" => Loading(t, m) \/ m \in Range(b)
             /\ Running(t, m) => m \in Range(b)
  <2>1. CASE m = d
    <3>1. Running(s, m) => m \in Range(b)  BY DEF StartedOnce
    <3>. QED  BY <1>1, <1>2, <1>4, <2>1, <3>1
  <2>2. CASE m # d  BY <1>1, <1>4, <2>2 DEF StartedOnce
  <2>. QED  BY <2>1, <2>2
<1>. QED  BY <1>2, <1>3, <1>5 DEF StartedOnce

LEMMA StartedStart ==
  ASSUME NEW s \in Seq(Frames), NEW f \in Frames, NEW t, t = Append(s, f),
         NEW d \in Modules, f.module = d, f.part = "body", NEW st, st[d] = "loaded",
         NEW b \in Seq(Modules), d \notin Range(b), NEW c, c = Append(b, d), StartedOnce(s, st, b)
  PROVE  StartedOnce(t, st, c)
<1>1. \A m : /\ Loading(t, m) <=> Loading(s, m)
             /\ Running(t, m) <=> Running(s, m) \/ m = d
  BY RunningOnTop
<1>2. IsInjective(c) /\ Range(c) = Range(b) \cup {d}  BY StartedMore DEF StartedOnce
<1>3. LoadsOnce(t)
  <2>1. LoadsOnce(s)  BY DEF StartedOnce
  <2>. QED  BY <2>1, LoadsOnTop
<1>. QED  BY <1>1, <1>2, <1>3 DEF StartedOnce

(* The file is loaded, or the body has returned. *)
LEMMA StartedPopped ==
  ASSUME NEW u \in Seq(Frames), NEW top \in Frames, NEW s, s = Append(u, top),
         NEW m \in Modules, top.module = m,
         NEW st \in [Modules -> {"absent", "loading", "loaded"}],
         NEW su, su = [st EXCEPT ![m] = "loaded"], NEW b, StartedOnce(s, st, b)
  PROVE  StartedOnce(u, su, b)
<1>1. top.part \in {"body", "load"}  BY DEF Frames
<1>2. \A d : /\ Loading(s, d) <=> Loading(u, d) \/ (d = m /\ top.part = "load")
             /\ Running(s, d) <=> Running(u, d) \/ (d = m /\ top.part = "body")
  BY RunningOnTop
<1>3. LoadsOnce(u) /\ (top.part = "load" => ~Loading(u, m))
  <2>1. LoadsOnce(s)  BY DEF StartedOnce
  <2>. QED  BY <2>1, LoadsOnTop
<1>4. st[m] # "absent"  BY <1>1, <1>2 DEF StartedOnce
<1>5. ~Loading(u, m)  BY <1>1, <1>2, <1>3 DEF StartedOnce
<1>6. su[m] = "loaded" /\ \A d \in Modules : d # m => su[d] = st[d]  OBVIOUS
<1>7. ASSUME NEW d \in Modules
      PROVE  /\ su[d] = "absent" => ~Loading(u, d) /\ d \notin Range(b)
             /\ Loading(u, d) => su[d] = "loading" /\ d \notin Range(b)
             /\ su[d] = "loading" => Loading(u, d) \/ d \in Range(b)
             /\ Running(u, d) => d \in Range(b)
  <2>1. CASE d = m
    <3>1. Running(s, m) => m \in Range(b)  BY DEF StartedOnce
    <3>. QED  BY <1>2, <1>5, <1>6, <2>1, <3>1
  <2>2. CASE d # m  BY <1>2, <1>6, <2>2 DEF StartedOnce
  <2>. QED  BY <2>1, <2>2
<1>8. IsInjective(b)  BY DEF StartedOnce
<1>. QED  BY <1>3, <1>7, <1>8 DEF StartedOnce

(* The load of a CommonJs file goes on with the body. *)
LEMMA StartedTurned ==
  ASSUME NEW u \in Seq(Frames), NEW top \in Frames, NEW f \in Frames, NEW s, NEW t,
         s = Append(u, top), t = Append(u, f),
         NEW m \in Modules, top.module = m, top.part = "load", f.module = m, f.part = "body",
         NEW st, NEW b \in Seq(Modules), NEW c, c = Append(b, m), StartedOnce(s, st, b)
  PROVE  StartedOnce(t, st, c)
<1>1. \A d : /\ Loading(s, d) <=> Loading(u, d) \/ d = m
             /\ Running(s, d) <=> Running(u, d)
             /\ Loading(t, d) <=> Loading(u, d)
             /\ Running(t, d) <=> Running(u, d) \/ d = m
  BY RunningOnTop
<1>2. LoadsOnce(u) /\ ~Loading(u, m)
  <2>1. LoadsOnce(s)  BY DEF StartedOnce
  <2>. QED  BY <2>1, LoadsOnTop
<1>3. LoadsOnce(t)  BY <1>2, LoadsOnTop
<1>4. m \notin Range(b) /\ st[m] = "loading"  BY <1>1 DEF StartedOnce
<1>5. IsInjective(c) /\ Range(c) = Range(b) \cup {m}  BY <1>4, StartedMore DEF StartedOnce
<1>6. ASSUME NEW d \in Modules
      PROVE  /\ st[d] = "absent" => ~Loading(t, d) /\ d \notin Range(c)
             /\ Loading(t, d) => st[d] = "loading" /\ d \notin Range(c)
             /\ st[d] = "loading" => Loading(t, d) \/ d \in Range(c)
             /\ Running(t, d) => d \in Range(c)
  <2>1. CASE d = m
    <3>1. Running(s, m) => m \in Range(b)  BY DEF StartedOnce
    <3>. QED  BY <1>1, <1>2, <1>4, <1>5, <2>1, <3>1
  <2>2. CASE d # m  BY <1>1, <1>5, <2>2 DEF StartedOnce
  <2>. QED  BY <2>1, <2>2
<1>. QED  BY <1>3, <1>5, <1>6 DEF StartedOnce

-----------------------------------------------------------------------------
(* Frames stay as they were *)

CoversMore(p, s, b, t, c) == \A m : Covered(p, s, b, m) => Covered(p, t, c, m)

LEMMA FrameLater ==
  ASSUME NEW p, NEW s, NEW t, NEW st, NEW su, NEW b, NEW c, NEW f \in Frames,
         CoversMore(p, s, b, t, c), Later(st, su), FrameKept(p, s, st, b, f)
  PROVE  FrameKept(p, t, su, c, f)
<1>1. CallsDone(p, t, c, f)
  <2>1. CallsDone(p, s, b, f)  BY DEF FrameKept
  <2>. QED  BY <2>1 DEF CallsDone, CoversMore
<1>2. LocalsThere(p, su, f)
  <2>1. LocalsThere(p, st, f)  BY DEF FrameKept
  <2>2. f.module # Driver => f.module \in Modules  BY DEF Frames
  <2>. QED  BY <2>1, <2>2 DEF LocalsThere, Later
<1>3. Homes(p, su, f.inner, {"lazy"}) /\ Homes(p, su, f.local, {"lazy"})
  <2>1. Homes(p, st, f.inner, {"lazy"}) /\ Homes(p, st, f.local, {"lazy"})  BY DEF FrameKept
  <2>. QED  BY <2>1, HomesLater
<1>. QED  BY <1>1, <1>2, <1>3 DEF FrameKept

(* Frames that are on both stacks, with or without a new one on top. *)
LEMMA FramesLater ==
  ASSUME NEW p, NEW s \in Seq(Frames), NEW u \in Seq(Frames), NEW t,
         \A k \in DOMAIN u : k \in DOMAIN s /\ u[k] = s[k],
         NEW st, NEW su, NEW b, NEW c,
         CoversMore(p, s, b, t, c), Later(st, su), FramesKept(p, s, st, b)
  PROVE  /\ t = u => FramesKept(p, t, su, c)
         /\ \A f \in Frames : t = Append(u, f) /\ FrameKept(p, t, su, c, f)
                               => FramesKept(p, t, su, c)
<1>1. ASSUME NEW k \in DOMAIN u PROVE FrameKept(p, t, su, c, u[k])
  <2>1. FrameKept(p, s, st, b, u[k])  BY <1>1 DEF FramesKept
  <2>2. u[k] \in Frames  BY <1>1
  <2>. QED  BY <2>1, <2>2, FrameLater
<1>2. ASSUME t = u PROVE FramesKept(p, t, su, c)
  BY <1>1, <1>2 DEF FramesKept
<1>3. ASSUME NEW f \in Frames, t = Append(u, f), FrameKept(p, t, su, c, f)
      PROVE  FramesKept(p, t, su, c)
  <2>. SUFFICES ASSUME NEW k \in DOMAIN t PROVE FrameKept(p, t, su, c, t[k])
    BY DEF FramesKept
  <2>1. CASE k \in DOMAIN u
    <3>1. t[k] = u[k]  BY <1>3, <2>1, OnTop
    <3>. QED  BY <1>1, <2>1, <3>1
  <2>2. CASE k \notin DOMAIN u
    <3>1. t[k] = f  BY <1>3, <2>2, OnTop
    <3>. QED  BY <1>3, <3>1
  <2>. QED  BY <2>1, <2>2
<1>. QED  BY <1>2, <1>3

-----------------------------------------------------------------------------
(* Where the program is *)

(* The driver's file calls the first module, and takes nothing from it. *)
LEMMA DriverShape ==
  ASSUME NEW p, IsProgram(p), NEW file, file = DriverFile(p)
  PROVE  /\ file.steps \in Seq(StepType) /\ Len(file.steps) = 1
         /\ file.steps[1].expression[1] = "call" /\ file.steps[1].expression[2] = p.entry
         /\ file.steps[1].binds = {}
<1>1. PICK e : e = <<"call", p.entry>>  OBVIOUS
<1>2. e[1] = "call" /\ e[2] = p.entry  BY <1>1
<1>3. e \in Expression
  <2>1. p.entry \in Modules  BY DEF IsProgram
  <2>2. e \in {"call"} \X Modules  BY <1>1, <2>1
  <2>. QED  BY <2>2 DEF Expression
<1>4. PICK s \in Seq(Expression) : s = <<e>> /\ Len(s) = 1 /\ s[1] = e
  <2>1. <<e>> \in Seq(Expression) /\ Len(<<e>>) = 1 /\ <<e>>[1] = e  BY <1>3
  <2>. QED  BY <2>1
<1>5. PICK r \in Registry : r = [d \in Modules |-> {}]
  <2>1. [d \in Modules |-> {}] \in Registry  BY DEF Registry
  <2>. QED  BY <2>1
<1>6. file.steps = Rewritten(p, r, s)  BY <1>1, <1>4, <1>5 DEF DriverFile
<1>7. /\ Rewritten(p, r, s) \in Seq(StepType) /\ Len(Rewritten(p, r, s)) = 1
      /\ StepOf(p, r, s, 1, Rewritten(p, r, s)[1])
  <2>1. 1 \in 1 .. Len(s)  BY <1>4
  <2>2. \A k \in 1 .. Len(s) : StepOf(p, r, s, k, Rewritten(p, r, s)[k])  BY RewrittenShape
  <2>3. StepOf(p, r, s, 1, Rewritten(p, r, s)[1])  BY <2>1, <2>2
  <2>. QED  BY <1>4, <2>3, RewrittenShape
<1>8. PICK step : step = file.steps[1]  OBVIOUS
<1>9. StepOf(p, r, s, 1, step)  BY <1>6, <1>7, <1>8
<1>10. step.expression = e  BY <1>4, <1>9 DEF StepOf
<1>11. step.binds = {}
  <2>1. step.binds # {} => IsCall(e) /\ step.binds = r[e[2]]  BY <1>4, <1>9 DEF StepOf
  <2>2. r[e[2]] = {}
    <3>1. e[2] \in Modules  BY <1>2 DEF IsProgram
    <3>. QED  BY <1>5, <3>1
  <2>. QED  BY <2>1, <2>2
<1>. QED  BY <1>2, <1>6, <1>7, <1>8, <1>10, <1>11

LEMMA FilesOf ==
  ASSUME NEW p
  PROVE  /\ \A m \in Modules : Files(p)[m] = File(p, m)
         /\ Files(p)[Driver] = DriverFile(p)
BY SplitBundleAssumption DEF SplitBundleAssumption, Files

(* The text of a frame is a sequence of steps. *)
LEMMA TextTyped ==
  ASSUME NEW p, IsProgram(p), NEW f \in Frames, f.module = Driver => f.part = "body"
  PROVE  Text(p, f) \in Seq(StepType)
<1>1. CASE f.module = Driver
  <2>1. Text(p, f) = DriverFile(p).steps  BY <1>1, FilesOf DEF Text
  <2>. QED  BY <2>1, DriverShape
<1>2. CASE f.module # Driver
  <2>1. PICK m \in Modules : m = f.module  BY <1>2 DEF Frames
  <2>2. PICK file : file = File(p, m) /\ Shaped(p, m, file)  BY FileShape
  <2>3. Text(p, f) = IF f.part = "load" THEN file.calls ELSE file.steps
    BY <2>1, <2>2, FilesOf DEF Text
  <2>. QED  BY <2>2, <2>3 DEF Shaped
<1>. QED  BY <1>1, <1>2

(* What is known while code runs. *)
LEMMA Here ==
  ASSUME IInv, outcome = "run", stack # << >>
  PROVE  /\ IsProgram(program) /\ files = Files(program)
         /\ stack \in Seq(Frames) /\ Front(stack) \in Seq(Frames) /\ Top \in Frames
         /\ stack = Append(Front(stack), Top)
         /\ \A k \in DOMAIN Front(stack) : k \in DOMAIN stack /\ Front(stack)[k] = stack[k]
         /\ Steps(Top) = Text(program, Top)
         /\ FrameKept(program, stack, status, started, Top)
         /\ Top.module = Driver => Top.part = "body" /\ Front(stack) = << >>
         /\ Top.module # Driver => Top.module \in Modules /\ Front(stack) # << >>
<1>1. IsProgram(program)
  BY SplitBundleAssumption DEF SplitBundleAssumption, IInv, TypeOK
<1>2. files = Files(program)  BY DEF IInv, FilesMade
<1>3. stack \in Seq(Frames)  BY DEF IInv, TypeOK
<1>4. PICK n \in Nat : n = Len(stack) /\ n > 0 /\ DOMAIN stack = 1 .. n  BY <1>3, EmptySeq
<1>5. /\ Front(stack) \in Seq(Frames) /\ Top \in Frames
      /\ stack = Append(Front(stack), Top) /\ Top = stack[n] /\ Len(Front(stack)) = n - 1
      /\ \A k \in 1 .. n - 1 : Front(stack)[k] = stack[k]
  BY <1>3, <1>4, TopOfStack DEF Top
<1>6. \A k \in DOMAIN Front(stack) : k \in DOMAIN stack /\ Front(stack)[k] = stack[k]
  <2>1. DOMAIN Front(stack) = 1 .. n - 1  BY <1>5
  <2>2. \A k \in 1 .. n - 1 : k \in 1 .. n  BY <1>4
  <2>. QED  BY <1>4, <1>5, <2>1, <2>2
<1>7. Steps(Top) = Text(program, Top)  BY <1>2 DEF Steps, Text
<1>8. FrameKept(program, stack, status, started, Top)
  <2>1. n \in DOMAIN stack  BY <1>4
  <2>2. FramesKept(program, stack, status, started)  BY DEF IInv
  <2>. QED  BY <1>5, <2>1, <2>2 DEF FramesKept
<1>9. DriverFirst("run", stack)  BY DEF IInv
<1>10. n = 1 <=> Front(stack) = << >>  BY <1>4, <1>5, EmptySeq
<1>11. Top.module = Driver => n = 1
  <2>1. n \in DOMAIN stack  BY <1>4
  <2>. QED  BY <1>5, <1>9, <2>1 DEF DriverFirst
<1>12. n = 1 => Top.module = Driver /\ Top.part = "body"  BY <1>5, <1>9 DEF DriverFirst
<1>13. Top.module # Driver => Top.module \in Modules  BY <1>5 DEF Frames
<1>. QED  BY <1>1, <1>2, <1>3, <1>5, <1>6, <1>7, <1>8, <1>10, <1>11, <1>12, <1>13

(* The expression that is next. *)
LEMMA HereStep ==
  ASSUME IInv, InCode
  PROVE  /\ Step \in StepType /\ Step.expression \in Expression /\ Takes(program, Step)
         /\ Step = Text(program, Top)[Top.at]
         /\ Top.module = Driver \/ Top.part = "load" => IsCall(Step.expression)
         /\ Top.module = Driver => Step.binds = {}
         /\ Top.module # Driver /\ Top.part = "body" =>
              Step.expression \in Range(Code(program, Top.module))
<1>1. outcome = "run" /\ stack # << >> /\ Top.at <= Len(Steps(Top))  BY DEF InCode
<1>2. PICK p, top, steps :
        /\ p = program /\ top = Top /\ steps = Text(program, Top) /\ steps = Steps(Top)
        /\ IsProgram(p) /\ top \in Frames
        /\ top.module = Driver => top.part = "body"
        /\ top.module # Driver => top.module \in Modules
  BY <1>1, Here
<1>3. PICK at \in Nat : at = top.at /\ at > 0  BY <1>2 DEF Frames
<1>4. top.part \in {"body", "load"}  BY <1>2 DEF Frames
<1>5. PICK step : step = steps[at]  OBVIOUS
<1>6. Step = step  BY <1>2, <1>3, <1>5 DEF Step
<1>7. CASE top.module = Driver
  <2>1. PICK file : file = DriverFile(p)  OBVIOUS
  <2>2. steps = file.steps  BY <1>2, <1>7, <2>1, FilesOf DEF Text
  <2>3. /\ file.steps \in Seq(StepType) /\ Len(file.steps) = 1
        /\ file.steps[1].expression[1] = "call" /\ file.steps[1].binds = {}
    BY <1>2, <2>1, DriverShape
  <2>4. at <= 1  BY <1>1, <1>2, <1>3, <2>2, <2>3
  <2>5. at = 1  BY <1>3, <2>4
  <2>6. step \in StepType  BY <1>5, <2>2, <2>3, <2>5, ElementOfSeq
  <2>7. IsCall(step.expression) /\ step.binds = {}  BY <1>5, <2>2, <2>3, <2>5 DEF IsCall
  <2>8. step.expression \in Expression  BY <2>6 DEF StepType
  <2>9. Takes(p, step)  BY <2>7 DEF Takes
  <2>. QED  BY <1>2, <1>3, <1>5, <1>6, <1>7, <2>6, <2>7, <2>8, <2>9
<1>8. CASE top.module # Driver
  <2>1. PICK m \in Modules : m = top.module  BY <1>2, <1>8
  <2>2. PICK file : file = File(p, m) /\ Shaped(p, m, file)  BY <1>2, FileShape
  <2>3. steps = IF top.part = "load" THEN file.calls ELSE file.steps
    BY <1>2, <2>1, <2>2, FilesOf DEF Text
  <2>4. steps \in Seq(StepType)  BY <2>2, <2>3 DEF Shaped
  <2>5. at \in 1 .. Len(steps)  BY <1>1, <1>2, <1>3, <2>4
  <2>6. step \in StepType  BY <1>5, <2>4, <2>5, ElementOfSeq
  <2>7. step \in Range(steps)  BY <1>5, <2>4, <2>5 DEF Range
  <2>8. step.expression \in Expression  BY <2>6 DEF StepType
  <2>9. Takes(p, step)  BY <2>2, <2>3, <2>7 DEF Shaped
  <2>10. top.part = "load" => IsCall(step.expression)  BY <2>2, <2>3, <2>7 DEF Shaped
  <2>11. top.part = "body" => step.expression \in Range(Code(p, m))
    BY <2>2, <2>3, <2>7 DEF Shaped
  <2>. QED  BY <1>2, <1>3, <1>5, <1>6, <1>8, <2>1, <2>6, <2>8, <2>9, <2>10, <2>11
<1>. QED  BY <1>7, <1>8

(* The scopes that are looked into. *)
LEMMA HereScope ==
  ASSUME IInv, InCode
  PROVE  /\ Inner \in Scopes /\ Top.local \in Scopes
         /\ Homes(program, status, Inner, {"lazy"})
         /\ Homes(program, status, Top.local, {"lazy"})
         /\ Top.module # Driver =>
              /\ cells[Top.module] \in Scopes /\ Scope \in Scopes
              /\ DOMAIN Scope = DOMAIN Inner \cup (DOMAIN Top.local \cup DOMAIN cells[Top.module])
              /\ Homes(program, status, Scope, KindsIn(program, Top.module))
<1>1. outcome = "run" /\ stack # << >>  BY DEF InCode
<1>2. PICK top \in Frames : /\ top = Top
                            /\ top.module # Driver => top.module \in Modules
                            /\ FrameKept(program, stack, status, started, top)
  BY <1>1, Here
<1>3. top.inner \in Scopes /\ top.local \in Scopes  BY <1>2 DEF Frames
<1>4. /\ Homes(program, status, top.inner, {"lazy"})
      /\ Homes(program, status, top.local, {"lazy"})
  BY <1>2 DEF FrameKept
<1>5. PICK inner : inner = Inner  OBVIOUS
<1>6. inner \in Scopes /\ Homes(program, status, inner, {"lazy"})
  <2>1. inner = NoNames \/ inner = top.inner  BY <1>2, <1>5 DEF Inner
  <2>. QED  BY <1>3, <1>4, <2>1, NoNamesScope, HomesNoNames
<1>7. ASSUME top.module # Driver
      PROVE  /\ cells[top.module] \in Scopes /\ Scope \in Scopes
             /\ DOMAIN Scope = DOMAIN inner \cup (DOMAIN top.local \cup DOMAIN cells[top.module])
             /\ Homes(program, status, Scope, KindsIn(program, top.module))
  <2>1. PICK m \in Modules : m = top.module  BY <1>2, <1>7
  <2>2. PICK own : own = cells[m]  OBVIOUS
  <2>3. own \in Scopes /\ Homes(program, status, own, KindsIn(program, m))
    BY <2>2 DEF IInv, TypeOK, FunctionsHome
  <2>4. {"lazy"} \subseteq KindsIn(program, m)  BY DEF KindsIn
  <2>5. Later(status, status)  BY DEF Later
  <2>6. /\ Homes(program, status, inner, KindsIn(program, m))
        /\ Homes(program, status, top.local, KindsIn(program, m))
    BY <1>4, <1>6, <2>4, <2>5, HomesLater
  <2>7. PICK behind : behind = Over(top.local, own)  OBVIOUS
  <2>8. /\ behind \in Scopes /\ DOMAIN behind = DOMAIN top.local \cup DOMAIN own
        /\ Homes(program, status, behind, KindsIn(program, m))
    BY <1>3, <2>3, <2>6, <2>7, OverScopes, HomesOver
  <2>9. Scope = Over(inner, behind)  BY <1>2, <1>5, <2>1, <2>2, <2>7 DEF Scope
  <2>10. /\ Over(inner, behind) \in Scopes
         /\ DOMAIN Over(inner, behind) = DOMAIN inner \cup DOMAIN behind
         /\ Homes(program, status, Over(inner, behind), KindsIn(program, m))
    BY <1>6, <2>6, <2>8, OverScopes, HomesOver
  <2>. QED  BY <2>1, <2>2, <2>3, <2>8, <2>9, <2>10
<1>. QED  BY <1>2, <1>3, <1>4, <1>5, <1>6, <1>7

-----------------------------------------------------------------------------
(* The next expression *)

(* The code at its next expression, with scopes changed. *)
LEMMA PassedFrame ==
  ASSUME Top \in Frames, NEW i \in Scopes, NEW l \in Scopes, NEW g, g = Passed(i, l)
  PROVE  /\ g \in Frames /\ g.module = Top.module /\ g.part = Top.part
         /\ g.at = Top.at + 1 /\ g.inner = i /\ g.local = l
<1>1. PICK m \in Modules \cup {Driver}, part \in {"body", "load"}, a \in Nat \ {0},
           i0 \in Scopes, l0 \in Scopes :
        Top = [module |-> m, part |-> part, at |-> a, inner |-> i0, local |-> l0]
  BY DEF Frames
<1>2. g = [module |-> m, part |-> part, at |-> a + 1, inner |-> i, local |-> l]
  BY <1>1 DEF Passed
<1>3. a + 1 \in Nat \ {0}  OBVIOUS
<1>4. g \in Frames  BY <1>2, <1>3 DEF Frames
<1>. QED  BY <1>1, <1>2, <1>4

(* A step to the next expression keeps the invariant, if functions stay at home, what was
   called is covered, and files come to be loaded as StartedOnce and NamesThere ask. *)
LEMMA MovesLater ==
  ASSUME IInv, InCode, NEW i \in Scopes, NEW l \in Scopes, NEW ce \in [Modules -> Scopes],
         NEW su \in [Modules -> {"absent", "loading", "loaded"}],
         stack' = Append(Front(stack), Passed(i, l)), cells' = ce, seen' \in Seq(Value),
         status' = su, UNCHANGED <<program, files, outcome, cache, started>>,
         Later(status, su), StartedOnce(stack, su, started), NamesThere(program, su, cells),
         Homes(program, status, i, {"lazy"}), Homes(program, status, l, {"lazy"}),
         DOMAIN Top.local \subseteq DOMAIN l,
         \A m \in Modules : /\ DOMAIN cells[m] \subseteq DOMAIN ce[m]
                            /\ Homes(program, status, ce[m], KindsIn(program, m)),
         IsCall(Step.expression) => Covered(program, stack, started, Step.expression[2])
  PROVE  IInv'
<1>1. outcome = "run" /\ stack # << >> /\ Top.at <= Len(Steps(Top))  BY DEF InCode
<1>2. PICK p, s, u, top, f, t :
        /\ p = program /\ s = stack /\ u = Front(stack) /\ top = Top
        /\ f = Passed(i, l) /\ t = Append(Front(stack), Passed(i, l))
  OBVIOUS
<1>3. PICK st, b : st = status /\ b = started  OBVIOUS
<1>4. /\ s \in Seq(Frames) /\ u \in Seq(Frames) /\ top \in Frames /\ s = Append(u, top)
      /\ \A k \in DOMAIN u : k \in DOMAIN s /\ u[k] = s[k]
      /\ Steps(top) = Text(p, top)
      /\ FrameKept(p, s, st, b, top)
      /\ top.module = Driver => top.part = "body" /\ u = << >>
      /\ top.module # Driver => top.module \in Modules /\ u # << >>
  BY <1>1, <1>2, <1>3, Here
<1>5. /\ f \in Frames /\ f.module = top.module /\ f.part = top.part
      /\ f.at = top.at + 1 /\ f.inner = i /\ f.local = l
  <2>1. Top \in Frames  BY <1>2, <1>4
  <2>. QED  BY <1>2, <2>1, PassedFrame
<1>6. t = Append(u, f) /\ stack' = t /\ t \in Seq(Frames)
  BY <1>2, <1>4, <1>5, OnTop
<1>7. TypeOK'
  <2>1. /\ program \in Programs /\ outcome \in {"unpack", "unpack failed", "run", "done"} \cup Failure
        /\ cache \in [Modules -> Scopes \cup {None}] /\ started \in Seq(Modules)
    BY DEF IInv, TypeOK
  <2>. QED  BY <1>6, <2>1 DEF TypeOK
<1>8. FilesMade'
  <2>1. files = Files(program)  BY <1>1, Here
  <2>. QED  BY <1>1, <2>1 DEF FilesMade
<1>9. DriverFirst("run", t)
  <2>1. DriverFirst("run", s)  BY <1>1, <1>2 DEF IInv
  <2>2. ASSUME NEW k \in DOMAIN t PROVE k \in DOMAIN s /\ t[k].module = s[k].module /\ t[k].part = s[k].part
    <3>1. CASE k \in DOMAIN u  BY <1>4, <1>5, <1>6, <3>1, OnTop
    <3>2. CASE k \notin DOMAIN u
      <4>1. k = Len(u) + 1 /\ t[k] = f  BY <1>4, <1>5, <1>6, <3>2, OnTop
      <4>2. k \in DOMAIN s /\ s[k] = top  BY <1>4, <4>1, OnTop
      <4>. QED  BY <1>5, <4>1, <4>2
    <3>. QED  BY <3>1, <3>2
  <2>3. t # << >> /\ 1 \in DOMAIN t
    <3>1. t # << >>  BY <1>4, <1>5, <1>6, OnTop
    <3>. QED  BY <1>6, <3>1, EmptySeq
  <2>. QED  BY <2>1, <2>2, <2>3 DEF DriverFirst
<1>10. \A m : (Running(t, m) <=> Running(s, m)) /\ (Loading(t, m) <=> Loading(s, m))
  <2>. SUFFICES ASSUME NEW m
                PROVE  (Running(t, m) <=> Running(s, m)) /\ (Loading(t, m) <=> Loading(s, m))
    OBVIOUS
  <2>1. /\ Running(t, m) <=> Running(u, m) \/ (f.module = m /\ f.part = "body")
        /\ Loading(t, m) <=> Loading(u, m) \/ (f.module = m /\ f.part = "load")
    BY <1>4, <1>5, <1>6, RunningOnTop
  <2>2. /\ Running(s, m) <=> Running(u, m) \/ (top.module = m /\ top.part = "body")
        /\ Loading(s, m) <=> Loading(u, m) \/ (top.module = m /\ top.part = "load")
    BY <1>4, RunningOnTop
  <2>. QED  BY <1>5, <2>1, <2>2
<1>11. StartedOnce(t, su, b)
  <2>1. StartedOnce(s, su, b)  BY <1>2, <1>3
  <2>. QED  BY <1>4, <1>5, <1>6, <2>1, StartedMoved
<1>12. \A m : Covered(p, t, b, m) <=> Covered(p, s, b, m)  BY <1>10 DEF Covered
<1>13. CallsCovered(p, t, b, "run")
  <2>1. CallsCovered(p, s, b, "run")  BY <1>1, <1>2, <1>3 DEF IInv
  <2>. QED  BY <1>10, <1>12, <2>1 DEF CallsCovered
<1>14. CacheKept(p, t, b, cache)
  <2>1. CacheKept(p, s, b, cache)  BY <1>2, <1>3 DEF IInv
  <2>. QED  BY <1>10, <2>1 DEF CacheKept
<1>15. NamesThere(p, su, ce)
  <2>1. NamesThere(p, su, cells)  BY <1>2
  <2>2. ASSUME NEW m \in Modules, su[m] # "absent"
        PROVE  IF File(p, m).empty THEN p.kind[m] = "cjs" ELSE File(p, m).declared \subseteq DOMAIN ce[m]
    <3>1. DOMAIN cells[m] \subseteq DOMAIN ce[m]  OBVIOUS
    <3>. QED  BY <2>1, <2>2, <3>1 DEF NamesThere
  <2>. QED  BY <2>2 DEF NamesThere
<1>16. FunctionsHome(p, su, ce, cache)
  <2>1. FunctionsHome(p, st, cells, cache)  BY <1>2, <1>3 DEF IInv
  <2>2. \A m \in Modules : Homes(p, st, ce[m], KindsIn(p, m))  BY <1>2, <1>3
  <2>3. \A scope, kinds : Homes(p, st, scope, kinds) => Homes(p, su, scope, kinds)
    BY <1>3 DEF Homes, Later
  <2>. QED  BY <2>1, <2>2, <2>3 DEF FunctionsHome
<1>17. CallsDone(p, t, b, f)
  <2>1. PICK text : text = Text(p, top) /\ text = Text(p, f)  BY <1>5 DEF Text
  <2>2. PICK at \in Nat : at = top.at /\ at > 0 /\ f.at = at + 1  BY <1>4, <1>5 DEF Frames
  <2>3. CallsDone(p, s, b, top)  BY <1>4 DEF FrameKept
  <2>4. PICK n \in Nat : n = Len(text) /\ at <= n
    <3>1. text \in Seq(StepType)
      <4>1. IsProgram(p)  BY <1>1, <1>2, Here
      <4>. QED  BY <1>4, <2>1, <4>1, TextTyped
    <3>. QED  BY <1>1, <1>2, <1>4, <2>1, <2>2, <3>1
  <2>5. text[at].expression = Step.expression  BY <1>1, <1>2, <2>1, <2>2, HereStep
  <2>6. ASSUME f.part = "body", NEW j \in 1 .. f.at - 1, IsCall(text[j].expression)
        PROVE  Covered(p, t, b, text[j].expression[2])
    <3>1. CASE j = at
      <4>1. Covered(p, s, b, text[at].expression[2])
        BY <1>2, <1>3, <2>5, <2>6, <3>1
      <4>. QED  BY <1>12, <3>1, <4>1
    <3>2. CASE j # at
      <4>1. j \in 1 .. top.at - 1  BY <2>2, <2>6, <3>2
      <4>2. Covered(p, s, b, text[j].expression[2])
        BY <1>5, <2>1, <2>3, <2>6, <4>1 DEF CallsDone
      <4>. QED  BY <1>12, <4>2
    <3>. QED  BY <3>1, <3>2
  <2>7. f.at <= Len(text) + 1  BY <2>2, <2>4
  <2>. QED  BY <2>1, <2>6, <2>7 DEF CallsDone
<1>18. LocalsThere(p, su, f)
  <2>1. LocalsThere(p, st, top)  BY <1>4 DEF FrameKept
  <2>2. DOMAIN top.local \subseteq DOMAIN f.local  BY <1>2, <1>5
  <2>3. top.module # Driver => su[top.module] # "absent"
    <3>1. Later(st, su)  BY <1>3
    <3>. QED  BY <1>4, <2>1, <3>1 DEF LocalsThere, Later
  <2>. QED  BY <1>5, <2>1, <2>2, <2>3 DEF LocalsThere
<1>19. FrameKept(p, t, su, b, f)
  <2>1. Homes(p, st, f.inner, {"lazy"}) /\ Homes(p, st, f.local, {"lazy"})  BY <1>2, <1>3, <1>5
  <2>2. Homes(p, su, f.inner, {"lazy"}) /\ Homes(p, su, f.local, {"lazy"})
    BY <1>3, <2>1 DEF Homes, Later
  <2>. QED  BY <1>17, <1>18, <2>2 DEF FrameKept
<1>20. FramesKept(p, t, su, b)
  <2>1. FramesKept(p, s, st, b)  BY <1>2, <1>3 DEF IInv
  <2>2. CoversMore(p, s, b, t, b) /\ Later(st, su)  BY <1>3, <1>12 DEF CoversMore
  <2>. QED  BY <1>4, <1>5, <1>6, <1>19, <2>1, <2>2, FramesLater
<1>21. NamesFound'
  <2>1. outcome' \notin {"nothing to bind", "unbound"}  BY <1>1
  <2>. QED  BY <2>1 DEF NamesFound, OnlyCyclesLackNames, NamesBound
<1>22. program' = p /\ outcome' = "run" /\ status' = su /\ started' = b /\ cache' = cache /\ cells' = ce
  BY <1>1, <1>2, <1>3
<1>. QED  BY <1>6, <1>7, <1>8, <1>9, <1>11, <1>13, <1>14, <1>15, <1>16, <1>20, <1>21, <1>22 DEF IInv

LEMMA Moves ==
  ASSUME IInv, InCode, NEW i \in Scopes, NEW l \in Scopes, NEW ce \in [Modules -> Scopes],
         stack' = Append(Front(stack), Passed(i, l)), cells' = ce, seen' \in Seq(Value),
         UNCHANGED <<program, files, outcome, status, cache, started>>,
         Homes(program, status, i, {"lazy"}), Homes(program, status, l, {"lazy"}),
         DOMAIN Top.local \subseteq DOMAIN l,
         \A m \in Modules : /\ DOMAIN cells[m] \subseteq DOMAIN ce[m]
                            /\ Homes(program, status, ce[m], KindsIn(program, m)),
         IsCall(Step.expression) => Covered(program, stack, started, Step.expression[2])
  PROVE  IInv'
<1>1. PICK su \in [Modules -> {"absent", "loading", "loaded"}] : su = status
  BY DEF IInv, TypeOK
<1>2. /\ Later(status, su) /\ StartedOnce(stack, su, started)
      /\ NamesThere(program, su, cells)
  BY <1>1 DEF IInv, Later
<1>3. status' = su /\ UNCHANGED <<program, files, outcome, cache, started>>  BY <1>1
<1>. QED  BY <1>1, <1>2, <1>3, MovesLater

(* A failure changes nothing but the outcome. *)
LEMMA Throws ==
  ASSUME IInv, InCode, NEW why \in Failure, Throw(why), NamesFound'
  PROVE  IInv'
<1>1. outcome = "run" /\ stack # << >>  BY DEF InCode
<1>2. why \notin {"unpack", "unpack failed", "run", "done"}  BY DEF Failure
<1>3. /\ outcome' = why /\ program' = program /\ files' = files /\ status' = status
      /\ cells' = cells /\ cache' = cache /\ stack' = stack /\ started' = started /\ seen' = seen
  BY DEF Throw
<1>4. TypeOK'
  <2>1. TypeOK  BY DEF IInv
  <2>. QED  BY <1>3, <2>1 DEF TypeOK
<1>5. FilesMade'
  <2>1. files = Files(program)  BY <1>1, Here
  <2>. QED  BY <1>2, <1>3, <2>1 DEF FilesMade
<1>6. DriverFirst(why, stack)
  <2>1. DriverFirst("run", stack)  BY <1>1 DEF IInv
  <2>. QED  BY <1>2, <2>1 DEF DriverFirst
<1>7. CallsCovered(program, stack, started, why)
  <2>1. CallsCovered(program, stack, started, "run")  BY <1>1 DEF IInv
  <2>. QED  BY <1>2, <2>1 DEF CallsCovered
<1>8. /\ StartedOnce(stack, status, started) /\ CacheKept(program, stack, started, cache)
      /\ NamesThere(program, status, cells) /\ FunctionsHome(program, status, cells, cache)
      /\ FramesKept(program, stack, status, started)
  BY DEF IInv
<1>. QED  BY <1>3, <1>4, <1>5, <1>6, <1>7, <1>8 DEF IInv

(* Names that get values in one of the scopes. *)
LEMMA Advances ==
  ASSUME IInv, InCode, NEW values \in Scopes, NEW scope, Advance(values, scope),
         UNCHANGED <<program, files, outcome, status, cache, started>>, seen' \in Seq(Value),
         Homes(program, status, values, {"lazy"}),
         scope = "top" => Top.module # Driver \/ values = NoNames,
         IsCall(Step.expression) => Covered(program, stack, started, Step.expression[2])
  PROVE  IInv'
<1>1. PICK i, l :
        /\ i = IF scope = "inner" THEN Over(values, Inner) ELSE Inner
        /\ l = IF scope = "local" THEN Over(values, Top.local) ELSE Top.local
  OBVIOUS
<1>2. PICK ce : ce = IF scope = "top" THEN [cells EXCEPT ![Top.module] = Over(values, @)] ELSE cells
  OBVIOUS
<1>3. stack' = Append(Front(stack), Passed(i, l)) /\ cells' = ce
  BY <1>1, <1>2 DEF Advance
<1>4. /\ Inner \in Scopes /\ Top.local \in Scopes
      /\ Homes(program, status, Inner, {"lazy"}) /\ Homes(program, status, Top.local, {"lazy"})
  BY HereScope
<1>5. /\ Over(values, Inner) \in Scopes /\ Homes(program, status, Over(values, Inner), {"lazy"})
      /\ Over(values, Top.local) \in Scopes
      /\ Homes(program, status, Over(values, Top.local), {"lazy"})
      /\ DOMAIN Top.local \subseteq DOMAIN Over(values, Top.local)
  <2>1. Over(values, Inner) \in Scopes /\ Homes(program, status, Over(values, Inner), {"lazy"})
    BY <1>4, OverScopes, HomesOver
  <2>2. PICK local : local = Top.local  OBVIOUS
  <2>3. /\ Over(values, local) \in Scopes
        /\ DOMAIN Over(values, local) = DOMAIN values \cup DOMAIN local
    BY <1>4, <2>2, OverScopes
  <2>4. Homes(program, status, Over(values, local), {"lazy"})
    BY <1>4, <2>2, HomesOver
  <2>. QED  BY <2>1, <2>2, <2>3, <2>4
<1>6. /\ i \in Scopes /\ Homes(program, status, i, {"lazy"})
      /\ l \in Scopes /\ Homes(program, status, l, {"lazy"})
      /\ DOMAIN Top.local \subseteq DOMAIN l
  BY <1>1, <1>4, <1>5
<1>7. cells \in [Modules -> Scopes]  BY DEF IInv, TypeOK
<1>8. ASSUME NEW m \in Modules
      PROVE  /\ ce[m] = cells[m] \/ ce[m] = Over(values, cells[m])
  <2>1. Top.module = m => [cells EXCEPT ![Top.module] = Over(values, @)][m] = Over(values, cells[m])
    BY <1>7
  <2>2. Top.module # m => [cells EXCEPT ![Top.module] = Over(values, @)][m] = cells[m]
    BY <1>7
  <2>. QED  BY <1>2, <2>1, <2>2
<1>9. ASSUME NEW m \in Modules
      PROVE  /\ ce[m] \in Scopes /\ DOMAIN cells[m] \subseteq DOMAIN ce[m]
             /\ Homes(program, status, ce[m], KindsIn(program, m))
  <2>1. PICK own \in Scopes : own = cells[m] /\ Homes(program, status, own, KindsIn(program, m))
    BY <1>7 DEF IInv, FunctionsHome
  <2>2. Homes(program, status, values, KindsIn(program, m))
    <3>1. {"lazy"} \subseteq KindsIn(program, m) /\ Later(status, status)  BY DEF KindsIn, Later
    <3>. QED  BY <3>1, HomesLater
  <2>3. /\ Over(values, own) \in Scopes /\ DOMAIN own \subseteq DOMAIN Over(values, own)
        /\ Homes(program, status, Over(values, own), KindsIn(program, m))
    <3>1. /\ Over(values, own) \in Scopes
          /\ DOMAIN Over(values, own) = DOMAIN values \cup DOMAIN own
      BY OverScopes
    <3>2. PICK kinds : kinds = KindsIn(program, m)  OBVIOUS
    <3>3. Homes(program, status, Over(values, own), kinds)  BY <2>1, <2>2, <3>2, HomesOver
    <3>. QED  BY <3>1, <3>2, <3>3
  <2>4. ce[m] = own \/ ce[m] = Over(values, own)  BY <1>8, <2>1
  <2>. QED  BY <2>1, <2>3, <2>4
<1>10. ce \in [Modules -> Scopes]
  <2>1. ce = [m \in Modules |-> ce[m]]
    <3>1. cells = [m \in Modules |-> cells[m]]  BY <1>7
    <3>2. PICK c : c = [cells EXCEPT ![Top.module] = Over(values, @)]  OBVIOUS
    <3>3. c = [m \in Modules |-> c[m]]  BY <1>7, <3>2
    <3>. QED  BY <1>2, <3>1, <3>2, <3>3
  <2>. QED  BY <1>9, <2>1
<1>. QED  BY <1>3, <1>6, <1>9, <1>10, Moves

(* The call of a module that was started, or is about to be. *)
LEMMA CallStartedKept ==
  ASSUME IInv, Does("call"), NEW d, d = Step.expression[2], d # Top.module, CallStarted(d),
         Covered(program, stack, started, d)
  PROVE  IInv'
<1>1. InCode /\ outcome = "run" /\ stack # << >> /\ Step.expression[1] = "call"
  BY DEF Does, InCode
<1>2. Step.binds # {} =>
        d \in Modules /\ program.kind[d] = "lazy" /\ Step.binds \subseteq FinalExports(program, d)
  BY <1>1, HereStep DEF Takes
<1>3. PICK binds : binds = Step.binds  OBVIOUS
<1>4. CASE binds # {} /\ cache[d] = None
  <2>1. Throw("nothing to bind")  BY <1>3, <1>4 DEF CallStarted
  <2>2. d \in Modules /\ program.kind[d] = "lazy" /\ d \in Range(started)
    <3>1. program.kind[d] # "cjs"  BY <1>2, <1>3, <1>4
    <3>. QED  BY <1>2, <1>3, <1>4, <3>1 DEF Covered
  <2>3. CacheKept(program, stack, started, cache)  BY DEF IInv
  <2>4. Running(stack, d)  BY <1>4, <2>2, <2>3 DEF CacheKept
  <2>5. PICK k \in DOMAIN stack : stack[k].module = d /\ stack[k].part = "body"
    BY <2>4 DEF Running
  <2>6. k \in 1 .. Len(stack) - 1
    <3>1. PICK n \in Nat : n = Len(stack) /\ DOMAIN stack = 1 .. n /\ Top = stack[n]
      <4>1. stack \in Seq(Frames)  BY <1>1, Here
      <4>. QED  BY <1>1, <4>1, TopOfStack DEF Top
    <3>2. k # n  BY <2>5, <3>1
    <3>. QED  BY <3>1, <3>2
  <2>7. OnlyCyclesLackNames'
    <3>1. stack' = stack /\ files' = files  BY <2>1 DEF Throw
    <3>2. Step' = Step  BY <3>1 DEF Step, Steps, Top
    <3>3. Step'.expression[2] = d  BY <3>2
    <3>. QED  BY <2>5, <2>6, <3>1, <3>3 DEF OnlyCyclesLackNames
  <2>8. NamesBound'
    <3>1. outcome' = "nothing to bind"  BY <2>1 DEF Throw
    <3>. QED  BY <3>1 DEF NamesBound
  <2>9. "nothing to bind" \in Failure  BY DEF Failure
  <2>. QED  BY <1>1, <2>1, <2>7, <2>8, <2>9, Throws DEF NamesFound
<1>5. CASE ~(binds # {} /\ cache[d] = None)
  <2>1. UNCHANGED <<program, files, outcome, status, cache, started, seen>>
    BY <1>3, <1>5 DEF CallStarted
  <2>2. seen' \in Seq(Value)  BY <2>1 DEF IInv, TypeOK
  <2>3. IsCall(Step.expression) => Covered(program, stack, started, Step.expression[2])
    OBVIOUS
  <2>4. CASE binds = {}
    <3>1. Advance(NoNames, "inner")  BY <1>3, <2>4 DEF CallStarted
    <3>. QED  BY <1>1, <2>1, <2>2, <2>3, <3>1, Advances, NoNamesScope, HomesNoNames
  <2>5. CASE binds # {}
    <3>1. PICK values : values = [n \in binds |-> cache[d][n]]  OBVIOUS
    <3>2. Advance(values, DestructuredIn)  BY <1>3, <1>5, <2>5, <3>1 DEF CallStarted
    <3>3. PICK c : c = cache[d]  OBVIOUS
    <3>4. d \in Modules /\ c # None  BY <1>2, <1>3, <1>5, <2>5, <3>3
    <3>5. c \in Scopes /\ DOMAIN c = FinalExports(program, d) /\ Homes(program, status, c, {"lazy"})
      BY <3>3, <3>4 DEF IInv, TypeOK, CacheKept, FunctionsHome
    <3>6. binds \subseteq DOMAIN c  BY <1>2, <1>3, <2>5, <3>5
    <3>7. PICK C : C \subseteq Names /\ c \in [C -> Value]  BY <3>5 DEF Scopes
    <3>8. values = [n \in binds |-> c[n]]  BY <3>1, <3>3
    <3>9. values \in [binds -> Value] /\ binds \in SUBSET Names
      BY <3>6, <3>7, <3>8
    <3>10. values \in Scopes  BY <3>9 DEF Scopes
    <3>11. Homes(program, status, values, {"lazy"})
      <4>1. \A f \in DOMAIN values : f \in DOMAIN c /\ values[f] = c[f]  BY <3>6, <3>8
      <4>. QED  BY <3>5, <4>1 DEF Homes
    <3>12. Top.module # Driver  BY <1>1, <1>3, <2>5, HereStep
    <3>. QED  BY <1>1, <2>1, <2>2, <2>3, <3>2, <3>10, <3>11, <3>12, Advances
  <2>. QED  BY <2>4, <2>5
<1>. QED  BY <1>4, <1>5

LEMMA SetKept ==
  ASSUME IInv, Set
  PROVE  IInv'
<1>1. PICK x : x = Step.expression[2]  OBVIOUS
<1>2. PICK scope : /\ scope = IF x \in DOMAIN Inner THEN "inner"
                              ELSE IF x \in DOMAIN Top.local THEN "local" ELSE "top"
                   /\ Advance([n \in {x} |-> "set"], scope)
  BY <1>1 DEF Set
<1>3. InCode /\ Step.expression[1] = "set"  BY DEF Set, Does
<1>4. Step.expression \in Expression  BY <1>3, HereStep
<1>5. x \in Variables  BY <1>1, <1>3, <1>4, ExpressionKinds
<1>6. ~IsCall(Step.expression)  BY <1>3 DEF IsCall
<1>7. Top.module # Driver  BY <1>3, <1>6, HereStep
<1>8. PICK values : values = [n \in {x} |-> "set"]  OBVIOUS
<1>9. values \in Scopes
  <2>1. values \in [{x} -> Value]  BY <1>8 DEF Value
  <2>2. {x} \in SUBSET Names  BY <1>5 DEF Names
  <2>. QED  BY <2>1, <2>2 DEF Scopes
<1>10. Homes(program, status, values, {"lazy"})
  <2>1. x \notin DOMAIN Target  BY <1>5, SplitBundleAssumption DEF SplitBundleAssumption
  <2>2. DOMAIN values = {x}  BY <1>8
  <2>. QED  BY <2>1, <2>2 DEF Homes
<1>11. UNCHANGED <<program, files, outcome, status, cache, started, seen>>  BY DEF Set
<1>12. seen' \in Seq(Value)  BY <1>11 DEF IInv, TypeOK
<1>13. Advance(values, scope)  BY <1>2, <1>8
<1>. QED  BY <1>3, <1>6, <1>7, <1>9, <1>10, <1>11, <1>12, <1>13, Advances

(* What a lazy module of a plain renamed bundle looks for is there, or taken by its body. *)
LEMMA NamesOfLazy ==
  ASSUME IInv, program.renamed, NEW m \in Modules, program.kind[m] = "lazy",
         status[m] # "absent",
         \A d \in Modules : \A s \in Range(program.body[d]) : Len(s) = 1
  PROVE  Named(program, m) \subseteq DOMAIN cells[m] \cup File(program, m).local
<1>1. IsProgram(program)
  BY SplitBundleAssumption DEF SplitBundleAssumption, IInv, TypeOK
<1>2. File(program, m).declared \subseteq DOMAIN cells[m]
  <2>1. NamesThere(program, status, cells) /\ program.kind[m] # "cjs"  BY DEF IInv
  <2>. QED  BY <2>1 DEF NamesThere
<1>3. Named(program, m) \subseteq File(program, m).declared \cup File(program, m).local
  BY <1>1, NamesCovered
<1>. QED  BY <1>2, <1>3

(* The module whose body looks for a name, and the name. *)
LEMMA HereName ==
  ASSUME IInv, InCode, ~IsCall(Step.expression), NEW m, m = Top.module
  PROVE  /\ m # Driver /\ m \in Modules /\ program.kind[m] \in {"lazy", "cjs"}
         /\ Step.expression \in Range(Code(program, m))
         /\ Step.expression[2] \in Named(program, m)
         /\ status[m] # "absent"
         /\ File(program, m).local \subseteq DOMAIN Top.local
<1>1. outcome = "run" /\ stack # << >>  BY DEF InCode
<1>2. PICK top \in Frames : top = Top /\ FrameKept(program, stack, status, started, top)
  BY <1>1, Here
<1>3. m # Driver /\ top.part = "body"
  <2>1. top.part \in {"body", "load"}  BY <1>2 DEF Frames
  <2>. QED  BY <1>2, <2>1, HereStep
<1>4. m \in Modules  BY <1>1, <1>3, Here
<1>5. Step.expression \in Range(Code(program, m))  BY <1>2, <1>3, HereStep
<1>6. Step.expression[2] \in Named(program, m)
  <2>1. Step.expression[1] # "call"  BY DEF IsCall
  <2>. QED  BY <1>5, <2>1 DEF Named
<1>7. status[m] # "absent" /\ File(program, m).local \subseteq DOMAIN top.local
  <2>1. LocalsThere(program, status, top)  BY <1>2 DEF FrameKept
  <2>. QED  BY <1>2, <1>3, <2>1 DEF LocalsThere
<1>8. program.kind[m] \in {"lazy", "cjs"}
  <2>1. IsProgram(program)  BY <1>1, Here
  <2>. QED  BY <1>4, <2>1 DEF IsProgram
<1>. QED  BY <1>2, <1>3, <1>4, <1>5, <1>6, <1>7, <1>8

(* The name that the body of a lazy module of a plain renamed bundle looks for is there. *)
LEMMA NameThere ==
  ASSUME IInv, InCode, ~IsCall(Step.expression), program.renamed,
         \A d \in Modules : \A s \in Range(program.body[d]) : Len(s) = 1,
         program.kind[Top.module] # "cjs"
  PROVE  Step.expression[2] \in DOMAIN Scope
<1>1. PICK m : m = Top.module  OBVIOUS
<1>2. /\ m # Driver /\ m \in Modules /\ program.kind[m] \in {"lazy", "cjs"}
      /\ Step.expression[2] \in Named(program, m) /\ status[m] # "absent"
      /\ File(program, m).local \subseteq DOMAIN Top.local
  BY <1>1, HereName
<1>3. Named(program, m) \subseteq DOMAIN cells[m] \cup File(program, m).local
  BY <1>1, <1>2, NamesOfLazy
<1>4. DOMAIN Scope = DOMAIN Inner \cup (DOMAIN Top.local \cup DOMAIN cells[m])
  BY <1>1, <1>2, HereScope
<1>. QED  BY <1>2, <1>3, <1>4

LEMMA UseKept ==
  ASSUME IInv, Use
  PROVE  IInv'
<1>1. PICK x : x = Step.expression[2]  OBVIOUS
<1>2. InCode /\ Step.expression[1] = "use"  BY DEF Use, Does
<1>3. ~IsCall(Step.expression)  BY <1>2 DEF IsCall
<1>4. Top.module # Driver  BY <1>2, <1>3, HereStep
<1>5. CASE x \in DOMAIN Scope
  <2>1. /\ Advance(NoNames, "inner") /\ seen' = Append(seen, Scope[x])
        /\ UNCHANGED <<program, files, outcome, status, cache, started>>
    BY <1>1, <1>5 DEF Use
  <2>2. Scope[x] \in Value
    <3>1. Scope \in Scopes  BY <1>2, <1>4, HereScope
    <3>. QED  BY <1>5, <3>1 DEF Scopes
  <2>3. seen' \in Seq(Value)
    <3>1. seen \in Seq(Value)  BY DEF IInv, TypeOK
    <3>. QED  BY <2>1, <2>2, <3>1, AppendProperties
  <2>. QED  BY <1>2, <1>3, <2>1, <2>3, Advances, NoNamesScope, HomesNoNames
<1>6. CASE x \notin DOMAIN Scope
  <2>1. Throw("unbound")  BY <1>1, <1>6 DEF Use
  <2>2. outcome' = "unbound" /\ program' = program /\ stack' = stack  BY <2>1 DEF Throw
  <2>3. NamesBound'
    <3>1. program.renamed /\ (\A d \in Modules : \A s \in Range(program.body[d]) : Len(s) = 1)
            => program.kind[Top.module] = "cjs"
      BY <1>1, <1>2, <1>3, <1>6, NameThere
    <3>2. Top' = Top  BY <2>2 DEF Top
    <3>. QED  BY <2>2, <3>1, <3>2 DEF NamesBound
  <2>4. OnlyCyclesLackNames'  BY <2>2 DEF OnlyCyclesLackNames
  <2>5. "unbound" \in Failure  BY DEF Failure
  <2>. QED  BY <1>2, <2>1, <2>3, <2>4, <2>5, Throws DEF NamesFound
<1>. QED  BY <1>5, <1>6

LEMMA BumpKept ==
  ASSUME IInv, Bump
  PROVE  IInv'
<1>1. PICK e, f, home, x :
        e = Step.expression /\ f = e[2] /\ home = Scope[f] /\ x = Target[f]
  OBVIOUS
<1>2. InCode /\ e[1] = "bump"  BY <1>1 DEF Bump, Does
<1>3. ~IsCall(Step.expression)  BY <1>1, <1>2 DEF IsCall
<1>4. PICK m : m = Top.module  OBVIOUS
<1>5. /\ m # Driver /\ m \in Modules /\ program.kind[m] \in {"lazy", "cjs"}
      /\ status[m] # "absent"
  BY <1>2, <1>3, <1>4, HereName
<1>6. f \in DOMAIN Target
  <2>1. e \in Expression  BY <1>1, <1>2, HereStep
  <2>. QED  BY <1>1, <1>2, <2>1, ExpressionKinds
<1>7. x \in Variables /\ x \notin DOMAIN Target
  BY <1>1, <1>6, SplitBundleAssumption DEF SplitBundleAssumption
<1>8. Scope \in Scopes /\ Homes(program, status, Scope, KindsIn(program, m))
  BY <1>2, <1>4, <1>5, HereScope
<1>9. f \in DOMAIN Scope /\ home # Undefined =>
        /\ home \in Modules /\ program.kind[home] \in KindsIn(program, m)
        /\ f \in SupportNames(program, home) /\ status[home] # "absent"
  BY <1>1, <1>6, <1>8 DEF Homes
<1>10. ASSUME Throw("unbound"),
              program.renamed /\ (\A d \in Modules : \A s \in Range(program.body[d]) : Len(s) = 1)
                => program.kind[m] = "cjs" \/ TakenByBody
       PROVE  IInv'
  <2>1. outcome' = "unbound" /\ UNCHANGED <<program, files, status, cells, cache, stack, started, seen>>
    BY <1>10 DEF Throw
  <2>2. Top' = Top  BY <2>1 DEF Top
  <2>3. Step' = Step  BY <2>1, <2>2 DEF Step, Steps
  <2>4. Inner' = Inner  BY <2>2, <2>3 DEF Inner
  <2>5. Scope' = Scope  BY <2>1, <2>2, <2>4 DEF Scope
  <2>6. TakenByBody => TakenByBody'  BY <2>1, <2>3, <2>5 DEF TakenByBody
  <2>7. NamesBound'  BY <1>4, <1>10, <2>1, <2>2, <2>6 DEF NamesBound
  <2>8. OnlyCyclesLackNames'  BY <2>1 DEF OnlyCyclesLackNames
  <2>9. "unbound" \in Failure  BY DEF Failure
  <2>. QED  BY <1>2, <1>10, <2>7, <2>8, <2>9, Throws DEF NamesFound
<1>11. CASE f \notin DOMAIN Scope
  <2>1. Throw("unbound")  BY <1>1, <1>11 DEF Bump
  <2>2. program.renamed /\ (\A d \in Modules : \A s \in Range(program.body[d]) : Len(s) = 1)
          => program.kind[m] = "cjs"
    BY <1>1, <1>2, <1>3, <1>4, <1>11, NameThere
  <2>. QED  BY <1>10, <2>1, <2>2
<1>12. CASE f \in DOMAIN Scope /\ home = Undefined
  <2>1. Throw("no function")  BY <1>1, <1>12 DEF Bump
  <2>2. outcome' = "no function"  BY <2>1 DEF Throw
  <2>3. NamesFound'  BY <2>2 DEF NamesFound, OnlyCyclesLackNames, NamesBound
  <2>4. "no function" \in Failure  BY DEF Failure
  <2>. QED  BY <1>2, <2>1, <2>3, <2>4, Throws
<1>13. CASE f \in DOMAIN Scope /\ home # Undefined /\ x \notin DOMAIN cells[home]
  <2>1. Throw("unbound")  BY <1>1, <1>13 DEF Bump
  <2>2. ASSUME program.renamed, \A d \in Modules : \A s \in Range(program.body[d]) : Len(s) = 1,
               program.kind[m] # "cjs"
        PROVE  TakenByBody
    <3>1. home \in Modules /\ program.kind[home] = "lazy" /\ status[home] # "absent"
      BY <1>5, <1>9, <1>13, <2>2 DEF KindsIn
    <3>2. x \in Named(program, home)  BY <1>1, <1>6, <1>9, <1>13 DEF Named
    <3>3. x \in File(program, home).local  BY <1>13, <2>2, <3>1, <3>2, NamesOfLazy
    <3>4. files[home] = File(program, home)
      <4>1. files = Files(program)  BY <1>2, Here DEF InCode
      <4>. QED  BY <3>1, <4>1, FilesOf
    <3>. QED  BY <1>1, <1>2, <1>13, <3>1, <3>3, <3>4 DEF TakenByBody
  <2>. QED  BY <1>10, <2>1, <2>2
<1>14. CASE f \in DOMAIN Scope /\ home # Undefined /\ x \in DOMAIN cells[home]
  <2>1. PICK ce : ce = [cells EXCEPT ![home][x] = "bumped"]  OBVIOUS
  <2>2. /\ stack' = Append(Front(stack), Passed(Inner, Top.local)) /\ cells' = ce
        /\ UNCHANGED <<program, files, outcome, status, cache, started, seen>>
    BY <1>1, <1>14, <2>1 DEF Bump
  <2>3. cells \in [Modules -> Scopes] /\ seen \in Seq(Value)  BY DEF IInv, TypeOK
  <2>4. home \in Modules  BY <1>9, <1>14
  <2>5. PICK own \in Scopes : own = cells[home]  BY <2>3, <2>4
  <2>6. PICK D : D \subseteq Names /\ own \in [D -> Value]  BY <2>5 DEF Scopes
  <2>7. PICK more : more = [own EXCEPT ![x] = "bumped"]  OBVIOUS
  <2>8. more \in [D -> Value] /\ \A n \in D : n # x => more[n] = own[n]
    BY <2>6, <2>7 DEF Value
  <2>9. more \in Scopes /\ DOMAIN more = DOMAIN own  BY <2>6, <2>8 DEF Scopes
  <2>10. \A d \in Modules : ce[d] = IF d = home THEN more ELSE cells[d]
    BY <2>1, <2>3, <2>4, <2>5, <2>7
  <2>11. ce \in [Modules -> Scopes]
    <3>1. ce = [d \in Modules |-> ce[d]]  BY <2>1, <2>3
    <3>2. \A d \in Modules : ce[d] \in Scopes  BY <2>3, <2>9, <2>10
    <3>. QED  BY <3>1, <3>2
  <2>12. ASSUME NEW d \in Modules
         PROVE  /\ DOMAIN cells[d] \subseteq DOMAIN ce[d]
                /\ Homes(program, status, ce[d], KindsIn(program, d))
    <3>1. Homes(program, status, cells[d], KindsIn(program, d))  BY DEF IInv, FunctionsHome
    <3>2. CASE d # home  BY <2>10, <3>1, <3>2
    <3>3. CASE d = home
      <4>1. ce[d] = more  BY <2>10, <3>3
      <4>2. \A n \in DOMAIN more \cap DOMAIN Target : n \in DOMAIN own /\ more[n] = own[n]
        BY <1>7, <2>6, <2>8, <2>9
      <4>3. Homes(program, status, own, KindsIn(program, d))  BY <2>5, <3>1, <3>3
      <4>4. Homes(program, status, more, KindsIn(program, d))  BY <4>2, <4>3 DEF Homes
      <4>. QED  BY <2>5, <2>9, <3>3, <4>1, <4>4
    <3>. QED  BY <3>2, <3>3
  <2>13. /\ Inner \in Scopes /\ Top.local \in Scopes
         /\ Homes(program, status, Inner, {"lazy"}) /\ Homes(program, status, Top.local, {"lazy"})
    BY <1>2, HereScope
  <2>14. seen' \in Seq(Value)  BY <2>2, <2>3
  <2>. QED  BY <1>2, <1>3, <2>2, <2>11, <2>12, <2>13, <2>14, Moves
<1>. QED  BY <1>11, <1>12, <1>13, <1>14

-----------------------------------------------------------------------------
(* Files and bodies *)

(* The driver stays where it is. *)
LEMMA DriverStays ==
  ASSUME NEW u \in Seq(Frames), u # << >>, NEW f \in Frames, NEW s, s = Append(u, f)
  PROVE  /\ DriverFirst("run", s) => DriverFirst("run", u)
         /\ DriverFirst("run", u) /\ f.module # Driver => DriverFirst("run", s)
<1>1. /\ s # << >> /\ \A k \in DOMAIN u : k \in DOMAIN s /\ s[k] = u[k]
      /\ \A k \in DOMAIN s : k \in DOMAIN u \/ k = Len(u) + 1
      /\ s[Len(u) + 1] = f
  BY OnTop
<1>2. 1 \in DOMAIN u  BY EmptySeq
<1>3. s[1] = u[1]  BY <1>1, <1>2
<1>. QED  BY <1>1, <1>2, <1>3 DEF DriverFirst

(* A frame that is new. *)
LEMMA NewFrameKept ==
  ASSUME NEW p, IsProgram(p), NEW m \in Modules, NEW part \in {"body", "load"},
         NEW local \in SUBSET Names, NEW f, f = Frame(m, part, local),
         NEW s, NEW st, NEW b, st[m] # "absent",
         part = "body" => File(p, m).local \subseteq local
  PROVE  FrameKept(p, s, st, b, f)
<1>1. /\ f \in Frames /\ f.module = m /\ f.part = part /\ f.at = 1 /\ DOMAIN f.local = local
      /\ Homes(p, st, f.inner, {"lazy"}) /\ Homes(p, st, f.local, {"lazy"})
  <2>1. m \in Modules \cup {Driver} /\ (part = "body" \/ part = "load") /\ local \subseteq Names
    OBVIOUS
  <2>. QED  BY <2>1, NewFrame
<1>2. m # Driver  BY SplitBundleAssumption DEF SplitBundleAssumption
<1>3. PICK text \in Seq(StepType) : text = Text(p, f)  BY <1>1, <1>2, TextTyped
<1>4. f.at <= Len(text) + 1 /\ \A j \in 1 .. f.at - 1 : FALSE  BY <1>1, <1>3
<1>5. CallsDone(p, s, b, f)  BY <1>3, <1>4 DEF CallsDone
<1>6. LocalsThere(p, st, f)  BY <1>1 DEF LocalsThere
<1>. QED  BY <1>1, <1>5, <1>6 DEF FrameKept

(* An empty file of a CommonJs module is loaded, and the code that calls it goes on. *)
LEMMA LoadEmptyKept ==
  ASSUME IInv, Does("call"), NEW d \in Modules, d = Step.expression[2], status[d] = "absent",
         files[d].empty, LoadEmpty(d)
  PROVE  IInv'
<1>1. InCode /\ outcome = "run" /\ stack # << >>  BY DEF Does, InCode
<1>2. IsProgram(program) /\ files = Files(program)  BY <1>1, Here
<1>3. File(program, d).empty  BY <1>2, FilesOf
<1>4. program.kind[d] \in {"lazy", "cjs"}  BY <1>2 DEF IsProgram
<1>5. CASE program.kind[d] = "lazy"
  <2>1. Throw("no function")  BY <1>5 DEF LoadEmpty
  <2>2. outcome' = "no function"  BY <2>1 DEF Throw
  <2>3. NamesFound'  BY <2>2 DEF NamesFound, OnlyCyclesLackNames, NamesBound
  <2>4. "no function" \in Failure  BY DEF Failure
  <2>. QED  BY <1>1, <2>1, <2>3, <2>4, Throws
<1>6. CASE program.kind[d] = "cjs"
  <2>1. PICK su, i, l : /\ su = [status EXCEPT ![d] = "loaded"]
                        /\ i = Over(NoNames, Inner) /\ l = Top.local
    OBVIOUS
  <2>2. /\ status' = su /\ UNCHANGED <<program, files, outcome, cache, started>>
        /\ Advance(NoNames, "inner") /\ seen' = seen
    BY <1>6, <2>1 DEF LoadEmpty
  <2>3. stack' = Append(Front(stack), Passed(i, l)) /\ cells' = cells
    BY <2>1, <2>2 DEF Advance
  <2>4. /\ status \in [Modules -> {"absent", "loading", "loaded"}]
        /\ cells \in [Modules -> Scopes] /\ seen \in Seq(Value)
    BY DEF IInv, TypeOK
  <2>5. /\ su \in [Modules -> {"absent", "loading", "loaded"}] /\ su[d] = "loaded"
        /\ \A m \in Modules : m # d => su[m] = status[m]
    BY <2>1, <2>4
  <2>6. Later(status, su)  BY <2>5 DEF Later
  <2>7. StartedOnce(stack, su, started)
    <3>1. StartedOnce(stack, status, started)  BY DEF IInv
    <3>2. ~Loading(stack, d) /\ d \notin Range(started)  BY <3>1 DEF StartedOnce
    <3>3. ASSUME NEW m \in Modules
          PROVE  /\ su[m] = "absent" => ~Loading(stack, m) /\ m \notin Range(started)
                 /\ Loading(stack, m) => su[m] = "loading" /\ m \notin Range(started)
                 /\ su[m] = "loading" => Loading(stack, m) \/ m \in Range(started)
                 /\ Running(stack, m) => m \in Range(started)
      <4>1. CASE m = d
        <5>1. Running(stack, m) => m \in Range(started)  BY <3>1 DEF StartedOnce
        <5>. QED  BY <2>5, <3>2, <4>1, <5>1
      <4>2. CASE m # d  BY <2>5, <3>1, <4>2 DEF StartedOnce
      <4>. QED  BY <4>1, <4>2
    <3>4. IsInjective(started) /\ LoadsOnce(stack)  BY <3>1 DEF StartedOnce
    <3>. QED  BY <3>3, <3>4 DEF StartedOnce
  <2>8. NamesThere(program, su, cells)
    <3>1. NamesThere(program, status, cells)  BY DEF IInv
    <3>. QED  BY <1>3, <1>6, <2>5, <3>1 DEF NamesThere
  <2>9. /\ Inner \in Scopes /\ l \in Scopes
        /\ Homes(program, status, Inner, {"lazy"}) /\ Homes(program, status, l, {"lazy"})
    BY <1>1, <2>1, HereScope
  <2>10. i \in Scopes /\ Homes(program, status, i, {"lazy"})
    BY <2>1, <2>9, NoNamesScope, HomesNoNames, OverScopes, HomesOver
  <2>11. \A m \in Modules : /\ DOMAIN cells[m] \subseteq DOMAIN cells[m]
                            /\ Homes(program, status, cells[m], KindsIn(program, m))
    BY DEF IInv, FunctionsHome
  <2>12. Covered(program, stack, started, Step.expression[2])  BY <1>3, <1>6 DEF Covered
  <2>13. DOMAIN Top.local \subseteq DOMAIN l /\ seen' \in Seq(Value)  BY <2>1, <2>2, <2>4
  <2>. QED  BY <1>1, <2>2, <2>3, <2>4, <2>5, <2>6, <2>7, <2>8, <2>9, <2>10, <2>11, <2>12,
               <2>13, MovesLater
<1>. QED  BY <1>4, <1>5, <1>6

(* The file of a module is loaded. *)
LEMMA LoadTextKept ==
  ASSUME IInv, InCode, NEW d \in Modules, status[d] = "absent", ~files[d].empty, LoadText(d)
  PROVE  IInv'
<1>1. outcome = "run" /\ stack # << >>  BY DEF InCode
<1>2. PICK p, s, st, b, file :
        /\ p = program /\ s = stack /\ st = status /\ b = started /\ file = File(p, d)
  OBVIOUS
<1>3. IsProgram(p) /\ files = Files(p) /\ s \in Seq(Frames)  BY <1>1, <1>2, Here
<1>4. files[d] = file  BY <1>2, <1>3, FilesOf
<1>5. PICK su, own, ce, f, t :
        /\ su = [st EXCEPT ![d] = "loading"]
        /\ own = [n \in file.declared |->
                   IF n \in DOMAIN Target \cap SupportNames(p, d) THEN d ELSE Undefined]
        /\ ce = [cells EXCEPT ![d] = own]
        /\ f = Frame(d, "load", {}) /\ t = Append(s, f)
  OBVIOUS
<1>6. /\ status' = su /\ cells' = ce /\ stack' = t
      /\ UNCHANGED <<program, files, outcome, cache, started, seen>>
  BY <1>2, <1>4, <1>5 DEF LoadText
<1>7. /\ program \in Programs /\ status \in [Modules -> {"absent", "loading", "loaded"}]
      /\ cells \in [Modules -> Scopes] /\ cache \in [Modules -> Scopes \cup {None}]
      /\ started \in Seq(Modules) /\ seen \in Seq(Value)
  BY DEF IInv, TypeOK
<1>8. f \in Frames /\ f.module = d /\ f.part = "load"
  <2>1. f = Frame(d, "load", {}) /\ {} \subseteq Names /\ d \in Modules \cup {Driver}  BY <1>5
  <2>. QED  BY <2>1, NewFrame
<1>9. t \in Seq(Frames)  BY <1>3, <1>5, <1>8, OnTop
<1>10. file.declared \subseteq Names  BY <1>2, <1>3, FileShape DEF Shaped
<1>11. own \in Scopes /\ DOMAIN own = file.declared
  <2>1. own \in [file.declared -> Value]  BY <1>5 DEF Value
  <2>. QED  BY <1>10, <2>1 DEF Scopes
<1>12. \A m \in Modules : ce[m] = IF m = d THEN own ELSE cells[m]  BY <1>5, <1>7
<1>13. ce \in [Modules -> Scopes]
  <2>1. ce = [m \in Modules |-> ce[m]]  BY <1>5, <1>7
  <2>2. \A m \in Modules : ce[m] \in Scopes  BY <1>7, <1>11, <1>12
  <2>. QED  BY <2>1, <2>2
<1>14. /\ su \in [Modules -> {"absent", "loading", "loaded"}] /\ su[d] = "loading"
       /\ \A m \in Modules : m # d => su[m] = st[m]
  BY <1>2, <1>5, <1>7
<1>15. Later(st, su)  BY <1>14 DEF Later
<1>16. TypeOK'  BY <1>1, <1>6, <1>7, <1>9, <1>13, <1>14 DEF TypeOK
<1>17. FilesMade'  BY <1>1, <1>2, <1>3, <1>6 DEF FilesMade
<1>18. d # Driver  BY SplitBundleAssumption DEF SplitBundleAssumption
<1>19. DriverFirst("run", t)
  <2>1. DriverFirst("run", s)  BY <1>1, <1>2 DEF IInv
  <2>. QED  BY <1>1, <1>2, <1>3, <1>5, <1>8, <1>18, <2>1, DriverStays
<1>20. \A m : /\ Running(t, m) <=> Running(s, m)
              /\ Loading(t, m) <=> Loading(s, m) \/ m = d
  <2>. SUFFICES ASSUME NEW m
                PROVE  /\ Running(t, m) <=> Running(s, m)
                       /\ Loading(t, m) <=> Loading(s, m) \/ m = d
    OBVIOUS
  <2>1. t = Append(s, f) /\ s \in Seq(Frames)  BY <1>3, <1>5
  <2>2. /\ Running(t, m) <=> Running(s, m) \/ (f.module = m /\ f.part = "body")
        /\ Loading(t, m) <=> Loading(s, m) \/ (f.module = m /\ f.part = "load")
    BY <1>8, <2>1, RunningOnTop
  <2>. QED  BY <1>8, <2>2
<1>21. StartedOnce(t, su, b)
  <2>1. StartedOnce(s, st, b)  BY <1>2 DEF IInv
  <2>. QED  BY <1>2, <1>3, <1>5, <1>7, <1>8, <2>1, StartedLoad
<1>22. CoversMore(p, s, b, t, b)  BY <1>20 DEF CoversMore, Covered
<1>23. CallsCovered(p, t, b, "run")
  <2>1. CallsCovered(p, s, b, "run")  BY <1>1, <1>2 DEF IInv
  <2>. QED  BY <1>20, <1>22, <2>1 DEF CallsCovered, CoversMore
<1>24. CacheKept(p, t, b, cache)
  <2>1. CacheKept(p, s, b, cache)  BY <1>2 DEF IInv
  <2>. QED  BY <1>20, <2>1 DEF CacheKept
<1>25. NamesThere(p, su, ce)
  <2>1. NamesThere(p, st, cells)  BY <1>2 DEF IInv
  <2>2. ~File(p, d).empty  BY <1>2, <1>4
  <2>. QED  BY <1>2, <1>11, <1>12, <1>14, <2>1, <2>2 DEF NamesThere
<1>26. FunctionsHome(p, su, ce, cache)
  <2>1. FunctionsHome(p, st, cells, cache)  BY <1>2 DEF IInv
  <2>2. Homes(p, su, own, KindsIn(p, d))
    <3>1. p.kind[d] \in KindsIn(p, d)
      <4>1. p.kind[d] \in {"lazy", "cjs"}  BY <1>3 DEF IsProgram
      <4>. QED  BY <4>1 DEF KindsIn
    <3>2. \A g \in DOMAIN own \cap DOMAIN Target :
            own[g] # Undefined => own[g] = d /\ g \in SupportNames(p, d)
      BY <1>5
    <3>. QED  BY <1>14, <3>1, <3>2 DEF Homes
  <2>3. ASSUME NEW m \in Modules
        PROVE  /\ Homes(p, su, ce[m], KindsIn(p, m))
               /\ cache[m] # None => Homes(p, su, cache[m], {"lazy"})
    <3>1. Homes(p, st, cells[m], KindsIn(p, m)) /\ (cache[m] # None => Homes(p, st, cache[m], {"lazy"}))
      BY <2>1 DEF FunctionsHome
    <3>2. Homes(p, su, cells[m], KindsIn(p, m)) /\ (cache[m] # None => Homes(p, su, cache[m], {"lazy"}))
      BY <1>15, <3>1 DEF Homes, Later
    <3>. QED  BY <1>12, <2>2, <3>2
  <2>. QED  BY <2>3 DEF FunctionsHome
<1>27. FrameKept(p, t, su, b, f)
  <2>1. su[d] # "absent" /\ {} \in SUBSET Names  BY <1>14
  <2>. QED  BY <1>3, <1>5, <2>1, NewFrameKept
<1>28. FramesKept(p, t, su, b)
  <2>1. FramesKept(p, s, st, b)  BY <1>2 DEF IInv
  <2>. QED  BY <1>3, <1>5, <1>8, <1>15, <1>22, <1>27, <2>1, FramesLater
<1>29. NamesFound'
  <2>1. outcome' = "run"  BY <1>1, <1>6
  <2>. QED  BY <2>1 DEF NamesFound, OnlyCyclesLackNames, NamesBound
<1>30. program' = p /\ outcome' = "run" /\ started' = b /\ cache' = cache
  BY <1>1, <1>2, <1>6
<1>. QED  BY <1>6, <1>16, <1>17, <1>19, <1>21, <1>23, <1>24, <1>25, <1>26, <1>28, <1>29, <1>30 DEF IInv

LEMMA LoadKept ==
  ASSUME IInv, Does("call"), NEW d \in Modules, d = Step.expression[2], status[d] = "absent",
         Load(d)
  PROVE  IInv'
<1>1. InCode  BY DEF Does
<1>2. CASE files[d].empty
  <2>1. LoadEmpty(d)  BY <1>2 DEF Load
  <2>. QED  BY <1>2, <2>1, LoadEmptyKept
<1>3. CASE ~files[d].empty /\ files[d].twice
  <2>1. Throw("no code")  BY <1>3 DEF Load
  <2>2. outcome' = "no code"  BY <2>1 DEF Throw
  <2>3. NamesFound'  BY <2>2 DEF NamesFound, OnlyCyclesLackNames, NamesBound
  <2>4. "no code" \in Failure  BY DEF Failure
  <2>. QED  BY <1>1, <2>1, <2>3, <2>4, Throws
<1>4. CASE ~files[d].empty /\ ~files[d].twice
  <2>1. LoadText(d)  BY <1>4 DEF Load
  <2>. QED  BY <1>1, <1>4, <2>1, LoadTextKept
<1>. QED  BY <1>2, <1>3, <1>4

(* The body of a module is started. *)
LEMMA StartKept ==
  ASSUME IInv, InCode, NEW d \in Modules, status[d] = "loaded", ~Initialised(d), Start(d)
  PROVE  IInv'
<1>1. outcome = "run" /\ stack # << >>  BY DEF InCode
<1>2. PICK p, s, st, b, file, f, t, c :
        /\ p = program /\ s = stack /\ st = status /\ b = started /\ file = File(p, d)
        /\ f = Frame(d, "body", file.local) /\ t = Append(s, f) /\ c = Append(b, d)
  OBVIOUS
<1>3. IsProgram(p) /\ files = Files(p) /\ s \in Seq(Frames)  BY <1>1, <1>2, Here
<1>4. files[d] = file  BY <1>2, <1>3, FilesOf
<1>5. /\ stack' = t /\ started' = c
      /\ UNCHANGED <<program, files, outcome, status, cells, cache, seen>>
  BY <1>2, <1>4 DEF Start
<1>6. /\ program \in Programs /\ status \in [Modules -> {"absent", "loading", "loaded"}]
      /\ cells \in [Modules -> Scopes] /\ cache \in [Modules -> Scopes \cup {None}]
      /\ b \in Seq(Modules) /\ seen \in Seq(Value)
  BY <1>2 DEF IInv, TypeOK
<1>7. file.local \in SUBSET Names  BY <1>2, <1>3, FileShape DEF Shaped
<1>8. f \in Frames /\ f.module = d /\ f.part = "body"
  <2>1. f = Frame(d, "body", file.local) /\ d \in Modules \cup {Driver}  BY <1>2
  <2>2. file.local \subseteq Names  BY <1>7
  <2>. QED  BY <2>1, <2>2, NewFrame
<1>9. t \in Seq(Frames)  BY <1>2, <1>3, <1>8, OnTop
<1>10. d \notin Range(b) /\ c \in Seq(Modules) /\ Range(c) = Range(b) \cup {d}
  BY <1>2, <1>6, StartedMore DEF Initialised
<1>11. TypeOK'  BY <1>1, <1>5, <1>6, <1>9, <1>10 DEF TypeOK
<1>12. FilesMade'  BY <1>1, <1>2, <1>3, <1>5 DEF FilesMade
<1>13. DriverFirst("run", t)
  <2>1. DriverFirst("run", s)  BY <1>1, <1>2 DEF IInv
  <2>2. d # Driver  BY SplitBundleAssumption DEF SplitBundleAssumption
  <2>. QED  BY <1>1, <1>2, <1>3, <1>8, <2>1, <2>2, DriverStays
<1>14. \A m : /\ Running(t, m) <=> Running(s, m) \/ m = d
              /\ Loading(t, m) <=> Loading(s, m)
  <2>. SUFFICES ASSUME NEW m
                PROVE  /\ Running(t, m) <=> Running(s, m) \/ m = d
                       /\ Loading(t, m) <=> Loading(s, m)
    OBVIOUS
  <2>1. t = Append(s, f) /\ s \in Seq(Frames)  BY <1>2, <1>3
  <2>2. /\ Running(t, m) <=> Running(s, m) \/ (f.module = m /\ f.part = "body")
        /\ Loading(t, m) <=> Loading(s, m) \/ (f.module = m /\ f.part = "load")
    BY <1>8, <2>1, RunningOnTop
  <2>. QED  BY <1>8, <2>2
<1>15. StartedOnce(t, st, c)
  <2>1. StartedOnce(s, st, b)  BY <1>2 DEF IInv
  <2>. QED  BY <1>2, <1>3, <1>6, <1>8, <1>10, <2>1, StartedStart
<1>16. CoversMore(p, s, b, t, c)  BY <1>10, <1>14 DEF CoversMore, Covered
<1>17. CallsCovered(p, t, c, "run")
  <2>1. CallsCovered(p, s, b, "run")  BY <1>1, <1>2 DEF IInv
  <2>. QED  BY <1>10, <1>14, <1>16, <2>1 DEF CallsCovered, CoversMore
<1>18. CacheKept(p, t, c, cache)
  <2>1. CacheKept(p, s, b, cache)  BY <1>2 DEF IInv
  <2>. QED  BY <1>10, <1>14, <2>1 DEF CacheKept
<1>19. NamesThere(p, st, cells) /\ FunctionsHome(p, st, cells, cache)  BY <1>2 DEF IInv
<1>20. FrameKept(p, t, st, c, f)
  <2>1. st[d] # "absent"  BY <1>2
  <2>. QED  BY <1>2, <1>3, <1>7, <2>1, NewFrameKept
<1>21. FramesKept(p, t, st, c)
  <2>1. FramesKept(p, s, st, b) /\ Later(st, st)  BY <1>2 DEF IInv, Later
  <2>2. t = Append(s, f) /\ s \in Seq(Frames)  BY <1>2, <1>3
  <2>. QED  BY <1>8, <1>16, <1>20, <2>1, <2>2, FramesLater
<1>22. NamesFound'
  <2>1. outcome' = "run"  BY <1>1, <1>5
  <2>. QED  BY <2>1 DEF NamesFound, OnlyCyclesLackNames, NamesBound
<1>23. program' = p /\ outcome' = "run" /\ status' = st /\ cells' = cells /\ cache' = cache
  BY <1>1, <1>2, <1>5
<1>. QED  BY <1>5, <1>11, <1>12, <1>13, <1>15, <1>17, <1>18, <1>19, <1>21, <1>22, <1>23 DEF IInv

LEMMA CallKept ==
  ASSUME IInv, Call
  PROVE  IInv'
<1>1. PICK d : d = Step.expression[2]  OBVIOUS
<1>2. Does("call") /\ InCode /\ Step.expression[1] = "call"  BY DEF Call, Does
<1>3. d \in Modules
  <2>1. Step.expression \in Expression  BY <1>2, HereStep
  <2>. QED  BY <1>1, <1>2, <2>1, ExpressionKinds
<1>4. status[d] \in {"absent", "loading", "loaded"} /\ program.kind[d] \in {"lazy", "cjs"}
  <2>1. IsProgram(program)
    BY SplitBundleAssumption DEF SplitBundleAssumption, IInv, TypeOK
  <2>2. status \in [Modules -> {"absent", "loading", "loaded"}]  BY DEF IInv, TypeOK
  <2>. QED  BY <1>3, <2>1, <2>2 DEF IsProgram
<1>5. ASSUME NEW why \in {"own wrapper", "not loaded"}, Throw(why) PROVE IInv'
  <2>1. outcome' = why  BY <1>5 DEF Throw
  <2>2. NamesFound'  BY <2>1 DEF NamesFound, OnlyCyclesLackNames, NamesBound
  <2>3. why \in Failure  BY DEF Failure
  <2>. QED  BY <1>2, <1>5, <2>2, <2>3, Throws
<1>6. CASE d = Top.module
  <2>1. Throw("own wrapper")  BY <1>1, <1>6 DEF Call
  <2>. QED  BY <1>5, <2>1
<1>7. CASE d # Top.module /\ status[d] = "absent"
  <2>1. Load(d)  BY <1>1, <1>7 DEF Call
  <2>. QED  BY <1>1, <1>2, <1>3, <1>7, <2>1, LoadKept
<1>8. CASE d # Top.module /\ status[d] = "loading" /\ program.kind[d] = "lazy"
  <2>1. Throw("not loaded")  BY <1>1, <1>8 DEF Call
  <2>. QED  BY <1>5, <2>1
<1>9. CASE d # Top.module /\ status[d] = "loading" /\ program.kind[d] = "cjs"
  <2>1. CallStarted(d)  BY <1>1, <1>9 DEF Call
  <2>2. Covered(program, stack, started, d)
    <3>1. StartedOnce(stack, status, started)  BY DEF IInv
    <3>. QED  BY <1>3, <1>9, <3>1 DEF StartedOnce, Covered
  <2>. QED  BY <1>1, <1>2, <1>9, <2>1, <2>2, CallStartedKept
<1>10. CASE d # Top.module /\ status[d] = "loaded" /\ ~(Initialised(d) \/ files[d].empty)
  <2>1. Start(d)  BY <1>1, <1>10 DEF Call
  <2>. QED  BY <1>2, <1>3, <1>10, <2>1, StartKept
<1>11. CASE d # Top.module /\ status[d] = "loaded" /\ (Initialised(d) \/ files[d].empty)
  <2>1. CallStarted(d)  BY <1>1, <1>11 DEF Call
  <2>2. Covered(program, stack, started, d)
    <3>1. CASE Initialised(d)  BY <3>1 DEF Initialised, Covered
    <3>2. CASE files[d].empty
      <4>1. File(program, d).empty
        <5>1. outcome = "run" /\ stack # << >>  BY <1>2 DEF InCode
        <5>. QED  BY <1>3, <3>2, <5>1, Here, FilesOf
      <4>2. NamesThere(program, status, cells)  BY DEF IInv
      <4>3. program.kind[d] = "cjs"  BY <1>3, <1>11, <4>1, <4>2 DEF NamesThere
      <4>. QED  BY <4>1, <4>3 DEF Covered
    <3>. QED  BY <1>11, <3>1, <3>2
  <2>. QED  BY <1>1, <1>2, <1>11, <2>1, <2>2, CallStartedKept
<1>. QED  BY <1>4, <1>6, <1>7, <1>8, <1>9, <1>10, <1>11

(* What is known at the end of a file's statements or of a body. *)
LEMMA AtItsEnd ==
  ASSUME IInv, AtEnd
  PROVE  /\ outcome = "run" /\ stack # << >> /\ Top.at \in Nat
         /\ Len(Text(program, Top)) \in Nat /\ Top.at = Len(Text(program, Top)) + 1
<1>1. outcome = "run" /\ stack # << >> /\ Top.at > Len(Steps(Top))  BY DEF AtEnd
<1>2. PICK top \in Frames :
        /\ top = Top /\ Steps(Top) = Text(program, top) /\ IsProgram(program)
        /\ FrameKept(program, stack, status, started, top)
        /\ top.module = Driver => top.part = "body"
  BY <1>1, Here
<1>3. PICK text \in Seq(StepType) : text = Text(program, top)  BY <1>2, TextTyped
<1>4. PICK n \in Nat : n = Len(text)  OBVIOUS
<1>5. PICK at \in Nat : at = top.at  BY <1>2 DEF Frames
<1>6. at <= n + 1
  <2>1. CallsDone(program, stack, started, top)  BY <1>2 DEF FrameKept
  <2>. QED  BY <1>3, <1>4, <1>5, <2>1 DEF CallsDone
<1>. QED  BY <1>1, <1>2, <1>3, <1>4, <1>5, <1>6

(* The body of a module goes on where its CommonJs file is loaded. *)
LEMMA TurnedKept ==
  ASSUME IInv, Loaded, program.kind[Top.module] # "lazy"
  PROVE  IInv'
<1>1. AtEnd /\ Top.part = "load"  BY DEF Loaded
<1>2. outcome = "run" /\ stack # << >>  BY <1>1, AtItsEnd
<1>3. PICK p, s, u, top, st, b :
        /\ p = program /\ s = stack /\ u = Front(stack) /\ top = Top /\ st = status /\ b = started
  OBVIOUS
<1>4. /\ IsProgram(p) /\ files = Files(p) /\ s \in Seq(Frames) /\ u \in Seq(Frames)
      /\ top \in Frames /\ s = Append(u, top)
      /\ \A k \in DOMAIN u : k \in DOMAIN s /\ u[k] = s[k]
      /\ FrameKept(p, s, st, b, top)
      /\ top.module # Driver /\ top.module \in Modules /\ u # << >>
  BY <1>1, <1>2, <1>3, Here
<1>5. PICK m \in Modules : m = top.module  BY <1>4
<1>6. p.kind[m] # "lazy" /\ m # Driver  BY <1>3, <1>4, <1>5
<1>7. PICK f, t, c : f = Frame(m, "body", {}) /\ t = Append(u, f) /\ c = Append(b, m)
  OBVIOUS
<1>8. /\ stack' = t /\ started' = c
      /\ UNCHANGED <<program, files, outcome, status, cells, cache, seen>>
  BY <1>3, <1>5, <1>6, <1>7 DEF Loaded
<1>9. /\ program \in Programs /\ status \in [Modules -> {"absent", "loading", "loaded"}]
      /\ cells \in [Modules -> Scopes] /\ cache \in [Modules -> Scopes \cup {None}]
      /\ b \in Seq(Modules) /\ seen \in Seq(Value)
  BY <1>3 DEF IInv, TypeOK
<1>10. f \in Frames /\ f.module = m /\ f.part = "body"
  <2>1. f = Frame(m, "body", {}) /\ m \in Modules \cup {Driver} /\ {} \subseteq Names  BY <1>7
  <2>. QED  BY <2>1, NewFrame
<1>11. t \in Seq(Frames)  BY <1>4, <1>7, <1>10, OnTop
<1>12. c \in Seq(Modules) /\ Range(c) = Range(b) \cup {m}  BY <1>7, <1>9, StartedMore
<1>13. TypeOK'  BY <1>2, <1>8, <1>9, <1>11, <1>12 DEF TypeOK
<1>14. FilesMade'  BY <1>2, <1>3, <1>4, <1>8 DEF FilesMade
<1>15. DriverFirst("run", t)
  <2>1. DriverFirst("run", s)  BY <1>2, <1>3 DEF IInv
  <2>2. DriverFirst("run", u)  BY <1>4, <2>1, DriverStays
  <2>. QED  BY <1>4, <1>6, <1>7, <1>10, <2>2, DriverStays
<1>16. \A d : /\ Running(s, d) <=> Running(u, d)
              /\ Loading(s, d) <=> Loading(u, d) \/ d = m
              /\ Running(t, d) <=> Running(u, d) \/ d = m
              /\ Loading(t, d) <=> Loading(u, d)
  <2>. SUFFICES ASSUME NEW d
                PROVE  /\ Running(s, d) <=> Running(u, d)
                       /\ Loading(s, d) <=> Loading(u, d) \/ d = m
                       /\ Running(t, d) <=> Running(u, d) \/ d = m
                       /\ Loading(t, d) <=> Loading(u, d)
    OBVIOUS
  <2>1. t = Append(u, f) /\ s = Append(u, top) /\ u \in Seq(Frames) /\ top \in Frames
    BY <1>4, <1>7
  <2>2. /\ Running(t, d) <=> Running(u, d) \/ (f.module = d /\ f.part = "body")
        /\ Loading(t, d) <=> Loading(u, d) \/ (f.module = d /\ f.part = "load")
    BY <1>10, <2>1, RunningOnTop
  <2>3. /\ Running(s, d) <=> Running(u, d) \/ (top.module = d /\ top.part = "body")
        /\ Loading(s, d) <=> Loading(u, d) \/ (top.module = d /\ top.part = "load")
    BY <2>1, RunningOnTop
  <2>. QED  BY <1>1, <1>3, <1>5, <1>10, <2>2, <2>3
<1>17. StartedOnce(t, st, c)
  <2>1. StartedOnce(s, st, b)  BY <1>3 DEF IInv
  <2>2. t = Append(u, f) /\ s = Append(u, top) /\ top.part = "load" /\ c = Append(b, m)
    BY <1>1, <1>3, <1>4, <1>7
  <2>. QED  BY <1>4, <1>5, <1>9, <1>10, <2>1, <2>2, StartedTurned
<1>18. CoversMore(p, s, b, t, c)  BY <1>12, <1>16 DEF CoversMore, Covered
<1>19. CallsCovered(p, t, c, "run")
  <2>1. CallsCovered(p, s, b, "run")  BY <1>2, <1>3 DEF IInv
  <2>. QED  BY <1>12, <1>16, <1>18, <2>1 DEF CallsCovered, CoversMore
<1>20. CacheKept(p, t, c, cache)
  <2>1. CacheKept(p, s, b, cache)  BY <1>3 DEF IInv
  <2>. QED  BY <1>6, <1>12, <1>16, <2>1 DEF CacheKept
<1>21. NamesThere(p, st, cells) /\ FunctionsHome(p, st, cells, cache)  BY <1>3 DEF IInv
<1>22. FrameKept(p, t, st, c, f)
  <2>1. st[m] # "absent"
    <3>1. LocalsThere(p, st, top)  BY <1>4 DEF FrameKept
    <3>. QED  BY <1>5, <1>6, <3>1 DEF LocalsThere
  <2>2. File(p, m).local \subseteq {}
    <3>1. Shaped(p, m, File(p, m))  BY <1>4, FileShape
    <3>. QED  BY <1>6, <3>1 DEF Shaped
  <2>3. {} \in SUBSET Names  OBVIOUS
  <2>. QED  BY <1>4, <1>7, <2>1, <2>2, <2>3, NewFrameKept
<1>23. FramesKept(p, t, st, c)
  <2>1. FramesKept(p, s, st, b) /\ Later(st, st)  BY <1>3 DEF IInv, Later
  <2>2. /\ t = Append(u, f) /\ s \in Seq(Frames) /\ u \in Seq(Frames)
        /\ \A k \in DOMAIN u : k \in DOMAIN s /\ u[k] = s[k]
    BY <1>4, <1>7
  <2>. QED  BY <1>10, <1>18, <1>22, <2>1, <2>2, FramesLater
<1>24. NamesFound'
  <2>1. outcome' = "run"  BY <1>2, <1>8
  <2>. QED  BY <2>1 DEF NamesFound, OnlyCyclesLackNames, NamesBound
<1>25. program' = p /\ outcome' = "run" /\ status' = st /\ cells' = cells /\ cache' = cache
  BY <1>2, <1>3, <1>8
<1>. QED  BY <1>8, <1>13, <1>14, <1>15, <1>17, <1>19, <1>20, <1>21, <1>23, <1>24, <1>25 DEF IInv

(* The code of a module is left: its file is loaded.  A body leaves its exports. *)
LEMMA PoppedKept ==
  ASSUME IInv, AtEnd, Top.module # Driver,
         Top.part = "load" => program.kind[Top.module] = "lazy",
         stack' = Front(stack), status' = [status EXCEPT ![Top.module] = "loaded"],
         cache' = IF Top.part = "body" /\ program.kind[Top.module] = "lazy"
                  THEN [cache EXCEPT ![Top.module] = [n \in files[Top.module].exports |->
                          Over(Top.local, cells[Top.module])[n]]]
                  ELSE cache,
         UNCHANGED <<program, files, outcome, cells, started, seen>>
  PROVE  IInv'
<1>1. outcome = "run" /\ stack # << >>  BY AtItsEnd
<1>2. PICK p, s, u, top, st, b :
        /\ p = program /\ s = stack /\ u = Front(stack) /\ top = Top /\ st = status /\ b = started
  OBVIOUS
<1>3. /\ IsProgram(p) /\ files = Files(p) /\ s \in Seq(Frames) /\ u \in Seq(Frames)
      /\ top \in Frames /\ s = Append(u, top)
      /\ \A k \in DOMAIN u : k \in DOMAIN s /\ u[k] = s[k]
      /\ FrameKept(p, s, st, b, top)
      /\ top.module \in Modules /\ u # << >>
  BY <1>1, <1>2, Here
<1>4. PICK m \in Modules : m = top.module  BY <1>3
<1>5. top.part \in {"body", "load"} /\ p.kind[m] \in {"lazy", "cjs"}
  <2>1. top.part \in {"body", "load"}  BY <1>3 DEF Frames
  <2>2. p.kind[m] \in {"lazy", "cjs"}  BY <1>3 DEF IsProgram
  <2>. QED  BY <2>1, <2>2
<1>6. top.part = "load" => p.kind[m] = "lazy"  BY <1>2, <1>4
<1>7. PICK su : su = [st EXCEPT ![m] = "loaded"]  OBVIOUS
<1>8. PICK ca : ca = cache'  OBVIOUS
<1>9. stack' = u /\ status' = su  BY <1>2, <1>4, <1>7
<1>10. /\ program \in Programs /\ st \in [Modules -> {"absent", "loading", "loaded"}]
       /\ cells \in [Modules -> Scopes] /\ cache \in [Modules -> Scopes \cup {None}]
       /\ b \in Seq(Modules) /\ seen \in Seq(Value)
  BY <1>2 DEF IInv, TypeOK
<1>11. /\ su \in [Modules -> {"absent", "loading", "loaded"}]
       /\ \A d \in Modules : su[d] = IF d = m THEN "loaded" ELSE st[d]
  BY <1>7, <1>10
<1>12. Later(st, su)  BY <1>11 DEF Later
<1>13. st[m] # "absent" /\ m # Driver
  <2>1. LocalsThere(p, st, top)  BY <1>3 DEF FrameKept
  <2>. QED  BY <1>2, <1>4, <2>1 DEF LocalsThere
<1>14. /\ top.local \in Scopes /\ cells[m] \in Scopes
       /\ Homes(p, st, top.local, {"lazy"}) /\ Homes(p, st, cells[m], KindsIn(p, m))
       /\ p.kind[m] = "lazy" => File(p, m).declared \subseteq DOMAIN cells[m]
  <2>1. top.local \in Scopes  BY <1>3 DEF Frames
  <2>2. Homes(p, st, top.local, {"lazy"})  BY <1>3 DEF FrameKept
  <2>3. FunctionsHome(p, st, cells, cache) /\ NamesThere(p, st, cells)  BY <1>2 DEF IInv
  <2>4. Homes(p, st, cells[m], KindsIn(p, m))  BY <2>3 DEF FunctionsHome
  <2>5. p.kind[m] = "lazy" => File(p, m).declared \subseteq DOMAIN cells[m]
    <3>1. p.kind[m] = "lazy" => p.kind[m] # "cjs"  OBVIOUS
    <3>. QED  BY <1>13, <2>3, <3>1 DEF NamesThere
  <2>. QED  BY <1>10, <2>1, <2>2, <2>4, <2>5
(* What the body leaves. *)
<1>15. PICK left : left = [n \in FinalExports(p, m) |-> Over(top.local, cells[m])[n]]  OBVIOUS
<1>16. ASSUME p.kind[m] = "lazy"
       PROVE  /\ left \in Scopes /\ DOMAIN left = FinalExports(p, m)
              /\ Homes(p, st, left, {"lazy"})
  <2>1. PICK scope : scope = Over(top.local, cells[m])  OBVIOUS
  <2>2. KindsIn(p, m) = {"lazy"}  BY <1>16 DEF KindsIn
  <2>3. scope \in Scopes /\ DOMAIN scope = DOMAIN top.local \cup DOMAIN cells[m]
    BY <1>14, <2>1, OverScopes
  <2>4. Homes(p, st, scope, {"lazy"})
    <3>1. Homes(p, st, cells[m], {"lazy"})  BY <1>14, <2>2
    <3>. QED  BY <1>14, <2>1, <3>1, HomesOver
  <2>5. Shaped(p, m, File(p, m))  BY <1>3, FileShape
  <2>6. FinalExports(p, m) \subseteq DOMAIN scope  BY <1>14, <1>16, <2>3, <2>5 DEF Shaped
  <2>7. FinalExports(p, m) \in SUBSET Names  BY <1>3, NamesTyped
  <2>8. left = [n \in FinalExports(p, m) |-> scope[n]]  BY <1>15, <2>1
  <2>9. \A n \in FinalExports(p, m) : scope[n] \in Value  BY <2>3, <2>6 DEF Scopes
  <2>10. left \in [FinalExports(p, m) -> Value]  BY <2>8, <2>9
  <2>11. left \in Scopes  BY <2>7, <2>10 DEF Scopes
  <2>12. \A f \in DOMAIN left : f \in DOMAIN scope /\ left[f] = scope[f]  BY <2>6, <2>8
  <2>13. Homes(p, st, left, {"lazy"})  BY <2>4, <2>12 DEF Homes
  <2>. QED  BY <2>8, <2>11, <2>13
<1>17. \A d \in Modules : ca[d] =
         IF d = m /\ top.part = "body" /\ p.kind[m] = "lazy" THEN left ELSE cache[d]
  <2>1. files[m].exports = FinalExports(p, m)
    <3>1. files[m] = File(p, m)  BY <1>3, FilesOf
    <3>2. Shaped(p, m, File(p, m))  BY <1>3, FileShape
    <3>. QED  BY <3>1, <3>2 DEF Shaped
  <2>2. ca = IF top.part = "body" /\ p.kind[m] = "lazy" THEN [cache EXCEPT ![m] = left] ELSE cache
    BY <1>2, <1>4, <1>8, <1>15, <2>1
  <2>. QED  BY <1>10, <2>2
<1>18. ca \in [Modules -> Scopes \cup {None}]
  <2>1. ca = [d \in Modules |-> ca[d]]
    <3>1. PICK e : e = [n \in files[Top.module].exports |-> Over(Top.local, cells[Top.module])[n]]
      OBVIOUS
    <3>2. ca = [cache EXCEPT ![Top.module] = e] \/ ca = cache  BY <1>8, <3>1
    <3>3. PICK e2 : e2 = [cache EXCEPT ![Top.module] = e]  OBVIOUS
    <3>4. e2 = [d \in Modules |-> e2[d]] /\ cache = [d \in Modules |-> cache[d]]
      BY <1>10, <3>3
    <3>. QED  BY <3>2, <3>3, <3>4
  <2>2. \A d \in Modules : ca[d] \in Scopes \cup {None}
    <3>1. \A d \in Modules : cache[d] \in Scopes \cup {None}  BY <1>10
    <3>. QED  BY <1>16, <1>17, <3>1
  <2>. QED  BY <2>1, <2>2
<1>19. TypeOK'  BY <1>1, <1>3, <1>8, <1>9, <1>10, <1>11, <1>18, <1>2 DEF TypeOK
<1>20. FilesMade'  BY <1>1, <1>2, <1>3 DEF FilesMade
<1>21. DriverFirst("run", u)
  <2>1. DriverFirst("run", s)  BY <1>1, <1>2 DEF IInv
  <2>. QED  BY <1>3, <2>1, DriverStays
<1>22. \A d : /\ Running(s, d) <=> Running(u, d) \/ (d = m /\ top.part = "body")
              /\ Loading(s, d) <=> Loading(u, d) \/ (d = m /\ top.part = "load")
  <2>. SUFFICES ASSUME NEW d
                PROVE  /\ Running(s, d) <=> Running(u, d) \/ (d = m /\ top.part = "body")
                       /\ Loading(s, d) <=> Loading(u, d) \/ (d = m /\ top.part = "load")
    OBVIOUS
  <2>1. s = Append(u, top) /\ u \in Seq(Frames) /\ top \in Frames  BY <1>3
  <2>2. /\ Running(s, d) <=> Running(u, d) \/ (top.module = d /\ top.part = "body")
        /\ Loading(s, d) <=> Loading(u, d) \/ (top.module = d /\ top.part = "load")
    BY <2>1, RunningOnTop
  <2>. QED  BY <1>4, <2>2
<1>23. StartedOnce(u, su, b)
  <2>1. StartedOnce(s, st, b)  BY <1>2 DEF IInv
  <2>2. s = Append(u, top) /\ u \in Seq(Frames) /\ top \in Frames  BY <1>3
  <2>. QED  BY <1>4, <1>7, <1>10, <2>1, <2>2, StartedPopped
<1>24. CoversMore(p, s, b, u, b)
  <2>1. top.part = "load" => p.kind[m] # "cjs"  BY <1>6
  <2>. QED  BY <1>22, <2>1 DEF CoversMore, Covered
<1>25. top.part = "body" => \A d \in Calls(p, m) : Covered(p, s, b, d)
  <2>. SUFFICES ASSUME top.part = "body", NEW d \in Calls(p, m) PROVE Covered(p, s, b, d)
    OBVIOUS
  <2>1. Shaped(p, m, File(p, m))  BY <1>3, FileShape
  <2>2. PICK text \in Seq(StepType) : text = File(p, m).steps /\ text = Text(p, top)
    <3>1. Text(p, top) = File(p, m).steps  BY <1>4, FilesOf DEF Text
    <3>. QED  BY <2>1, <3>1 DEF Shaped
  <2>3. PICK step \in Range(text) : IsCall(step.expression) /\ step.expression[2] = d
    BY <2>1, <2>2 DEF Shaped
  <2>4. PICK n \in Nat : n = Len(text) /\ DOMAIN text = 1 .. n  OBVIOUS
  <2>5. PICK j \in 1 .. n : text[j] = step  BY <2>3, <2>4 DEF Range
  <2>6. top.at = n + 1  BY <1>2, <2>2, <2>4, AtItsEnd
  <2>7. j \in 1 .. top.at - 1  BY <2>4, <2>6
  <2>8. CallsDone(p, s, b, top)  BY <1>3 DEF FrameKept
  <2>. QED  BY <2>2, <2>3, <2>5, <2>7, <2>8 DEF CallsDone
<1>26. CallsCovered(p, u, b, "run")
  <2>1. CallsCovered(p, s, b, "run")  BY <1>1, <1>2 DEF IInv
  <2>2. ASSUME NEW d \in Range(b)
        PROVE  Running(u, d) \/ \A e \in Calls(p, d) : Covered(p, u, b, e)
    <3>1. Running(s, d) \/ \A e \in Calls(p, d) : Covered(p, s, b, e)  BY <2>1 DEF CallsCovered
    <3>2. Running(s, d) => Running(u, d) \/ \A e \in Calls(p, d) : Covered(p, s, b, e)
      BY <1>22, <1>25
    <3>. QED  BY <1>24, <3>1, <3>2 DEF CoversMore
  <2>. QED  BY <2>2 DEF CallsCovered
<1>27. CacheKept(p, u, b, ca)
  <2>1. CacheKept(p, s, b, cache)  BY <1>2 DEF IInv
  <2>2. ASSUME NEW d \in Modules
        PROVE  /\ d \in Range(b) /\ p.kind[d] = "lazy" => ca[d] # None \/ Running(u, d)
               /\ ca[d] # None => DOMAIN ca[d] = FinalExports(p, d)
    <3>1. /\ d \in Range(b) /\ p.kind[d] = "lazy" => cache[d] # None \/ Running(s, d)
          /\ cache[d] # None => DOMAIN cache[d] = FinalExports(p, d)
      BY <2>1 DEF CacheKept
    <3>2. CASE d = m /\ top.part = "body" /\ p.kind[m] = "lazy"
      <4>1. ca[d] = left  BY <1>17, <3>2
      <4>2. left # None  BY <1>16, <3>2, SplitBundleAssumption DEF SplitBundleAssumption
      <4>. QED  BY <1>16, <3>2, <4>1, <4>2
    <3>3. CASE ~(d = m /\ top.part = "body" /\ p.kind[m] = "lazy")
      <4>1. ca[d] = cache[d]  BY <1>17, <3>3
      <4>2. p.kind[d] = "lazy" /\ Running(s, d) => Running(u, d)  BY <1>22, <3>3
      <4>. QED  BY <3>1, <4>1, <4>2
    <3>. QED  BY <3>2, <3>3
  <2>. QED  BY <2>2 DEF CacheKept
<1>28. NamesThere(p, su, cells)
  <2>1. NamesThere(p, st, cells)  BY <1>2 DEF IInv
  <2>. QED  BY <1>11, <1>13, <2>1 DEF NamesThere
<1>29. FunctionsHome(p, su, cells, ca)
  <2>1. FunctionsHome(p, st, cells, cache)  BY <1>2 DEF IInv
  <2>2. ASSUME NEW d \in Modules
        PROVE  /\ Homes(p, su, cells[d], KindsIn(p, d))
               /\ ca[d] # None => Homes(p, su, ca[d], {"lazy"})
    <3>1. Homes(p, st, cells[d], KindsIn(p, d)) /\ (cache[d] # None => Homes(p, st, cache[d], {"lazy"}))
      BY <2>1 DEF FunctionsHome
    <3>2. \A scope, kinds : Homes(p, st, scope, kinds) => Homes(p, su, scope, kinds)
      BY <1>12 DEF Homes, Later
    <3>3. ca[d] = cache[d] \/ (ca[d] = left /\ p.kind[m] = "lazy")  BY <1>17
    <3>4. ca[d] # None => Homes(p, st, ca[d], {"lazy"})  BY <1>16, <3>1, <3>3
    <3>. QED  BY <3>1, <3>2, <3>4
  <2>. QED  BY <2>2 DEF FunctionsHome
<1>30. FramesKept(p, u, su, b)
  <2>1. FramesKept(p, s, st, b)  BY <1>2 DEF IInv
  <2>. QED  BY <1>3, <1>12, <1>24, <2>1, FramesLater
<1>31. NamesFound'
  <2>1. outcome' = "run"  BY <1>1
  <2>. QED  BY <2>1 DEF NamesFound, OnlyCyclesLackNames, NamesBound
<1>32. program' = p /\ outcome' = "run" /\ started' = b /\ cells' = cells /\ cache' = ca
  BY <1>1, <1>2, <1>8
<1>. QED  BY <1>9, <1>19, <1>20, <1>21, <1>23, <1>26, <1>27, <1>28, <1>29, <1>30, <1>31, <1>32 DEF IInv

LEMMA LoadedKept ==
  ASSUME IInv, Loaded
  PROVE  IInv'
<1>1. AtEnd /\ Top.part = "load"  BY DEF Loaded
<1>2. outcome = "run" /\ stack # << >>  BY <1>1, AtItsEnd
<1>3. Top.module # Driver  BY <1>1, <1>2, Here
<1>4. CASE program.kind[Top.module] = "lazy"
  <2>1. /\ stack' = Front(stack) /\ status' = [status EXCEPT ![Top.module] = "loaded"]
        /\ cache' = cache
        /\ UNCHANGED <<program, files, outcome, cells, started, seen>>
    BY <1>4 DEF Loaded
  <2>2. Top.part # "body"  BY <1>1
  <2>. QED  BY <1>1, <1>3, <1>4, <2>1, <2>2, PoppedKept
<1>5. CASE program.kind[Top.module] # "lazy"  BY <1>5, TurnedKept
<1>. QED  BY <1>4, <1>5

LEMMA ReturnKept ==
  ASSUME IInv, Return
  PROVE  IInv'
<1>1. AtEnd /\ Top.part = "body" /\ Top.module # Driver  BY DEF Return
<1>2. /\ stack' = Front(stack) /\ status' = [status EXCEPT ![Top.module] = "loaded"]
      /\ UNCHANGED <<program, files, outcome, cells, started, seen>>
  BY DEF Return
<1>3. cache' = IF program.kind[Top.module] = "lazy"
               THEN [cache EXCEPT ![Top.module] = [n \in files[Top.module].exports |->
                       Over(Top.local, cells[Top.module])[n]]]
               ELSE cache
  BY DEF Return
<1>4. cache' = IF Top.part = "body" /\ program.kind[Top.module] = "lazy"
               THEN [cache EXCEPT ![Top.module] = [n \in files[Top.module].exports |->
                       Over(Top.local, cells[Top.module])[n]]]
               ELSE cache
  BY <1>1, <1>3
<1>5. Top.part # "load"  BY <1>1
<1>. QED  BY <1>1, <1>2, <1>4, <1>5, PoppedKept

(* The driver is at its end. *)
LEMMA FinishKept ==
  ASSUME IInv, Finish
  PROVE  IInv'
<1>1. AtEnd /\ Top.module = Driver  BY DEF Finish
<1>2. outcome = "run" /\ stack # << >> /\ Top.at = Len(Text(program, Top)) + 1
  BY <1>1, AtItsEnd
<1>3. PICK p, s, top, st, b : p = program /\ s = stack /\ top = Top /\ st = status /\ b = started
  OBVIOUS
<1>4. /\ IsProgram(p) /\ files = Files(p) /\ top \in Frames /\ s = Append(<< >>, top)
      /\ top.module = Driver /\ top.part = "body" /\ FrameKept(p, s, st, b, top)
  BY <1>1, <1>2, <1>3, Here
<1>5. /\ stack' = << >> /\ outcome' = "done"
      /\ UNCHANGED <<program, files, status, cells, cache, started, seen>>
  BY DEF Finish
<1>6. TypeOK'
  <2>1. /\ program \in Programs /\ status \in [Modules -> {"absent", "loading", "loaded"}]
        /\ cells \in [Modules -> Scopes] /\ cache \in [Modules -> Scopes \cup {None}]
        /\ started \in Seq(Modules) /\ seen \in Seq(Value)
    BY DEF IInv, TypeOK
  <2>2. << >> \in Seq(Frames)  OBVIOUS
  <2>. QED  BY <1>5, <2>1, <2>2 DEF TypeOK
<1>7. FilesMade'  BY <1>3, <1>4, <1>5 DEF FilesMade
<1>8. DOMAIN << >> = {}  OBVIOUS
<1>9. \A m \in Modules : ~Running(s, m) /\ ~Loading(s, m)
  <2>. SUFFICES ASSUME NEW m \in Modules PROVE ~Running(s, m) /\ ~Loading(s, m)  OBVIOUS
  <2>1. << >> \in Seq(Frames)  OBVIOUS
  <2>2. /\ Running(s, m) <=> Running(<< >>, m) \/ (top.module = m /\ top.part = "body")
        /\ Loading(s, m) <=> Loading(<< >>, m) \/ (top.module = m /\ top.part = "load")
    BY <1>4, <2>1, RunningOnTop
  <2>3. ~Running(<< >>, m) /\ ~Loading(<< >>, m)  BY <1>8 DEF Running, Loading
  <2>4. m # Driver  BY SplitBundleAssumption DEF SplitBundleAssumption
  <2>. QED  BY <1>4, <2>2, <2>3, <2>4
<1>10. \A m : ~Running(<< >>, m) /\ ~Loading(<< >>, m)  BY <1>8 DEF Running, Loading
<1>11. DriverFirst("done", << >>)  BY <1>8 DEF DriverFirst
<1>12. StartedOnce(<< >>, st, b)
  <2>1. StartedOnce(s, st, b)  BY <1>3 DEF IInv
  <2>2. LoadsOnce(<< >>)  BY <1>8 DEF LoadsOnce
  <2>. QED  BY <1>9, <1>10, <2>1, <2>2 DEF StartedOnce
<1>13. \A m \in Modules : Calls(p, m) \subseteq Modules
  <2>. SUFFICES ASSUME NEW m \in Modules, NEW d \in Calls(p, m) PROVE d \in Modules  OBVIOUS
  <2>1. PICK e \in Range(Code(p, m)) : e[1] = "call" /\ d = e[2]  BY DEF Calls
  <2>2. Code(p, m) \in Seq(Expression)  BY <1>4, CodeShape
  <2>3. e \in Expression  BY <2>1, <2>2 DEF Range
  <2>. QED  BY <2>1, <2>3, ExpressionKinds
<1>14. \A m \in Modules : Covered(p, s, b, m) => Covered(p, << >>, b, m)  BY <1>9 DEF Covered
<1>15. Covered(p, s, b, p.entry)
  <2>1. PICK file : file = DriverFile(p)  OBVIOUS
  <2>2. Text(p, top) = file.steps  BY <1>4, <2>1, FilesOf DEF Text
  <2>3. /\ Len(file.steps) = 1
        /\ file.steps[1].expression[1] = "call" /\ file.steps[1].expression[2] = p.entry
    BY <1>4, <2>1, DriverShape
  <2>4. top.at = 2  BY <1>2, <1>3, <2>2, <2>3
  <2>5. 1 \in 1 .. top.at - 1  BY <2>4
  <2>6. CallsDone(p, s, b, top)  BY <1>4 DEF FrameKept
  <2>. QED  BY <1>4, <2>2, <2>3, <2>5, <2>6 DEF CallsDone, IsCall
<1>16. CallsCovered(p, << >>, b, "done")
  <2>1. CallsCovered(p, s, b, "run")  BY <1>2, <1>3 DEF IInv
  <2>2. b \in Seq(Modules)  BY <1>3 DEF IInv, TypeOK
  <2>3. \A m \in Range(b) : m \in Modules  BY <2>2 DEF Range
  <2>4. p.entry \in Modules  BY <1>4 DEF IsProgram
  <2>. QED  BY <1>9, <1>13, <1>14, <1>15, <2>1, <2>3, <2>4 DEF CallsCovered
<1>17. CacheKept(p, << >>, b, cache)
  <2>1. CacheKept(p, s, b, cache)  BY <1>3 DEF IInv
  <2>. QED  BY <1>9, <2>1 DEF CacheKept
<1>18. NamesThere(p, st, cells) /\ FunctionsHome(p, st, cells, cache)  BY <1>3 DEF IInv
<1>19. FramesKept(p, << >>, st, b)  BY <1>8 DEF FramesKept
<1>20. NamesFound'  BY <1>5 DEF NamesFound, OnlyCyclesLackNames, NamesBound
<1>21. /\ program' = p /\ status' = st /\ started' = b /\ cells' = cells /\ cache' = cache
  BY <1>3, <1>5
<1>. QED  BY <1>5, <1>6, <1>7, <1>11, <1>12, <1>16, <1>17, <1>18, <1>19, <1>20, <1>21 DEF IInv

LEMMA UnpackKept ==
  ASSUME IInv, Unpack
  PROVE  IInv'
<1>1. /\ outcome = "unpack"
      /\ UNCHANGED <<program, status, cells, cache, stack, started, seen>>
      /\ \/ outcome' = "run" /\ files' = Files(program)
         \/ outcome' = "unpack failed"
  BY DEF Unpack
<1>2. PICK o : o = outcome' /\ o \in {"run", "unpack failed"}  BY <1>1
<1>3. TypeOK'
  <2>1. TypeOK  BY DEF IInv
  <2>. QED  BY <1>1, <2>1 DEF TypeOK
<1>4. FilesMade'
  <2>1. stack = <<Frame(Driver, "body", {})>>  BY <1>1 DEF IInv, FilesMade
  <2>. QED  BY <1>1, <2>1 DEF FilesMade
<1>5. DriverFirst(o, stack) /\ CallsCovered(program, stack, started, o)
  <2>1. DriverFirst("unpack", stack) /\ CallsCovered(program, stack, started, "unpack")
    BY <1>1 DEF IInv
  <2>. QED  BY <1>2, <2>1 DEF DriverFirst, CallsCovered
<1>6. /\ StartedOnce(stack, status, started) /\ CacheKept(program, stack, started, cache)
      /\ NamesThere(program, status, cells) /\ FunctionsHome(program, status, cells, cache)
      /\ FramesKept(program, stack, status, started)
  BY DEF IInv
<1>7. NamesFound'  BY <1>2 DEF NamesFound, OnlyCyclesLackNames, NamesBound
<1>. QED  BY <1>1, <1>2, <1>3, <1>4, <1>5, <1>6, <1>7 DEF IInv

LEMMA InitIInv == Init => IInv
<1>. SUFFICES ASSUME Init PROVE IInv  OBVIOUS
<1>1. /\ program \in Programs /\ outcome = "unpack"
      /\ status = [m \in Modules |-> "absent"] /\ cells = [m \in Modules |-> NoNames]
      /\ cache = [m \in Modules |-> None] /\ started = << >> /\ seen = << >>
  BY DEF Init
<1>2. IsProgram(program)  BY <1>1, SplitBundleAssumption DEF SplitBundleAssumption
<1>3. PICK f : f = Frame(Driver, "body", {}) /\ stack = <<f>>  BY DEF Init
<1>4. /\ f \in Frames /\ f.module = Driver /\ f.part = "body" /\ f.at = 1
      /\ \A p, st : Homes(p, st, f.inner, {"lazy"}) /\ Homes(p, st, f.local, {"lazy"})
  <2>1. Driver \in Modules \cup {Driver} /\ {} \subseteq Names  OBVIOUS
  <2>. QED  BY <1>3, <2>1, NewFrame
<1>5. PICK s \in Seq(Frames) : s = stack /\ DOMAIN s = {1} /\ s[1] = f /\ s # << >>
  <2>1. <<f>> \in Seq(Frames) /\ DOMAIN <<f>> = 1 .. 1 /\ <<f>>[1] = f /\ <<f>> # << >>
    BY <1>4
  <2>2. 1 .. 1 = {1}  OBVIOUS
  <2>. QED  BY <1>3, <2>1, <2>2
<1>6. TypeOK
  <2>1. status \in [Modules -> {"absent", "loading", "loaded"}]  BY <1>1
  <2>2. cells \in [Modules -> Scopes]  BY <1>1, NoNamesScope
  <2>3. cache \in [Modules -> Scopes \cup {None}]  BY <1>1
  <2>4. started \in Seq(Modules) /\ seen \in Seq(Value)  BY <1>1
  <2>. QED  BY <1>1, <1>5, <2>1, <2>2, <2>3, <2>4 DEF TypeOK
<1>7. FilesMade  BY <1>1, <1>3 DEF FilesMade
<1>8. DriverFirst("unpack", s)  BY <1>4, <1>5 DEF DriverFirst
<1>9. \A m : Running(s, m) => m = Driver  BY <1>4, <1>5 DEF Running
<1>10. \A m : ~Loading(s, m)  BY <1>4, <1>5 DEF Loading
<1>11. Range(started) = {} /\ DOMAIN started = {}  BY <1>1 DEF Range
<1>12. StartedOnce(s, status, started)
  <2>1. IsInjective(started)  BY <1>11 DEF IsInjective
  <2>2. LoadsOnce(s)  BY <1>5 DEF LoadsOnce
  <2>3. \A m \in Modules : ~Running(s, m)
    BY <1>9, SplitBundleAssumption DEF SplitBundleAssumption
  <2>4. \A m \in Modules : status[m] = "absent"  BY <1>1
  <2>. QED  BY <1>10, <1>11, <2>1, <2>2, <2>3, <2>4 DEF StartedOnce
<1>13. CallsCovered(program, s, started, "unpack")  BY <1>11 DEF CallsCovered
<1>14. CacheKept(program, s, started, cache)  BY <1>1, <1>11 DEF CacheKept
<1>15. NamesThere(program, status, cells)  BY <1>1 DEF NamesThere
<1>16. FunctionsHome(program, status, cells, cache)
  BY <1>1, HomesNoNames DEF FunctionsHome
<1>17. FramesKept(program, s, status, started)
  <2>1. PICK text \in Seq(StepType) : text = Text(program, f)  BY <1>2, <1>4, TextTyped
  <2>2. f.at <= Len(text) + 1 /\ \A j \in 1 .. f.at - 1 : FALSE  BY <1>4, <2>1
  <2>3. CallsDone(program, s, started, f)  BY <2>1, <2>2 DEF CallsDone
  <2>4. LocalsThere(program, status, f)  BY <1>4 DEF LocalsThere
  <2>5. FrameKept(program, s, status, started, f)  BY <1>4, <2>3, <2>4 DEF FrameKept
  <2>. QED  BY <1>5, <2>5 DEF FramesKept
<1>18. NamesFound  BY <1>1 DEF NamesFound, OnlyCyclesLackNames, NamesBound
<1>. QED  BY <1>1, <1>5, <1>6, <1>7, <1>8, <1>12, <1>13, <1>14, <1>15, <1>16, <1>17, <1>18 DEF IInv

(* A step that changes nothing. *)
LEMMA StutterKept ==
  ASSUME IInv, UNCHANGED vars
  PROVE  IInv'
<1>1. /\ program' = program /\ files' = files /\ outcome' = outcome /\ status' = status
      /\ cells' = cells /\ cache' = cache /\ stack' = stack /\ started' = started /\ seen' = seen
  BY DEF vars
<1>2. TypeOK' /\ FilesMade'
  <2>1. TypeOK /\ FilesMade  BY DEF IInv
  <2>. QED  BY <1>1, <2>1 DEF TypeOK, FilesMade
<1>3. NamesFound'
  <2>1. NamesFound  BY DEF IInv
  <2>. QED  BY <1>1, <2>1 DEF NamesFound, OnlyCyclesLackNames, NamesBound, TakenByBody, Top, Step,
                              Steps, Scope, Inner
<1>4. /\ DriverFirst(outcome, stack) /\ CallsCovered(program, stack, started, outcome)
      /\ StartedOnce(stack, status, started) /\ CacheKept(program, stack, started, cache)
      /\ NamesThere(program, status, cells) /\ FunctionsHome(program, status, cells, cache)
      /\ FramesKept(program, stack, status, started)
  BY DEF IInv
<1>. QED  BY <1>1, <1>2, <1>3, <1>4 DEF IInv

-----------------------------------------------------------------------------
(* Theorems *)

(* The invariant holds of every bundle: file loads and bodies follow each other as
   output/runtime.rs and createLazyInit have them. *)
THEOREM InvariantIInv == Spec => []IInv
<1>1. IInv /\ [Next]_vars => IInv'
  <2>. SUFFICES ASSUME IInv, [Next]_vars PROVE IInv'  OBVIOUS
  <2>1. CASE Unpack  BY <2>1, UnpackKept
  <2>2. CASE Call    BY <2>2, CallKept
  <2>3. CASE Set     BY <2>3, SetKept
  <2>4. CASE Use     BY <2>4, UseKept
  <2>5. CASE Bump    BY <2>5, BumpKept
  <2>6. CASE Loaded  BY <2>6, LoadedKept
  <2>7. CASE Return  BY <2>7, ReturnKept
  <2>8. CASE Finish  BY <2>8, FinishKept
  <2>9. CASE UNCHANGED vars  BY <2>9, StutterKept
  <2>. QED  BY <2>1, <2>2, <2>3, <2>4, <2>5, <2>6, <2>7, <2>8, <2>9 DEF Next
<1>. QED  BY <1>1, InitIInv, PTL DEF Spec

(* split/extract.rs gives each statement behind the first wrapper to one module, and no
   other to any: Cardinality(owners) in every bundle. *)
THEOREM StatementsGivenOnce == Spec => []StatementsOnce
<1>1. IInv => StatementsOnce
  <2>. SUFFICES ASSUME IInv PROVE StatementsOnce  OBVIOUS
  <2>1. IsProgram(program)
    BY SplitBundleAssumption DEF SplitBundleAssumption, IInv, TypeOK
  <2>. QED  BY <2>1, GivenOnce DEF StatementsOnce
<1>. QED  BY <1>1, InvariantIInv, PTL

(* createLazyInit and require run no body twice, and a run that comes to its end has run
   every body that the bundle would have, but for those whose file
   transform_source_best_effort left empty and what only these would have called. *)
THEOREM EveryBodyRan == Spec => []AllRan
<1>1. IInv => AllRan
  <2>. SUFFICES ASSUME IInv PROVE AllRan  OBVIOUS
  <2>1. IsInjective(started)  BY DEF IInv, StartedOnce
  <2>2. ASSUME outcome = "done" PROVE Reachable \ Emptied \subseteq Range(started)
    <3>1. stack = << >>  BY <2>2 DEF IInv, DriverFirst
    <3>2. \A m : ~Running(stack, m) /\ ~Loading(stack, m)  BY <3>1 DEF Running, Loading
    <3>3. CallsCovered(program, stack, started, "done")  BY <2>2 DEF IInv
    <3>4. IsProgram(program)
      BY SplitBundleAssumption DEF SplitBundleAssumption, IInv, TypeOK
    <3>5. Range(started) \in SUBSET Modules
      <4>1. started \in Seq(Modules)  BY DEF IInv, TypeOK
      <4>. QED  BY <4>1 DEF Range
    <3>6. \A m \in Modules : m \in Emptied <=> File(program, m).empty
      <4>1. files = Files(program)  BY <2>2 DEF IInv, FilesMade
      <4>. QED  BY <4>1, FilesOf DEF Emptied
    <3>7. \A m \in Modules : Calls(program, m) \subseteq Modules
      <4>. SUFFICES ASSUME NEW m \in Modules, NEW d \in Calls(program, m) PROVE d \in Modules
        OBVIOUS
      <4>1. PICK e \in Range(Code(program, m)) : e[1] = "call" /\ d = e[2]  BY DEF Calls
      <4>2. Code(program, m) \in Seq(Expression)  BY <3>4, CodeShape
      <4>3. e \in Expression  BY <4>1, <4>2 DEF Range
      <4>. QED  BY <4>1, <4>3, ExpressionKinds
(* What was started, and what could not be. *)
    <3>8. PICK closed \in SUBSET Modules : closed = Range(started) \cup Emptied
      BY <3>5 DEF Emptied
    <3>9. \A m \in Modules : Covered(program, stack, started, m) => m \in closed
      BY <3>2, <3>6, <3>8 DEF Covered
    <3>10. program.entry \in closed
      <4>1. program.entry \in Modules  BY <3>4 DEF IsProgram
      <4>. QED  BY <3>3, <3>9, <4>1 DEF CallsCovered
    <3>11. \A m \in closed \ Emptied : Calls(program, m) \subseteq closed
      <4>. SUFFICES ASSUME NEW m \in closed \ Emptied, NEW d \in Calls(program, m)
                    PROVE  d \in closed
        OBVIOUS
      <4>1. m \in Range(started) /\ m \in Modules  BY <3>8
      <4>2. Covered(program, stack, started, d)  BY <3>2, <3>3, <4>1 DEF CallsCovered
      <4>. QED  BY <3>7, <3>9, <4>1, <4>2
    <3>12. Reachable \subseteq closed  BY <3>10, <3>11 DEF Reachable
    <3>. QED  BY <3>8, <3>12
  <2>. QED  BY <2>1, <2>2 DEF AllRan
<1>. QED  BY <1>1, InvariantIInv, PTL

(* rewrite/analysis and narrow_registry_for_module leave no name of a lazy module without
   a declaration in its file, and no call without its exports but in a cycle. *)
THEOREM NamesAreFound == Spec => []NamesFound
<1>1. IInv => NamesFound  BY DEF IInv
<1>. QED  BY <1>1, InvariantIInv, PTL

-----------------------------------------------------------------------------
(* Direct bundles *)

(* Only m declares the name. *)
Sole(p, m, n) == Owners(p, n) = {m}

LEMMA SoleOwner ==
  ASSUME NEW p, NEW m, NEW d, NEW n, Sole(p, m, n)
  PROVE  /\ m \in Modules /\ n \in SupportNames(p, m)
         /\ d \in Modules /\ n \in SupportNames(p, d) => d = m
         /\ Sole(p, d, n) => d = m
<1>1. \A e : e \in Owners(p, n) <=> e \in Modules /\ n \in SupportNames(p, e)  BY DEF Owners
<1>2. \A e : e \in Owners(p, n) <=> e = m  BY DEF Sole
<1>3. Sole(p, d, n) => d \in Owners(p, n)  BY DEF Sole
<1>. QED  BY <1>1, <1>2, <1>3

(* What the definition of a direct bundle says of a module. *)
LEMMA DirectModule ==
  ASSUME NEW p, Direct(p), NEW m \in Modules
  PROVE  /\ p.kind[m] = "cjs" => SupportNames(p, m) = {}
         /\ \A f \in DOMAIN Target : Sole(p, m, f) <=> Sole(p, m, Target[f])
         /\ \A s \in Range(p.body[m]) : Len(s) = 1
         /\ \A k \in DOMAIN Code(p, m) : Code(p, m)[k][1] \in {"set", "bump"} =>
              Sole(p, m, Code(p, m)[k][2])
         /\ \A k \in DOMAIN Code(p, m) : Code(p, m)[k][1] = "use" =>
              \/ Sole(p, m, Code(p, m)[k][2])
              \/ \E j \in 1 .. k - 1 : /\ Code(p, m)[j][1] = "call"
                                       /\ Sole(p, Code(p, m)[j][2], Code(p, m)[k][2])
<1>. DEFINE called(k) ==
       {Code(p, m)[j][2] : j \in {i \in 1 .. k - 1 : Code(p, m)[i][1] = "call"}}
<1>1. /\ p.kind[m] = "cjs" => SupportNames(p, m) = {}
      /\ \A f \in DOMAIN Target : Sole(p, m, f) <=> Sole(p, m, Target[f])
      /\ \A s \in Range(p.body[m]) : Len(s) = 1
  BY DEF Direct, Sole
<1>2. ASSUME NEW k \in DOMAIN Code(p, m)
      PROVE  LET e == Code(p, m)[k] IN
               /\ e[1] \in {"set", "bump"} => Owners(p, e[2]) = {m}
               /\ e[1] = "use" => \/ Owners(p, e[2]) = {m}
                                  \/ \E d \in called(k) : Owners(p, e[2]) = {d}
  BY DEF Direct
<1>3. ASSUME NEW k \in DOMAIN Code(p, m), Code(p, m)[k][1] \in {"set", "bump"}
      PROVE  Sole(p, m, Code(p, m)[k][2])
  <2>. HIDE DEF called
  <2>. QED  BY <1>2, <1>3 DEF Sole
<1>4. ASSUME NEW k \in DOMAIN Code(p, m), Code(p, m)[k][1] = "use"
      PROVE  \/ Sole(p, m, Code(p, m)[k][2])
             \/ \E j \in 1 .. k - 1 : /\ Code(p, m)[j][1] = "call"
                                      /\ Sole(p, Code(p, m)[j][2], Code(p, m)[k][2])
  <2>1. Sole(p, m, Code(p, m)[k][2]) \/ \E d \in called(k) : Sole(p, d, Code(p, m)[k][2])
    <3>. HIDE DEF called
    <3>. QED  BY <1>2, <1>4 DEF Sole
  <2>. QED  BY <2>1
<1>. QED  BY <1>1, <1>3, <1>4

(* No module calls itself. *)
LEMMA DirectCalls ==
  ASSUME NEW p, Direct(p), NEW m \in Modules
  PROVE  m \notin Calls(p, m)
<1>1. ASSUME NEW cycle \in (SUBSET Modules) \ {{}}
      PROVE  \E d \in cycle : Calls(p, d) \cap cycle = {}
  BY DEF Direct
<1>2. {m} \in (SUBSET Modules) \ {{}}  OBVIOUS
<1>. QED  BY <1>1, <1>2

(* Nothing is called at the top. *)
LEMMA NothingAtTop ==
  ASSUME NEW p, IsProgram(p), Direct(p), NEW m \in Modules, NEW exports \in Registry
  PROVE  SupportSteps(p, exports, m) = << >>
<1>1. \A i \in DOMAIN p.statements : p.statements[i].call = None  BY DEF Direct
<1>2. PICK n \in Nat : DOMAIN p.statements = 1 .. n
  <2>1. PICK st \in Seq(Statement) : st = p.statements  BY DEF IsProgram
  <2>. QED  BY <2>1
<1>3. PICK parts : parts = [i \in 1 .. n |-> << >>]  OBVIOUS
<1>4. SupportCalls(p, m) = FlattenSeq(parts)
  <2>1. [i \in DOMAIN p.statements |->
           IF i \in Support(p, m) /\ p.statements[i].call # None
           THEN << <<"call", p.statements[i].call>> >> ELSE << >>] = parts
    BY <1>1, <1>2, <1>3
  <2>. QED  BY <2>1 DEF SupportCalls
<1>5. parts \in Seq(Seq(Expression)) /\ Len(parts) = n /\ \A j \in 1 .. n : parts[j] = << >>
  <2>1. << >> \in Seq(Expression)  OBVIOUS
  <2>. QED  BY <1>3, <2>1
<1>6. PICK t \in Seq(StepType) : t = SupportSteps(p, exports, m)  BY CallSteps
<1>7. Range(SupportCalls(p, m)) = {}
  <2>1. \A x \in Range(FlattenSeq(parts)) : \E j \in 1 .. n : x \in Range(parts[j])
    BY <1>5, FlattenRange
  <2>2. Range(<< >>) = {}  BY DEF Range
  <2>. QED  BY <1>4, <1>5, <2>1, <2>2
<1>8. Range(t) = {}  BY <1>6, <1>7, CallSteps
<1>9. Len(t) = 0
  <2>1. Len(t) \in Nat /\ DOMAIN t = 1 .. Len(t)  OBVIOUS
  <2>2. ASSUME Len(t) # 0 PROVE FALSE
    <3>1. 1 \in DOMAIN t  BY <2>1, <2>2
    <3>. QED  BY <1>8, <3>1 DEF Range
  <2>. QED  BY <2>2
<1>. QED  BY <1>6, <1>9, EmptySeq

(* Sequences of one element each lie one behind the other. *)
LEMMA FlattenOnes ==
  ASSUME NEW S, NEW s \in Seq(Seq(S)), \A j \in 1 .. Len(s) : Len(s[j]) = 1
  PROVE  /\ FlattenSeq(s) \in Seq(S) /\ Len(FlattenSeq(s)) = Len(s)
         /\ \A j \in 1 .. Len(s) : FlattenSeq(s)[j] = s[j][1]
<1>1. CASE s = << >>
  <2>1. FlattenSeq(s) = << >> /\ Len(s) = 0  BY <1>1 DEF FlattenSeq
  <2>. QED  BY <2>1
<1>2. CASE s # << >>
  <2>1. PICK n \in Nat : n = Len(s) /\ n > 0  BY <1>2, EmptySeq
  <2>2. PICK f \in [1 .. n -> Seq(S)] :
           /\ f[1] = s[1]
           /\ \A i \in 2 .. n : f[i] = f[i - 1] \o s[i]
           /\ FlattenSeq(s) = f[n]
    BY <1>2, <2>1, Flattening
  <2>. DEFINE Has(k) == Len(f[k]) = k /\ \A j \in 1 .. k : f[k][j] = s[j][1]
              Bad == {k \in 1 .. n : ~Has(k)}
  <2>3. Bad = {}
    <3>. SUFFICES ASSUME Bad # {} PROVE FALSE  OBVIOUS
    <3>. HIDE DEF Has
    <3>1. PICK k \in Bad : \A j \in Bad : k <= j
      <4>1. Bad \in SUBSET Nat  OBVIOUS
      <4>. HIDE DEF Bad
      <4>. QED  BY <4>1, SmallestOf
    <3>2. k \in 1 .. n /\ ~Has(k)  BY <3>1
    <3>3. s[k] \in Seq(S) /\ Len(s[k]) = 1  BY <2>1, <3>2, ElementOfSeq
    <3>4. CASE k = 1  BY <2>2, <3>2, <3>3, <3>4 DEF Has
    <3>5. CASE k # 1
      <4>1. k - 1 \in 1 .. n /\ k - 1 \notin Bad /\ k \in 2 .. n  BY <3>1, <3>2, <3>5
      <4>2. Has(k - 1)  BY <4>1
      <4>3. f[k - 1] \in Seq(S) /\ f[k] = f[k - 1] \o s[k]  BY <2>2, <4>1
      <4>4. Len(f[k - 1]) = k - 1  BY <4>2 DEF Has
      <4>5. /\ Len(f[k]) = k
            /\ \A i \in 1 .. k : f[k][i] = IF i <= k - 1 THEN f[k - 1][i] ELSE s[k][i - (k - 1)]
        <5>1. PICK u \in Seq(S), v \in Seq(S) : u = f[k - 1] /\ v = s[k]  BY <3>3, <4>3
        <5>2. Len(u) = k - 1 /\ Len(v) = 1 /\ (k - 1) + 1 = k  BY <3>2, <3>3, <4>4, <5>1
        <5>3. /\ Len(u \o v) = Len(u) + Len(v)
              /\ \A i \in 1 .. Len(u) + Len(v) :
                   (u \o v)[i] = IF i <= Len(u) THEN u[i] ELSE v[i - Len(u)]
          BY ConcatProperties
        <5>. QED  BY <4>3, <5>1, <5>2, <5>3
      <4>6. ASSUME NEW i \in 1 .. k PROVE f[k][i] = s[i][1]
        <5>1. CASE i <= k - 1
          <6>1. i \in 1 .. k - 1  BY <5>1
          <6>. QED  BY <4>2, <4>5, <5>1, <6>1 DEF Has
        <5>2. CASE ~(i <= k - 1)
          <6>1. i = k /\ i - (k - 1) = 1  BY <3>2, <5>2
          <6>. QED  BY <4>5, <5>2, <6>1
        <5>. QED  BY <5>1, <5>2
      <4>. QED  BY <3>2, <4>5, <4>6 DEF Has
    <3>. QED  BY <3>4, <3>5
  <2>4. n \in 1 .. n  BY <2>1
  <2>5. Has(n)  BY <2>3, <2>4
  <2>. QED  BY <2>1, <2>2, <2>4, <2>5
<1>. QED  BY <1>1, <1>2

(* The only expression of a statement. *)
LEMMA LoneStep ==
  ASSUME NEW p, IsProgram(p), NEW exports \in Registry, NEW s \in Seq(Expression), Len(s) = 1,
         NEW r, r = Rewritten(p, exports, s)
  PROVE  /\ r \in Seq(StepType) /\ Len(r) = 1
         /\ s[1] \in Expression /\ r[1].expression = s[1] /\ r[1].first /\ ~r[1].inner
         /\ r[1].binds = IF s[1][1] = "call" /\ p.kind[s[1][2]] = "lazy" THEN exports[s[1][2]]
                         ELSE {}
<1>1. DOMAIN s = {1} /\ 1 \in 1 .. Len(s)  OBVIOUS
<1>2. r \in Seq(StepType) /\ Len(r) = 1 /\ StepOf(p, exports, s, 1, r[1])  BY <1>1, RewrittenShape
<1>3. s[1] \in Expression  BY <1>1, ElementOfSeq
<1>. DEFINE made(k) == [expression |-> s[k], first |-> k = 1, inner |-> Len(s) > 1,
                        binds |-> IF k <= Opened(p, exports, s) THEN exports[s[k][2]] ELSE {}]
<1>4. /\ r[1].first /\ ~r[1].inner
      /\ r[1].binds = IF 1 <= Opened(p, exports, s) THEN exports[s[1][2]] ELSE {}
  <2>1. r = [k \in {1} |-> made(k)]  BY <1>1 DEF Rewritten
  <2>2. /\ made(1).first = (1 = 1) /\ made(1).inner = (Len(s) > 1)
        /\ made(1).binds = IF 1 <= Opened(p, exports, s) THEN exports[s[1][2]] ELSE {}
    OBVIOUS
  <2>. HIDE DEF made
  <2>3. r[1] = made(1)  BY <2>1
  <2>4. made(1).first /\ ~made(1).inner
    <3>1. (1 = 1) = TRUE /\ (Len(s) > 1) = FALSE  OBVIOUS
    <3>. QED  BY <2>2, <3>1
  <2>. QED  BY <2>2, <2>3, <2>4
<1>. HIDE DEF made
<1>. DEFINE opens(e) == e[1] = "call" /\ p.kind[e[2]] = "lazy" /\ exports[e[2]] # {}
<1>5. /\ Opened(p, exports, s) \in 0 .. 1
      /\ \A i \in 1 .. Opened(p, exports, s) : opens(s[i])
      /\ Opened(p, exports, s) < 1 => ~opens(s[Opened(p, exports, s) + 1])
  BY OpenedShape
<1>6. PICK o : o = Opened(p, exports, s)  OBVIOUS
<1>7. o \in {0, 1} /\ (o = 1 <=> opens(s[1]))
  <2>. HIDE DEF opens
  <2>1. o = 1 => opens(s[1])  BY <1>5, <1>6
  <2>2. o = 0 => ~opens(s[1])  BY <1>5, <1>6
  <2>. QED  BY <1>5, <1>6, <2>1, <2>2
<1>8. r[1].binds = IF o = 1 THEN exports[s[1][2]] ELSE {}  BY <1>4, <1>6, <1>7
<1>9. o = 1 <=> opens(s[1])  BY <1>7
<1>10. r[1].binds = IF s[1][1] = "call" /\ p.kind[s[1][2]] = "lazy" THEN exports[s[1][2]] ELSE {}
  <2>1. CASE o = 1  BY <1>8, <1>9, <2>1
  <2>2. CASE o # 1  BY <1>8, <1>9, <2>2
  <2>. QED  BY <2>1, <2>2
<1>. QED  BY <1>2, <1>3, <1>4, <1>10 DEF StepOf

(* A step of a direct bundle: the expression as it is, in no function of its own. *)
PlainStep(p, m, step, e) ==
  /\ step.expression = e /\ step.first /\ ~step.inner
  /\ step.binds = IF m # Driver /\ e[1] = "call" /\ p.kind[e[2]] = "lazy"
                  THEN Narrowed(p, m)[e[2]] ELSE {}

(* What runs of a module. *)
Whole(p, m) == IF m = Driver THEN << <<"call", p.entry>> >> ELSE Code(p, m)

(* The steps of a module are its expressions. *)
LEMMA DirectSteps ==
  ASSUME NEW p, IsProgram(p), Direct(p), NEW m \in Modules, NEW t, t = File(p, m).steps
  PROVE  /\ t \in Seq(StepType) /\ Len(t) = Len(Code(p, m))
         /\ \A k \in 1 .. Len(t) : PlainStep(p, m, t[k], Code(p, m)[k])
<1>1. PICK b \in Seq(Seq(Expression)) : b = p.body[m]  BY CodeShape
<1>2. PICK n \in Nat : n = Len(b) /\ DOMAIN b = 1 .. n  OBVIOUS
<1>3. ASSUME NEW j \in 1 .. n PROVE b[j] \in Seq(Expression) /\ Len(b[j]) = 1
  <2>1. b[j] \in Range(b)  BY <1>2 DEF Range
  <2>2. b[j] \in Seq(Expression)  BY <1>2, ElementOfSeq
  <2>. QED  BY <1>1, <2>1, <2>2, DirectModule
<1>4. /\ Len(Code(p, m)) = n
      /\ \A j \in 1 .. n : Code(p, m)[j] = b[j][1]
  <2>1. Code(p, m) = FlattenSeq(b)  BY <1>1 DEF Code
  <2>. QED  BY <1>2, <1>3, <2>1, FlattenOnes
<1>5. PICK exports \in Registry : exports = Narrowed(p, m)  BY RegistriesTyped
<1>. DEFINE made(i) == Rewritten(p, exports, b[i])
<1>6. ASSUME NEW j \in 1 .. n
      PROVE  /\ made(j) \in Seq(StepType) /\ Len(made(j)) = 1
             /\ PlainStep(p, m, made(j)[1], b[j][1])
  <2>1. PICK r : r = made(j)  OBVIOUS
  <2>2. /\ r \in Seq(StepType) /\ Len(r) = 1
        /\ r[1].expression = b[j][1] /\ r[1].first /\ ~r[1].inner
        /\ r[1].binds = IF b[j][1][1] = "call" /\ p.kind[b[j][1][2]] = "lazy"
                        THEN exports[b[j][1][2]] ELSE {}
    BY <1>3, <2>1, LoneStep
  <2>3. m # Driver  BY SplitBundleAssumption DEF SplitBundleAssumption
  <2>4. PlainStep(p, m, r[1], b[j][1])  BY <1>5, <2>2, <2>3 DEF PlainStep
  <2>. QED  BY <2>1, <2>2, <2>4
<1>7. PICK parts : parts = [i \in 1 .. n |-> made(i)]  OBVIOUS
<1>8. t = RewrittenBody(p, exports, m)  BY <1>5 DEF File
<1>9. t = FlattenSeq(parts)  BY <1>1, <1>2, <1>7, <1>8 DEF RewrittenBody
<1>. HIDE DEF made
<1>10. parts \in Seq(Seq(StepType)) /\ Len(parts) = n /\ \A i \in 1 .. n : parts[i] = made(i)
  BY <1>6, <1>7
<1>11. t \in Seq(StepType) /\ Len(t) = n /\ \A j \in 1 .. n : t[j] = made(j)[1]
  <2>1. \A j \in 1 .. Len(parts) : Len(parts[j]) = 1  BY <1>6, <1>10
  <2>2. PICK q \in Seq(Seq(StepType)) : q = parts  BY <1>10
  <2>3. /\ FlattenSeq(q) \in Seq(StepType) /\ Len(FlattenSeq(q)) = Len(q)
        /\ \A j \in 1 .. Len(q) : FlattenSeq(q)[j] = q[j][1]
    BY <2>1, <2>2, FlattenOnes
  <2>. QED  BY <1>9, <1>10, <2>2, <2>3
<1>. QED  BY <1>4, <1>6, <1>11

(* A file of a direct bundle: nothing runs when it is loaded, and what the body takes from
   other modules is none of its own. *)
LEMMA DirectFile ==
  ASSUME NEW p, IsProgram(p), Direct(p), NEW m \in Modules
  PROVE  /\ File(p, m).calls = << >> /\ ~File(p, m).empty /\ ~File(p, m).twice
         /\ File(p, m).local \cap SupportNames(p, m) = {}
         /\ p.kind[m] = "cjs" => File(p, m).local = {}
         /\ SupportNames(p, m) \subseteq File(p, m).declared
         /\ File(p, m).exports = FinalExports(p, m)
<1>1. PICK exports \in Registry : exports = Narrowed(p, m)  BY RegistriesTyped
<1>2. PICK t \in Seq(StepType) :
        /\ t = RewrittenBody(p, exports, m) /\ Len(t) \in Nat
        /\ \A k \in 1 .. Len(t) : PlainStep(p, m, t[k], Code(p, m)[k])
  <2>1. File(p, m).steps = RewrittenBody(p, exports, m)  BY <1>1 DEF File
  <2>. QED  BY <2>1, DirectSteps
<1>3. SupportSteps(p, exports, m) = << >>  BY NothingAtTop
<1>4. Bound(<< >>) = {}  BY DEF Bound, Range
<1>5. \A s \in Range(p.body[m]) : Parses(p, exports, s)  BY DirectModule DEF Parses
<1>6. Code(p, m) \in Seq(Expression) /\ Len(t) = Len(Code(p, m))
  <2>1. File(p, m).steps = RewrittenBody(p, exports, m)  BY <1>1 DEF File
  <2>. QED  BY <1>2, <2>1, CodeShape, DirectSteps
<1>7. ASSUME NEW k \in 1 .. Len(t) PROVE t[k].binds \cap SupportNames(p, m) = {}
  <2>1. CASE t[k].binds = {}  BY <2>1
  <2>2. CASE t[k].binds # {}
    <3>1. PICK e \in Expression : e = Code(p, m)[k]  BY <1>6, ElementOfSeq
    <3>2. e[1] = "call" /\ t[k].binds = exports[e[2]]
      BY <1>1, <1>2, <2>2, <3>1 DEF PlainStep
    <3>3. e[2] \in Modules  BY <3>2, ExpressionKinds
    <3>4. p.renamed  BY DEF Direct
    <3>5. exports[e[2]] \subseteq Named(p, m) \ SupportNames(p, m)
      BY <1>1, <3>3, <3>4 DEF Narrowed, External
    <3>. QED  BY <3>2, <3>5
  <2>. QED  BY <2>1, <2>2
<1>8. BoundOutside(t) \cap SupportNames(p, m) = {}
  <2>1. \A s \in Range(t) : s.binds \cap SupportNames(p, m) = {}  BY <1>7 DEF Range
  <2>. QED  BY <2>1 DEF BoundOutside
<1>. QED  BY <1>1, <1>2, <1>3, <1>4, <1>5, <1>8 DEF File, LocalNames

(* A direct bundle can be split. *)
LEMMA DirectSplits ==
  ASSUME NEW p, IsProgram(p), Direct(p)
  PROVE  Splits(p)
BY DirectModule DEF Splits, Parses

(* The driver calls the first module. *)
LEMMA DriverStep ==
  ASSUME NEW p, IsProgram(p), NEW t, t = DriverFile(p).steps
  PROVE  /\ t \in Seq(StepType) /\ Len(t) = 1 /\ Len(Whole(p, Driver)) = 1
         /\ PlainStep(p, Driver, t[1], Whole(p, Driver)[1])
         /\ Whole(p, Driver)[1] = <<"call", p.entry>>
<1>1. PICK e : e = <<"call", p.entry>>  OBVIOUS
<1>2. e \in Expression  BY <1>1 DEF IsProgram, Expression
<1>3. PICK s : s = <<e>>  OBVIOUS
<1>4. s \in Seq(Expression) /\ Len(s) = 1 /\ s[1] = e  BY <1>2, <1>3
<1>5. Whole(p, Driver) = s  BY <1>1, <1>3 DEF Whole
<1>6. PICK exports \in Registry : exports = [d \in Modules |-> {}]  BY DEF Registry
<1>7. t = Rewritten(p, exports, s)  BY <1>1, <1>3, <1>6 DEF DriverFile
<1>8. /\ t \in Seq(StepType) /\ Len(t) = 1
      /\ t[1].expression = e /\ t[1].first /\ ~t[1].inner
      /\ t[1].binds = {}
  <2>1. p.entry \in Modules /\ e[2] = p.entry  BY <1>1 DEF IsProgram
  <2>2. exports[e[2]] = {}  BY <1>6, <2>1
  <2>. QED  BY <1>4, <1>7, <2>2, LoneStep
<1>. QED  BY <1>1, <1>4, <1>5, <1>8 DEF PlainStep

(* The same of a frame. *)
LEMMA DirectText ==
  ASSUME NEW p, IsProgram(p), Direct(p), NEW f \in Frames, f.module = Driver => f.part = "body"
  PROVE  /\ f.part = "load" => Text(p, f) = << >>
         /\ f.part = "body" =>
              /\ Text(p, f) \in Seq(StepType) /\ Len(Text(p, f)) = Len(Whole(p, f.module))
              /\ \A k \in 1 .. Len(Text(p, f)) :
                   PlainStep(p, f.module, Text(p, f)[k], Whole(p, f.module)[k])
<1>1. f.module \in Modules \cup {Driver} /\ f.part \in {"body", "load"}  BY DEF Frames
<1>2. CASE f.module = Driver
  <2>1. Text(p, f) = DriverFile(p).steps  BY <1>2, FilesOf DEF Text
  <2>2. \A k \in 1 .. 1 : k = 1  OBVIOUS
  <2>. QED  BY <1>2, <2>1, <2>2, DriverStep
<1>3. CASE f.module # Driver
  <2>1. Files(p)[f.module] = File(p, f.module) /\ f.module \in Modules  BY <1>1, <1>3, FilesOf
  <2>2. f.part = "load" => Text(p, f) = << >>  BY <2>1, DirectFile DEF Text
  <2>3. f.part = "body" => Text(p, f) = File(p, f.module).steps  BY <2>1 DEF Text
  <2>4. Whole(p, f.module) = Code(p, f.module)  BY <1>3 DEF Whole
  <2>. QED  BY <2>1, <2>2, <2>3, <2>4, DirectSteps
<1>. QED  BY <1>2, <1>3

(* What is called is bound by the call. *)
LEMMA CallBinds ==
  ASSUME NEW p, IsProgram(p), Direct(p), NEW m \in Modules, NEW exports \in Registry,
         NEW e \in Range(Code(p, m)), e[1] = "call", p.kind[e[2]] = "lazy"
  PROVE  exports[e[2]] \subseteq Bound(RewrittenBody(p, exports, m))
<1>1. PICK s \in Range(p.body[m]) : e \in Range(s)  BY CodeShape
<1>2. PICK t : t = RewrittenBody(p, exports, m)  OBVIOUS
<1>3. Len(s) = 1 /\ 1 \in 1 .. Len(s)  BY <1>1, DirectModule
<1>4. s \in Seq(Expression) /\ Rewritten(p, exports, s)[1] \in Range(t)  BY <1>2, <1>3, BodySteps
<1>5. s[1] = e  BY <1>1, <1>3, <1>4 DEF Range
<1>6. PICK r : r = Rewritten(p, exports, s)  OBVIOUS
<1>7. r[1].binds = exports[e[2]]
  <2>1. r[1].binds = IF s[1][1] = "call" /\ p.kind[s[1][2]] = "lazy" THEN exports[s[1][2]]
                     ELSE {}
    BY <1>3, <1>4, <1>6, LoneStep
  <2>. QED  BY <1>5, <2>1
<1>. QED  BY <1>2, <1>4, <1>6, <1>7 DEF Bound

(* A lazy module gives away nothing that only another declares. *)
LEMMA ExportsOwn ==
  ASSUME NEW p, IsProgram(p), Direct(p), NEW m \in Modules, NEW x \in FinalExports(p, m),
         NEW d, Sole(p, d, x)
  PROVE  d = m
<1>. SUFFICES ASSUME d # m PROVE FALSE  OBVIOUS
<1>1. p.kind[m] # "cjs" /\ p.kind \in [Modules -> {"lazy", "cjs"}]
  BY DEF FinalExports, IsProgram
<1>2. d \in Modules /\ x \in SupportNames(p, d) /\ x \notin SupportNames(p, m)  BY SoleOwner
<1>3. ~Sole(p, m, x)  BY SoleOwner
<1>4. PICK n \in Nat : n = Len(Code(p, m)) /\ DOMAIN Code(p, m) = 1 .. n  BY CodeShape
<1>5. x \notin Assigned(p, m)
  <2>. SUFFICES ASSUME x \in Assigned(p, m) PROVE FALSE  OBVIOUS
  <2>1. PICK k \in 1 .. n : Code(p, m)[k][1] = "set" /\ Code(p, m)[k][2] = x
    BY <1>4 DEF Assigned, Range
  <2>. QED  BY <1>3, <1>4, <2>1, DirectModule
<1>6. PICK exports \in Registry : exports = InitialRegistry(p, m)  BY RegistriesTyped
<1>7. x \in Named(p, m) /\ x \notin Bound(RewrittenBody(p, exports, m))
  BY <1>1, <1>2, <1>5, <1>6 DEF FinalExports, External, Exports, Direct
<1>8. CASE \E k \in 1 .. n : Code(p, m)[k][1] # "call" /\ Code(p, m)[k][2] = x
  <2>1. PICK k \in 1 .. n : Code(p, m)[k][1] # "call" /\ Code(p, m)[k][2] = x  BY <1>8
  <2>2. Code(p, m)[k] \in Expression  BY <1>4, CodeShape, ElementOfSeq
  <2>3. Code(p, m)[k][1] = "use"  BY <1>3, <1>4, <2>1, <2>2, DirectModule, ExpressionKinds
  <2>4. PICK j \in 1 .. k - 1 : Code(p, m)[j][1] = "call" /\ Sole(p, Code(p, m)[j][2], x)
    BY <1>3, <1>4, <2>1, <2>3, DirectModule
  <2>5. PICK e : e = Code(p, m)[j]  OBVIOUS
  <2>6. j \in 1 .. n  BY <2>4
  <2>7. e \in Range(Code(p, m)) /\ e[1] = "call" /\ Sole(p, e[2], x)  BY <1>4, <2>4, <2>5, <2>6 DEF Range
  <2>8. e[2] = d  BY <2>7, SoleOwner
  <2>9. p.kind[d] = "lazy"  BY <1>1, <1>2, DirectModule
  <2>10. exports[d] \subseteq Bound(RewrittenBody(p, exports, m))  BY <2>7, <2>8, <2>9, CallBinds
  <2>11. x \in exports[d]  BY <1>2, <1>6, <2>9 DEF InitialRegistry, Exports
  <2>. QED  BY <1>7, <2>10, <2>11
<1>9. CASE ~\E k \in 1 .. n : Code(p, m)[k][1] # "call" /\ Code(p, m)[k][2] = x
  <2>1. PICK f \in SupportNames(p, m) \cap DOMAIN Target : x = Target[f]
    BY <1>4, <1>7, <1>9 DEF Named, Range
  <2>2. Sole(p, d, f)  BY <1>2, <2>1, DirectModule
  <2>. QED  BY <2>1, <2>2, SoleOwner
<1>. QED  BY <1>8, <1>9

(* A call takes all that the text of the caller names. *)
LEMMA NarrowHas ==
  ASSUME NEW p, IsProgram(p), Direct(p), NEW m \in Modules, NEW d \in Modules, d # m,
         NEW x \in SupportNames(p, d) \cap Named(p, m), Sole(p, d, x)
  PROVE  p.kind[d] = "lazy" /\ x \in Narrowed(p, m)[d]
<1>1. p.kind[d] = "lazy"  BY DirectModule DEF IsProgram
<1>2. x \notin SupportNames(p, m)  BY SoleOwner
<1>3. x \in FinalExports(p, d)  BY <1>1 DEF FinalExports, Exports
<1>. QED  BY <1>1, <1>2, <1>3 DEF Narrowed, External, Direct

(* A call takes only names of the caller's text, and none that another module alone declares. *)
LEMMA NarrowOwn ==
  ASSUME NEW p, IsProgram(p), Direct(p), NEW m \in Modules, NEW d \in Modules,
         NEW x \in Narrowed(p, m)[d]
  PROVE  /\ d # m /\ x \in FinalExports(p, d) /\ x \notin SupportNames(p, m)
         /\ \A c : Sole(p, c, x) => c = d
<1>1. d # m /\ x \in FinalExports(p, d) /\ x \notin SupportNames(p, m)
  BY DEF Narrowed, External, Direct
<1>. QED  BY <1>1, ExportsOwn

(* What a module names: *)
LEMMA NamedIn ==
  ASSUME NEW p, IsProgram(p), NEW m \in Modules, NEW k \in 1 .. Len(Code(p, m)),
         Code(p, m)[k][1] # "call"
  PROVE  Code(p, m)[k][2] \in Named(p, m)
<1>1. Code(p, m)[k] \in Range(Code(p, m))  BY CodeShape DEF Range
<1>. QED  BY <1>1 DEF Named

(* The frame is a body at a call of the next one. *)
Waits(p, f, next) ==
  /\ f.part = "body" /\ f.at <= Len(Text(p, f))
  /\ IsCall(Text(p, f)[f.at].expression)
  /\ Text(p, f)[f.at].expression[2] = next.module

StackCalls(p, s) == \A k \in DOMAIN s : k + 1 \in DOMAIN s => Waits(p, s[k], s[k + 1])

BodiesOnce(s) ==
  \A j, k \in DOMAIN s :
    s[j].part = "body" /\ s[k].part = "body" /\ s[j].module = s[k].module => j = k

(* What there is of a module that was started, and of one that has returned. *)
Ended(s, st, b, c) ==
  \A m \in Modules :
    /\ m \in Range(b) => st[m] = "loaded" \/ Running(s, m)
    /\ c[m] # None => m \in Range(b) /\ ~Running(s, m)

(* A body has no copies of what its file declares. *)
Foreign(p, f) ==
  f.module # Driver =>
    /\ DOMAIN f.local \cap SupportNames(p, f.module) = {}
    /\ p.kind[f.module] = "cjs" => DOMAIN f.local = {}

(* What is declared once, or not, has its value in the file that declares it. *)
CellsKept(p, st, ce, c) ==
  \A m \in Modules :
    /\ st[m] # "absent" =>
         \A n \in SupportNames(p, m) :
           /\ n \in DOMAIN Target => ce[m][n] = m
           /\ n \in Variables => Sole(p, m, n) \/ ce[m][n] = Undefined
    /\ c[m] # None => \A n \in SupportNames(p, m) : Sole(p, m, n) => c[m][n] = ce[m][n]

(* The frame has taken x from d. *)
Copied(ce, f, d, x) ==
  LET scope == Over(f.local, ce[f.module]) IN x \in DOMAIN scope /\ scope[x] = ce[d][x]

(* What a body has called it has taken its names from. *)
Copies(p, f, ce, c) ==
  f.module # Driver /\ f.part = "body" =>
    \A j \in 1 .. f.at - 1 : IsCall(Text(p, f)[j].expression) =>
      \A d \in Modules : d = Text(p, f)[j].expression[2] =>
        \A x \in SupportNames(p, d) \cap Named(p, f.module) : Sole(p, d, x) =>
          c[d] # None /\ Copied(ce, f, d, x)

FramesDirect(p, s, ce, c) == \A k \in DOMAIN s : Foreign(p, s[k]) /\ Copies(p, s[k], ce, c)

(* What holds while a direct bundle runs. *)
DirectKept(p, s, st, b, ce, c) ==
  /\ StackCalls(p, s) /\ BodiesOnce(s) /\ Ended(s, st, b, c) /\ CellsKept(p, st, ce, c)
  /\ FramesDirect(p, s, ce, c)

DirectInv ==
  Direct(program) =>
    /\ outcome \in {"unpack", "run", "done"}
    /\ DirectKept(program, stack, status, started, cells, cache)

-----------------------------------------------------------------------------
(* Stacks of direct bundles *)

LEMMA CallsOnTop ==
  ASSUME NEW p, NEW u \in Seq(Frames), NEW f \in Frames, NEW t, t = Append(u, f)
  PROVE  StackCalls(p, t) <=> StackCalls(p, u) /\ (u # << >> => Waits(p, Last(u), f))
<1>1. PICK n \in Nat : n = Len(u) /\ DOMAIN u = 1 .. n  OBVIOUS
<1>2. /\ t \in Seq(Frames) /\ DOMAIN t = 1 .. n + 1
      /\ \A k \in 1 .. n : t[k] = u[k]
      /\ t[n + 1] = f
  <2>1. t \in Seq(Frames) /\ Len(t) = n + 1  BY <1>1, OnTop
  <2>. QED  BY <1>1, <2>1, OnTop
<1>3. u # << >> <=> n # 0  BY <1>1, EmptySeq
<1>4. Last(u) = u[n]  BY <1>1 DEF Last
<1>5. ASSUME StackCalls(p, t) PROVE StackCalls(p, u) /\ (u # << >> => Waits(p, Last(u), f))
  <2>1. ASSUME NEW k \in 1 .. n, k + 1 \in 1 .. n PROVE Waits(p, u[k], u[k + 1])
    <3>1. k \in 1 .. n + 1 /\ k + 1 \in 1 .. n + 1  BY <2>1
    <3>2. Waits(p, t[k], t[k + 1])  BY <1>2, <1>5, <3>1 DEF StackCalls
    <3>. QED  BY <1>2, <2>1, <3>2
  <2>2. ASSUME n # 0 PROVE Waits(p, u[n], f)
    <3>1. n \in 1 .. n + 1 /\ n + 1 \in 1 .. n + 1 /\ n \in 1 .. n  BY <2>2
    <3>2. Waits(p, t[n], t[n + 1])  BY <1>2, <1>5, <3>1 DEF StackCalls
    <3>. QED  BY <1>2, <3>1, <3>2
  <2>. QED  BY <1>1, <1>3, <1>4, <2>1, <2>2 DEF StackCalls
<1>6. ASSUME StackCalls(p, u), u # << >> => Waits(p, Last(u), f) PROVE StackCalls(p, t)
  <2>1. ASSUME NEW k \in 1 .. n + 1, k + 1 \in 1 .. n + 1 PROVE Waits(p, t[k], t[k + 1])
    <3>1. CASE k = n
      <4>1. n \in 1 .. n /\ n # 0  BY <2>1, <3>1
      <4>. QED  BY <1>2, <1>3, <1>4, <1>6, <3>1, <4>1
    <3>2. CASE k # n
      <4>1. k \in 1 .. n /\ k + 1 \in 1 .. n  BY <2>1, <3>2
      <4>2. Waits(p, u[k], u[k + 1])  BY <1>1, <1>6, <4>1 DEF StackCalls
      <4>. QED  BY <1>2, <4>1, <4>2
    <3>. QED  BY <3>1, <3>2
  <2>. QED  BY <1>2, <2>1 DEF StackCalls
<1>. QED  BY <1>5, <1>6

LEMMA OnceOnTop ==
  ASSUME NEW u \in Seq(Frames), NEW f \in Frames, NEW t, t = Append(u, f)
  PROVE  BodiesOnce(t) <=> BodiesOnce(u) /\ (f.part = "body" => ~Running(u, f.module))
<1>1. /\ \A k \in DOMAIN u : k \in DOMAIN t /\ t[k] = u[k]
      /\ \A k \in DOMAIN t : k \in DOMAIN u \/ k = Len(u) + 1
      /\ Len(u) + 1 \in DOMAIN t /\ t[Len(u) + 1] = f
      /\ \A k \in DOMAIN u : k # Len(u) + 1
  BY OnTop
<1>2. ASSUME BodiesOnce(t) PROVE BodiesOnce(u) /\ (f.part = "body" => ~Running(u, f.module))
  BY <1>1, <1>2 DEF BodiesOnce, Running
<1>3. ASSUME BodiesOnce(u), f.part = "body" => ~Running(u, f.module) PROVE BodiesOnce(t)
  <2>. SUFFICES ASSUME NEW j \in DOMAIN t, NEW k \in DOMAIN t, t[j].module = t[k].module,
                       t[j].part = "body", t[k].part = "body"
                PROVE  j = k
    BY DEF BodiesOnce
  <2>1. CASE j \in DOMAIN u /\ k \in DOMAIN u  BY <1>1, <1>3, <2>1 DEF BodiesOnce
  <2>2. CASE j \in DOMAIN u /\ k \notin DOMAIN u  BY <1>1, <1>3, <2>2 DEF Running
  <2>3. CASE j \notin DOMAIN u /\ k \in DOMAIN u  BY <1>1, <1>3, <2>3 DEF Running
  <2>4. CASE j \notin DOMAIN u /\ k \notin DOMAIN u  BY <1>1, <2>4
  <2>. QED  BY <2>1, <2>2, <2>3, <2>4
<1>. QED  BY <1>2, <1>3

(* What a body of a direct bundle calls. *)
LEMMA BodyCalls ==
  ASSUME NEW p, IsProgram(p), Direct(p), NEW f \in Frames, f.module # Driver, f.part = "body",
         NEW j \in 1 .. Len(Text(p, f)), IsCall(Text(p, f)[j].expression)
  PROVE  /\ f.module \in Modules
         /\ Text(p, f)[j].expression[2] \in Modules
         /\ Text(p, f)[j].expression[2] \in Calls(p, f.module)
         /\ Text(p, f)[j].expression[2] # f.module
<1>1. PICK m \in Modules : m = f.module  BY DEF Frames
<1>2. PICK n \in Nat : n = Len(Text(p, f)) /\ n = Len(Code(p, m)) /\ Code(p, m) \in Seq(Expression)
  <2>1. Whole(p, m) = Code(p, m)  BY <1>1 DEF Whole
  <2>2. Len(Text(p, f)) = Len(Code(p, m))  BY <1>1, <2>1, DirectText
  <2>. QED  BY <2>2, CodeShape
<1>3. PICK e : e = Code(p, m)[j]  OBVIOUS
<1>4. Text(p, f)[j].expression = e
  <2>1. Whole(p, m) = Code(p, m)  BY <1>1 DEF Whole
  <2>. QED  BY <1>1, <1>3, <2>1, DirectText DEF PlainStep
<1>5. e \in Expression /\ e \in Range(Code(p, m)) /\ e[1] = "call"
  BY <1>2, <1>3, <1>4, ElementOfSeq DEF Range, IsCall
<1>6. e[2] \in Modules /\ e[2] \in Calls(p, m)  BY <1>5, ExpressionKinds DEF Calls
<1>7. e[2] # m  BY <1>6, DirectCalls
<1>. QED  BY <1>1, <1>4, <1>6, <1>7

(* A module that is called does not run further down, and is not being loaded. *)
LEMMA NoCycle ==
  ASSUME NEW p, IsProgram(p), Direct(p), NEW s \in Seq(Frames), StackCalls(p, s),
         DriverFirst("run", s), s # << >>, NEW next, Waits(p, Last(s), next), next.module \in Modules
  PROVE  ~Running(s, next.module) /\ ~Loading(s, next.module)
<1>1. PICK n \in Nat : n = Len(s) /\ n > 0 /\ DOMAIN s = 1 .. n  BY EmptySeq
<1>2. PICK d \in Modules : d = next.module  OBVIOUS
<1>3. Last(s) = s[n]  BY <1>1 DEF Last
<1>4. \A k \in 1 .. n : s[k] \in Frames /\ (k # 1 => s[k].module \in Modules /\ s[k].module # Driver)
  <2>1. \A k \in 1 .. n : s[k] \in Frames  BY <1>1, ElementOfSeq
  <2>. QED  BY <1>1, <2>1 DEF DriverFirst, Frames
<1>5. ASSUME NEW k \in 1 .. n, s[k].module = d PROVE FALSE
  <2>1. k # 1
    <3>1. s[1].module = Driver  BY DEF DriverFirst
    <3>2. Driver \notin Modules  BY SplitBundleAssumption DEF SplitBundleAssumption
    <3>. QED  BY <1>5, <3>1, <3>2
  <2>. DEFINE cycle == {s[j].module : j \in k .. n}
  <2>2. \A j \in k .. n : j \in 1 .. n /\ j # 1  BY <2>1
  <2>3. cycle \in (SUBSET Modules) \ {{}}
    <3>1. s[k].module \in cycle  OBVIOUS
    <3>. QED  BY <1>4, <2>2, <3>1
  <2>4. ASSUME NEW j \in k .. n PROVE Calls(p, s[j].module) \cap cycle # {}
    <3>1. PICK g : Waits(p, s[j], g) /\ g.module \in cycle
      <4>1. CASE j = n
        <5>1. d \in cycle  BY <1>5
        <5>2. Waits(p, s[j], next)  BY <1>3, <4>1
        <5>. QED  BY <1>2, <5>1, <5>2
      <4>2. CASE j # n
        <5>1. j \in 1 .. n /\ j + 1 \in 1 .. n /\ j + 1 \in k .. n  BY <4>2
        <5>2. Waits(p, s[j], s[j + 1])  BY <1>1, <5>1 DEF StackCalls
        <5>. QED  BY <5>1, <5>2
      <4>. QED  BY <4>1, <4>2
    <3>2. PICK f \in Frames : f = s[j] /\ f.module # Driver  BY <1>4, <2>2
    <3>3. f.part = "body" /\ f.at <= Len(Text(p, f))
          /\ IsCall(Text(p, f)[f.at].expression) /\ Text(p, f)[f.at].expression[2] = g.module
      BY <3>1, <3>2 DEF Waits
    <3>4. Text(p, f) \in Seq(StepType)  BY <3>2, TextTyped
    <3>5. f.at \in 1 .. Len(Text(p, f))  BY <3>3, <3>4 DEF Frames
    <3>6. g.module \in Calls(p, f.module)  BY <3>2, <3>3, <3>5, BodyCalls
    <3>. QED  BY <3>1, <3>2, <3>6
  <2>. HIDE DEF cycle
  <2>5. PICK m \in cycle : Calls(p, m) \cap cycle = {}  BY <2>3, Zenon DEF Direct
  <2>6. PICK j \in k .. n : m = s[j].module  BY <2>5 DEF cycle
  <2>. QED  BY <2>4, <2>5, <2>6
<1>. QED  BY <1>1, <1>2, <1>5 DEF Running, Loading

(* A step that keeps what a body has taken from others that have returned. *)
Renewed(p, st, ce, c, de) ==
  \A d \in Modules : c[d] # None =>
    \A x \in Names : Sole(p, d, x) =>
      /\ de[d][x] = ce[d][x]
      /\ \A m \in Modules : st[m] # "absent" /\ m # d /\ x \in DOMAIN ce[m] =>
           x \in DOMAIN de[m] /\ (de[m][x] = ce[m][x] \/ de[m][x] = de[d][x])

MoreCached(c, e) == \A d \in Modules : c[d] # None => e[d] # None

LEMMA CopiesLater ==
  ASSUME NEW p, IsProgram(p), Direct(p), NEW f \in Frames,
         NEW ce \in [Modules -> Scopes], NEW de \in [Modules -> Scopes], NEW c, NEW e,
         NEW st, f.module # Driver => st[f.module] # "absent",
         MoreCached(c, e), Renewed(p, st, ce, c, de), f.at <= Len(Text(p, f)) + 1, Copies(p, f, ce, c)
  PROVE  Copies(p, f, de, e)
<1>. SUFFICES ASSUME f.module # Driver, f.part = "body",
                     NEW j \in 1 .. f.at - 1, IsCall(Text(p, f)[j].expression),
                     NEW d \in Modules, d = Text(p, f)[j].expression[2],
                     NEW x \in SupportNames(p, d) \cap Named(p, f.module), Sole(p, d, x)
              PROVE  e[d] # None /\ Copied(de, f, d, x)
  BY DEF Copies
<1>1. c[d] # None /\ e[d] # None /\ Copied(ce, f, d, x)  BY DEF Copies, MoreCached
<1>2. j \in 1 .. Len(Text(p, f))
  <2>1. Text(p, f) \in Seq(StepType)  BY TextTyped
  <2>. QED  BY <2>1 DEF Frames
<1>3. PICK m \in Modules : m = f.module /\ m # d  BY <1>2, BodyCalls
<1>4. x \in Names  BY NamesTyped
<1>5. PICK own \in Scopes, fresh \in Scopes : own = ce[m] /\ fresh = de[m]  OBVIOUS
<1>6. PICK local \in Scopes : local = f.local  BY DEF Frames
<1>7. /\ x \in DOMAIN Over(local, own) => x \in DOMAIN local \/ x \in DOMAIN own
      /\ x \in DOMAIN local => Over(local, own)[x] = local[x]
      /\ x \in DOMAIN own /\ x \notin DOMAIN local => Over(local, own)[x] = own[x]
      /\ x \in DOMAIN local => x \in DOMAIN Over(local, fresh) /\ Over(local, fresh)[x] = local[x]
      /\ x \in DOMAIN fresh => x \in DOMAIN Over(local, fresh)
      /\ x \in DOMAIN fresh /\ x \notin DOMAIN local => Over(local, fresh)[x] = fresh[x]
  BY DEF Over
<1>8. x \in DOMAIN Over(local, own) /\ Over(local, own)[x] = ce[d][x]
  BY <1>1, <1>3, <1>5, <1>6 DEF Copied
<1>9. /\ de[d][x] = ce[d][x]
      /\ x \in DOMAIN own => x \in DOMAIN fresh /\ (fresh[x] = own[x] \/ fresh[x] = de[d][x])
  BY <1>1, <1>3, <1>4, <1>5 DEF Renewed
<1>10. x \in DOMAIN Over(local, fresh) /\ Over(local, fresh)[x] = de[d][x]
  <2>1. CASE x \in DOMAIN local  BY <1>7, <1>8, <1>9, <2>1
  <2>2. CASE x \notin DOMAIN local  BY <1>7, <1>8, <1>9, <2>2
  <2>. QED  BY <2>1, <2>2
<1>. QED  BY <1>1, <1>3, <1>5, <1>6, <1>9, <1>10 DEF Copied

(* The frames that stay. *)
Under(u, s) == \A k \in DOMAIN u : k \in DOMAIN s /\ u[k] = s[k]

Inside(p, s, st) ==
  \A k \in DOMAIN s : /\ s[k].at <= Len(Text(p, s[k])) + 1
                      /\ s[k].module # Driver => st[s[k].module] # "absent"

LEMMA FramesStay ==
  ASSUME NEW p, IsProgram(p), Direct(p), NEW s \in Seq(Frames), NEW u \in Seq(Frames),
         NEW st, Under(u, s), Inside(p, s, st),
         NEW ce \in [Modules -> Scopes], NEW de \in [Modules -> Scopes], NEW c, NEW e,
         MoreCached(c, e), Renewed(p, st, ce, c, de), FramesDirect(p, s, ce, c)
  PROVE  FramesDirect(p, u, de, e)
<1>. SUFFICES ASSUME NEW k \in DOMAIN u PROVE Foreign(p, u[k]) /\ Copies(p, u[k], de, e)
  BY DEF FramesDirect
<1>1. PICK f \in Frames : f = u[k]  BY ElementOfSeq
<1>2. /\ Foreign(p, f) /\ Copies(p, f, ce, c) /\ f.at <= Len(Text(p, f)) + 1
      /\ f.module # Driver => st[f.module] # "absent"
  <2>1. k \in DOMAIN s /\ s[k] = f  BY <1>1 DEF Under
  <2>2. s[k].at <= Len(Text(p, s[k])) + 1 /\ (s[k].module # Driver => st[s[k].module] # "absent")
    BY <2>1 DEF Inside
  <2>3. Foreign(p, s[k]) /\ Copies(p, s[k], ce, c)  BY <2>1 DEF FramesDirect
  <2>. QED  BY <2>1, <2>2, <2>3
<1>3. Copies(p, f, de, e)  BY <1>2, CopiesLater
<1>. QED  BY <1>1, <1>2, <1>3

(* One more frame. *)
LEMMA FramesMore ==
  ASSUME NEW p, NEW u \in Seq(Frames), NEW f \in Frames, NEW t, t = Append(u, f), NEW ce, NEW c,
         FramesDirect(p, u, ce, c), Foreign(p, f), Copies(p, f, ce, c)
  PROVE  FramesDirect(p, t, ce, c)
<1>. SUFFICES ASSUME NEW k \in DOMAIN t PROVE Foreign(p, t[k]) /\ Copies(p, t[k], ce, c)
  BY DEF FramesDirect
<1>1. CASE k \in DOMAIN u
  <2>1. t[k] = u[k]  BY <1>1, OnTop
  <2>. QED  BY <1>1, <2>1 DEF FramesDirect
<1>2. CASE k \notin DOMAIN u
  <2>1. t[k] = f  BY <1>2, OnTop
  <2>. QED  BY <2>1
<1>. QED  BY <1>1, <1>2

(* A frame that was just made has copied nothing. *)
LEMMA NewFrameDirect ==
  ASSUME NEW p, IsProgram(p), Direct(p), NEW m \in Modules, NEW part \in {"body", "load"},
         NEW local \in SUBSET Names, local = {} \/ local = File(p, m).local,
         NEW f, f = Frame(m, part, local)
  PROVE  /\ f \in Frames /\ f.module = m /\ f.part = part /\ f.at = 1 /\ m # Driver
         /\ Foreign(p, f) /\ \A ce, c : Copies(p, f, ce, c)
<1>1. /\ f \in Frames /\ f.module = m /\ f.part = part /\ f.at = 1 /\ DOMAIN f.local = local
  BY NewFrame
<1>2. m # Driver  BY SplitBundleAssumption DEF SplitBundleAssumption
<1>3. Foreign(p, f)  BY <1>1, DirectFile DEF Foreign
<1>4. \A ce, c : Copies(p, f, ce, c)
  <2>1. 1 .. f.at - 1 = {}  BY <1>1
  <2>. QED  BY <2>1 DEF Copies
<1>. QED  BY <1>1, <1>2, <1>3, <1>4

(* What is known of all frames while a direct bundle runs. *)
LEMMA DirectFrames ==
  ASSUME IInv, DirectInv, Direct(program), outcome = "run", stack # << >>
  PROVE  /\ DirectKept(program, stack, status, started, cells, cache)
         /\ Inside(program, stack, status) /\ Under(Front(stack), stack)
         /\ cells \in [Modules -> Scopes] /\ cache \in [Modules -> Scopes \cup {None}]
         /\ StackCalls(program, Front(stack))
         /\ Front(stack) # << >> => Waits(program, Last(Front(stack)), Top)
         /\ BodiesOnce(Front(stack))
         /\ Top.part = "body" => ~Running(Front(stack), Top.module)
         /\ Foreign(program, Top) /\ Copies(program, Top, cells, cache)
<1>1. DirectKept(program, stack, status, started, cells, cache)  BY DEF DirectInv
<1>2. PICK u \in Seq(Frames), top \in Frames :
        u = Front(stack) /\ top = Top /\ stack = Append(u, top)
  BY Here
<1>3. /\ StackCalls(program, u) /\ (u # << >> => Waits(program, Last(u), top))
      /\ BodiesOnce(u) /\ (top.part = "body" => ~Running(u, top.module))
  BY <1>1, <1>2, CallsOnTop, OnceOnTop DEF DirectKept
<1>4. Inside(program, stack, status) /\ Under(Front(stack), stack)
  <2>. SUFFICES ASSUME NEW k \in DOMAIN stack
                PROVE  /\ stack[k].at <= Len(Text(program, stack[k])) + 1
                       /\ stack[k].module # Driver => status[stack[k].module] # "absent"
    BY <1>2, OnTop DEF Inside, Under
  <2>1. FrameKept(program, stack, status, started, stack[k])  BY DEF IInv, FramesKept
  <2>. QED  BY <2>1 DEF FrameKept, CallsDone, LocalsThere
<1>5. cells \in [Modules -> Scopes] /\ cache \in [Modules -> Scopes \cup {None}]
  BY DEF IInv, TypeOK
<1>6. Foreign(program, top) /\ Copies(program, top, cells, cache)
  <2>1. Len(u) + 1 \in DOMAIN stack /\ stack[Len(u) + 1] = top  BY <1>2, OnTop
  <2>. QED  BY <1>1, <2>1 DEF DirectKept, FramesDirect
<1>. QED  BY <1>1, <1>2, <1>3, <1>4, <1>5, <1>6

(* The next step of a direct bundle. *)
LEMMA DirectHere ==
  ASSUME IInv, Direct(program), InCode
  PROVE  /\ Top.part = "body" /\ Inner = NoNames /\ ~Step.inner
         /\ Len(Whole(program, Top.module)) \in Nat
         /\ Top.at \in 1 .. Len(Whole(program, Top.module))
         /\ Len(Text(program, Top)) = Len(Whole(program, Top.module))
         /\ Step = Text(program, Top)[Top.at]
         /\ PlainStep(program, Top.module, Step, Whole(program, Top.module)[Top.at])
<1>1. outcome = "run" /\ stack # << >> /\ Top.at <= Len(Steps(Top))  BY DEF InCode
<1>2. PICK p, top :
        /\ p = program /\ top = Top /\ top \in Frames /\ IsProgram(p) /\ Steps(Top) = Text(p, top)
        /\ top.module = Driver => top.part = "body"
  BY <1>1, Here
<1>3. Step = Text(p, top)[top.at]  BY <1>2, HereStep
<1>4. Text(p, top) \in Seq(StepType)  BY <1>2, TextTyped
<1>5. top.at \in 1 .. Len(Text(p, top))  BY <1>1, <1>2, <1>4 DEF Frames
<1>6. top.part = "body"
  <2>1. ASSUME top.part = "load" PROVE FALSE
    <3>1. Text(p, top) = << >>  BY <1>2, <2>1, DirectText
    <3>2. Len(Text(p, top)) = 0  BY <3>1
    <3>. QED  BY <1>5, <3>2
  <2>. QED  BY <1>2, <2>1 DEF Frames
<1>7. /\ Len(Text(p, top)) = Len(Whole(p, top.module))
      /\ PlainStep(p, top.module, Text(p, top)[top.at], Whole(p, top.module)[top.at])
  BY <1>2, <1>5, <1>6, DirectText
<1>8. Step.first /\ ~Step.inner  BY <1>3, <1>7 DEF PlainStep
<1>9. Inner = NoNames  BY <1>8 DEF Inner
<1>10. Len(Text(p, top)) \in Nat  BY <1>4
<1>. QED  BY <1>2, <1>3, <1>5, <1>6, <1>7, <1>8, <1>9, <1>10

(* A step of the body on top keeps what holds while a direct bundle runs, if what is
   declared once keeps its value, and the body has what it called. *)
LEMMA DirectMoves ==
  ASSUME IInv, DirectInv, Direct(program), InCode, NEW l \in Scopes, NEW g, g = Passed(Inner, l),
         NEW ce \in [Modules -> Scopes], stack' = Append(Front(stack), g), cells' = ce,
         UNCHANGED <<program, files, outcome, status, cache, started>>,
         Renewed(program, status, cells, cache, ce), CellsKept(program, status, ce, cache),
         Foreign(program, g), Copies(program, g, ce, cache)
  PROVE  DirectInv'
<1>1. outcome = "run" /\ stack # << >>  BY DEF InCode
<1>2. PICK p, s, u, top, t, st, b, c, old :
        /\ p = program /\ s = stack /\ u = Front(stack) /\ top = Top /\ t = Append(Front(stack), g)
        /\ st = status /\ b = started /\ c = cache /\ old = cells
  OBVIOUS
<1>3. /\ IsProgram(p) /\ Direct(p)
      /\ s \in Seq(Frames) /\ u \in Seq(Frames) /\ top \in Frames /\ s = Append(u, top)
  BY <1>1, <1>2, Here
<1>4. g \in Frames /\ g.module = top.module /\ g.part = top.part
  <2>1. Top \in Frames /\ Inner = NoNames  BY <1>2, <1>3, DirectHere
  <2>. QED  BY <1>2, <2>1, NoNamesScope, PassedFrame
<1>5. t = Append(u, g)  BY <1>2
<1>6. /\ StackCalls(p, u) /\ (u # << >> => Waits(p, Last(u), top))
      /\ BodiesOnce(u) /\ (top.part = "body" => ~Running(u, top.module))
      /\ Inside(p, s, st) /\ Under(u, s)
      /\ old \in [Modules -> Scopes]
      /\ DirectKept(p, s, st, b, old, c)
  BY <1>1, <1>2, DirectFrames
<1>7. StackCalls(p, t)
  <2>1. u # << >> => Waits(p, Last(u), g)  BY <1>4, <1>6 DEF Waits
  <2>. QED  BY <1>3, <1>4, <1>5, <1>6, <2>1, CallsOnTop
<1>8. BodiesOnce(t)  BY <1>3, <1>4, <1>5, <1>6, OnceOnTop
<1>9. Ended(t, st, b, c)
  <2>1. ASSUME NEW m PROVE Running(t, m) <=> Running(s, m)
    <3>1. Running(t, m) <=> Running(u, m) \/ (g.module = m /\ g.part = "body")
      BY <1>3, <1>4, <1>5, RunningOnTop
    <3>2. Running(s, m) <=> Running(u, m) \/ (top.module = m /\ top.part = "body")
      BY <1>3, RunningOnTop
    <3>. QED  BY <1>4, <3>1, <3>2
  <2>. QED  BY <1>6, <2>1 DEF DirectKept, Ended
<1>10. FramesDirect(p, t, ce, c)
  <2>1. FramesDirect(p, s, old, c) /\ MoreCached(c, c)  BY <1>6 DEF DirectKept, MoreCached
  <2>2. Renewed(p, st, old, c, ce) /\ Foreign(p, g) /\ Copies(p, g, ce, c)  BY <1>2
  <2>3. FramesDirect(p, u, ce, c)  BY <1>3, <1>6, <2>1, <2>2, FramesStay
  <2>. QED  BY <1>3, <1>4, <1>5, <2>2, <2>3, FramesMore
<1>11. DirectKept(p, t, st, b, ce, c)  BY <1>2, <1>7, <1>8, <1>9, <1>10 DEF DirectKept
<1>. QED  BY <1>1, <1>2, <1>11 DEF DirectInv

(* The names of the body that is on top are still there, with the values they had, or with
   those of the modules that have returned. *)
LocalRenewed(p, old, fresh, ce, c) ==
  \A d \in Modules : c[d] # None => \A x \in Names : Sole(p, d, x) =>
    /\ x \in DOMAIN old => x \in DOMAIN fresh
    /\ x \in DOMAIN fresh => (x \in DOMAIN old /\ fresh[x] = old[x]) \/ fresh[x] = ce[d][x]

(* What the body on top has copied, once it has moved on. *)
LEMMA PassedCopies ==
  ASSUME IInv, DirectInv, Direct(program), InCode, NEW l \in Scopes, NEW g, g = Passed(Inner, l),
         NEW ce \in [Modules -> Scopes], Renewed(program, status, cells, cache, ce),
         LocalRenewed(program, Top.local, l, ce, cache),
         Top.module # Driver /\ IsCall(Step.expression) =>
           \A d \in Modules : d = Step.expression[2] =>
             \A x \in SupportNames(program, d) \cap Named(program, Top.module) :
               Sole(program, d, x) => cache[d] # None /\ Copied(ce, g, d, x)
  PROVE  Copies(program, g, ce, cache)
<1>1. outcome = "run" /\ stack # << >>  BY DEF InCode
<1>2. PICK p, top, c, old :
        p = program /\ top = Top /\ top \in Frames /\ c = cache /\ old = cells /\ IsProgram(p)
  BY <1>1, Here
<1>3. /\ g.module = top.module /\ g.part = top.part /\ g.at = top.at + 1 /\ g.local = l
      /\ g \in Frames
  <2>1. Top \in Frames /\ Inner = NoNames  BY <1>2, DirectHere
  <2>. QED  BY <1>2, <2>1, NoNamesScope, PassedFrame
<1>4. Text(p, g) = Text(p, top)  BY <1>3 DEF Text
<1>5. PICK n \in Nat : n = top.at /\ n \in 1 .. Len(Text(p, top)) /\ Step = Text(p, top)[n]
  BY <1>2, DirectHere
<1>6. Copies(p, top, old, c) /\ old \in [Modules -> Scopes]  BY <1>1, <1>2, DirectFrames
<1>. SUFFICES ASSUME g.module # Driver, g.part = "body",
                     NEW j \in 1 .. g.at - 1, IsCall(Text(p, g)[j].expression),
                     NEW d \in Modules, d = Text(p, g)[j].expression[2],
                     NEW x \in SupportNames(p, d) \cap Named(p, g.module), Sole(p, d, x)
              PROVE  c[d] # None /\ Copied(ce, g, d, x)
  BY <1>2 DEF Copies
<1>7. CASE j = n
  <2>1. IsCall(Step.expression) /\ d = Step.expression[2]  BY <1>4, <1>5, <1>7
  <2>. QED  BY <1>2, <1>3, <2>1
<1>8. CASE j # n
  <2>1. j \in 1 .. top.at - 1 /\ j \in 1 .. Len(Text(p, top))  BY <1>3, <1>5, <1>8
  <2>2. c[d] # None /\ Copied(old, top, d, x)  BY <1>3, <1>4, <1>6, <2>1 DEF Copies
  <2>3. PICK m \in Modules : m = top.module /\ m # d  BY <1>2, <1>3, <1>4, <2>1, BodyCalls
  <2>4. x \in Names  BY <1>2, NamesTyped
  <2>5. status[m] # "absent"
    <3>1. FrameKept(program, stack, status, started, Top)  BY <1>1, Here
    <3>. QED  BY <1>2, <1>3, <2>3, <3>1 DEF FrameKept, LocalsThere
  <2>6. PICK own \in Scopes, fresh \in Scopes, local \in Scopes :
          own = old[m] /\ fresh = ce[m] /\ local = top.local
    BY <1>2, <1>6 DEF Frames
  <2>7. /\ ce[d][x] = old[d][x]
        /\ x \in DOMAIN own => x \in DOMAIN fresh /\ (fresh[x] = own[x] \/ fresh[x] = ce[d][x])
    BY <1>2, <2>2, <2>3, <2>4, <2>5, <2>6 DEF Renewed
  <2>8. /\ x \in DOMAIN local => x \in DOMAIN l
        /\ x \in DOMAIN l => (x \in DOMAIN local /\ l[x] = local[x]) \/ l[x] = ce[d][x]
    BY <1>2, <2>2, <2>4, <2>6 DEF LocalRenewed
  <2>9. x \in DOMAIN Over(local, own) /\ Over(local, own)[x] = old[d][x]
    BY <2>2, <2>3, <2>6 DEF Copied
  <2>10. /\ x \in DOMAIN Over(local, own) => x \in DOMAIN local \/ x \in DOMAIN own
         /\ x \in DOMAIN local => Over(local, own)[x] = local[x]
         /\ x \in DOMAIN own /\ x \notin DOMAIN local => Over(local, own)[x] = own[x]
         /\ x \in DOMAIN l => x \in DOMAIN Over(l, fresh) /\ Over(l, fresh)[x] = l[x]
         /\ x \in DOMAIN fresh => x \in DOMAIN Over(l, fresh)
         /\ x \in DOMAIN fresh /\ x \notin DOMAIN l => Over(l, fresh)[x] = fresh[x]
    BY DEF Over
  <2>11. x \in DOMAIN Over(l, fresh) /\ Over(l, fresh)[x] = ce[d][x]
    <3>1. CASE x \in DOMAIN l  BY <2>7, <2>8, <2>9, <2>10, <3>1
    <3>2. CASE x \notin DOMAIN l  BY <2>7, <2>8, <2>9, <2>10, <3>2
    <3>. QED  BY <3>1, <3>2
  <2>. QED  BY <1>3, <2>2, <2>3, <2>6, <2>11 DEF Copied
<1>. QED  BY <1>7, <1>8

LEMMA NoNamesOver ==
  ASSUME NEW a \in Scopes
  PROVE  Over(NoNames, a) = a
<1>1. DOMAIN Over(NoNames, a) = DOMAIN a /\ \A n \in DOMAIN a : Over(NoNames, a)[n] = a[n]
  BY DEF Over, NoNames
<1>2. Over(NoNames, a) = [n \in DOMAIN a |-> Over(NoNames, a)[n]]  BY <1>1 DEF Over
<1>3. a = [n \in DOMAIN a |-> a[n]]  BY DEF Scopes
<1>. QED  BY <1>1, <1>2, <1>3

(* Nothing of what is kept changes. *)
LEMMA NothingRenewed ==
  ASSUME NEW p, NEW st, NEW ce, NEW c
  PROVE  Renewed(p, st, ce, c, ce) /\ \A l : LocalRenewed(p, l, l, ce, c)
BY DEF Renewed, LocalRenewed

(* A look at a name, or a step with no names. *)
LEMMA DirectPasses ==
  ASSUME IInv, DirectInv, Direct(program), InCode, Advance(NoNames, "inner"),
         UNCHANGED <<program, files, outcome, status, cache, started>>,
         Top.module # Driver /\ IsCall(Step.expression) =>
           \A d \in Modules : d = Step.expression[2] =>
             \A x \in SupportNames(program, d) \cap Named(program, Top.module) :
               ~Sole(program, d, x)
  PROVE  /\ DirectInv' /\ cells' = cells
         /\ stack' = Append(Front(stack), Passed(Inner, Top.local))
<1>1. outcome = "run" /\ stack # << >>  BY DEF InCode
<1>2. PICK l : l = Top.local  OBVIOUS
<1>3. Inner = NoNames /\ l \in Scopes /\ Inner \in Scopes  BY <1>2, DirectHere, HereScope
<1>4. stack' = Append(Front(stack), Passed(Inner, l)) /\ cells' = cells
  <2>1. Over(NoNames, Inner) = Inner  BY <1>3, NoNamesOver
  <2>. QED  BY <1>2, <2>1 DEF Advance
<1>5. PICK g : g = Passed(Inner, l)  OBVIOUS
<1>6. Top \in Frames  BY <1>1, Here
<1>7. Foreign(program, g)
  <2>1. Foreign(program, Top)  BY <1>1, DirectFrames
  <2>2. g.module = Top.module /\ g.local = Top.local  BY <1>2, <1>3, <1>5, <1>6, PassedFrame
  <2>. QED  BY <2>1, <2>2 DEF Foreign
<1>8. cells \in [Modules -> Scopes] /\ CellsKept(program, status, cells, cache)
  BY <1>1, DirectFrames DEF DirectKept
<1>9. Renewed(program, status, cells, cache, cells) /\ LocalRenewed(program, Top.local, l, cells, cache)
  BY <1>2, NothingRenewed
<1>10. Copies(program, g, cells, cache)  BY <1>3, <1>5, <1>8, <1>9, PassedCopies
<1>11. DirectInv'  BY <1>3, <1>4, <1>5, <1>7, <1>8, <1>9, <1>10, DirectMoves
<1>. QED  BY <1>2, <1>4, <1>11

-----------------------------------------------------------------------------
(* The steps of a direct bundle *)

(* What a call does: cycles there are none, and files are whole. *)
LEMMA DirectCall ==
  ASSUME IInv, DirectInv, Direct(program), Call, NEW d, d = Step.expression[2]
  PROVE  /\ InCode /\ Step.expression[1] = "call" /\ d \in Modules /\ d # Top.module
         /\ ~Running(stack, d) /\ ~Loading(stack, d)
         /\ \A next : next.module = d => Waits(program, Top, next)
         /\ Step.binds # {} => Top.module \in Modules /\ program.kind[d] = "lazy"
                                 /\ Step.binds = Narrowed(program, Top.module)[d]
         /\ Top.module # Driver /\ program.kind[d] = "lazy" =>
              Step.binds = Narrowed(program, Top.module)[d]
         /\ \/ status[d] = "absent" /\ d \notin Range(started) /\ LoadText(d)
            \/ status[d] = "loaded" /\ d \notin Range(started) /\ Start(d)
            \/ /\ status[d] = "loaded" /\ d \in Range(started)
               /\ ~(Step.binds # {} /\ cache[d] = None) /\ CallStarted(d)
<1>1. InCode /\ Step.expression[1] = "call" /\ outcome = "run" /\ stack # << >>
  BY DEF Call, Does, InCode
<1>2. PICK p, s, top :
        /\ p = program /\ s = stack /\ top = Top /\ top \in Frames /\ IsProgram(p)
        /\ s \in Seq(Frames) /\ Top = Last(s) /\ files = Files(p)
        /\ top.module # Driver => top.module \in Modules
  BY <1>1, Here DEF Top
<1>3. d \in Modules  BY <1>1, HereStep, ExpressionKinds
<1>4. PICK n \in Nat : /\ n = top.at /\ n \in 1 .. Len(Text(p, top)) /\ Step = Text(p, top)[n]
                       /\ top.part = "body"
                       /\ PlainStep(p, top.module, Step, Whole(p, top.module)[n])
  BY <1>1, <1>2, DirectHere
<1>5. ASSUME NEW next, next.module = d PROVE Waits(p, top, next)
  <2>1. n <= Len(Text(p, top))
    <3>1. Text(p, top) \in Seq(StepType)
      <4>1. top.module = Driver => top.part = "body"  BY <1>4
      <4>. QED  BY <1>2, <4>1, TextTyped
    <3>. QED  BY <1>4, <3>1
  <2>. QED  BY <1>1, <1>4, <1>5, <2>1 DEF Waits, IsCall
<1>6. ~Running(s, d) /\ ~Loading(s, d)
  <2>1. DriverFirst("run", s)  BY <1>1, <1>2 DEF IInv
  <2>2. StackCalls(p, s)  BY <1>1, <1>2, DirectFrames DEF DirectKept
  <2>3. PICK next : next = [module |-> d]  OBVIOUS
  <2>4. next.module = d  BY <2>3
  <2>5. Waits(p, Last(s), next)  BY <1>2, <1>5, <2>4
  <2>. QED  BY <1>1, <1>2, <1>3, <2>1, <2>2, <2>4, <2>5, NoCycle
<1>7. d # top.module
  <2>1. s = Append(Front(s), top) /\ Front(s) \in Seq(Frames)  BY <1>1, <1>2, TopOfStack
  <2>2. Running(s, top.module)  BY <1>2, <1>4, <2>1, RunningOnTop
  <2>. QED  BY <1>6, <2>2
<1>8. Step.binds = IF top.module # Driver /\ p.kind[d] = "lazy"
                   THEN Narrowed(p, top.module)[d] ELSE {}
  <2>1. PICK e : e = Whole(p, top.module)[n]  OBVIOUS
  <2>2. e[1] = "call" /\ e[2] = d  BY <1>1, <1>4, <2>1 DEF PlainStep
  <2>. QED  BY <1>4, <2>1, <2>2 DEF PlainStep
<1>9. /\ Step.binds # {} => top.module \in Modules /\ p.kind[d] = "lazy"
                              /\ Step.binds = Narrowed(p, top.module)[d]
      /\ top.module # Driver /\ p.kind[d] = "lazy" => Step.binds = Narrowed(p, top.module)[d]
  BY <1>2, <1>8
<1>10. /\ status[d] = "absent" => d \notin Range(started)
       /\ status[d] # "loading"
       /\ status[d] \in {"absent", "loading", "loaded"}
  <2>1. StartedOnce(s, status, started)  BY <1>2 DEF IInv
  <2>2. Ended(s, status, started, cache)  BY <1>1, <1>2, DirectFrames DEF DirectKept
  <2>3. status[d] \in {"absent", "loading", "loaded"}  BY <1>3 DEF IInv, TypeOK
  <2>. QED  BY <1>3, <1>6, <2>1, <2>2, <2>3 DEF StartedOnce, Ended
<1>11. d \in Range(started) => ~(Step.binds # {} /\ cache[d] = None)
  <2>1. CacheKept(p, s, started, cache)  BY <1>2 DEF IInv
  <2>. QED  BY <1>3, <1>6, <1>9, <2>1 DEF CacheKept
<1>12. CASE status[d] = "absent"
  <2>1. Load(d)  BY <1>2, <1>7, <1>12 DEF Call
  <2>2. ~files[d].empty /\ ~files[d].twice  BY <1>2, <1>3, DirectFile, FilesOf
  <2>3. LoadText(d)  BY <2>1, <2>2 DEF Load
  <2>. QED  BY <1>1, <1>2, <1>3, <1>5, <1>6, <1>7, <1>9, <1>10, <1>12, <2>3
<1>13. CASE status[d] = "loaded" /\ d \notin Range(started)
  <2>1. ~files[d].empty  BY <1>2, <1>3, DirectFile, FilesOf
  <2>2. Start(d)  BY <1>2, <1>7, <1>13, <2>1 DEF Call, Initialised
  <2>. QED  BY <1>1, <1>2, <1>3, <1>5, <1>6, <1>7, <1>9, <1>13, <2>2
<1>14. CASE status[d] = "loaded" /\ d \in Range(started)
  <2>1. CallStarted(d)  BY <1>2, <1>7, <1>14 DEF Call, Initialised
  <2>. QED  BY <1>1, <1>2, <1>3, <1>5, <1>6, <1>7, <1>9, <1>11, <1>14, <2>1
<1>. QED  BY <1>10, <1>12, <1>13, <1>14

(* The file of a module is loaded. *)
LEMMA DirectLoad ==
  ASSUME IInv, DirectInv, Direct(program), Call, NEW d \in Modules, d = Step.expression[2],
         status[d] = "absent", LoadText(d)
  PROVE  /\ DirectInv' /\ stack' = Append(stack, Frame(d, "load", {}))
         /\ UNCHANGED <<program, outcome, started, seen>>
         /\ status' = [status EXCEPT ![d] = "loading"]
         /\ \A m \in Modules : m # d => cells'[m] = cells[m]
         /\ \A x \in Variables \cap SupportNames(program, d) : cells'[d][x] = Undefined
<1>1. /\ InCode /\ ~Running(stack, d)
      /\ \A next : next.module = d => Waits(program, Top, next)
  BY DirectCall
<1>2. outcome = "run" /\ stack # << >>  BY <1>1 DEF InCode
<1>3. PICK p, s, st, b, c, old :
        /\ p = program /\ s = stack /\ st = status /\ b = started /\ c = cache /\ old = cells
        /\ IsProgram(p) /\ s \in Seq(Frames) /\ files = Files(p) /\ Top = Last(s)
  BY <1>2, Here DEF Top
<1>4. PICK f : f = Frame(d, "load", {})  OBVIOUS
<1>5. PICK t : t = Append(s, f)  OBVIOUS
<1>6. PICK made : made = [n \in files[d].declared |->
             IF n \in DOMAIN Target \cap SupportNames(p, d) THEN d ELSE Undefined]
  OBVIOUS
<1>7. PICK su, ce : su = [st EXCEPT ![d] = "loading"] /\ ce = [old EXCEPT ![d] = made]
  OBVIOUS
<1>8. /\ stack' = t /\ status' = su /\ cells' = ce
      /\ UNCHANGED <<program, files, outcome, cache, started, seen>>
  BY <1>3, <1>4, <1>5, <1>6, <1>7 DEF LoadText
<1>9. /\ f \in Frames /\ f.module = d /\ f.part = "load" /\ Foreign(p, f)
      /\ \A ke, kc : Copies(p, f, ke, kc)
  <2>1. {} \in SUBSET Names  OBVIOUS
  <2>. QED  BY <1>3, <1>4, <2>1, NewFrameDirect
<1>10. /\ DirectKept(p, s, st, b, old, c) /\ Inside(p, s, st)
       /\ old \in [Modules -> Scopes] /\ c \in [Modules -> Scopes \cup {None}]
  BY <1>2, <1>3, DirectFrames
<1>11. /\ st \in [Modules -> {"absent", "loading", "loaded"}] /\ ce \in [Modules -> Scopes]
  <2>1. IInv'  BY CallKept
  <2>2. cells' \in [Modules -> Scopes]  BY <2>1 DEF IInv, TypeOK
  <2>3. st \in [Modules -> {"absent", "loading", "loaded"}]  BY <1>3 DEF IInv, TypeOK
  <2>. QED  BY <1>8, <2>2, <2>3
<1>12. /\ ce[d] = made /\ \A m \in Modules : m # d => ce[m] = old[m] /\ su[m] = st[m]
       /\ su[d] = "loading" /\ st[d] = "absent"
  BY <1>3, <1>7, <1>10, <1>11
<1>13. ASSUME NEW n \in SupportNames(p, d)
       PROVE  made[n] = IF n \in DOMAIN Target THEN d ELSE Undefined
  <2>1. files[d] = File(p, d)  BY <1>3, FilesOf
  <2>2. n \in files[d].declared  BY <1>3, <2>1, DirectFile
  <2>. QED  BY <1>6, <2>2
<1>14. d \notin Range(b) /\ c[d] = None
  <2>1. StartedOnce(s, st, b)  BY <1>3 DEF IInv
  <2>2. d \notin Range(b)  BY <1>12, <2>1 DEF StartedOnce
  <2>. QED  BY <1>10, <2>2 DEF DirectKept, Ended
<1>15. StackCalls(p, t)
  <2>1. Waits(p, Last(s), f)  BY <1>1, <1>3, <1>9
  <2>. QED  BY <1>3, <1>5, <1>9, <1>10, <2>1, CallsOnTop DEF DirectKept
<1>16. BodiesOnce(t)  BY <1>3, <1>5, <1>9, <1>10, OnceOnTop DEF DirectKept
<1>17. Ended(t, su, b, c)
  <2>. SUFFICES ASSUME NEW m \in Modules
                PROVE  /\ m \in Range(b) => su[m] = "loaded" \/ Running(t, m)
                       /\ c[m] # None => m \in Range(b) /\ ~Running(t, m)
    BY DEF Ended
  <2>1. Running(t, m) <=> Running(s, m)  BY <1>3, <1>5, <1>9, RunningOnTop
  <2>2. /\ m \in Range(b) => st[m] = "loaded" \/ Running(s, m)
        /\ c[m] # None => m \in Range(b) /\ ~Running(s, m)
    BY <1>10 DEF DirectKept, Ended
  <2>. QED  BY <1>12, <1>14, <2>1, <2>2
<1>18. CellsKept(p, su, ce, c)
  <2>. SUFFICES ASSUME NEW m \in Modules
                PROVE  /\ su[m] # "absent" =>
                            \A n \in SupportNames(p, m) :
                              /\ n \in DOMAIN Target => ce[m][n] = m
                              /\ n \in Variables => Sole(p, m, n) \/ ce[m][n] = Undefined
                       /\ c[m] # None =>
                            \A n \in SupportNames(p, m) : Sole(p, m, n) => c[m][n] = ce[m][n]
    BY DEF CellsKept
  <2>1. CASE m = d
    <3>1. Variables \cap DOMAIN Target = {}  BY SplitBundleAssumption DEF SplitBundleAssumption
    <3>. QED  BY <1>12, <1>13, <1>14, <2>1, <3>1
  <2>2. CASE m # d
    <3>1. CellsKept(p, st, old, c)  BY <1>10 DEF DirectKept
    <3>. QED  BY <1>12, <2>2, <3>1 DEF CellsKept
  <2>. QED  BY <2>1, <2>2
<1>19. FramesDirect(p, t, ce, c)
  <2>1. Renewed(p, st, old, c, ce)  BY <1>12, <1>14 DEF Renewed
  <2>2. MoreCached(c, c) /\ Under(s, s)  BY DEF MoreCached, Under
  <2>3. FramesDirect(p, s, old, c) /\ Direct(p)  BY <1>3, <1>10 DEF DirectKept
  <2>4. FramesDirect(p, s, ce, c)
    BY <1>3, <1>10, <1>11, <2>1, <2>2, <2>3, FramesStay
  <2>. QED  BY <1>3, <1>5, <1>9, <2>4, FramesMore
<1>20. DirectKept(p, t, su, b, ce, c)  BY <1>15, <1>16, <1>17, <1>18, <1>19 DEF DirectKept
<1>21. DirectInv'  BY <1>2, <1>3, <1>8, <1>20 DEF DirectInv
<1>22. \A x \in Variables \cap SupportNames(p, d) : ce[d][x] = Undefined
  <2>1. Variables \cap DOMAIN Target = {}  BY SplitBundleAssumption DEF SplitBundleAssumption
  <2>. QED  BY <1>12, <1>13, <2>1
<1>. QED  BY <1>3, <1>4, <1>5, <1>7, <1>8, <1>12, <1>21, <1>22

(* A body is started. *)
LEMMA DirectStart ==
  ASSUME IInv, DirectInv, Direct(program), Call, NEW d \in Modules, d = Step.expression[2],
         d \notin Range(started), Start(d)
  PROVE  /\ DirectInv' /\ stack' = Append(stack, Frame(d, "body", files[d].local))
         /\ Frame(d, "body", files[d].local) \in Frames
         /\ started' = Append(started, d)
         /\ UNCHANGED <<program, outcome, status, cells, seen>>
<1>1. /\ InCode /\ ~Running(stack, d)
      /\ \A next : next.module = d => Waits(program, Top, next)
  BY DirectCall
<1>2. outcome = "run" /\ stack # << >>  BY <1>1 DEF InCode
<1>3. PICK p, s, st, b, c, ce :
        /\ p = program /\ s = stack /\ st = status /\ b = started /\ c = cache /\ ce = cells
        /\ IsProgram(p) /\ s \in Seq(Frames) /\ files = Files(p) /\ Top = Last(s)
        /\ b \in Seq(Modules)
  BY <1>2, Here DEF Top, IInv, TypeOK
<1>4. PICK local \in SUBSET Names : local = files[d].local /\ local = File(p, d).local
  <2>1. files[d].local = File(p, d).local  BY <1>3, FilesOf
  <2>2. Shaped(p, d, File(p, d))  BY <1>3, FileShape
  <2>. QED  BY <2>1, <2>2 DEF Shaped
<1>5. PICK f : f = Frame(d, "body", local)  OBVIOUS
<1>6. PICK t, more : t = Append(s, f) /\ more = Append(b, d)  OBVIOUS
<1>7. /\ stack' = t /\ started' = more
      /\ UNCHANGED <<program, files, outcome, status, cells, cache, seen>>
  BY <1>3, <1>4, <1>5, <1>6 DEF Start
<1>8. /\ f \in Frames /\ f.module = d /\ f.part = "body" /\ Foreign(p, f)
      /\ \A ke, kc : Copies(p, f, ke, kc)
  BY <1>3, <1>4, <1>5, NewFrameDirect
<1>9. DirectKept(p, s, st, b, ce, c)  BY <1>2, <1>3, DirectFrames
<1>10. Range(more) = Range(b) \cup {d}  BY <1>3, <1>6, StartedMore
<1>11. StackCalls(p, t)
  <2>1. Waits(p, Last(s), f)  BY <1>1, <1>3, <1>8
  <2>. QED  BY <1>3, <1>6, <1>8, <1>9, <2>1, CallsOnTop DEF DirectKept
<1>12. BodiesOnce(t)  BY <1>1, <1>3, <1>6, <1>8, <1>9, OnceOnTop DEF DirectKept
<1>13. Ended(t, st, more, c)
  <2>. SUFFICES ASSUME NEW m \in Modules
                PROVE  /\ m \in Range(more) => st[m] = "loaded" \/ Running(t, m)
                       /\ c[m] # None => m \in Range(more) /\ ~Running(t, m)
    BY DEF Ended
  <2>1. Running(t, m) <=> Running(s, m) \/ m = d  BY <1>3, <1>6, <1>8, RunningOnTop
  <2>2. /\ m \in Range(b) => st[m] = "loaded" \/ Running(s, m)
        /\ c[m] # None => m \in Range(b) /\ ~Running(s, m)
    BY <1>9 DEF DirectKept, Ended
  <2>. QED  BY <1>3, <1>10, <2>1, <2>2
<1>0. FramesDirect(p, t, ce, c)  BY <1>3, <1>6, <1>8, <1>9, FramesMore DEF DirectKept
<1>15. DirectKept(p, t, st, more, ce, c)  BY <1>9, <1>11, <1>12, <1>13, <1>0 DEF DirectKept
<1>16. DirectInv'  BY <1>2, <1>3, <1>7, <1>15 DEF DirectInv
<1>. QED  BY <1>3, <1>4, <1>5, <1>6, <1>7, <1>8, <1>16

(* What a module that has returned gives is what it has. *)
LEMMA GivenKept ==
  ASSUME IInv, DirectInv, Direct(program), outcome = "run", stack # << >>,
         NEW m \in Modules, NEW d \in Modules, cache[d] # None,
         NEW x \in Narrowed(program, m)[d], NEW e, Sole(program, e, x)
  PROVE  e = d /\ x \in DOMAIN cache[d] /\ cache[d][x] = cells[e][x]
<1>1. IsProgram(program)  BY Here
<1>2. e = d /\ x \in FinalExports(program, d)  BY <1>1, NarrowOwn
<1>3. DOMAIN cache[d] = FinalExports(program, d)  BY DEF IInv, CacheKept
<1>4. CellsKept(program, status, cells, cache)  BY DirectFrames DEF DirectKept
<1>5. x \in SupportNames(program, d)  BY <1>2, SoleOwner
<1>. QED  BY <1>2, <1>3, <1>4, <1>5 DEF CellsKept

(* The names of a call are taken. *)
LEMMA DirectTakes ==
  ASSUME IInv, DirectInv, Direct(program), Call, NEW d \in Modules, d = Step.expression[2],
         Step.binds # {}, cache[d] # None, CallStarted(d)
  PROVE  /\ DirectInv'
         /\ \A e \in Modules : SupportNames(program, e) # {} => cells'[e] = cells[e]
         /\ \E l \in Scopes : stack' = Append(Front(stack), Passed(Inner, l))
<1>1. /\ InCode /\ d # Top.module /\ Top.module \in Modules /\ program.kind[d] = "lazy"
      /\ Step.binds = Narrowed(program, Top.module)[d]
  BY DirectCall
<1>2. outcome = "run" /\ stack # << >>  BY <1>1 DEF InCode
<1>0. PICK m \in Modules : m = Top.module  BY <1>1
<1>3. PICK p, binds, local, inner, c, old, st :
        /\ p = program /\ m = Top.module /\ binds = Step.binds /\ local = Top.local
        /\ inner = Inner /\ c = cache /\ old = cells /\ st = status
  BY <1>0
<1>4. /\ IsProgram(p) /\ Direct(p) /\ Top \in Frames /\ m # Driver /\ m # d
      /\ binds = Narrowed(p, m)[d]
      /\ local \in Scopes /\ inner = NoNames /\ inner \in Scopes
      /\ Top.part = "body" /\ ~Step.inner
  <2>1. m # Driver  BY SplitBundleAssumption DEF SplitBundleAssumption
  <2>. QED  BY <1>1, <1>2, <1>3, <2>1, Here, HereScope, DirectHere
<1>5. /\ old \in [Modules -> Scopes] /\ CellsKept(p, st, old, c)
      /\ Foreign(p, Top) /\ st \in [Modules -> {"absent", "loading", "loaded"}]
  BY <1>2, <1>3, DirectFrames DEF DirectKept, IInv, TypeOK
<1>6. PICK values : values = [n \in binds |-> c[d][n]]  OBVIOUS
<1>7. ASSUME NEW x \in binds, NEW e, Sole(p, e, x)
      PROVE  e = d /\ values[x] = old[e][x]
  BY <1>2, <1>3, <1>4, <1>6, <1>7, GivenKept
<1>8. values \in Scopes /\ DOMAIN values = binds
  <2>1. DOMAIN c[d] = FinalExports(p, d) /\ c[d] \in Scopes
    BY <1>3 DEF IInv, TypeOK, CacheKept
  <2>2. binds \subseteq FinalExports(p, d)  BY <1>4, NarrowOwn
  <2>3. binds \in SUBSET Names  BY <1>4, <2>2, NamesTyped
  <2>4. \A n \in binds : c[d][n] \in Value  BY <2>1, <2>2 DEF Scopes
  <2>5. values \in [binds -> Value]  BY <1>6, <2>4
  <2>. QED  BY <2>3, <2>5 DEF Scopes
<1>9. binds \cap SupportNames(p, m) = {}  BY <1>4, NarrowOwn
<1>10. /\ Advance(values, DestructuredIn)
       /\ UNCHANGED <<program, files, outcome, status, cache, started, seen>>
  BY <1>3, <1>6 DEF CallStarted
<1>11. ASSUME NEW l \in Scopes, NEW ce \in [Modules -> Scopes],
              stack' = Append(Front(stack), Passed(inner, l)), cells' = ce,
              \A e \in Modules : SupportNames(p, e) # {} => ce[e] = old[e],
              Renewed(p, st, old, c, ce), LocalRenewed(p, local, l, ce, c),
              DOMAIN l \subseteq DOMAIN local \cup binds,
              p.kind[m] = "cjs" => DOMAIN l = {},
              \A x \in binds : /\ x \in DOMAIN Over(l, ce[m])
                               /\ Over(l, ce[m])[x] = values[x]
       PROVE  DirectInv'
  <2>1. PICK g : g = Passed(inner, l)  OBVIOUS
  <2>2. g.module = m /\ g.local = l  BY <1>3, <1>4, <2>1, PassedFrame
  <2>3. Foreign(p, g)  BY <1>3, <1>5, <1>9, <1>11, <2>2 DEF Foreign
  <2>4. CellsKept(p, st, ce, c)
    <3>. SUFFICES ASSUME NEW e \in Modules, NEW n \in SupportNames(p, e)
                  PROVE  /\ st[e] # "absent" =>
                              /\ n \in DOMAIN Target => ce[e][n] = e
                              /\ n \in Variables => Sole(p, e, n) \/ ce[e][n] = Undefined
                         /\ c[e] # None => (Sole(p, e, n) => c[e][n] = ce[e][n])
      BY DEF CellsKept
    <3>1. ce[e] = old[e]  BY <1>11
    <3>. QED  BY <1>5, <3>1 DEF CellsKept
  <2>5. ASSUME NEW x \in SupportNames(p, d) \cap Named(p, m), Sole(p, d, x)
        PROVE  c[d] # None /\ Copied(ce, g, d, x)
    <3>1. x \in binds  BY <1>4, <2>5, NarrowHas
    <3>2. values[x] = old[d][x]  BY <1>7, <2>5, <3>1
    <3>3. ce[d][x] = old[d][x]  BY <1>11
    <3>4. Copied(ce, g, d, x)  BY <1>11, <2>2, <3>1, <3>2, <3>3 DEF Copied
    <3>. QED  BY <1>3, <3>4
  <2>6. Copies(p, g, ce, c)
    <3>1. \A e \in Modules : e = Step.expression[2] =>
            \A x \in SupportNames(program, e) \cap Named(program, Top.module) :
              Sole(program, e, x) => cache[e] # None /\ Copied(ce, g, e, x)
      BY <1>3, <2>5
    <3>. QED  BY <1>1, <1>3, <1>4, <1>11, <2>1, <3>1, PassedCopies
  <2>. QED  BY <1>1, <1>3, <1>4, <1>10, <1>11, <2>1, <2>3, <2>4, <2>6, DirectMoves
<1>12. CASE p.kind[m] = "lazy"
  <2>1. DestructuredIn = "local"  BY <1>3, <1>4, <1>12 DEF DestructuredIn
  <2>2. PICK l : l = Over(values, local)  OBVIOUS
  <2>3. stack' = Append(Front(stack), Passed(inner, l)) /\ cells' = old
    BY <1>3, <1>10, <2>1, <2>2 DEF Advance
  <2>4. l \in Scopes /\ DOMAIN l = binds \cup DOMAIN local
    BY <1>4, <1>8, <2>2, OverScopes
  <2>5. Renewed(p, st, old, c, old)  BY NothingRenewed
  <2>6. \A x \in DOMAIN l : l[x] = IF x \in binds THEN values[x] ELSE local[x]
    BY <1>8, <2>2, <2>4 DEF Over
  <2>7. LocalRenewed(p, local, l, old, c)
    <3>. SUFFICES ASSUME NEW e \in Modules, c[e] # None, NEW x \in Names, Sole(p, e, x)
                  PROVE  /\ x \in DOMAIN local => x \in DOMAIN l
                         /\ x \in DOMAIN l =>
                              (x \in DOMAIN local /\ l[x] = local[x]) \/ l[x] = old[e][x]
      BY DEF LocalRenewed
    <3>1. CASE x \in binds  BY <1>7, <2>4, <2>6, <3>1
    <3>2. CASE x \notin binds  BY <2>4, <2>6, <3>2
    <3>. QED  BY <3>1, <3>2
  <2>8. \A x \in binds : x \in DOMAIN Over(l, old[m]) /\ Over(l, old[m])[x] = values[x]
    BY <2>4, <2>6 DEF Over
  <2>9. p.kind[m] # "cjs"  BY <1>12
  <2>10. DirectInv'  BY <1>5, <1>11, <2>3, <2>4, <2>5, <2>7, <2>8, <2>9
  <2>. QED  BY <1>3, <2>3, <2>4, <2>10
<1>13. CASE p.kind[m] # "lazy"
  <2>1. p.kind[m] = "cjs"  BY <1>4, <1>13 DEF IsProgram
  <2>2. SupportNames(p, m) = {}  BY <1>4, <2>1, DirectModule
  <2>3. DOMAIN local = {}  BY <1>3, <1>4, <1>5, <2>1 DEF Foreign
  <2>4. DestructuredIn = "top"  BY <1>3, <1>4, <1>13 DEF DestructuredIn
  <2>5. PICK ce : ce = [old EXCEPT ![m] = Over(values, old[m])]  OBVIOUS
  <2>6. stack' = Append(Front(stack), Passed(inner, local)) /\ cells' = ce
    BY <1>3, <1>10, <2>4, <2>5 DEF Advance
  <2>7. Over(values, old[m]) \in Scopes /\ DOMAIN Over(values, old[m]) = binds \cup DOMAIN old[m]
    BY <1>5, <1>8, OverScopes
  <2>8. /\ ce \in [Modules -> Scopes] /\ ce[m] = Over(values, old[m])
        /\ \A e \in Modules : e # m => ce[e] = old[e]
    BY <1>5, <2>5, <2>7
  <2>9. \A x \in DOMAIN ce[m] : ce[m][x] = IF x \in binds THEN values[x] ELSE old[m][x]
    BY <1>8, <2>7, <2>8 DEF Over
  <2>10. Renewed(p, st, old, c, ce)
    <3>. SUFFICES ASSUME NEW e \in Modules, c[e] # None, NEW x \in Names, Sole(p, e, x)
                  PROVE  /\ ce[e][x] = old[e][x]
                         /\ \A k \in Modules : st[k] # "absent" /\ k # e /\ x \in DOMAIN old[k] =>
                              x \in DOMAIN ce[k] /\ (ce[k][x] = old[k][x] \/ ce[k][x] = ce[e][x])
      BY DEF Renewed
    <3>1. e # m /\ ce[e] = old[e]  BY <2>2, <2>8, SoleOwner
    <3>2. ASSUME NEW k \in Modules, x \in DOMAIN old[k]
          PROVE  x \in DOMAIN ce[k] /\ (ce[k][x] = old[k][x] \/ ce[k][x] = ce[e][x])
      <4>1. CASE k # m  BY <2>8, <3>2, <4>1
      <4>2. CASE k = m
        <5>1. x \in DOMAIN ce[m]  BY <2>7, <2>8, <3>2, <4>2
        <5>2. CASE x \in binds  BY <1>7, <2>9, <3>1, <4>2, <5>1, <5>2
        <5>3. CASE x \notin binds  BY <2>9, <4>2, <5>1, <5>3
        <5>. QED  BY <5>2, <5>3
      <4>. QED  BY <4>1, <4>2
    <3>. QED  BY <3>1, <3>2
  <2>11. LocalRenewed(p, local, local, ce, c)  BY NothingRenewed
  <2>12. \A x \in binds : x \in DOMAIN Over(local, ce[m]) /\ Over(local, ce[m])[x] = values[x]
    <3>1. \A x \in binds : x \in DOMAIN ce[m]  BY <2>7, <2>8
    <3>. QED  BY <2>3, <2>9, <3>1 DEF Over
  <2>13. \A e \in Modules : SupportNames(p, e) # {} => ce[e] = old[e]  BY <2>2, <2>8
  <2>14. DirectInv'  BY <1>4, <1>11, <2>3, <2>6, <2>8, <2>10, <2>11, <2>12, <2>13
  <2>. QED  BY <1>3, <1>4, <2>6, <2>13, <2>14
<1>. QED  BY <1>12, <1>13

(* A call that takes no names. *)
LEMMA DirectAgain ==
  ASSUME IInv, DirectInv, Direct(program), Call, NEW d \in Modules, d = Step.expression[2],
         Step.binds = {}, CallStarted(d)
  PROVE  /\ DirectInv' /\ cells' = cells
         /\ stack' = Append(Front(stack), Passed(Inner, Top.local))
<1>1. /\ InCode
      /\ Top.module # Driver /\ program.kind[d] = "lazy" => Step.binds = Narrowed(program, Top.module)[d]
      /\ d # Top.module
  BY DirectCall
<1>2. /\ Advance(NoNames, "inner")
      /\ UNCHANGED <<program, files, outcome, status, cache, started>>
  BY DEF CallStarted
<1>3. outcome = "run" /\ stack # << >>  BY <1>1 DEF InCode
<1>4. ASSUME Top.module # Driver,
             NEW x \in SupportNames(program, d) \cap Named(program, Top.module),
             Sole(program, d, x)
      PROVE  FALSE
  <2>1. IsProgram(program) /\ Top.module \in Modules  BY <1>3, <1>4, Here
  <2>2. program.kind[d] = "lazy" /\ x \in Narrowed(program, Top.module)[d]
    BY <1>1, <1>4, <2>1, NarrowHas
  <2>. QED  BY <1>1, <1>4, <2>2
<1>. QED  BY <1>1, <1>2, <1>4, DirectPasses

(* The value of a name that is looked at is in the file that declares it. *)
LEMMA DirectName ==
  ASSUME IInv, DirectInv, Direct(program), InCode, ~IsCall(Step.expression),
         NEW x, x = Step.expression[2]
  PROVE  /\ x \in DOMAIN Scope /\ Top.module \in Modules /\ Top.module # Driver
         /\ status[Top.module] # "absent" /\ cache[Top.module] = None
         /\ Scope = Over(Top.local, cells[Top.module])
         /\ Step.expression[1] \in {"use", "set", "bump"}
         /\ \E d \in Modules : /\ Sole(program, d, x) /\ status[d] # "absent"
                               /\ Scope[x] = cells[d][x]
                               /\ Step.expression[1] # "use" => d = Top.module
         /\ Sole(program, Top.module, x) =>
              x \notin DOMAIN Top.local /\ x \in DOMAIN cells[Top.module]
<1>1. outcome = "run" /\ stack # << >>  BY DEF InCode
<1>2. PICK m : m = Top.module  OBVIOUS
<1>3. /\ m # Driver /\ m \in Modules /\ Step.expression \in Range(Code(program, m))
      /\ x \in Named(program, m) /\ status[m] # "absent"
  BY <1>2, HereName
<1>4. PICK p, local, own, c, ce, e :
        /\ p = program /\ local = Top.local /\ own = cells[m] /\ c = cache /\ ce = cells
        /\ e = Step.expression /\ own \in Scopes
  BY <1>3 DEF IInv, TypeOK
<1>5. /\ IsProgram(p) /\ Direct(p) /\ Top \in Frames /\ local \in Scopes
      /\ DirectKept(p, stack, status, started, ce, c) /\ Foreign(p, Top) /\ Copies(p, Top, ce, c)
      /\ Top.part = "body"
  BY <1>1, <1>4, Here, HereScope, DirectFrames, DirectHere
<1>6. Scope = Over(local, own)
  <2>1. Inner = NoNames  BY DirectHere
  <2>2. Over(local, own) \in Scopes  BY <1>4, <1>5, OverScopes
  <2>. QED  BY <1>2, <1>4, <2>1, <2>2, NoNamesOver DEF Scope
<1>7. PICK k \in 1 .. Len(Code(p, m)) : k = Top.at /\ e = Code(p, m)[k]
  <2>1. Whole(p, m) = Code(p, m)  BY <1>3 DEF Whole
  <2>. QED  BY <1>2, <1>4, <2>1, DirectHere DEF PlainStep
<1>8. e[1] \in {"use", "set", "bump"}
  <2>1. e \in Expression  BY <1>4, HereStep
  <2>. QED  BY <1>4, <2>1, ExpressionKinds DEF IsCall
<1>9. Running(stack, m)
  <2>1. stack = Append(Front(stack), Top) /\ Front(stack) \in Seq(Frames)  BY <1>1, Here
  <2>. QED  BY <1>2, <1>5, <2>1, RunningOnTop
<1>10. c[m] = None /\ m \in Range(started)
  <2>1. Ended(stack, status, started, c)  BY <1>5 DEF DirectKept
  <2>2. StartedOnce(stack, status, started)  BY DEF IInv
  <2>. QED  BY <1>3, <1>9, <2>1, <2>2 DEF Ended, StartedOnce
<1>11. ASSUME Sole(p, m, x)
       PROVE  x \in DOMAIN own /\ x \notin DOMAIN local /\ Scope[x] = own[x] /\ x \in DOMAIN Scope
  <2>1. x \in SupportNames(p, m)  BY <1>11, SoleOwner
  <2>2. x \in DOMAIN own
    <3>1. NamesThere(p, status, ce)  BY <1>4 DEF IInv
    <3>2. SupportNames(p, m) \subseteq File(p, m).declared /\ ~File(p, m).empty
      BY <1>3, <1>5, DirectFile
    <3>. QED  BY <1>3, <1>4, <2>1, <3>1, <3>2 DEF NamesThere
  <2>3. x \notin DOMAIN local  BY <1>2, <1>3, <1>4, <1>5, <2>1 DEF Foreign
  <2>. QED  BY <1>6, <2>2, <2>3 DEF Over
<1>12. DOMAIN Code(p, m) = 1 .. Len(Code(p, m))  BY <1>3, <1>5, CodeShape
<1>13. CASE Sole(p, m, x)
  BY <1>2, <1>3, <1>4, <1>6, <1>8, <1>10, <1>11, <1>13
<1>14. CASE ~Sole(p, m, x)
  <2>1. e[1] = "use"  BY <1>3, <1>4, <1>5, <1>7, <1>8, <1>12, <1>14, DirectModule
  <2>2. PICK j \in 1 .. k - 1 : Code(p, m)[j][1] = "call" /\ Sole(p, Code(p, m)[j][2], x)
    BY <1>3, <1>4, <1>5, <1>7, <1>12, <1>14, <2>1, DirectModule
  <2>3. PICK d \in Modules : d = Code(p, m)[j][2]  BY <2>2, SoleOwner
  <2>4. Text(p, Top)[j].expression = Code(p, m)[j]
    <3>1. Whole(p, m) = Code(p, m)  BY <1>3 DEF Whole
    <3>2. Len(Text(p, Top)) = Len(Code(p, m))  BY <1>2, <1>4, <3>1, DirectHere
    <3>3. j \in 1 .. Len(Text(p, Top))  BY <1>7, <2>2, <3>2
    <3>. QED  BY <1>2, <1>3, <1>5, <3>1, <3>3, DirectText DEF PlainStep
  <2>5. c[d] # None /\ Copied(ce, Top, d, x)
    <3>1. x \in SupportNames(p, d)  BY <2>2, <2>3, SoleOwner
    <3>. QED  BY <1>2, <1>3, <1>4, <1>5, <1>7, <2>2, <2>3, <2>4, <3>1 DEF Copies, IsCall
  <2>6. x \in DOMAIN Scope /\ Scope[x] = ce[d][x]
    BY <1>2, <1>4, <1>6, <2>5 DEF Copied
  <2>7. status[d] # "absent"
    <3>1. d \in Range(started)  BY <1>5, <2>3, <2>5 DEF DirectKept, Ended
    <3>2. StartedOnce(stack, status, started)  BY DEF IInv
    <3>. QED  BY <2>3, <3>1, <3>2 DEF StartedOnce
  <2>. QED  BY <1>2, <1>3, <1>4, <1>6, <1>8, <1>10, <1>14, <2>1, <2>2, <2>3, <2>6, <2>7
<1>. QED  BY <1>13, <1>14

LEMMA DirectUse ==
  ASSUME IInv, DirectInv, Direct(program), Use, NEW x, x = Step.expression[2]
  PROVE  /\ DirectInv' /\ UNCHANGED <<program, outcome, started, status, cells>>
         /\ stack' = Append(Front(stack), Passed(Inner, Top.local))
         /\ \E d \in Modules : /\ Sole(program, d, x) /\ status[d] # "absent"
                               /\ seen' = Append(seen, cells[d][x])
<1>1. InCode /\ Step.expression[1] = "use"  BY DEF Use, Does
<1>2. ~IsCall(Step.expression)  BY <1>1 DEF IsCall
<1>3. x \in DOMAIN Scope /\ \E d \in Modules : /\ Sole(program, d, x) /\ status[d] # "absent"
                                               /\ Scope[x] = cells[d][x]
  BY <1>1, <1>2, DirectName
<1>4. /\ Advance(NoNames, "inner") /\ seen' = Append(seen, Scope[x])
      /\ UNCHANGED <<program, files, outcome, status, cache, started>>
  BY <1>3 DEF Use
<1>5. DirectInv' /\ cells' = cells /\ stack' = Append(Front(stack), Passed(Inner, Top.local))
  BY <1>1, <1>2, <1>4, DirectPasses
<1>. QED  BY <1>3, <1>4, <1>5

(* Only x has another value. *)
OnlyOne(old, fresh, x) ==
  DOMAIN fresh = DOMAIN old /\ \A y \in DOMAIN fresh : y # x => fresh[y] = old[y]

(* A variable of the body's own file gets a value. *)
LEMMA DirectAssigns ==
  ASSUME IInv, DirectInv, Direct(program), InCode, ~IsCall(Step.expression),
         NEW m \in Modules, m = Top.module, NEW x \in Variables, Sole(program, m, x),
         NEW fresh \in Scopes, OnlyOne(cells[m], fresh, x),
         stack' = Append(Front(stack), Passed(Inner, Top.local)),
         cells' = [cells EXCEPT ![m] = fresh],
         UNCHANGED <<program, files, outcome, status, cache, started>>
  PROVE  DirectInv'
<1>1. outcome = "run" /\ stack # << >>  BY DEF InCode
<1>2. PICK p, old, c, st, l, g :
        /\ p = program /\ old = cells /\ c = cache /\ st = status /\ l = Top.local
        /\ g = Passed(Inner, Top.local)
  OBVIOUS
<1>3. /\ IsProgram(p) /\ Direct(p) /\ Top \in Frames /\ old \in [Modules -> Scopes]
      /\ CellsKept(p, st, old, c) /\ Foreign(p, Top) /\ c[m] = None /\ l \in Scopes
      /\ Inner \in Scopes
  BY <1>1, <1>2, Here, HereScope, DirectFrames, DirectName DEF DirectKept
<1>4. PICK ce : ce = [old EXCEPT ![m] = fresh]  OBVIOUS
<1>5. /\ ce \in [Modules -> Scopes] /\ ce[m] = fresh /\ \A e \in Modules : e # m => ce[e] = old[e]
  BY <1>3, <1>4
<1>6. \A n \in SupportNames(p, m) : n \in DOMAIN old[m]
  <2>1. NamesThere(p, st, old)  BY <1>2 DEF IInv
  <2>2. SupportNames(p, m) \subseteq File(p, m).declared /\ ~File(p, m).empty
    BY <1>3, DirectFile
  <2>3. st[m] # "absent"  BY <1>2, DirectName
  <2>. QED  BY <2>1, <2>2, <2>3 DEF NamesThere
<1>7. CellsKept(p, st, ce, c)
  <2>. SUFFICES ASSUME NEW e \in Modules, NEW n \in SupportNames(p, e)
                PROVE  /\ st[e] # "absent" =>
                            /\ n \in DOMAIN Target => ce[e][n] = e
                            /\ n \in Variables => Sole(p, e, n) \/ ce[e][n] = Undefined
                       /\ c[e] # None => (Sole(p, e, n) => c[e][n] = ce[e][n])
    BY DEF CellsKept
  <2>1. CASE e # m  BY <1>3, <1>5, <2>1 DEF CellsKept
  <2>2. CASE e = m /\ n = x
    <3>1. x \notin DOMAIN Target  BY SplitBundleAssumption DEF SplitBundleAssumption
    <3>. QED  BY <1>2, <1>3, <2>2, <3>1
  <2>3. CASE e = m /\ n # x
    <3>1. ce[m][n] = old[m][n]  BY <1>2, <1>5, <1>6, <2>3 DEF OnlyOne
    <3>. QED  BY <1>3, <2>3, <3>1 DEF CellsKept
  <2>. QED  BY <2>1, <2>2, <2>3
<1>8. Renewed(p, st, old, c, ce)
  <2>. SUFFICES ASSUME NEW e \in Modules, c[e] # None, NEW y \in Names, Sole(p, e, y)
                PROVE  /\ ce[e][y] = old[e][y]
                       /\ \A k \in Modules : st[k] # "absent" /\ k # e /\ y \in DOMAIN old[k] =>
                            y \in DOMAIN ce[k] /\ (ce[k][y] = old[k][y] \/ ce[k][y] = ce[e][y])
    BY DEF Renewed
  <2>1. e # m  BY <1>3
  <2>2. y # x  BY <1>2, <2>1, SoleOwner
  <2>. QED  BY <1>2, <1>5, <2>1, <2>2 DEF OnlyOne
<1>9. LocalRenewed(p, l, l, ce, c)  BY NothingRenewed
<1>10. Foreign(p, g)
  <2>1. g.module = m /\ g.local = l  BY <1>2, <1>3, PassedFrame
  <2>. QED  BY <1>2, <1>3, <2>1 DEF Foreign
<1>11. Copies(p, g, ce, c)  BY <1>2, <1>3, <1>5, <1>8, <1>9, PassedCopies
<1>. QED  BY <1>2, <1>3, <1>4, <1>5, <1>7, <1>8, <1>10, <1>11, DirectMoves

(* Only x changes, which m alone declares. *)
Assigns(p, m, x, v, st, old, fresh) ==
  /\ Sole(p, m, x) /\ st[m] # "absent" /\ fresh[m][x] = v
  /\ \A e \in Modules : e # m => fresh[e] = old[e]
  /\ \A y \in SupportNames(p, m) : y # x => fresh[m][y] = old[m][y]

LEMMA DirectSet ==
  ASSUME IInv, DirectInv, Direct(program), Set, NEW x, x = Step.expression[2]
  PROVE  /\ DirectInv' /\ UNCHANGED <<program, outcome, started, status, seen>>
         /\ stack' = Append(Front(stack), Passed(Inner, Top.local))
         /\ x \in Variables
         /\ \E m \in Modules : Assigns(program, m, x, "set", status, cells, cells')
<1>1. InCode /\ Step.expression[1] = "set"  BY DEF Set, Does
<1>2. ~IsCall(Step.expression)  BY <1>1 DEF IsCall
<1>3. PICK m \in Modules : /\ m = Top.module /\ status[m] # "absent" /\ Sole(program, m, x)
                           /\ x \notin DOMAIN Top.local /\ x \in DOMAIN cells[m]
  BY <1>1, <1>2, DirectName
<1>4. x \in Variables  BY <1>1, HereStep, ExpressionKinds
<1>5. Inner = NoNames /\ Inner \in Scopes /\ DOMAIN Inner = {} /\ cells \in [Modules -> Scopes]
  BY <1>1, DirectHere, NoNamesScope DEF IInv, TypeOK
<1>6. PICK values : values = [n \in {x} |-> "set"]  OBVIOUS
<1>7. Advance(values, "top") /\ UNCHANGED <<program, files, outcome, status, cache, started, seen>>
  <2>1. x \notin DOMAIN Inner  BY <1>5
  <2>. QED  BY <1>3, <1>6, <2>1 DEF Set
<1>8. PICK old, fresh : old \in Scopes /\ old = cells[m] /\ fresh = Over(values, old)  BY <1>5
<1>9. /\ stack' = Append(Front(stack), Passed(Inner, Top.local))
      /\ cells' = [cells EXCEPT ![m] = fresh]
  BY <1>3, <1>7, <1>8 DEF Advance
<1>10. /\ values \in Scopes /\ DOMAIN values = {x} /\ values[x] = "set"
  <2>1. values \in [{x} -> Value]  BY <1>6 DEF Value
  <2>2. {x} \in SUBSET Names  BY <1>4 DEF Names
  <2>. QED  BY <1>6, <2>1, <2>2 DEF Scopes
<1>11. /\ fresh \in Scopes /\ DOMAIN fresh = DOMAIN old /\ fresh[x] = "set"
       /\ \A y \in DOMAIN fresh : y # x => fresh[y] = old[y]
  <2>1. fresh \in Scopes /\ DOMAIN fresh = {x} \cup DOMAIN old  BY <1>8, <1>10, OverScopes
  <2>. QED  BY <1>3, <1>8, <1>10, <2>1 DEF Over
<1>12. DirectInv'
  <2>1. OnlyOne(cells[m], fresh, x)  BY <1>8, <1>11 DEF OnlyOne
  <2>2. UNCHANGED <<program, files, outcome, status, cache, started>>  BY <1>7
  <2>. QED  BY <1>1, <1>2, <1>3, <1>4, <1>9, <1>11, <2>1, <2>2, DirectAssigns
<1>13. /\ cells'[m] = fresh /\ \A e \in Modules : e # m => cells'[e] = cells[e]  BY <1>5, <1>9, <1>11
<1>14. \A y \in SupportNames(program, m) : y \in DOMAIN old
  <2>1. NamesThere(program, status, cells) /\ IsProgram(program)
    BY SplitBundleAssumption DEF SplitBundleAssumption, IInv, TypeOK
  <2>2. SupportNames(program, m) \subseteq File(program, m).declared /\ ~File(program, m).empty
    BY <2>1, DirectFile
  <2>. QED  BY <1>3, <1>8, <2>1, <2>2 DEF NamesThere
<1>15. Assigns(program, m, x, "set", status, cells, cells')
  BY <1>3, <1>8, <1>11, <1>13, <1>14 DEF Assigns
<1>. QED  BY <1>4, <1>7, <1>9, <1>12, <1>15

LEMMA DirectBump ==
  ASSUME IInv, DirectInv, Direct(program), Bump, NEW f, f = Step.expression[2]
  PROVE  /\ DirectInv' /\ UNCHANGED <<program, outcome, started, status, seen>>
         /\ stack' = Append(Front(stack), Passed(Inner, Top.local))
         /\ Target[f] \in Variables
         /\ \E m \in Modules : Assigns(program, m, Target[f], "bumped", status, cells, cells')
<1>1. InCode /\ Step.expression[1] = "bump"  BY DEF Bump, Does
<1>2. ~IsCall(Step.expression)  BY <1>1 DEF IsCall
<1>3. f \in DOMAIN Target  BY <1>1, HereStep, ExpressionKinds
<1>4. PICK x \in Variables : x = Target[f]
  BY <1>3, SplitBundleAssumption DEF SplitBundleAssumption
<1>5. PICK m \in Modules : /\ m = Top.module /\ status[m] # "absent" /\ Sole(program, m, f)
                           /\ f \in DOMAIN Scope /\ Scope[f] = cells[m][f]
  BY <1>1, <1>2, DirectName
<1>6. outcome = "run" /\ stack # << >>  BY <1>1 DEF InCode
<1>7. IsProgram(program) /\ cells \in [Modules -> Scopes]  BY <1>6, Here DEF IInv, TypeOK
<1>8. Scope[f] = m /\ m # Undefined
  <2>1. CellsKept(program, status, cells, cache)  BY <1>6, DirectFrames DEF DirectKept
  <2>2. f \in SupportNames(program, m)  BY <1>5, SoleOwner
  <2>3. cells[m][f] = m  BY <1>3, <1>5, <2>1, <2>2 DEF CellsKept
  <2>. QED  BY <1>5, <2>3, SplitBundleAssumption DEF SplitBundleAssumption
<1>9. Sole(program, m, x)  BY <1>3, <1>4, <1>5, <1>7, DirectModule
<1>10. \A y \in SupportNames(program, m) : y \in DOMAIN cells[m]
  <2>1. NamesThere(program, status, cells)  BY DEF IInv
  <2>2. SupportNames(program, m) \subseteq File(program, m).declared /\ ~File(program, m).empty
    BY <1>7, DirectFile
  <2>. QED  BY <1>5, <2>1, <2>2 DEF NamesThere
<1>11. x \in DOMAIN cells[m]  BY <1>9, <1>10, SoleOwner
<1>12. /\ stack' = Append(Front(stack), Passed(Inner, Top.local))
       /\ cells' = [cells EXCEPT ![m][x] = "bumped"]
       /\ UNCHANGED <<program, files, outcome, status, cache, started, seen>>
  BY <1>4, <1>5, <1>8, <1>11 DEF Bump
<1>13. PICK old \in Scopes : old = cells[m]  BY <1>7
<1>14. PICK fresh : fresh = [old EXCEPT ![x] = "bumped"]  OBVIOUS
<1>15. cells' = [cells EXCEPT ![m] = fresh]  BY <1>7, <1>12, <1>13, <1>14
<1>16. fresh \in Scopes /\ OnlyOne(old, fresh, x) /\ fresh[x] = "bumped"
  <2>1. PICK D : D \subseteq Names /\ old \in [D -> Value]  BY DEF Scopes
  <2>2. "bumped" \in Value  BY DEF Value
  <2>3. fresh \in [D -> Value] /\ \A y \in D : y # x => fresh[y] = old[y]  BY <1>14, <2>1, <2>2
  <2>4. fresh \in Scopes  BY <2>1, <2>3 DEF Scopes
  <2>. QED  BY <1>11, <1>13, <1>14, <2>1, <2>3, <2>4 DEF OnlyOne
<1>17. DirectInv'
  <2>1. OnlyOne(cells[m], fresh, x)  BY <1>13, <1>16
  <2>2. UNCHANGED <<program, files, outcome, status, cache, started>>  BY <1>12
  <2>. QED  BY <1>1, <1>2, <1>5, <1>9, <1>12, <1>15, <1>16, <2>1, <2>2, DirectAssigns
<1>18. cells'[m] = fresh /\ \A e \in Modules : e # m => cells'[e] = cells[e]  BY <1>7, <1>15
<1>19. Assigns(program, m, x, "bumped", status, cells, cells')
  <2>1. \A y \in SupportNames(program, m) : y # x => fresh[y] = old[y]
    BY <1>10, <1>13, <1>16 DEF OnlyOne
  <2>. QED  BY <1>5, <1>9, <1>13, <1>16, <1>18, <2>1 DEF Assigns
<1>. QED  BY <1>4, <1>12, <1>17, <1>19

(* What is left when the top of the stack is gone, or goes on as another. *)
LEMMA UnderTop ==
  ASSUME IInv, DirectInv, Direct(program), outcome = "run", stack # << >>, Top.module # Driver,
         Top.module \notin Range(started) \/ Top.part = "body", NEW ca,
         \A d \in Modules : d # Top.module => ca[d] = cache[d],
         cache[Top.module] = None
  PROVE  /\ StackCalls(program, Front(stack)) /\ BodiesOnce(Front(stack))
         /\ ~Running(Front(stack), Top.module)
         /\ FramesDirect(program, Front(stack), cells, ca)
         /\ Waits(program, Last(Front(stack)), Top) /\ Front(stack) # << >>
<1>1. PICK p, s, u, top, c, ce, st :
        /\ p = program /\ s = stack /\ u = Front(stack) /\ top = Top /\ c = cache /\ ce = cells
        /\ st = status
  OBVIOUS
<1>2. /\ IsProgram(p) /\ Direct(p) /\ s \in Seq(Frames) /\ u \in Seq(Frames) /\ top \in Frames
      /\ s = Append(u, top) /\ u # << >> /\ top.module \in Modules
  BY <1>1, Here
<1>3. /\ StackCalls(p, u) /\ Waits(p, Last(u), top) /\ BodiesOnce(u)
      /\ top.part = "body" => ~Running(u, top.module)
      /\ Inside(p, s, st) /\ Under(u, s) /\ ce \in [Modules -> Scopes]
      /\ FramesDirect(p, s, ce, c)
  BY <1>1, <1>2, DirectFrames DEF DirectKept
<1>4. ~Running(u, top.module)
  <2>1. CASE top.part = "body"  BY <1>3, <2>1
  <2>2. CASE top.module \notin Range(started)
    <3>1. StartedOnce(s, st, started)  BY <1>1 DEF IInv
    <3>2. ~Running(s, top.module)  BY <1>2, <2>2, <3>1 DEF StartedOnce
    <3>. QED  BY <1>2, <3>2, RunningOnTop
  <2>. QED  BY <1>1, <2>1, <2>2
<1>5. FramesDirect(p, u, ce, ca)
  <2>1. MoreCached(c, ca)  BY <1>1 DEF MoreCached
  <2>2. Renewed(p, st, ce, c, ce)  BY NothingRenewed
  <2>. QED  BY <1>2, <1>3, <2>1, <2>2, FramesStay
<1>. QED  BY <1>1, <1>2, <1>3, <1>4, <1>5

(* The files that there are stay there. *)
SameFiles(st, su) == \A m \in Modules : st[m] = "absent" <=> su[m] = "absent"

(* The file of a lazy module is loaded. *)
LEMMA DirectLoaded ==
  ASSUME IInv, DirectInv, Direct(program), Loaded, program.kind[Top.module] = "lazy"
  PROVE  /\ DirectInv' /\ UNCHANGED <<program, outcome, cells, started, seen>>
         /\ SameFiles(status, status')
         /\ stack' = Front(stack) /\ stack # << >> /\ Top.part = "load" /\ outcome = "run"
<1>1. AtEnd /\ Top.part = "load"  BY DEF Loaded
<1>2. outcome = "run" /\ stack # << >>  BY <1>1, AtItsEnd
<1>3. PICK m, p, s, u, top, c, ce, st, b :
        /\ p = program /\ s = stack /\ u = Front(stack) /\ top = Top /\ c = cache /\ ce = cells
        /\ st = status /\ b = started /\ m = Top.module
  OBVIOUS
<1>4. /\ s \in Seq(Frames) /\ u \in Seq(Frames) /\ top \in Frames /\ s = Append(u, top)
      /\ m \in Modules /\ m # Driver
  BY <1>1, <1>2, <1>3, Here
<1>5. /\ stack' = u /\ status' = [st EXCEPT ![m] = "loaded"]
      /\ UNCHANGED <<program, files, outcome, cells, cache, started, seen>>
  BY <1>3 DEF Loaded
<1>6. PICK su : su = [st EXCEPT ![m] = "loaded"]  OBVIOUS
<1>7. /\ Ended(s, st, b, c) /\ CellsKept(p, st, ce, c)
  BY <1>2, <1>3, DirectFrames DEF DirectKept
<1>8. st[m] = "loading" /\ m \notin Range(b) /\ c[m] = None
  <2>1. StartedOnce(s, st, b)  BY <1>3 DEF IInv
  <2>2. Loading(s, m)  BY <1>1, <1>3, <1>4, RunningOnTop
  <2>. QED  BY <1>4, <1>7, <2>1, <2>2 DEF StartedOnce, Ended
<1>9. \A e \in Modules : su[e] = IF e = m THEN "loaded" ELSE st[e]
  <2>1. st \in [Modules -> {"absent", "loading", "loaded"}]  BY <1>3 DEF IInv, TypeOK
  <2>. QED  BY <1>4, <1>6, <2>1
<1>10. StackCalls(p, u) /\ BodiesOnce(u) /\ FramesDirect(p, u, ce, c)
  BY <1>2, <1>3, <1>4, <1>8, UnderTop
<1>11. Ended(u, su, b, c)
  <2>1. \A e : Running(u, e) <=> Running(s, e)  BY <1>1, <1>3, <1>4, RunningOnTop
  <2>. QED  BY <1>7, <1>9, <2>1 DEF Ended
<1>12. CellsKept(p, su, ce, c)  BY <1>7, <1>8, <1>9 DEF CellsKept
<1>13. DirectKept(p, u, su, b, ce, c)  BY <1>10, <1>11, <1>12 DEF DirectKept
<1>14. DirectInv'  BY <1>2, <1>3, <1>5, <1>6, <1>13 DEF DirectInv
<1>15. SameFiles(st, su)  BY <1>8, <1>9 DEF SameFiles
<1>. QED  BY <1>1, <1>2, <1>3, <1>5, <1>6, <1>14, <1>15

(* The body of a CommonJs module is started behind the load of its file. *)
LEMMA DirectTurned ==
  ASSUME IInv, DirectInv, Direct(program), Loaded, program.kind[Top.module] # "lazy"
  PROVE  /\ DirectInv' /\ UNCHANGED <<program, outcome, cells, status, seen>>
         /\ Top.module \in Modules /\ Top.module \notin Range(started)
         /\ Frame(Top.module, "body", {}) \in Frames
         /\ stack' = Append(Front(stack), Frame(Top.module, "body", {}))
         /\ started' = Append(started, Top.module)
         /\ Front(stack) # << >> /\ Waits(program, Last(Front(stack)), Top)
         /\ stack # << >> /\ Top.part = "load" /\ outcome = "run"
<1>1. AtEnd /\ Top.part = "load"  BY DEF Loaded
<1>2. outcome = "run" /\ stack # << >>  BY <1>1, AtItsEnd
<1>3. PICK m, p, s, u, top, c, ce, st, b :
        /\ p = program /\ s = stack /\ u = Front(stack) /\ top = Top /\ c = cache /\ ce = cells
        /\ st = status /\ b = started /\ m = Top.module
  OBVIOUS
<1>4. /\ s \in Seq(Frames) /\ u \in Seq(Frames) /\ top \in Frames /\ s = Append(u, top)
      /\ m \in Modules /\ m # Driver /\ IsProgram(p) /\ Direct(p) /\ b \in Seq(Modules)
  BY <1>1, <1>2, <1>3, Here DEF IInv, TypeOK
<1>5. PICK f, t, more : f = Frame(m, "body", {}) /\ t = Append(u, f) /\ more = Append(b, m)
  OBVIOUS
<1>6. /\ stack' = t /\ started' = more
      /\ UNCHANGED <<program, files, outcome, status, cells, cache, seen>>
  BY <1>3, <1>5 DEF Loaded
<1>7. Ended(s, st, b, c) /\ CellsKept(p, st, ce, c)
  BY <1>2, <1>3, DirectFrames DEF DirectKept
<1>8. m \notin Range(b) /\ c[m] = None
  <2>1. StartedOnce(s, st, b)  BY <1>3 DEF IInv
  <2>2. Loading(s, m)  BY <1>1, <1>3, <1>4, RunningOnTop
  <2>. QED  BY <1>4, <1>7, <2>1, <2>2 DEF StartedOnce, Ended
<1>9. /\ StackCalls(p, u) /\ BodiesOnce(u) /\ FramesDirect(p, u, ce, c) /\ ~Running(u, m)
      /\ Waits(p, Last(u), top) /\ u # << >>
  BY <1>2, <1>3, <1>4, <1>8, UnderTop
<1>10. /\ f \in Frames /\ f.module = m /\ f.part = "body" /\ Foreign(p, f)
       /\ \A ke, kc : Copies(p, f, ke, kc)
  <2>1. {} \in SUBSET Names  OBVIOUS
  <2>. QED  BY <1>4, <1>5, <2>1, NewFrameDirect
<1>11. StackCalls(p, t)
  <2>1. Waits(p, Last(u), f)  BY <1>3, <1>9, <1>10 DEF Waits
  <2>. QED  BY <1>4, <1>5, <1>9, <1>10, <2>1, CallsOnTop
<1>12. BodiesOnce(t)  BY <1>4, <1>5, <1>9, <1>10, OnceOnTop
<1>13. Ended(t, st, more, c)
  <2>1. ASSUME NEW e PROVE Running(u, e) <=> Running(s, e)
    <3>1. Running(s, e) <=> Running(u, e) \/ (top.module = e /\ top.part = "body")
      BY <1>4, RunningOnTop
    <3>. QED  BY <1>1, <1>3, <3>1
  <2>2. ASSUME NEW e PROVE Running(t, e) <=> Running(u, e) \/ e = m
    <3>1. Running(t, e) <=> Running(u, e) \/ (f.module = e /\ f.part = "body")
      <4>1. t = Append(u, f)  BY <1>5
      <4>. QED  BY <1>4, <1>10, <4>1, RunningOnTop
    <3>. QED  BY <1>10, <3>1
  <2>3. Range(more) = Range(b) \cup {m}  BY <1>4, <1>5, StartedMore
  <2>. QED  BY <1>7, <1>8, <2>1, <2>2, <2>3 DEF Ended
<1>14. FramesDirect(p, t, ce, c)  BY <1>4, <1>5, <1>9, <1>10, FramesMore
<1>15. DirectKept(p, t, st, more, ce, c)  BY <1>7, <1>11, <1>12, <1>13, <1>14 DEF DirectKept
<1>16. DirectInv'  BY <1>2, <1>3, <1>6, <1>15 DEF DirectInv
<1>. QED  BY <1>1, <1>2, <1>3, <1>4, <1>5, <1>6, <1>8, <1>9, <1>10, <1>16

(* A body is at its end: what it returns is what its file has. *)
LEMMA DirectReturn ==
  ASSUME IInv, DirectInv, Direct(program), Return
  PROVE  /\ DirectInv' /\ UNCHANGED <<program, outcome, cells, started, seen>>
         /\ SameFiles(status, status')
         /\ stack' = Front(stack) /\ AtEnd /\ Top.part = "body"
         /\ Front(stack) # << >> /\ Waits(program, Last(Front(stack)), Top)
<1>1. AtEnd /\ Top.part = "body" /\ Top.module # Driver  BY DEF Return
<1>2. outcome = "run" /\ stack # << >>  BY <1>1, AtItsEnd
<1>3. PICK m, p, s, u, top, c, ce, st, b :
        /\ p = program /\ s = stack /\ u = Front(stack) /\ top = Top /\ c = cache /\ ce = cells
        /\ st = status /\ b = started /\ m = Top.module
  OBVIOUS
<1>4. /\ s \in Seq(Frames) /\ u \in Seq(Frames) /\ top \in Frames /\ s = Append(u, top)
      /\ m \in Modules /\ m # Driver /\ IsProgram(p) /\ Direct(p) /\ files = Files(p)
  BY <1>1, <1>2, <1>3, Here
<1>5. PICK ca : ca = IF p.kind[m] = "lazy"
                     THEN [c EXCEPT ![m] = [n \in files[m].exports |-> Over(top.local, ce[m])[n]]]
                     ELSE c
  OBVIOUS
<1>6. PICK su : su = [st EXCEPT ![m] = "loaded"]  OBVIOUS
<1>7. /\ stack' = u /\ status' = su /\ cache' = ca
      /\ UNCHANGED <<program, files, outcome, cells, started, seen>>
  BY <1>3, <1>5, <1>6 DEF Return
<1>8. /\ Ended(s, st, b, c) /\ CellsKept(p, st, ce, c) /\ Foreign(p, top)
      /\ ce \in [Modules -> Scopes] /\ c \in [Modules -> Scopes \cup {None}]
      /\ FrameKept(p, s, st, b, top)
  BY <1>2, <1>3, Here, DirectFrames DEF DirectKept
<1>9. Running(s, m) /\ m \in Range(b) /\ c[m] = None /\ st[m] # "absent"
  <2>1. StartedOnce(s, st, b)  BY <1>3 DEF IInv
  <2>2. Running(s, m)  BY <1>1, <1>3, <1>4, RunningOnTop
  <2>. QED  BY <1>4, <1>8, <2>1, <2>2 DEF StartedOnce, Ended
<1>10. \A e \in Modules : su[e] = IF e = m THEN "loaded" ELSE st[e]
  <2>1. st \in [Modules -> {"absent", "loading", "loaded"}]  BY <1>3 DEF IInv, TypeOK
  <2>. QED  BY <1>4, <1>6, <2>1
<1>11. \A d \in Modules : d # m => ca[d] = c[d]  BY <1>4, <1>5, <1>8
<1>12. /\ StackCalls(p, u) /\ BodiesOnce(u) /\ FramesDirect(p, u, ce, ca) /\ ~Running(u, m)
       /\ Waits(p, Last(u), top) /\ u # << >>
  BY <1>1, <1>2, <1>3, <1>9, <1>11, UnderTop
<1>13. Ended(u, su, b, ca)
  <2>. SUFFICES ASSUME NEW e \in Modules
                PROVE  /\ e \in Range(b) => su[e] = "loaded" \/ Running(u, e)
                       /\ ca[e] # None => e \in Range(b) /\ ~Running(u, e)
    BY DEF Ended
  <2>1. CASE e = m  BY <1>9, <1>10, <1>12, <2>1
  <2>2. CASE e # m
    <3>1. Running(u, e) <=> Running(s, e)  BY <1>3, <1>4, <2>2, RunningOnTop
    <3>. QED  BY <1>8, <1>10, <1>11, <2>2, <3>1 DEF Ended
  <2>. QED  BY <2>1, <2>2
<1>14. ASSUME ca[m] # None, NEW n \in SupportNames(p, m), Sole(p, m, n)
       PROVE  ca[m][n] = ce[m][n]
  <2>1. p.kind[m] = "lazy"  BY <1>5, <1>9, <1>14
  <2>2. files[m].exports = FinalExports(p, m)  BY <1>4, FilesOf, DirectFile
  <2>3. n \in FinalExports(p, m)  BY <2>1 DEF FinalExports, Exports
  <2>4. ca[m] = [x \in FinalExports(p, m) |-> Over(top.local, ce[m])[x]]
    BY <1>4, <1>5, <1>8, <2>1, <2>2
  <2>5. ca[m][n] = Over(top.local, ce[m])[n]  BY <2>3, <2>4
  <2>6. n \notin DOMAIN top.local  BY <1>3, <1>4, <1>8 DEF Foreign
  <2>7. n \in DOMAIN ce[m]
    <3>1. NamesThere(p, st, ce)  BY <1>3 DEF IInv
    <3>2. SupportNames(p, m) \subseteq File(p, m).declared /\ ~File(p, m).empty
      BY <1>4, DirectFile
    <3>. QED  BY <1>4, <1>9, <3>1, <3>2 DEF NamesThere
  <2>8. Over(top.local, ce[m])[n] = ce[m][n]  BY <2>6, <2>7 DEF Over
  <2>. QED  BY <2>5, <2>8
<1>15. CellsKept(p, su, ce, ca)
  <2>. SUFFICES ASSUME NEW e \in Modules, NEW n \in SupportNames(p, e)
                PROVE  /\ su[e] # "absent" =>
                            /\ n \in DOMAIN Target => ce[e][n] = e
                            /\ n \in Variables => Sole(p, e, n) \/ ce[e][n] = Undefined
                       /\ ca[e] # None => (Sole(p, e, n) => ca[e][n] = ce[e][n])
    BY DEF CellsKept
  <2>1. su[e] # "absent" => st[e] # "absent"  BY <1>9, <1>10
  <2>2. ca[e] # None => (Sole(p, e, n) => ca[e][n] = ce[e][n])
    <3>1. CASE e = m  BY <1>14, <3>1
    <3>2. CASE e # m  BY <1>8, <1>11, <3>2 DEF CellsKept
    <3>. QED  BY <3>1, <3>2
  <2>. QED  BY <1>8, <2>1, <2>2 DEF CellsKept
<1>16. DirectKept(p, u, su, b, ce, ca)  BY <1>12, <1>13, <1>15 DEF DirectKept
<1>17. DirectInv'  BY <1>2, <1>3, <1>7, <1>16 DEF DirectInv
<1>18. SameFiles(st, su)  BY <1>9, <1>10 DEF SameFiles
<1>. QED  BY <1>1, <1>3, <1>7, <1>12, <1>17, <1>18

(* The driver is at its end. *)
LEMMA DirectFinish ==
  ASSUME IInv, DirectInv, Direct(program), Finish
  PROVE  /\ DirectInv' /\ UNCHANGED <<program, status, cells, started, seen>>
         /\ stack' = << >> /\ Front(stack) = << >> /\ outcome' = "done" /\ AtEnd
         /\ Top.part = "body"
<1>1. AtEnd /\ Top.module = Driver  BY DEF Finish
<1>2. outcome = "run" /\ stack # << >>  BY <1>1, AtItsEnd
<1>3. PICK p, s, top, st, b, c, ce :
        /\ p = program /\ s = stack /\ top = Top /\ st = status /\ b = started /\ c = cache
        /\ ce = cells
  OBVIOUS
<1>4. top \in Frames /\ s = Append(<< >>, top) /\ top.module = Driver /\ top.part = "body"
      /\ Front(s) = << >>
  BY <1>1, <1>2, <1>3, Here
<1>5. /\ stack' = << >> /\ outcome' = "done"
      /\ UNCHANGED <<program, files, status, cells, cache, started, seen>>
  BY DEF Finish
<1>6. DirectKept(p, s, st, b, ce, c)  BY <1>2, <1>3, DirectFrames
<1>7. DOMAIN << >> = {}  OBVIOUS
<1>8. ASSUME NEW m \in Modules PROVE ~Running(s, m) /\ ~Running(<< >>, m)
  <2>1. << >> \in Seq(Frames)  OBVIOUS
  <2>2. Running(s, m) <=> Running(<< >>, m) \/ (top.module = m /\ top.part = "body")
    BY <1>4, <2>1, RunningOnTop
  <2>3. ~Running(<< >>, m)  BY <1>7 DEF Running
  <2>4. m # Driver  BY SplitBundleAssumption DEF SplitBundleAssumption
  <2>. QED  BY <1>4, <2>2, <2>3, <2>4
<1>9. Ended(<< >>, st, b, c)  BY <1>6, <1>8 DEF DirectKept, Ended
<1>10. StackCalls(p, << >>) /\ BodiesOnce(<< >>) /\ FramesDirect(p, << >>, ce, c)
  BY <1>7 DEF StackCalls, BodiesOnce, FramesDirect
<1>11. DirectKept(p, << >>, st, b, ce, c)  BY <1>6, <1>9, <1>10 DEF DirectKept
<1>12. DirectInv'  BY <1>3, <1>5, <1>11 DEF DirectInv
<1>. QED  BY <1>1, <1>3, <1>4, <1>5, <1>12

LEMMA DirectUnpack ==
  ASSUME IInv, DirectInv, Direct(program), Unpack
  PROVE  /\ DirectInv' /\ UNCHANGED <<program, status, cells, stack, started, seen>>
         /\ outcome = "unpack" /\ outcome' = "run"
<1>1. Splits(program)
  <2>1. IsProgram(program)
    BY SplitBundleAssumption DEF SplitBundleAssumption, IInv, TypeOK
  <2>. QED  BY <2>1, DirectSplits
<1>2. /\ outcome = "unpack" /\ outcome' = "run"
      /\ UNCHANGED <<program, status, cells, cache, stack, started, seen>>
  BY <1>1 DEF Unpack
<1>3. DirectKept(program, stack, status, started, cells, cache)  BY DEF DirectInv
<1>. QED  BY <1>2, <1>3 DEF DirectInv

LEMMA InitDirect == Init => DirectInv
<1>. SUFFICES ASSUME Init PROVE DirectInv  OBVIOUS
<1>1. /\ program \in Programs /\ outcome = "unpack"
      /\ status = [m \in Modules |-> "absent"] /\ cells = [m \in Modules |-> NoNames]
      /\ cache = [m \in Modules |-> None] /\ started = << >>
  BY DEF Init
<1>2. PICK f : f = Frame(Driver, "body", {}) /\ stack = <<f>>  BY DEF Init
<1>3. f.module = Driver
  <2>1. Driver \in Modules \cup {Driver} /\ {} \subseteq Names  OBVIOUS
  <2>. QED  BY <1>2, <2>1, NewFrame
<1>4. PICK s : s = stack /\ DOMAIN s = {1} /\ s[1] = f
  <2>1. DOMAIN <<f>> = {1} /\ <<f>>[1] = f  OBVIOUS
  <2>. QED  BY <1>2, <2>1
<1>5. StackCalls(program, s) /\ BodiesOnce(s)  BY <1>4 DEF StackCalls, BodiesOnce
<1>6. FramesDirect(program, s, cells, cache)
  BY <1>3, <1>4 DEF FramesDirect, Foreign, Copies
<1>7. Ended(s, status, started, cache)
  <2>1. Range(started) = {}  BY <1>1 DEF Range
  <2>. QED  BY <1>1, <2>1 DEF Ended
<1>8. CellsKept(program, status, cells, cache)  BY <1>1 DEF CellsKept
<1>. QED  BY <1>1, <1>4, <1>5, <1>6, <1>7, <1>8 DEF DirectInv, DirectKept

LEMMA StutterDirect ==
  ASSUME DirectInv, UNCHANGED vars
  PROVE  DirectInv'
<1>1. UNCHANGED <<program, outcome, stack, status, started, cells, cache>>  BY DEF vars
<1>. QED  BY <1>1 DEF DirectInv

(* Whatever a call does, direct bundles stay what they are. *)
LEMMA DirectCallKept ==
  ASSUME IInv, DirectInv, Direct(program), Call
  PROVE  DirectInv'
<1>1. PICK d : d = Step.expression[2]  OBVIOUS
<1>2. /\ d \in Modules
      /\ \/ status[d] = "absent" /\ d \notin Range(started) /\ LoadText(d)
         \/ status[d] = "loaded" /\ d \notin Range(started) /\ Start(d)
         \/ /\ status[d] = "loaded" /\ d \in Range(started)
            /\ ~(Step.binds # {} /\ cache[d] = None) /\ CallStarted(d)
  BY <1>1, DirectCall
<1>3. CASE status[d] = "absent" /\ LoadText(d)  BY <1>1, <1>2, <1>3, DirectLoad
<1>4. CASE d \notin Range(started) /\ Start(d)  BY <1>1, <1>2, <1>4, DirectStart
<1>5. CASE ~(Step.binds # {} /\ cache[d] = None) /\ CallStarted(d)
  <2>1. CASE Step.binds = {}  BY <1>1, <1>2, <1>5, <2>1, DirectAgain
  <2>2. CASE Step.binds # {}  BY <1>1, <1>2, <1>5, <2>2, DirectTakes
  <2>. QED  BY <2>1, <2>2
<1>. QED  BY <1>2, <1>3, <1>4, <1>5

LEMMA ProgramStays ==
  ASSUME IInv, [Next]_vars
  PROVE  UNCHANGED program
<1>1. CASE Unpack  BY <1>1 DEF Unpack
<1>2. CASE Call
  <2>1. ASSUME NEW d PROVE /\ Load(d) => UNCHANGED program
                           /\ Start(d) => UNCHANGED program
                           /\ CallStarted(d) => UNCHANGED program
    BY DEF Load, LoadText, LoadEmpty, Start, CallStarted, Throw
  <2>2. \A why : Throw(why) => UNCHANGED program  BY DEF Throw
  <2>3. PICK d : d = Step.expression[2]  OBVIOUS
  <2>4. InCode /\ Step.expression[1] = "call"  BY <1>2 DEF Call, Does
  <2>5. d \in Modules  BY <2>3, <2>4, HereStep, ExpressionKinds
  <2>6. status[d] \in {"absent", "loading", "loaded"} /\ program.kind[d] \in {"lazy", "cjs"}
    BY <2>5, SplitBundleAssumption DEF SplitBundleAssumption, IInv, TypeOK, IsProgram
  <2>7. Throw("own wrapper") \/ Load(d) \/ Throw("not loaded") \/ CallStarted(d) \/ Start(d)
    BY <1>2, <2>3, <2>6 DEF Call
  <2>. QED  BY <2>1, <2>2, <2>7
<1>3. CASE Set  BY <1>3 DEF Set
<1>4. CASE Use  BY <1>4 DEF Use, Throw
<1>5. CASE Bump  BY <1>5 DEF Bump, Throw
<1>6. CASE Loaded  BY <1>6 DEF Loaded
<1>7. CASE Return  BY <1>7 DEF Return
<1>8. CASE Finish  BY <1>8 DEF Finish
<1>9. CASE UNCHANGED vars  BY <1>9 DEF vars
<1>. QED  BY <1>1, <1>2, <1>3, <1>4, <1>5, <1>6, <1>7, <1>8, <1>9 DEF Next

LEMMA DirectStays ==
  ASSUME IInv, DirectInv, [Next]_vars
  PROVE  DirectInv'
<1>1. CASE ~Direct(program)
  <2>1. program' = program  BY ProgramStays
  <2>. QED  BY <1>1, <2>1 DEF DirectInv
<1>2. CASE Direct(program)
  <2>1. CASE Unpack  BY <1>2, <2>1, DirectUnpack
  <2>2. CASE Call    BY <1>2, <2>2, DirectCallKept
  <2>3. CASE Set     BY <1>2, <2>3, DirectSet
  <2>4. CASE Use     BY <1>2, <2>4, DirectUse
  <2>5. CASE Bump    BY <1>2, <2>5, DirectBump
  <2>6. CASE Loaded  BY <1>2, <2>6, DirectLoaded, DirectTurned
  <2>7. CASE Return  BY <1>2, <2>7, DirectReturn
  <2>8. CASE Finish  BY <1>2, <2>8, DirectFinish
  <2>9. CASE UNCHANGED vars  BY <2>9, StutterDirect
  <2>. QED  BY <2>1, <2>2, <2>3, <2>4, <2>5, <2>6, <2>7, <2>8, <2>9 DEF Next
<1>. QED  BY <1>1, <1>2

-----------------------------------------------------------------------------
(* The bundle that the files are *)

(* What the bundle has of a frame, and of a stack. *)
Part(f) == [module |-> f.module, at |-> f.at]

Parts(s) == [k \in 1 .. Len(s) |-> Part(s[k])]

(* What a module of the bundle runs. *)
LEMMA CodeIs ==
  ASSUME NEW p, IsProgram(p), NEW m \in Modules \cup {Driver}
  PROVE  Original!Code(p, m) = Whole(p, m)
<1>1. \A b : Original!FlattenSeq(b) = FlattenSeq(b)  BY DEF Original!FlattenSeq, FlattenSeq
<1>2. CASE m # Driver  BY <1>1, <1>2 DEF Original!Code, Original!Body, Whole, Code
<1>3. CASE m = Driver
  <2>1. PICK e : e = <<"call", p.entry>>  OBVIOUS
  <2>2. e \in Expression  BY <2>1 DEF IsProgram, Expression
  <2>3. PICK b : b = << <<e>> >>  OBVIOUS
  <2>4. b \in Seq(Seq(Expression)) /\ Len(b) = 1 /\ b[1] = <<e>>  BY <2>2, <2>3
  <2>5. FlattenSeq(b) \in Seq(Expression) /\ Len(FlattenSeq(b)) = 1 /\ FlattenSeq(b)[1] = e
    <3>1. \A j \in 1 .. Len(b) : Len(b[j]) = 1
      <4>1. \A j \in 1 .. 1 : j = 1  OBVIOUS
      <4>. QED  BY <2>4, <4>1
    <3>2. 1 \in 1 .. Len(b) /\ b[1][1] = e  BY <2>4
    <3>. QED  BY <2>4, <3>1, <3>2, FlattenOnes
  <2>6. PICK t \in Seq(Expression) : t = FlattenSeq(b)  BY <2>5
  <2>7. t = <<e>>
    <3>1. DOMAIN t = 1 .. 1 /\ t[1] = e  BY <2>5, <2>6
    <3>. QED  BY <2>2, <3>1
  <2>8. Original!Code(p, m) = FlattenSeq(b)
    BY <1>1, <1>3, <2>1, <2>3 DEF Original!Code, Original!Body
  <2>. QED  BY <1>3, <2>1, <2>6, <2>7, <2>8 DEF Whole
<1>. QED  BY <1>2, <1>3

(* The parts of a stack. *)
LEMMA PartsOf ==
  ASSUME NEW s \in Seq(Frames)
  PROVE  /\ Parts(s) \in Seq([module : Modules \cup {Driver}, at : Nat])
         /\ Len(Parts(s)) = Len(s) /\ DOMAIN Parts(s) = 1 .. Len(s)
         /\ \A k \in 1 .. Len(s) : Parts(s)[k] = Part(s[k])
         /\ Parts(s) = << >> <=> s = << >>
<1>1. PICK n \in Nat : n = Len(s)  OBVIOUS
<1>2. ASSUME NEW k \in 1 .. n PROVE Part(s[k]) \in [module : Modules \cup {Driver}, at : Nat]
  <2>1. s[k] \in Frames  BY <1>1, ElementOfSeq
  <2>. QED  BY <2>1 DEF Frames, Part
<1>3. PICK t : t = Parts(s)  OBVIOUS
<1>4. t = [k \in 1 .. n |-> Part(s[k])]  BY <1>1, <1>3 DEF Parts
<1>5. t \in Seq([module : Modules \cup {Driver}, at : Nat]) /\ Len(t) = n /\ DOMAIN t = 1 .. n
      /\ \A k \in 1 .. n : t[k] = Part(s[k])
  BY <1>2, <1>4
<1>6. t = << >> <=> n = 0  BY <1>5, EmptySeq
<1>7. s = << >> <=> n = 0  BY <1>1, EmptySeq
<1>. QED  BY <1>1, <1>3, <1>5, <1>6, <1>7

(* What a stack with a frame on top is. *)
LEMMA TopIs ==
  ASSUME NEW u \in Seq(Frames), NEW f \in Frames, NEW t, t = Append(u, f)
  PROVE  t \in Seq(Frames) /\ t # << >> /\ Last(t) = f /\ Front(t) = u
<1>1. PICK n \in Nat : n = Len(u) /\ DOMAIN u = 1 .. n  OBVIOUS
<1>2. /\ t \in Seq(Frames) /\ t # << >> /\ Len(t) = n + 1 /\ t[n + 1] = f
      /\ \A k \in 1 .. n : t[k] = u[k]
  BY <1>1, OnTop
<1>3. PICK v \in Seq(Frames) : v = Front(t) /\ Len(v) = n /\ \A k \in 1 .. n : v[k] = t[k]
  <2>1. /\ Front(t) \in Seq(Frames) /\ Len(Front(t)) = Len(t) - 1
        /\ \A k \in 1 .. Len(t) - 1 : Front(t)[k] = t[k]
    BY <1>2, TopOfStack
  <2>2. Len(t) - 1 = n  BY <1>2
  <2>. QED  BY <2>1, <2>2
<1>4. v = u
  <2>1. \A k \in 1 .. n : v[k] = u[k]  BY <1>2, <1>3
  <2>. QED  BY <1>1, <1>3, <2>1
<1>. QED  BY <1>2, <1>3, <1>4 DEF Last

LEMMA Appended ==
  ASSUME NEW S, NEW v \in Seq(S), NEW e \in S, NEW n \in Nat, n = Len(v)
  PROVE  /\ Append(v, e) \in Seq(S) /\ Len(Append(v, e)) = n + 1
         /\ Append(v, e)[n + 1] = e /\ \A k \in 1 .. n : Append(v, e)[k] = v[k]
BY AppendProperties

(* The bundle's stack with the innermost body at its next expression. *)
Further(r) == [r EXCEPT ![Len(r)].at = @ + 1]

(* The stack with f on top of u has become t: what f is of is at its next expression. *)
MovedOn(u, f, t) ==
  \E g \in Frames : g.module = f.module /\ g.at = f.at + 1 /\ t = Append(u, g)

LEMMA PartsAppended ==
  ASSUME NEW u \in Seq(Frames), NEW f \in Frames, NEW s, s = Append(u, f)
  PROVE  /\ Part(f) \in [module : Modules \cup {Driver}, at : Nat]
         /\ Parts(s) = Append(Parts(u), Part(f))
<1>. DEFINE Entries == [module : Modules \cup {Driver}, at : Nat]
<1>1. PICK n \in Nat : n = Len(u) /\ DOMAIN u = 1 .. n  OBVIOUS
<1>2. ASSUME NEW y \in Frames
      PROVE  /\ Append(u, y) \in Seq(Frames) /\ Len(Append(u, y)) = n + 1
             /\ Append(u, y)[n + 1] = y /\ \A k \in 1 .. n : Append(u, y)[k] = u[k]
  BY <1>1, OnTop
<1>3. PICK v \in Seq(Entries) : v = Parts(u) /\ Len(v) = n /\ \A k \in 1 .. n : v[k] = Part(u[k])
  BY <1>1, PartsOf
<1>4. ASSUME NEW y \in Frames
      PROVE  Part(y) \in Entries /\ Parts(Append(u, y)) = Append(v, Part(y))
  <2>1. PICK e \in Entries : e = Part(y)  BY DEF Part, Frames
  <2>2. PICK t \in Seq(Frames) : t = Append(u, y)  BY <1>2
  <2>3. PICK w \in Seq(Entries) : /\ w = Parts(t) /\ Len(w) = n + 1 /\ w[n + 1] = e
                                  /\ \A k \in 1 .. n : w[k] = v[k]
    <3>1. /\ Parts(t) \in Seq(Entries) /\ Len(Parts(t)) = n + 1
          /\ \A k \in 1 .. n + 1 : Parts(t)[k] = Part(t[k])
      BY <1>2, <2>2, PartsOf
    <3>2. n + 1 \in 1 .. n + 1 /\ \A k \in 1 .. n : k \in 1 .. n + 1  OBVIOUS
    <3>. QED  BY <1>2, <1>3, <2>1, <2>2, <3>1, <3>2
  <2>4. w = Append(v, e)
    <3>1. PICK x \in Seq(Entries) : /\ x = Append(v, e) /\ Len(x) = n + 1 /\ x[n + 1] = e
                                    /\ \A k \in 1 .. n : x[k] = v[k]
      <4>1. /\ Append(v, e) \in Seq(Entries) /\ Len(Append(v, e)) = n + 1
            /\ Append(v, e)[n + 1] = e /\ \A k \in 1 .. n : Append(v, e)[k] = v[k]
        BY <1>3, Appended
      <4>. QED  BY <4>1
    <3>2. \A k \in 1 .. n + 1 : w[k] = x[k]
      <4>1. \A k \in 1 .. n + 1 : k = n + 1 \/ k \in 1 .. n  OBVIOUS
      <4>. QED  BY <2>3, <3>1, <4>1
    <3>. QED  BY <2>3, <3>1, <3>2
  <2>. QED  BY <2>1, <2>2, <2>3, <2>4
<1>. QED  BY <1>3, <1>4

LEMMA PartsOnTop ==
  ASSUME NEW u \in Seq(Frames), NEW f \in Frames, NEW s, s = Append(u, f)
  PROVE  Original!Last(Parts(s)) = Part(f) /\ Original!Front(Parts(s)) = Parts(u)
<1>. DEFINE Entries == [module : Modules \cup {Driver}, at : Nat]
<1>1. PICK n \in Nat : n = Len(u) /\ DOMAIN u = 1 .. n  OBVIOUS
<1>3. PICK v \in Seq(Entries) : v = Parts(u) /\ Len(v) = n /\ \A k \in 1 .. n : v[k] = Part(u[k])
  BY <1>1, PartsOf
<1>4. ASSUME NEW y \in Frames, NEW x, x = Append(u, y)
      PROVE  Part(y) \in Entries /\ Parts(x) = Append(v, Part(y))
  BY <1>3, <1>4, PartsAppended
<1>5. PICK e \in Entries, w \in Seq(Entries) :
        /\ e = Part(f) /\ w = Parts(s) /\ w = Append(v, e)
        /\ Len(w) = n + 1 /\ w[n + 1] = e /\ \A k \in 1 .. n : w[k] = v[k]
  <2>1. PICK e \in Entries : e = Part(f)  BY <1>4
  <2>2. Parts(s) = Append(v, e)  BY <1>4, <2>1
  <2>3. Append(v, e) \in Seq(Entries) /\ Len(Append(v, e)) = n + 1
        /\ Append(v, e)[n + 1] = e /\ \A k \in 1 .. n : Append(v, e)[k] = v[k]
    BY <1>3, Appended
  <2>. QED  BY <2>1, <2>2, <2>3
<1>. HIDE DEF Entries
<1>6. Original!Last(w) = e  BY <1>5 DEF Original!Last
<1>7. Original!Front(w) = v
  <2>1. Original!Front(w) = SubSeq(w, 1, n)
    <3>1. (n + 1) - 1 = n  OBVIOUS
    <3>. QED  BY <1>5, <3>1 DEF Original!Front
  <2>2. SubSeq(w, 1, n) = [k \in 1 .. n |-> w[k]]  BY <1>5
  <2>3. v = [k \in 1 .. n |-> v[k]]  BY <1>3
  <2>. QED  BY <1>5, <2>1, <2>2, <2>3
<1>. QED  BY <1>3, <1>5, <1>6, <1>7

LEMMA PartsFurther ==
  ASSUME NEW u \in Seq(Frames), NEW f \in Frames, NEW s, s = Append(u, f), NEW t, MovedOn(u, f, t)
  PROVE  Parts(t) = Further(Parts(s))
<1>. DEFINE Entries == [module : Modules \cup {Driver}, at : Nat]
<1>1. PICK n \in Nat : n = Len(u) /\ DOMAIN u = 1 .. n  OBVIOUS
<1>3. PICK v \in Seq(Entries) : v = Parts(u) /\ Len(v) = n /\ \A k \in 1 .. n : v[k] = Part(u[k])
  BY <1>1, PartsOf
<1>4. ASSUME NEW y \in Frames, NEW x, x = Append(u, y)
      PROVE  Part(y) \in Entries /\ Parts(x) = Append(v, Part(y))
  BY <1>3, <1>4, PartsAppended
<1>5. PICK e \in Entries, w \in Seq(Entries) :
        /\ e = Part(f) /\ w = Parts(s) /\ w = Append(v, e)
        /\ Len(w) = n + 1 /\ w[n + 1] = e /\ \A k \in 1 .. n : w[k] = v[k]
  <2>1. PICK e \in Entries : e = Part(f)  BY <1>4
  <2>2. Parts(s) = Append(v, e)  BY <1>4, <2>1
  <2>3. Append(v, e) \in Seq(Entries) /\ Len(Append(v, e)) = n + 1
        /\ Append(v, e)[n + 1] = e /\ \A k \in 1 .. n : Append(v, e)[k] = v[k]
    BY <1>3, Appended
  <2>. QED  BY <2>1, <2>2, <2>3
<1>. HIDE DEF Entries
<1>8. ASSUME NEW y \in Frames, y.module = f.module, y.at = f.at + 1
      PROVE  Append(v, Part(y)) = [w EXCEPT ![Len(w)].at = @ + 1]
  <2>1. PICK h \in Entries : h = Part(y) /\ h = [e EXCEPT !.at = @ + 1]
    <3>1. Part(y) = [Part(f) EXCEPT !.at = @ + 1]  BY <1>8 DEF Part
    <3>. QED  BY <1>4, <1>5, <3>1
  <2>2. PICK x \in Seq(Entries) : /\ x = Append(v, h) /\ Len(x) = n + 1 /\ x[n + 1] = h
                                  /\ \A k \in 1 .. n : x[k] = v[k]
    <3>1. /\ Append(v, h) \in Seq(Entries) /\ Len(Append(v, h)) = n + 1
          /\ Append(v, h)[n + 1] = h /\ \A k \in 1 .. n : Append(v, h)[k] = v[k]
      BY <1>3, Appended
    <3>. QED  BY <3>1
  <2>3. [w EXCEPT ![n + 1] = h] = x
    <3>1. n + 1 \in 1 .. Len(w)  BY <1>5
    <3>2. PICK z \in Seq(Entries) :
            /\ z = [w EXCEPT ![n + 1] = h] /\ Len(z) = n + 1
            /\ \A k \in 1 .. n + 1 : z[k] = IF k = n + 1 THEN h ELSE w[k]
      <4>1. /\ [w EXCEPT ![n + 1] = h] \in Seq(Entries) /\ Len([w EXCEPT ![n + 1] = h]) = Len(w)
            /\ \A k \in 1 .. Len(w) :
                 [w EXCEPT ![n + 1] = h][k] = IF k = n + 1 THEN h ELSE w[k]
        BY <3>1, ExceptSeq
      <4>. QED  BY <1>5, <4>1
    <3>3. ASSUME NEW k \in 1 .. n + 1 PROVE z[k] = x[k]
      <4>1. CASE k = n + 1  BY <2>2, <3>2, <4>1
      <4>2. CASE k # n + 1
        <5>1. k \in 1 .. n  BY <4>2
        <5>. QED  BY <1>5, <2>2, <3>2, <4>2, <5>1
      <4>. QED  BY <4>1, <4>2
    <3>4. z = x
      <4>1. Len(z) = Len(x) /\ \A k \in 1 .. Len(z) : z[k] = x[k]  BY <2>2, <3>2, <3>3
      <4>. QED  BY <4>1, SeqEqual
    <3>. QED  BY <3>2, <3>4
  <2>4. [w EXCEPT ![Len(w)].at = @ + 1] = [w EXCEPT ![n + 1] = [w[n + 1] EXCEPT !.at = @ + 1]]
    BY <1>5
  <2>. QED  BY <1>5, <2>1, <2>2, <2>3, <2>4
<1>9. Parts(t) = Further(Parts(s))
  <2>0. PICK g \in Frames : g.module = f.module /\ g.at = f.at + 1 /\ t = Append(u, g)
    BY DEF MovedOn
  <2>1. Append(v, Part(g)) = Further(w)  BY <1>8, <2>0 DEF Further
  <2>2. Parts(t) = Append(v, Part(g))  BY <1>4, <2>0
  <2>. QED  BY <1>5, <2>1, <2>2
<1>. QED  BY <1>9

(* The bundle's stack and variables, of any stack, files and cells. *)
RunsOf(o, s) ==
  IF o \in Failure \cup {"unpack failed"} THEN << >>
  ELSE Parts(IF s # << >> /\ Last(s).part = "load" THEN Front(s) ELSE s)

KeptOf(p, st, ce) ==
  [x \in Variables |->
     LET homes == {m \in Owners(p, x) : st[m] # "absent"} IN
       IF homes = {} THEN Undefined ELSE ce[CHOOSE m \in homes : TRUE][x]]

LEMMA RunsIs ==
  /\ BodiesRun = RunsOf(outcome, stack)
  /\ BodiesRun' = RunsOf(outcome', stack')
BY DEF BodiesRun, RunsOf, Parts, Part, Top

LEMMA KeptIs ==
  /\ VariablesKept = KeptOf(program, status, cells)
  /\ VariablesKept' = KeptOf(program', status', cells')
BY DEF VariablesKept, Kept, KeptOf

(* A run that goes on. *)
Goes(o) == o \in {"unpack", "run", "done"}

LEMMA RunsBody ==
  ASSUME NEW o, Goes(o), NEW u \in Seq(Frames), NEW f \in Frames, NEW s, s = Append(u, f),
         f.part = "body"
  PROVE  RunsOf(o, s) = Parts(s)
<1>1. s # << >> /\ Last(s) = f /\ Front(s) = u  BY TopIs
<1>2. o \notin Failure \cup {"unpack failed"}  BY DEF Failure, Goes
<1>. QED  BY <1>1, <1>2 DEF RunsOf

LEMMA RunsLoad ==
  ASSUME NEW o, Goes(o), NEW u \in Seq(Frames), NEW f \in Frames, NEW s, s = Append(u, f),
         f.part = "load"
  PROVE  RunsOf(o, s) = Parts(u)
<1>1. s # << >> /\ Last(s) = f /\ Front(s) = u  BY TopIs
<1>2. o \notin Failure \cup {"unpack failed"}  BY DEF Failure, Goes
<1>. QED  BY <1>1, <1>2 DEF RunsOf

(* What the file that declares a variable has of it. *)
ValueIn(st, ce, m, x) == IF st[m] = "absent" THEN Undefined ELSE ce[m][x]

LEMMA KeptInFile ==
  ASSUME NEW p, NEW st, NEW ce, NEW c, CellsKept(p, st, ce, c), NEW x \in Variables
  PROVE  /\ \A m : Sole(p, m, x) => KeptOf(p, st, ce)[x] = ValueIn(st, ce, m, x)
         /\ (\A m \in Modules : ~Sole(p, m, x)) => KeptOf(p, st, ce)[x] = Undefined
<1>1. PICK homes : homes = {m \in Owners(p, x) : st[m] # "absent"}  OBVIOUS
<1>2. KeptOf(p, st, ce)[x] = IF homes = {} THEN Undefined ELSE ce[CHOOSE m \in homes : TRUE][x]
  BY <1>1 DEF KeptOf
<1>3. \A m \in homes : m \in Modules /\ x \in SupportNames(p, m) /\ st[m] # "absent"
  BY <1>1 DEF Owners
<1>4. ASSUME NEW m, Sole(p, m, x) PROVE KeptOf(p, st, ce)[x] = ValueIn(st, ce, m, x)
  <2>1. Owners(p, x) = {m}  BY <1>4 DEF Sole
  <2>2. CASE st[m] = "absent"
    <3>1. homes = {}  BY <1>1, <2>1, <2>2
    <3>. QED  BY <1>2, <2>2, <3>1 DEF ValueIn
  <2>3. CASE st[m] # "absent"
    <3>1. homes = {m}  BY <1>1, <2>1, <2>3
    <3>2. (CHOOSE h \in homes : TRUE) = m  BY <3>1
    <3>. QED  BY <1>2, <2>3, <3>1, <3>2 DEF ValueIn
  <2>. QED  BY <2>2, <2>3
<1>5. ASSUME \A m \in Modules : ~Sole(p, m, x) PROVE KeptOf(p, st, ce)[x] = Undefined
  <2>1. \A m \in homes : ce[m][x] = Undefined  BY <1>3, <1>5 DEF CellsKept
  <2>2. homes # {} => (CHOOSE h \in homes : TRUE) \in homes  OBVIOUS
  <2>. QED  BY <1>2, <2>1, <2>2
<1>. QED  BY <1>4, <1>5

(* The variables keep their values. *)
LEMMA KeptSame ==
  ASSUME NEW p, NEW st, NEW ce, NEW c, NEW su, NEW de, NEW d,
         CellsKept(p, st, ce, c), CellsKept(p, su, de, d),
         \A m \in Modules : \A x \in Variables \cap SupportNames(p, m) :
           ValueIn(st, ce, m, x) = ValueIn(su, de, m, x)
  PROVE  KeptOf(p, su, de) = KeptOf(p, st, ce)
<1>1. ASSUME NEW x \in Variables PROVE KeptOf(p, su, de)[x] = KeptOf(p, st, ce)[x]
  <2>1. CASE \E m \in Modules : Sole(p, m, x)
    <3>1. PICK m \in Modules : Sole(p, m, x)  BY <2>1
    <3>2. x \in SupportNames(p, m)  BY <3>1, SoleOwner
    <3>3. KeptOf(p, su, de)[x] = ValueIn(su, de, m, x)  BY <3>1, KeptInFile
    <3>4. KeptOf(p, st, ce)[x] = ValueIn(st, ce, m, x)  BY <3>1, KeptInFile
    <3>. QED  BY <3>2, <3>3, <3>4
  <2>2. CASE \A m \in Modules : ~Sole(p, m, x)
    <3>1. KeptOf(p, su, de)[x] = Undefined  BY <2>2, KeptInFile
    <3>2. KeptOf(p, st, ce)[x] = Undefined  BY <2>2, KeptInFile
    <3>. QED  BY <3>1, <3>2
  <2>. QED  BY <2>1, <2>2
<1>2. PICK a, b : a = KeptOf(p, su, de) /\ b = KeptOf(p, st, ce)  OBVIOUS
<1>3. a = [x \in Variables |-> a[x]] /\ b = [x \in Variables |-> b[x]]  BY <1>2 DEF KeptOf
<1>4. \A x \in Variables : a[x] = b[x]  BY <1>1, <1>2
<1>. QED  BY <1>2, <1>3, <1>4

(* One of them gets another. *)
LEMMA KeptChanged ==
  ASSUME NEW p, NEW st, NEW ce, NEW c, NEW de, NEW d,
         CellsKept(p, st, ce, c), CellsKept(p, st, de, d),
         NEW m \in Modules, NEW x \in Variables, NEW v, Assigns(p, m, x, v, st, ce, de)
  PROVE  KeptOf(p, st, de) = [KeptOf(p, st, ce) EXCEPT ![x] = v]
<1>1. Sole(p, m, x) /\ st[m] # "absent" /\ de[m][x] = v  BY DEF Assigns
<1>2. KeptOf(p, st, de)[x] = v
  <2>1. KeptOf(p, st, de)[x] = ValueIn(st, de, m, x)  BY <1>1, KeptInFile
  <2>. QED  BY <1>1, <2>1 DEF ValueIn
<1>3. ASSUME NEW y \in Variables, y # x PROVE KeptOf(p, st, de)[y] = KeptOf(p, st, ce)[y]
  <2>1. CASE \E e \in Modules : Sole(p, e, y)
    <3>1. PICK e \in Modules : Sole(p, e, y)  BY <2>1
    <3>2. y \in SupportNames(p, e)  BY <3>1, SoleOwner
    <3>3. KeptOf(p, st, de)[y] = ValueIn(st, de, e, y)  BY <3>1, KeptInFile
    <3>4. KeptOf(p, st, ce)[y] = ValueIn(st, ce, e, y)  BY <3>1, KeptInFile
    <3>5. de[e][y] = ce[e][y]
      <4>1. CASE e = m  BY <1>3, <3>2, <4>1 DEF Assigns
      <4>2. CASE e # m  BY <4>2 DEF Assigns
      <4>. QED  BY <4>1, <4>2
    <3>. QED  BY <3>3, <3>4, <3>5 DEF ValueIn
  <2>2. CASE \A e \in Modules : ~Sole(p, e, y)
    <3>1. KeptOf(p, st, de)[y] = Undefined  BY <2>2, KeptInFile
    <3>2. KeptOf(p, st, ce)[y] = Undefined  BY <2>2, KeptInFile
    <3>. QED  BY <3>1, <3>2
  <2>. QED  BY <2>1, <2>2
<1>4. PICK a, b : a = KeptOf(p, st, de) /\ b = KeptOf(p, st, ce)  OBVIOUS
<1>5. a = [y \in Variables |-> a[y]] /\ b = [y \in Variables |-> b[y]]  BY <1>4 DEF KeptOf
<1>6. \A y \in Variables : a[y] = IF y = x THEN v ELSE b[y]  BY <1>2, <1>3, <1>4
<1>7. [b EXCEPT ![x] = v] = [y \in Variables |-> IF y = x THEN v ELSE b[y]]  BY <1>5
<1>. QED  BY <1>4, <1>5, <1>6, <1>7

(* What the bundle does next is what the body on top does next. *)
LEMMA OriginalHere ==
  ASSUME NEW u \in Seq(Frames), NEW f \in Frames, BodiesRun = Parts(Append(u, f)),
         IsProgram(program), Direct(program), f.part = "body"
  PROVE  /\ BodiesRun # << >> /\ Original!Front(BodiesRun) = Parts(u)
         /\ Original!Running <=> f.at <= Len(Text(program, f))
         /\ f.at <= Len(Text(program, f)) =>
              Original!Expression = Text(program, f)[f.at].expression
         /\ \A t : MovedOn(u, f, t) => Original!Advanced = Parts(t)
<1>1. PICK p, s : p = program /\ s = Append(u, f)  OBVIOUS
<1>2. PICK r : /\ r = Parts(s) /\ r # << >> /\ Original!Last(r) = Part(f)
               /\ Original!Front(r) = Parts(u) /\ BodiesRun = r
  <2>1. s \in Seq(Frames) /\ s # << >>  BY <1>1, TopIs
  <2>2. Parts(s) # << >>  BY <2>1, PartsOf
  <2>3. Original!Last(Parts(s)) = Part(f) /\ Original!Front(Parts(s)) = Parts(u)
    BY <1>1, PartsOnTop
  <2>. QED  BY <1>1, <2>2, <2>3
<1>3. f.module \in Modules \cup {Driver} /\ f.at \in Nat \ {0}  BY DEF Frames
<1>4. Original!Last(BodiesRun).module = f.module /\ Original!Last(BodiesRun).at = f.at
  BY <1>2 DEF Part
<1>5. Original!Code(program, f.module) = Whole(program, f.module)  BY <1>3, CodeIs
<1>6. /\ Text(p, f) \in Seq(StepType) /\ Len(Text(p, f)) = Len(Whole(p, f.module))
      /\ \A k \in 1 .. Len(Text(p, f)) : PlainStep(p, f.module, Text(p, f)[k], Whole(p, f.module)[k])
  BY <1>1, DirectText
<1>7. Original!Running <=> f.at <= Len(Text(p, f))
  BY <1>1, <1>2, <1>4, <1>5, <1>6 DEF Original!Running
<1>8. ASSUME f.at <= Len(Text(p, f)) PROVE Original!Expression = Text(p, f)[f.at].expression
  <2>1. f.at \in 1 .. Len(Text(p, f))  BY <1>3, <1>6, <1>8
  <2>2. Whole(p, f.module)[f.at] = Text(p, f)[f.at].expression  BY <1>6, <2>1 DEF PlainStep
  <2>. QED  BY <1>1, <1>4, <1>5, <2>2 DEF Original!Expression
<1>9. ASSUME NEW t, MovedOn(u, f, t) PROVE Original!Advanced = Parts(t)
  <2>1. s = Append(u, f)  BY <1>1
  <2>2. Parts(t) = Further(Parts(s))  BY <1>9, <2>1, PartsFurther
  <2>. QED  BY <1>2, <2>2 DEF Original!Advanced, Further
<1>. QED  BY <1>1, <1>2, <1>7, <1>8, <1>9

-----------------------------------------------------------------------------
(* The steps of the files are those of the bundle *)

LEMMA CellsThen ==
  ASSUME DirectInv, DirectInv', Direct(program), UNCHANGED program
  PROVE  /\ CellsKept(program, status, cells, cache)
         /\ CellsKept(program, status', cells', cache')
<1>1. CellsKept(program, status, cells, cache)  BY DEF DirectInv, DirectKept
<1>2. CellsKept(program', status', cells', cache')  BY DEF DirectInv, DirectKept
<1>. QED  BY <1>1, <1>2

(* What each file has of its variables is what the bundle has. *)
LEMMA VariablesStay ==
  ASSUME DirectInv, DirectInv', Direct(program), UNCHANGED program,
         \A m \in Modules : \A x \in Variables \cap SupportNames(program, m) :
           ValueIn(status, cells, m, x) = ValueIn(status', cells', m, x)
  PROVE  VariablesKept' = VariablesKept
<1>1. CellsKept(program, status, cells, cache) /\ CellsKept(program, status', cells', cache')
  BY CellsThen
<1>2. KeptOf(program, status', cells') = KeptOf(program, status, cells)  BY <1>1, KeptSame
<1>. QED  BY <1>2, KeptIs

(* No file comes or goes, and no variable changes. *)
LEMMA SameVariables ==
  ASSUME DirectInv, DirectInv', Direct(program), UNCHANGED program, SameFiles(status, status'),
         \A m \in Modules : SupportNames(program, m) # {} => cells'[m] = cells[m]
  PROVE  VariablesKept' = VariablesKept
<1>1. ASSUME NEW m \in Modules, NEW x \in Variables \cap SupportNames(program, m)
      PROVE  ValueIn(status, cells, m, x) = ValueIn(status', cells', m, x)
  <2>1. cells'[m] = cells[m] /\ (status[m] = "absent" <=> status'[m] = "absent")
    BY <1>1 DEF SameFiles
  <2>. QED  BY <2>1 DEF ValueIn
<1>. QED  BY <1>1, VariablesStay

LEMMA RunGoes == Goes("unpack") /\ Goes("run") /\ Goes("done")
BY DEF Goes

(* While a body is on top, the bundle is at the same expression. *)
LEMMA BodyHere ==
  ASSUME IInv, Direct(program), InCode
  PROVE  /\ BodiesRun = Parts(stack) /\ BodiesRun # << >>
         /\ Original!Running /\ Original!Expression = Step.expression
         /\ \A t : MovedOn(Front(stack), Top, t) => Original!Advanced = Parts(t)
<1>1. outcome = "run" /\ stack # << >>  BY DEF InCode
<1>2. PICK u \in Seq(Frames), f \in Frames :
        /\ u = Front(stack) /\ f = Top /\ stack = Append(u, f)
        /\ IsProgram(program)
  BY <1>1, Here
<1>3. /\ f.part = "body" /\ f.at \in 1 .. Len(Whole(program, f.module))
      /\ Len(Text(program, f)) = Len(Whole(program, f.module))
      /\ Step = Text(program, f)[f.at]
  BY <1>2, DirectHere
<1>4. BodiesRun = Parts(stack)
  <2>1. RunsOf("run", stack) = Parts(stack)  BY <1>2, <1>3, RunGoes, RunsBody
  <2>. QED  BY <1>1, <2>1, RunsIs
<1>5. f.at <= Len(Text(program, f))  BY <1>3
<1>6. BodiesRun = Parts(Append(u, f))  BY <1>2, <1>4
<1>7. /\ BodiesRun # << >> /\ Original!Running
      /\ Original!Expression = Text(program, f)[f.at].expression
      /\ \A t : MovedOn(u, f, t) => Original!Advanced = Parts(t)
  BY <1>2, <1>3, <1>5, <1>6, OriginalHere
<1>. QED  BY <1>2, <1>3, <1>4, <1>7

(* The body on top goes on. *)
LEMMA BodyAdvances ==
  ASSUME IInv, Direct(program), InCode, NEW l \in Scopes, UNCHANGED outcome,
         stack' = Append(Front(stack), Passed(Inner, l))
  PROVE  BodiesRun' = Original!Advanced
<1>1. outcome = "run" /\ stack # << >>  BY DEF InCode
<1>2. Front(stack) \in Seq(Frames) /\ Top \in Frames  BY <1>1, Here
<1>3. Inner = NoNames /\ Top.part = "body"  BY DirectHere
<1>4. PICK g : g = Passed(Inner, l)  OBVIOUS
<1>5. g \in Frames /\ g.module = Top.module /\ g.part = "body" /\ g.at = Top.at + 1
  BY <1>2, <1>3, <1>4, NoNamesScope, PassedFrame
<1>6. stack' = Append(Front(stack), g)  BY <1>4
<1>7. MovedOn(Front(stack), Top, stack')  BY <1>5, <1>6 DEF MovedOn
<1>8. Original!Advanced = Parts(stack')  BY <1>7, BodyHere
<1>9. RunsOf("run", stack') = Parts(stack')  BY <1>2, <1>5, <1>6, RunGoes, RunsBody
<1>. QED  BY <1>1, <1>8, <1>9, RunsIs

(* A body is started. *)
LEMMA BodyStarted ==
  ASSUME NEW u \in Seq(Frames), NEW d \in Modules, NEW local,
         NEW f, f = Frame(d, "body", local), f \in Frames,
         stack' = Append(u, f), outcome' = "run"
  PROVE  BodiesRun' = Append(Parts(u), Original!Frame(d))
<1>1. f.part = "body" /\ Part(f) = [module |-> d, at |-> 1]  BY DEF Frame, Part
<1>2. RunsOf("run", stack') = Parts(stack')  BY <1>1, RunGoes, RunsBody
<1>3. Parts(stack') = Append(Parts(u), Part(f))  BY PartsAppended
<1>. QED  BY <1>1, <1>2, <1>3, RunsIs DEF Original!Frame

(* A call loads a file, which the bundle does not see, starts a body, or goes on. *)
LEMMA CallRuns ==
  ASSUME IInv, DirectInv, DirectInv', Direct(program), Call
  PROVE  [Original!Next]_(Original!vars)
<1>1. PICK d : d = Step.expression[2]  OBVIOUS
<1>2. /\ InCode /\ Step.expression[1] = "call" /\ d \in Modules
      /\ \/ status[d] = "absent" /\ d \notin Range(started) /\ LoadText(d)
         \/ status[d] = "loaded" /\ d \notin Range(started) /\ Start(d)
         \/ /\ status[d] = "loaded" /\ d \in Range(started)
            /\ ~(Step.binds # {} /\ cache[d] = None) /\ CallStarted(d)
  BY <1>1, DirectCall
<1>3. /\ BodiesRun = Parts(stack) /\ BodiesRun # << >>
      /\ Original!Running /\ Original!Expression = Step.expression
  BY <1>2, BodyHere
<1>4. outcome = "run" /\ stack # << >> /\ stack \in Seq(Frames)
  <2>1. outcome = "run" /\ stack # << >>  BY <1>2 DEF InCode
  <2>. QED  BY <2>1, Here
<1>5. Original!Range(started) = Range(started)  BY DEF Original!Range, Range
<1>6. SameFiles(status, status)  BY DEF SameFiles
<1>7. CASE status[d] = "absent" /\ LoadText(d)
  <2>1. /\ stack' = Append(stack, Frame(d, "load", {}))
        /\ UNCHANGED <<program, outcome, started, seen>>
        /\ status' = [status EXCEPT ![d] = "loading"]
        /\ \A m \in Modules : m # d => cells'[m] = cells[m]
        /\ \A x \in Variables \cap SupportNames(program, d) : cells'[d][x] = Undefined
    BY <1>1, <1>2, <1>7, DirectLoad
  <2>2. VariablesKept' = VariablesKept
    <3>1. ASSUME NEW m \in Modules, NEW x \in Variables \cap SupportNames(program, m)
          PROVE  ValueIn(status, cells, m, x) = ValueIn(status', cells', m, x)
      <4>0. status \in [Modules -> {"absent", "loading", "loaded"}]  BY DEF IInv, TypeOK
      <4>1. CASE m = d
        <5>1. ValueIn(status, cells, m, x) = Undefined  BY <1>7, <4>1 DEF ValueIn
        <5>2. status'[m] = "loading" /\ cells'[m][x] = Undefined  BY <2>1, <3>1, <4>0, <4>1
        <5>. QED  BY <5>1, <5>2 DEF ValueIn
      <4>2. CASE m # d
        <5>1. status'[m] = status[m] /\ cells'[m] = cells[m]  BY <2>1, <4>0, <4>2
        <5>. QED  BY <5>1 DEF ValueIn
      <4>. QED  BY <4>1, <4>2
    <3>. QED  BY <2>1, <3>1, VariablesStay
  <2>3. BodiesRun' = BodiesRun
    <3>1. PICK f : f = Frame(d, "load", {})  OBVIOUS
    <3>2. f \in Frames /\ f.part = "load"  BY <1>2, <3>1, NewFrame
    <3>3. stack' = Append(stack, f)  BY <2>1, <3>1
    <3>4. RunsOf("run", stack') = Parts(stack)  BY <1>4, <3>2, <3>3, RunGoes, RunsLoad
    <3>. QED  BY <1>3, <1>4, <2>1, <3>4, RunsIs
  <2>. QED  BY <2>1, <2>2, <2>3 DEF Original!vars
<1>8. CASE d \notin Range(started) /\ Start(d)
  <2>1. /\ stack' = Append(stack, Frame(d, "body", files[d].local))
        /\ Frame(d, "body", files[d].local) \in Frames
        /\ started' = Append(started, d)
        /\ UNCHANGED <<program, outcome, status, cells, seen>>
    BY <1>1, <1>2, <1>8, DirectStart
  <2>2. VariablesKept' = VariablesKept  BY <1>6, <2>1, SameVariables
  <2>3. BodiesRun' = Append(BodiesRun, Original!Frame(d))
    <3>1. PICK f : f = Frame(d, "body", files[d].local)  OBVIOUS
    <3>2. f \in Frames /\ stack' = Append(stack, f) /\ outcome' = "run"  BY <1>4, <2>1, <3>1
    <3>3. BodiesRun' = Append(Parts(stack), Original!Frame(d))
      BY <1>2, <1>4, <3>1, <3>2, BodyStarted
    <3>. QED  BY <1>3, <3>3
  <2>4. Original!Call
    BY <1>1, <1>2, <1>3, <1>5, <1>8, <2>1, <2>2, <2>3 DEF Original!Call
  <2>. QED  BY <2>4 DEF Original!Next
<1>9. CASE d \in Range(started) /\ ~(Step.binds # {} /\ cache[d] = None) /\ CallStarted(d)
  <2>1. UNCHANGED <<program, files, outcome, status, cache, started, seen>>
    BY <1>9 DEF CallStarted
  <2>2. PICK l \in Scopes : stack' = Append(Front(stack), Passed(Inner, l))
    <3>1. CASE Step.binds = {}
      <4>1. stack' = Append(Front(stack), Passed(Inner, Top.local))
        BY <1>1, <1>2, <1>9, <3>1, DirectAgain
      <4>2. Top \in Frames  BY <1>4, Here
      <4>3. Top.local \in Scopes  BY <4>2 DEF Frames
      <4>. QED  BY <4>1, <4>3
    <3>2. CASE Step.binds # {}  BY <1>1, <1>2, <1>9, <3>2, DirectTakes
    <3>. QED  BY <3>1, <3>2
  <2>3. \A e \in Modules : SupportNames(program, e) # {} => cells'[e] = cells[e]
    <3>1. CASE Step.binds = {}  BY <1>1, <1>2, <1>9, <3>1, DirectAgain
    <3>2. CASE Step.binds # {}  BY <1>1, <1>2, <1>9, <3>2, DirectTakes
    <3>. QED  BY <3>1, <3>2
  <2>4. VariablesKept' = VariablesKept  BY <1>6, <2>1, <2>3, SameVariables
  <2>5. BodiesRun' = Original!Advanced  BY <1>2, <2>1, <2>2, BodyAdvances
  <2>6. Original!Call
    BY <1>1, <1>2, <1>3, <1>5, <1>9, <2>1, <2>4, <2>5 DEF Original!Call
  <2>. QED  BY <2>6 DEF Original!Next
<1>. QED  BY <1>2, <1>7, <1>8, <1>9

(* A variable gets a value. *)
LEMMA VariableChanges ==
  ASSUME DirectInv, DirectInv', Direct(program), UNCHANGED <<program, status>>,
         NEW x \in Variables, NEW v,
         \E m \in Modules : Assigns(program, m, x, v, status, cells, cells')
  PROVE  VariablesKept' = [VariablesKept EXCEPT ![x] = v]
<1>1. PICK m \in Modules : Assigns(program, m, x, v, status, cells, cells')  OBVIOUS
<1>2. CellsKept(program, status, cells, cache) /\ CellsKept(program, status', cells', cache')
  BY CellsThen
<1>3. CellsKept(program, status, cells', cache')  BY <1>2
<1>4. KeptOf(program, status, cells') = [KeptOf(program, status, cells) EXCEPT ![x] = v]
  BY <1>1, <1>2, <1>3, KeptChanged
<1>5. KeptOf(program, status', cells') = KeptOf(program, status, cells')  OBVIOUS
<1>. QED  BY <1>4, <1>5, KeptIs

LEMMA SetRuns ==
  ASSUME IInv, DirectInv, DirectInv', Direct(program), Set
  PROVE  Original!Set
<1>1. PICK x : x = Step.expression[2]  OBVIOUS
<1>2. /\ UNCHANGED <<program, outcome, started, status, seen>>
      /\ stack' = Append(Front(stack), Passed(Inner, Top.local)) /\ x \in Variables
      /\ \E m \in Modules : Assigns(program, m, x, "set", status, cells, cells')
  BY <1>1, DirectSet
<1>3. InCode /\ Step.expression[1] = "set"  BY DEF Set, Does
<1>4. Original!Running /\ Original!Expression = Step.expression  BY <1>3, BodyHere
<1>5. Top.local \in Scopes
  <2>1. Top \in Frames  BY <1>3, Here DEF InCode
  <2>. QED  BY <2>1 DEF Frames
<1>6. BodiesRun' = Original!Advanced  BY <1>2, <1>3, <1>5, BodyAdvances
<1>7. VariablesKept' = [VariablesKept EXCEPT ![x] = "set"]  BY <1>2, VariableChanges
<1>. QED  BY <1>1, <1>2, <1>3, <1>4, <1>6, <1>7 DEF Original!Set

LEMMA BumpRuns ==
  ASSUME IInv, DirectInv, DirectInv', Direct(program), Bump
  PROVE  Original!Bump
<1>1. PICK f : f = Step.expression[2]  OBVIOUS
<1>2. /\ UNCHANGED <<program, outcome, started, status, seen>>
      /\ stack' = Append(Front(stack), Passed(Inner, Top.local)) /\ Target[f] \in Variables
      /\ \E m \in Modules : Assigns(program, m, Target[f], "bumped", status, cells, cells')
  BY <1>1, DirectBump
<1>3. InCode /\ Step.expression[1] = "bump"  BY DEF Bump, Does
<1>4. Original!Running /\ Original!Expression = Step.expression  BY <1>3, BodyHere
<1>5. Top.local \in Scopes
  <2>1. Top \in Frames  BY <1>3, Here DEF InCode
  <2>. QED  BY <2>1 DEF Frames
<1>6. BodiesRun' = Original!Advanced  BY <1>2, <1>3, <1>5, BodyAdvances
<1>7. VariablesKept' = [VariablesKept EXCEPT ![Target[f]] = "bumped"]  BY <1>2, VariableChanges
<1>. QED  BY <1>1, <1>2, <1>3, <1>4, <1>6, <1>7 DEF Original!Bump

LEMMA UseRuns ==
  ASSUME IInv, DirectInv, DirectInv', Direct(program), Use
  PROVE  Original!Use
<1>1. PICK x : x = Step.expression[2]  OBVIOUS
<1>2. /\ UNCHANGED <<program, outcome, started, status, cells>>
      /\ stack' = Append(Front(stack), Passed(Inner, Top.local))
      /\ \E d \in Modules : /\ Sole(program, d, x) /\ status[d] # "absent"
                            /\ seen' = Append(seen, cells[d][x])
  BY <1>1, DirectUse
<1>3. InCode /\ Step.expression[1] = "use"  BY DEF Use, Does
<1>4. Original!Running /\ Original!Expression = Step.expression  BY <1>3, BodyHere
<1>5. Top.local \in Scopes
  <2>1. Top \in Frames  BY <1>3, Here DEF InCode
  <2>. QED  BY <2>1 DEF Frames
<1>6. BodiesRun' = Original!Advanced  BY <1>2, <1>3, <1>5, BodyAdvances
<1>7. SameFiles(status, status')  BY <1>2 DEF SameFiles
<1>8. VariablesKept' = VariablesKept  BY <1>2, <1>7, SameVariables
<1>9. x \in Variables
  <2>1. Step.expression \in Expression  BY <1>3, HereStep
  <2>. QED  BY <1>1, <1>3, <2>1, ExpressionKinds
<1>10. seen' = Append(seen, VariablesKept[x])
  <2>1. PICK d \in Modules : /\ Sole(program, d, x) /\ status[d] # "absent"
                             /\ seen' = Append(seen, cells[d][x])
    BY <1>2
  <2>2. CellsKept(program, status, cells, cache)  BY <1>2, CellsThen
  <2>3. KeptOf(program, status, cells)[x] = ValueIn(status, cells, d, x)
    BY <1>9, <2>1, <2>2, KeptInFile
  <2>4. VariablesKept[x] = cells[d][x]  BY <2>1, <2>3, KeptIs DEF ValueIn
  <2>. QED  BY <2>1, <2>4
<1>. QED  BY <1>1, <1>2, <1>3, <1>4, <1>6, <1>8, <1>10 DEF Original!Use

(* A stack with no load on top. *)
LEMMA RunsNoLoad ==
  ASSUME NEW o, Goes(o), NEW s, s = << >> \/ Last(s).part = "body"
  PROVE  RunsOf(o, s) = Parts(s)
BY DEF RunsOf, Goes, Failure

(* A body that is at its end is at its end in the bundle. *)
LEMMA BodyEnds ==
  ASSUME IInv, Direct(program), AtEnd, Top.part = "body"
  PROVE  /\ BodiesRun # << >> /\ ~Original!Running
         /\ Original!Front(BodiesRun) = Parts(Front(stack))
<1>1. outcome = "run" /\ stack # << >> /\ Top.at > Len(Steps(Top))  BY DEF AtEnd
<1>2. PICK u \in Seq(Frames), f \in Frames :
        /\ u = Front(stack) /\ f = Top /\ stack = Append(u, f)
        /\ IsProgram(program) /\ Steps(Top) = Text(program, f)
        /\ f.module = Driver => f.part = "body"
  BY <1>1, Here
<1>3. f.part = "body" /\ f.at > Len(Text(program, f))  BY <1>1, <1>2
<1>4. BodiesRun = Parts(Append(u, f))
  <2>1. RunsOf("run", stack) = Parts(stack)  BY <1>2, <1>3, RunGoes, RunsBody
  <2>. QED  BY <1>1, <1>2, <2>1, RunsIs
<1>5. /\ BodiesRun # << >> /\ Original!Front(BodiesRun) = Parts(u)
      /\ Original!Running <=> f.at <= Len(Text(program, f))
  BY <1>2, <1>3, <1>4, OriginalHere
<1>6. f.at \in Nat /\ Len(Text(program, f)) \in Nat
  <2>1. Text(program, f) \in Seq(StepType)  BY <1>2, <1>3, DirectText
  <2>. QED  BY <2>1 DEF Frames
<1>7. ~(f.at <= Len(Text(program, f)))  BY <1>3, <1>6
<1>. QED  BY <1>2, <1>5, <1>7

LEMMA ReturnRuns ==
  ASSUME IInv, DirectInv, DirectInv', Direct(program), Return
  PROVE  Original!Return
<1>1. /\ UNCHANGED <<program, outcome, cells, started, seen>> /\ SameFiles(status, status')
      /\ stack' = Front(stack) /\ AtEnd /\ Top.part = "body"
      /\ Front(stack) # << >> /\ Waits(program, Last(Front(stack)), Top)
  BY DirectReturn
<1>2. /\ BodiesRun # << >> /\ ~Original!Running
      /\ Original!Front(BodiesRun) = Parts(Front(stack))
  BY <1>1, BodyEnds
<1>3. BodiesRun' = Parts(Front(stack))
  <2>1. Last(Front(stack)).part = "body" /\ outcome = "run"  BY <1>1 DEF Waits, AtEnd
  <2>2. RunsOf("run", Front(stack)) = Parts(Front(stack))  BY <2>1, RunGoes, RunsNoLoad
  <2>. QED  BY <1>1, <2>1, <2>2, RunsIs
<1>4. VariablesKept' = VariablesKept  BY <1>1, SameVariables
<1>. QED  BY <1>1, <1>2, <1>3, <1>4 DEF Original!Return

LEMMA FinishRuns ==
  ASSUME IInv, DirectInv, DirectInv', Direct(program), Finish
  PROVE  Original!Return
<1>1. /\ UNCHANGED <<program, status, cells, started, seen>>
      /\ stack' = << >> /\ Front(stack) = << >> /\ outcome' = "done" /\ AtEnd
      /\ Top.part = "body"
  BY DirectFinish
<1>2. /\ BodiesRun # << >> /\ ~Original!Running
      /\ Original!Front(BodiesRun) = Parts(Front(stack))
  BY <1>1, BodyEnds
<1>3. BodiesRun' = Parts(Front(stack))
  <2>1. RunsOf("done", << >>) = Parts(<< >>)  BY RunGoes, RunsNoLoad
  <2>. QED  BY <1>1, <2>1, RunsIs
<1>4. SameFiles(status, status')  BY <1>1 DEF SameFiles
<1>5. VariablesKept' = VariablesKept  BY <1>1, <1>4, SameVariables
<1>. QED  BY <1>1, <1>2, <1>3, <1>5 DEF Original!Return

LEMMA UnpackRuns ==
  ASSUME IInv, DirectInv, DirectInv', Direct(program), Unpack
  PROVE  UNCHANGED Original!vars
<1>1. /\ UNCHANGED <<program, status, cells, stack, started, seen>>
      /\ outcome = "unpack" /\ outcome' = "run"
  BY DirectUnpack
<1>2. \A s : RunsOf("run", s) = RunsOf("unpack", s)  BY DEF RunsOf, Failure
<1>3. BodiesRun' = BodiesRun  BY <1>1, <1>2, RunsIs
<1>4. VariablesKept' = VariablesKept  BY <1>1, KeptIs
<1>. QED  BY <1>1, <1>3, <1>4 DEF Original!vars

(* A loaded file of a lazy module is nothing that the bundle sees; that of a CommonJs module
   starts the body. *)
LEMMA LoadedRuns ==
  ASSUME IInv, DirectInv, DirectInv', Direct(program), Loaded
  PROVE  [Original!Next]_(Original!vars)
<1>1. outcome = "run" /\ stack # << >> /\ Top.part = "load"  BY DEF Loaded, AtEnd
<1>2. PICK u \in Seq(Frames), f \in Frames :
        /\ u = Front(stack) /\ f = Top /\ stack = Append(u, f)
        /\ IsProgram(program)
        /\ f.module = Driver => f.part = "body"
        /\ f.module # Driver => u # << >>
  BY <1>1, Here
<1>3. u # << >> /\ f.part = "load"  BY <1>1, <1>2
<1>4. Waits(program, Last(u), Top)  BY <1>1, <1>2, <1>3, DirectFrames
<1>5. Last(u).part = "body"  BY <1>4 DEF Waits
<1>6. BodiesRun = Parts(u)
  <2>1. RunsOf("run", stack) = Parts(u)  BY <1>2, <1>3, RunGoes, RunsLoad
  <2>. QED  BY <1>1, <2>1, RunsIs
<1>7. CASE program.kind[Top.module] = "lazy"
  <2>1. /\ UNCHANGED <<program, outcome, cells, started, seen>> /\ SameFiles(status, status')
        /\ stack' = Front(stack)
    BY <1>7, DirectLoaded
  <2>2. RunsOf("run", u) = Parts(u)  BY <1>5, RunGoes, RunsNoLoad
  <2>3. BodiesRun' = BodiesRun  BY <1>1, <1>2, <1>6, <2>1, <2>2, RunsIs
  <2>4. VariablesKept' = VariablesKept  BY <2>1, SameVariables
  <2>. QED  BY <2>1, <2>3, <2>4 DEF Original!vars
<1>8. CASE program.kind[Top.module] # "lazy"
  <2>1. PICK d \in Modules : d = Top.module  BY <1>8, DirectTurned
  <2>2. /\ UNCHANGED <<program, outcome, cells, status, seen>>
        /\ d \notin Range(started) /\ Frame(d, "body", {}) \in Frames
        /\ stack' = Append(u, Frame(d, "body", {})) /\ started' = Append(started, d)
    BY <1>2, <1>8, <2>1, DirectTurned
  <2>3. PICK v \in Seq(Frames), g \in Frames : v = Front(u) /\ g = Last(u) /\ u = Append(v, g)
    BY <1>3, TopOfStack
  <2>4. BodiesRun = Parts(Append(v, g))  BY <1>6, <2>3
  <2>5. /\ g.part = "body" /\ g.at <= Len(Text(program, g))
        /\ Text(program, g)[g.at].expression[1] = "call"
        /\ Text(program, g)[g.at].expression[2] = d
    BY <1>4, <2>1, <2>3 DEF Waits, IsCall
  <2>6. /\ Original!Running /\ Original!Expression = Text(program, g)[g.at].expression
    BY <1>2, <2>3, <2>4, <2>5, OriginalHere
  <2>7. BodiesRun' = Append(BodiesRun, Original!Frame(d))
    <3>1. PICK h : h = Frame(d, "body", {})  OBVIOUS
    <3>2. h \in Frames /\ stack' = Append(u, h) /\ outcome' = "run"  BY <1>1, <2>2, <3>1
    <3>3. BodiesRun' = Append(Parts(u), Original!Frame(d))  BY <3>1, <3>2, BodyStarted
    <3>. QED  BY <1>6, <3>3
  <2>8. SameFiles(status, status')  BY <2>2 DEF SameFiles
  <2>9. VariablesKept' = VariablesKept  BY <2>2, <2>8, SameVariables
  <2>10. Original!Range(started) = Range(started)  BY DEF Original!Range, Range
  <2>11. Original!Call
    BY <2>2, <2>5, <2>6, <2>7, <2>9, <2>10 DEF Original!Call
  <2>. QED  BY <2>11 DEF Original!Next
<1>. QED  BY <1>7, <1>8

LEMMA InitRuns ==
  ASSUME Init
  PROVE  Original!Init
<1>1. PICK f : f = Frame(Driver, "body", {})  OBVIOUS
<1>2. f \in Frames /\ f.part = "body" /\ f.module = Driver /\ f.at = 1  BY <1>1, NewFrame
<1>3. stack = <<f>> /\ outcome = "unpack"  BY <1>1 DEF Init
<1>4. PICK u \in Seq(Frames) : u = << >>  BY EmptySeq
<1>5. stack = Append(u, f)  BY <1>2, <1>3, <1>4
<1>6. BodiesRun = Parts(stack)
  <2>1. RunsOf("unpack", stack) = Parts(stack)  BY <1>2, <1>5, RunGoes, RunsBody
  <2>. QED  BY <1>3, <2>1, RunsIs
<1>7. Parts(u) = << >>  BY <1>4, PartsOf
<1>8. Parts(stack) = Append(Parts(u), Part(f))  BY <1>2, <1>5, PartsAppended
<1>9. Part(f) = Original!Frame(Driver)  BY <1>2 DEF Part, Original!Frame
<1>10. BodiesRun = <<Original!Frame(Driver)>>
  <2>1. BodiesRun = Append(<< >>, Original!Frame(Driver))  BY <1>6, <1>7, <1>8, <1>9
  <2>. QED  BY <2>1
<1>11. VariablesKept = [x \in Variables |-> Undefined]
  <2>1. ASSUME NEW x \in Variables PROVE Kept(x) = Undefined
    <3>1. \A m \in Modules : status[m] = "absent"  BY DEF Init
    <3>2. {m \in Owners(program, x) : status[m] # "absent"} = {}  BY <3>1 DEF Owners
    <3>. QED  BY <3>2 DEF Kept
  <2>. QED  BY <2>1 DEF VariablesKept
<1>. QED  BY <1>10, <1>11 DEF Original!Init, Init

(* Whatever a step of the files does, it is one of the bundle, or none. *)
LEMMA StepsRun ==
  ASSUME IInv, DirectInv, DirectInv', Direct(program), Next
  PROVE  [Original!Next]_(Original!vars)
<1>1. CASE Unpack  BY <1>1, UnpackRuns
<1>2. CASE Call  BY <1>2, CallRuns
<1>3. CASE Set  BY <1>3, SetRuns DEF Original!Next
<1>4. CASE Use  BY <1>4, UseRuns DEF Original!Next
<1>5. CASE Bump  BY <1>5, BumpRuns DEF Original!Next
<1>6. CASE Loaded  BY <1>6, LoadedRuns
<1>7. CASE Return  BY <1>7, ReturnRuns DEF Original!Next
<1>8. CASE Finish  BY <1>8, FinishRuns DEF Original!Next
<1>. QED  BY <1>1, <1>2, <1>3, <1>4, <1>5, <1>6, <1>7, <1>8 DEF Next

(* The invariant of direct bundles: output/runtime.rs, createLazyInit and require run the
   files of a direct bundle without a failure, bodies do not run twice, and each file keeps
   the values of its own variables, with copies of them in the bodies that called it. *)
THEOREM DirectInvariant == Spec => []DirectInv
<1>1. IInv /\ DirectInv /\ [Next]_vars => DirectInv'  BY DirectStays
<1>. QED  BY <1>1, InitDirect, InvariantIInv, PTL DEF Spec

(* The files that rewrite/ and js/unbundle.rs make of a direct bundle start the same bodies
   as the bundle in the same order, change the same variables and see the same values: each
   step of output/runtime.rs on the files is a step of the bundle, or one it does not see. *)
THEOREM FilesRunLikeBundle == Spec => RunsLikeBundle
<1>1. Init => (Direct(program) => Original!Init)  BY InitRuns
<1>2. IInv /\ DirectInv /\ DirectInv' /\ [Next]_vars
        => [Direct(program) => [Original!Next]_(Original!vars)]_vars
  BY StepsRun
<1>. QED  BY <1>1, <1>2, InvariantIInv, DirectInvariant, PTL DEF Spec, RunsLikeBundle

=============================================================================
