-------------------------- MODULE CommandLineProofs --------------------------
(***************************************************************************)
(* Proofs about CommandLine, for every set of paths and every command line.        *)
(***************************************************************************)
EXTENDS CommandLine, SequenceTheorems, TLAPS

(* The types of the variables: a slot is an argument's path, or a default. *)
TypeOK ==
  /\ argv \in Seq(Argument)
  /\ original \in Path \cup {None}
  /\ at \in Nat \ {0}
  /\ command \in CommandNames \cup {None}
  /\ slots \in [AllSlots -> Path \cup {None}]
  /\ source \in [AllSlots -> Nat]
  /\ given \in [DOMAIN argv -> AllSlots \cup {None}]
  /\ outcome \in {"reading", "help", "error", "run"}

(* A value is an argument that was read, and every argument that was read has its use. *)
ReadSoFar ==
  /\ command = None => at = 1
  /\ at <= Len(argv) + 1
  /\ \A s \in AllSlots : source[s] < at
  /\ \A k \in DOMAIN argv : k >= at => given[k] = None
  /\ command # None => \A k \in 1 .. at - 1 : Accounted(k)

(* The slot of a switch comes from that switch. *)
SwitchesOwn ==
  command # None => \A s \in Range(Switch(command)) :
    source[s] # 0 => /\ argv[source[s]].flag \in DOMAIN Switch(command)
                     /\ Switch(command)[argv[source[s]].flag] = s

(* While arguments are read there are no defaults. *)
NoDefaults ==
  outcome = "reading" => \A s \in AllSlots : slots[s] = None <=> source[s] = 0

(* A command that runs read all of its line, has what it needs, and writes to the default
   if it was given no output. *)
Ready ==
  outcome = "run" =>
    /\ command # None
    /\ at > Len(argv)
    /\ command \in {"unpack", "apply-patch"} => slots["input"] # None
    /\ source["out"] = 0 => slots["out"] = DefaultOut(command, slots)

(* The inductive invariant. *)
IInv == TypeOK /\ ReadSoFar /\ SwitchesOwn /\ NoDefaults /\ Ready

-----------------------------------------------------------------------------
(* Short sequences *)

(* A sequence of one, and of two. *)
LEMMA One ==
  ASSUME NEW S, NEW x \in S
  PROVE  <<x>> \in Seq(S) /\ Len(<<x>>) = 1 /\ <<x>>[1] = x
  OBVIOUS

LEMMA Two ==
  ASSUME NEW S, NEW x \in S, NEW y \in S
  PROVE  <<x, y>> \in Seq(S) /\ Len(<<x, y>>) = 2
  OBVIOUS

-----------------------------------------------------------------------------
(* The tables of the commands *)

(* Options and switches name slots, and no slot both ways. *)
LEMMA SlotsNamed ==
  ASSUME NEW c \in CommandNames
  PROVE  /\ \A o \in DOMAIN Option(c) : Option(c)[o] \in AllSlots /\ Option(c)[o] \in Range(Option(c))
         /\ \A o \in DOMAIN Switch(c) : Switch(c)[o] \in AllSlots /\ Switch(c)[o] \in Range(Switch(c))
         /\ Range(Option(c)) \cap Range(Switch(c)) = {}
         /\ Range(Option(c)) \subseteq AllSlots
         /\ Range(Switch(c)) \subseteq {"no rename", "unbundle"}
<1>1. c = "unpack" \/ c \in {"pack", "patch"} \/ c = "apply-patch"  BY DEF CommandNames
<1>2. CASE c = "unpack"
  <2>1. Option(c) = [o \in {"--out-dir", "--module-name"} |->
                       IF o = "--out-dir" THEN "out" ELSE "module name"]
    BY <1>2 DEF Option
  <2>2. Switch(c) = [o \in {"--no-rename", "--unbundle"} |->
                       IF o = "--no-rename" THEN "no rename" ELSE "unbundle"]
    BY <1>2 DEF Switch
  <2>3. Range(Option(c)) = {"out", "module name"}  BY <2>1 DEF Range
  <2>4. Range(Switch(c)) = {"no rename", "unbundle"}  BY <2>2 DEF Range
  <2>. QED  BY <2>1, <2>2, <2>3, <2>4 DEF AllSlots
<1>3. CASE c \in {"pack", "patch"}
  <2>1. Option(c) = [o \in {"--from", "--out"} |-> IF o = "--from" THEN "from" ELSE "out"]
    BY <1>3 DEF Option
  <2>2. Switch(c) = [o \in {} |-> None]  BY <1>3 DEF Switch
  <2>. QED  BY <2>1, <2>2 DEF Range, AllSlots
<1>4. CASE c = "apply-patch"
  <2>1. Option(c) = [o \in {"--input", "--out"} |-> IF o = "--input" THEN "input" ELSE "out"]
    BY <1>4 DEF Option
  <2>2. Switch(c) = [o \in {} |-> None]  BY <1>4 DEF Switch
  <2>. QED  BY <2>1, <2>2 DEF Range, AllSlots
<1>. QED  BY <1>1, <1>2, <1>3, <1>4

(* The first free positional slot is one of the command that has no value, and no switch. *)
LEMMA FreeSlot ==
  ASSUME command \in CommandNames, Free # {}
  PROVE  /\ Positional(command)[Min(Free)] \in AllSlots \ {"no rename", "unbundle"}
         /\ slots[Positional(command)[Min(Free)]] = None
<1>1. /\ \A i \in DOMAIN Positional(command) :
            Positional(command)[i] \in AllSlots \ {"no rename", "unbundle"}
      /\ DOMAIN Positional(command) \subseteq 1 .. 2
  <2>. DEFINE Ordinary == AllSlots \ {"no rename", "unbundle"}
  <2>1. "input" \in Ordinary /\ "from" \in Ordinary /\ "patch file" \in Ordinary  BY DEF AllSlots
  <2>2. PICK input \in Ordinary, from \in Ordinary, file \in Ordinary :
          input = "input" /\ from = "from" /\ file = "patch file"
    BY <2>1
  <2>. HIDE DEF Ordinary
  <2>3. <<input>> \in Seq(Ordinary) /\ Len(<<input>>) = 1  BY One
  <2>4. <<from>> \in Seq(Ordinary) /\ Len(<<from>>) = 1  BY One
  <2>5. <<file, input>> \in Seq(Ordinary) /\ Len(<<file, input>>) = 2  BY Two
  <2>6. \/ Positional(command) = <<input>> \/ Positional(command) = <<from>>
        \/ Positional(command) = <<file, input>>
    BY <2>2, Zenon DEF Positional, CommandNames
  <2>7. Positional(command) \in Seq(Ordinary) /\ Len(Positional(command)) \in {1, 2}
    BY <2>3, <2>4, <2>5, <2>6
  <2>8. \A i \in DOMAIN Positional(command) : Positional(command)[i] \in Ordinary
    BY <2>7, ElementOfSeq, LenProperties
  <2>9. DOMAIN Positional(command) \subseteq 1 .. 2  BY <2>7
  <2>. QED  BY <2>8, <2>9 DEF Ordinary
<1>2. Free \subseteq 1 .. 2 /\ Free \subseteq DOMAIN Positional(command)  BY <1>1 DEF Free
<1>3. \E x \in Free : \A y \in Free : x <= y
  <2>1. CASE 1 \in Free  BY <1>2, <2>1
  <2>2. CASE 1 \notin Free
    <3>1. PICK x \in Free : x \in 1 .. 2  BY <1>2
    <3>2. \A y \in Free : y = 2  BY <1>2, <2>2
    <3>. QED  BY <3>1, <3>2
  <2>. QED  BY <2>1, <2>2
<1>4. Min(Free) \in Free  BY <1>3 DEF Min
<1>5. slots[Positional(command)[Min(Free)]] = None  BY <1>4 DEF Free
<1>. QED  BY <1>1, <1>2, <1>4, <1>5

-----------------------------------------------------------------------------
(* Default paths *)

(* The defaults are paths. *)
LEMMA BesideType ==
  ASSUME NEW path \in Path, NEW suffix \in STRING
  PROVE  /\ Beside(path, suffix) \in Path
         /\ Last(Beside(path, suffix).name) = suffix
         /\ Stem(path.name) \in Seq(STRING)
<1>1. path.name \in Seq(STRING) /\ path.name # <<>>  BY DEF Path
<1>2. Front(path.name) \in Seq(STRING)
  <2>1. PICK n \in Nat : n = Len(path.name) /\ n > 0  BY <1>1
  <2>2. \A i \in 1 .. n - 1 : path.name[i] \in STRING  BY <1>1, <2>1
  <2>. QED  BY <1>1, <2>1, <2>2 DEF Front
<1>3. Stem(path.name) \in Seq(STRING)  BY <1>1, <1>2 DEF Stem
<1>4. PICK stem \in Seq(STRING) : stem = Stem(path.name)  BY <1>3
<1>5. PICK name : name = Append(stem, suffix)  OBVIOUS
<1>6. name \in Seq(STRING) /\ name # <<>> /\ Len(name) = Len(stem) + 1
      /\ name[Len(stem) + 1] = suffix
  BY <1>5, AppendProperties
<1>7. Beside(path, suffix) = [path EXCEPT !.name = name]  BY <1>4, <1>5 DEF Beside
<1>8. Beside(path, suffix) \in Path /\ Beside(path, suffix).name = name
  BY <1>6, <1>7 DEF Path
<1>9. Last(name) = suffix  BY <1>6 DEF Last
<1>. QED  BY <1>3, <1>8, <1>9

(* A variant has one part more, in front of the extension or at the end. *)
Longer(name, longer, suffix) ==
  /\ longer \in Seq(STRING) /\ Len(longer) = Len(name) + 1
  /\ \/ /\ \A i \in 1 .. Len(name) - 1 : longer[i] = name[i]
        /\ longer[Len(name)] = suffix /\ longer[Len(name) + 1] = name[Len(name)]
     \/ /\ \A i \in 1 .. Len(name) : longer[i] = name[i]
        /\ longer[Len(name) + 1] = suffix

LEMMA VariantShape ==
  ASSUME NEW path \in Path, NEW suffix \in STRING
  PROVE  /\ Variant(path, suffix) \in Path
         /\ Variant(path, suffix).dir = path.dir
         /\ Longer(path.name, Variant(path, suffix).name, suffix)
<1>1. PICK name \in Seq(STRING) : name = path.name /\ name # <<>>  BY DEF Path
<1>2. PICK n \in Nat : n = Len(name) /\ n > 0  BY <1>1, EmptySeq
<1>3. \E longer : /\ Variant(path, suffix) = [path EXCEPT !.name = longer]
                  /\ Longer(name, longer, suffix)
  <2>1. CASE HasExtension(name) /\ Last(name) # ""
    <3>1. PICK front : front = SubSeq(name, 1, n - 1)  OBVIOUS
    <3>2. Stem(path.name) = front  BY <1>1, <1>2, <2>1, <3>1 DEF Stem, Front
    <3>3. /\ front \in Seq(STRING) /\ Len(front) = n - 1
          /\ \A i \in 1 .. n - 1 : front[i] = name[i]
      <4>1. \A i \in 1 .. n - 1 : name[i] \in STRING  BY <1>1, <1>2, ElementOfSeq
      <4>. QED  BY <1>1, <1>2, <3>1, <4>1
    <3>4. PICK middle : middle = Append(front, suffix)  OBVIOUS
    <3>5. /\ middle \in Seq(STRING) /\ Len(middle) = n
          /\ middle[n] = suffix /\ \A i \in 1 .. n - 1 : middle[i] = name[i]
      <4>1. /\ middle \in Seq(STRING) /\ Len(middle) = Len(front) + 1
            /\ \A i \in 1 .. Len(front) : middle[i] = front[i]
            /\ middle[Len(front) + 1] = suffix
        BY <3>3, <3>4, AppendProperties
      <4>2. Len(front) + 1 = n  BY <1>2, <3>3
      <4>. QED  BY <3>3, <4>1, <4>2
    <3>6. PICK last \in STRING : last = name[n]  BY <1>1, <1>2, ElementOfSeq
    <3>7. PICK longer : longer = middle \o <<last>>  OBVIOUS
    <3>8. <<last>> \in Seq(STRING) /\ Len(<<last>>) = 1 /\ <<last>>[1] = last  BY One
    <3>9. /\ longer \in Seq(STRING) /\ Len(longer) = n + 1
          /\ \A i \in 1 .. n : longer[i] = middle[i]
          /\ longer[n + 1] = last
      <4>. DEFINE end == <<last>>
      <4>1. end \in Seq(STRING) /\ Len(end) = 1 /\ end[1] = last  BY <3>8
      <4>2. longer = middle \o end  BY <3>7
      <4>. HIDE DEF end
      <4>3. /\ longer \in Seq(STRING) /\ Len(longer) = Len(middle) + Len(end)
            /\ \A i \in 1 .. Len(middle) + Len(end) :
                 longer[i] = IF i <= Len(middle) THEN middle[i] ELSE end[i - Len(middle)]
        BY <3>5, <4>1, <4>2, ConcatProperties
      <4>4. Len(middle) + Len(end) = n + 1 /\ (n + 1) - Len(middle) = 1  BY <1>2, <3>5, <4>1
      <4>5. \A i \in 1 .. n : longer[i] = middle[i]  BY <1>2, <3>5, <4>3, <4>4
      <4>6. longer[n + 1] = last
        <5>1. n + 1 \in 1 .. Len(middle) + Len(end) /\ ~(n + 1 <= Len(middle))
          BY <1>2, <3>5, <4>4
        <5>2. longer[n + 1] = end[(n + 1) - Len(middle)]  BY <4>3, <5>1
        <5>. QED  BY <4>1, <4>4, <5>2
      <4>. QED  BY <4>3, <4>4, <4>5, <4>6
    <3>10. Variant(path, suffix) = [path EXCEPT !.name = longer]
      <4>1. Last(path.name) = last  BY <1>1, <1>2, <3>6 DEF Last
      <4>2. HasExtension(path.name) /\ Last(path.name) # ""  BY <1>1, <2>1
      <4>3. longer = Append(Stem(path.name), suffix) \o <<Last(path.name)>>
        BY <3>2, <3>4, <3>7, <4>1
      <4>. QED  BY <4>2, <4>3, Zenon DEF Variant
    <3>11. Longer(name, longer, suffix)
      <4>1. /\ \A i \in 1 .. n - 1 : longer[i] = name[i]
            /\ longer[n] = suffix /\ longer[n + 1] = name[n]
        <5>1. n \in 1 .. n /\ \A i \in 1 .. n - 1 : i \in 1 .. n  BY <1>2
        <5>. QED  BY <3>5, <3>6, <3>9, <5>1
      <4>. QED  BY <1>2, <3>9, <4>1, Zenon DEF Longer
    <3>. QED  BY <3>10, <3>11
  <2>2. CASE ~(HasExtension(name) /\ Last(name) # "")
    <3>1. PICK longer : longer = Append(name, suffix)  OBVIOUS
    <3>2. Variant(path, suffix) = [path EXCEPT !.name = longer]  BY <1>1, <2>2, <3>1 DEF Variant
    <3>3. Longer(name, longer, suffix)  BY <1>1, <3>1, AppendProperties DEF Longer
    <3>. QED  BY <3>2, <3>3
  <2>. QED  BY <2>1, <2>2
<1>4. PICK longer : /\ Variant(path, suffix) = [path EXCEPT !.name = longer]
                    /\ Longer(name, longer, suffix)
  BY <1>3
<1>5. longer \in Seq(STRING) /\ longer # <<>>  BY <1>2, <1>4, EmptySeq DEF Longer
<1>6. /\ Variant(path, suffix) \in Path
      /\ Variant(path, suffix).dir = path.dir /\ Variant(path, suffix).name = longer
  BY <1>4, <1>5 DEF Path
<1>. QED  BY <1>1, <1>4, <1>6

(* A variant is not the file, and no two files have the same: a file that ends like the
   variant would be the same file. *)
LEMMA VariantDiffers ==
  ASSUME NEW path \in Path, NEW suffix \in STRING
  PROVE  Variant(path, suffix) # path
<1>1. path.name \in Seq(STRING)  BY DEF Path
<1>2. Len(Variant(path, suffix).name) = Len(path.name) + 1  BY VariantShape DEF Longer
<1>3. Len(path.name) \in Nat  BY <1>1
<1>. QED  BY <1>2, <1>3

LEMMA VariantInjective ==
  ASSUME NEW path \in Path, NEW other \in Path, NEW suffix \in STRING,
         Variant(path, suffix) = Variant(other, suffix)
  PROVE  path = other
<1>1. PICK name \in Seq(STRING), otherName \in Seq(STRING) :
        /\ name = path.name /\ otherName = other.name /\ name # <<>> /\ otherName # <<>>
  BY DEF Path
<1>2. PICK longer : longer = Variant(path, suffix).name  OBVIOUS
<1>3. Longer(name, longer, suffix) /\ Longer(otherName, longer, suffix)
  BY <1>1, <1>2, VariantShape
<1>4. PICK n \in Nat : n = Len(name) /\ n > 0  BY <1>1, EmptySeq
<1>5. Len(otherName) = n  BY <1>3, <1>4, LenProperties DEF Longer
<1>6. \A i \in 1 .. n : name[i] = otherName[i]
  <2>. SUFFICES ASSUME NEW i \in 1 .. n PROVE name[i] = otherName[i]  OBVIOUS
  <2>. DEFINE Made(made) ==
                \/ longer[n] = suffix /\ longer[n + 1] = made[n]
                \/ longer[n] = made[n] /\ longer[n + 1] = suffix
              Starts(made) == \A j \in 1 .. n - 1 : longer[j] = made[j]
  <2>1. ASSUME NEW made, Len(made) = n, Longer(made, longer, suffix)
        PROVE  Made(made) /\ Starts(made)
    <3>1. n \in 1 .. n /\ \A j \in 1 .. n - 1 : j \in 1 .. n  BY <1>4
    <3>2. CASE /\ \A j \in 1 .. n - 1 : longer[j] = made[j]
               /\ longer[n] = suffix /\ longer[n + 1] = made[n]
      BY <3>2
    <3>3. CASE /\ \A j \in 1 .. n : longer[j] = made[j]
               /\ longer[n + 1] = suffix
      BY <3>1, <3>3
    <3>. QED  BY <2>1, <3>2, <3>3, Zenon DEF Longer
  <2>2. Made(name) /\ Made(otherName) /\ Starts(name) /\ Starts(otherName)
    BY <1>3, <1>4, <1>5, <2>1
  <2>3. CASE i = n
    <3>1. name[n] = otherName[n]  BY <2>2
    <3>. QED  BY <2>3, <3>1
  <2>4. CASE i # n
    <3>1. i \in 1 .. n - 1  BY <1>4, <2>4
    <3>. QED  BY <2>2, <3>1
  <2>. QED  BY <2>3, <2>4
<1>7. name = otherName  BY <1>1, <1>4, <1>5, <1>6
<1>8. path.dir = other.dir  BY VariantShape
<1>9. path = [dir |-> path.dir, name |-> path.name]  BY DEF Path
<1>10. other = [dir |-> other.dir, name |-> other.name]  BY DEF Path
<1>. QED  BY <1>1, <1>7, <1>8, <1>9, <1>10

(* The default inside a workspace is a path. *)
LEMMA InsideType ==
  ASSUME NEW path \in Path, NEW name \in STRING, NEW suffix \in STRING
  PROVE  Inside(path, name, suffix) \in Path
<1>1. path.name \in Seq(STRING) /\ path.dir \in Seq(Seq(STRING))  BY DEF Path
<1>2. <<name>> \in Seq(STRING)  BY One
<1>3. PICK base \in Seq(STRING) : base = IF path = Here THEN <<name>> ELSE path.name
  BY <1>1, <1>2
<1>4. Append(base, suffix) \in Seq(STRING) \ {<<>>}  BY AppendProperties
<1>5. Append(path.dir, path.name) \in Seq(Seq(STRING))  BY <1>1, AppendProperties
<1>. QED  BY <1>3, <1>4, <1>5 DEF Inside, Path

-----------------------------------------------------------------------------
(* The invariant *)

(* What a value overwrites had its use: the slot was free, was set by the same switch, or
   is named again by an option. *)
Replaceable(slot, k) ==
  \/ source[slot] = 0
  \/ slot \in Range(Switch(command))
  \/ /\ k = at + 1 /\ argv[at].flag \in DOMAIN Option(command)
     /\ Option(command)[argv[at].flag] = slot

(* An argument that had its use keeps it. *)
LEMMA StillAccounted ==
  ASSUME IInv, command # None, NEW slot \in AllSlots, NEW k \in {at, at + 1},
         k <= Len(argv), Assign(slot, k), Replaceable(slot, k),
         NEW j \in 1 .. at - 1
  PROVE  Accounted(j)'
<1>. USE DEF IInv
<1>1. /\ argv' = argv /\ command' = command
      /\ \A s \in AllSlots : source'[s] = IF s = slot THEN k ELSE source[s]
      /\ \A i \in DOMAIN argv : given'[i] = IF i = k THEN slot ELSE given[i]
  BY DEF Assign, TypeOK
<1>2. command \in CommandNames  BY DEF TypeOK
<1>3. /\ at \in Nat /\ j \in Nat /\ 0 < j /\ j < at /\ k \in Nat /\ at <= k
      /\ DOMAIN argv = 1 .. Len(argv) /\ Len(argv) \in Nat
  BY DEF TypeOK
<1>4. Accounted(j)  BY DEF ReadSoFar
<1>5. j \in DOMAIN argv /\ j # k  BY <1>3
<1>6. given'[j] = given[j]  BY <1>1, <1>5
<1>7. CASE j = 1 /\ argv[1].flag \in Commands  BY <1>1, <1>7 DEF Accounted
<1>8. CASE /\ argv[j].flag \in DOMAIN Option(command)
           /\ j + 1 \in DOMAIN argv /\ given[j + 1] = Option(command)[argv[j].flag]
  <2>1. given[j + 1] # None  BY <1>2, <1>8, SlotsNamed, CommandLineAssumption
  <2>2. ~(j + 1 >= at)  BY <1>8, <2>1 DEF ReadSoFar
  <2>3. j + 1 # k  BY <1>3, <2>2
  <2>4. given'[j + 1] = given[j + 1]  BY <1>1, <1>8, <2>3
  <2>. QED  BY <1>1, <1>8, <2>4 DEF Accounted
<1>9. CASE /\ argv[j].flag \in DOMAIN Switch(command)
           /\ given[j] = Switch(command)[argv[j].flag]
  BY <1>1, <1>6, <1>9 DEF Accounted
<1>10. CASE /\ given[j] # None
            /\ \/ source[given[j]] = j
               \/ source[given[j]] > j /\ NamedFor(given[j], source[given[j]])
  <2>1. given[j] \in AllSlots  BY <1>5, <1>10 DEF TypeOK
  <2>2. PICK s \in AllSlots : s = given[j]  BY <2>1
  <2>3. source[s] = j \/ (source[s] > j /\ NamedFor(s, source[s]))
    BY <1>10, <2>2 DEF NamedFor
  <2>4. CASE s # slot
    <3>1. source'[s] = source[s]  BY <1>1, <2>4
    <3>2. NamedFor(s, source[s])' <=> NamedFor(s, source[s])  BY <1>1, <3>1 DEF NamedFor
    <3>. QED  BY <1>6, <1>10, <2>2, <2>3, <3>1, <3>2 DEF Accounted
  <2>5. CASE s = slot
    <3>1. source[slot] # 0  BY <1>3, <2>3, <2>5 DEF TypeOK
    <3>2. CASE slot \in Range(Switch(command))
      <4>1. \A o \in DOMAIN Option(command) : Option(command)[o] # s
        BY <1>2, <2>5, <3>2, SlotsNamed
      <4>. HIDE DEF IInv
      <4>2. ~NamedFor(s, source[s])  BY <4>1 DEF NamedFor
      <4>3. source[s] = j  BY <2>3, <4>2
      <4>4. /\ argv[j].flag \in DOMAIN Switch(command)
            /\ Switch(command)[argv[j].flag] = given[j]
        BY <2>2, <2>5, <3>1, <3>2, <4>3 DEF IInv, SwitchesOwn
      <4>. QED  BY <1>9, <4>4
    <3>3. CASE /\ k = at + 1 /\ argv[at].flag \in DOMAIN Option(command)
               /\ Option(command)[argv[at].flag] = slot
      <4>1. source'[slot] = k  BY <1>1
      <4>2. k - 1 = at /\ at \in DOMAIN argv /\ k > j  BY <1>3, <3>3
      <4>3. NamedFor(slot, k)'  BY <1>1, <3>3, <4>2 DEF NamedFor
      <4>. QED  BY <1>6, <1>10, <2>2, <2>5, <4>1, <4>2, <4>3 DEF Accounted
    <3>. QED  BY <3>1, <3>2, <3>3 DEF Replaceable
  <2>. QED  BY <2>4, <2>5
<1>. QED  BY <1>4, <1>7, <1>8, <1>9, <1>10 DEF Accounted

(* A value that is taken keeps the invariant, if what it overwrites and what it is read
   from have their use. *)
LEMMA AssignKeeps ==
  ASSUME IInv, Reading, NEW slot \in AllSlots, NEW k \in {at, at + 1},
         k <= Len(argv), Assign(slot, k), Replaceable(slot, k),
         slot \in Range(Switch(command)) => /\ argv[k].flag \in DOMAIN Switch(command)
                                            /\ Switch(command)[argv[k].flag] = slot,
         k = at + 1 => /\ argv[at].flag \in DOMAIN Option(command)
                       /\ Option(command)[argv[at].flag] = slot
  PROVE  IInv'
<1>. USE DEF IInv
<1>1. /\ argv' = argv /\ command' = command /\ original' = original /\ outcome' = outcome
      /\ at' = k + 1
      /\ \A s \in AllSlots : source'[s] = IF s = slot THEN k ELSE source[s]
      /\ \A i \in DOMAIN argv : given'[i] = IF i = k THEN slot ELSE given[i]
      /\ \A s \in AllSlots : slots'[s] = IF s = slot THEN argv[k].path ELSE slots[s]
  BY DEF Assign, TypeOK
<1>2. outcome = "reading" /\ command # None /\ at <= Len(argv)  BY DEF Reading
<1>3. at \in Nat /\ 0 < at /\ k \in Nat /\ at <= k /\ k \in 1 .. Len(argv) /\ Len(argv) \in Nat
  BY DEF TypeOK
<1>4. argv[k] \in Argument  BY <1>3, ElementOfSeq DEF TypeOK
<1>5. argv[k].path \in Path /\ argv[k].path # None  BY <1>4, CommandLineAssumption DEF Argument
<1>6. TypeOK'
  <2>1. slots' \in [AllSlots -> Path \cup {None}]  BY <1>5 DEF Assign, TypeOK
  <2>2. source' \in [AllSlots -> Nat]  BY <1>3 DEF Assign, TypeOK
  <2>3. at' \in Nat \ {0}  BY <1>1, <1>3
  <2>4. given' \in [DOMAIN argv' -> AllSlots \cup {None}]  BY <1>1 DEF Assign, TypeOK
  <2>. QED  BY <1>1, <2>1, <2>2, <2>3, <2>4 DEF TypeOK
<1>7. ReadSoFar'
  <2>1. ASSUME NEW j \in 1 .. k PROVE Accounted(j)'
    <3>1. CASE j \in 1 .. at - 1  BY <1>2, <3>1, StillAccounted
    <3>2. CASE j = k
      <4>1. source'[slot] = j /\ given'[j] = slot  BY <1>1, <1>3, <3>2
      <4>2. slot # None  BY CommandLineAssumption
      <4>. QED  BY <4>1, <4>2 DEF Accounted
    <3>3. CASE j = at /\ k = at + 1
      <4>1. j + 1 \in DOMAIN argv' /\ given'[j + 1] = slot  BY <1>1, <1>3, <3>3
      <4>. QED  BY <1>1, <3>3, <4>1 DEF Accounted
    <3>4. (j \in 1 .. at - 1) \/ j = k \/ (j = at /\ k = at + 1)
      <4>1. j \in Nat /\ 1 <= j /\ j <= k  BY <1>3, <2>1
      <4>2. k = at \/ k = at + 1  OBVIOUS
      <4>. QED  BY <1>3, <4>1, <4>2
    <3>. QED  BY <3>1, <3>2, <3>3, <3>4
  <2>2. at' - 1 = k /\ at' <= Len(argv') + 1  BY <1>1, <1>3
  <2>3. \A s \in AllSlots : source'[s] < at'
    <3>1. \A s \in AllSlots : source[s] < at /\ source[s] \in Nat  BY DEF ReadSoFar, TypeOK
    <3>. QED  BY <1>1, <1>3, <3>1
  <2>4. \A j \in 1 .. at' - 1 : Accounted(j)'  BY <2>1, <2>2
  <2>5. ASSUME NEW i \in DOMAIN argv, i >= at'
        PROVE  given'[i] = None
    <3>1. i # k /\ i >= at  BY <1>1, <1>3, <2>5 DEF TypeOK
    <3>. QED  BY <1>1, <3>1 DEF ReadSoFar
  <2>. QED  BY <1>1, <1>2, <2>2, <2>3, <2>4, <2>5 DEF ReadSoFar
<1>8. SwitchesOwn'
  <2>1. \A s \in Range(Switch(command)) : s \in AllSlots
    BY <1>2, SlotsNamed DEF TypeOK, AllSlots
  <2>. QED  BY <1>1, <1>2, <2>1 DEF SwitchesOwn
<1>9. NoDefaults'  BY <1>1, <1>2, <1>3, <1>5 DEF NoDefaults
<1>10. Ready'  BY <1>1, <1>2 DEF Ready
<1>. QED  BY <1>6, <1>7, <1>8, <1>9, <1>10

(* Initially nothing was read. *)
LEMMA InitIInv == Init => IInv
<1>. SUFFICES ASSUME Init PROVE IInv  OBVIOUS
<1>. USE DEF Init
<1>1. argv \in Seq(Argument) /\ original \in Path \cup {None}  BY CommandLineAssumption
<1>2. /\ slots \in [AllSlots -> Path \cup {None}] /\ source \in [AllSlots -> Nat]
      /\ given \in [DOMAIN argv -> AllSlots \cup {None}]
  OBVIOUS
<1>3. TypeOK  BY <1>1, <1>2 DEF TypeOK
<1>4. ReadSoFar
  <2>1. Len(argv) \in Nat  BY <1>1
  <2>. QED  BY <2>1 DEF ReadSoFar
<1>. QED  BY <1>3, <1>4 DEF IInv, SwitchesOwn, NoDefaults, Ready

(* The first argument decides the command; as a command it has its use. *)
LEMMA BeginIInv == IInv /\ Begin => IInv'
<1>. SUFFICES ASSUME IInv, Begin PROVE IInv'  OBVIOUS
<1>. USE DEF IInv
<1>1. /\ argv' = argv /\ original' = original /\ slots' = slots /\ source' = source
      /\ given' = given
      /\ outcome = "reading" /\ command = None /\ argv # <<>> /\ at = 1
  BY DEF Begin, ReadSoFar
<1>2. Len(argv) \in Nat /\ Len(argv) >= 1
  <2>1. Len(argv) \in Nat \ {0}  BY <1>1, EmptySeq DEF TypeOK
  <2>. QED  BY <2>1
<1>3. CASE outcome' = "help" /\ UNCHANGED <<at, command>>
  BY <1>1, <1>3 DEF TypeOK, ReadSoFar, SwitchesOwn, NoDefaults, Ready
<1>4. CASE /\ command' = IF argv[1].flag \in Commands THEN argv[1].flag ELSE "unpack"
           /\ at' = IF argv[1].flag \in Commands THEN 2 ELSE 1
           /\ UNCHANGED outcome
  <2>1. command' \in CommandNames /\ command' # None
    BY <1>4, CommandLineAssumption DEF Commands, CommandNames
  <2>2. at' \in {1, 2} /\ at' <= Len(argv) + 1  BY <1>2, <1>4
  <2>3. TypeOK'  BY <1>1, <1>4, <2>1, <2>2 DEF TypeOK
  <2>4. \A s \in AllSlots : source[s] = 0
    BY <1>1 DEF ReadSoFar, TypeOK
  <2>5. \A j \in 1 .. at' - 1 : j = 1 /\ argv[1].flag \in Commands  BY <1>4
  <2>6. ASSUME NEW j \in 1 .. at' - 1 PROVE Accounted(j)'
    <3>1. j = 1 /\ argv'[1].flag \in Commands  BY <1>1, <2>5
    <3>. QED  BY <3>1 DEF Accounted
  <2>7. ReadSoFar'
    <3>1. \A s \in AllSlots : source'[s] < at'  BY <1>1, <2>2, <2>4
    <3>2. command' # None => \A j \in 1 .. at' - 1 : Accounted(j)'  BY <2>6
    <3>3. (command' = None => at' = 1) /\ at' <= Len(argv') + 1  BY <1>1, <2>1, <2>2
    <3>4. \A i \in DOMAIN argv' : i >= at' => given'[i] = None
      <4>1. \A i \in DOMAIN argv : i >= 1  BY DEF TypeOK
      <4>. QED  BY <1>1, <4>1 DEF ReadSoFar
    <3>. QED  BY <3>1, <3>2, <3>3, <3>4, Zenon DEF ReadSoFar
  <2>8. SwitchesOwn'
    <3>1. \A s \in Range(Switch(command')) : s \in AllSlots  BY <2>1, SlotsNamed DEF AllSlots
    <3>. QED  BY <1>1, <2>4, <3>1 DEF SwitchesOwn
  <2>9. NoDefaults'  BY <1>1, <1>4 DEF NoDefaults
  <2>10. Ready'  BY <1>1, <1>4 DEF Ready
  <2>. QED  BY <2>3, <2>7, <2>8, <2>9, <2>10
<1>. QED  BY <1>3, <1>4 DEF Begin

(* An end of reading without a run. *)
LEMMA StopIInv ==
  ASSUME IInv, outcome' \in {"help", "error"},
         UNCHANGED <<argv, original, at, command, slots, source, given>>
  PROVE  IInv'
<1>1. TypeOK'  BY DEF IInv, TypeOK
<1>2. ReadSoFar'  BY DEF IInv, ReadSoFar, Accounted, NamedFor
<1>3. SwitchesOwn'  BY DEF IInv, SwitchesOwn
<1>4. NoDefaults' /\ Ready'  BY DEF NoDefaults, Ready
<1>. QED  BY <1>1, <1>2, <1>3, <1>4 DEF IInv

(* An option with its value. *)
LEMMA TakeOptionIInv == IInv /\ TakeOption => IInv'
<1>. SUFFICES ASSUME IInv, TakeOption PROVE IInv'  OBVIOUS
<1>1. Reading /\ argv[at].flag \in DOMAIN Option(command)  BY DEF TakeOption
<1>2. CASE at = Len(argv) /\ Fail  BY <1>2, StopIInv DEF Fail
<1>3. CASE at # Len(argv) /\ Assign(Option(command)[argv[at].flag], at + 1)
  <2>1. command \in CommandNames  BY <1>1 DEF IInv, TypeOK, Reading
  <2>2. PICK slot \in AllSlots : /\ slot = Option(command)[argv[at].flag]
                                 /\ slot \in Range(Option(command))
                                 /\ slot \notin Range(Switch(command))
    BY <1>1, <2>1, SlotsNamed
  <2>3. at + 1 <= Len(argv)  BY <1>1, <1>3 DEF IInv, TypeOK, Reading
  <2>4. Replaceable(slot, at + 1)  BY <1>1, <2>2 DEF Replaceable
  <2>. QED  BY <1>1, <1>3, <2>2, <2>3, <2>4, AssignKeeps
<1>. QED  BY <1>2, <1>3 DEF TakeOption

(* A switch. *)
LEMMA TakeSwitchIInv == IInv /\ TakeSwitch => IInv'
<1>. SUFFICES ASSUME IInv, TakeSwitch PROVE IInv'  OBVIOUS
<1>1. /\ Reading /\ argv[at].flag \in DOMAIN Switch(command)
      /\ Assign(Switch(command)[argv[at].flag], at)
  BY DEF TakeSwitch
<1>2. command \in CommandNames  BY <1>1 DEF IInv, TypeOK, Reading
<1>3. PICK slot \in AllSlots : /\ slot = Switch(command)[argv[at].flag]
                               /\ slot \in Range(Switch(command))
  BY <1>1, <1>2, SlotsNamed
<1>4. at <= Len(argv) /\ at # at + 1  BY <1>1 DEF IInv, TypeOK, Reading
<1>5. Replaceable(slot, at)  BY <1>3 DEF Replaceable
<1>. QED  BY <1>1, <1>3, <1>4, <1>5, AssignKeeps

(* A mere path takes a free slot. *)
LEMMA TakePathIInv == IInv /\ TakePath => IInv'
<1>. SUFFICES ASSUME IInv, TakePath PROVE IInv'  OBVIOUS
<1>1. Reading  BY DEF TakePath
<1>2. CASE Free = {} /\ Fail  BY <1>2, StopIInv DEF Fail
<1>3. CASE Free # {} /\ Assign(Positional(command)[Min(Free)], at)
  <2>1. command \in CommandNames  BY <1>1 DEF IInv, TypeOK, Reading
  <2>2. PICK slot \in AllSlots : /\ slot = Positional(command)[Min(Free)]
                                 /\ slot \notin {"no rename", "unbundle"}
                                 /\ slots[slot] = None
    BY <1>3, <2>1, FreeSlot
  <2>3. source[slot] = 0  BY <1>1, <2>2 DEF IInv, NoDefaults, Reading
  <2>4. slot \notin Range(Switch(command))  BY <2>1, <2>2, SlotsNamed
  <2>5. at <= Len(argv) /\ at # at + 1  BY <1>1 DEF IInv, TypeOK, Reading
  <2>6. Replaceable(slot, at)  BY <2>3 DEF Replaceable
  <2>. QED  BY <1>1, <1>3, <2>2, <2>4, <2>5, <2>6, AssignKeeps
<1>. QED  BY <1>2, <1>3 DEF TakePath

(* The default of a command that has its input is a path. *)
LEMMA DefaultType ==
  ASSUME NEW c \in CommandNames, NEW s, original \in Path \cup {None},
         c \in {"unpack", "apply-patch"} => s["input"] \in Path,
         c \in {"pack", "patch"} => s["from"] \in Path
  PROVE  DefaultOut(c, s) \in Path
<1>. USE CommandLineAssumption DEF Added
<1>1. CASE c = "unpack"
  <2>1. DefaultOut(c, s) = Beside(s["input"], "readable")  BY <1>1 DEF DefaultOut
  <2>. QED  BY <1>1, <2>1, BesideType
<1>2. CASE c = "pack"
  <2>1. DefaultOut(c, s) = IF original # None THEN Variant(original, "repacked")
                           ELSE Inside(s["from"], "packed-binary", "repacked")
    BY <1>2 DEF DefaultOut
  <2>2. original # None => Variant(original, "repacked") \in Path  BY VariantShape
  <2>3. Inside(s["from"], "packed-binary", "repacked") \in Path  BY <1>2, InsideType
  <2>. QED  BY <2>1, <2>2, <2>3
<1>3. CASE c = "patch"
  <2>1. DefaultOut(c, s) = IF original # None THEN Beside(original, "patch")
                           ELSE Inside(s["from"], "changes", "patch")
    BY <1>3 DEF DefaultOut
  <2>2. original # None => Beside(original, "patch") \in Path  BY BesideType
  <2>3. Inside(s["from"], "changes", "patch") \in Path  BY <1>3, InsideType
  <2>. QED  BY <2>1, <2>2, <2>3
<1>4. CASE c = "apply-patch"
  <2>1. DefaultOut(c, s) = Variant(s["input"], "patched")  BY <1>4 DEF DefaultOut
  <2>. QED  BY <1>4, <2>1, VariantShape
<1>. QED  BY <1>1, <1>2, <1>3, <1>4 DEF CommandNames

(* DefaultOut does not look at the output. *)
LEMMA DefaultStays ==
  ASSUME NEW c \in CommandNames, NEW s, NEW t,
         s["input"] = t["input"], s["from"] = t["from"]
  PROVE  DefaultOut(c, s) = DefaultOut(c, t)
<1>1. CASE c = "unpack"  BY <1>1 DEF DefaultOut
<1>2. CASE c = "pack"  BY <1>2 DEF DefaultOut
<1>3. CASE c = "patch"  BY <1>3 DEF DefaultOut
<1>4. CASE c = "apply-patch"  BY <1>4 DEF DefaultOut
<1>. QED  BY <1>1, <1>2, <1>3, <1>4 DEF CommandNames

(* The command runs, with the defaults. *)
LEMMA FinishIInv == IInv /\ Finish => IInv'
<1>. SUFFICES ASSUME IInv, Finish PROVE IInv'  OBVIOUS
<1>1. CASE Fail  BY <1>1, StopIInv DEF Fail
<1>2. ASSUME /\ \A s \in Needed : WithInput[s] # None
             /\ slots' = IF WithInput["out"] # None THEN WithInput
                         ELSE [WithInput EXCEPT !["out"] = DefaultOut(command, WithInput)]
             /\ outcome' = "run"
             /\ UNCHANGED <<argv, original, at, command, source, given>>
      PROVE  IInv'
  <2>1. outcome = "reading" /\ command # None /\ command \in CommandNames /\ at > Len(argv)
    BY DEF Finish, IInv, TypeOK
  <2>2. PICK filled \in [AllSlots -> Path \cup {None}] :
          filled = WithInput /\ filled["out"] = slots["out"]
    <3>1. {"from", "input", "out"} \subseteq AllSlots  BY DEF AllSlots
    <3>2. slots \in [AllSlots -> Path \cup {None}] /\ original \in Path \cup {None} /\ Here \in Path
      BY CommandLineAssumption DEF IInv, TypeOK
    <3>3. CASE command \in {"pack", "patch"} /\ slots["from"] = None
      <4>1. WithInput = [slots EXCEPT !["from"] = Here]  BY <3>3 DEF WithInput
      <4>. QED  BY <3>1, <3>2, <4>1
    <3>4. CASE /\ ~(command \in {"pack", "patch"} /\ slots["from"] = None)
               /\ command = "apply-patch" /\ slots["input"] = None
      <4>1. WithInput = [slots EXCEPT !["input"] = original]  BY <3>4 DEF WithInput
      <4>. QED  BY <3>1, <3>2, <4>1
    <3>5. CASE /\ ~(command \in {"pack", "patch"} /\ slots["from"] = None)
               /\ ~(command = "apply-patch" /\ slots["input"] = None)
      <4>1. WithInput = slots  BY <3>5 DEF WithInput
      <4>. QED  BY <3>2, <4>1
    <3>. QED  BY <3>3, <3>4, <3>5
  <2>3. command \in {"unpack", "apply-patch"} => filled["input"] \in Path
    <3>1. command \in {"unpack", "apply-patch"} => "input" \in Needed
      <4>1. command = "unpack" => Positional(command) = <<"input">>  BY DEF Positional
      <4>2. command = "apply-patch" => Positional(command) = <<"patch file", "input">>
        BY DEF Positional
      <4>3. "input" \in Range(<<"input">>) /\ "input" \in Range(<<"patch file", "input">>)
        <5>1. PICK input, file : input = "input" /\ file = "patch file"  OBVIOUS
        <5>2. <<input>>[1] = input /\ 1 \in DOMAIN <<input>>  OBVIOUS
        <5>3. <<file, input>>[2] = input /\ 2 \in DOMAIN <<file, input>>  OBVIOUS
        <5>. QED  BY <5>1, <5>2, <5>3, Zenon DEF Range
      <4>4. command \in {"unpack", "apply-patch"} => Needed = Range(Positional(command))
        BY DEF Needed
      <4>. QED  BY <4>1, <4>2, <4>3, <4>4
    <3>2. "input" \in AllSlots  BY DEF AllSlots
    <3>. QED  BY <1>2, <2>2, <3>1, <3>2
  <2>4. command \in {"pack", "patch"} => filled["from"] \in Path
    <3>1. command \in {"pack", "patch"} => "from" \in Needed  BY DEF Needed
    <3>2. "from" \in AllSlots  BY DEF AllSlots
    <3>. QED  BY <1>2, <2>2, <3>1, <3>2
  <2>5. PICK out : out = DefaultOut(command, filled)  OBVIOUS
  <2>6. out \in Path  BY <2>1, <2>3, <2>4, <2>5, DefaultType DEF IInv, TypeOK
  <2>7. slots' = IF filled["out"] # None THEN filled ELSE [filled EXCEPT !["out"] = out]
    BY <1>2, <2>2, <2>5
  <2>8. /\ slots' \in [AllSlots -> Path \cup {None}]
        /\ slots'["input"] = filled["input"] /\ slots'["from"] = filled["from"]
        /\ filled["out"] = None => slots'["out"] = out
    <3>1. {"from", "input", "out"} \subseteq AllSlots  BY DEF AllSlots
    <3>. QED  BY <2>2, <2>6, <2>7, <3>1
  <2>9. TypeOK'  BY <1>2, <2>8 DEF IInv, TypeOK
  <2>10. ReadSoFar'  BY <1>2 DEF IInv, ReadSoFar, Accounted, NamedFor
  <2>11. SwitchesOwn'  BY <1>2 DEF IInv, SwitchesOwn
  <2>12. NoDefaults'  BY <1>2 DEF NoDefaults
  <2>13. Ready'
    <3>1. out = DefaultOut(command, slots')  BY <2>1, <2>5, <2>8, DefaultStays
    <3>2. source["out"] = 0 => slots["out"] = None
      BY <2>1 DEF IInv, NoDefaults, AllSlots
    <3>3. source'["out"] = 0 => slots'["out"] = DefaultOut(command, slots')
      BY <1>2, <2>2, <2>8, <3>1, <3>2
    <3>4. DefaultOut(command, slots') = DefaultOut(command, slots)'  BY <1>2 DEF DefaultOut
    <3>5. command' \in {"unpack", "apply-patch"} => slots'["input"] # None
      BY <1>2, <2>3, <2>8, CommandLineAssumption
    <3>. QED  BY <1>2, <2>1, <3>3, <3>4, <3>5 DEF Ready
  <2>. QED  BY <2>9, <2>10, <2>11, <2>12, <2>13 DEF IInv
<1>. QED  BY <1>1, <1>2 DEF Finish

(* IInv holds in every state. *)
THEOREM InvariantIInv == Spec => []IInv
<1>1. Init => IInv  BY InitIInv
<1>2. IInv /\ [Next]_vars => IInv'
  <2>. SUFFICES ASSUME IInv, [Next]_vars PROVE IInv'  OBVIOUS
  <2>1. CASE Begin  BY <2>1, BeginIInv
  <2>2. CASE Empty  BY <2>2, StopIInv DEF Empty, Fail
  <2>3. CASE Help  BY <2>3, StopIInv DEF Help
  <2>4. CASE TakeOption  BY <2>4, TakeOptionIInv
  <2>5. CASE TakeSwitch  BY <2>5, TakeSwitchIInv
  <2>6. CASE Unknown  BY <2>6, StopIInv DEF Unknown, Fail
  <2>7. CASE TakePath  BY <2>7, TakePathIInv
  <2>8. CASE Finish  BY <2>8, FinishIInv
  <2>9. CASE UNCHANGED vars
    <3>1. TypeOK'  BY <2>9 DEF IInv, TypeOK, vars
    <3>2. ReadSoFar'  BY <2>9 DEF IInv, ReadSoFar, Accounted, NamedFor, vars
    <3>3. SwitchesOwn' /\ NoDefaults'  BY <2>9 DEF IInv, SwitchesOwn, NoDefaults, vars
    <3>4. Ready'  BY <2>9 DEF IInv, Ready, DefaultOut, vars
    <3>. QED  BY <3>1, <3>2, <3>3, <3>4 DEF IInv
  <2>. QED  BY <2>1, <2>2, <2>3, <2>4, <2>5, <2>6, <2>7, <2>8, <2>9 DEF Next
<1>. QED  BY <1>1, <1>2, PTL DEF Spec

-----------------------------------------------------------------------------
(* The properties *)

(* What is given is used (assign_positional, require_value): on every command line, each
   argument of a command that runs is the command, a flag, or the value of the slot it was
   given to, unless a later option named this slot again. *)
THEOREM NothingIsDropped == Spec => []NothingDropped
<1>1. IInv => NothingDropped
  <2>. SUFFICES ASSUME IInv, outcome = "run", NEW k \in DOMAIN argv PROVE Accounted(k)
    BY DEF NothingDropped
  <2>1. command # None /\ at > Len(argv) /\ at \in Nat /\ argv \in Seq(Argument)
    BY DEF IInv, Ready, TypeOK
  <2>2. k \in 1 .. at - 1  BY <2>1
  <2>. QED  BY <2>1, <2>2 DEF IInv, ReadSoFar
<1>. QED  BY <1>1, InvariantIInv, PTL

(* An executable is not overwritten by default (default_out_dir, default_repacked_path,
   default_patch_path, default_apply_patch_out_file), whatever dots its name has, unless
   unpack reads a file called app.readable, or patch a workspace of app.patch. *)
THEOREM OriginalIsSpared == Spec => []OriginalSpared
<1>1. IInv => OriginalSpared
  <2>. SUFFICES
         ASSUME IInv, outcome = "run", source["out"] = 0,
                NEW path \in {IF command \in {"pack", "patch"} THEN original
                              ELSE slots["input"]} \ {None}
         PROVE  \/ slots["out"] # path
                \/ command = "unpack" /\ Last(path.name) = "readable"
                \/ command = "patch" /\ Last(path.name) = "patch"
    BY DEF OriginalSpared
  <2>. USE CommandLineAssumption DEF Added
  <2>1. /\ command \in CommandNames
        /\ slots["out"] = DefaultOut(command, slots)
        /\ slots["input"] \in Path \cup {None} /\ original \in Path \cup {None}
    BY DEF IInv, Ready, TypeOK, AllSlots
  <2>2. path \in Path /\ path # None
        /\ path = IF command \in {"pack", "patch"} THEN original ELSE slots["input"]
    BY <2>1
  <2>3. CASE command = "unpack"
    <3>1. slots["out"] = Beside(path, "readable")  BY <2>1, <2>2, <2>3 DEF DefaultOut
    <3>2. Last(Beside(path, "readable").name) = "readable"  BY <2>2, BesideType
    <3>. QED  BY <2>3, <3>1, <3>2, Zenon
  <2>4. CASE command = "pack"
    <3>1. slots["out"] = Variant(path, "repacked")  BY <2>1, <2>2, <2>4 DEF DefaultOut
    <3>. QED  BY <2>2, <3>1, VariantDiffers
  <2>5. CASE command = "patch"
    <3>1. slots["out"] = Beside(path, "patch")  BY <2>1, <2>2, <2>5 DEF DefaultOut
    <3>2. Last(Beside(path, "patch").name) = "patch"  BY <2>2, BesideType
    <3>. QED  BY <2>5, <3>1, <3>2, Zenon
  <2>6. CASE command = "apply-patch"
    <3>1. slots["out"] = Variant(path, "patched")  BY <2>1, <2>2, <2>6 DEF DefaultOut
    <3>. QED  BY <2>2, <3>1, VariantDiffers
  <2>. QED  BY <2>1, <2>3, <2>4, <2>5, <2>6 DEF CommandNames
<1>. QED  BY <1>1, InvariantIInv, PTL

(* The default output of apply-patch belongs to one executable (default_variant_path). *)
THEOREM OutputIsOfOne == Spec => []OutputOfOne
<1>1. IInv => OutputOfOne
  <2>. SUFFICES
         ASSUME IInv, outcome = "run", source["out"] = 0, command = "apply-patch",
                NEW path \in Paths, Variant(path, "patched") = slots["out"]
         PROVE  path = slots["input"]
    BY DEF OutputOfOne
  <2>1. slots["input"] \in Path  BY DEF IInv, Ready, TypeOK, AllSlots
  <2>2. slots["out"] = Variant(slots["input"], "patched")  BY DEF IInv, Ready, DefaultOut
  <2>3. path \in Path /\ "patched" \in STRING  BY CommandLineAssumption DEF Added
  <2>. QED  BY <2>1, <2>2, <2>3, VariantInjective
<1>. QED  BY <1>1, InvariantIInv, PTL

=============================================================================
