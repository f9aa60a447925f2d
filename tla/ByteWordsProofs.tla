--------------------------- MODULE ByteWordsProofs ---------------------------
(***************************************************************************)
(* What is written is read as it was written, and nothing else is read as it:     *)
(* the patch file and the sidecars, of any size, for bytes with any number of     *)
(* values and numbers of any number of bytes; and what is carved out of a section *)
(* without a graph is what was put in.                                        *)
(*                                                                         *)
(* Numbers and texts: the number that a word holds is the one that was written,  *)
(* and the words are as many as the numbers.  Readers: each of them returns what *)
(* stands at its offset, and finds what was written there.  The patch file: what *)
(* was read so far is always the text in front of the offset.  The sidecars: the *)
(* writer puts fields one behind the other, the decoder finds each of them       *)
(* there, and they mean what was recorded.  Raw extraction: each marked text ends *)
(* with the file it is in, and each file ends in front of the next path.         *)
(***************************************************************************)
EXTENDS PatchFile, Sidecars, RawExtract, SequenceTheorems, FiniteSetTheorems, WellFoundedInduction, TLAPS

-----------------------------------------------------------------------------
(* Induction and recursion *)

(* A set of natural numbers has a smallest member. *)
LEMMA SmallestOf ==
  ASSUME NEW S \in SUBSET Nat, S # {}
  PROVE  \E m \in S : \A n \in S : m <= n
<1>1. PICK m \in S : \A n \in S : ~(<<n, m>> \in OpToRel(<, Nat))
  BY NatLessThanWellFounded, WFMin
<1>2. \A n \in S : ~(n < m)  BY <1>1 DEF OpToRel
<1>. QED  BY <1>2

(* Induction up to a number. *)
LEMMA UpTo ==
  ASSUME NEW n \in Nat, NEW Good, 0 \in Good,
         \A k \in 1 .. n : k - 1 \in Good => k \in Good
  PROVE  \A k \in 0 .. n : k \in Good
<1>. DEFINE Bad == {k \in 0 .. n : k \notin Good}
<1>. SUFFICES ASSUME Bad # {} PROVE FALSE  OBVIOUS
<1>1. PICK k \in Bad : \A j \in Bad : k <= j
  <2>1. Bad \in SUBSET Nat  OBVIOUS
  <2>. HIDE DEF Bad
  <2>. QED  BY <2>1, SmallestOf
<1>2. k \in 1 .. n  BY <1>1
<1>3. k - 1 \in 0 .. n /\ ~(k <= k - 1)  BY <1>2
<1>4. k - 1 \in Good  BY <1>1, <1>3
<1>. QED  BY <1>1, <1>2, <1>4

(* f starts with a value and goes on from the value before. *)
Follows(f, n, first, step) == f[0] = first /\ \A k \in 1 .. n : f[k] = step[k][f[k - 1]]

(* Such an f exists. *)
LEMMA Recursion ==
  ASSUME NEW S, NEW n, n \in Nat, NEW first, first \in S,
         NEW step, step \in [1 .. n -> [S -> S]]
  PROVE  \E f \in [0 .. n -> S] : Follows(f, n, first, step)
<1>. DEFINE Good == {m \in 0 .. n : \E f \in [0 .. m -> S] : Follows(f, m, first, step)}
<1>1. 0 \in Good
  <2>. DEFINE f == [k \in 0 .. 0 |-> first]
  <2>1. f \in [0 .. 0 -> S] /\ f[0] = first /\ 1 .. 0 = {}  OBVIOUS
  <2>. HIDE DEF f
  <2>2. Follows(f, 0, first, step)  BY <2>1 DEF Follows
  <2>. QED  BY <2>1, <2>2
<1>2. ASSUME NEW m \in 1 .. n, m - 1 \in Good PROVE m \in Good
  <2>1. PICK g \in [0 .. m - 1 -> S] : Follows(g, m - 1, first, step)  BY <1>2
  <2>. DEFINE f == [k \in 0 .. m |-> IF k = m THEN step[m][g[m - 1]] ELSE g[k]]
  <2>2. g[m - 1] \in S  BY <2>1
  <2>3. step[m][g[m - 1]] \in S  BY <2>2
  <2>4. f \in [0 .. m -> S]
    <3>1. \A k \in 0 .. m : k # m => g[k] \in S  BY <2>1
    <3>. QED  BY <2>3, <3>1
  <2>5. f[0] = first  BY <2>1 DEF Follows
  <2>6. ASSUME NEW k \in 1 .. m PROVE f[k] = step[k][f[k - 1]]
    <3>1. f[k - 1] = g[k - 1]  OBVIOUS
    <3>2. CASE k = m  BY <3>1, <3>2
    <3>3. CASE k # m
      <4>1. k \in 1 .. m - 1  BY <3>3
      <4>2. g[k] = step[k][g[k - 1]]  BY <2>1, <4>1 DEF Follows
      <4>3. f[k] = g[k]  BY <3>3
      <4>. QED  BY <3>1, <4>2, <4>3
    <3>. QED  BY <3>2, <3>3
  <2>. HIDE DEF f
  <2>7. Follows(f, m, first, step)  BY <2>4, <2>5, <2>6 DEF Follows
  <2>. QED  BY <2>4, <2>7
<1>3. n \in Good
  <2>1. \A k \in 1 .. n : k - 1 \in Good => k \in Good  BY <1>2
  <2>. HIDE DEF Good
  <2>2. \A k \in 0 .. n : k \in Good  BY <1>1, <2>1, UpTo
  <2>. QED  BY <2>2
<1>. QED  BY <1>3

-----------------------------------------------------------------------------
(* Numbers: Word and Number are each other's inverse *)

LEMMA DivMod ==
  ASSUME NEW v \in Nat, NEW a \in Nat \ {0}
  PROVE  v % a \in 0 .. a - 1 /\ v \div a \in Nat /\ v = a * (v \div a) + (v % a)
BY SMT

(* A digit in front of a number is its remainder. *)
LEMMA DivModOf ==
  ASSUME NEW q \in Nat, NEW a \in Nat \ {0}, NEW r \in 0 .. a - 1
  PROVE  (r + a * q) \div a = q /\ (r + a * q) % a = r
<1>1. PICK v \in Nat : v = r + a * q
  <2>1. a * q \in Nat  OBVIOUS
  <2>. QED  BY <2>1
<1>2. PICK p \in Nat, s \in 0 .. a - 1 : p = v \div a /\ s = v % a /\ v = a * p + s  BY DivMod
<1>3. a * p + s = r + a * q  BY <1>1, <1>2
<1>4. p = q
  <2>1. ASSUME p < q PROVE FALSE
    <3>1. a * p + a <= a * q  BY <2>1
    <3>2. a * p \in Nat /\ a * q \in Nat  OBVIOUS
    <3>. QED  BY <1>3, <3>1, <3>2
  <2>2. ASSUME q < p PROVE FALSE
    <3>1. a * q + a <= a * p  BY <2>2
    <3>2. a * p \in Nat /\ a * q \in Nat  OBVIOUS
    <3>. QED  BY <1>3, <3>1, <3>2
  <2>. QED  BY <2>1, <2>2
<1>5. s = r
  <2>1. a * p \in Nat /\ a * p = a * q  BY <1>4
  <2>. QED  BY <1>3, <2>1
<1>. QED  BY <1>1, <1>2, <1>4, <1>5

(* What Word computes. *)
LEMMA WordQuotients ==
  ASSUME NEW n \in Nat
  PROVE  \E q \in [0 .. WordSize -> Nat] :
           /\ q[0] = n
           /\ \A k \in 1 .. WordSize : q[k] = q[k - 1] \div Radix
           /\ Word(n) = [k \in 1 .. WordSize |-> q[k - 1] % Radix]
<1>. DEFINE Of(q) == q = [k \in 0 .. WordSize |-> IF k = 0 THEN n ELSE q[k - 1] \div Radix]
<1>1. WordSize \in Nat /\ Radix \in Nat \ {0}  BY WordsAssumption
<1>2. \E q : Of(q)
  <2>. DEFINE step == [k \in 1 .. WordSize |-> [m \in Nat |-> m \div Radix]]
  <2>1. \A m \in Nat : m \div Radix \in Nat  BY <1>1, DivMod
  <2>2. step \in [1 .. WordSize -> [Nat -> Nat]]  BY <2>1
  <2>3. \A k \in 1 .. WordSize, m \in Nat : step[k][m] = m \div Radix  OBVIOUS
  <2>. HIDE DEF step
  <2>4. PICK q \in [0 .. WordSize -> Nat] :
          q[0] = n /\ \A k \in 1 .. WordSize : q[k] = step[k][q[k - 1]]
    <3>1. WordSize \in Nat  BY <1>1
    <3>2. n \in Nat  OBVIOUS
    <3>3. \E q \in [0 .. WordSize -> Nat] : Follows(q, WordSize, n, step)
      BY <2>2, <3>1, <3>2, Recursion, Zenon
    <3>. QED  BY <3>3 DEF Follows
  <2>5. \A k \in 0 .. WordSize : q[k] = IF k = 0 THEN n ELSE q[k - 1] \div Radix
    <3>1. \A k \in 0 .. WordSize : k # 0 => k \in 1 .. WordSize /\ q[k - 1] \in Nat  BY <1>1
    <3>. QED  BY <2>3, <2>4, <3>1
  <2>6. q = [k \in 0 .. WordSize |-> q[k]]  OBVIOUS
  <2>. QED  BY <2>5, <2>6
<1>3. PICK q : q = CHOOSE g : Of(g)  OBVIOUS
<1>4. Of(q)
  <2>. HIDE DEF Of
  <2>. QED  BY <1>2, <1>3
<1>5. Word(n) = [k \in 1 .. WordSize |-> q[k - 1] % Radix]
  <2>1. Word(n) = [k \in 1 .. WordSize |-> (CHOOSE g : Of(g))[k - 1] % Radix]
    BY Zenon DEF Word
  <2>. HIDE DEF Of
  <2>. QED  BY <1>3, <2>1
<1>6. q[0] = n /\ \A k \in 1 .. WordSize : q[k] = q[k - 1] \div Radix
  <2>1. \A k \in 0 .. WordSize : q[k] = IF k = 0 THEN n ELSE q[k - 1] \div Radix  BY <1>4
  <2>2. 0 \in 0 .. WordSize /\ \A k \in 1 .. WordSize : k \in 0 .. WordSize /\ k # 0  BY <1>1
  <2>. HIDE DEF Of
  <2>. QED  BY <2>1, <2>2
<1>7. \A k \in 0 .. WordSize : q[k] \in Nat
  <2>. DEFINE Good == {k \in 0 .. WordSize : q[k] \in Nat}
  <2>1. 0 \in Good  BY <1>1, <1>6
  <2>2. ASSUME NEW k \in 1 .. WordSize, k - 1 \in Good PROVE k \in Good
    <3>1. q[k - 1] \div Radix \in Nat  BY <1>1, <2>2, DivMod
    <3>. QED  BY <1>1, <1>6, <3>1
  <2>. HIDE DEF Good
  <2>3. \A k \in 0 .. WordSize : k \in Good  BY <1>1, <2>1, <2>2, UpTo
  <2>. QED  BY <2>3 DEF Good
<1>8. q \in [0 .. WordSize -> Nat]
  <2>1. q = [k \in 0 .. WordSize |-> q[k]]  BY <1>4
  <2>. QED  BY <1>7, <2>1
<1>. QED  BY <1>5, <1>6, <1>8

(* What Number computes. *)
LEMMA NumberSums ==
  ASSUME NEW b \in Seq(Byte)
  PROVE  \E s \in [0 .. Len(b) -> Nat] :
           /\ s[0] = 0
           /\ \A k \in 1 .. Len(b) : s[k] = b[Len(b) + 1 - k] + Radix * s[k - 1]
           /\ Number(b) = s[Len(b)]
<1>. DEFINE n == Len(b)
            Of(s) == s = [k \in 0 .. n |-> IF k = 0 THEN 0 ELSE b[n + 1 - k] + Radix * s[k - 1]]
<1>1. n \in Nat /\ Radix \in Nat  BY WordsAssumption
<1>2. \A k \in 1 .. n : b[n + 1 - k] \in Nat
  <2>1. \A k \in 1 .. n : n + 1 - k \in 1 .. n  BY <1>1
  <2>2. \A k \in 1 .. n : b[k] \in Byte  BY ElementOfSeq
  <2>3. \A x \in Byte : x \in Nat  BY <1>1 DEF Byte
  <2>. QED  BY <2>1, <2>2, <2>3
<1>3. \A k \in 1 .. n, m \in Nat : b[n + 1 - k] + Radix * m \in Nat
  <2>. SUFFICES ASSUME NEW k \in 1 .. n, NEW m \in Nat PROVE b[n + 1 - k] + Radix * m \in Nat
    OBVIOUS
  <2>1. PICK x \in Nat : x = b[n + 1 - k]  BY <1>2
  <2>2. PICK r \in Nat : r = Radix  BY <1>1
  <2>3. r * m \in Nat  OBVIOUS
  <2>4. x + r * m \in Nat  BY <2>3
  <2>. QED  BY <2>1, <2>2, <2>4
<1>. HIDE DEF n
<1>4. \E s : Of(s)
  <2>. DEFINE step == [k \in 1 .. n |-> [m \in Nat |-> b[n + 1 - k] + Radix * m]]
  <2>1. step \in [1 .. n -> [Nat -> Nat]]  BY <1>3
  <2>2. \A k \in 1 .. n, m \in Nat : step[k][m] = b[n + 1 - k] + Radix * m  OBVIOUS
  <2>. HIDE DEF step
  <2>3. PICK s \in [0 .. n -> Nat] : s[0] = 0 /\ \A k \in 1 .. n : s[k] = step[k][s[k - 1]]
    <3>1. n \in Nat  BY <1>1
    <3>2. 0 \in Nat  OBVIOUS
    <3>3. \E s \in [0 .. n -> Nat] : Follows(s, n, 0, step)
      BY <2>1, <3>1, <3>2, Recursion, Zenon
    <3>. QED  BY <3>3 DEF Follows
  <2>4. \A k \in 0 .. n : s[k] = IF k = 0 THEN 0 ELSE b[n + 1 - k] + Radix * s[k - 1]
    <3>1. \A k \in 0 .. n : k # 0 => k \in 1 .. n /\ s[k - 1] \in Nat  BY <1>1
    <3>. QED  BY <2>2, <2>3, <3>1
  <2>5. s = [k \in 0 .. n |-> s[k]]  OBVIOUS
  <2>. QED  BY <2>4, <2>5
<1>5. PICK s : s = CHOOSE g : Of(g)  OBVIOUS
<1>6. Of(s)  BY <1>4, <1>5
<1>7. Number(b) = s[n]  BY <1>5 DEF Number, n
<1>8. s[0] = 0 /\ \A k \in 1 .. n : s[k] = b[n + 1 - k] + Radix * s[k - 1]
  <2>1. \A k \in 0 .. n : s[k] = IF k = 0 THEN 0 ELSE b[n + 1 - k] + Radix * s[k - 1]  BY <1>6
  <2>2. 0 \in 0 .. n /\ \A k \in 1 .. n : k \in 0 .. n /\ k # 0  BY <1>1
  <2>. HIDE DEF Of
  <2>. QED  BY <2>1, <2>2
<1>9. \A k \in 0 .. n : s[k] \in Nat
  <2>. DEFINE Good == {k \in 0 .. n : s[k] \in Nat}
  <2>1. 0 \in Good  BY <1>1, <1>8
  <2>2. ASSUME NEW k \in 1 .. n, k - 1 \in Good PROVE k \in Good
    <3>1. s[k - 1] \in Nat  BY <2>2
    <3>2. s[k] \in Nat  BY <1>3, <1>8, <3>1
    <3>. QED  BY <1>1, <3>2
  <2>. HIDE DEF Good
  <2>3. \A k \in 0 .. n : k \in Good  BY <1>1, <2>1, <2>2, UpTo
  <2>. QED  BY <2>3 DEF Good
<1>10. s \in [0 .. n -> Nat]
  <2>1. s = [k \in 0 .. n |-> s[k]]  BY <1>6
  <2>. QED  BY <1>9, <2>1
<1>. QED  BY <1>7, <1>8, <1>10 DEF n

LEMMA NumberType == ASSUME NEW b \in Seq(Byte) PROVE Number(b) \in Nat
<1>1. PICK s \in [0 .. Len(b) -> Nat] : Number(b) = s[Len(b)]  BY NumberSums
<1>2. Len(b) \in 0 .. Len(b)  BY LenProperties
<1>. QED  BY <1>1, <1>2

LEMMA WordType == ASSUME NEW n \in Nat PROVE Word(n) \in Seq(Byte) /\ Len(Word(n)) = WordSize
<1>1. PICK q \in [0 .. WordSize -> Nat] :
        Word(n) = [k \in 1 .. WordSize |-> q[k - 1] % Radix]
  BY WordQuotients
<1>2. WordSize \in Nat /\ Radix \in Nat \ {0}  BY WordsAssumption
<1>3. \A k \in 1 .. WordSize : q[k - 1] % Radix \in Byte
  <2>. SUFFICES ASSUME NEW k \in 1 .. WordSize PROVE q[k - 1] % Radix \in Byte  OBVIOUS
  <2>1. q[k - 1] \in Nat  BY <1>2
  <2>. QED  BY <1>2, <2>1, DivMod DEF Byte
<1>. QED  BY <1>1, <1>2, <1>3

(* A number that was read from bytes is written as these bytes. *)
LEMMA WordOfNumber ==
  ASSUME NEW b \in Seq(Byte), Len(b) = WordSize
  PROVE  Word(Number(b)) = b
<1>. DEFINE w == WordSize
<1>1. w \in Nat \ {0} /\ Radix \in Nat \ {0}  BY WordsAssumption
<1>2. PICK s \in [0 .. w -> Nat] :
        /\ s[0] = 0
        /\ \A k \in 1 .. w : s[k] = b[w + 1 - k] + Radix * s[k - 1]
        /\ Number(b) = s[w]
  BY NumberSums
<1>3. PICK q \in [0 .. w -> Nat] :
        /\ q[0] = Number(b)
        /\ \A k \in 1 .. w : q[k] = q[k - 1] \div Radix
        /\ Word(Number(b)) = [k \in 1 .. w |-> q[k - 1] % Radix]
  BY NumberType, WordQuotients
<1>4. \A k \in 1 .. w : b[k] \in 0 .. Radix - 1  BY ElementOfSeq DEF Byte
<1>. HIDE DEF w
<1>5. ASSUME NEW k \in 1 .. w, q[k - 1] = s[w - (k - 1)]
      PROVE  q[k] = s[w - k] /\ q[k - 1] % Radix = b[k]
  <2>1. w + 1 - k \in 1 .. w /\ w - k \in 0 .. w /\ w + 1 - (w + 1 - k) = k
        /\ w - (k - 1) = w + 1 - k /\ (w + 1 - k) - 1 = w - k
    BY <1>1
  <2>2. s[w + 1 - k] = b[k] + Radix * s[w - k]  BY <1>2, <2>1
  <2>3. s[w - k] \in Nat  BY <2>1
  <2>4. q[k - 1] = b[k] + Radix * s[w - k]  BY <1>5, <2>1, <2>2
  <2>5. (b[k] + Radix * s[w - k]) \div Radix = s[w - k]
        /\ (b[k] + Radix * s[w - k]) % Radix = b[k]
    BY <1>1, <1>4, <2>3, DivModOf
  <2>6. q[k] = q[k - 1] \div Radix  BY <1>3
  <2>. QED  BY <2>4, <2>5, <2>6
<1>6. \A k \in 0 .. w : q[k] = s[w - k]
  <2>. DEFINE Good == {k \in 0 .. w : q[k] = s[w - k]}
  <2>1. 0 \in Good  BY <1>1, <1>2, <1>3
  <2>2. ASSUME NEW k \in 1 .. w, k - 1 \in Good PROVE k \in Good  BY <1>1, <1>5, <2>2
  <2>. HIDE DEF Good
  <2>3. \A k \in 0 .. w : k \in Good  BY <1>1, <2>1, <2>2, UpTo
  <2>. QED  BY <2>3 DEF Good
<1>7. \A k \in 1 .. w : q[k - 1] % Radix = b[k]
  <2>1. \A k \in 1 .. w : k - 1 \in 0 .. w  BY <1>1
  <2>. QED  BY <1>5, <1>6, <2>1
<1>8. Word(Number(b)) = [k \in 1 .. w |-> b[k]]  BY <1>3, <1>7
<1>9. b = [k \in 1 .. w |-> b[k]]
  <2>1. DOMAIN b = 1 .. w /\ b = [k \in DOMAIN b |-> b[k]]
    BY LenProperties, SeqDef DEF w
  <2>. QED  BY <2>1
<1>. QED  BY <1>8, <1>9

LEMMA LargestType == [k \in 1 .. WordSize |-> Radix - 1] \in Seq(Byte)
BY WordsAssumption DEF Byte

(* A number that u32 can hold is read as it was written. *)
LEMMA NumberOfWord ==
  ASSUME NEW n \in Nat, n <= MaxWord
  PROVE  Number(Word(n)) = n
<1>. DEFINE w == WordSize
            largest == [k \in 1 .. w |-> Radix - 1]
<1>1. w \in Nat \ {0} /\ Radix \in Nat \ {0}  BY WordsAssumption
<1>2. PICK q \in [0 .. w -> Nat] :
        /\ q[0] = n
        /\ \A k \in 1 .. w : q[k] = q[k - 1] \div Radix
        /\ Word(n) = [k \in 1 .. w |-> q[k - 1] % Radix]
  BY WordQuotients
<1>3. Word(n) \in Seq(Byte) /\ Len(Word(n)) = w  BY WordType
<1>4. PICK s \in [0 .. w -> Nat] :
        /\ s[0] = 0
        /\ \A k \in 1 .. w : s[k] = Word(n)[w + 1 - k] + Radix * s[k - 1]
        /\ Number(Word(n)) = s[w]
  BY <1>3, NumberSums
<1>5. PICK m \in [0 .. w -> Nat] :
        /\ m[0] = 0
        /\ \A k \in 1 .. w : m[k] = (Radix - 1) + Radix * m[k - 1]
        /\ MaxWord = m[w]
  <2>1. largest \in Seq(Byte) /\ Len(largest) = w  BY <1>1, LargestType
  <2>2. \A k \in 1 .. w : largest[w + 1 - k] = Radix - 1  BY <1>1
  <2>3. MaxWord = Number(largest)  BY DEF MaxWord
  <2>. HIDE DEF largest
  <2>4. PICK m \in [0 .. w -> Nat] :
          /\ m[0] = 0
          /\ \A k \in 1 .. w : m[k] = largest[w + 1 - k] + Radix * m[k - 1]
          /\ Number(largest) = m[w]
    BY <2>1, NumberSums
  <2>. QED  BY <2>2, <2>3, <2>4
<1>. HIDE DEF w
<1>6. \A k \in 0 .. w : q[k] <= m[w - k]
  <2>. DEFINE Good == {k \in 0 .. w : q[k] <= m[w - k]}
  <2>1. 0 \in Good  BY <1>1, <1>2, <1>5
  <2>2. ASSUME NEW k \in 1 .. w, k - 1 \in Good PROVE k \in Good
    <3>1. w - k \in 0 .. w /\ w - (k - 1) \in 1 .. w /\ (w - (k - 1)) - 1 = w - k  BY <1>1
    <3>2. m[w - (k - 1)] = (Radix - 1) + Radix * m[w - k]  BY <1>5, <3>1
    <3>3. q[k - 1] <= (Radix - 1) + Radix * m[w - k]  BY <2>2, <3>2
    <3>4. PICK x \in Nat, y \in Nat, r \in 0 .. Radix - 1, z \in Nat :
            x = q[k - 1] /\ y = q[k] /\ z = m[w - k] /\ x = Radix * y + r
      <4>1. q[k - 1] \in Nat /\ q[k] = q[k - 1] \div Radix /\ m[w - k] \in Nat
        BY <1>1, <1>2, <3>1
      <4>2. PICK x \in Nat, z \in Nat : x = q[k - 1] /\ z = m[w - k]  BY <4>1
      <4>3. /\ x % Radix \in 0 .. Radix - 1 /\ x \div Radix \in Nat
            /\ x = Radix * (x \div Radix) + (x % Radix)
        <5>1. Radix \in Nat \ {0}  BY <1>1
        <5>. QED  BY <5>1, DivMod, Zenon
      <4>4. q[k] = x \div Radix  BY <4>1, <4>2
      <4>5. PICK y \in Nat, r \in 0 .. Radix - 1 : y = x \div Radix /\ r = x % Radix /\ x = Radix * y + r
        BY <4>3
      <4>. QED  BY <4>2, <4>4, <4>5
    <3>5. y <= z
      <4>1. ASSUME z + 1 <= y PROVE FALSE
        <5>1. Radix * z + Radix <= Radix * y  BY <1>1, <4>1
        <5>2. PICK a \in Nat, c \in Nat : a = Radix * z /\ c = Radix * y  BY <1>1
        <5>3. c + r <= (Radix - 1) + a  BY <3>3, <3>4, <5>2
        <5>4. a + Radix <= c  BY <5>1, <5>2
        <5>. QED  BY <1>1, <5>3, <5>4
      <4>. QED  BY <4>1
    <3>. QED  BY <3>4, <3>5
  <2>. HIDE DEF Good
  <2>3. \A k \in 0 .. w : k \in Good  BY <1>1, <2>1, <2>2, UpTo
  <2>. QED  BY <2>3 DEF Good
<1>7. q[w] = 0
  <2>1. w \in 0 .. w /\ w - w = 0  BY <1>1
  <2>2. q[w] <= 0 /\ q[w] \in Nat  BY <1>5, <1>6, <2>1
  <2>. QED  BY <2>2
<1>8. \A k \in 0 .. w : s[k] = q[w - k]
  <2>. DEFINE Good == {k \in 0 .. w : s[k] = q[w - k]}
  <2>1. 0 \in Good  BY <1>1, <1>4, <1>7
  <2>2. ASSUME NEW k \in 1 .. w, k - 1 \in Good PROVE k \in Good
    <3>1. /\ w + 1 - k \in 1 .. w /\ (w + 1 - k) - 1 = w - k
          /\ w - k \in 0 .. w /\ w - (k - 1) = w + 1 - k
      BY <1>1
    <3>2. Word(n)[w + 1 - k] = q[w - k] % Radix  BY <1>2, <3>1
    <3>3. q[w + 1 - k] = q[w - k] \div Radix  BY <1>2, <3>1
    <3>4. q[w - k] \in Nat  BY <3>1
    <3>5. PICK x \in Nat : x = q[w - k]  BY <3>4
    <3>8. PICK d \in Nat, r \in Nat : d = x \div Radix /\ r = x % Radix /\ x = r + Radix * d
      <4>1. /\ x % Radix \in 0 .. Radix - 1 /\ x \div Radix \in Nat
            /\ x = Radix * (x \div Radix) + (x % Radix)
        <5>1. Radix \in Nat \ {0}  BY <1>1
        <5>. QED  BY <5>1, DivMod, Zenon
      <4>2. PICK d \in Nat, r \in 0 .. Radix - 1 : d = x \div Radix /\ r = x % Radix  BY <4>1
      <4>3. PICK y \in Nat : y = Radix * d  BY <1>1
      <4>4. x = y + r /\ r \in Nat  BY <1>1, <4>1, <4>2, <4>3
      <4>5. x = r + y  BY <4>4
      <4>. QED  BY <4>2, <4>3, <4>4, <4>5
    <3>6. s[k] = (q[w - k] % Radix) + Radix * q[w + 1 - k]  BY <1>4, <2>2, <3>1, <3>2
    <3>9. q[w - k] % Radix = r /\ q[w + 1 - k] = d  BY <3>3, <3>5, <3>8
    <3>7. s[k] = r + Radix * d  BY <3>6, <3>9
    <3>10. s[k] = q[w - k]  BY <3>5, <3>7, <3>8
    <3>11. k \in 0 .. w  BY <1>1
    <3>. QED  BY <3>10, <3>11
  <2>. HIDE DEF Good
  <2>3. \A k \in 0 .. w : k \in Good  BY <1>1, <2>1, <2>2, UpTo
  <2>. QED  BY <2>3 DEF Good
<1>9. w \in 0 .. w /\ w - w = 0  BY <1>1
<1>. QED  BY <1>2, <1>4, <1>8, <1>9

-----------------------------------------------------------------------------
(* Texts: what stands at an offset *)

(* Text v stands in f behind the first p bytes. *)
Holds(f, p, v) == p + Len(v) <= Len(f) /\ \A k \in 1 .. Len(v) : f[p + k] = v[k]

(* One text behind another. *)
LEMMA HoldsBoth ==
  ASSUME NEW f \in Seq(Byte), NEW p \in Nat, NEW v \in Seq(Byte), NEW w \in Seq(Byte)
  PROVE  Holds(f, p, v \o w) <=> Holds(f, p, v) /\ Holds(f, p + Len(v), w)
<1>1. PICK m \in Nat, n \in Nat, l \in Nat : m = Len(v) /\ n = Len(w) /\ l = Len(f)  BY LenProperties
<1>2. /\ Len(v \o w) = m + n
      /\ \A k \in 1 .. m + n : (v \o w)[k] = IF k <= m THEN v[k] ELSE w[k - m]
  BY <1>1, ConcatProperties
<1>3. PICK x : x = v \o w  OBVIOUS
<1>4. ASSUME Holds(f, p, x) PROVE Holds(f, p, v) /\ Holds(f, p + m, w)
  <2>1. p + (m + n) <= l /\ \A k \in 1 .. m + n : f[p + k] = x[k]
    BY <1>1, <1>2, <1>3, <1>4 DEF Holds
  <2>2. \A k \in 1 .. m : f[p + k] = v[k]
    <3>1. \A k \in 1 .. m : k \in 1 .. m + n /\ k <= m  OBVIOUS
    <3>. QED  BY <1>2, <1>3, <2>1, <3>1
  <2>3. ASSUME NEW k \in 1 .. n PROVE f[(p + m) + k] = w[k]
    <3>1. m + k \in 1 .. m + n /\ ~(m + k <= m) /\ (m + k) - m = k /\ (p + m) + k = p + (m + k)
      OBVIOUS
    <3>2. x[m + k] = w[k]  BY <1>2, <1>3, <3>1
    <3>. QED  BY <2>1, <3>1, <3>2
  <2>4. p + m <= l /\ (p + m) + n <= l  BY <2>1
  <2>. QED  BY <1>1, <2>2, <2>3, <2>4 DEF Holds
<1>5. ASSUME Holds(f, p, v), Holds(f, p + m, w) PROVE Holds(f, p, x)
  <2>1. (p + m) + n <= l /\ \A k \in 1 .. n : f[(p + m) + k] = w[k]  BY <1>1, <1>5 DEF Holds
  <2>2. \A k \in 1 .. m : f[p + k] = v[k]  BY <1>1, <1>5 DEF Holds
  <2>3. ASSUME NEW k \in 1 .. m + n PROVE f[p + k] = x[k]
    <3>1. CASE k <= m
      <4>1. k \in 1 .. m  BY <3>1
      <4>2. x[k] = v[k]  BY <1>2, <1>3, <3>1
      <4>. QED  BY <2>2, <4>1, <4>2
    <3>2. CASE ~(k <= m)
      <4>1. k - m \in 1 .. n /\ (p + m) + (k - m) = p + k  BY <3>2
      <4>2. x[k] = w[k - m]  BY <1>2, <1>3, <3>2
      <4>3. f[(p + m) + (k - m)] = w[k - m]  BY <2>1, <4>1
      <4>. QED  BY <4>1, <4>2, <4>3
    <3>. QED  BY <3>1, <3>2
  <2>4. p + (m + n) <= l  BY <2>1
  <2>. QED  BY <1>1, <1>2, <1>3, <2>3, <2>4 DEF Holds
<1>. QED  BY <1>1, <1>3, <1>4, <1>5

(* The whole of f. *)
LEMMA HoldsAll ==
  ASSUME NEW f \in Seq(Byte), NEW v \in Seq(Byte)
  PROVE  Holds(f, 0, v) /\ Len(v) = Len(f) <=> f = v
<1>1. Holds(f, 0, f)
  <2>1. Len(f) \in Nat  BY LenProperties
  <2>2. \A k \in 1 .. Len(f) : 0 + k = k  BY <2>1
  <2>. QED  BY <2>1, <2>2 DEF Holds
<1>2. ASSUME Holds(f, 0, v), Len(v) = Len(f) PROVE f = v
  <2>1. PICK n \in Nat : n = Len(f)  BY LenProperties
  <2>2. \A k \in 1 .. n : f[0 + k] = v[k]  BY <1>2, <2>1 DEF Holds
  <2>3. \A k \in 1 .. n : f[k] = v[k]  BY <2>2
  <2>. QED  BY <1>2, <2>1, <2>3, SeqEqual
<1>. QED  BY <1>1, <1>2

(* What is taken stands there, and the other way round. *)
LEMMA TakeGives ==
  ASSUME NEW f \in Seq(Byte), NEW p \in Nat, NEW n \in Nat, Take(f, p, n) # None
  PROVE  \E v \in Seq(Byte) :
           Len(v) = n /\ Holds(f, p, v) /\ Take(f, p, n) = [value |-> v, at |-> p + n]
<1>1. PICK l \in Nat : l = Len(f)  BY LenProperties
<1>2. p + n <= l  BY <1>1 DEF Take
<1>3. PICK v : v = SubSeq(f, p + 1, p + n)  OBVIOUS
<1>4. \A i \in p + 1 .. p + n : f[i] \in Byte
  <2>1. \A i \in p + 1 .. p + n : i \in 1 .. l  BY <1>2
  <2>. QED  BY <1>1, <2>1, ElementOfSeq
<1>5. /\ v \in Seq(Byte)
      /\ Len(v) = IF p + 1 <= p + n THEN (p + n) - (p + 1) + 1 ELSE 0
      /\ \A i \in 1 .. (p + n) - (p + 1) + 1 : v[i] = f[(p + 1) + i - 1]
  <2>1. p + 1 \in Int /\ p + n \in Int  OBVIOUS
  <2>. QED  BY <1>3, <1>4, <2>1, SubSeqProperties
<1>6. Len(v) = n  BY <1>5
<1>7. \A i \in 1 .. n : f[p + i] = v[i]
  <2>1. (p + n) - (p + 1) + 1 = n /\ \A i \in 1 .. n : (p + 1) + i - 1 = p + i  OBVIOUS
  <2>. QED  BY <1>5, <2>1
<1>8. Holds(f, p, v)  BY <1>1, <1>2, <1>6, <1>7 DEF Holds
<1>9. Take(f, p, n) = [value |-> v, at |-> p + n]  BY <1>1, <1>2, <1>3 DEF Take
<1>. QED  BY <1>5, <1>6, <1>8, <1>9

LEMMA TakeFinds ==
  ASSUME NEW f \in Seq(Byte), NEW p \in Nat, NEW v \in Seq(Byte), Holds(f, p, v)
  PROVE  /\ Take(f, p, Len(v)) = [value |-> v, at |-> p + Len(v)]
         /\ Take(f, p, Len(v)) # None
<1>1. PICK n \in Nat : n = Len(v)  BY LenProperties
<1>2. p + n <= Len(f) /\ \A k \in 1 .. n : f[p + k] = v[k]  BY <1>1 DEF Holds
<1>3. Take(f, p, n) = [value |-> SubSeq(f, p + 1, p + n), at |-> p + n]  BY <1>2 DEF Take
<1>4. SubSeq(f, p + 1, p + n) \in Seq(Byte)
  <2>1. \A i \in p + 1 .. p + n : f[i] \in Byte
    <3>1. \A i \in p + 1 .. p + n : i \in 1 .. Len(f)  BY <1>2, LenProperties
    <3>. QED  BY <3>1, ElementOfSeq
  <2>2. p + 1 \in Int /\ p + n \in Int  OBVIOUS
  <2>. QED  BY <2>1, <2>2, SubSeqProperties
<1>5. Take(f, p, n) # None
  <2>1. p + n \in Nat  OBVIOUS
  <2>2. [value |-> SubSeq(f, p + 1, p + n), at |-> p + n]
          \in [value : Seq(Byte) \cup Parts \cup {None}, at : Nat]
    BY <1>4, <2>1
  <2>. QED  BY <1>3, <2>2, NoneAssumption
<1>6. PICK u \in Seq(Byte) :
        Len(u) = n /\ Holds(f, p, u) /\ Take(f, p, n) = [value |-> u, at |-> p + n]
  BY <1>5, TakeGives
<1>7. u = v
  <2>1. \A k \in 1 .. n : f[p + k] = u[k]  BY <1>6 DEF Holds
  <2>2. \A k \in 1 .. n : u[k] = v[k]  BY <1>2, <2>1
  <2>. QED  BY <1>1, <1>6, <2>2, SeqEqual
<1>. QED  BY <1>1, <1>5, <1>6, <1>7

-----------------------------------------------------------------------------
(* What is written *)

LEMMA WriteBytesType ==
  ASSUME NEW v \in Seq(Byte)
  PROVE  WriteBytes(v) \in Seq(Byte) /\ Len(WriteBytes(v)) = WordSize + Len(v)
<1>1. Len(v) \in Nat  BY LenProperties
<1>2. Word(Len(v)) \in Seq(Byte) /\ Len(Word(Len(v))) = WordSize  BY <1>1, WordType
<1>. QED  BY <1>2, ConcatProperties DEF WriteBytes

LEMMA TextIsBytes == Seq(Utf8) \subseteq Seq(Byte)
BY TextAssumption, SeqMonotonic

LEMMA SmallBytes == 0 .. 4 \subseteq Byte
<1>1. Radix \in Nat /\ Radix > 4  BY WordsAssumption, SizesAssumption
<1>. QED  BY <1>1 DEF Byte

LEMMA OneByte == ASSUME NEW b \in Byte PROVE <<b>> \in Seq(Byte) /\ Len(<<b>>) = 1
OBVIOUS

LEMMA WriteOptionalType ==
  ASSUME NEW value, NEW bytes, value # None => bytes \in Seq(Byte)
  PROVE  WriteOptional(value, bytes) \in Seq(Byte)
<1>1. <<Absent>> \in Seq(Byte) /\ <<Present>> \in Seq(Byte)
  <2>1. 0 \in Byte /\ 1 \in Byte  BY SmallBytes
  <2>. QED  BY <2>1, OneByte DEF Absent, Present
<1>2. CASE value = None  BY <1>1, <1>2 DEF WriteOptional
<1>3. CASE value # None
  <2>1. <<Present>> \o bytes \in Seq(Byte)  BY <1>1, <1>3, ConcatProperties
  <2>. QED  BY <1>3, <2>1 DEF WriteOptional
<1>. QED  BY <1>2, <1>3

(* Parts and their tags. *)
LEMMA PartIs == Part[1] = "contents" /\ Part[2] = "sourcemap" /\ Part[3] = "bytecode" /\ Part[4] = "module_info"
BY DEF Part

LEMMA TagOfPart ==
  ASSUME NEW k \in 1 .. 4
  PROVE  Tag(Part[k]) = k - 1 /\ Part[k] \in Parts
<1>1. \A j \in 1 .. 4 : Part[j] = Part[k] => j = k
  <2>. SUFFICES ASSUME NEW j \in 1 .. 4, Part[j] = Part[k] PROVE j = k  OBVIOUS
  <2>1. (j = 1 \/ j = 2 \/ j = 3 \/ j = 4) /\ (k = 1 \/ k = 2 \/ k = 3 \/ k = 4)  OBVIOUS
  <2>. QED  BY <2>1, PartIs
<1>2. (CHOOSE j \in 1 .. 4 : Part[j] = Part[k]) = k  BY <1>1
<1>. QED  BY <1>2 DEF Tag, Parts

LEMMA TagType ==
  ASSUME NEW part \in Parts
  PROVE  Tag(part) \in 0 .. 3 /\ Part[Tag(part) + 1] = part /\ <<Tag(part)>> \in Seq(Byte)
<1>1. PICK k \in 1 .. 4 : part = Part[k]  BY DEF Parts
<1>2. Tag(part) = k - 1  BY <1>1, TagOfPart
<1>3. Tag(part) \in 0 .. 3 /\ Tag(part) + 1 = k  BY <1>2
<1>4. Tag(part) \in Byte  BY <1>3, SmallBytes
<1>. QED  BY <1>1, <1>3, <1>4, OneByte

(* The fields of a record as they are written. *)
KeyText(r) == WriteBytes(r.path) \o <<Tag(r.part)>>
ExpectedText(r) == WriteOptional(r.expected, r.expected)
ReplacementText(r) == WriteOptional(r.replacement, WriteBytes(r.replacement))
OriginText(b) == WriteOptional(b.origin, WriteBytes(b.origin))

LEMMA KeyTextType ==
  ASSUME NEW r, r.path \in Seq(Byte), r.part \in Parts
  PROVE  WriteBytes(r.path) \in Seq(Byte) /\ <<Tag(r.part)>> \in Seq(Byte) /\ KeyText(r) \in Seq(Byte)
<1>1. WriteBytes(r.path) \in Seq(Byte)  BY WriteBytesType
<1>2. <<Tag(r.part)>> \in Seq(Byte)  BY TagType
<1>. QED  BY <1>1, <1>2, ConcatProperties DEF KeyText

LEMMA HashIsBytes == [1 .. HashSize -> Byte] \subseteq Seq(Byte)
<1>1. HashSize \in Nat  BY SizesAssumption
<1>. QED  BY <1>1, SeqDef

LEMMA HashLen == ASSUME NEW h \in [1 .. HashSize -> Byte] PROVE h \in Seq(Byte) /\ Len(h) = HashSize
<1>1. HashSize \in Nat  BY SizesAssumption
<1>2. h \in Seq(Byte)  BY HashIsBytes
<1>3. DOMAIN h = 1 .. Len(h) /\ Len(h) \in Nat  BY <1>2, LenProperties
<1>4. 1 .. HashSize = 1 .. Len(h)  BY <1>3
<1>. QED  BY <1>1, <1>2, <1>3, <1>4

LEMMA ExpectedTextType ==
  ASSUME NEW r, r.expected \in [1 .. HashSize -> Byte] \cup {None}
  PROVE  ExpectedText(r) \in Seq(Byte)
<1>1. r.expected # None => r.expected \in Seq(Byte)  BY HashIsBytes
<1>. QED  BY <1>1, WriteOptionalType DEF ExpectedText

LEMMA ReplacementTextType ==
  ASSUME NEW r, r.replacement \in Seq(Byte) \cup {None}
  PROVE  ReplacementText(r) \in Seq(Byte)
<1>1. r.replacement # None => WriteBytes(r.replacement) \in Seq(Byte)  BY WriteBytesType
<1>. QED  BY <1>1, WriteOptionalType DEF ReplacementText

LEMMA OriginTextType ==
  ASSUME NEW b, b.origin \in Seq(Utf8) \cup {None}
  PROVE  OriginText(b) \in Seq(Byte)
<1>1. b.origin # None => WriteBytes(b.origin) \in Seq(Byte)  BY WriteBytesType, TextIsBytes
<1>. QED  BY <1>1, WriteOptionalType DEF OriginText

LEMMA RecordText ==
  ASSUME NEW r \in Record
  PROVE  /\ WriteRecord(r) = (KeyText(r) \o ExpectedText(r)) \o ReplacementText(r)
         /\ KeyText(r) \in Seq(Byte) /\ ExpectedText(r) \in Seq(Byte)
         /\ ReplacementText(r) \in Seq(Byte) /\ WriteRecord(r) \in Seq(Byte)
<1>1. /\ r.path \in Seq(Byte) /\ r.part \in Parts
      /\ r.expected \in [1 .. HashSize -> Byte] \cup {None}
      /\ r.replacement \in Seq(Byte) \cup {None}
  BY TextIsBytes DEF Record
<1>2. KeyText(r) \in Seq(Byte) /\ ExpectedText(r) \in Seq(Byte) /\ ReplacementText(r) \in Seq(Byte)
  BY <1>1, KeyTextType, ExpectedTextType, ReplacementTextType
<1>3. WriteRecord(r) = (KeyText(r) \o ExpectedText(r)) \o ReplacementText(r)
  BY Zenon DEF WriteRecord, KeyText, ExpectedText, ReplacementText
<1>4. KeyText(r) \o ExpectedText(r) \in Seq(Byte)  BY <1>2, ConcatProperties
<1>. QED  BY <1>2, <1>3, <1>4, ConcatProperties

(* The records one after the other. *)
LEMMA RecordsUpto ==
  ASSUME NEW s \in Seq(Record)
  PROVE  \E u \in [0 .. Len(s) -> Seq(Byte)] :
           /\ u[0] = << >>
           /\ \A k \in 1 .. Len(s) : u[k] = u[k - 1] \o WriteRecord(s[k])
           /\ WriteRecords(s) = u[Len(s)]
<1>. DEFINE n == Len(s)
            Of(u) == u = [k \in 0 .. n |-> IF k = 0 THEN << >> ELSE u[k - 1] \o WriteRecord(s[k])]
<1>1. n \in Nat  BY LenProperties
<1>2. ASSUME NEW k \in 1 .. n, NEW x \in Seq(Byte) PROVE x \o WriteRecord(s[k]) \in Seq(Byte)
  <2>1. s[k] \in Record  BY ElementOfSeq
  <2>2. WriteRecord(s[k]) \in Seq(Byte)  BY <2>1, RecordText
  <2>. QED  BY <2>2, ConcatProperties
<1>. HIDE DEF n
<1>3. \E u : Of(u)
  <2>. DEFINE step == [k \in 1 .. n |-> [x \in Seq(Byte) |-> x \o WriteRecord(s[k])]]
  <2>1. step \in [1 .. n -> [Seq(Byte) -> Seq(Byte)]]  BY <1>2
  <2>2. \A k \in 1 .. n, x \in Seq(Byte) : step[k][x] = x \o WriteRecord(s[k])  OBVIOUS
  <2>. HIDE DEF step
  <2>3. \E u \in [0 .. n -> Seq(Byte)] : Follows(u, n, << >>, step)
    <3>1. << >> \in Seq(Byte)  OBVIOUS
    <3>. HIDE DEF Of
    <3>. QED  BY <1>1, <2>1, <3>1, Recursion, Zenon
  <2>4. PICK u \in [0 .. n -> Seq(Byte)] :
          u[0] = << >> /\ \A k \in 1 .. n : u[k] = step[k][u[k - 1]]
    BY <2>3 DEF Follows
  <2>5. \A k \in 0 .. n : u[k] = IF k = 0 THEN << >> ELSE u[k - 1] \o WriteRecord(s[k])
    <3>1. \A k \in 0 .. n : k # 0 => k \in 1 .. n /\ u[k - 1] \in Seq(Byte)  BY <1>1
    <3>. QED  BY <2>2, <2>4, <3>1
  <2>6. u = [k \in 0 .. n |-> u[k]]  OBVIOUS
  <2>. QED  BY <2>5, <2>6
<1>4. PICK u : u = CHOOSE g : Of(g)  OBVIOUS
<1>5. Of(u)
  <2>. HIDE DEF Of
  <2>. QED  BY <1>3, <1>4
<1>6. WriteRecords(s) = u[n]  BY <1>4 DEF WriteRecords, n
<1>7. u[0] = << >> /\ \A k \in 1 .. n : u[k] = u[k - 1] \o WriteRecord(s[k])
  <2>1. \A k \in 0 .. n : u[k] = IF k = 0 THEN << >> ELSE u[k - 1] \o WriteRecord(s[k])  BY <1>5
  <2>2. 0 \in 0 .. n /\ \A k \in 1 .. n : k \in 0 .. n /\ k # 0  BY <1>1
  <2>. HIDE DEF Of
  <2>. QED  BY <2>1, <2>2
<1>8. \A k \in 0 .. n : u[k] \in Seq(Byte)
  <2>. DEFINE Good == {k \in 0 .. n : u[k] \in Seq(Byte)}
  <2>1. 0 \in Good
    <3>1. u[0] \in Seq(Byte)
      <4>1. << >> \in Seq(Byte)  OBVIOUS
      <4>. QED  BY <1>7, <4>1
    <3>2. 0 \in 0 .. n  BY <1>1
    <3>. QED  BY <3>1, <3>2
  <2>2. ASSUME NEW k \in 1 .. n, k - 1 \in Good PROVE k \in Good
    <3>1. u[k] \in Seq(Byte)  BY <1>2, <1>7, <2>2
    <3>. QED  BY <1>1, <3>1
  <2>. HIDE DEF Good
  <2>3. \A k \in 0 .. n : k \in Good  BY <1>1, <2>1, <2>2, UpTo
  <2>. QED  BY <2>3 DEF Good
<1>9. u \in [0 .. n -> Seq(Byte)]
  <2>1. u = [k \in 0 .. n |-> u[k]]  BY <1>5
  <2>. QED  BY <1>8, <2>1
<1>. QED  BY <1>6, <1>7, <1>9 DEF n

LEMMA RecordsType == ASSUME NEW s \in Seq(Record) PROVE WriteRecords(s) \in Seq(Byte)
<1>1. PICK u \in [0 .. Len(s) -> Seq(Byte)] : WriteRecords(s) = u[Len(s)]  BY RecordsUpto
<1>2. Len(s) \in 0 .. Len(s)  BY LenProperties
<1>. QED  BY <1>1, <1>2

LEMMA NoRecords == WriteRecords(<< >>) = << >>
<1>1. << >> \in Seq(Record) /\ Len(<< >>) = 0  OBVIOUS
<1>2. PICK u : u[0] = << >> /\ WriteRecords(<< >>) = u[Len(<< >>)]  BY <1>1, RecordsUpto
<1>. QED  BY <1>1, <1>2

(* Records that begin alike are written alike so far. *)
LEMMA RecordsAlike ==
  ASSUME NEW s \in Seq(Record), NEW t \in Seq(Record), Len(t) <= Len(s),
         \A k \in 1 .. Len(t) : s[k] = t[k],
         NEW u, u[0] = << >>, \A k \in 1 .. Len(s) : u[k] = u[k - 1] \o WriteRecord(s[k])
  PROVE  u[Len(t)] = WriteRecords(t)
<1>1. PICK m \in Nat, n \in Nat : m = Len(t) /\ n = Len(s)  BY LenProperties
<1>2. PICK v : v[0] = << >> /\ (\A k \in 1 .. m : v[k] = v[k - 1] \o WriteRecord(t[k]))
               /\ WriteRecords(t) = v[m]
  BY <1>1, RecordsUpto
<1>. DEFINE Good == {k \in 0 .. m : u[k] = v[k]}
<1>3. 0 \in Good  BY <1>2
<1>4. ASSUME NEW k \in 1 .. m, k - 1 \in Good PROVE k \in Good
  <2>1. k \in 1 .. n  BY <1>1
  <2>2. u[k] = u[k - 1] \o WriteRecord(s[k])  BY <1>1, <2>1
  <2>3. v[k] = v[k - 1] \o WriteRecord(t[k])  BY <1>2
  <2>4. s[k] = t[k]  BY <1>1
  <2>5. u[k - 1] = v[k - 1]  BY <1>4
  <2>6. u[k] = v[k]  BY <2>2, <2>3, <2>4, <2>5
  <2>7. k \in 0 .. m  OBVIOUS
  <2>. QED  BY <2>6, <2>7
<1>5. \A k \in 0 .. m : k \in Good
  <2>. HIDE DEF Good
  <2>. QED  BY <1>3, <1>4, UpTo
<1>6. u[m] = v[m]  BY <1>5
<1>. QED  BY <1>1, <1>2, <1>6

(* One record more. *)
LEMMA RecordsAppend ==
  ASSUME NEW s \in Seq(Record), NEW r \in Record
  PROVE  WriteRecords(Append(s, r)) = WriteRecords(s) \o WriteRecord(r)
<1>1. PICK n \in Nat : n = Len(s)  BY LenProperties
<1>2. PICK t \in Seq(Record) :
        t = Append(s, r) /\ Len(t) = n + 1 /\ (\A k \in 1 .. n : t[k] = s[k]) /\ t[n + 1] = r
  BY <1>1, AppendProperties
<1>3. PICK u : u[0] = << >> /\ (\A k \in 1 .. Len(t) : u[k] = u[k - 1] \o WriteRecord(t[k]))
               /\ WriteRecords(t) = u[Len(t)]
  BY RecordsUpto
<1>4. u[n] = WriteRecords(s)
  <2>1. Len(s) <= Len(t)  BY <1>1, <1>2
  <2>2. \A k \in 1 .. Len(s) : t[k] = s[k]  BY <1>1, <1>2
  <2>. QED  BY <1>1, <1>3, <2>1, <2>2, RecordsAlike
<1>5. n + 1 \in 1 .. Len(t) /\ (n + 1) - 1 = n  BY <1>2
<1>6. u[n + 1] = u[n] \o WriteRecord(r)  BY <1>2, <1>3, <1>5
<1>. QED  BY <1>2, <1>3, <1>4, <1>6

(* Where the text of records stands, each of them stands behind those before it. *)
LEMMA RecordStands ==
  ASSUME NEW f \in Seq(Byte), NEW p \in Nat, NEW s \in Seq(Record), Holds(f, p, WriteRecords(s)),
         NEW t \in Seq(Record), Len(t) < Len(s), \A k \in 1 .. Len(t) : s[k] = t[k]
  PROVE  Holds(f, p + Len(WriteRecords(t)), WriteRecord(s[Len(t) + 1]))
<1>1. PICK m \in Nat, n \in Nat : m = Len(t) /\ n = Len(s)  BY LenProperties
<1>2. PICK u \in [0 .. n -> Seq(Byte)] :
        /\ u[0] = << >>
        /\ \A k \in 1 .. n : u[k] = u[k - 1] \o WriteRecord(s[k])
        /\ WriteRecords(s) = u[n]
  BY <1>1, RecordsUpto
<1>3. ASSUME NEW k \in 1 .. n, Holds(f, p, u[k])
      PROVE  Holds(f, p, u[k - 1]) /\ Holds(f, p + Len(u[k - 1]), WriteRecord(s[k]))
  <2>1. u[k - 1] \in Seq(Byte)  BY <1>2
  <2>2. s[k] \in Record  BY <1>1, ElementOfSeq
  <2>3. WriteRecord(s[k]) \in Seq(Byte)  BY <2>2, RecordText
  <2>4. u[k] = u[k - 1] \o WriteRecord(s[k])  BY <1>2
  <2>5. Holds(f, p, u[k - 1] \o WriteRecord(s[k]))  BY <1>3, <2>4
  <2>. QED  BY <2>1, <2>3, <2>5, HoldsBoth, Zenon
<1>4. \A k \in 0 .. n : Holds(f, p, u[n - k])
  <2>. DEFINE Good == {k \in 0 .. n : Holds(f, p, u[n - k])}
  <2>1. 0 \in Good
    <3>1. n - 0 = n /\ 0 \in 0 .. n  OBVIOUS
    <3>. QED  BY <1>2, <3>1
  <2>2. ASSUME NEW k \in 1 .. n, k - 1 \in Good PROVE k \in Good
    <3>1. n - (k - 1) \in 1 .. n /\ (n - (k - 1)) - 1 = n - k /\ k \in 0 .. n  OBVIOUS
    <3>2. Holds(f, p, u[n - (k - 1)])  BY <2>2
    <3>3. Holds(f, p, u[n - k])  BY <1>3, <3>1, <3>2
    <3>. QED  BY <3>1, <3>3
  <2>. HIDE DEF Good
  <2>3. \A k \in 0 .. n : k \in Good  BY <2>1, <2>2, UpTo
  <2>. QED  BY <2>3 DEF Good
<1>5. m + 1 \in 1 .. n /\ (m + 1) - 1 = m /\ n - (m + 1) \in 0 .. n /\ n - (n - (m + 1)) = m + 1
  BY <1>1
<1>6. Holds(f, p, u[m + 1])  BY <1>4, <1>5
<1>7. Holds(f, p + Len(u[m]), WriteRecord(s[m + 1]))  BY <1>3, <1>5, <1>6
<1>8. u[m] = WriteRecords(t)
  <2>1. Len(t) <= Len(s)  BY <1>1
  <2>. QED  BY <1>1, <1>2, <2>1, RecordsAlike
<1>. QED  BY <1>1, <1>7, <1>8

-----------------------------------------------------------------------------
(* Readers: what each returns and finds *)

(* PatchReader: what it returns stands in the file, and it returns what stands there. *)

(* What a reader returns is not None, which stands for a missing field. *)
LEMMA SomethingRead ==
  ASSUME NEW v \in Seq(Byte) \cup Parts \cup {None}, NEW p \in Nat
  PROVE  [value |-> v, at |-> p] # None
BY NoneAssumption

LEMMA NoneIsNoText == None \notin Seq(Byte) /\ None \notin Seq(Utf8)
BY NoneAssumption, TextIsBytes

LEMMA ReadBytesGives ==
  ASSUME file \in Seq(Byte), NEW p \in Nat, ReadBytes(p) # None
  PROVE  \E v \in Seq(Byte) :
           /\ Holds(file, p, WriteBytes(v))
           /\ ReadBytes(p) = [value |-> v, at |-> p + Len(WriteBytes(v))]
<1>1. WordSize \in Nat  BY WordsAssumption
<1>2. Take(file, p, WordSize) # None  BY DEF ReadBytes, TakeCounted
<1>3. PICK c \in Seq(Byte) :
        /\ Len(c) = WordSize /\ Holds(file, p, c)
        /\ Take(file, p, WordSize) = [value |-> c, at |-> p + WordSize]
  BY <1>1, <1>2, TakeGives
<1>4. Number(c) \in Nat  BY NumberType
<1>5. 1 * Number(c) = Number(c)  BY <1>4
<1>6. ReadBytes(p) = Take(file, p + WordSize, Number(c))
  BY <1>2, <1>3, <1>5 DEF ReadBytes, TakeCounted
<1>7. PICK v \in Seq(Byte) :
        /\ Len(v) = Number(c) /\ Holds(file, p + WordSize, v)
        /\ ReadBytes(p) = [value |-> v, at |-> (p + WordSize) + Number(c)]
  <2>1. p + WordSize \in Nat  BY <1>1
  <2>. QED  BY <1>4, <1>6, <2>1, TakeGives
<1>8. c = Word(Len(v))  BY <1>3, <1>7, WordOfNumber
<1>9. Holds(file, p, c \o v)
  <2>1. Holds(file, p + Len(c), v)  BY <1>3, <1>7
  <2>. QED  BY <1>3, <1>7, <2>1, HoldsBoth, Zenon
<1>10. Len(c \o v) = WordSize + Number(c)
  <2>1. c \in Seq(Byte) /\ v \in Seq(Byte)  BY <1>3, <1>7
  <2>2. Len(c \o v) = Len(c) + Len(v)  BY <2>1, ConcatProperties
  <2>. QED  BY <1>3, <1>7, <2>2
<1>11. (p + WordSize) + Number(c) = p + Len(c \o v)  BY <1>1, <1>4, <1>10
<1>. QED  BY <1>7, <1>8, <1>9, <1>11 DEF WriteBytes

LEMMA ReadBytesFinds ==
  ASSUME file \in Seq(Byte), NEW p \in Nat, NEW v \in Seq(Byte), Len(v) <= MaxWord,
         Holds(file, p, WriteBytes(v))
  PROVE  ReadBytes(p) = [value |-> v, at |-> p + Len(WriteBytes(v))] /\ ReadBytes(p) # None
<1>1. WordSize \in Nat /\ Len(v) \in Nat  BY WordsAssumption, LenProperties
<1>2. PICK c \in Seq(Byte) : c = Word(Len(v)) /\ Len(c) = WordSize  BY <1>1, WordType
<1>3. Number(c) = Len(v)  BY <1>1, <1>2, NumberOfWord
<1>4. Holds(file, p, c) /\ Holds(file, p + Len(c), v)
  <2>1. Holds(file, p, c \o v)  BY <1>2 DEF WriteBytes
  <2>. QED  BY <2>1, HoldsBoth
<1>5. Take(file, p, WordSize) = [value |-> c, at |-> p + WordSize] /\ Take(file, p, WordSize) # None
  BY <1>2, <1>4, TakeFinds
<1>6. 1 * Number(c) = Len(v)  BY <1>1, <1>3
<1>7. ReadBytes(p) = Take(file, p + WordSize, Len(v))  BY <1>5, <1>6 DEF ReadBytes, TakeCounted
<1>8. /\ Take(file, p + WordSize, Len(v)) = [value |-> v, at |-> (p + WordSize) + Len(v)]
      /\ Take(file, p + WordSize, Len(v)) # None
  <2>1. p + WordSize \in Nat  BY <1>1
  <2>2. Holds(file, p + WordSize, v)  BY <1>2, <1>4
  <2>. QED  BY <2>1, <2>2, TakeFinds, Zenon
<1>9. (p + WordSize) + Len(v) = p + Len(WriteBytes(v))
  <2>1. Len(WriteBytes(v)) = WordSize + Len(v)  BY WriteBytesType
  <2>. QED  BY <1>1, <2>1
<1>. QED  BY <1>7, <1>8, <1>9

LEMMA ReadStringGives ==
  ASSUME file \in Seq(Byte), NEW p \in Nat, ReadString(p) # None
  PROVE  \E v \in Seq(Utf8) :
           /\ Holds(file, p, WriteBytes(v))
           /\ ReadString(p) = [value |-> v, at |-> p + Len(WriteBytes(v))]
<1>1. ReadBytes(p) # None /\ ReadString(p) = ReadBytes(p)
      /\ \A k \in 1 .. Len(ReadBytes(p).value) : ReadBytes(p).value[k] \in Utf8
  BY DEF ReadString
<1>2. PICK v \in Seq(Byte) :
        /\ Holds(file, p, WriteBytes(v))
        /\ ReadBytes(p) = [value |-> v, at |-> p + Len(WriteBytes(v))]
  BY <1>1, ReadBytesGives
<1>3. \A k \in 1 .. Len(v) : v[k] \in Utf8  BY <1>1, <1>2
<1>4. v \in Seq(Utf8)
  <2>1. PICK n \in Nat : n = Len(v) /\ v = [k \in 1 .. n |-> v[k]]  BY LenProperties
  <2>2. v \in [1 .. n -> Utf8]  BY <1>3, <2>1
  <2>. QED  BY <2>1, <2>2, SeqDef
<1>. QED  BY <1>1, <1>2, <1>4

LEMMA ReadStringFinds ==
  ASSUME file \in Seq(Byte), NEW p \in Nat, NEW v \in Seq(Utf8), Len(v) <= MaxWord,
         Holds(file, p, WriteBytes(v))
  PROVE  ReadString(p) = [value |-> v, at |-> p + Len(WriteBytes(v))] /\ ReadString(p) # None
<1>1. v \in Seq(Byte)  BY TextIsBytes
<1>2. ReadBytes(p) = [value |-> v, at |-> p + Len(WriteBytes(v))] /\ ReadBytes(p) # None
  BY <1>1, ReadBytesFinds
<1>3. \A k \in 1 .. Len(v) : v[k] \in Utf8  BY ElementOfSeq
<1>4. ReadString(p) = ReadBytes(p)  BY <1>2, <1>3 DEF ReadString
<1>. QED  BY <1>2, <1>4

LEMMA ReadHashGives ==
  ASSUME file \in Seq(Byte), NEW p \in Nat, ReadHash(p) # None
  PROVE  \E v \in [1 .. HashSize -> Byte] :
           Holds(file, p, v) /\ ReadHash(p) = [value |-> v, at |-> p + Len(v)]
<1>1. HashSize \in Nat  BY SizesAssumption
<1>2. PICK v \in Seq(Byte) :
        Len(v) = HashSize /\ Holds(file, p, v) /\ ReadHash(p) = [value |-> v, at |-> p + HashSize]
  BY <1>1, TakeGives DEF ReadHash
<1>3. v \in [1 .. HashSize -> Byte]  BY <1>2, LenProperties
<1>. QED  BY <1>2, <1>3

LEMMA ReadHashFinds ==
  ASSUME file \in Seq(Byte), NEW p \in Nat, NEW v \in [1 .. HashSize -> Byte], Holds(file, p, v)
  PROVE  ReadHash(p) = [value |-> v, at |-> p + Len(v)] /\ ReadHash(p) # None
<1>1. v \in Seq(Byte) /\ Len(v) = HashSize  BY HashLen
<1>. QED  BY <1>1, TakeFinds DEF ReadHash

(* A single byte. *)
LEMMA ByteGives ==
  ASSUME file \in Seq(Byte), NEW p \in Nat, Take(file, p, 1) # None
  PROVE  \E b \in Byte : Holds(file, p, <<b>>) /\ Take(file, p, 1) = [value |-> <<b>>, at |-> p + 1]
<1>1. PICK v \in Seq(Byte) :
        Len(v) = 1 /\ Holds(file, p, v) /\ Take(file, p, 1) = [value |-> v, at |-> p + 1]
  BY TakeGives
<1>2. PICK b \in Byte : b = v[1]
  <2>1. 1 \in 1 .. Len(v)  BY <1>1
  <2>. QED  BY <2>1, ElementOfSeq
<1>3. v = <<b>>
  <2>1. <<b>> \in Seq(Byte) /\ Len(<<b>>) = 1 /\ <<b>>[1] = b  OBVIOUS
  <2>2. \A k \in 1 .. Len(v) : v[k] = <<b>>[k]
    <3>1. \A k \in 1 .. Len(v) : k = 1  BY <1>1
    <3>. QED  BY <1>2, <2>1, <3>1
  <2>. QED  BY <1>1, <2>1, <2>2, SeqEqual
<1>. QED  BY <1>1, <1>3

LEMMA ByteFinds ==
  ASSUME file \in Seq(Byte), NEW p \in Nat, NEW b \in Byte, Holds(file, p, <<b>>)
  PROVE  Take(file, p, 1) = [value |-> <<b>>, at |-> p + 1] /\ Take(file, p, 1) # None
<1>1. <<b>> \in Seq(Byte) /\ Len(<<b>>) = 1  BY OneByte
<1>2. /\ Take(file, p, Len(<<b>>)) = [value |-> <<b>>, at |-> p + Len(<<b>>)]
      /\ Take(file, p, Len(<<b>>)) # None
  BY <1>1, TakeFinds
<1>. QED  BY <1>1, <1>2

LEMMA ReadTagGives ==
  ASSUME file \in Seq(Byte), NEW p \in Nat, ReadTag(p) # None
  PROVE  \E part \in Parts :
           Holds(file, p, <<Tag(part)>>) /\ ReadTag(p) = [value |-> part, at |-> p + 1]
<1>1. Take(file, p, 1) # None /\ Take(file, p, 1).value[1] < 4
      /\ ReadTag(p) = [value |-> Part[Take(file, p, 1).value[1] + 1], at |-> Take(file, p, 1).at]
  BY DEF ReadTag
<1>2. PICK b \in Byte : Holds(file, p, <<b>>) /\ Take(file, p, 1) = [value |-> <<b>>, at |-> p + 1]
  BY <1>1, ByteGives
<1>3. b \in Nat  BY WordsAssumption DEF Byte
<1>4. Take(file, p, 1).value[1] = b  BY <1>2
<1>5. b + 1 \in 1 .. 4 /\ (b + 1) - 1 = b  BY <1>1, <1>3, <1>4
<1>6. Tag(Part[b + 1]) = b /\ Part[b + 1] \in Parts  BY <1>5, TagOfPart
<1>7. ReadTag(p) = [value |-> Part[b + 1], at |-> p + 1]  BY <1>1, <1>2, <1>4
<1>. QED  BY <1>2, <1>6, <1>7

LEMMA ReadTagFinds ==
  ASSUME file \in Seq(Byte), NEW p \in Nat, NEW part \in Parts, Holds(file, p, <<Tag(part)>>)
  PROVE  ReadTag(p) = [value |-> part, at |-> p + 1] /\ ReadTag(p) # None
<1>1. PICK t \in 0 .. 3 : t = Tag(part) /\ Part[t + 1] = part  BY TagType
<1>2. t \in Byte  BY SmallBytes
<1>3. Take(file, p, 1) = [value |-> <<t>>, at |-> p + 1] /\ Take(file, p, 1) # None
  BY <1>1, <1>2, ByteFinds
<1>4. Take(file, p, 1).value[1] = t /\ t < 4  BY <1>3
<1>5. ReadTag(p) = [value |-> part, at |-> p + 1]  BY <1>1, <1>3, <1>4 DEF ReadTag
<1>6. p + 1 \in Nat  OBVIOUS
<1>. QED  BY <1>5, <1>6, SomethingRead

(* A state in front of a value. *)
LEMMA StateBytes == Absent \in Byte /\ Present \in Byte /\ <<Absent>> # <<Present>>
<1>1. 0 \in Byte /\ 1 \in Byte  BY SmallBytes
<1>2. <<0>>[1] # <<1>>[1]  OBVIOUS
<1>. QED  BY <1>1, <1>2 DEF Absent, Present

LEMMA OptionalGives ==
  ASSUME file \in Seq(Byte), NEW p \in Nat, NEW content, ReadOptional(p, content) # None
  PROVE  \/ ReadOptional(p, content) = [value |-> None, at |-> p + 1] /\ Holds(file, p, <<Absent>>)
         \/ ReadOptional(p, content) = content /\ Holds(file, p, <<Present>>)
<1>1. Take(file, p, 1) # None  BY DEF ReadOptional
<1>2. PICK b \in Byte : Holds(file, p, <<b>>) /\ Take(file, p, 1) = [value |-> <<b>>, at |-> p + 1]
  BY <1>1, ByteGives
<1>3. PICK state : state = Take(file, p, 1)  OBVIOUS
<1>4. state # None /\ state.value = <<b>> /\ state.at = p + 1  BY <1>1, <1>2, <1>3
<1>5. ReadOptional(p, content) =
        CASE state.value = <<Absent>>  -> [value |-> None, at |-> state.at]
          [] state.value = <<Present>> -> content
          [] OTHER -> None
  BY <1>3, <1>4 DEF ReadOptional
<1>6. CASE <<b>> = <<Absent>>
  <2>1. ReadOptional(p, content) = [value |-> None, at |-> p + 1]
    BY <1>4, <1>5, <1>6, StateBytes
  <2>. QED  BY <1>2, <1>6, <2>1
<1>7. CASE <<b>> = <<Present>>
  <2>1. ReadOptional(p, content) = content  BY <1>4, <1>5, <1>7, StateBytes
  <2>. QED  BY <1>2, <1>7, <2>1
<1>8. CASE <<b>> # <<Absent>> /\ <<b>> # <<Present>>
  BY <1>4, <1>5, <1>8
<1>. QED  BY <1>6, <1>7, <1>8

LEMMA OptionalFinds ==
  ASSUME file \in Seq(Byte), NEW p \in Nat, NEW content
  PROVE  /\ Holds(file, p, <<Absent>>) =>
              ReadOptional(p, content) = [value |-> None, at |-> p + 1]
         /\ Holds(file, p, <<Present>>) => ReadOptional(p, content) = content
<1>1. ASSUME Holds(file, p, <<Absent>>)
      PROVE  ReadOptional(p, content) = [value |-> None, at |-> p + 1]
  <2>1. Take(file, p, 1) = [value |-> <<Absent>>, at |-> p + 1] /\ Take(file, p, 1) # None
    BY <1>1, StateBytes, ByteFinds
  <2>2. PICK state : state = Take(file, p, 1)  OBVIOUS
  <2>3. state # None /\ state.value = <<Absent>> /\ state.at = p + 1  BY <2>1, <2>2
  <2>. QED  BY <2>2, <2>3, StateBytes DEF ReadOptional
<1>2. ASSUME Holds(file, p, <<Present>>) PROVE ReadOptional(p, content) = content
  <2>1. Take(file, p, 1) = [value |-> <<Present>>, at |-> p + 1] /\ Take(file, p, 1) # None
    BY <1>2, StateBytes, ByteFinds
  <2>2. PICK state : state = Take(file, p, 1)  OBVIOUS
  <2>3. state # None /\ state.value = <<Present>>  BY <2>1, <2>2
  <2>. QED  BY <2>2, <2>3, StateBytes DEF ReadOptional
<1>. QED  BY <1>1, <1>2

(* What stands there of an optional value. *)
LEMMA OptionalText ==
  ASSUME file \in Seq(Byte), NEW p \in Nat, NEW v, NEW w, v # None => w \in Seq(Byte)
  PROVE  /\ v = None => /\ WriteOptional(v, w) = <<Absent>>
                        /\ Len(WriteOptional(v, w)) = 1
         /\ v # None => /\ Holds(file, p, WriteOptional(v, w)) <=>
                             Holds(file, p, <<Present>>) /\ Holds(file, p + 1, w)
                        /\ Len(WriteOptional(v, w)) = 1 + Len(w)
<1>1. CASE v = None
  <2>1. WriteOptional(v, w) = <<Absent>>  BY <1>1 DEF WriteOptional
  <2>2. Len(<<Absent>>) = 1  BY StateBytes, OneByte
  <2>. QED  BY <1>1, <2>1, <2>2
<1>2. CASE v # None
  <2>1. WriteOptional(v, w) = <<Present>> \o w  BY <1>2 DEF WriteOptional
  <2>2. <<Present>> \in Seq(Byte) /\ Len(<<Present>>) = 1  BY StateBytes, OneByte
  <2>3. Holds(file, p, <<Present>> \o w) <=>
          Holds(file, p, <<Present>>) /\ Holds(file, p + 1, w)
    BY <1>2, <2>2, HoldsBoth
  <2>4. Len(<<Present>> \o w) = 1 + Len(w)  BY <1>2, <2>2, ConcatProperties
  <2>. QED  BY <1>2, <2>1, <2>3, <2>4
<1>. QED  BY <1>1, <1>2

LEMMA OriginGives ==
  ASSUME file \in Seq(Byte), NEW p \in Nat, ReadOptional(p, ReadString(p + 1)) # None
  PROVE  \E v \in Seq(Utf8) \cup {None} :
           /\ Holds(file, p, WriteOptional(v, WriteBytes(v)))
           /\ ReadOptional(p, ReadString(p + 1)) =
                [value |-> v, at |-> p + Len(WriteOptional(v, WriteBytes(v)))]
<1>1. PICK c : c = ReadString(p + 1)  OBVIOUS
<1>2. p + 1 \in Nat  OBVIOUS
<1>3. ReadOptional(p, c) # None  BY <1>1
<1>4. CASE ReadOptional(p, c) = [value |-> None, at |-> p + 1] /\ Holds(file, p, <<Absent>>)
  <2>1. WriteOptional(None, WriteBytes(None)) = <<Absent>> /\ Len(<<Absent>>) = 1
    BY OptionalText
  <2>. QED  BY <1>1, <1>4, <2>1
<1>5. CASE ReadOptional(p, c) = c /\ Holds(file, p, <<Present>>)
  <2>1. PICK v \in Seq(Utf8) :
          Holds(file, p + 1, WriteBytes(v)) /\ c = [value |-> v, at |-> (p + 1) + Len(WriteBytes(v))]
    BY <1>1, <1>2, <1>3, <1>5, ReadStringGives
  <2>2. v # None /\ WriteBytes(v) \in Seq(Byte) /\ Len(WriteBytes(v)) \in Nat
    BY NoneIsNoText, TextIsBytes, WriteBytesType, LenProperties
  <2>3. /\ Holds(file, p, WriteOptional(v, WriteBytes(v)))
        /\ Len(WriteOptional(v, WriteBytes(v))) = 1 + Len(WriteBytes(v))
    BY <1>5, <2>1, <2>2, OptionalText
  <2>4. (p + 1) + Len(WriteBytes(v)) = p + Len(WriteOptional(v, WriteBytes(v)))  BY <2>2, <2>3
  <2>. QED  BY <1>1, <1>5, <2>1, <2>3, <2>4
<1>. QED  BY <1>3, <1>4, <1>5, OptionalGives

LEMMA OriginFinds ==
  ASSUME file \in Seq(Byte), NEW p \in Nat, NEW v \in Seq(Utf8) \cup {None},
         v # None => Len(v) <= MaxWord, Holds(file, p, WriteOptional(v, WriteBytes(v)))
  PROVE  /\ ReadOptional(p, ReadString(p + 1)) =
              [value |-> v, at |-> p + Len(WriteOptional(v, WriteBytes(v)))]
         /\ ReadOptional(p, ReadString(p + 1)) # None
<1>1. p + 1 \in Nat  OBVIOUS
<1>2. CASE v = None
  <2>1. WriteOptional(v, WriteBytes(v)) = <<Absent>> /\ Len(<<Absent>>) = 1
    BY <1>2, OptionalText
  <2>2. ReadOptional(p, ReadString(p + 1)) = [value |-> None, at |-> p + 1]  BY <2>1, OptionalFinds
  <2>. QED  BY <1>1, <1>2, <2>1, <2>2, SomethingRead
<1>3. CASE v # None
  <2>1. v \in Seq(Utf8) /\ WriteBytes(v) \in Seq(Byte) /\ Len(WriteBytes(v)) \in Nat
    BY <1>3, TextIsBytes, WriteBytesType, LenProperties
  <2>2. /\ Holds(file, p, <<Present>>) /\ Holds(file, p + 1, WriteBytes(v))
        /\ Len(WriteOptional(v, WriteBytes(v))) = 1 + Len(WriteBytes(v))
    BY <1>3, <2>1, OptionalText
  <2>3. /\ ReadString(p + 1) = [value |-> v, at |-> (p + 1) + Len(WriteBytes(v))]
        /\ ReadString(p + 1) # None
    BY <1>1, <1>3, <2>1, <2>2, ReadStringFinds
  <2>4. (p + 1) + Len(WriteBytes(v)) = p + Len(WriteOptional(v, WriteBytes(v)))  BY <2>1, <2>2
  <2>5. ReadOptional(p, ReadString(p + 1)) = ReadString(p + 1)  BY <2>2, OptionalFinds
  <2>. QED  BY <2>3, <2>4, <2>5
<1>. QED  BY <1>2, <1>3

LEMMA ExpectedGives ==
  ASSUME file \in Seq(Byte), NEW p \in Nat, ReadOptional(p, ReadHash(p + 1)) # None
  PROVE  \E v \in [1 .. HashSize -> Byte] \cup {None} :
           /\ Holds(file, p, WriteOptional(v, v))
           /\ ReadOptional(p, ReadHash(p + 1)) = [value |-> v, at |-> p + Len(WriteOptional(v, v))]
<1>1. PICK c : c = ReadHash(p + 1)  OBVIOUS
<1>2. p + 1 \in Nat  OBVIOUS
<1>3. ReadOptional(p, c) # None  BY <1>1
<1>4. CASE ReadOptional(p, c) = [value |-> None, at |-> p + 1] /\ Holds(file, p, <<Absent>>)
  <2>1. WriteOptional(None, None) = <<Absent>> /\ Len(<<Absent>>) = 1
    BY OptionalText
  <2>. QED  BY <1>1, <1>4, <2>1
<1>5. CASE ReadOptional(p, c) = c /\ Holds(file, p, <<Present>>)
  <2>1. PICK v \in [1 .. HashSize -> Byte] :
          Holds(file, p + 1, v) /\ c = [value |-> v, at |-> (p + 1) + Len(v)]
    BY <1>1, <1>2, <1>3, <1>5, ReadHashGives
  <2>2. v # None /\ v \in Seq(Byte) /\ Len(v) \in Nat
    BY NoneIsNoText, HashIsBytes, LenProperties
  <2>3. /\ Holds(file, p, WriteOptional(v, v))
        /\ Len(WriteOptional(v, v)) = 1 + Len(v)
    BY <1>5, <2>1, <2>2, OptionalText
  <2>4. (p + 1) + Len(v) = p + Len(WriteOptional(v, v))  BY <2>2, <2>3
  <2>. QED  BY <1>1, <1>5, <2>1, <2>3, <2>4
<1>. QED  BY <1>3, <1>4, <1>5, OptionalGives

LEMMA ExpectedFinds ==
  ASSUME file \in Seq(Byte), NEW p \in Nat, NEW v \in [1 .. HashSize -> Byte] \cup {None},
         Holds(file, p, WriteOptional(v, v))
  PROVE  /\ ReadOptional(p, ReadHash(p + 1)) = [value |-> v, at |-> p + Len(WriteOptional(v, v))]
         /\ ReadOptional(p, ReadHash(p + 1)) # None
<1>1. p + 1 \in Nat  OBVIOUS
<1>2. CASE v = None
  <2>1. WriteOptional(v, v) = <<Absent>> /\ Len(<<Absent>>) = 1
    BY <1>2, OptionalText
  <2>2. ReadOptional(p, ReadHash(p + 1)) = [value |-> None, at |-> p + 1]  BY <2>1, OptionalFinds
  <2>. QED  BY <1>1, <1>2, <2>1, <2>2, SomethingRead
<1>3. CASE v # None
  <2>1. v \in [1 .. HashSize -> Byte] /\ v \in Seq(Byte) /\ Len(v) \in Nat
    BY <1>3, HashIsBytes, LenProperties
  <2>2. /\ Holds(file, p, <<Present>>) /\ Holds(file, p + 1, v)
        /\ Len(WriteOptional(v, v)) = 1 + Len(v)
    BY <1>3, <2>1, OptionalText
  <2>3. /\ ReadHash(p + 1) = [value |-> v, at |-> (p + 1) + Len(v)]
        /\ ReadHash(p + 1) # None
    BY <1>1, <2>1, <2>2, ReadHashFinds
  <2>4. (p + 1) + Len(v) = p + Len(WriteOptional(v, v))  BY <2>1, <2>2
  <2>5. ReadOptional(p, ReadHash(p + 1)) = ReadHash(p + 1)  BY <2>2, OptionalFinds
  <2>. QED  BY <2>3, <2>4, <2>5
<1>. QED  BY <1>2, <1>3

LEMMA ReplacementGives ==
  ASSUME file \in Seq(Byte), NEW p \in Nat, ReadOptional(p, ReadBytes(p + 1)) # None
  PROVE  \E v \in Seq(Byte) \cup {None} :
           /\ Holds(file, p, WriteOptional(v, WriteBytes(v)))
           /\ ReadOptional(p, ReadBytes(p + 1)) =
                [value |-> v, at |-> p + Len(WriteOptional(v, WriteBytes(v)))]
<1>1. PICK c : c = ReadBytes(p + 1)  OBVIOUS
<1>2. p + 1 \in Nat  OBVIOUS
<1>3. ReadOptional(p, c) # None  BY <1>1
<1>4. CASE ReadOptional(p, c) = [value |-> None, at |-> p + 1] /\ Holds(file, p, <<Absent>>)
  <2>1. WriteOptional(None, WriteBytes(None)) = <<Absent>> /\ Len(<<Absent>>) = 1
    BY OptionalText
  <2>. QED  BY <1>1, <1>4, <2>1
<1>5. CASE ReadOptional(p, c) = c /\ Holds(file, p, <<Present>>)
  <2>1. PICK v \in Seq(Byte) :
          Holds(file, p + 1, WriteBytes(v)) /\ c = [value |-> v, at |-> (p + 1) + Len(WriteBytes(v))]
    BY <1>1, <1>2, <1>3, <1>5, ReadBytesGives
  <2>2. v # None /\ WriteBytes(v) \in Seq(Byte) /\ Len(WriteBytes(v)) \in Nat
    BY NoneIsNoText, WriteBytesType, LenProperties
  <2>3. /\ Holds(file, p, WriteOptional(v, WriteBytes(v)))
        /\ Len(WriteOptional(v, WriteBytes(v))) = 1 + Len(WriteBytes(v))
    BY <1>5, <2>1, <2>2, OptionalText
  <2>4. (p + 1) + Len(WriteBytes(v)) = p + Len(WriteOptional(v, WriteBytes(v)))  BY <2>2, <2>3
  <2>. QED  BY <1>1, <1>5, <2>1, <2>3, <2>4
<1>. QED  BY <1>3, <1>4, <1>5, OptionalGives

LEMMA ReplacementFinds ==
  ASSUME file \in Seq(Byte), NEW p \in Nat, NEW v \in Seq(Byte) \cup {None},
         v # None => Len(v) <= MaxWord, Holds(file, p, WriteOptional(v, WriteBytes(v)))
  PROVE  /\ ReadOptional(p, ReadBytes(p + 1)) =
              [value |-> v, at |-> p + Len(WriteOptional(v, WriteBytes(v)))]
         /\ ReadOptional(p, ReadBytes(p + 1)) # None
<1>1. p + 1 \in Nat  OBVIOUS
<1>2. CASE v = None
  <2>1. WriteOptional(v, WriteBytes(v)) = <<Absent>> /\ Len(<<Absent>>) = 1
    BY <1>2, OptionalText
  <2>2. ReadOptional(p, ReadBytes(p + 1)) = [value |-> None, at |-> p + 1]  BY <2>1, OptionalFinds
  <2>. QED  BY <1>1, <1>2, <2>1, <2>2, SomethingRead
<1>3. CASE v # None
  <2>1. v \in Seq(Byte) /\ WriteBytes(v) \in Seq(Byte) /\ Len(WriteBytes(v)) \in Nat
    BY <1>3, WriteBytesType, LenProperties
  <2>2. /\ Holds(file, p, <<Present>>) /\ Holds(file, p + 1, WriteBytes(v))
        /\ Len(WriteOptional(v, WriteBytes(v))) = 1 + Len(WriteBytes(v))
    BY <1>3, <2>1, OptionalText
  <2>3. /\ ReadBytes(p + 1) = [value |-> v, at |-> (p + 1) + Len(WriteBytes(v))]
        /\ ReadBytes(p + 1) # None
    BY <1>1, <1>3, <2>1, <2>2, ReadBytesFinds
  <2>4. (p + 1) + Len(WriteBytes(v)) = p + Len(WriteOptional(v, WriteBytes(v)))  BY <2>1, <2>2
  <2>5. ReadOptional(p, ReadBytes(p + 1)) = ReadBytes(p + 1)  BY <2>2, OptionalFinds
  <2>. QED  BY <2>3, <2>4, <2>5
<1>. QED  BY <1>2, <1>3

-----------------------------------------------------------------------------
(* The inductive invariant *)

Fields == {"path", "expected", "replacement"}

TypeOK ==
  /\ bundle \in Bundles
  /\ file \in Seq(Byte) \cup {None}
  /\ file # None => Fits(bundle)
  /\ pc \in {"write", "origin", "count", "ok", "error"} \cup Fields
  /\ at \in Nat
  /\ left \in Nat
  /\ read \in Bundle
  /\ pc \notin {"write", "error"} => file # None
  /\ pc \in {"expected", "replacement"} =>
       left > 0 /\ draft.path \in Seq(Utf8) /\ draft.part \in Parts
  /\ pc = "replacement" => draft.expected \in [1 .. HashSize -> Byte] \cup {None}

(* No record is read in front of their number. *)
Begun ==
  /\ pc \in {"write", "origin"} => read = Nothing
  /\ pc = "count" => read.records = << >>

(* The record that is being read is for a part of its own. *)
DraftIsNew ==
  pc \in {"expected", "replacement"} => <<draft.path, draft.part>> \notin Keys

(* The reader is behind a text, with which the file begins. *)
Behind(text) == Holds(file, 0, text) /\ at = Len(text)

(* What write_patch_bundle writes of what was read. *)
Opening == (Magic \o OriginText(read)) \o Word(Len(read.records) + left)

Before == Opening \o WriteRecords(read.records)

ReadSoFar ==
  /\ pc = "origin" => Behind(Magic)
  /\ pc = "count" => Behind(Magic \o OriginText(read))
  /\ pc = "path" => Behind(Before)
  /\ pc = "expected" => Behind(Before \o KeyText(draft))
  /\ pc = "replacement" => Behind((Before \o KeyText(draft)) \o ExpectedText(draft))

(* The record that is read next, in the bundle that was sent. *)
Sent == bundle.records[Len(read.records) + 1]

(* As long as the file is as it was written, what was read is what was sent. *)
Arrives ==
  file = Written(bundle) =>
    /\ pc # "error"
    /\ pc \in {"count", "ok"} \cup Fields => read.origin = bundle.origin
    /\ pc \in Fields =>
         /\ Len(read.records) + left = Len(bundle.records)
         /\ \A k \in 1 .. Len(read.records) : read.records[k] = bundle.records[k]
    /\ pc \in {"expected", "replacement"} => draft.path = Sent.path /\ draft.part = Sent.part
    /\ pc = "replacement" => draft.expected = Sent.expected
    /\ pc = "ok" => read = bundle

IInv ==
  TypeOK /\ Begun /\ OneRecordEach /\ DraftIsNew /\ ReadSoFar /\ Arrives /\ OnlyWritten

-----------------------------------------------------------------------------
(* The text that was sent *)

(* A text behind the one that was read. *)
LEMMA Advance ==
  ASSUME file \in Seq(Byte), NEW t \in Seq(Byte), NEW w \in Seq(Byte), Behind(t), Holds(file, at, w)
  PROVE  t \o w \in Seq(Byte) /\ Holds(file, 0, t \o w) /\ at + Len(w) = Len(t \o w)
<1>1. Len(t) \in Nat /\ 0 + Len(t) = Len(t)  BY LenProperties
<1>2. Holds(file, 0, t) /\ Holds(file, 0 + Len(t), w)  BY <1>1 DEF Behind
<1>3. Holds(file, 0, t \o w)  BY <1>2, HoldsBoth, Zenon
<1>4. t \o w \in Seq(Byte) /\ Len(t \o w) = Len(t) + Len(w)  BY ConcatProperties
<1>. QED  BY <1>3, <1>4 DEF Behind

(* A bundle as it is written, in four pieces. *)
LEMMA BundleText ==
  ASSUME NEW b \in Bundle
  PROVE  /\ b.origin \in Seq(Utf8) \cup {None} /\ b.records \in Seq(Record)
         /\ Magic \in Seq(Byte) /\ OriginText(b) \in Seq(Byte)
         /\ Magic \o OriginText(b) \in Seq(Byte)
         /\ WriteRecords(b.records) \in Seq(Byte)
         /\ \A n \in Nat :
              /\ Word(n) \in Seq(Byte) /\ Len(Word(n)) = WordSize
              /\ (Magic \o OriginText(b)) \o Word(n) \in Seq(Byte)
              /\ ((Magic \o OriginText(b)) \o Word(n)) \o WriteRecords(b.records) \in Seq(Byte)
         /\ Written(b) = ((Magic \o OriginText(b)) \o Word(Len(b.records))) \o WriteRecords(b.records)
         /\ Written(b) \in Seq(Byte)
<1>1. b.origin \in Seq(Utf8) \cup {None} /\ b.records \in Seq(Record)  BY DEF Bundle
<1>2. Magic \in Seq(Byte) /\ OriginText(b) \in Seq(Byte)  BY <1>1, OriginTextType, SizesAssumption
<1>3. Magic \o OriginText(b) \in Seq(Byte)  BY <1>2, ConcatProperties
<1>4. WriteRecords(b.records) \in Seq(Byte)  BY <1>1, RecordsType
<1>5. ASSUME NEW n \in Nat
      PROVE  /\ Word(n) \in Seq(Byte) /\ Len(Word(n)) = WordSize
             /\ (Magic \o OriginText(b)) \o Word(n) \in Seq(Byte)
             /\ ((Magic \o OriginText(b)) \o Word(n)) \o WriteRecords(b.records) \in Seq(Byte)
  <2>1. Word(n) \in Seq(Byte) /\ Len(Word(n)) = WordSize  BY WordType
  <2>2. (Magic \o OriginText(b)) \o Word(n) \in Seq(Byte)  BY <1>3, <2>1, ConcatProperties
  <2>3. ((Magic \o OriginText(b)) \o Word(n)) \o WriteRecords(b.records) \in Seq(Byte)
    BY <1>4, <2>2, ConcatProperties
  <2>. QED  BY <2>1, <2>2, <2>3
<1>6. Written(b) = ((Magic \o OriginText(b)) \o Word(Len(b.records))) \o WriteRecords(b.records)
  BY Zenon DEF Written, OriginText
<1>7. Len(b.records) \in Nat  BY <1>1, LenProperties
<1>8. Written(b) \in Seq(Byte)  BY <1>5, <1>6, <1>7
<1>. QED  BY <1>1, <1>2, <1>3, <1>4, <1>5, <1>6, <1>8

(* A file that arrives as it was written. *)
LEMMA SentType ==
  ASSUME TypeOK
  PROVE  bundle \in Bundle /\ OneEach(bundle.records) /\ Written(bundle) \in Seq(Byte)
<1>1. bundle \in Bundle /\ OneEach(bundle.records)  BY BundlesAssumption DEF TypeOK
<1>. QED  BY <1>1, BundleText

(* Where the four pieces of what was sent stand. *)
LEMMA SentStands ==
  ASSUME TypeOK, file = Written(bundle)
  PROVE  /\ file \in Seq(Byte)
         /\ Holds(file, 0, Magic)
         /\ Holds(file, Len(Magic), OriginText(bundle))
         /\ Holds(file, Len(Magic \o OriginText(bundle)), Word(Len(bundle.records)))
         /\ Holds(file, Len((Magic \o OriginText(bundle)) \o Word(Len(bundle.records))),
                  WriteRecords(bundle.records))
<1>1. file \in Seq(Byte)  BY SentType
<1>2. bundle \in Bundle  BY SentType
<1>3. PICK m, o, w, r :
        /\ m = Magic /\ o = OriginText(bundle) /\ w = Word(Len(bundle.records))
        /\ r = WriteRecords(bundle.records)
  OBVIOUS
<1>4. Len(bundle.records) \in Nat  BY <1>2, BundleText, LenProperties
<1>5. /\ m \in Seq(Byte) /\ o \in Seq(Byte) /\ w \in Seq(Byte) /\ r \in Seq(Byte)
      /\ m \o o \in Seq(Byte) /\ (m \o o) \o w \in Seq(Byte)
      /\ ((m \o o) \o w) \o r \in Seq(Byte)
      /\ file = ((m \o o) \o w) \o r
  BY <1>2, <1>3, <1>4, BundleText
<1>6. 0 + Len(m) = Len(m) /\ 0 + Len(m \o o) = Len(m \o o)
      /\ 0 + Len((m \o o) \o w) = Len((m \o o) \o w)
  BY <1>5, LenProperties
<1>7. Holds(file, 0, ((m \o o) \o w) \o r)
  <2>. HIDE DEF Holds
  <2>. QED  BY <1>1, <1>5, HoldsAll
<1>8. Holds(file, 0, (m \o o) \o w) /\ Holds(file, 0 + Len((m \o o) \o w), r)
  BY <1>1, <1>5, <1>7, HoldsBoth, Zenon
<1>9. Holds(file, 0, m \o o) /\ Holds(file, 0 + Len(m \o o), w)
  BY <1>1, <1>5, <1>8, HoldsBoth, Zenon
<1>10. Holds(file, 0, m) /\ Holds(file, 0 + Len(m), o)
  BY <1>1, <1>5, <1>9, HoldsBoth, Zenon
<1>. QED  BY <1>1, <1>3, <1>6, <1>8, <1>9, <1>10

(* Its lengths are numbers that fit. *)
LEMMA SentFits ==
  ASSUME TypeOK, file = Written(bundle)
  PROVE  /\ bundle.origin # None => Len(bundle.origin) <= MaxWord
         /\ Len(bundle.records) \in Nat /\ Len(bundle.records) <= MaxWord
         /\ \A k \in 1 .. Len(bundle.records) :
              /\ bundle.records[k] \in Record
              /\ Len(bundle.records[k].path) <= MaxWord
              /\ bundle.records[k].replacement # None =>
                   Len(bundle.records[k].replacement) <= MaxWord
<1>1. file \in Seq(Byte) /\ bundle \in Bundle  BY SentType
<1>2. file # None  BY <1>1, NoneIsNoText
<1>3. Fits(bundle)  BY <1>2 DEF TypeOK
<1>4. bundle.records \in Seq(Record)  BY <1>1, BundleText
<1>5. Len(bundle.records) \in Nat /\ \A k \in 1 .. Len(bundle.records) : bundle.records[k] \in Record
  BY <1>4, LenProperties, ElementOfSeq
<1>. QED  BY <1>3, <1>5 DEF Fits

(* The record that comes next. *)
LEMMA SentRecordStands ==
  ASSUME TypeOK, Arrives, ReadSoFar, file = Written(bundle), pc \in Fields, left > 0
  PROVE  /\ Len(read.records) + 1 \in 1 .. Len(bundle.records)
         /\ Sent \in Record
         /\ Behind(Before) => Holds(file, at, KeyText(Sent))
         /\ Behind(Before \o KeyText(Sent)) => Holds(file, at, ExpectedText(Sent))
         /\ Behind((Before \o KeyText(Sent)) \o ExpectedText(Sent)) =>
              Holds(file, at, ReplacementText(Sent))
<1>1. bundle \in Bundle /\ file \in Seq(Byte) /\ read \in Bundle
  BY SentType DEF TypeOK
<1>2. PICK s, t : s = bundle.records /\ t = read.records  OBVIOUS
<1>3. s \in Seq(Record) /\ t \in Seq(Record)  BY <1>1, <1>2, BundleText
<1>4. PICK m \in Nat, n \in Nat : m = Len(t) /\ n = Len(s)  BY <1>3, LenProperties
<1>5. left \in Nat /\ m + left = n /\ (\A k \in 1 .. m : s[k] = t[k]) /\ read.origin = bundle.origin
  BY <1>2, <1>4 DEF TypeOK, Arrives, Fields
<1>6. m < n /\ m + 1 \in 1 .. n  BY <1>5
<1>7. Sent = s[m + 1] /\ Sent \in Record
  <2>1. Sent = s[m + 1]  BY <1>2, <1>4 DEF Sent
  <2>. QED  BY <1>3, <1>4, <1>6, <2>1, ElementOfSeq
<1>8. PICK h : h = Opening  OBVIOUS
<1>9. h = (Magic \o OriginText(bundle)) \o Word(n)
  BY <1>2, <1>4, <1>5, <1>8 DEF Opening, OriginText
<1>10. h \in Seq(Byte) /\ Holds(file, Len(h), WriteRecords(s))
  <2>1. Holds(file, Len((Magic \o OriginText(bundle)) \o Word(n)), WriteRecords(s))
    BY <1>2, <1>4, SentStands
  <2>. QED  BY <1>1, <1>9, <2>1, BundleText
<1>11. PICK b \in Seq(Byte) : b = WriteRecords(t)  BY <1>3, RecordsType
<1>12. Holds(file, Len(h) + Len(b), WriteRecord(Sent))
  <2>1. Len(h) \in Nat  BY <1>10, LenProperties
  <2>2. Len(t) < Len(s) /\ \A k \in 1 .. Len(t) : s[k] = t[k]  BY <1>4, <1>5, <1>6
  <2>3. Holds(file, Len(h) + Len(WriteRecords(t)), WriteRecord(s[Len(t) + 1]))
    BY <1>1, <1>3, <1>10, <2>1, <2>2, RecordStands, Zenon
  <2>. QED  BY <1>4, <1>7, <1>11, <2>3
<1>13. PICK x \in Seq(Byte) : x = h \o b /\ x = Before /\ Len(x) = Len(h) + Len(b)
  <2>1. h \o b \in Seq(Byte) /\ Len(h \o b) = Len(h) + Len(b)  BY <1>10, <1>11, ConcatProperties
  <2>2. h \o b = Before  BY <1>2, <1>8, <1>11 DEF Before
  <2>. QED  BY <2>1, <2>2
<1>14. PICK k, e, r :
         k = KeyText(Sent) /\ e = ExpectedText(Sent) /\ r = ReplacementText(Sent)
  OBVIOUS
<1>15. k \in Seq(Byte) /\ e \in Seq(Byte) /\ r \in Seq(Byte) /\ WriteRecord(Sent) = (k \o e) \o r
  BY <1>7, <1>14, RecordText
<1>16. Holds(file, Len(x), (k \o e) \o r)  BY <1>12, <1>13, <1>15
<1>17. Len(x) \in Nat /\ Len(k) \in Nat /\ Len(e) \in Nat  BY <1>13, <1>15, LenProperties
<1>18. Holds(file, Len(x), k \o e) /\ Holds(file, Len(x) + Len(k \o e), r)
  <2>1. k \o e \in Seq(Byte)  BY <1>15, ConcatProperties
  <2>. QED  BY <1>1, <1>15, <1>16, <1>17, <2>1, HoldsBoth, Zenon
<1>19. Holds(file, Len(x), k) /\ Holds(file, Len(x) + Len(k), e)
  BY <1>1, <1>15, <1>17, <1>18, HoldsBoth, Zenon
<1>20. Len(x \o k) = Len(x) + Len(k) /\ Len((x \o k) \o e) = Len(x) + Len(k \o e)
  <2>1. x \o k \in Seq(Byte) /\ Len(x \o k) = Len(x) + Len(k)  BY <1>13, <1>15, ConcatProperties
  <2>2. Len((x \o k) \o e) = Len(x \o k) + Len(e)  BY <1>15, <2>1, ConcatProperties
  <2>3. Len(k \o e) = Len(k) + Len(e)  BY <1>15, ConcatProperties
  <2>. QED  BY <1>17, <2>1, <2>2, <2>3
<1>21. Behind(Before) => Holds(file, at, k)  BY <1>13, <1>19 DEF Behind
<1>22. Behind(Before \o k) => Holds(file, at, e)  BY <1>13, <1>19, <1>20 DEF Behind
<1>23. Behind((Before \o k) \o e) => Holds(file, at, r)  BY <1>13, <1>18, <1>20 DEF Behind
<1>. QED  BY <1>2, <1>4, <1>6, <1>7, <1>14, <1>21, <1>22, <1>23

-----------------------------------------------------------------------------
(* The steps *)

(* The run that writes. *)
LEMMA WritingKeeps ==
  ASSUME IInv, pc = "write", pc' = "write", UNCHANGED <<bundle, at, read, left, draft>>,
         file' \in Seq(Byte), Fits(bundle)
  PROVE  IInv'
<1>1. TypeOK'  BY DEF IInv, TypeOK, Fields
<1>2. Begun' /\ OneRecordEach'  BY DEF IInv, Begun, OneRecordEach
<1>3. DraftIsNew' /\ ReadSoFar' /\ Arrives' /\ OnlyWritten'
  BY DEF DraftIsNew, ReadSoFar, Arrives, OnlyWritten, Fields
<1>. QED  BY <1>1, <1>2, <1>3 DEF IInv

LEMMA WriteKeeps == ASSUME IInv, Write PROVE IInv'
<1>1. Written(bundle) \in Seq(Byte)  BY SentType DEF IInv
<1>. QED  BY <1>1, WritingKeeps DEF Write

LEMMA DamageKeeps == ASSUME IInv, Damage PROVE IInv'
<1>1. file \in Seq(Byte) /\ Fits(bundle)  BY DEF IInv, TypeOK, Damage
<1>2. PICK n \in Nat : n = Len(file)  BY <1>1, LenProperties
<1>3. ASSUME NEW k \in 0 .. n - 1, file' = SubSeq(file, 1, k) PROVE file' \in Seq(Byte)
  <2>1. \A i \in 1 .. k : file[i] \in Byte
    <3>1. \A i \in 1 .. k : i \in 1 .. Len(file)  BY <1>2
    <3>. QED  BY <1>1, <3>1, ElementOfSeq
  <2>2. 1 \in Int /\ k \in Int  OBVIOUS
  <2>. QED  BY <1>1, <1>3, <2>1, <2>2, SubSeqProperties
<1>4. ASSUME NEW b \in Byte, file' = Append(file, b) PROVE file' \in Seq(Byte)
  BY <1>1, <1>4, AppendProperties
<1>5. ASSUME NEW k \in 1 .. n, NEW b \in Byte, file' = [file EXCEPT ![k] = b]
      PROVE  file' \in Seq(Byte)
  BY <1>1, <1>2, <1>5, ExceptSeq
<1>6. file' \in Seq(Byte)  BY <1>2, <1>3, <1>4, <1>5 DEF Damage
<1>. QED  BY <1>1, <1>6, WritingKeeps DEF Damage

(* What a reader refuses was not written. *)
LEMMA FailKeeps == ASSUME IInv, Fail, file # Written(bundle) PROVE IInv'
<1>1. TypeOK'  BY DEF IInv, TypeOK, Fail, Fields
<1>2. Begun' /\ OneRecordEach'  BY DEF IInv, Begun, OneRecordEach, Fail
<1>3. DraftIsNew' /\ ReadSoFar' /\ Arrives' /\ OnlyWritten'
  BY DEF DraftIsNew, ReadSoFar, Arrives, OnlyWritten, Fail
<1>. QED  BY <1>1, <1>2, <1>3 DEF IInv

LEMMA WriteFailsKeeps == ASSUME IInv, WriteFails PROVE IInv'
<1>1. Written(bundle) \in Seq(Byte)  BY SentType DEF IInv
<1>2. file # Written(bundle)  BY <1>1, NoneIsNoText DEF WriteFails
<1>. QED  BY <1>2, FailKeeps DEF WriteFails, Fail

LEMMA ReadMagicKeeps == ASSUME IInv, ReadMagic PROVE IInv'
<1>. DEFINE magic == Take(file, 0, Len(Magic))
<1>1. file \in Seq(Byte) /\ TypeOK  BY DEF IInv, TypeOK, ReadMagic
<1>2. Magic \in Seq(Byte) /\ Len(Magic) \in Nat  BY SizesAssumption, LenProperties
<1>3. CASE magic = None \/ magic.value # Magic
  <2>1. ASSUME file = Written(bundle) PROVE FALSE
    <3>1. Holds(file, 0, Magic)  BY <1>1, <2>1, SentStands
    <3>2. magic = [value |-> Magic, at |-> 0 + Len(Magic)] /\ magic # None
      BY <1>1, <1>2, <3>1, TakeFinds
    <3>. QED  BY <1>3, <3>2
  <2>2. Fail  BY <1>3 DEF ReadMagic
  <2>. QED  BY <2>1, <2>2, FailKeeps
<1>4. CASE ~(magic = None \/ magic.value # Magic)
  <2>1. /\ pc = "write" /\ pc' = "origin" /\ at' = magic.at
        /\ UNCHANGED <<bundle, file, read, left, draft>>
    BY <1>4 DEF ReadMagic
  <2>2. PICK v \in Seq(Byte) :
          Holds(file, 0, v) /\ magic = [value |-> v, at |-> 0 + Len(Magic)]
    BY <1>1, <1>2, <1>4, TakeGives
  <2>3. v = Magic /\ at' = Len(Magic)  BY <1>2, <1>4, <2>1, <2>2
  <2>. HIDE DEF magic
  <2>4. file # None  BY <1>1, NoneIsNoText
  <2>5. TypeOK'  BY <1>1, <1>2, <2>1, <2>3, <2>4 DEF TypeOK, Fields
  <2>6. Begun' /\ OneRecordEach'  BY <2>1 DEF IInv, Begun, OneRecordEach
  <2>7. ReadSoFar'  BY <2>1, <2>2, <2>3 DEF ReadSoFar, Behind
  <2>8. DraftIsNew' /\ Arrives' /\ OnlyWritten'
    BY <2>1 DEF DraftIsNew, Arrives, OnlyWritten, Fields
  <2>. QED  BY <2>5, <2>6, <2>7, <2>8 DEF IInv
<1>. QED  BY <1>3, <1>4

LEMMA ReadOriginKeeps == ASSUME IInv, ReadOrigin PROVE IInv'
<1>. DEFINE origin == ReadOptional(at, ReadString(at + 1))
<1>1. /\ file \in Seq(Byte) /\ TypeOK /\ at \in Nat /\ pc = "origin" /\ read = Nothing
      /\ Holds(file, 0, Magic) /\ at = Len(Magic)
  BY DEF IInv, TypeOK, Begun, ReadSoFar, Behind, ReadOrigin
<1>2. ASSUME file = Written(bundle)
      PROVE  origin # None /\ origin.value = bundle.origin
  <2>1. Holds(file, at, OriginText(bundle))  BY <1>1, <1>2, SentStands
  <2>2. bundle.origin \in Seq(Utf8) \cup {None} /\ (bundle.origin # None => Len(bundle.origin) <= MaxWord)
    BY <1>1, <1>2, SentFits, SentType, BundleText
  <2>3. origin # None /\ origin = [value |-> bundle.origin, at |-> at + Len(OriginText(bundle))]
    BY <1>1, <2>1, <2>2, OriginFinds DEF OriginText
  <2>. QED  BY <2>3
<1>3. CASE origin = None
  BY <1>2, <1>3, FailKeeps DEF ReadOrigin
<1>4. CASE origin # None
  <2>1. /\ pc' = "count" /\ at' = origin.at /\ read' = [read EXCEPT !.origin = origin.value]
        /\ UNCHANGED <<bundle, file, left, draft>>
    BY <1>4 DEF ReadOrigin
  <2>2. PICK v \in Seq(Utf8) \cup {None} :
          /\ Holds(file, at, WriteOptional(v, WriteBytes(v)))
          /\ origin = [value |-> v, at |-> at + Len(WriteOptional(v, WriteBytes(v)))]
    BY <1>1, <1>4, OriginGives
  <2>3. origin.value = v /\ origin.at = at + Len(WriteOptional(v, WriteBytes(v)))  BY <2>2
  <2>. HIDE DEF origin
  <2>4. read' = [origin |-> v, records |-> << >>]  BY <1>1, <2>1, <2>3 DEF Nothing
  <2>5. OriginText(read') = WriteOptional(v, WriteBytes(v)) /\ OriginText(read') \in Seq(Byte)
    <3>1. read'.origin = v  BY <2>4
    <3>. QED  BY <3>1, OriginTextType DEF OriginText
  <2>6. PICK o \in Seq(Byte) : o = OriginText(read')  BY <2>5
  <2>7. Holds(file, at, o) /\ at' = at + Len(o)  BY <2>1, <2>2, <2>3, <2>5, <2>6
  <2>8. Holds(file, 0, Magic \o o) /\ at' = Len(Magic \o o)
    <3>1. Magic \in Seq(Byte) /\ Behind(Magic)  BY <1>1, SizesAssumption DEF Behind
    <3>. QED  BY <1>1, <2>6, <2>7, <3>1, Advance
  <2>9. at' \in Nat  BY <1>1, <2>6, <2>7, LenProperties
  <2>10. read' \in Bundle /\ read'.records = << >> /\ read'.origin = v
    <3>1. << >> \in Seq(Record)  OBVIOUS
    <3>. QED  BY <2>4, <3>1 DEF Bundle
  <2>11. TypeOK'  BY <1>1, <2>1, <2>9, <2>10 DEF TypeOK, Fields
  <2>12. Begun' /\ DraftIsNew' /\ OnlyWritten'  BY <2>1, <2>10 DEF Begun, DraftIsNew, OnlyWritten
  <2>13. OneRecordEach'  BY <2>10 DEF OneRecordEach, OneEach
  <2>14. ReadSoFar'  BY <2>1, <2>6, <2>8 DEF ReadSoFar, Behind
  <2>15. Arrives'  BY <1>2, <2>1, <2>3, <2>10 DEF Arrives, Fields
  <2>. QED  BY <2>11, <2>12, <2>13, <2>14, <2>15 DEF IInv
<1>. QED  BY <1>3, <1>4

LEMMA ReadCountKeeps == ASSUME IInv, ReadCount PROVE IInv'
<1>. DEFINE count == Take(file, at, WordSize)
<1>1. /\ file \in Seq(Byte) /\ TypeOK /\ at \in Nat /\ pc = "count" /\ read.records = << >>
      /\ read \in Bundle /\ Holds(file, 0, Magic \o OriginText(read))
      /\ at = Len(Magic \o OriginText(read))
  BY DEF IInv, TypeOK, Begun, ReadSoFar, Behind, ReadCount
<1>2. WordSize \in Nat  BY WordsAssumption
<1>3. ASSUME file = Written(bundle)
      PROVE  count # None /\ Number(count.value) = Len(bundle.records) /\ read.origin = bundle.origin
  <2>1. read.origin = bundle.origin  BY <1>1, <1>3 DEF IInv, Arrives
  <2>2. OriginText(read) = OriginText(bundle)  BY <2>1 DEF OriginText
  <2>3. PICK n \in Nat : n = Len(bundle.records) /\ n <= MaxWord  BY <1>1, <1>3, SentFits
  <2>4. Holds(file, at, Word(n))  BY <1>1, <1>3, <2>2, <2>3, SentStands
  <2>5. PICK w \in Seq(Byte) : w = Word(n) /\ Len(w) = WordSize  BY WordType
  <2>6. count = [value |-> w, at |-> at + WordSize] /\ count # None
    BY <1>1, <2>4, <2>5, TakeFinds
  <2>7. Number(w) = n  BY <2>3, <2>5, NumberOfWord
  <2>. QED  BY <2>1, <2>3, <2>6, <2>7
<1>4. CASE count = None
  BY <1>3, <1>4, FailKeeps DEF ReadCount
<1>5. CASE count # None
  <2>1. /\ pc' = "path" /\ at' = count.at /\ left' = Number(count.value)
        /\ UNCHANGED <<bundle, file, read, draft>>
    BY <1>5 DEF ReadCount
  <2>2. PICK c \in Seq(Byte) :
          Len(c) = WordSize /\ Holds(file, at, c) /\ count = [value |-> c, at |-> at + WordSize]
    BY <1>1, <1>2, <1>5, TakeGives
  <2>3. count.value = c /\ count.at = at + WordSize  BY <2>2
  <2>. HIDE DEF count
  <2>4. left' = Number(c) /\ left' \in Nat /\ at' = at + Len(c) /\ at' \in Nat
    BY <1>1, <1>2, <2>1, <2>2, <2>3, NumberType
  <2>5. c = Word(left')  BY <2>2, <2>4, WordOfNumber
  <2>6. PICK t \in Seq(Byte) : t = Magic \o OriginText(read)  BY <1>1, BundleText
  <2>7. t \o c \in Seq(Byte) /\ Holds(file, 0, t \o c) /\ at' = Len(t \o c)
    <3>1. Behind(t)  BY <1>1, <2>6 DEF Behind
    <3>. QED  BY <1>1, <2>2, <2>4, <2>6, <3>1, Advance
  <2>8. Before' = t \o c
    <3>1. Len(read'.records) + left' = left'
      <4>1. Len(<< >>) = 0  OBVIOUS
      <4>. QED  BY <1>1, <2>1, <2>4, <4>1
    <3>2. WriteRecords(read'.records) = << >>  BY <1>1, <2>1, NoRecords
    <3>3. Before' = ((Magic \o OriginText(read')) \o Word(Len(read'.records) + left'))
                      \o WriteRecords(read'.records)
      BY DEF Before, Opening
    <3>4. OriginText(read') = OriginText(read)  BY <2>1
    <3>5. Before' = (t \o c) \o << >>  BY <2>5, <2>6, <3>1, <3>2, <3>3, <3>4
    <3>. QED  BY <2>7, <3>5, ConcatEmptySeq
  <2>9. TypeOK'  BY <1>1, <2>1, <2>4 DEF TypeOK, Fields
  <2>10. Begun' /\ DraftIsNew' /\ OnlyWritten' /\ OneRecordEach'
    BY <2>1 DEF IInv, Begun, DraftIsNew, OnlyWritten, OneRecordEach
  <2>11. ReadSoFar'  BY <2>1, <2>7, <2>8 DEF ReadSoFar, Behind
  <2>12. Arrives'
    <3>. SUFFICES ASSUME file = Written(bundle) PROVE Arrives'
      BY <2>1 DEF Arrives
    <3>1. left' = Len(bundle.records) /\ left' \in Nat /\ read.origin = bundle.origin
      BY <1>3, <2>1, <2>4
    <3>2. Len(read.records) = 0  BY <1>1
    <3>3. Len(read.records) + left' = Len(bundle.records)  BY <3>1, <3>2
    <3>. QED  BY <2>1, <3>1, <3>2, <3>3 DEF Arrives, Fields
  <2>. QED  BY <2>9, <2>10, <2>11, <2>12 DEF IInv
<1>. QED  BY <1>4, <1>5

LEMMA BeforeType == ASSUME TypeOK PROVE Before \in Seq(Byte)
<1>1. read \in Bundle /\ left \in Nat  BY DEF TypeOK
<1>2. Len(read.records) \in Nat  BY <1>1, BundleText, LenProperties
<1>3. Len(read.records) + left \in Nat  BY <1>1, <1>2
<1>. QED  BY <1>1, <1>3, BundleText DEF Before, Opening

(* No other record of what was sent is for the same part. *)
LEMMA SentIsNew ==
  ASSUME TypeOK, Arrives, file = Written(bundle), pc \in Fields, left > 0
  PROVE  <<Sent.path, Sent.part>> \notin Keys
<1>1. bundle \in Bundle /\ OneEach(bundle.records) /\ read \in Bundle /\ left \in Nat
  BY SentType DEF TypeOK
<1>2. PICK s, t : s = bundle.records /\ t = read.records  OBVIOUS
<1>3. PICK m \in Nat, n \in Nat : m = Len(t) /\ n = Len(s)
  BY <1>1, <1>2, BundleText, LenProperties
<1>4. m + left = n /\ \A k \in 1 .. m : t[k] = s[k]  BY <1>2, <1>3 DEF Arrives, Fields
<1>5. ASSUME NEW k \in 1 .. m, t[k].path = s[m + 1].path, t[k].part = s[m + 1].part PROVE FALSE
  <2>1. k \in 1 .. n /\ m + 1 \in 1 .. n /\ k # m + 1  BY <1>1, <1>4
  <2>2. s[k].path = s[m + 1].path /\ s[k].part = s[m + 1].part  BY <1>4, <1>5
  <2>. QED  BY <1>1, <1>2, <1>3, <2>1, <2>2 DEF OneEach
<1>6. Sent = s[m + 1]  BY <1>2, <1>3 DEF Sent
<1>7. Keys = {<<t[k].path, t[k].part>> : k \in 1 .. m}  BY <1>2, <1>3 DEF Keys
<1>. QED  BY <1>5, <1>6, <1>7

LEMMA ReadKeyKeeps == ASSUME IInv, ReadKey PROVE IInv'
<1>. DEFINE path == ReadString(at)
            part == ReadTag(path.at)
<1>1. /\ file \in Seq(Byte) /\ TypeOK /\ at \in Nat /\ pc = "path" /\ left > 0
      /\ Behind(Before) /\ Arrives /\ ReadSoFar
  BY DEF IInv, TypeOK, ReadSoFar, ReadKey
<1>2. ASSUME file = Written(bundle)
      PROVE  /\ path # None /\ path.value = Sent.path
             /\ part # None /\ part.value = Sent.part
             /\ <<path.value, part.value>> \notin Keys
  <2>1. /\ Sent \in Record /\ Holds(file, at, KeyText(Sent))
        /\ Len(read.records) + 1 \in 1 .. Len(bundle.records)
    BY <1>1, <1>2, SentRecordStands DEF Fields
  <2>2. Sent.path \in Seq(Utf8) /\ Sent.path \in Seq(Byte) /\ Sent.part \in Parts
    BY <2>1, TextIsBytes DEF Record
  <2>3. Len(Sent.path) <= MaxWord  BY <1>1, <1>2, <2>1, SentFits DEF Sent
  <2>4. PICK w, g : w = WriteBytes(Sent.path) /\ g = <<Tag(Sent.part)>>  OBVIOUS
  <2>5. w \in Seq(Byte) /\ g \in Seq(Byte) /\ Holds(file, at, w \o g)
    BY <2>1, <2>2, <2>4, KeyTextType DEF KeyText
  <2>6. Holds(file, at, w) /\ Holds(file, at + Len(w), g)
    BY <1>1, <2>5, HoldsBoth, Zenon
  <2>7. PICK q \in Nat : q = at + Len(w)
    <3>1. Len(w) \in Nat  BY <2>5, LenProperties
    <3>. QED  BY <1>1, <3>1
  <2>8. path # None /\ path = [value |-> Sent.path, at |-> q]
    BY <1>1, <2>2, <2>3, <2>4, <2>6, <2>7, ReadStringFinds
  <2>9. path.at = q /\ path.value = Sent.path  BY <2>8
  <2>10. ReadTag(q) # None /\ ReadTag(q) = [value |-> Sent.part, at |-> q + 1]
    BY <1>1, <2>2, <2>4, <2>6, <2>7, ReadTagFinds
  <2>11. part # None /\ part.value = Sent.part  BY <2>9, <2>10
  <2>12. <<Sent.path, Sent.part>> \notin Keys  BY <1>1, <1>2, SentIsNew DEF Fields
  <2>. QED  BY <2>8, <2>9, <2>11, <2>12
<1>3. CASE path = None \/ part = None \/ <<path.value, part.value>> \in Keys
  <2>1. Fail  BY <1>3 DEF ReadKey
  <2>. HIDE DEF path, part
  <2>. QED  BY <1>2, <1>3, <2>1, FailKeeps
<1>4. CASE ~(path = None \/ part = None \/ <<path.value, part.value>> \in Keys)
  <2>1. /\ pc' = "expected" /\ at' = part.at
        /\ draft' = [path |-> path.value, part |-> part.value]
        /\ UNCHANGED <<bundle, file, read, left>>
    BY <1>4 DEF ReadKey
  <2>2. PICK v \in Seq(Utf8) :
          Holds(file, at, WriteBytes(v)) /\ path = [value |-> v, at |-> at + Len(WriteBytes(v))]
    BY <1>1, <1>4, ReadStringGives
  <2>3. PICK w \in Seq(Byte) : w = WriteBytes(v)  BY TextIsBytes, WriteBytesType
  <2>4. PICK q \in Nat : q = at + Len(w)
    <3>1. Len(w) \in Nat  BY LenProperties
    <3>. QED  BY <1>1, <3>1
  <2>5. path.value = v /\ path.at = q  BY <2>2, <2>3, <2>4
  <2>6. PICK p \in Parts : Holds(file, q, <<Tag(p)>>) /\ ReadTag(q) = [value |-> p, at |-> q + 1]
    <3>1. ReadTag(q) # None  BY <1>4, <2>5
    <3>. QED  BY <1>1, <3>1, ReadTagGives
  <2>7. part.value = p /\ part.at = q + 1  BY <2>5, <2>6
  <2>8. <<v, p>> \notin Keys  BY <1>4, <2>5, <2>7
  <2>. HIDE DEF path, part
  <2>9. draft' = [path |-> v, part |-> p] /\ at' = q + 1  BY <2>1, <2>5, <2>7
  <2>10. draft'.path = v /\ draft'.part = p  BY <2>9
  <2>11. PICK g \in Seq(Byte) : g = <<Tag(p)>> /\ Len(g) = 1
    <3>1. <<Tag(p)>> \in Seq(Byte)  BY TagType
    <3>2. Len(<<Tag(p)>>) = 1  OBVIOUS
    <3>. QED  BY <3>1, <3>2
  <2>12. KeyText(draft') = w \o g  BY <2>3, <2>10, <2>11 DEF KeyText
  <2>13. w \o g \in Seq(Byte) /\ Holds(file, at, w \o g) /\ at' = at + Len(w \o g)
    <3>1. Holds(file, at, w) /\ Holds(file, at + Len(w), g)  BY <2>2, <2>3, <2>4, <2>6, <2>11
    <3>2. Holds(file, at, w \o g)  BY <1>1, <3>1, HoldsBoth, Zenon
    <3>3. w \o g \in Seq(Byte) /\ Len(w \o g) = Len(w) + Len(g)  BY ConcatProperties
    <3>4. Len(w) \in Nat  BY LenProperties
    <3>. QED  BY <1>1, <2>4, <2>9, <2>11, <3>2, <3>3, <3>4
  <2>14. PICK b \in Seq(Byte) : b = Before  BY <1>1, BeforeType
  <2>15. Holds(file, 0, b \o (w \o g)) /\ at' = Len(b \o (w \o g))
    BY <1>1, <2>13, <2>14, Advance
  <2>16. Before' = Before  BY <2>1 DEF Before, Opening, OriginText
  <2>17. Keys' = Keys  BY <2>1 DEF Keys
  <2>18. at' \in Nat  BY <2>9
  <2>19. TypeOK'  BY <1>1, <2>1, <2>10, <2>18 DEF TypeOK, Fields
  <2>20. Begun' /\ OneRecordEach' /\ OnlyWritten'
    BY <2>1 DEF IInv, Begun, OnlyWritten, OneRecordEach
  <2>21. DraftIsNew'  BY <2>8, <2>10, <2>17 DEF DraftIsNew
  <2>22. ReadSoFar'  BY <2>1, <2>12, <2>14, <2>15, <2>16 DEF ReadSoFar, Behind
  <2>23. Arrives'
    <3>. SUFFICES ASSUME file = Written(bundle) PROVE Arrives'
      BY <2>1 DEF Arrives
    <3>1. v = Sent.path /\ p = Sent.part  BY <1>2, <2>5, <2>7
    <3>2. Sent' = Sent  BY <2>1 DEF Sent
    <3>. QED  BY <1>1, <2>1, <2>10, <3>1, <3>2 DEF Arrives, Fields
  <2>. QED  BY <2>19, <2>20, <2>21, <2>22, <2>23 DEF IInv
<1>. QED  BY <1>3, <1>4

LEMMA ReadExpectedKeeps == ASSUME IInv, ReadExpected PROVE IInv'
<1>. DEFINE expected == ReadOptional(at, ReadHash(at + 1))
<1>1. /\ file \in Seq(Byte) /\ TypeOK /\ at \in Nat /\ pc = "expected" /\ left > 0
      /\ Behind(Before \o KeyText(draft)) /\ Arrives /\ ReadSoFar /\ DraftIsNew
      /\ draft.path \in Seq(Utf8) /\ draft.part \in Parts
  BY DEF IInv, TypeOK, ReadSoFar, ReadExpected
<1>2. ASSUME file = Written(bundle)
      PROVE  /\ expected # None /\ expected.value = Sent.expected
             /\ draft.path = Sent.path /\ draft.part = Sent.part
  <2>1. draft.path = Sent.path /\ draft.part = Sent.part  BY <1>1, <1>2 DEF Arrives
  <2>2. Behind(Before \o KeyText(Sent))
    <3>1. KeyText(draft) = KeyText(Sent)  BY <2>1 DEF KeyText
    <3>. QED  BY <1>1, <3>1
  <2>3. Sent \in Record /\ Holds(file, at, ExpectedText(Sent))
    BY <1>1, <1>2, <2>2, SentRecordStands DEF Fields
  <2>4. Sent.expected \in [1 .. HashSize -> Byte] \cup {None}  BY <2>3 DEF Record
  <2>5. expected # None /\ expected = [value |-> Sent.expected, at |-> at + Len(ExpectedText(Sent))]
    BY <1>1, <2>3, <2>4, ExpectedFinds DEF ExpectedText
  <2>. QED  BY <2>1, <2>5
<1>3. CASE expected = None
  <2>1. Fail  BY <1>3 DEF ReadExpected
  <2>. HIDE DEF expected
  <2>. QED  BY <1>2, <1>3, <2>1, FailKeeps
<1>4. CASE expected # None
  <2>1. /\ pc' = "replacement" /\ at' = expected.at
        /\ draft' = [path |-> draft.path, part |-> draft.part, expected |-> expected.value]
        /\ UNCHANGED <<bundle, file, read, left>>
    BY <1>4 DEF ReadExpected
  <2>2. PICK v \in [1 .. HashSize -> Byte] \cup {None} :
          /\ Holds(file, at, WriteOptional(v, v))
          /\ expected = [value |-> v, at |-> at + Len(WriteOptional(v, v))]
    BY <1>1, <1>4, ExpectedGives
  <2>3. expected.value = v /\ expected.at = at + Len(WriteOptional(v, v))  BY <2>2
  <2>. HIDE DEF expected
  <2>4. draft'.path = draft.path /\ draft'.part = draft.part /\ draft'.expected = v
    BY <2>1, <2>3
  <2>5. PICK e \in Seq(Byte) : e = WriteOptional(v, v)
    <3>1. v # None => v \in Seq(Byte)  BY HashIsBytes
    <3>. QED  BY <3>1, WriteOptionalType
  <2>6. ExpectedText(draft') = e  BY <2>4, <2>5 DEF ExpectedText
  <2>7. KeyText(draft') = KeyText(draft)  BY <2>4 DEF KeyText
  <2>8. PICK t \in Seq(Byte) : t = Before \o KeyText(draft)
    <3>1. Before \in Seq(Byte)  BY <1>1, BeforeType
    <3>2. KeyText(draft) \in Seq(Byte)  BY <1>1, TextIsBytes, KeyTextType
    <3>. QED  BY <3>1, <3>2, ConcatProperties
  <2>9. Holds(file, at, e) /\ at' = at + Len(e)  BY <2>1, <2>2, <2>3, <2>5
  <2>10. Holds(file, 0, t \o e) /\ at' = Len(t \o e)
    BY <1>1, <2>8, <2>9, Advance
  <2>11. Before' = Before  BY <2>1 DEF Before, Opening, OriginText
  <2>12. Keys' = Keys  BY <2>1 DEF Keys
  <2>13. at' \in Nat
    <3>1. Len(e) \in Nat  BY LenProperties
    <3>. QED  BY <1>1, <2>9, <3>1
  <2>14. TypeOK'  BY <1>1, <2>1, <2>4, <2>13 DEF TypeOK, Fields
  <2>15. Begun' /\ OneRecordEach' /\ OnlyWritten'
    BY <2>1 DEF IInv, Begun, OnlyWritten, OneRecordEach
  <2>16. DraftIsNew'  BY <1>1, <2>4, <2>12 DEF DraftIsNew
  <2>17. ReadSoFar'  BY <2>1, <2>6, <2>7, <2>8, <2>10, <2>11 DEF ReadSoFar, Behind
  <2>18. Arrives'
    <3>. SUFFICES ASSUME file = Written(bundle) PROVE Arrives'
      BY <2>1 DEF Arrives
    <3>1. v = Sent.expected /\ draft.path = Sent.path /\ draft.part = Sent.part
      BY <1>2, <2>3
    <3>2. Sent' = Sent  BY <2>1 DEF Sent
    <3>. QED  BY <1>1, <2>1, <2>4, <3>1, <3>2 DEF Arrives, Fields
  <2>. QED  BY <2>14, <2>15, <2>16, <2>17, <2>18 DEF IInv
<1>. QED  BY <1>3, <1>4

(* Texts can be put together in any order. *)
Join(s, t) == s \o t

LEMMA JoinAssociative ==
  ASSUME NEW s \in Seq(Byte), NEW t \in Seq(Byte), NEW u \in Seq(Byte)
  PROVE  Join(s, t) \in Seq(Byte) /\ Join(Join(s, t), u) = Join(s, Join(t, u))
<1>1. s \o t \in Seq(Byte)  BY ConcatProperties
<1>2. (s \o t) \o u = s \o (t \o u)  BY ConcatAssociative
<1>. QED  BY <1>1, <1>2, Zenon DEF Join

Regroups(h, b, k, e, r) == h \o (b \o ((k \o e) \o r)) = (((h \o b) \o k) \o e) \o r

LEMMA FiveTexts ==
  ASSUME NEW h \in Seq(Byte), NEW b \in Seq(Byte), NEW k \in Seq(Byte), NEW e \in Seq(Byte),
         NEW r \in Seq(Byte)
  PROVE  Regroups(h, b, k, e, r)
<1>1. PICK a, c : a = Join(k, e) /\ c = Join(h, b)  OBVIOUS
<1>2. a \in Seq(Byte) /\ c \in Seq(Byte)  BY <1>1, JoinAssociative
<1>3. Join(a, r) \in Seq(Byte)  BY <1>2, JoinAssociative
<1>4. Join(h, Join(b, Join(a, r))) = Join(c, Join(a, r))  BY <1>1, <1>3, JoinAssociative
<1>5. Join(c, Join(a, r)) = Join(Join(c, a), r)  BY <1>2, JoinAssociative
<1>6. Join(c, a) = Join(Join(c, k), e)  BY <1>1, <1>2, JoinAssociative
<1>7. Join(h, Join(b, Join(Join(k, e), r))) = Join(Join(Join(Join(h, b), k), e), r)
  BY <1>1, <1>4, <1>5, <1>6
<1>. QED  BY <1>7, Zenon DEF Join, Regroups

LEMMA SameRecord ==
  ASSUME NEW r \in Record, NEW s \in Record, r.path = s.path, r.part = s.part,
         r.expected = s.expected, r.replacement = s.replacement
  PROVE  r = s
<1>1. \A x \in Record :
        x = [path |-> x.path, part |-> x.part, expected |-> x.expected, replacement |-> x.replacement]
  BY DEF Record
<1>. QED  BY <1>1, Zenon

LEMMA SameBundle ==
  ASSUME NEW a \in Bundle, NEW b \in Bundle, a.origin = b.origin, a.records = b.records
  PROVE  a = b
<1>1. \A x \in Bundle : x = [origin |-> x.origin, records |-> x.records]  BY DEF Bundle
<1>. QED  BY <1>1, Zenon

(* A record for a part that no other one is for. *)
LEMMA OneMore ==
  ASSUME NEW t \in Seq(Record), NEW r \in Record, OneEach(t),
         <<r.path, r.part>> \notin {<<t[k].path, t[k].part>> : k \in 1 .. Len(t)}
  PROVE  OneEach(Append(t, r))
<1>1. PICK n \in Nat : n = Len(t)  BY LenProperties
<1>2. PICK u : u = Append(t, r) /\ Len(u) = n + 1 /\ (\A k \in 1 .. n : u[k] = t[k]) /\ u[n + 1] = r
  BY <1>1, AppendProperties
<1>3. \A k \in 1 .. n : ~(t[k].path = r.path /\ t[k].part = r.part)  BY <1>1
<1>4. ASSUME NEW j \in 1 .. n + 1, NEW k \in 1 .. n + 1, u[j].path = u[k].path, u[j].part = u[k].part
      PROVE  j = k
  <2>1. CASE j \in 1 .. n /\ k \in 1 .. n
    BY <1>1, <1>2, <1>4, <2>1 DEF OneEach
  <2>2. CASE j = n + 1 /\ k = n + 1  BY <2>2
  <2>3. CASE j \in 1 .. n /\ k = n + 1  BY <1>2, <1>3, <1>4, <2>3
  <2>4. CASE j = n + 1 /\ k \in 1 .. n  BY <1>2, <1>3, <1>4, <2>4
  <2>. QED  BY <2>1, <2>2, <2>3, <2>4
<1>. QED  BY <1>2, <1>4 DEF OneEach

LEMMA ReadReplacementKeeps == ASSUME IInv, ReadReplacement PROVE IInv'
<1>. DEFINE replacement == ReadOptional(at, ReadBytes(at + 1))
<1>1. /\ file \in Seq(Byte) /\ TypeOK /\ at \in Nat /\ pc = "replacement" /\ left > 0 /\ left \in Nat
      /\ Behind((Before \o KeyText(draft)) \o ExpectedText(draft)) /\ Arrives /\ ReadSoFar
      /\ DraftIsNew /\ draft.path \in Seq(Utf8) /\ draft.part \in Parts
      /\ draft.expected \in [1 .. HashSize -> Byte] \cup {None} /\ read \in Bundle
  BY DEF IInv, TypeOK, ReadSoFar, ReadReplacement
<1>2. ASSUME file = Written(bundle)
      PROVE  /\ replacement # None /\ replacement.value = Sent.replacement
             /\ draft.path = Sent.path /\ draft.part = Sent.part /\ draft.expected = Sent.expected
             /\ Sent \in Record
  <2>1. draft.path = Sent.path /\ draft.part = Sent.part /\ draft.expected = Sent.expected
    BY <1>1, <1>2 DEF Arrives
  <2>2. Behind((Before \o KeyText(Sent)) \o ExpectedText(Sent))
    <3>1. KeyText(draft) = KeyText(Sent) /\ ExpectedText(draft) = ExpectedText(Sent)
      BY <2>1 DEF KeyText, ExpectedText
    <3>. QED  BY <1>1, <3>1
  <2>3. /\ Sent \in Record /\ Holds(file, at, ReplacementText(Sent))
        /\ Len(read.records) + 1 \in 1 .. Len(bundle.records)
    BY <1>1, <1>2, <2>2, SentRecordStands DEF Fields
  <2>4. Sent.replacement \in Seq(Byte) \cup {None}  BY <2>3 DEF Record
  <2>5. Sent.replacement # None => Len(Sent.replacement) <= MaxWord
    BY <1>1, <1>2, <2>3, SentFits DEF Sent
  <2>6. /\ replacement # None
        /\ replacement = [value |-> Sent.replacement, at |-> at + Len(ReplacementText(Sent))]
    BY <1>1, <2>3, <2>4, <2>5, ReplacementFinds DEF ReplacementText
  <2>. QED  BY <2>1, <2>3, <2>6
<1>3. CASE replacement = None
  <2>1. Fail  BY <1>3 DEF ReadReplacement
  <2>. HIDE DEF replacement
  <2>. QED  BY <1>2, <1>3, <2>1, FailKeeps
<1>4. CASE replacement # None
  <2>1. PICK r :
          /\ r = [path |-> draft.path, part |-> draft.part,
                  expected |-> draft.expected, replacement |-> replacement.value]
          /\ pc' = "path" /\ at' = replacement.at
          /\ read' = [read EXCEPT !.records = Append(@, r)]
          /\ left' = left - 1 /\ UNCHANGED <<bundle, file>>
    BY <1>4 DEF ReadReplacement
  <2>2. PICK v \in Seq(Byte) \cup {None} :
          /\ Holds(file, at, WriteOptional(v, WriteBytes(v)))
          /\ replacement = [value |-> v, at |-> at + Len(WriteOptional(v, WriteBytes(v)))]
    BY <1>1, <1>4, ReplacementGives
  <2>3. replacement.value = v /\ replacement.at = at + Len(WriteOptional(v, WriteBytes(v)))
    BY <2>2
  <2>. HIDE DEF replacement
  <2>4. /\ r \in Record /\ r.path = draft.path /\ r.part = draft.part
        /\ r.expected = draft.expected /\ r.replacement = v
    BY <1>1, <2>1, <2>3 DEF Record
  <2>5. PICK t \in Seq(Record) : t = read.records  BY <1>1 DEF Bundle
  <2>6. PICK n \in Nat : n = Len(t)  BY LenProperties
  <2>7. PICK u \in Seq(Record) :
          /\ u = Append(t, r) /\ Len(u) = n + 1 /\ (\A k \in 1 .. n : u[k] = t[k]) /\ u[n + 1] = r
    <3>1. r \in Record  BY <2>4
    <3>. QED  BY <2>6, <3>1, AppendProperties
  <2>8. read' = [origin |-> read.origin, records |-> u]
    <3>1. read = [origin |-> read.origin, records |-> read.records]  BY <1>1 DEF Bundle
    <3>. QED  BY <2>1, <2>5, <2>7, <3>1
  <2>9. read'.origin = read.origin /\ read'.records = u /\ read' \in Bundle
    BY <1>1, <2>8 DEF Bundle
  <2>10. Len(read'.records) + left' = Len(read.records) + left /\ left' \in Nat
    <3>1. Len(read'.records) = n + 1 /\ Len(read.records) = n  BY <2>5, <2>6, <2>7, <2>9
    <3>2. left' = left - 1 /\ left > 0 /\ left \in Nat  BY <1>1, <2>1
    <3>. QED  BY <3>1, <3>2
  <2>11. Opening' = Opening
    <3>1. OriginText(read') = OriginText(read)  BY <2>9 DEF OriginText
    <3>2. Opening' = (Magic \o OriginText(read')) \o Word(Len(read'.records) + left')
      BY DEF Opening
    <3>. QED  BY <2>10, <3>1, <3>2 DEF Opening
  <2>12. PICK h \in Seq(Byte), b \in Seq(Byte) : h = Opening /\ b = WriteRecords(t) /\ Before = h \o b
    <3>1. Len(read.records) + left \in Nat  BY <1>1, <2>5, <2>6
    <3>2. Opening \in Seq(Byte)  BY <1>1, <3>1, BundleText DEF Opening
    <3>3. WriteRecords(t) \in Seq(Byte)  BY RecordsType
    <3>. QED  BY <2>5, <3>2, <3>3 DEF Before
  <2>13. PICK k \in Seq(Byte), e \in Seq(Byte), p \in Seq(Byte) :
           /\ k = KeyText(draft) /\ e = ExpectedText(draft)
           /\ p = WriteOptional(v, WriteBytes(v))
           /\ WriteRecord(r) = (k \o e) \o p
    <3>1. KeyText(r) = KeyText(draft) /\ ExpectedText(r) = ExpectedText(draft)
          /\ ReplacementText(r) = WriteOptional(v, WriteBytes(v))
      BY <2>4 DEF KeyText, ExpectedText, ReplacementText
    <3>. QED  BY <2>4, <3>1, RecordText
  <2>14. Before' = h \o (b \o ((k \o e) \o p))
    <3>1. WriteRecords(u) = b \o ((k \o e) \o p)  BY <2>4, <2>7, <2>12, <2>13, RecordsAppend
    <3>2. Before' = Opening' \o WriteRecords(read'.records)  BY DEF Before
    <3>. QED  BY <2>9, <2>11, <2>12, <3>1, <3>2
  <2>15. PICK x \in Seq(Byte) : x = ((h \o b) \o k) \o e
    <3>1. h \o b \in Seq(Byte)  BY ConcatProperties
    <3>2. (h \o b) \o k \in Seq(Byte)  BY <3>1, ConcatProperties
    <3>. QED  BY <3>2, ConcatProperties
  <2>16. Holds(file, at, p) /\ at' = at + Len(p)  BY <2>1, <2>2, <2>3, <2>13
  <2>17. Holds(file, 0, x \o p) /\ at' = Len(x \o p)
    <3>1. Behind(x)  BY <1>1, <2>12, <2>13, <2>15
    <3>2. Holds(file, 0, x \o p) /\ at + Len(p) = Len(x \o p)
      BY <1>1, <2>16, <3>1, Advance, Zenon
    <3>. QED  BY <2>16, <3>2
  <2>18. Before' = x \o p
    <3>1. Regroups(h, b, k, e, p)  BY FiveTexts
    <3>. QED  BY <2>14, <2>15, <3>1, Zenon DEF Regroups
  <2>19. at' \in Nat
    <3>1. Len(p) \in Nat  BY LenProperties
    <3>. QED  BY <1>1, <2>16, <3>1
  <2>20. TypeOK'  BY <1>1, <2>1, <2>9, <2>10, <2>19 DEF TypeOK, Fields
  <2>21. Begun' /\ DraftIsNew' /\ OnlyWritten'  BY <2>1 DEF Begun, DraftIsNew, OnlyWritten
  <2>22. OneRecordEach'
    <3>1. OneEach(t)  BY <2>5 DEF IInv, OneRecordEach
    <3>2. <<r.path, r.part>> \notin {<<t[i].path, t[i].part>> : i \in 1 .. Len(t)}
      BY <1>1, <2>4, <2>5 DEF DraftIsNew, Keys
    <3>3. OneEach(u)  BY <2>4, <2>7, <3>1, <3>2, OneMore
    <3>. QED  BY <2>9, <3>3 DEF OneRecordEach
  <2>23. ReadSoFar'  BY <2>1, <2>17, <2>18 DEF ReadSoFar, Behind
  <2>24. Arrives'
    <3>. SUFFICES ASSUME file = Written(bundle) PROVE Arrives'
      BY <2>1 DEF Arrives
    <3>1. /\ read.origin = bundle.origin /\ n + left = Len(bundle.records)
          /\ \A i \in 1 .. n : t[i] = bundle.records[i]
      BY <1>1, <2>5, <2>6 DEF Arrives, Fields
    <3>2. r = Sent
      <4>1. /\ Sent \in Record /\ r.path = Sent.path /\ r.part = Sent.part
            /\ r.expected = Sent.expected /\ r.replacement = Sent.replacement
        BY <1>2, <2>3, <2>4
      <4>. QED  BY <2>4, <4>1, SameRecord
    <3>3. Sent = bundle.records[n + 1]  BY <2>5, <2>6 DEF Sent
    <3>4. \A i \in 1 .. n + 1 : u[i] = bundle.records[i]
      <4>1. \A i \in 1 .. n + 1 : i \in 1 .. n \/ i = n + 1  OBVIOUS
      <4>. QED  BY <2>7, <3>1, <3>2, <3>3, <4>1
    <3>5. Len(read'.records) + left' = Len(bundle.records)  BY <2>5, <2>6, <2>10, <3>1
    <3>6. /\ pc' = "path" /\ bundle' = bundle /\ read'.origin = bundle.origin
          /\ \A i \in 1 .. Len(read'.records) : read'.records[i] = bundle.records[i]
      BY <2>1, <2>7, <2>9, <3>1, <3>4
    <3>. QED  BY <3>5, <3>6 DEF Arrives, Fields
  <2>. QED  BY <2>20, <2>21, <2>22, <2>23, <2>24 DEF IInv
<1>. QED  BY <1>3, <1>4

LEMMA FinishKeeps == ASSUME IInv, Finish PROVE IInv'
<1>1. /\ file \in Seq(Byte) /\ TypeOK /\ at \in Nat /\ pc = "path" /\ left = 0
      /\ Holds(file, 0, Before) /\ at = Len(Before) /\ Arrives /\ read \in Bundle
      /\ pc' = (IF at = Len(file) THEN "ok" ELSE "error")
      /\ UNCHANGED <<bundle, file, at, read, left, draft>>
  BY DEF IInv, TypeOK, ReadSoFar, Behind, Finish
<1>2. Before = Written(read) /\ Before \in Seq(Byte)
  <2>1. Len(read.records) \in Nat  BY <1>1, BundleText, LenProperties
  <2>2. Len(read.records) + left = Len(read.records)  BY <1>1, <2>1
  <2>3. Before = ((Magic \o OriginText(read)) \o Word(Len(read.records))) \o WriteRecords(read.records)
    BY <2>2 DEF Before, Opening
  <2>. QED  BY <1>1, <2>3, BundleText
<1>3. at = Len(file) => file = Written(read)
  <2>. HIDE DEF Holds
  <2>. QED  BY <1>1, <1>2, HoldsAll
<1>4. ASSUME file = Written(bundle) PROVE read = bundle
  <2>1. bundle \in Bundle  BY <1>1, SentType
  <2>2. PICK s \in Seq(Record), t \in Seq(Record) : s = bundle.records /\ t = read.records
    BY <1>1, <2>1, BundleText
  <2>3. PICK n \in Nat : n = Len(t)  BY LenProperties
  <2>4. read.origin = bundle.origin /\ n + left = Len(s) /\ \A i \in 1 .. n : t[i] = s[i]
    BY <1>1, <1>4, <2>2, <2>3 DEF Arrives, Fields
  <2>5. Len(s) = n  BY <1>1, <2>3, <2>4
  <2>6. t = s  BY <2>3, <2>4, <2>5, SeqEqual
  <2>. QED  BY <1>1, <2>1, <2>2, <2>4, <2>6, SameBundle
<1>5. file = Written(bundle) => at = Len(file)  BY <1>1, <1>2, <1>4
<1>6. TypeOK'  BY <1>1 DEF TypeOK, Fields
<1>7. Begun' /\ DraftIsNew' /\ ReadSoFar'  BY <1>1 DEF Begun, DraftIsNew, ReadSoFar
<1>8. OneRecordEach'  BY <1>1 DEF IInv, OneRecordEach
<1>9. Arrives'  BY <1>1, <1>4, <1>5 DEF Arrives, Fields
<1>10. OnlyWritten'  BY <1>1, <1>3 DEF OnlyWritten
<1>. QED  BY <1>6, <1>7, <1>8, <1>9, <1>10 DEF IInv

-----------------------------------------------------------------------------
(* The theorems *)

LEMMA InitIInv == Init => IInv
<1>. SUFFICES ASSUME Init PROVE IInv  OBVIOUS
<1>1. /\ bundle \in Bundles /\ file = None /\ pc = "write" /\ at = 0 /\ left = 0 /\ read = Nothing
  BY DEF Init
<1>2. read \in Bundle /\ read.records = << >>
  <2>1. << >> \in Seq(Record)  OBVIOUS
  <2>. QED  BY <1>1, <2>1 DEF Nothing, Bundle
<1>3. TypeOK  BY <1>1, <1>2 DEF TypeOK, Fields
<1>4. OneRecordEach  BY <1>2 DEF OneRecordEach, OneEach
<1>5. Begun /\ DraftIsNew /\ ReadSoFar /\ Arrives /\ OnlyWritten
  BY <1>1 DEF Begun, DraftIsNew, ReadSoFar, Arrives, OnlyWritten, Fields
<1>. QED  BY <1>3, <1>4, <1>5 DEF IInv

LEMMA NextIInv == IInv /\ [Next]_vars => IInv'
<1>. SUFFICES ASSUME IInv, [Next]_vars PROVE IInv'  OBVIOUS
<1>1. ASSUME UNCHANGED vars PROVE IInv'
  BY <1>1 DEF vars, IInv, TypeOK, Begun, OneRecordEach, DraftIsNew, Keys, ReadSoFar, Behind,
              Before, Opening, OriginText, KeyText, ExpectedText, Arrives, Sent, OnlyWritten
<1>. QED
  BY <1>1, WriteKeeps, WriteFailsKeeps, DamageKeeps, ReadMagicKeeps, ReadOriginKeeps, ReadCountKeeps,
     ReadKeyKeeps, ReadExpectedKeeps, ReadReplacementKeeps, FinishKeeps
  DEF Next

LEMMA Invariant == Spec => []IInv
BY InitIInv, NextIInv, PTL DEF Spec

(* Whatever happened to a patch file, parse_patch_bundle accepts it only when it is, byte for
   byte, what write_patch_bundle makes of the bundle that was read. *)
THEOREM OnlyWrittenIsAccepted == Spec => []OnlyWritten
<1>1. IInv => OnlyWritten  BY DEF IInv
<1>. QED  BY <1>1, Invariant, PTL

(* A patch that arrives as it was sent is never refused, and says what it said: every length
   that write_patch_bundle lets through is read as the same number. *)
THEOREM PatchIsUnderstood == Spec => []Understood
<1>1. IInv => Understood
  <2>. SUFFICES ASSUME IInv, file = Written(bundle) PROVE pc # "error" /\ (pc = "ok" => read = bundle)
    BY DEF Understood
  <2>. QED  BY DEF IInv, Arrives
<1>. QED  BY <1>1, Invariant, PTL

(* However the bytes of a patch file came about, parse_patch_bundle never holds two records
   for one part of a module. *)
THEOREM RecordsAreUnique == Spec => []OneRecordEach
<1>1. IInv => OneRecordEach  BY DEF IInv
<1>. QED  BY <1>1, Invariant, PTL

-----------------------------------------------------------------------------
(* Sidecars: pieces and words *)

LEMMA SameWord ==
  /\ \A n : Word(n) = Word(n)
  /\ \A b : Number(b) = Number(b)
  /\ MaxWord = MaxWord
  /\ Byte = Byte
BY Zenon DEF Word, Word, Number, Number, MaxWord, MaxWord, Byte, Byte

LEMMA SameTake ==
  ASSUME NEW f, NEW p, NEW n
  PROVE  Take(f, p, n) = Take(f, p, n)
BY Zenon DEF Take, Take

LEMMA SameCounted ==
  ASSUME NEW f, NEW p, NEW n
  PROVE  TakeCounted(f, p, n) = TakeCounted(f, p, n)
BY Zenon, SameTake, SameWord DEF TakeCounted, TakeCounted

(* What Start computes. *)
LEMMA StartSums ==
  ASSUME NEW l \in Seq(Nat)
  PROVE  \E s \in [0 .. Len(l) -> Nat] :
           /\ s[0] = 0
           /\ \A k \in 1 .. Len(l) : s[k] = s[k - 1] + l[k]
           /\ \A k : Start(l, k) = s[k - 1]
<1>. DEFINE n == Len(l)
            Of(s) == s = [i \in 0 .. n |-> IF i = 0 THEN 0 ELSE s[i - 1] + l[i]]
<1>1. n \in Nat /\ \A k \in 1 .. n : l[k] \in Nat  BY LenProperties, ElementOfSeq
<1>. HIDE DEF n
<1>2. \E s : Of(s)
  <2>. DEFINE step == [k \in 1 .. n |-> [m \in Nat |-> m + l[k]]]
  <2>1. step \in [1 .. n -> [Nat -> Nat]]  BY <1>1
  <2>2. \A k \in 1 .. n, m \in Nat : step[k][m] = m + l[k]  OBVIOUS
  <2>. HIDE DEF step
  <2>3. PICK s \in [0 .. n -> Nat] : s[0] = 0 /\ \A k \in 1 .. n : s[k] = step[k][s[k - 1]]
    <3>1. 0 \in Nat  OBVIOUS
    <3>2. \E s \in [0 .. n -> Nat] : Follows(s, n, 0, step)
      BY <1>1, <2>1, <3>1, Recursion, Zenon
    <3>. QED  BY <3>2 DEF Follows
  <2>4. \A k \in 0 .. n : s[k] = IF k = 0 THEN 0 ELSE s[k - 1] + l[k]
    <3>1. \A k \in 0 .. n : k # 0 => k \in 1 .. n /\ s[k - 1] \in Nat  BY <1>1
    <3>. QED  BY <2>2, <2>3, <3>1
  <2>5. s = [k \in 0 .. n |-> s[k]]  OBVIOUS
  <2>. QED  BY <2>4, <2>5
<1>3. PICK s : s = CHOOSE g : Of(g)  OBVIOUS
<1>4. Of(s)
  <2>. HIDE DEF Of
  <2>. QED  BY <1>2, <1>3
<1>5. \A k : Start(l, k) = s[k - 1]  BY <1>3, Zenon DEF Start, n
<1>6. s[0] = 0 /\ \A k \in 1 .. n : s[k] = s[k - 1] + l[k]
  <2>1. \A k \in 0 .. n : s[k] = IF k = 0 THEN 0 ELSE s[k - 1] + l[k]  BY <1>4
  <2>2. 0 \in 0 .. n /\ \A k \in 1 .. n : k \in 0 .. n /\ k # 0  BY <1>1
  <2>. HIDE DEF Of
  <2>. QED  BY <2>1, <2>2
<1>7. \A k \in 0 .. n : s[k] \in Nat
  <2>. DEFINE Good == {k \in 0 .. n : s[k] \in Nat}
  <2>1. 0 \in Good  BY <1>1, <1>6
  <2>2. ASSUME NEW k \in 1 .. n, k - 1 \in Good PROVE k \in Good
    <3>1. s[k - 1] \in Nat /\ l[k] \in Nat  BY <1>1, <2>2
    <3>2. s[k] \in Nat  BY <1>6, <3>1
    <3>. QED  BY <1>1, <3>2
  <2>. HIDE DEF Good
  <2>3. \A k \in 0 .. n : k \in Good  BY <1>1, <2>1, <2>2, UpTo
  <2>. QED  BY <2>3 DEF Good
<1>8. s \in [0 .. n -> Nat]
  <2>1. s = [k \in 0 .. n |-> s[k]]  BY <1>4
  <2>. QED  BY <1>7, <2>1
<1>. QED  BY <1>5, <1>6, <1>8 DEF n

LEMMA Starts ==
  ASSUME NEW l \in Seq(Nat)
  PROVE  /\ Start(l, 1) = 0
         /\ \A k \in 1 .. Len(l) : Start(l, k + 1) = Start(l, k) + l[k]
         /\ \A k \in 1 .. Len(l) + 1 : Start(l, k) \in Nat
         /\ Total(l) = Start(l, Len(l) + 1)
<1>1. PICK n \in Nat : n = Len(l)  BY LenProperties
<1>2. PICK s \in [0 .. n -> Nat] :
        /\ s[0] = 0
        /\ \A k \in 1 .. n : s[k] = s[k - 1] + l[k]
        /\ \A k : Start(l, k) = s[k - 1]
  BY <1>1, StartSums
<1>3. Start(l, 1) = 0
  <2>1. 1 - 1 = 0  OBVIOUS
  <2>. QED  BY <1>2, <2>1
<1>4. \A k \in 1 .. n : Start(l, k + 1) = Start(l, k) + l[k]
  <2>1. \A k \in 1 .. n : (k + 1) - 1 = k  OBVIOUS
  <2>. QED  BY <1>2, <2>1
<1>5. \A k \in 1 .. n + 1 : Start(l, k) \in Nat
  <2>1. \A k \in 1 .. n + 1 : k - 1 \in 0 .. n  OBVIOUS
  <2>. QED  BY <1>2, <2>1
<1>. QED  BY <1>1, <1>3, <1>4, <1>5 DEF Total

(* Each piece begins behind the ones before it. *)
LEMMA StartsGrow ==
  ASSUME NEW l \in Seq(Nat), NEW j \in 1 .. Len(l) + 1, NEW k \in 1 .. Len(l) + 1, j <= k
  PROVE  Start(l, j) <= Start(l, k)
<1>1. PICK n \in Nat : n = Len(l)  BY LenProperties
<1>2. PICK S : S = [i \in 1 .. n + 1 |-> Start(l, i)]  OBVIOUS
<1>3. \A i \in 1 .. n + 1 : S[i] \in Nat  BY <1>1, <1>2, Starts
<1>4. \A i \in 1 .. n : S[i] <= S[i + 1]
  <2>. SUFFICES ASSUME NEW i \in 1 .. n PROVE S[i] <= S[i + 1]  OBVIOUS
  <2>1. l[i] \in Nat  BY <1>1, ElementOfSeq
  <2>2. i \in 1 .. n + 1 /\ i + 1 \in 1 .. n + 1  OBVIOUS
  <2>3. S[i + 1] = S[i] + l[i]  BY <1>1, <1>2, <2>2, Starts
  <2>. QED  BY <1>3, <2>1, <2>2, <2>3
<1>. DEFINE Good == {d \in 0 .. n : j + d \in 1 .. n + 1 => S[j] <= S[j + d]}
<1>5. 0 \in Good  BY <1>1, <1>3
<1>6. ASSUME NEW d \in 1 .. n, d - 1 \in Good PROVE d \in Good
  <2>. SUFFICES ASSUME j + d \in 1 .. n + 1 PROVE S[j] <= S[j + d]  OBVIOUS
  <2>1. /\ j + (d - 1) \in 1 .. n /\ j + (d - 1) \in 1 .. n + 1
        /\ (j + (d - 1)) + 1 = j + d /\ j \in 1 .. n + 1
    BY <1>1
  <2>2. S[j] <= S[j + (d - 1)]  BY <1>6, <2>1
  <2>3. S[j + (d - 1)] <= S[j + d]  BY <1>4, <2>1
  <2>4. S[j] \in Nat /\ S[j + (d - 1)] \in Nat /\ S[j + d] \in Nat  BY <1>3, <2>1
  <2>. QED  BY <2>2, <2>3, <2>4
<1>. HIDE DEF Good
<1>7. \A d \in 0 .. n : d \in Good  BY <1>5, <1>6, UpTo
<1>8. k - j \in 0 .. n /\ j + (k - j) = k /\ k \in 1 .. n + 1  BY <1>1
<1>9. S[j] <= S[k]  BY <1>7, <1>8 DEF Good
<1>. QED  BY <1>1, <1>2, <1>9

(* Pieces no larger than r are together no larger than as many times r. *)
LEMMA TotalBounded ==
  ASSUME NEW l \in Seq(Nat), NEW r \in Nat, \A k \in 1 .. Len(l) : l[k] <= r
  PROVE  Total(l) \in Nat /\ Total(l) <= r * Len(l)
<1>1. PICK n \in Nat : n = Len(l)  BY LenProperties
<1>. DEFINE Good == {d \in 0 .. n : Start(l, d + 1) <= r * d}
<1>2. 0 \in Good
  <2>1. r * 0 = 0 /\ 0 + 1 = 1  OBVIOUS
  <2>. QED  BY <1>1, <2>1, Starts
<1>3. ASSUME NEW d \in 1 .. n, d - 1 \in Good PROVE d \in Good
  <2>1. Start(l, d) <= r * (d - 1)
    <3>1. (d - 1) + 1 = d  OBVIOUS
    <3>. QED  BY <1>3, <3>1
  <2>2. Start(l, d + 1) = Start(l, d) + l[d]  BY <1>1, Starts
  <2>3. l[d] \in Nat /\ l[d] <= r /\ Start(l, d) \in Nat  BY <1>1, ElementOfSeq, Starts
  <2>4. r * (d - 1) + r = r * d  BY SMT
  <2>5. r * (d - 1) \in Nat /\ r * d \in Nat  OBVIOUS
  <2>. HIDE DEF Good
  <2>6. Start(l, d + 1) <= r * d  BY <2>1, <2>2, <2>3, <2>4, <2>5
  <2>. QED  BY <2>6 DEF Good
<1>. HIDE DEF Good
<1>4. \A d \in 0 .. n : d \in Good  BY <1>2, <1>3, UpTo
<1>5. n \in 0 .. n /\ n + 1 \in 1 .. n + 1  OBVIOUS
<1>6. Start(l, n + 1) <= r * n  BY <1>4, <1>5 DEF Good
<1>. QED  BY <1>1, <1>5, <1>6, Starts

(* The lengths of some texts. *)
Lengths(seqs) == [k \in DOMAIN seqs |-> Len(seqs[k])]

LEMMA LengthsType ==
  ASSUME NEW S, NEW seqs \in Seq(Seq(S))
  PROVE  /\ Lengths(seqs) \in Seq(Nat) /\ Len(Lengths(seqs)) = Len(seqs)
         /\ DOMAIN Lengths(seqs) = DOMAIN seqs /\ DOMAIN seqs = 1 .. Len(seqs)
         /\ \A k \in 1 .. Len(seqs) : Lengths(seqs)[k] = Len(seqs[k])
<1>1. PICK n \in Nat : n = Len(seqs) /\ DOMAIN seqs = 1 .. n  BY LenProperties
<1>2. \A k \in 1 .. n : Len(seqs[k]) \in Nat
  <2>1. \A k \in 1 .. n : seqs[k] \in Seq(S)  BY <1>1, ElementOfSeq
  <2>. QED  BY <2>1, LenProperties
<1>3. Lengths(seqs) = [k \in 1 .. n |-> Len(seqs[k])]  BY <1>1 DEF Lengths
<1>. QED  BY <1>1, <1>2, <1>3

(* Texts one behind the other, up to the k-th. *)
FlatUpTo(S, seqs, f, k) ==
  /\ f \in Seq(S) /\ Len(f) = Start(Lengths(seqs), k + 1)
  /\ \A j \in 1 .. k : \A i \in 1 .. Len(seqs[j]) :
       f[Start(Lengths(seqs), j) + i] = seqs[j][i]

LEMMA FlatNext ==
  ASSUME NEW S, NEW seqs \in Seq(Seq(S)), NEW k \in 1 .. Len(seqs), NEW f, FlatUpTo(S, seqs, f, k - 1)
  PROVE  FlatUpTo(S, seqs, f \o seqs[k], k)
<1>1. PICK n \in Nat : n = Len(seqs)  BY LenProperties
<1>2. PICK l \in Seq(Nat) : /\ l = Lengths(seqs) /\ Len(l) = n
                            /\ \A j \in 1 .. n : l[j] = Len(seqs[j])
  BY <1>1, LengthsType
<1>3. PICK g \in Seq(S) : g = seqs[k]  BY ElementOfSeq
<1>4. PICK a \in Nat, b \in Nat : a = Len(f) /\ b = Len(g)  BY LenProperties DEF FlatUpTo
<1>5. f \in Seq(S) /\ a = Start(l, k)
  <2>1. (k - 1) + 1 = k  BY <1>1
  <2>. QED  BY <1>2, <1>4, <2>1 DEF FlatUpTo
<1>6. PICK h : h = f \o g  OBVIOUS
<1>7. h \in Seq(S) /\ Len(h) = a + b /\ \A i \in 1 .. a + b : h[i] = IF i <= a THEN f[i] ELSE g[i - a]
  <2>1. f \in Seq(S) /\ g \in Seq(S) /\ Len(f) = a /\ Len(g) = b  BY <1>3, <1>4, <1>5
  <2>2. /\ f \o g \in Seq(S) /\ Len(f \o g) = Len(f) + Len(g)
        /\ \A i \in 1 .. Len(f) + Len(g) :
             (f \o g)[i] = IF i <= Len(f) THEN f[i] ELSE g[i - Len(f)]
    BY <2>1, ConcatProperties
  <2>. QED  BY <1>6, <2>1, <2>2
<1>8. Len(h) = Start(l, k + 1)
  <2>1. l[k] = b  BY <1>1, <1>2, <1>3, <1>4
  <2>. QED  BY <1>1, <1>2, <1>5, <1>7, <2>1, Starts
<1>9. ASSUME NEW j \in 1 .. k, NEW i \in 1 .. Len(seqs[j])
      PROVE  h[Start(l, j) + i] = seqs[j][i]
  <2>1. CASE j = k
    <3>1. i \in 1 .. b  BY <1>3, <1>4, <2>1
    <3>2. a + i \in 1 .. a + b /\ ~(a + i <= a) /\ (a + i) - a = i  BY <3>1
    <3>3. h[a + i] = g[i]  BY <1>7, <3>2
    <3>. QED  BY <1>3, <1>5, <2>1, <3>3
  <2>2. CASE j # k
    <3>1. j \in 1 .. k - 1 /\ j \in 1 .. n /\ j + 1 \in 1 .. n + 1 /\ k \in 1 .. n + 1 /\ j + 1 <= k
          /\ j \in 1 .. n + 1
      BY <1>1, <2>2
    <3>2. f[Start(l, j) + i] = seqs[j][i]  BY <1>2, <3>1 DEF FlatUpTo
    <3>3. Start(l, j + 1) <= a  BY <1>1, <1>2, <1>5, <3>1, StartsGrow
    <3>4. Start(l, j + 1) = Start(l, j) + l[j]  BY <1>1, <1>2, <3>1, Starts
    <3>5. l[j] \in Nat /\ i \in 1 .. l[j]  BY <1>2, <3>1, ElementOfSeq
    <3>6. PICK p \in Nat : p = Start(l, j)  BY <1>1, <1>2, <3>1, Starts
    <3>7. p + i \in 1 .. a + b /\ p + i <= a
      <4>1. PICK m \in Nat : m = l[j]  BY <3>5
      <4>2. p + m <= a  BY <3>3, <3>4, <3>6, <4>1
      <4>3. i \in 1 .. m  BY <3>5, <4>1
      <4>. QED  BY <1>4, <4>2, <4>3
    <3>8. h[p + i] = f[p + i]  BY <1>7, <3>7
    <3>. QED  BY <3>2, <3>6, <3>8
  <2>. QED  BY <2>1, <2>2
<1>. QED  BY <1>2, <1>3, <1>6, <1>7, <1>8, <1>9 DEF FlatUpTo

(* u[k] is the first k texts, one behind the other. *)
Grows(u, seqs, n) == u[0] = << >> /\ \A k \in 1 .. n : u[k] = u[k - 1] \o seqs[k]

(* FlattenSeq joins one text after the other. *)
LEMMA FlatSteps ==
  ASSUME NEW S, NEW seqs \in Seq(Seq(S))
  PROVE  \E u \in [0 .. Len(seqs) -> Seq(S)] :
           Grows(u, seqs, Len(seqs)) /\ u[Len(seqs)] = FlattenSeq(seqs)
<1>. DEFINE n == Len(seqs)
            Of(f) == f = [i \in 1 .. n |-> IF i = 1 THEN seqs[i] ELSE f[i - 1] \o seqs[i]]
<1>1. n \in Nat /\ \A k \in 1 .. n : seqs[k] \in Seq(S)  BY LenProperties, ElementOfSeq
<1>. HIDE DEF n
<1>2. PICK u \in [0 .. n -> Seq(S)] : Grows(u, seqs, n)
  <2>. DEFINE step == [k \in 1 .. n |-> [x \in Seq(S) |-> x \o seqs[k]]]
  <2>1. step \in [1 .. n -> [Seq(S) -> Seq(S)]]
    <3>1. \A k \in 1 .. n, x \in Seq(S) : x \o seqs[k] \in Seq(S)  BY <1>1, ConcatProperties
    <3>. QED  BY <3>1
  <2>2. \A k \in 1 .. n, x \in Seq(S) : step[k][x] = x \o seqs[k]  OBVIOUS
  <2>. HIDE DEF step
  <2>3. PICK u \in [0 .. n -> Seq(S)] : u[0] = << >> /\ \A k \in 1 .. n : u[k] = step[k][u[k - 1]]
    <3>1. << >> \in Seq(S)  OBVIOUS
    <3>. HIDE DEF Of
    <3>2. \E u \in [0 .. n -> Seq(S)] : Follows(u, n, << >>, step)
      BY <1>1, <2>1, <3>1, Recursion, Zenon
    <3>. QED  BY <3>2 DEF Follows
  <2>4. \A k \in 1 .. n : u[k] = u[k - 1] \o seqs[k]
    <3>1. \A k \in 1 .. n : u[k - 1] \in Seq(S)  BY <1>1
    <3>. QED  BY <2>2, <2>3, <3>1
  <2>. QED  BY <2>3, <2>4 DEF Grows
<1>3. CASE n = 0
  <2>1. seqs = << >>  BY <1>3, EmptySeq DEF n
  <2>2. FlattenSeq(seqs) = << >>  BY <2>1 DEF FlattenSeq
  <2>. QED  BY <1>2, <1>3, <2>2 DEF Grows, n
<1>4. CASE n # 0
  <2>1. \A k \in 1 .. n : u[k] = IF k = 1 THEN seqs[k] ELSE u[k - 1] \o seqs[k]
    <3>1. 1 \in 1 .. n /\ 1 - 1 = 0  BY <1>1, <1>4
    <3>2. u[1] = << >> \o seqs[1]  BY <1>2, <3>1 DEF Grows
    <3>3. u[1] = seqs[1]  BY <1>1, <3>1, <3>2, ConcatEmptySeq
    <3>. QED  BY <1>2, <3>3 DEF Grows
  <2>2. \E f : Of(f)
    <3>. DEFINE f == [k \in 1 .. n |-> u[k]]
    <3>1. \A k \in 1 .. n : f[k] = IF k = 1 THEN seqs[k] ELSE f[k - 1] \o seqs[k]
      <4>1. \A k \in 1 .. n : k # 1 => k - 1 \in 1 .. n  BY <1>1
      <4>. QED  BY <2>1, <4>1
    <3>2. Of(f)
      <4>1. f = [k \in 1 .. n |-> f[k]]  OBVIOUS
      <4>. HIDE DEF f
      <4>. QED  BY <3>1, <4>1
    <3>. HIDE DEF Of, f
    <3>. QED  BY <3>2
  <2>3. PICK f : f = CHOOSE g : Of(g)  OBVIOUS
  <2>4. Of(f)
    <3>. HIDE DEF Of
    <3>. QED  BY <2>2, <2>3
  <2>5. FlattenSeq(seqs) = f[n]  BY <1>4, <2>3 DEF FlattenSeq, n
  <2>6. \A k \in 1 .. n : f[k] = IF k = 1 THEN seqs[k] ELSE f[k - 1] \o seqs[k]  BY <2>4
  <2>. DEFINE Good == {k \in 0 .. n : k # 0 => f[k] = u[k]}
  <2>7. 0 \in Good  BY <1>1
  <2>8. ASSUME NEW k \in 1 .. n, k - 1 \in Good PROVE k \in Good
    <3>1. k = 1 \/ f[k - 1] = u[k - 1]  BY <2>8
    <3>. QED  BY <2>1, <2>6, <3>1
  <2>. HIDE DEF Good
  <2>9. \A k \in 0 .. n : k \in Good  BY <1>1, <2>7, <2>8, UpTo
  <2>10. n \in 0 .. n  BY <1>1
  <2>. QED  BY <1>2, <1>4, <2>5, <2>9, <2>10 DEF Good, n
<1>. QED  BY <1>3, <1>4

(* What FlattenSeq computes. *)
LEMMA FlatAll ==
  ASSUME NEW S, NEW seqs \in Seq(Seq(S))
  PROVE  FlatUpTo(S, seqs, FlattenSeq(seqs), Len(seqs))
<1>1. PICK n \in Nat : n = Len(seqs)  BY LenProperties
<1>2. PICK u \in [0 .. n -> Seq(S)] : Grows(u, seqs, n) /\ u[n] = FlattenSeq(seqs)
  <2>1. \E u \in [0 .. Len(seqs) -> Seq(S)] :
          Grows(u, seqs, Len(seqs)) /\ u[Len(seqs)] = FlattenSeq(seqs)
    BY FlatSteps
  <2>. QED  BY <1>1, <2>1
<1>. DEFINE Good == {k \in 0 .. n : FlatUpTo(S, seqs, u[k], k)}
<1>3. 0 \in Good
  <2>1. << >> \in Seq(S) /\ Len(<< >>) = 0 /\ 1 .. 0 = {} /\ 0 + 1 = 1  OBVIOUS
  <2>2. Start(Lengths(seqs), 1) = 0  BY LengthsType, Starts
  <2>. QED  BY <1>2, <2>1, <2>2 DEF FlatUpTo, Grows
<1>4. ASSUME NEW k \in 1 .. n, k - 1 \in Good PROVE k \in Good
  <2>1. PICK v : v = u[k - 1] \o seqs[k]  OBVIOUS
  <2>2. FlatUpTo(S, seqs, v, k)  BY <1>1, <1>4, <2>1, FlatNext
  <2>3. v = u[k]  BY <1>2, <2>1 DEF Grows
  <2>4. FlatUpTo(S, seqs, u[k], k)  BY <2>2, <2>3
  <2>. QED  BY <2>4
<1>. HIDE DEF Good
<1>5. \A k \in 0 .. n : k \in Good  BY <1>3, <1>4, UpTo
<1>6. n \in Good  BY <1>5
<1>. QED  BY <1>1, <1>2, <1>6 DEF Good

(* The texts are found again between their offsets. *)
LEMMA PiecesOfFlat ==
  ASSUME NEW S, NEW seqs \in Seq(Seq(S))
  PROVE  /\ FlattenSeq(seqs) \in Seq(S)
         /\ Len(FlattenSeq(seqs)) = Total(Lengths(seqs))
         /\ Pieces(FlattenSeq(seqs), Lengths(seqs)) = seqs
<1>1. PICK n \in Nat : n = Len(seqs) /\ DOMAIN seqs = 1 .. n  BY LenProperties
<1>2. PICK l \in Seq(Nat) : /\ l = Lengths(seqs) /\ Len(l) = n /\ DOMAIN l = 1 .. n
                            /\ \A j \in 1 .. n : l[j] = Len(seqs[j])
  BY <1>1, LengthsType
<1>3. PICK f : f = FlattenSeq(seqs)  OBVIOUS
<1>4. /\ f \in Seq(S) /\ Len(f) = Start(l, n + 1)
      /\ \A j \in 1 .. n : \A i \in 1 .. Len(seqs[j]) : f[Start(l, j) + i] = seqs[j][i]
  <2>1. FlatUpTo(S, seqs, f, n)  BY <1>1, <1>3, FlatAll
  <2>. QED  BY <1>2, <2>1 DEF FlatUpTo
<1>5. ASSUME NEW k \in 1 .. n
      PROVE  SubSeq(f, Start(l, k) + 1, Start(l, k + 1)) = seqs[k]
  <2>1. PICK g \in Seq(S), m \in Nat : g = seqs[k] /\ m = Len(g)  BY <1>1, ElementOfSeq, LenProperties
  <2>2. k \in 1 .. n + 1 /\ k + 1 \in 1 .. n + 1 /\ n + 1 \in 1 .. n + 1 /\ k + 1 <= n + 1  OBVIOUS
  <2>3. PICK p \in Nat : p = Start(l, k)  BY <1>2, <2>2, Starts
  <2>4. Start(l, k + 1) = p + m  BY <1>2, <2>1, <2>3, Starts
  <2>5. p + m <= Len(f)  BY <1>2, <1>4, <2>2, <2>4, StartsGrow
  <2>6. \A i \in p + 1 .. p + m : f[i] \in S
    <3>1. \A i \in p + 1 .. p + m : i \in 1 .. Len(f)  BY <1>4, <2>5, LenProperties
    <3>. QED  BY <1>4, <3>1, ElementOfSeq
  <2>7. PICK h : h = SubSeq(f, p + 1, p + m)  OBVIOUS
  <2>8. /\ h \in Seq(S)
        /\ Len(h) = IF p + 1 <= p + m THEN (p + m) - (p + 1) + 1 ELSE 0
        /\ \A i \in 1 .. (p + m) - (p + 1) + 1 : h[i] = f[(p + 1) + i - 1]
    <3>1. p + 1 \in Int /\ p + m \in Int  OBVIOUS
    <3>. QED  BY <2>6, <2>7, <3>1, SubSeqProperties
  <2>9. Len(h) = m  BY <2>8
  <2>10. \A i \in 1 .. m : h[i] = g[i]
    <3>1. (p + m) - (p + 1) + 1 = m /\ \A i \in 1 .. m : (p + 1) + i - 1 = p + i  OBVIOUS
    <3>2. \A i \in 1 .. m : f[p + i] = g[i]  BY <1>4, <2>1, <2>3
    <3>. QED  BY <2>8, <3>1, <3>2
  <2>11. h = g  BY <2>1, <2>8, <2>9, <2>10, SeqEqual
  <2>. QED  BY <2>1, <2>3, <2>4, <2>7, <2>11
<1>6. Pieces(f, l) = [k \in 1 .. n |-> seqs[k]]  BY <1>2, <1>5 DEF Pieces
<1>7. [k \in 1 .. n |-> seqs[k]] = seqs  BY <1>1
<1>. QED  BY <1>2, <1>3, <1>4, <1>6, <1>7, Starts

(* Pieces of the same size. *)
LEMMA EvenStarts ==
  ASSUME NEW l \in Seq(Nat), NEW r \in Nat, \A k \in 1 .. Len(l) : l[k] = r
  PROVE  \A k \in 1 .. Len(l) + 1 : Start(l, k) = r * (k - 1)
<1>1. PICK n \in Nat : n = Len(l)  BY LenProperties
<1>. DEFINE Good == {d \in 0 .. n : Start(l, d + 1) = r * d}
<1>2. 0 \in Good
  <2>1. r * 0 = 0 /\ 0 + 1 = 1  OBVIOUS
  <2>. QED  BY <1>1, <2>1, Starts
<1>3. ASSUME NEW d \in 1 .. n, d - 1 \in Good PROVE d \in Good
  <2>1. Start(l, d) = r * (d - 1)
    <3>1. (d - 1) + 1 = d  OBVIOUS
    <3>. QED  BY <1>3, <3>1
  <2>2. Start(l, d + 1) = Start(l, d) + r  BY <1>1, Starts
  <2>3. r * (d - 1) + r = r * d  BY SMT
  <2>. HIDE DEF Good
  <2>4. Start(l, d + 1) = r * d  BY <2>1, <2>2, <2>3
  <2>. QED  BY <2>4 DEF Good
<1>. HIDE DEF Good
<1>4. \A d \in 0 .. n : d \in Good  BY <1>2, <1>3, UpTo
<1>5. ASSUME NEW k \in 1 .. n + 1 PROVE Start(l, k) = r * (k - 1)
  <2>1. k - 1 \in 0 .. n /\ (k - 1) + 1 = k  OBVIOUS
  <2>. QED  BY <1>4, <2>1 DEF Good
<1>. QED  BY <1>1, <1>5

(* Each text stands at its offset. *)
LEMMA FlatHolds ==
  ASSUME NEW seqs \in Seq(Seq(Byte)), NEW k \in 1 .. Len(seqs)
  PROVE  /\ Start(Lengths(seqs), k) \in Nat
         /\ Holds(FlattenSeq(seqs), Start(Lengths(seqs), k), seqs[k])
<1>1. PICK n \in Nat : n = Len(seqs)  BY LenProperties
<1>2. PICK l \in Seq(Nat) : /\ l = Lengths(seqs) /\ Len(l) = n
                            /\ \A j \in 1 .. n : l[j] = Len(seqs[j])
  BY <1>1, LengthsType
<1>3. PICK f \in Seq(Byte) : f = FlattenSeq(seqs)  BY PiecesOfFlat
<1>4. FlatUpTo(Byte, seqs, f, n)  BY <1>1, <1>3, FlatAll
<1>5. k + 1 \in 1 .. n + 1 /\ n + 1 \in 1 .. n + 1 /\ k + 1 <= n + 1 /\ k \in 1 .. n + 1  BY <1>1
<1>6. Start(l, k) \in Nat  BY <1>2, <1>5, Starts
<1>7. Start(l, k) + Len(seqs[k]) <= Len(f)
  <2>1. Start(l, k + 1) = Start(l, k) + Len(seqs[k])  BY <1>1, <1>2, Starts
  <2>2. Len(f) = Start(l, n + 1)  BY <1>2, <1>4 DEF FlatUpTo
  <2>3. Start(l, k + 1) <= Start(l, n + 1)  BY <1>2, <1>5, StartsGrow
  <2>. QED  BY <2>1, <2>2, <2>3
<1>8. \A i \in 1 .. Len(seqs[k]) : f[Start(l, k) + i] = seqs[k][i]
  BY <1>1, <1>2, <1>4 DEF FlatUpTo
<1>. QED  BY <1>2, <1>3, <1>6, <1>7, <1>8 DEF Holds

(* Text is left as it is. *)
LEMMA LossyText ==
  ASSUME NEW v \in Seq(Utf8)
  PROVE  Lossy(v) = v
<1>1. PICK n \in Nat : n = Len(v) /\ DOMAIN v = 1 .. n  BY LenProperties
<1>2. \A k \in 1 .. n : v[k] \in Utf8  BY <1>1, ElementOfSeq
<1>3. PICK ones : ones = [k \in 1 .. n |-> <<v[k]>>]  OBVIOUS
<1>4. ones \in Seq(Seq(Utf8)) /\ Len(ones) = n /\ \A k \in 1 .. n : ones[k] = <<v[k]>>
  <2>1. \A k \in 1 .. n : <<v[k]>> \in Seq(Utf8)  BY <1>2
  <2>. QED  BY <1>3, <2>1
<1>5. PICK l \in Seq(Nat) : l = Lengths(ones) /\ Len(l) = n /\ \A k \in 1 .. n : l[k] = 1
  <2>1. /\ Lengths(ones) \in Seq(Nat) /\ Len(Lengths(ones)) = n
        /\ \A k \in 1 .. n : Lengths(ones)[k] = Len(ones[k])
    BY <1>4, LengthsType
  <2>2. ASSUME NEW k \in 1 .. n PROVE Len(ones[k]) = 1
    <3>1. PICK x : x = v[k] /\ ones[k] = <<x>>  BY <1>4
    <3>2. Len(<<x>>) = 1  OBVIOUS
    <3>. QED  BY <3>1, <3>2
  <2>. QED  BY <2>1, <2>2
<1>6. \A k \in 1 .. n + 1 : Start(l, k) = k - 1
  <2>1. 1 \in Nat  OBVIOUS
  <2>2. \A k \in 1 .. n + 1 : Start(l, k) = 1 * (k - 1)  BY <1>5, <2>1, EvenStarts
  <2>. QED  BY <2>2
<1>7. PICK f : f = FlattenSeq(ones)  OBVIOUS
<1>8. f \in Seq(Utf8) /\ Len(f) = n /\ \A k \in 1 .. n : f[k] = v[k]
  <2>1. FlatUpTo(Utf8, ones, f, n)  BY <1>4, <1>7, FlatAll
  <2>2. f \in Seq(Utf8) /\ Len(f) = n
    <3>1. n + 1 \in 1 .. n + 1 /\ (n + 1) - 1 = n  OBVIOUS
    <3>. QED  BY <1>5, <1>6, <2>1, <3>1 DEF FlatUpTo
  <2>3. ASSUME NEW k \in 1 .. n PROVE f[k] = v[k]
    <3>1. ones[k] = <<v[k]>>  BY <1>4
    <3>2. 1 \in 1 .. Len(ones[k]) /\ ones[k][1] = v[k]  BY <3>1
    <3>3. f[Start(l, k) + 1] = ones[k][1]  BY <1>5, <2>1, <3>2 DEF FlatUpTo
    <3>4. k \in 1 .. n + 1 /\ (k - 1) + 1 = k  OBVIOUS
    <3>. QED  BY <1>6, <3>2, <3>3, <3>4
  <2>. QED  BY <2>2, <2>3
<1>9. f = v  BY <1>1, <1>8, SeqEqual
<1>10. Lossy(v) = f
  <2>1. [k \in DOMAIN v |-> IF v[k] \in Utf8 THEN <<v[k]>> ELSE Replacement] = ones
    BY <1>1, <1>2, <1>3
  <2>. QED  BY <1>7, <2>1 DEF Lossy
<1>. QED  BY <1>9, <1>10

(* What stands at an offset is what is between two offsets. *)
LEMMA HoldsSub ==
  ASSUME NEW f \in Seq(Byte), NEW p \in Nat, NEW v \in Seq(Byte), Holds(f, p, v)
  PROVE  SubSeq(f, p + 1, p + Len(v)) = v
<1>1. Take(f, p, Len(v)) = [value |-> v, at |-> p + Len(v)]  BY TakeFinds
<1>2. p + Len(v) <= Len(f)  BY DEF Holds
<1>3. Take(f, p, Len(v)) = [value |-> SubSeq(f, p + 1, p + Len(v)), at |-> p + Len(v)]
  BY <1>2 DEF Take
<1>. QED  BY <1>1, <1>3

(* Numbers that are read one behind the other. *)
LEMMA WordsType ==
  ASSUME NEW f \in Seq(Byte)
  PROVE  /\ Words(f) \in Seq(Nat) /\ Len(Words(f)) = Len(f) \div WordSize
         /\ DOMAIN Words(f) = 1 .. Len(f) \div WordSize
<1>1. PICK w \in Nat \ {0} : w = WordSize  BY WordsAssumption
<1>2. PICK l \in Nat : l = Len(f)  BY LenProperties
<1>3. PICK n \in Nat : n = l \div w /\ w * n <= l
  <2>1. l \div w \in Nat /\ l % w \in 0 .. w - 1 /\ l = w * (l \div w) + (l % w)  BY DivMod
  <2>2. PICK n \in Nat, r \in Nat : n = l \div w /\ r = l % w  BY <2>1
  <2>3. w * n \in Nat  OBVIOUS
  <2>4. l = w * n + r  BY <2>1, <2>2
  <2>5. w * n <= l  BY <2>3, <2>4
  <2>. QED  BY <2>2, <2>5
<1>4. ASSUME NEW k \in 1 .. n PROVE Number(SubSeq(f, (k - 1) * w + 1, k * w)) \in Nat
  <2>1. (k - 1) * w \in Nat /\ k * w \in Nat  OBVIOUS
  <2>2. k * w <= l
    <3>1. w * k <= w * n  BY SMT
    <3>2. w * k = k * w  BY SMT
    <3>3. w * n \in Nat /\ w * k \in Nat  OBVIOUS
    <3>. QED  BY <1>3, <3>1, <3>2, <3>3
  <2>3. PICK a \in Nat, b \in Nat : a = (k - 1) * w /\ b = k * w  BY <2>1
  <2>4. \A i \in a + 1 .. b : f[i] \in Byte
    <3>1. \A i \in a + 1 .. b : i \in 1 .. l  BY <2>2, <2>3
    <3>. QED  BY <1>2, <3>1, ElementOfSeq
  <2>5. SubSeq(f, a + 1, b) \in Seq(Byte)
    <3>1. a + 1 \in Int /\ b \in Int  BY <2>3
    <3>. QED  BY <2>4, <3>1, SubSeqProperties
  <2>. QED  BY <2>3, <2>5, NumberType
<1>5. Words(f) = [k \in 1 .. n |-> Number(SubSeq(f, (k - 1) * w + 1, k * w))]
  BY <1>1, <1>2, <1>3, SameWord DEF Words
<1>. QED  BY <1>1, <1>2, <1>3, <1>4, <1>5

LEMMA WordStands ==
  ASSUME NEW f \in Seq(Byte), NEW k \in Nat \ {0}, NEW x \in Nat, x <= MaxWord,
         Holds(f, (k - 1) * WordSize, Word(x))
  PROVE  k \in DOMAIN Words(f) /\ Words(f)[k] = x
<1>1. PICK w \in Nat \ {0} : w = WordSize  BY WordsAssumption
<1>2. PICK l \in Nat : l = Len(f)  BY LenProperties
<1>3. PICK v \in Seq(Byte) : v = Word(x) /\ Len(v) = w  BY <1>1, WordType
<1>4. PICK p \in Nat : p = (k - 1) * w /\ p + w = k * w
  <2>1. (k - 1) * w \in Nat /\ (k - 1) * w + w = k * w  BY SMT
  <2>. QED  BY <2>1
<1>5. Holds(f, p, v)  BY <1>1, <1>3, <1>4
<1>6. SubSeq(f, p + 1, p + w) = v  BY <1>3, <1>5, HoldsSub
<1>7. k <= l \div w
  <2>1. p + w <= l  BY <1>2, <1>3, <1>5 DEF Holds
  <2>2. l \div w \in Nat /\ l % w \in 0 .. w - 1 /\ l = w * (l \div w) + (l % w)  BY DivMod
  <2>3. PICK n \in Nat, r \in 0 .. w - 1 : n = l \div w /\ r = l % w  BY <2>2
  <2>4. l = w * n + r  BY <2>2, <2>3
  <2>5. ASSUME k > n PROVE FALSE
    <3>1. w * n + w <= k * w
      <4>1. w * (n + 1) <= w * k  BY <2>5, SMT
      <4>2. w * (n + 1) = w * n + w /\ w * k = k * w  BY SMT
      <4>. QED  BY <4>1, <4>2
    <3>2. w * n \in Nat /\ k * w \in Nat  OBVIOUS
    <3>. QED  BY <1>4, <2>1, <2>3, <2>4, <3>1, <3>2
  <2>. QED  BY <2>3, <2>5
<1>8. k \in 1 .. l \div w
  <2>1. l \div w \in Nat  BY DivMod
  <2>. QED  BY <1>7, <2>1
<1>9. DOMAIN Words(f) = 1 .. l \div w  BY <1>1, <1>2, WordsType
<1>10. Words(f)[k] = Number(SubSeq(f, (k - 1) * w + 1, k * w))
  BY <1>1, <1>2, <1>8, SameWord DEF Words
<1>11. Number(v) = x  BY <1>3, NumberOfWord
<1>. QED  BY <1>4, <1>6, <1>8, <1>9, <1>10, <1>11

(* Numbers are read as they were written. *)
LEMMA WordsOfFlat ==
  ASSUME NEW ws \in Seq(Nat), \A k \in 1 .. Len(ws) : ws[k] <= MaxWord
  PROVE  /\ Flat(ws) \in Seq(Byte) /\ Len(Flat(ws)) = WordSize * Len(ws)
         /\ Words(Flat(ws)) = ws
<1>1. PICK w \in Nat \ {0} : w = WordSize  BY WordsAssumption
<1>2. PICK n \in Nat : n = Len(ws) /\ DOMAIN ws = 1 .. n  BY LenProperties
<1>3. \A k \in 1 .. n : ws[k] \in Nat /\ ws[k] <= MaxWord  BY <1>2, ElementOfSeq
<1>4. PICK seqs : seqs = [k \in 1 .. n |-> Word(ws[k])]  OBVIOUS
<1>5. \A k \in 1 .. n : Word(ws[k]) \in Seq(Byte) /\ Len(Word(ws[k])) = w  BY <1>1, <1>3, WordType
<1>6. seqs \in Seq(Seq(Byte)) /\ Len(seqs) = n /\ \A k \in 1 .. n : seqs[k] = Word(ws[k])
  BY <1>4, <1>5
<1>7. PICK f : f = Flat(ws)  OBVIOUS
<1>8. f = FlattenSeq(seqs)  BY <1>2, <1>4, <1>7, SameWord DEF Flat
<1>9. PICK l \in Seq(Nat) : l = Lengths(seqs) /\ Len(l) = n /\ \A k \in 1 .. n : l[k] = w
  <2>1. /\ Lengths(seqs) \in Seq(Nat) /\ Len(Lengths(seqs)) = n
        /\ \A k \in 1 .. n : Lengths(seqs)[k] = Len(seqs[k])
    BY <1>6, LengthsType
  <2>2. \A k \in 1 .. n : Len(seqs[k]) = w  BY <1>5, <1>6
  <2>. QED  BY <2>1, <2>2
<1>10. \A k \in 1 .. n + 1 : Start(l, k) = w * (k - 1)  BY <1>9, EvenStarts
<1>11. f \in Seq(Byte) /\ Len(f) = w * n
  <2>1. n + 1 \in 1 .. n + 1 /\ (n + 1) - 1 = n  OBVIOUS
  <2>2. Total(l) = Start(l, n + 1)  BY <1>9, Starts
  <2>3. f \in Seq(Byte) /\ Len(f) = Total(l)  BY <1>6, <1>8, <1>9, PiecesOfFlat
  <2>. QED  BY <1>10, <2>1, <2>2, <2>3
<1>12. ASSUME NEW k \in 1 .. n PROVE Words(f)[k] = ws[k]
  <2>1. Holds(f, Start(l, k), Word(ws[k]))  BY <1>6, <1>8, <1>9, FlatHolds
  <2>2. k \in 1 .. n + 1  OBVIOUS
  <2>3. Start(l, k) = w * (k - 1)  BY <1>10, <2>2
  <2>4. w * (k - 1) = (k - 1) * w  BY SMT
  <2>5. Holds(f, (k - 1) * WordSize, Word(ws[k]))  BY <1>1, <2>1, <2>3, <2>4
  <2>6. k \in Nat \ {0}  OBVIOUS
  <2>. QED  BY <1>3, <1>11, <2>5, <2>6, WordStands
<1>13. (w * n) \div w = n
  <2>1. 0 \in 0 .. w - 1  OBVIOUS
  <2>2. (0 + w * n) \div w = n  BY <2>1, DivModOf
  <2>3. w * n \in Nat /\ 0 + w * n = w * n  OBVIOUS
  <2>. QED  BY <2>2, <2>3
<1>14. Words(f) \in Seq(Nat) /\ Len(Words(f)) = n  BY <1>1, <1>11, <1>13, WordsType
<1>15. Words(f) = ws  BY <1>2, <1>12, <1>14, SeqEqual
<1>. QED  BY <1>1, <1>2, <1>7, <1>11, <1>15

-----------------------------------------------------------------------------
(* Names and numbers of module_info *)

Specials == {StarDefault, StarNamespace, None, JavaScript, WebAssembly, Json}

LEMMA SpecialApart ==
  ASSUME WellFormed
  PROVE  /\ StarDefault # None /\ StarNamespace # None /\ JavaScript # None
         /\ WebAssembly # None /\ Json # None
         /\ StarNamespace # StarDefault /\ JavaScript # StarDefault /\ WebAssembly # StarDefault
         /\ Json # StarDefault /\ JavaScript # StarNamespace /\ WebAssembly # StarNamespace
         /\ Json # StarNamespace /\ WebAssembly # JavaScript /\ Json # JavaScript
         /\ Json # WebAssembly
         /\ Specials \cap Seq(Byte) = {}
<1>1. PICK s : s = <<None, StarDefault, StarNamespace, JavaScript, WebAssembly, Json>>  OBVIOUS
<1>2. DOMAIN s = 1 .. 6  BY <1>1
<1>3. \A a, b \in 1 .. 6 : s[a] = s[b] => a = b
  BY <1>1, <1>2 DEF WellFormed, Special, IsInjective
<1>4. /\ s[1] = None /\ s[2] = StarDefault /\ s[3] = StarNamespace
      /\ s[4] = JavaScript /\ s[5] = WebAssembly /\ s[6] = Json
  BY <1>1
<1>5. {s[a] : a \in 1 .. 6} \cap Seq(Byte) = {}
  BY <1>1, <1>2, SameWord DEF WellFormed, Special, Range
<1>6. Specials \subseteq {s[a] : a \in 1 .. 6}
  <2>1. 1 \in 1 .. 6 /\ 2 \in 1 .. 6 /\ 3 \in 1 .. 6 /\ 4 \in 1 .. 6 /\ 5 \in 1 .. 6 /\ 6 \in 1 .. 6
    OBVIOUS
  <2>. QED  BY <1>4, <2>1, Zenon DEF Specials
<1>7. \A a, b \in 1 .. 6 : a # b => s[a] # s[b]  BY <1>3
<1>8. /\ 1 \in 1 .. 6 /\ 2 \in 1 .. 6 /\ 3 \in 1 .. 6 /\ 4 \in 1 .. 6 /\ 5 \in 1 .. 6 /\ 6 \in 1 .. 6
      /\ 1 # 2 /\ 1 # 3 /\ 1 # 4 /\ 1 # 5 /\ 1 # 6 /\ 2 # 3 /\ 2 # 4 /\ 2 # 5 /\ 2 # 6
      /\ 3 # 4 /\ 3 # 5 /\ 3 # 6 /\ 4 # 5 /\ 4 # 6 /\ 5 # 6
  OBVIOUS
<1>9. /\ s[1] # s[2] /\ s[1] # s[3] /\ s[1] # s[4] /\ s[1] # s[5] /\ s[1] # s[6]
      /\ s[2] # s[3] /\ s[2] # s[4] /\ s[2] # s[5] /\ s[2] # s[6]
      /\ s[3] # s[4] /\ s[3] # s[5] /\ s[3] # s[6] /\ s[4] # s[5] /\ s[4] # s[6] /\ s[5] # s[6]
  BY <1>7, <1>8, Zenon
<1>. QED  BY <1>4, <1>5, <1>6, <1>9, Zenon

(* The names that a record or a request may have. *)
Texts == Seq(Byte) \cup {StarDefault, StarNamespace}

Attributes == Seq(Byte) \cup {None, JavaScript, WebAssembly, Json}

LEMMA InfoType ==
  ASSUME WellFormed, NEW info, Recordable(info)
  PROVE  /\ info = [records |-> info.records, requested |-> info.requested, flags |-> info.flags]
         /\ \E n \in Nat : /\ n = Len(info.records) /\ DOMAIN info.records = 1 .. n
                           /\ info.records \in [1 .. n -> InfoRecord]
         /\ \E n \in Nat : /\ n = Len(info.requested) /\ DOMAIN info.requested = 1 .. n
                           /\ info.requested \in [1 .. n -> Request]
         /\ info.flags \in 0 .. 3
<1>1. info \in [records : Seq(InfoRecord), requested : Seq(Request), flags : 0 .. 3]
  BY DEF Recordable
<1>2. info.records \in Seq(InfoRecord) /\ info.requested \in Seq(Request)  BY <1>1
<1>3. ASSUME NEW S, NEW s \in Seq(S)
      PROVE \E n \in Nat : n = Len(s) /\ DOMAIN s = 1 .. n /\ s \in [1 .. n -> S]
  BY LenProperties
<1>. QED  BY <1>1, <1>2, <1>3

LEMMA RecordType ==
  ASSUME WellFormed, NEW r \in InfoRecord
  PROVE  /\ r = [kind |-> r.kind, names |-> r.names] /\ r.kind \in Range(Kinds)
         /\ r.names \in Seq(Texts) /\ DOMAIN r.names = 1 .. Len(r.names) /\ Len(r.names) \in Nat
         /\ \A i \in DOMAIN r.names : r.names[i] \in Texts
<1>1. r \in [kind : Range(Kinds), names : Seq(Texts)]
  <2>1. Text \cup {StarDefault, StarNamespace} \subseteq Texts  BY TextIsBytes DEF Text, Texts
  <2>2. Seq(Text \cup {StarDefault, StarNamespace}) \subseteq Seq(Texts)  BY <2>1, SeqMonotonic
  <2>. QED  BY <2>2 DEF InfoRecord
<1>2. r.names \in Seq(Texts)  BY <1>1
<1>3. DOMAIN r.names = 1 .. Len(r.names) /\ Len(r.names) \in Nat  BY <1>2, LenProperties
<1>. QED  BY <1>1, <1>2, <1>3, ElementOfSeq

LEMMA RequestType ==
  ASSUME WellFormed, NEW r \in Request
  PROVE  r = [module |-> r.module, attributes |-> r.attributes] /\ r.module \in Texts
         /\ r.attributes \in Attributes
BY TextIsBytes DEF Request, Text, Texts, Attributes

(* What is in the string table. *)
Given(info) ==
  UNION ({Range(info.records[k].names) : k \in DOMAIN info.records}
         \cup {{r.module, r.attributes} : r \in Range(info.requested)})

LEMMA ImageFinite ==
  ASSUME NEW n \in Nat, NEW g, NEW T, T = {g[k] : k \in 1 .. n}
  PROVE  IsFiniteSet(T)
<1>. DEFINE h == [k \in 1 .. n |-> g[k]]
<1>1. h \in Surjection(1 .. n, T)  BY DEF Surjection
<1>2. IsFiniteSet(1 .. n)  BY FS_Interval
<1>. HIDE DEF h
<1>. QED  BY <1>1, <1>2, FS_Surjection

LEMMA GivenFinite ==
  ASSUME WellFormed, NEW info, Recordable(info)
  PROVE  IsFiniteSet(Given(info))
<1>1. PICK m \in Nat : DOMAIN info.records = 1 .. m /\ info.records \in [1 .. m -> InfoRecord]
  BY InfoType
<1>2. PICK n \in Nat : DOMAIN info.requested = 1 .. n /\ info.requested \in [1 .. n -> Request]
  BY InfoType
<1>3. PICK A : A = {Range(info.records[k].names) : k \in DOMAIN info.records}  OBVIOUS
<1>4. PICK B : B = {{r.module, r.attributes} : r \in Range(info.requested)}  OBVIOUS
<1>5. IsFiniteSet(A)
  <2>. DEFINE g == [k \in 1 .. m |-> Range(info.records[k].names)]
  <2>1. A = {g[k] : k \in 1 .. m}  BY <1>1, <1>3
  <2>. HIDE DEF g
  <2>. QED  BY <2>1, ImageFinite
<1>6. IsFiniteSet(B)
  <2>. DEFINE g == [k \in 1 .. n |-> {info.requested[k].module, info.requested[k].attributes}]
  <2>1. B = {g[k] : k \in 1 .. n}  BY <1>2, <1>4 DEF Range
  <2>. HIDE DEF g
  <2>. QED  BY <2>1, ImageFinite
<1>7. ASSUME NEW S \in A PROVE IsFiniteSet(S)
  <2>1. PICK k \in 1 .. m : S = Range(info.records[k].names)  BY <1>1, <1>3
  <2>2. PICK s : s = info.records[k].names  OBVIOUS
  <2>3. PICK i \in Nat : DOMAIN s = 1 .. i  BY <1>1, <2>2, RecordType
  <2>4. S = {s[j] : j \in 1 .. i}  BY <2>1, <2>2, <2>3 DEF Range
  <2>. QED  BY <2>4, ImageFinite
<1>8. ASSUME NEW S \in B PROVE IsFiniteSet(S)
  <2>1. PICK x, y : S = {x, y}  BY <1>4
  <2>2. IsFiniteSet({x}) /\ IsFiniteSet({y}) /\ S = {x} \cup {y}  BY <2>1, FS_Singleton
  <2>. QED  BY <2>2, FS_Union
<1>9. IsFiniteSet(A \cup B) /\ \A S \in A \cup B : IsFiniteSet(S)  BY <1>5, <1>6, <1>7, <1>8, FS_Union
<1>10. IsFiniteSet(UNION (A \cup B))  BY <1>9, FS_UNION
<1>. QED  BY <1>3, <1>4, <1>10 DEF Given

(* Each text has its place in the table. *)
LEMMA StringTable ==
  ASSUME WellFormed, NEW info, Recordable(info)
  PROVE  /\ InfoStrings(info) \in Seq(Seq(Byte))
         /\ \A x \in Given(info) \cap Seq(Byte) :
              \E k \in DOMAIN InfoStrings(info) : InfoStrings(info)[k] = x
         /\ \A k \in DOMAIN InfoStrings(info) : InfoStrings(info)[k] \in Given(info) \ Specials
<1>1. PICK T : T = Given(info) \ Specials  OBVIOUS
<1>2. T \subseteq Seq(Byte)
  <2>. SUFFICES ASSUME NEW x \in Given(info), x \notin Specials PROVE x \in Seq(Byte)  BY <1>1
  <2>1. CASE \E k \in DOMAIN info.records : x \in Range(info.records[k].names)
    <3>1. PICK k \in DOMAIN info.records : x \in Range(info.records[k].names)  BY <2>1
    <3>2. info.records[k] \in InfoRecord  BY <3>1, InfoType
    <3>3. x \in Texts  BY <3>1, <3>2, RecordType DEF Range
    <3>. QED  BY <3>3 DEF Texts, Specials
  <2>2. CASE \E k \in DOMAIN info.requested :
               x \in {info.requested[k].module, info.requested[k].attributes}
    <3>1. PICK k \in DOMAIN info.requested :
            x \in {info.requested[k].module, info.requested[k].attributes}
      BY <2>2
    <3>2. info.requested[k] \in Request  BY <3>1, InfoType
    <3>3. x \in Texts \cup Attributes  BY <3>1, <3>2, RequestType
    <3>. QED  BY <3>3 DEF Texts, Attributes, Specials
  <2>. QED  BY <2>1, <2>2 DEF Given, Range
<1>3. IsFiniteSet(T)  BY <1>1, GivenFinite, FS_Subset
<1>4. PICK n \in Nat : n = Cardinality(T) /\ ExistsBijection(1 .. n, T)  BY <1>3, FS_CardinalityType
<1>5. SetToSeq(T) = CHOOSE f \in [1 .. n -> T] : IsInjective(f)
  <2>1. Cardinality(T) = n  BY <1>4, Zenon DEF Cardinality, Cardinality
  <2>2. \A f : IsInjective(f) <=> IsInjective(f)  BY DEF IsInjective, IsInjective
  <2>. QED  BY <2>1, <2>2, Zenon DEF SetToSeq
<1>6. PICK s : s = SetToSeq(T)  OBVIOUS
<1>7. s \in Injection(1 .. n, T)
  <2>1. \E f \in [1 .. n -> T] : IsInjective(f)  BY <1>4 DEF ExistsBijection, Bijection, Injection
  <2>2. s \in [1 .. n -> T] /\ IsInjective(s)  BY <1>5, <1>6, <2>1
  <2>. QED  BY <2>2 DEF Injection
<1>8. s \in Surjection(1 .. n, T)
  <2>1. IsFiniteSet(1 .. n) /\ Cardinality(1 .. n) = Cardinality(T)  BY <1>4, FS_Interval
  <2>. QED  BY <1>3, <1>7, <2>1, FS_Injection
<1>9. InfoStrings(info) = s
  BY <1>1, <1>6 DEF InfoStrings, Given, Specials
<1>10. s \in [1 .. n -> T] /\ \A x \in T : \E k \in 1 .. n : s[k] = x  BY <1>8 DEF Surjection
<1>11. s \in Seq(Seq(Byte)) /\ DOMAIN s = 1 .. n  BY <1>2, <1>10
<1>12. Given(info) \cap Seq(Byte) \subseteq T  BY <1>1, SpecialApart
<1>13. \A k \in 1 .. n : s[k] \in Given(info) \ Specials  BY <1>1, <1>10
<1>. QED  BY <1>9, <1>10, <1>11, <1>12, <1>13

(* Everything in it is text. *)
LEMMA StringsAreText ==
  ASSUME WellFormed, NEW info, Recordable(info), NEW k \in DOMAIN InfoStrings(info)
  PROVE  InfoStrings(info)[k] \in Seq(Utf8)
<1>1. PICK x \in Given(info) : x = InfoStrings(info)[k] /\ x \notin Specials  BY StringTable
<1>2. CASE \E j \in DOMAIN info.records : x \in Range(info.records[j].names)
  <2>1. PICK j \in DOMAIN info.records : x \in Range(info.records[j].names)  BY <1>2
  <2>2. PICK names : names = info.records[j].names /\ names \in Seq(Text \cup {StarDefault, StarNamespace})
    <3>1. info.records[j] \in InfoRecord  BY <2>1, InfoType
    <3>. QED  BY <3>1 DEF InfoRecord
  <2>3. PICK i \in DOMAIN names : x = names[i]  BY <2>1, <2>2 DEF Range
  <2>4. x \in Text \cup {StarDefault, StarNamespace}
    <3>1. DOMAIN names = 1 .. Len(names)  BY <2>2, LenProperties
    <3>. QED  BY <2>2, <2>3, <3>1, ElementOfSeq
  <2>. QED  BY <1>1, <2>4 DEF Text, Specials
<1>3. CASE \E j \in DOMAIN info.requested :
             x \in {info.requested[j].module, info.requested[j].attributes}
  <2>1. PICK j \in DOMAIN info.requested :
          x \in {info.requested[j].module, info.requested[j].attributes}
    BY <1>3
  <2>2. info.requested[j] \in Request  BY <2>1, InfoType
  <2>3. x \in Text \cup {StarDefault, StarNamespace, None, JavaScript, WebAssembly, Json}
    BY <2>1, <2>2 DEF Request
  <2>. QED  BY <1>1, <2>3 DEF Text, Specials
<1>. QED  BY <1>1, <1>2, <1>3 DEF Given, Range

LEMMA MaxWordType == MaxWord \in Nat
BY LargestType, NumberType DEF MaxWord

(* The decoder skips as many bytes as the writer has filled up. *)
LEMMA PaddingOf ==
  ASSUME NEW n \in Nat
  PROVE  (-n) % WordSize = Padding(n) /\ Padding(n) \in 0 .. WordSize - 1
<1>1. PICK w \in Nat \ {0} : w = WordSize  BY WordsAssumption
<1>2. PICK q \in Nat, r \in 0 .. w - 1 : q = n \div w /\ r = n % w /\ n = w * q + r  BY DivMod
<1>3. PICK s \in Int, t \in 0 .. w - 1 : t = (-n) % w /\ -n = w * s + t
  <2>1. (-n) % w \in 0 .. w - 1 /\ (-n) \div w \in Int
        /\ -n = w * ((-n) \div w) + ((-n) % w)
    BY SMT
  <2>. QED  BY <2>1
<1>4. w * (q + s) + (r + t) = 0
  <2>1. w * (q + s) = w * q + w * s  BY SMT
  <2>2. PICK a \in Int, b \in Int : a = w * q /\ b = w * s  OBVIOUS
  <2>3. n = a + r /\ -n = b + t  BY <1>2, <1>3, <2>2
  <2>4. (a + b) + (r + t) = 0  BY <1>2, <1>3, <2>2, <2>3
  <2>. QED  BY <2>1, <2>2, <2>4
<1>5. PICK m \in Int : m = q + s  OBVIOUS
<1>6. m = 0 \/ m = -1
  <2>1. ASSUME m >= 1 PROVE FALSE
    <3>1. w * m >= w  BY <2>1, SMT
    <3>2. w * m \in Int  OBVIOUS
    <3>. QED  BY <1>4, <1>5, <3>1, <3>2
  <2>2. ASSUME m <= -2 PROVE FALSE
    <3>1. w * m <= w * (-2)  BY <2>2, SMT
    <3>2. w * m \in Int /\ w * (-2) = -(2 * w)  OBVIOUS
    <3>. QED  BY <1>4, <1>5, <3>1, <3>2
  <2>. QED  BY <2>1, <2>2
<1>7. CASE m = 0
  <2>1. r = 0 /\ t = 0
    <3>1. w * m = 0  BY <1>7
    <3>. QED  BY <1>4, <1>5, <3>1
  <2>2. w % w = 0
    <3>1. 0 \in 0 .. w - 1  OBVIOUS
    <3>2. (0 + w * 1) % w = 0  BY <3>1, DivModOf
    <3>3. 0 + w * 1 = w  OBVIOUS
    <3>. QED  BY <3>2, <3>3
  <2>3. (w - r) % w = 0
    <3>1. w - r = w  BY <2>1
    <3>. QED  BY <2>2, <3>1
  <2>. QED  BY <1>1, <1>2, <1>3, <2>1, <2>3 DEF Padding
<1>8. CASE m = -1
  <2>1. t = w - r
    <3>1. w * m = -w  BY <1>8
    <3>. QED  BY <1>4, <1>5, <3>1
  <2>2. (w - r) % w = w - r
    <3>1. w - r \in 0 .. w - 1 /\ 0 \in Nat  BY <2>1
    <3>2. ((w - r) + w * 0) % w = w - r  BY <3>1, DivModOf
    <3>3. (w - r) + w * 0 = w - r  OBVIOUS
    <3>. QED  BY <3>2, <3>3
  <2>. QED  BY <1>1, <1>2, <1>3, <2>1, <2>2 DEF Padding
<1>. QED  BY <1>6, <1>7, <1>8

(* A name is found behind its number. *)
LEMMA IdOfText ==
  ASSUME WellFormed, NEW s \in Seq(Seq(Byte)), Len(s) + 3 <= MaxWord,
         NEW x \in Seq(Byte), \E k \in DOMAIN s : s[k] = x
  PROVE  /\ Id(s, x) \in 0 .. MaxWord - 4 /\ Resolve(Id(s, x), s) = x
<1>1. x \notin Specials  BY SpecialApart
<1>2. PICK n \in Nat, max \in Nat : n = Len(s) /\ DOMAIN s = 1 .. n /\ max = MaxWord
  BY LenProperties, MaxWordType
<1>3. PICK k : k = CHOOSE i \in DOMAIN s : s[i] = x  OBVIOUS
<1>4. k \in 1 .. n /\ s[k] = x  BY <1>2, <1>3
<1>5. Id(s, x) = k - 1  BY <1>1, <1>3 DEF Id, Specials
<1>6. k - 1 \in 0 .. max - 4 /\ k - 1 # max /\ k - 1 # max - 1 /\ k - 1 < n /\ (k - 1) + 1 = k
  BY <1>2, <1>4
<1>7. Resolve(k - 1, s) = s[(k - 1) + 1]  BY <1>2, <1>6, SameWord DEF Resolve
<1>. QED  BY <1>2, <1>4, <1>5, <1>6, <1>7

LEMMA IdOfName ==
  ASSUME WellFormed, NEW s \in Seq(Seq(Byte)), Len(s) + 3 <= MaxWord,
         NEW x \in Texts, x \in Seq(Byte) => \E k \in DOMAIN s : s[k] = x
  PROVE  /\ Id(s, x) \in 0 .. MaxWord /\ Resolve(Id(s, x), s) = x
         /\ x # None
<1>1. PICK n \in Nat, max \in Nat : n = Len(s) /\ max = MaxWord  BY LenProperties, MaxWordType
<1>2. x # None  BY SpecialApart DEF Texts, Specials
<1>3. CASE x \in Seq(Byte)
  <2>1. Id(s, x) \in 0 .. max - 4 /\ Resolve(Id(s, x), s) = x
    BY <1>1, <1>3, IdOfText
  <2>2. Id(s, x) \in 0 .. max  BY <2>1
  <2>. QED  BY <1>1, <1>2, <2>1, <2>2
<1>4. CASE x = StarDefault
  <2>1. /\ x \in {StarDefault, None} /\ x \notin {StarNamespace, JavaScript}
        /\ x # WebAssembly /\ x # Json
    BY <1>4, SpecialApart
  <2>2. Id(s, x) = max  BY <1>1, <2>1, SameWord DEF Id
  <2>3. max # max - 1 /\ ~(max < n)  BY <1>1
  <2>4. Resolve(max, s) = x  BY <1>1, <1>4, <2>3, SameWord DEF Resolve
  <2>. QED  BY <1>1, <1>2, <2>2, <2>4
<1>5. CASE x = StarNamespace
  <2>1. /\ x \notin {StarDefault, None} /\ x \in {StarNamespace, JavaScript}
        /\ x # WebAssembly /\ x # Json
    BY <1>5, SpecialApart
  <2>2. Id(s, x) = max - 1  BY <1>1, <2>1, SameWord DEF Id
  <2>3. max # max - 1 /\ ~(max - 1 < n) /\ max - 1 \in 0 .. max  BY <1>1
  <2>4. Resolve(max - 1, s) = x  BY <1>1, <1>5, <2>3, SameWord DEF Resolve
  <2>. QED  BY <1>1, <1>2, <2>2, <2>3, <2>4
<1>. QED  BY <1>3, <1>4, <1>5 DEF Texts

LEMMA IdOfAttribute ==
  ASSUME WellFormed, NEW s \in Seq(Seq(Byte)), Len(s) + 3 <= MaxWord,
         NEW x \in Attributes, x \in Seq(Byte) => \E k \in DOMAIN s : s[k] = x
  PROVE  /\ Id(s, x) \in 0 .. MaxWord
         /\ Id(s, x) <= MaxWord - 4 => Resolve(Id(s, x), s) # None
         /\ x = IF Id(s, x) > MaxWord - 4 THEN Attribute(Id(s, x))
                ELSE Resolve(Id(s, x), s)
<1>1. PICK n \in Nat, max \in Nat : n = Len(s) /\ max = MaxWord  BY LenProperties, MaxWordType
<1>2. max \in 3 .. max  BY <1>1
<1>3. CASE x \in Seq(Byte)
  <2>1. PICK id \in 0 .. max - 4 : id = Id(s, x) /\ Resolve(id, s) = x
    BY <1>1, <1>3, IdOfText
  <2>2. x # None  BY <1>3, SpecialApart DEF Specials
  <2>3. id \in 0 .. max /\ ~(id > max - 4)  BY <1>2
  <2>. QED  BY <1>1, <2>1, <2>2, <2>3
<1>4. ASSUME NEW d \in 0 .. 3, Id(s, x) = max - d, Attribute(max - d) = x
      PROVE  /\ Id(s, x) \in 0 .. max /\ ~(Id(s, x) <= max - 4)
             /\ x = IF Id(s, x) > max - 4 THEN Attribute(Id(s, x))
                    ELSE Resolve(Id(s, x), s)
  <2>1. max - d \in 0 .. max /\ ~(max - d <= max - 4) /\ max - d > max - 4  BY <1>2
  <2>. QED  BY <1>4, <2>1
<1>5. max # max - 1 /\ max # max - 2 /\ max # max - 3 /\ max - 1 # max - 2 /\ max - 1 # max - 3
      /\ max - 2 # max - 3 /\ max - 0 = max
  OBVIOUS
<1>6. CASE x = None
  <2>1. x \in {StarDefault, None} /\ x \notin {StarNamespace, JavaScript} /\ x # WebAssembly /\ x # Json
    BY <1>6, SpecialApart
  <2>2. Id(s, x) = max - 0  BY <1>1, <1>5, <2>1, SameWord DEF Id
  <2>3. Attribute(max - 0) = x  BY <1>1, <1>5, <1>6, SameWord DEF Attribute
  <2>4. 0 \in 0 .. 3  OBVIOUS
  <2>. QED  BY <1>1, <1>4, <2>2, <2>3, <2>4
<1>7. CASE x = JavaScript
  <2>1. x \notin {StarDefault, None} /\ x \in {StarNamespace, JavaScript} /\ x # WebAssembly /\ x # Json
    BY <1>7, SpecialApart
  <2>2. Id(s, x) = max - 1  BY <1>1, <2>1, SameWord DEF Id
  <2>3. Attribute(max - 1) = x  BY <1>1, <1>5, <1>7, SameWord DEF Attribute
  <2>4. 1 \in 0 .. 3  OBVIOUS
  <2>. QED  BY <1>1, <1>4, <2>2, <2>3, <2>4
<1>8. CASE x = WebAssembly
  <2>1. x \notin {StarDefault, None} /\ x \notin {StarNamespace, JavaScript} /\ x # Json
    BY <1>8, SpecialApart
  <2>2. Id(s, x) = max - 2  BY <1>1, <1>8, <2>1, SameWord DEF Id
  <2>3. Attribute(max - 2) = x  BY <1>1, <1>5, <1>8, SameWord DEF Attribute
  <2>4. 2 \in 0 .. 3  OBVIOUS
  <2>. QED  BY <1>1, <1>4, <2>2, <2>3, <2>4
<1>9. CASE x = Json
  <2>1. x \notin {StarDefault, None} /\ x \notin {StarNamespace, JavaScript} /\ x # WebAssembly
    BY <1>9, SpecialApart
  <2>2. Id(s, x) = max - 3  BY <1>1, <1>9, <2>1, SameWord DEF Id
  <2>3. Attribute(max - 3) = x  BY <1>1, <1>5, <1>9, SameWord DEF Attribute
  <2>4. 3 \in 0 .. 3  OBVIOUS
  <2>. QED  BY <1>1, <1>4, <2>2, <2>3, <2>4
<1>. QED  BY <1>3, <1>6, <1>7, <1>8, <1>9 DEF Attributes

-----------------------------------------------------------------------------
(* Reading module_info *)

(* What decode_module_info takes, one behind the other. *)
KindsRead(f) == TakeCounted(f, 0, 1)

TextRead(f) == TakeCounted(f, KindsRead(f).at + Padding(Len(KindsRead(f).value)), 1)

LengthsRead(f) == TakeCounted(f, TextRead(f).at + 0, WordSize)

BufferRead(f) == TakeCounted(f, LengthsRead(f).at + 0, WordSize)

RequestedRead(f) == TakeCounted(f, BufferRead(f).at + 0, 2 * WordSize)

FlagsRead(f) == Take(f, RequestedRead(f).at, WordSize)

AllRead(f) ==
  /\ KindsRead(f) # None /\ TextRead(f) # None /\ LengthsRead(f) # None
  /\ BufferRead(f) # None /\ RequestedRead(f) # None /\ FlagsRead(f) # None

(* What they have to fulfil, and what they mean. *)
Consistent(f, kinds, text, lengths, buffer, flags) ==
  /\ AtEnd(f, flags)
  /\ \A k \in DOMAIN kinds : kinds[k] < Len(Kinds)
  /\ Total(Words(lengths)) = Len(text)
  /\ Total([k \in DOMAIN kinds |-> Width[kinds[k] + 1]])
       = Len(Words(buffer))

Shown(names) == [k \in DOMAIN names |-> Lossy(names[k])]

Said(kinds, text, lengths, buffer, pairs, flags) ==
  Meaning(kinds, Words(buffer), SubSeq(pairs, 1, Len(pairs) \div 2),
                  SubSeq(pairs, Len(pairs) \div 2 + 1, 2 * (Len(pairs) \div 2)),
                  Shown(Pieces(text, Words(lengths))), flags)

LEMMA DecodeNeeds ==
  ASSUME NEW f, DecodeInfo(f) # None
  PROVE  AllRead(f) /\ FlagsRead(f).at = Len(f)
BY SameTake, SameCounted DEF DecodeInfo, AllRead, KindsRead, TextRead, LengthsRead, BufferRead, RequestedRead, FlagsRead, AtEnd

LEMMA DecodeIs ==
  ASSUME NEW f, AllRead(f)
  PROVE  DecodeInfo(f) =
           IF Consistent(f, KindsRead(f).value, TextRead(f).value, LengthsRead(f).value,
                         BufferRead(f).value, FlagsRead(f))
           THEN Said(KindsRead(f).value, TextRead(f).value, LengthsRead(f).value,
                     BufferRead(f).value, Words(RequestedRead(f).value),
                     FlagsRead(f).value[1])
           ELSE None
BY SameTake, SameCounted DEF DecodeInfo, AllRead, KindsRead, TextRead, LengthsRead, BufferRead, RequestedRead, FlagsRead, Consistent, Shown, Said

LEMMA TakeTyped ==
  ASSUME NEW f \in Seq(Byte), NEW p \in Nat, NEW n \in Nat, Take(f, p, n) # None
  PROVE  /\ Take(f, p, n).value \in Seq(Byte) /\ Take(f, p, n).at \in Nat
         /\ Len(Take(f, p, n).value) = n
BY TakeGives

LEMMA CountedTyped ==
  ASSUME NEW f \in Seq(Byte), NEW p \in Nat, NEW size \in Nat, TakeCounted(f, p, size) # None
  PROVE  /\ TakeCounted(f, p, size).value \in Seq(Byte) /\ TakeCounted(f, p, size).at \in Nat
         /\ Take(f, p, WordSize) # None
         /\ TakeCounted(f, p, size) = Take(f, Take(f, p, WordSize).at,
                                           size * Number(Take(f, p, WordSize).value))
         /\ Take(f, p, WordSize).at \in Nat /\ size * Number(Take(f, p, WordSize).value) \in Nat
<1>1. Take(f, p, WordSize) # None  BY DEF TakeCounted
<1>2. WordSize \in Nat  BY WordsAssumption
<1>3. PICK v \in Seq(Byte), q \in Nat : /\ v = Take(f, p, WordSize).value
                                        /\ q = Take(f, p, WordSize).at
  BY <1>1, <1>2, TakeTyped
<1>4. PICK n \in Nat : n = size * Number(v)
  <2>1. Number(v) \in Nat  BY NumberType
  <2>. QED  BY <2>1
<1>5. TakeCounted(f, p, size) = Take(f, q, n)  BY <1>1, <1>3, <1>4 DEF TakeCounted
<1>6. Take(f, q, n).value \in Seq(Byte) /\ Take(f, q, n).at \in Nat  BY <1>5, TakeTyped
<1>. QED  BY <1>1, <1>3, <1>4, <1>5, <1>6

(* g is the beginning of f. *)
Begins(g, f) == \E l \in 0 .. Len(f) : g = SubSeq(f, 1, l)

(* What can be read from a part of the bytes is read from all of them. *)
LEMMA PrefixTake ==
  ASSUME NEW f \in Seq(Byte), NEW g \in Seq(Byte), Begins(g, f),
         NEW p \in Nat, NEW n \in Nat, Take(g, p, n) # None
  PROVE  Take(f, p, n) = Take(g, p, n)
<1>0. PICK l \in 0 .. Len(f) : g = SubSeq(f, 1, l)  BY DEF Begins
<1>1. l \in Nat /\ l <= Len(f)  BY LenProperties
<1>2. g \in Seq(Byte) /\ Len(g) = l /\ \A i \in 1 .. l : g[i] = f[i]
  <2>1. \A i \in 1 .. l : f[i] \in Byte
    <3>1. \A i \in 1 .. l : i \in 1 .. Len(f)  BY <1>1, LenProperties
    <3>. QED  BY <3>1, ElementOfSeq
  <2>2. /\ g \in Seq(Byte) /\ Len(g) = (IF 1 <= l THEN l - 1 + 1 ELSE 0)
        /\ \A i \in 1 .. l - 1 + 1 : g[i] = f[1 + i - 1]
    <3>1. 1 \in Int /\ l \in Int  BY <1>1
    <3>. QED  BY <1>0, <2>1, <3>1, SubSeqProperties
  <2>3. l - 1 + 1 = l /\ \A i \in 1 .. l : 1 + i - 1 = i  BY <1>1
  <2>. QED  BY <1>1, <2>2, <2>3
<1>3. PICK v \in Seq(Byte) : Len(v) = n /\ Holds(g, p, v) /\ Take(g, p, n) = [value |-> v, at |-> p + n]
  BY <1>2, TakeGives
<1>4. Holds(f, p, v)
  <2>1. p + n <= l /\ \A i \in 1 .. n : g[p + i] = v[i]  BY <1>2, <1>3 DEF Holds
  <2>2. \A i \in 1 .. n : p + i \in 1 .. l  BY <1>1, <2>1
  <2>3. p + n <= Len(f)
    <3>1. Len(f) \in Nat  BY LenProperties
    <3>. QED  BY <1>1, <2>1, <3>1
  <2>. QED  BY <1>2, <1>3, <2>1, <2>2, <2>3 DEF Holds
<1>. QED  BY <1>3, <1>4, TakeFinds

LEMMA PrefixCounted ==
  ASSUME NEW f \in Seq(Byte), NEW g \in Seq(Byte), Begins(g, f),
         NEW p \in Nat, NEW size \in Nat, TakeCounted(g, p, size) # None
  PROVE  TakeCounted(f, p, size) = TakeCounted(g, p, size)
<1>1. WordSize \in Nat  BY WordsAssumption
<1>2. /\ TakeCounted(g, p, size) = Take(g, Take(g, p, WordSize).at,
                                       size * Number(Take(g, p, WordSize).value))
      /\ Take(g, p, WordSize).at \in Nat /\ size * Number(Take(g, p, WordSize).value) \in Nat
      /\ Take(g, p, WordSize) # None
  BY CountedTyped
<1>3. PICK q \in Nat, n \in Nat :
        q = Take(g, p, WordSize).at /\ n = size * Number(Take(g, p, WordSize).value)
  BY <1>2
<1>4. Take(f, p, WordSize) = Take(g, p, WordSize)  BY <1>1, <1>2, PrefixTake
<1>5. Take(g, q, n) # None  BY <1>2, <1>3
<1>6. Take(f, q, n) = Take(g, q, n)  BY <1>5, PrefixTake
<1>. QED  BY <1>2, <1>3, <1>4, <1>6 DEF TakeCounted

LEMMA PrefixType ==
  ASSUME NEW f \in Seq(Byte), NEW l \in 0 .. Len(f)
  PROVE  SubSeq(f, 1, l) \in Seq(Byte) /\ Len(SubSeq(f, 1, l)) = l
<1>1. l \in Nat /\ l <= Len(f)  BY LenProperties
<1>2. \A i \in 1 .. l : f[i] \in Byte
  <2>1. \A i \in 1 .. l : i \in 1 .. Len(f)  BY <1>1, LenProperties
  <2>. QED  BY <2>1, ElementOfSeq
<1>3. 1 \in Int /\ l \in Int  BY <1>1
<1>4. /\ SubSeq(f, 1, l) \in Seq(Byte)
      /\ Len(SubSeq(f, 1, l)) = (IF 1 <= l THEN l - 1 + 1 ELSE 0)
  BY <1>2, <1>3, SubSeqProperties
<1>. QED  BY <1>1, <1>4

(* The offsets at which the fields are read. *)
LEMMA ReadOffsets ==
  ASSUME NEW f \in Seq(Byte), AllRead(f)
  PROVE  /\ KindsRead(f).at + Padding(Len(KindsRead(f).value)) \in Nat
         /\ TextRead(f).at + 0 \in Nat /\ LengthsRead(f).at + 0 \in Nat
         /\ BufferRead(f).at + 0 \in Nat /\ RequestedRead(f).at \in Nat
         /\ KindsRead(f).value \in Seq(Byte) /\ TextRead(f).value \in Seq(Byte)
         /\ LengthsRead(f).value \in Seq(Byte) /\ BufferRead(f).value \in Seq(Byte)
         /\ RequestedRead(f).value \in Seq(Byte) /\ FlagsRead(f).value \in Seq(Byte)
<1>1. WordSize \in Nat /\ 1 \in Nat /\ 2 * WordSize \in Nat /\ 0 \in Nat  BY WordsAssumption
<1>2. KindsRead(f).at \in Nat /\ KindsRead(f).value \in Seq(Byte)
  BY <1>1, CountedTyped DEF AllRead, KindsRead
<1>3. KindsRead(f).at + Padding(Len(KindsRead(f).value)) \in Nat
  <2>1. Len(KindsRead(f).value) \in Nat  BY <1>2, LenProperties
  <2>2. PICK n \in Nat : n = Len(KindsRead(f).value)  BY <2>1
  <2>3. Padding(n) \in 0 .. WordSize - 1  BY PaddingOf
  <2>. QED  BY <1>1, <1>2, <2>2, <2>3
<1>4. TextRead(f).at + 0 \in Nat /\ TextRead(f).value \in Seq(Byte)
  BY <1>1, <1>3, CountedTyped DEF AllRead, TextRead
<1>5. LengthsRead(f).at + 0 \in Nat /\ LengthsRead(f).value \in Seq(Byte)
  BY <1>1, <1>4, CountedTyped DEF AllRead, LengthsRead
<1>6. BufferRead(f).at + 0 \in Nat /\ BufferRead(f).value \in Seq(Byte)
  BY <1>1, <1>5, CountedTyped DEF AllRead, BufferRead
<1>7. RequestedRead(f).at \in Nat /\ RequestedRead(f).value \in Seq(Byte)
  BY <1>1, <1>6, CountedTyped DEF AllRead, RequestedRead
<1>8. FlagsRead(f).value \in Seq(Byte)  BY <1>1, <1>7, TakeTyped DEF AllRead, FlagsRead
<1>. QED  BY <1>2, <1>3, <1>4, <1>5, <1>6, <1>7, <1>8

(* A module_info that is shown is not the beginning of another. *)
LEMMA NoPrefixDecodes ==
  ASSUME NEW f \in Seq(Byte), DecodeInfo(f) # None, NEW l \in 0 .. Len(f) - 1
  PROVE  DecodeInfo(SubSeq(f, 1, l)) = None
<1>1. PICK g : g = SubSeq(f, 1, l)  OBVIOUS
<1>. SUFFICES ASSUME DecodeInfo(g) # None PROVE FALSE  BY <1>1
<1>2. l \in 0 .. Len(f) /\ l # Len(f)  BY LenProperties
<1>3. g \in Seq(Byte) /\ Len(g) = l /\ Begins(g, f)  BY <1>1, <1>2, PrefixType DEF Begins
<1>4. AllRead(g) /\ FlagsRead(g).at = l  BY <1>3, DecodeNeeds
<1>5. FlagsRead(f).at = Len(f)  BY DecodeNeeds
<1>6. WordSize \in Nat /\ 1 \in Nat /\ 2 * WordSize \in Nat /\ 0 \in Nat  BY WordsAssumption
<1>7. KindsRead(f) = KindsRead(g)
  BY <1>3, <1>4, <1>6, PrefixCounted DEF AllRead, KindsRead
<1>8. TextRead(f) = TextRead(g)
  <2>1. PICK p \in Nat : p = KindsRead(g).at + Padding(Len(KindsRead(g).value))
    BY <1>3, <1>4, ReadOffsets
  <2>2. TakeCounted(g, p, 1) # None  BY <1>4, <2>1 DEF AllRead, TextRead
  <2>3. TakeCounted(f, p, 1) = TakeCounted(g, p, 1)  BY <1>3, <1>6, <2>2, PrefixCounted
  <2>. QED  BY <1>7, <2>1, <2>3 DEF TextRead
<1>9. LengthsRead(f) = LengthsRead(g)
  <2>1. PICK p \in Nat : p = TextRead(g).at + 0  BY <1>3, <1>4, ReadOffsets
  <2>2. TakeCounted(g, p, WordSize) # None  BY <1>4, <2>1 DEF AllRead, LengthsRead
  <2>3. TakeCounted(f, p, WordSize) = TakeCounted(g, p, WordSize)
    BY <1>3, <1>6, <2>2, PrefixCounted
  <2>. QED  BY <1>8, <2>1, <2>3 DEF LengthsRead
<1>10. BufferRead(f) = BufferRead(g)
  <2>1. PICK p \in Nat : p = LengthsRead(g).at + 0  BY <1>3, <1>4, ReadOffsets
  <2>2. TakeCounted(g, p, WordSize) # None  BY <1>4, <2>1 DEF AllRead, BufferRead
  <2>3. TakeCounted(f, p, WordSize) = TakeCounted(g, p, WordSize)
    BY <1>3, <1>6, <2>2, PrefixCounted
  <2>. QED  BY <1>9, <2>1, <2>3 DEF BufferRead
<1>11. RequestedRead(f) = RequestedRead(g)
  <2>1. PICK p \in Nat : p = BufferRead(g).at + 0  BY <1>3, <1>4, ReadOffsets
  <2>2. TakeCounted(g, p, 2 * WordSize) # None  BY <1>4, <2>1 DEF AllRead, RequestedRead
  <2>3. TakeCounted(f, p, 2 * WordSize) = TakeCounted(g, p, 2 * WordSize)
    BY <1>3, <1>6, <2>2, PrefixCounted
  <2>. QED  BY <1>10, <2>1, <2>3 DEF RequestedRead
<1>12. FlagsRead(f) = FlagsRead(g)
  <2>1. PICK p \in Nat : p = RequestedRead(g).at  BY <1>3, <1>4, ReadOffsets
  <2>2. Take(g, p, WordSize) # None  BY <1>4, <2>1 DEF AllRead, FlagsRead
  <2>3. Take(f, p, WordSize) = Take(g, p, WordSize)  BY <1>3, <1>6, <2>2, PrefixTake
  <2>. QED  BY <1>11, <2>1, <2>3 DEF FlagsRead
<1>. QED  BY <1>2, <1>4, <1>5, <1>12

(* What decode_serialized_sourcemap takes. *)
HeaderRead(f) == Take(f, 0, 2 * WordSize)

Sources(f) == Words(HeaderRead(f).value)[1]

TableRead(f) == Take(f, HeaderRead(f).at, 4 * WordSize * Sources(f))

MappingsRead(f) == Take(f, TableRead(f).at, Words(HeaderRead(f).value)[2])

TextAt(f, k) ==
  Take(f, Words(TableRead(f).value)[2 * k - 1], Words(TableRead(f).value)[2 * k])

TextsRead(f) ==
  /\ \A k \in 1 .. 2 * Sources(f) : TextAt(f, k) # None
  /\ \A k \in Sources(f) + 1 .. 2 * Sources(f) : Decompress(TextAt(f, k).value) # None

LEMMA MapIs ==
  ASSUME NEW f, HeaderRead(f) # None, TableRead(f) # None, MappingsRead(f) # None
  PROVE  DecodeMap(f) =
           IF TextsRead(f)
           THEN [sources  |-> [k \in 1 .. Sources(f) |->
                                [name |-> Lossy(TextAt(f, k).value),
                                 size |-> Decompress(TextAt(f, Sources(f) + k).value)]],
                 mappings |-> Lossy(MappingsRead(f).value)]
           ELSE None
<1>. DEFINE header == Take(f, 0, 2 * WordSize)
            n == Words(header.value)[1]
            table == Take(f, header.at, 4 * WordSize * n)
            mappings == Take(f, table.at, Words(header.value)[2])
<1>1. header = HeaderRead(f) /\ n = Sources(f)  BY SameTake DEF HeaderRead, Sources
<1>2. table = TableRead(f)  BY <1>1, SameTake DEF TableRead
<1>3. mappings = MappingsRead(f)  BY <1>1, <1>2, SameTake DEF MappingsRead
<1>4. \A k : Take(f, Words(table.value)[2 * k - 1], Words(table.value)[2 * k])
             = TextAt(f, k)
  BY <1>2, SameTake DEF TextAt
<1>. QED  BY <1>1, <1>2, <1>3, <1>4 DEF DecodeMap, TextsRead

LEMMA MapNeeds ==
  ASSUME NEW f, DecodeMap(f) # None
  PROVE  HeaderRead(f) # None /\ TableRead(f) # None /\ MappingsRead(f) # None /\ TextsRead(f)
<1>1. HeaderRead(f) # None /\ TableRead(f) # None /\ MappingsRead(f) # None
  BY SameTake DEF DecodeMap, HeaderRead, Sources, TableRead, MappingsRead
<1>. QED  BY <1>1, MapIs

(* Each source that a sourcemap unfolds to has a pair of pointers in it. *)
LEMMA MapUnfolds ==
  ASSUME WellFormed, NEW f \in Seq(Byte), NEW v, v = DecodeMap(f), v # None
  PROVE  /\ \A k \in DOMAIN v.sources : v.sources[k].size <= Limit
         /\ Total([k \in DOMAIN v.sources |-> v.sources[k].size])
              <= Limit * (Len(f) \div (4 * WordSize))
<1>1. PICK w \in Nat \ {0}, l \in Nat : w = WordSize /\ l = Len(f)  BY WordsAssumption, LenProperties
<1>2. PICK header, n, table : header = HeaderRead(f) /\ n = Sources(f) /\ table = TableRead(f)  OBVIOUS
<1>3. /\ header # None /\ table # None /\ header = Take(f, 0, 2 * w)
      /\ n = Words(header.value)[1] /\ table = Take(f, header.at, 4 * w * n)
  BY <1>1, <1>2, MapNeeds DEF HeaderRead, Sources, TableRead
<1>4. n \in Nat /\ header.at = 2 * w
  <2>1. 0 \in Nat /\ 2 * w \in Nat  OBVIOUS
  <2>2. PICK h \in Seq(Byte) : Len(h) = 2 * w /\ header = [value |-> h, at |-> 0 + 2 * w]
    BY <1>3, <2>1, TakeGives
  <2>3. (2 * w) \div w = 2
    <3>1. 0 \in 0 .. w - 1  OBVIOUS
    <3>2. (0 + w * 2) \div w = 2  BY <3>1, DivModOf
    <3>3. 0 + w * 2 = 2 * w  OBVIOUS
    <3>. QED  BY <3>2, <3>3
  <2>4. Words(h) \in Seq(Nat) /\ Len(Words(h)) = 2  BY <1>1, <2>2, <2>3, WordsType
  <2>5. Words(h)[1] \in Nat
    <3>1. 1 \in 1 .. 2  OBVIOUS
    <3>. QED  BY <2>4, <3>1, ElementOfSeq
  <2>. QED  BY <1>3, <2>2, <2>5
<1>5. n <= l \div (4 * w)
  <2>1. PICK a \in Nat \ {0} : a = 4 * w  OBVIOUS
  <2>2. 4 * w * n = a * n /\ a * n \in Nat  BY <1>4, <2>1
  <2>3. 2 * w + a * n <= l  BY <1>1, <1>3, <1>4, <2>2 DEF Take
  <2>4. l \div a \in Nat /\ l % a \in 0 .. a - 1 /\ l = a * (l \div a) + (l % a)  BY <1>1, DivMod
  <2>5. PICK q \in Nat, r \in 0 .. a - 1 : q = l \div a /\ r = l % a  BY <2>4
  <2>6. PICK aq \in Nat, an \in Nat : aq = a * q /\ an = a * n  BY <2>2
  <2>7. l = aq + r /\ 2 * w + an <= l  BY <2>3, <2>4, <2>5, <2>6
  <2>8. ASSUME n > q PROVE FALSE
    <3>1. a * q + a <= a * n
      <4>1. a * (q + 1) <= a * n  BY <1>4, <2>8, SMT
      <4>2. a * (q + 1) = a * q + a  BY SMT
      <4>. QED  BY <4>1, <4>2
    <3>. QED  BY <2>6, <2>7, <3>1
  <2>. QED  BY <1>4, <2>1, <2>5, <2>8
<1>6. /\ DOMAIN v.sources = 1 .. n
      /\ \A k \in 1 .. n : v.sources[k].size = Decompress(TextAt(f, n + k).value)
  <2>1. PICK made : made = [k \in 1 .. n |-> [name |-> Lossy(TextAt(f, k).value),
                                             size |-> Decompress(TextAt(f, n + k).value)]]
    OBVIOUS
  <2>2. v = [sources |-> made, mappings |-> Lossy(MappingsRead(f).value)]  BY <1>2, <2>1, MapNeeds, MapIs
  <2>3. v.sources = made  BY <2>2
  <2>. QED  BY <2>1, <2>3
<1>7. ASSUME NEW k \in 1 .. n PROVE v.sources[k].size \in Nat /\ v.sources[k].size <= Limit
  <2>1. n + k \in n + 1 .. 2 * n /\ n + k \in 1 .. 2 * n  BY <1>4
  <2>2. TextAt(f, n + k) # None /\ Decompress(TextAt(f, n + k).value) # None
    BY <1>2, <2>1, MapNeeds DEF TextsRead
  <2>3. PICK b : b = TextAt(f, n + k).value  OBVIOUS
  <2>4. ~(Len(b) < 2) /\ ~(b[2] > Limit) /\ Decompress(b) = b[2]
    BY <2>2, <2>3 DEF Decompress
  <2>5. b \in Seq(Byte)
    <3>1. PICK t \in Seq(Byte) : Len(t) = 4 * w * n /\ table.value = t
      <4>1. 2 * w \in Nat /\ 4 * w * n \in Nat  BY <1>4
      <4>. QED  BY <1>3, <1>4, <4>1, TakeGives
    <3>2. PICK words \in Seq(Nat) : words = Words(t) /\ Len(words) = 4 * n
      <4>1. (4 * w * n) \div w = 4 * n
        <5>1. 0 \in 0 .. w - 1 /\ 4 * n \in Nat  BY <1>4
        <5>2. (0 + w * (4 * n)) \div w = 4 * n  BY <5>1, DivModOf
        <5>3. w * (4 * n) = 4 * w * n /\ w * (4 * n) \in Nat  BY <1>4, SMT
        <5>. QED  BY <5>2, <5>3
      <4>. QED  BY <1>1, <3>1, <4>1, WordsType
    <3>3. 2 * (n + k) - 1 \in 1 .. 4 * n /\ 2 * (n + k) \in 1 .. 4 * n  BY <1>4
    <3>4. PICK p \in Nat, m \in Nat : p = words[2 * (n + k) - 1] /\ m = words[2 * (n + k)]
      BY <3>2, <3>3, ElementOfSeq
    <3>5. TextAt(f, n + k) = Take(f, p, m)  BY <1>2, <3>1, <3>2, <3>4 DEF TextAt
    <3>. QED  BY <2>2, <2>3, <3>5, TakeTyped
  <2>6. b[2] \in Nat
    <3>1. Len(b) \in Nat  BY <2>5, LenProperties
    <3>2. 2 \in 1 .. Len(b)  BY <2>4, <3>1
    <3>3. b[2] \in Byte  BY <2>5, <3>2, ElementOfSeq
    <3>. QED  BY <3>3, WordsAssumption DEF Byte
  <2>7. Limit \in Nat  BY DEF WellFormed
  <2>. QED  BY <1>6, <2>3, <2>4, <2>6, <2>7
<1>8. PICK sizes : sizes = [k \in 1 .. n |-> v.sources[k].size]  OBVIOUS
<1>9. /\ sizes \in Seq(Nat) /\ Len(sizes) = n
      /\ \A k \in 1 .. n : sizes[k] <= Limit
  BY <1>4, <1>7, <1>8
<1>10. Limit \in Nat  BY DEF WellFormed
<1>11. Total(sizes) \in Nat /\ Total(sizes) <= Limit * n  BY <1>9, <1>10, TotalBounded
<1>12. Total(sizes) <= Limit * (l \div (4 * w))
  <2>1. 4 * w \in Nat \ {0}  OBVIOUS
  <2>2. PICK q \in Nat : q = l \div (4 * w)  BY <1>1, <2>1, DivMod
  <2>3. Limit * n <= Limit * q  BY <1>4, <1>5, <1>10, <2>2, SMT
  <2>4. Limit * n \in Nat /\ Limit * q \in Nat  BY <1>4, <1>10
  <2>. QED  BY <1>11, <2>2, <2>3, <2>4
<1>. QED  BY <1>1, <1>6, <1>7, <1>8, <1>12

-----------------------------------------------------------------------------
(* What is written as a module_info *)

LEMMA MaxWordLarge == MaxWord \in Nat /\ MaxWord >= Radix - 1
<1>1. PICK w \in Nat \ {0}, r \in Nat \ {0} : w = WordSize /\ r = Radix  BY WordsAssumption
<1>2. PICK b \in Seq(Byte) : b = [k \in 1 .. w |-> r - 1]  BY <1>1, LargestType
<1>3. Len(b) = w /\ MaxWord = Number(b)  BY <1>1, <1>2 DEF MaxWord
<1>4. PICK s \in [0 .. w -> Nat] :
        (\A k \in 1 .. w : s[k] = b[w + 1 - k] + r * s[k - 1]) /\ MaxWord = s[w]
  BY <1>1, <1>3, NumberSums
<1>5. w \in 1 .. w /\ w + 1 - w = 1 /\ 1 \in 1 .. w /\ w - 1 \in 0 .. w  OBVIOUS
<1>6. s[w] = (r - 1) + r * s[w - 1]  BY <1>2, <1>4, <1>5
<1>7. PICK m \in Nat : m = s[w - 1]  BY <1>5
<1>8. r * m \in Nat  OBVIOUS
<1>. QED  BY <1>1, <1>4, <1>6, <1>7, <1>8

LEMMA FlatType ==
  ASSUME NEW ws \in Seq(Nat)
  PROVE  Flat(ws) \in Seq(Byte) /\ Len(Flat(ws)) = WordSize * Len(ws)
<1>1. PICK w \in Nat \ {0} : w = WordSize  BY WordsAssumption
<1>2. PICK n \in Nat : n = Len(ws) /\ DOMAIN ws = 1 .. n  BY LenProperties
<1>3. \A k \in 1 .. n : ws[k] \in Nat  BY <1>2, ElementOfSeq
<1>4. PICK seqs : seqs = [k \in 1 .. n |-> Word(ws[k])]  OBVIOUS
<1>5. \A k \in 1 .. n : Word(ws[k]) \in Seq(Byte) /\ Len(Word(ws[k])) = w  BY <1>1, <1>3, WordType
<1>6. seqs \in Seq(Seq(Byte)) /\ Len(seqs) = n /\ \A k \in 1 .. n : seqs[k] = Word(ws[k])
  BY <1>4, <1>5
<1>7. PICK l \in Seq(Nat) : l = Lengths(seqs) /\ Len(l) = n /\ \A k \in 1 .. n : l[k] = w
  <2>1. /\ Lengths(seqs) \in Seq(Nat) /\ Len(Lengths(seqs)) = n
        /\ \A k \in 1 .. n : Lengths(seqs)[k] = Len(seqs[k])
    BY <1>6, LengthsType
  <2>2. \A k \in 1 .. n : Len(seqs[k]) = w  BY <1>5, <1>6
  <2>. QED  BY <2>1, <2>2
<1>8. Total(l) = w * n
  <2>1. n + 1 \in 1 .. n + 1 /\ (n + 1) - 1 = n  OBVIOUS
  <2>2. Start(l, n + 1) = w * ((n + 1) - 1)  BY <1>7, <2>1, EvenStarts
  <2>. QED  BY <1>7, <2>1, <2>2, Starts
<1>9. Flat(ws) = FlattenSeq(seqs)  BY <1>2, <1>4, SameWord DEF Flat
<1>. QED  BY <1>1, <1>2, <1>6, <1>7, <1>8, <1>9, PiecesOfFlat

LEMMA IdType ==
  ASSUME WellFormed, NEW s \in Seq(Seq(Byte)),
         NEW x \in Texts \cup Attributes, x \in Seq(Byte) => \E k \in DOMAIN s : s[k] = x
  PROVE  Id(s, x) \in Nat
<1>1. PICK max \in Nat : max = MaxWord /\ max >= 3
  <2>1. Radix > 9 /\ Radix \in Nat  BY WordsAssumption DEF WellFormed, Kinds
  <2>. QED  BY <2>1, MaxWordLarge
<1>2. CASE x \in Seq(Byte)
  <2>1. x \notin Specials  BY <1>2, SpecialApart
  <2>2. PICK n \in Nat : DOMAIN s = 1 .. n  BY LenProperties
  <2>3. PICK k : k = CHOOSE i \in DOMAIN s : s[i] = x  OBVIOUS
  <2>4. k \in 1 .. n  BY <1>2, <2>2, <2>3
  <2>5. Id(s, x) = k - 1  BY <2>1, <2>3 DEF Id, Specials
  <2>. QED  BY <2>4, <2>5
<1>3. CASE x \notin Seq(Byte)
  <2>1. x \in Specials  BY <1>3 DEF Texts, Attributes, Specials
  <2>2. Id(s, x) \in {max, max - 1, max - 2, max - 3}
    BY <1>1, <2>1, SpecialApart, SameWord DEF Id, Specials
  <2>. QED  BY <1>1, <2>2
<1>. QED  BY <1>2, <1>3

LEMMA NineKinds == DOMAIN Kinds = 1 .. 9 /\ Len(Kinds) = 9
BY DEF Kinds

LEMMA KindKnown ==
  ASSUME NEW kind \in Range(Kinds)
  PROVE  /\ KindByte(kind) \in 0 .. 8 /\ Kinds[KindByte(kind) + 1] = kind
         /\ Width[KindByte(kind) + 1] \in Nat
         /\ Arity[KindByte(kind) + 1] \in 0 .. Width[KindByte(kind) + 1]
<1>1. DOMAIN Kinds = 1 .. 9  BY NineKinds
<1>2. PICK k : k = CHOOSE i \in DOMAIN Kinds : Kinds[i] = kind  OBVIOUS
<1>3. k \in 1 .. 9 /\ Kinds[k] = kind
  <2>1. \E i \in DOMAIN Kinds : Kinds[i] = kind  BY DEF Range
  <2>. QED  BY <1>1, <1>2, <2>1
<1>4. KindByte(kind) = k - 1 /\ (k - 1) + 1 = k /\ k - 1 \in 0 .. 8
  <2>1. KindByte(kind) = k - 1  BY <1>2, Zenon DEF KindByte
  <2>. QED  BY <1>3, <2>1
<1>5. \A i \in 1 .. 9 : Width[i] \in Nat /\ Arity[i] \in 0 .. Width[i]
  BY DEF Width, Arity
<1>. QED  BY <1>3, <1>4, <1>5

(* The fields of a module_info. *)
Strings(info) == InfoStrings(info)

KindBytes(info) == [k \in DOMAIN info.records |-> KindByte(info.records[k].kind)]

WordsOf(info, r) ==
  [i \in 1 .. Width[KindByte(r.kind) + 1] |->
     IF i \in DOMAIN r.names THEN Id(Strings(info), r.names[i]) ELSE 0]

RecordWords(info) == [k \in DOMAIN info.records |-> WordsOf(info, info.records[k])]

Buffer(info) == FlattenSeq(RecordWords(info))

KeysOf(info) ==
  [k \in DOMAIN info.requested |-> Id(Strings(info), info.requested[k].module)]

ValuesOf(info) ==
  [k \in DOMAIN info.requested |-> Id(Strings(info), info.requested[k].attributes)]

InfoParts(info) ==
  <<Word(Len(KindBytes(info))), KindBytes(info),
    Zeros((-Len(KindBytes(info))) % WordSize),
    Word(Len(FlattenSeq(Strings(info)))), FlattenSeq(Strings(info)),
    Word(Len(Strings(info))), Flat(Lengths(Strings(info))),
    Word(Len(Buffer(info))), Flat(Buffer(info)),
    Word(Len(KeysOf(info))), Flat(KeysOf(info) \o ValuesOf(info)),
    <<info.flags>> \o Zeros(WordSize - 1)>>

LEMMA InfoBytesAre == ASSUME NEW info PROVE InfoBytes(info) = FlattenSeq(InfoParts(info))
<1>1. RecordWords(info) =
        [k \in DOMAIN info.records |->
           [i \in 1 .. Width[KindByte(info.records[k].kind) + 1] |->
              IF i \in DOMAIN info.records[k].names
              THEN Id(InfoStrings(info), info.records[k].names[i]) ELSE 0]]
  BY DEF RecordWords, WordsOf, Strings
<1>. QED
  BY <1>1, SameWord
  DEF InfoBytes, InfoParts, KindBytes, Strings, Buffer, KeysOf, ValuesOf, Lengths

(* The names of a record or a request are in the string table. *)
LEMMA RecordGiven ==
  ASSUME WellFormed, NEW info, Recordable(info), NEW k \in DOMAIN info.records
  PROVE  /\ info.records[k] \in InfoRecord
         /\ \A i \in DOMAIN info.records[k].names :
              LET x == info.records[k].names[i] IN
                x \in Texts /\ (x \in Seq(Byte) => \E j \in DOMAIN Strings(info) : Strings(info)[j] = x)
<1>1. info.records[k] \in InfoRecord  BY InfoType
<1>2. ASSUME NEW i \in DOMAIN info.records[k].names
      PROVE  /\ info.records[k].names[i] \in Texts
             /\ info.records[k].names[i] \in Given(info)
  <2>1. info.records[k].names[i] \in Range(info.records[k].names)  BY DEF Range
  <2>. QED  BY <1>1, <2>1, RecordType DEF Given
<1>. QED  BY <1>1, <1>2, StringTable DEF Strings

LEMMA RequestGiven ==
  ASSUME WellFormed, NEW info, Recordable(info), NEW k \in DOMAIN info.requested,
         NEW r, r = info.requested[k]
  PROVE  /\ r = [module |-> r.module, attributes |-> r.attributes]
         /\ r.module \in Texts /\ r.attributes \in Attributes
         /\ r.module \in Seq(Byte) => \E j \in DOMAIN Strings(info) : Strings(info)[j] = r.module
         /\ r.attributes \in Seq(Byte) =>
              \E j \in DOMAIN Strings(info) : Strings(info)[j] = r.attributes
<1>1. r \in Request  BY InfoType
<1>2. r \in Range(info.requested)  BY DEF Range
<1>3. r.module \in Given(info) /\ r.attributes \in Given(info)
  <2>1. {r.module, r.attributes} \in {{q.module, q.attributes} : q \in Range(info.requested)}
    BY <1>2
  <2>. QED  BY <2>1 DEF Given
<1>. QED  BY <1>1, <1>3, RequestType, StringTable DEF Strings

LEMMA ZerosType ==
  ASSUME NEW n \in Nat
  PROVE  Zeros(n) \in Seq(Byte) /\ Len(Zeros(n)) = n
<1>1. 0 \in Byte  BY WordsAssumption DEF Byte
<1>2. Zeros(n) \in [1 .. n -> Byte]  BY <1>1 DEF Zeros
<1>. QED  BY <1>2

LEMMA FieldTypes ==
  ASSUME WellFormed, NEW info, Recordable(info)
  PROVE  /\ Strings(info) \in Seq(Seq(Byte))
         /\ KindBytes(info) \in Seq(Byte) /\ Len(KindBytes(info)) = Len(info.records)
         /\ DOMAIN KindBytes(info) = 1 .. Len(info.records)
         /\ RecordWords(info) \in Seq(Seq(Nat)) /\ Buffer(info) \in Seq(Nat)
         /\ KeysOf(info) \in Seq(Nat) /\ Len(KeysOf(info)) = Len(info.requested)
         /\ ValuesOf(info) \in Seq(Nat) /\ Len(ValuesOf(info)) = Len(info.requested)
         /\ info.flags \in Byte
<1>1. PICK n \in Nat : n = Len(info.records) /\ DOMAIN info.records = 1 .. n  BY InfoType
<1>2. PICK m \in Nat : m = Len(info.requested) /\ DOMAIN info.requested = 1 .. m  BY InfoType
<1>3. Radix \in Nat /\ Radix > 9
  BY WordsAssumption, NineKinds DEF WellFormed
<1>4. Strings(info) \in Seq(Seq(Byte))  BY StringTable DEF Strings
<1>5. \A k \in 1 .. n : info.records[k] \in InfoRecord
                        /\ info.records[k].kind \in Range(Kinds)
  BY <1>1, RecordGiven, RecordType
<1>6. KindBytes(info) \in [1 .. n -> Byte]
  <2>1. \A k \in 1 .. n : KindByte(info.records[k].kind) \in 0 .. 8  BY <1>5, KindKnown
  <2>2. 0 .. 8 \subseteq Byte  BY <1>3 DEF Byte
  <2>3. KindBytes(info) = [k \in 1 .. n |-> KindByte(info.records[k].kind)]
    BY <1>1 DEF KindBytes
  <2>. QED  BY <2>1, <2>2, <2>3
<1>7. RecordWords(info) \in Seq(Seq(Nat))
  <2>1. ASSUME NEW k \in 1 .. n PROVE WordsOf(info, info.records[k]) \in Seq(Nat)
    <3>1. PICK r : r = info.records[k]  OBVIOUS
    <3>2. PICK w \in Nat : w = Width[KindByte(r.kind) + 1]  BY <1>5, <3>1, KindKnown
    <3>3. ASSUME NEW i \in DOMAIN r.names PROVE Id(Strings(info), r.names[i]) \in Nat
      <4>1. PICK x : x = r.names[i]  OBVIOUS
      <4>2. x \in Texts /\ (x \in Seq(Byte) => \E j \in DOMAIN Strings(info) : Strings(info)[j] = x)
        BY <1>1, <3>1, <4>1, RecordGiven
      <4>3. x \in Texts \cup Attributes  BY <4>2
      <4>. QED  BY <1>4, <4>1, <4>2, <4>3, IdType
    <3>4. WordsOf(info, r) \in [1 .. w -> Nat]  BY <3>2, <3>3 DEF WordsOf
    <3>. QED  BY <3>1, <3>4
  <2>2. RecordWords(info) \in [1 .. n -> Seq(Nat)]  BY <1>1, <2>1 DEF RecordWords
  <2>. QED  BY <2>2
<1>8. Buffer(info) \in Seq(Nat)  BY <1>7, PiecesOfFlat DEF Buffer
<1>9. KeysOf(info) \in [1 .. m -> Nat] /\ ValuesOf(info) \in [1 .. m -> Nat]
  <2>1. ASSUME NEW k \in 1 .. m
        PROVE  /\ Id(Strings(info), info.requested[k].module) \in Nat
               /\ Id(Strings(info), info.requested[k].attributes) \in Nat
    <3>1. PICK x, y : x = info.requested[k].module /\ y = info.requested[k].attributes  OBVIOUS
    <3>2. /\ x \in Texts \cup Attributes /\ y \in Texts \cup Attributes
          /\ x \in Seq(Byte) => \E j \in DOMAIN Strings(info) : Strings(info)[j] = x
          /\ y \in Seq(Byte) => \E j \in DOMAIN Strings(info) : Strings(info)[j] = y
      BY <1>2, <3>1, RequestGiven
    <3>. QED  BY <1>4, <3>1, <3>2, IdType
  <2>. QED  BY <1>2, <2>1 DEF KeysOf, ValuesOf
<1>10. info.flags \in Byte
  <2>1. info.flags \in 0 .. 3  BY InfoType
  <2>. QED  BY <1>3, <2>1 DEF Byte
<1>11. Len(KeysOf(info)) = m /\ Len(ValuesOf(info)) = m /\ KeysOf(info) \in Seq(Nat) /\ ValuesOf(info) \in Seq(Nat)
  BY <1>9
<1>12. KindBytes(info) \in Seq(Byte) /\ Len(KindBytes(info)) = n /\ DOMAIN KindBytes(info) = 1 .. n
  BY <1>6
<1>. QED  BY <1>1, <1>2, <1>4, <1>7, <1>8, <1>10, <1>11, <1>12

(* Texts one behind the other, and where each of them stands. *)
LEMMA PartsStand ==
  ASSUME NEW seqs \in Seq(Seq(Byte))
  PROVE  \E p : /\ p[1] = 0 /\ p[Len(seqs) + 1] = Len(FlattenSeq(seqs))
                /\ \A k \in 1 .. Len(seqs) + 1 :
                     p[k] \in Nat /\ p[k] <= Len(FlattenSeq(seqs))
                /\ \A k \in 1 .. Len(seqs) :
                     /\ p[k + 1] = p[k] + Len(seqs[k])
                     /\ Holds(FlattenSeq(seqs), p[k], seqs[k])
<1>1. PICK n \in Nat : n = Len(seqs)  BY LenProperties
<1>2. PICK l \in Seq(Nat) : /\ l = Lengths(seqs) /\ Len(l) = n
                            /\ \A j \in 1 .. n : l[j] = Len(seqs[j])
  BY <1>1, LengthsType
<1>3. PICK p : p = [k \in 1 .. n + 1 |-> Start(l, k)]  OBVIOUS
<1>4. PICK f : f = FlattenSeq(seqs)  OBVIOUS
<1>5. p[1] = 0 /\ p[n + 1] = Len(f)
  <2>1. 1 \in 1 .. n + 1 /\ n + 1 \in 1 .. n + 1  BY <1>1
  <2>2. Len(f) = Start(l, n + 1)  BY <1>2, <1>4, PiecesOfFlat, Starts
  <2>. QED  BY <1>2, <1>3, <2>1, <2>2, Starts
<1>6. ASSUME NEW k \in 1 .. n + 1 PROVE p[k] \in Nat /\ p[k] <= Len(f)
  <2>1. n + 1 \in 1 .. n + 1 /\ k <= n + 1  BY <1>1
  <2>2. Start(l, k) \in Nat /\ Start(l, k) <= Start(l, n + 1)
    BY <1>2, <2>1, Starts, StartsGrow
  <2>. QED  BY <1>3, <1>5, <2>1, <2>2
<1>7. ASSUME NEW k \in 1 .. n PROVE p[k + 1] = p[k] + Len(seqs[k]) /\ Holds(f, p[k], seqs[k])
  <2>1. k \in 1 .. n + 1 /\ k + 1 \in 1 .. n + 1  BY <1>1
  <2>2. Start(l, k + 1) = Start(l, k) + Len(seqs[k])  BY <1>2, Starts
  <2>3. Holds(f, Start(l, k), seqs[k])  BY <1>1, <1>2, <1>4, FlatHolds
  <2>. QED  BY <1>3, <2>1, <2>2, <2>3
<1>. QED  BY <1>1, <1>4, <1>5, <1>6, <1>7

(* A number with the elements that it counts. *)
Counted(f, p, n, v) == Holds(f, p, Word(n)) /\ Holds(f, p + WordSize, v)

LEMMA CountedFinds ==
  ASSUME NEW f \in Seq(Byte), NEW p \in Nat, NEW n \in Nat, n <= MaxWord, NEW v \in Seq(Byte),
         NEW size \in Nat, Len(v) = size * n, Counted(f, p, n, v)
  PROVE  /\ TakeCounted(f, p, size) = [value |-> v, at |-> p + WordSize + Len(v)]
         /\ TakeCounted(f, p, size) # None
<1>1. PICK w \in Nat : w = WordSize  BY WordsAssumption
<1>2. PICK u \in Seq(Byte) : u = Word(n) /\ Len(u) = w /\ Number(u) = n
  BY <1>1, WordType, NumberOfWord
<1>3. Holds(f, p, u) /\ Holds(f, p + w, v)  BY <1>1, <1>2 DEF Counted
<1>4. PICK q \in Nat : q = p + w  OBVIOUS
<1>5. Take(f, p, w) = [value |-> u, at |-> q] /\ Take(f, p, w) # None
  BY <1>2, <1>3, <1>4, TakeFinds
<1>6. PICK m \in Nat : m = Len(v) /\ m = size * n  BY LenProperties
<1>7. Take(f, q, m) = [value |-> v, at |-> q + m] /\ Take(f, q, m) # None
  <2>1. Holds(f, q, v)  BY <1>3, <1>4
  <2>2. Take(f, q, Len(v)) = [value |-> v, at |-> q + Len(v)] /\ Take(f, q, Len(v)) # None
    BY <2>1, TakeFinds
  <2>. QED  BY <1>6, <2>2
<1>8. TakeCounted(f, p, size) = Take(f, q, m)
  BY <1>1, <1>2, <1>5, <1>6 DEF TakeCounted
<1>. QED  BY <1>1, <1>4, <1>6, <1>7, <1>8

LEMMA PartsType ==
  ASSUME WellFormed, NEW info, Recordable(info)
  PROVE  /\ InfoParts(info) \in Seq(Seq(Byte)) /\ Len(InfoParts(info)) = 12
         /\ \A k \in 1 .. 12 : InfoParts(info)[k] \in Seq(Byte)
         /\ InfoBytes(info) \in Seq(Byte) /\ Len(InfoBytes(info)) <= MaxWord
<1>1. PICK n \in Nat : n = Len(info.records) /\ n = Len(KindBytes(info))  BY InfoType, FieldTypes
<1>2. PICK w \in Nat \ {0} : w = WordSize  BY WordsAssumption
<1>3. /\ KindBytes(info) \in Seq(Byte) /\ Strings(info) \in Seq(Seq(Byte)) /\ Buffer(info) \in Seq(Nat)
      /\ KeysOf(info) \in Seq(Nat) /\ ValuesOf(info) \in Seq(Nat) /\ info.flags \in Byte
  BY FieldTypes
<1>4. Word(n) \in Seq(Byte)  BY WordType
<1>5. Zeros((-n) % WordSize) \in Seq(Byte)
  <2>1. (-n) % WordSize \in Nat  BY <1>2, PaddingOf
  <2>. QED  BY <2>1, ZerosType
<1>6. /\ FlattenSeq(Strings(info)) \in Seq(Byte)
      /\ Word(Len(FlattenSeq(Strings(info)))) \in Seq(Byte)
  BY <1>3, PiecesOfFlat, LenProperties, WordType
<1>7. Word(Len(Strings(info))) \in Seq(Byte)  BY <1>3, LenProperties, WordType
<1>8. Flat(Lengths(Strings(info))) \in Seq(Byte)  BY <1>3, LengthsType, FlatType
<1>9. Word(Len(Buffer(info))) \in Seq(Byte) /\ Flat(Buffer(info)) \in Seq(Byte)
  BY <1>3, LenProperties, WordType, FlatType
<1>10. Word(Len(KeysOf(info))) \in Seq(Byte)  BY <1>3, LenProperties, WordType
<1>11. Flat(KeysOf(info) \o ValuesOf(info)) \in Seq(Byte)
  <2>1. KeysOf(info) \o ValuesOf(info) \in Seq(Nat)  BY <1>3, ConcatProperties
  <2>. QED  BY <2>1, FlatType
<1>12. <<info.flags>> \o Zeros(WordSize - 1) \in Seq(Byte)
  <2>1. <<info.flags>> \in Seq(Byte)  BY <1>3
  <2>2. WordSize - 1 \in Nat  BY <1>2
  <2>3. Zeros(WordSize - 1) \in Seq(Byte)  BY <2>2, ZerosType
  <2>. QED  BY <2>1, <2>3, ConcatProperties
<1>13. InfoParts(info) \in Seq(Seq(Byte)) /\ Len(InfoParts(info)) = 12
  BY <1>1, <1>3, <1>4, <1>5, <1>6, <1>7, <1>8, <1>9, <1>10, <1>11, <1>12 DEF InfoParts
<1>14. InfoBytes(info) \in Seq(Byte)  BY <1>13, InfoBytesAre, PiecesOfFlat
<1>15. Len(InfoBytes(info)) <= MaxWord  BY SameWord DEF Recordable
<1>16. \A k \in 1 .. 12 : InfoParts(info)[k] \in Seq(Byte)  BY <1>13, ElementOfSeq
<1>. QED  BY <1>13, <1>14, <1>15, <1>16

(* Where the fields of a module_info stand. *)
Stands(info, f, p) ==
  /\ p[1] = 0 /\ p[13] = Len(f)
  /\ \A k \in 1 .. 13 : p[k] \in Nat /\ p[k] <= Len(f)
  /\ \A k \in 1 .. 12 : p[k + 1] = p[k] + Len(InfoParts(info)[k]) /\ Holds(f, p[k], InfoParts(info)[k])

LEMMA InfoStands ==
  ASSUME WellFormed, NEW info, Recordable(info)
  PROVE  \E p : Stands(info, InfoBytes(info), p)
<1>1. PICK s \in Seq(Seq(Byte)) : s = InfoParts(info) /\ Len(s) = 12  BY PartsType
<1>2. PICK f : f = FlattenSeq(s) /\ f = InfoBytes(info)  BY <1>1, InfoBytesAre
<1>3. PICK p : /\ p[1] = 0 /\ p[Len(s) + 1] = Len(f)
               /\ \A k \in 1 .. Len(s) + 1 : p[k] \in Nat /\ p[k] <= Len(f)
               /\ \A k \in 1 .. Len(s) : p[k + 1] = p[k] + Len(s[k]) /\ Holds(f, p[k], s[k])
  BY <1>2, PartsStand
<1>4. Len(s) + 1 = 13  BY <1>1
<1>5. p[13] = Len(f) /\ \A k \in 1 .. 13 : p[k] \in Nat /\ p[k] <= Len(f)  BY <1>3, <1>4
<1>6. \A k \in 1 .. 12 : /\ p[k + 1] = p[k] + Len(InfoParts(info)[k])
                         /\ Holds(f, p[k], InfoParts(info)[k])
  BY <1>1, <1>3
<1>. QED  BY <1>2, <1>3, <1>5, <1>6 DEF Stands

(* No number in it is too large for the bytes it has. *)
LEMMA FieldsSmall ==
  ASSUME WellFormed, NEW info, Recordable(info)
  PROVE  /\ Len(KindBytes(info)) <= MaxWord
         /\ Len(FlattenSeq(Strings(info))) <= MaxWord
         /\ \A k \in 1 .. Len(Strings(info)) : Len(Strings(info)[k]) <= MaxWord
         /\ Len(Strings(info)) + 3 <= MaxWord
         /\ Len(Buffer(info)) <= MaxWord /\ Len(KeysOf(info)) <= MaxWord
<1>1. PICK w \in Nat \ {0}, max \in Nat : w = WordSize /\ max = MaxWord
  BY WordsAssumption, MaxWordType
<1>2. PICK f \in Seq(Byte), l \in Nat : f = InfoBytes(info) /\ l = Len(f) /\ l <= max
  BY <1>1, PartsType, LenProperties
<1>3. PICK p : Stands(info, f, p)  BY <1>2, InfoStands
<1>4. ASSUME NEW k \in 1 .. 12
      PROVE  /\ Len(InfoParts(info)[k]) \in Nat /\ p[k] \in Nat /\ p[k + 1] \in Nat
             /\ p[k + 1] <= l /\ p[k + 1] = p[k] + Len(InfoParts(info)[k])
  <2>1. PICK j \in 1 .. 13 : j = k + 1  OBVIOUS
  <2>2. Len(InfoParts(info)[k]) \in Nat  BY PartsType, LenProperties
  <2>3. p[j] \in Nat /\ p[j] <= l  BY <1>2, <1>3 DEF Stands
  <2>4. k \in 1 .. 13  OBVIOUS
  <2>5. p[k] \in Nat  BY <1>3, <2>4 DEF Stands
  <2>6. p[k + 1] = p[k] + Len(InfoParts(info)[k])  BY <1>3 DEF Stands
  <2>. QED  BY <2>1, <2>2, <2>3, <2>5, <2>6
<1>5. ASSUME NEW k \in 1 .. 12 PROVE Len(InfoParts(info)[k]) <= max /\ p[k] <= p[k + 1]
  <2>1. PICK a \in Nat, b \in Nat, c \in Nat : a = p[k] /\ b = Len(InfoParts(info)[k]) /\ c = p[k + 1]
    BY <1>4
  <2>2. c <= l /\ c = a + b  BY <1>4, <2>1
  <2>. QED  BY <1>2, <2>1, <2>2
<1>6. /\ Strings(info) \in Seq(Seq(Byte)) /\ Buffer(info) \in Seq(Nat)
      /\ KeysOf(info) \in Seq(Nat) /\ ValuesOf(info) \in Seq(Nat)
  BY FieldTypes
<1>7. Len(KindBytes(info)) <= max
  <2>1. InfoParts(info)[2] = KindBytes(info)  BY DEF InfoParts
  <2>. QED  BY <1>5, <2>1
<1>8. Len(FlattenSeq(Strings(info))) <= max
  <2>1. InfoParts(info)[5] = FlattenSeq(Strings(info))  BY DEF InfoParts
  <2>. QED  BY <1>5, <2>1
<1>9. ASSUME NEW k \in 1 .. Len(Strings(info)) PROVE Len(Strings(info)[k]) <= max
  <2>1. PICK t \in Seq(Byte), q \in Nat : /\ t = FlattenSeq(Strings(info))
                                          /\ Holds(t, q, Strings(info)[k])
    BY <1>6, PiecesOfFlat, FlatHolds
  <2>2. Len(t) \in Nat /\ Len(Strings(info)[k]) \in Nat  BY <1>6, ElementOfSeq, LenProperties
  <2>. QED  BY <1>1, <1>8, <2>1, <2>2 DEF Holds
<1>10. ASSUME NEW v \in Seq(Nat) PROVE Len(v) \in Nat /\ w * Len(v) \in Nat /\ Len(v) <= w * Len(v)
  <2>1. PICK n \in Nat : n = Len(v)  BY LenProperties
  <2>2. n <= w * n  BY SMT
  <2>. QED  BY <2>1, <2>2
<1>11. Len(Buffer(info)) <= max
  <2>1. InfoParts(info)[9] = Flat(Buffer(info))  BY DEF InfoParts
  <2>2. Len(Flat(Buffer(info))) = w * Len(Buffer(info))  BY <1>1, <1>6, FlatType
  <2>3. w * Len(Buffer(info)) <= max  BY <1>5, <2>1, <2>2
  <2>. QED  BY <1>6, <1>10, <2>3
<1>12. Len(KeysOf(info)) <= max
  <2>1. PICK v \in Seq(Nat) : v = KeysOf(info) \o ValuesOf(info)  BY <1>6, ConcatProperties
  <2>2. Len(v) = Len(KeysOf(info)) + Len(ValuesOf(info))  BY <1>6, <2>1, ConcatProperties
  <2>3. InfoParts(info)[11] = Flat(v)  BY <2>1 DEF InfoParts
  <2>4. Len(Flat(v)) = w * Len(v)  BY <1>1, FlatType
  <2>5. w * Len(v) <= max  BY <1>5, <2>3, <2>4
  <2>6. Len(v) <= max  BY <1>10, <2>5
  <2>. QED  BY <1>6, <1>10, <2>2, <2>6
<1>13. Len(Strings(info)) + 3 <= max
  <2>1. PICK m \in Nat : m = Len(Strings(info))  BY <1>6, LenProperties
  <2>2. PICK v \in Seq(Nat) : v = Lengths(Strings(info)) /\ Len(v) = m  BY <1>6, <2>1, LengthsType
  <2>3. PICK wm \in Nat : wm = w * m /\ m <= wm  BY <1>10, <2>2
  <2>4. InfoParts(info)[7] = Flat(v)  BY <2>2 DEF InfoParts
  <2>5. Len(InfoParts(info)[7]) = wm  BY <1>1, <2>2, <2>3, <2>4, FlatType
  <2>6. \A k \in {1, 4, 6} : Len(InfoParts(info)[k]) = w
    <3>1. InfoParts(info)[1] = Word(Len(KindBytes(info)))  BY DEF InfoParts
    <3>2. InfoParts(info)[4] = Word(Len(FlattenSeq(Strings(info))))  BY DEF InfoParts
    <3>3. InfoParts(info)[6] = Word(Len(Strings(info)))  BY DEF InfoParts
    <3>4. /\ Len(KindBytes(info)) \in Nat /\ Len(Strings(info)) \in Nat
          /\ Len(FlattenSeq(Strings(info))) \in Nat
      BY FieldTypes, PiecesOfFlat, LenProperties
    <3>5. Len(InfoParts(info)[1]) = w /\ Len(InfoParts(info)[4]) = w /\ Len(InfoParts(info)[6]) = w
      BY <1>1, <3>1, <3>2, <3>3, <3>4, WordType, Zenon
    <3>. QED  BY <3>5
  <2>7. \A k \in 1 .. 12 : p[k] <= p[k + 1]  BY <1>5
  <2>8. /\ 1 \in 1 .. 12 /\ 2 \in 1 .. 12 /\ 3 \in 1 .. 12 /\ 4 \in 1 .. 12 /\ 5 \in 1 .. 12
        /\ 6 \in 1 .. 12 /\ 7 \in 1 .. 12
        /\ 1 + 1 = 2 /\ 2 + 1 = 3 /\ 3 + 1 = 4 /\ 4 + 1 = 5 /\ 5 + 1 = 6 /\ 6 + 1 = 7 /\ 7 + 1 = 8
    OBVIOUS
  <2>9. /\ p[1] \in Nat /\ p[2] \in Nat /\ p[3] \in Nat /\ p[4] \in Nat /\ p[5] \in Nat
        /\ p[6] \in Nat /\ p[7] \in Nat /\ p[8] \in Nat
    BY <1>4, <2>8
  <2>10. p[2] = p[1] + w /\ p[5] = p[4] + w /\ p[7] = p[6] + w /\ p[8] = p[7] + wm /\ p[8] <= l
    BY <1>4, <2>5, <2>6, <2>8
  <2>11. p[2] <= p[3] /\ p[3] <= p[4] /\ p[5] <= p[6]  BY <2>7, <2>8
  <2>12. PICK a \in Nat, b \in Nat, c \in Nat, d \in Nat, e \in Nat, g \in Nat, h \in Nat, i \in Nat :
           /\ a = p[1] /\ b = p[2] /\ c = p[3] /\ d = p[4] /\ e = p[5] /\ g = p[6] /\ h = p[7]
           /\ i = p[8]
    BY <2>9
  <2>13. /\ b = a + w /\ b <= c /\ c <= d /\ e = d + w /\ e <= g /\ h = g + w /\ i = h + wm /\ i <= l
    BY <2>10, <2>11, <2>12
  <2>. QED  BY <1>2, <2>1, <2>3, <2>13
<1>. QED  BY <1>1, <1>7, <1>8, <1>9, <1>11, <1>12, <1>13

LEMMA IdsSmall ==
  ASSUME WellFormed, NEW info, Recordable(info)
  PROVE  /\ \A k \in 1 .. Len(Buffer(info)) : Buffer(info)[k] <= MaxWord
         /\ KeysOf(info) \o ValuesOf(info) \in Seq(Nat)
         /\ Len(KeysOf(info) \o ValuesOf(info)) = 2 * Len(KeysOf(info))
         /\ \A k \in 1 .. 2 * Len(KeysOf(info)) : (KeysOf(info) \o ValuesOf(info))[k] <= MaxWord
<1>1. PICK max \in Nat : max = MaxWord  BY MaxWordType
<1>2. Strings(info) \in Seq(Seq(Byte)) /\ Len(Strings(info)) + 3 <= MaxWord  BY FieldTypes, FieldsSmall
<1>3. PICK n \in Nat : n = Len(info.records) /\ DOMAIN info.records = 1 .. n  BY InfoType
<1>4. PICK m \in Nat : /\ m = Len(info.requested) /\ DOMAIN info.requested = 1 .. m
                       /\ m = Len(KeysOf(info)) /\ m = Len(ValuesOf(info))
  BY InfoType, FieldTypes
<1>5. RecordWords(info) \in Seq(Seq(0 .. max))
  <2>1. ASSUME NEW k \in 1 .. n PROVE WordsOf(info, info.records[k]) \in Seq(0 .. max)
    <3>1. PICK r : r = info.records[k]  OBVIOUS
    <3>2. r \in InfoRecord /\ r.kind \in Range(Kinds)
      BY <1>3, <3>1, RecordGiven, RecordType
    <3>3. PICK w \in Nat : w = Width[KindByte(r.kind) + 1]  BY <3>2, KindKnown
    <3>4. ASSUME NEW i \in DOMAIN r.names PROVE Id(Strings(info), r.names[i]) \in 0 .. max
      <4>1. PICK x : x = r.names[i]  OBVIOUS
      <4>2. x \in Texts /\ (x \in Seq(Byte) => \E j \in DOMAIN Strings(info) : Strings(info)[j] = x)
        BY <1>3, <3>1, <4>1, RecordGiven
      <4>. QED  BY <1>1, <1>2, <4>1, <4>2, IdOfName
    <3>5. WordsOf(info, r) \in [1 .. w -> 0 .. max]
      <4>1. 0 \in 0 .. max  BY <1>1
      <4>. QED  BY <3>3, <3>4, <4>1 DEF WordsOf
    <3>. QED  BY <3>1, <3>5
  <2>2. RecordWords(info) \in [1 .. n -> Seq(0 .. max)]  BY <1>3, <2>1 DEF RecordWords
  <2>. QED  BY <2>2
<1>6. Buffer(info) \in Seq(0 .. max)  BY <1>5, PiecesOfFlat DEF Buffer
<1>7. ASSUME NEW k \in 1 .. Len(Buffer(info)) PROVE Buffer(info)[k] <= MaxWord
  <2>1. Buffer(info)[k] \in 0 .. max  BY <1>6, ElementOfSeq
  <2>. QED  BY <1>1, <2>1
<1>8. \A k \in 1 .. m : KeysOf(info)[k] \in 0 .. max /\ ValuesOf(info)[k] \in 0 .. max
  <2>. SUFFICES ASSUME NEW k \in 1 .. m
                PROVE  KeysOf(info)[k] \in 0 .. max /\ ValuesOf(info)[k] \in 0 .. max
    OBVIOUS
  <2>1. PICK x, y : x = info.requested[k].module /\ y = info.requested[k].attributes  OBVIOUS
  <2>2. /\ x \in Texts /\ y \in Attributes
        /\ x \in Seq(Byte) => \E j \in DOMAIN Strings(info) : Strings(info)[j] = x
        /\ y \in Seq(Byte) => \E j \in DOMAIN Strings(info) : Strings(info)[j] = y
    BY <1>4, <2>1, RequestGiven
  <2>3. Id(Strings(info), x) \in 0 .. max  BY <1>1, <1>2, <2>2, IdOfName
  <2>4. Id(Strings(info), y) \in 0 .. max  BY <1>1, <1>2, <2>2, IdOfAttribute
  <2>5. /\ KeysOf(info)[k] = Id(Strings(info), x)
        /\ ValuesOf(info)[k] = Id(Strings(info), y)
    BY <1>4, <2>1 DEF KeysOf, ValuesOf
  <2>. QED  BY <2>3, <2>4, <2>5
<1>9. PICK v : v = KeysOf(info) \o ValuesOf(info)  OBVIOUS
<1>10. /\ v \in Seq(Nat) /\ Len(v) = m + m
       /\ \A k \in 1 .. m + m : v[k] = IF k <= m THEN KeysOf(info)[k] ELSE ValuesOf(info)[k - m]
  <2>1. PICK a \in Seq(Nat), b \in Seq(Nat) : /\ a = KeysOf(info) /\ Len(a) = m
                                              /\ b = ValuesOf(info) /\ Len(b) = m
    BY <1>4, FieldTypes
  <2>2. /\ a \o b \in Seq(Nat) /\ Len(a \o b) = Len(a) + Len(b)
        /\ \A k \in 1 .. Len(a) + Len(b) :
             (a \o b)[k] = IF k <= Len(a) THEN a[k] ELSE b[k - Len(a)]
    BY ConcatProperties
  <2>. QED  BY <1>9, <2>1, <2>2
<1>11. ASSUME NEW k \in 1 .. m + m PROVE v[k] <= max
  <2>1. CASE k <= m
    <3>1. k \in 1 .. m  BY <2>1
    <3>2. KeysOf(info)[k] \in 0 .. max  BY <1>8, <3>1
    <3>. QED  BY <1>10, <2>1, <3>2
  <2>2. CASE ~(k <= m)
    <3>1. k - m \in 1 .. m  BY <2>2
    <3>2. ValuesOf(info)[k - m] \in 0 .. max  BY <1>8, <3>1
    <3>. QED  BY <1>10, <2>2, <3>2
  <2>. QED  BY <2>1, <2>2
<1>12. m + m = 2 * m  OBVIOUS
<1>. QED  BY <1>1, <1>4, <1>7, <1>9, <1>10, <1>11, <1>12

(* As many elements of a size. *)
Sized(v, size, n) == Len(v) = size * n

(* A number and its elements, which are two parts that lie one behind the other. *)
LEMMA StandsCounted ==
  ASSUME WellFormed, NEW info, Recordable(info),
         NEW f \in Seq(Byte), NEW p, Stands(info, f, p), NEW k \in 1 .. 11, NEW q \in Nat, q = p[k],
         NEW n \in Nat, n <= MaxWord, InfoParts(info)[k] = Word(n),
         NEW v \in Seq(Byte), NEW size \in Nat, Sized(v, size, n), InfoParts(info)[k + 1] = v
  PROVE  TakeCounted(f, q, size) = [value |-> v, at |-> p[k + 2]] /\ TakeCounted(f, q, size) # None
<1>1. k \in 1 .. 12 /\ k + 1 \in 1 .. 12 /\ (k + 1) + 1 = k + 2  OBVIOUS
<1>2. PICK w \in Nat : w = WordSize /\ Len(Word(n)) = w  BY WordsAssumption, WordType
<1>3. p[k + 1] = q + w  BY <1>1, <1>2 DEF Stands
<1>4. p[(k + 1) + 1] = p[k + 1] + Len(v)  BY <1>1 DEF Stands
<1>5. p[k + 2] = q + w + Len(v)  BY <1>1, <1>3, <1>4
<1>6. Holds(f, q, Word(n))  BY <1>1 DEF Stands
<1>7. Holds(f, p[k + 1], v)  BY <1>1 DEF Stands
<1>8. Counted(f, q, n, v)  BY <1>2, <1>3, <1>6, <1>7 DEF Counted
<1>9. Len(v) = size * n  BY DEF Sized
<1>10. /\ TakeCounted(f, q, size) = [value |-> v, at |-> q + WordSize + Len(v)]
       /\ TakeCounted(f, q, size) # None
  BY <1>8, <1>9, CountedFinds
<1>. QED  BY <1>2, <1>5, <1>10

(* The decoder finds every field of a module_info. *)
LEMMA InfoRead ==
  ASSUME WellFormed, NEW info, Recordable(info), NEW f, f = InfoBytes(info)
  PROVE  /\ AllRead(f)
         /\ KindsRead(f).value = KindBytes(info)
         /\ TextRead(f).value = FlattenSeq(Strings(info))
         /\ LengthsRead(f).value = Flat(Lengths(Strings(info)))
         /\ BufferRead(f).value = Flat(Buffer(info))
         /\ RequestedRead(f).value = Flat(KeysOf(info) \o ValuesOf(info))
         /\ FlagsRead(f).value[1] = info.flags /\ FlagsRead(f).at = Len(f)
<1>1. f \in Seq(Byte)  BY PartsType
<1>2. PICK p : Stands(info, f, p)  BY InfoStands
<1>3. PICK w \in Nat \ {0} : w = WordSize  BY WordsAssumption
<1>4. /\ KindBytes(info) \in Seq(Byte) /\ Strings(info) \in Seq(Seq(Byte)) /\ Buffer(info) \in Seq(Nat)
      /\ KeysOf(info) \in Seq(Nat) /\ ValuesOf(info) \in Seq(Nat) /\ info.flags \in Byte
  BY FieldTypes
<1>5. /\ 1 \in 1 .. 11 /\ 4 \in 1 .. 11 /\ 6 \in 1 .. 11 /\ 8 \in 1 .. 11 /\ 10 \in 1 .. 11
      /\ 1 + 1 = 2 /\ 1 + 2 = 3 /\ 4 + 1 = 5 /\ 4 + 2 = 6 /\ 6 + 1 = 7 /\ 6 + 2 = 8
      /\ 8 + 1 = 9 /\ 8 + 2 = 10 /\ 10 + 1 = 11 /\ 10 + 2 = 12
      /\ 3 \in 1 .. 12 /\ 12 \in 1 .. 12 /\ 3 + 1 = 4 /\ 12 + 1 = 13
  OBVIOUS
<1>6. \A k \in 1 .. 13 : p[k] \in Nat  BY <1>2 DEF Stands
<1>7. KindsRead(f) = [value |-> KindBytes(info), at |-> p[3]] /\ KindsRead(f) # None
  <2>1. PICK n \in Nat : /\ n = Len(KindBytes(info)) /\ n <= MaxWord
                       /\ Sized(KindBytes(info), 1, n)
    BY <1>4, LenProperties, FieldsSmall DEF Sized
  <2>2. InfoParts(info)[1] = Word(n) /\ InfoParts(info)[1 + 1] = KindBytes(info)  BY <1>5, <2>1 DEF InfoParts
  <2>3. p[1] = 0 /\ 0 \in Nat /\ 1 \in Nat  BY <1>2 DEF Stands
  <2>. QED  BY <1>1, <1>2, <1>4, <1>5, <2>1, <2>2, <2>3, StandsCounted DEF KindsRead
<1>8. p[3] + Padding(Len(KindBytes(info))) = p[4]
  <2>1. PICK n \in Nat : n = Len(KindBytes(info))  BY <1>4, LenProperties
  <2>2. (-n) % WordSize = Padding(n) /\ Padding(n) \in Nat  BY <1>3, <2>1, PaddingOf
  <2>3. InfoParts(info)[3] = Zeros((-n) % WordSize)  BY <2>1 DEF InfoParts
  <2>4. Len(InfoParts(info)[3]) = Padding(n)  BY <2>2, <2>3, ZerosType
  <2>5. p[3 + 1] = p[3] + Len(InfoParts(info)[3])  BY <1>2, <1>5 DEF Stands
  <2>. QED  BY <1>5, <2>1, <2>4, <2>5
<1>9. TextRead(f) = [value |-> FlattenSeq(Strings(info)), at |-> p[6]] /\ TextRead(f) # None
  <2>1. PICK v \in Seq(Byte) : v = FlattenSeq(Strings(info))  BY <1>4, PiecesOfFlat
  <2>2. PICK n \in Nat : n = Len(v) /\ n <= MaxWord /\ Sized(v, 1, n)
    BY <2>1, LenProperties, FieldsSmall DEF Sized
  <2>3. InfoParts(info)[4] = Word(n) /\ InfoParts(info)[4 + 1] = v  BY <1>5, <2>1, <2>2 DEF InfoParts
  <2>4. PICK q \in Nat : q = p[4]  BY <1>6
  <2>5. TakeCounted(f, q, 1) = [value |-> v, at |-> p[6]] /\ TakeCounted(f, q, 1) # None
    BY <1>1, <1>2, <1>5, <2>2, <2>3, <2>4, StandsCounted
  <2>6. TextRead(f) = TakeCounted(f, q, 1)  BY <1>7, <1>8, <2>4 DEF TextRead
  <2>. QED  BY <2>1, <2>5, <2>6
<1>10. /\ LengthsRead(f) = [value |-> Flat(Lengths(Strings(info))), at |-> p[8]]
       /\ LengthsRead(f) # None
  <2>1. PICK n \in Nat : n = Len(Strings(info)) /\ n <= MaxWord
    <3>1. Len(Strings(info)) \in Nat  BY <1>4, LenProperties
    <3>. QED  BY <3>1, FieldsSmall, MaxWordType
  <2>2. PICK l \in Seq(Nat) : l = Lengths(Strings(info)) /\ Len(l) = n  BY <1>4, <2>1, LengthsType
  <2>3. PICK v \in Seq(Byte) : v = Flat(l) /\ Sized(v, w, n)
    BY <1>3, <2>2, FlatType DEF Sized
  <2>4. InfoParts(info)[6] = Word(n) /\ InfoParts(info)[6 + 1] = v  BY <1>5, <2>1, <2>2, <2>3 DEF InfoParts
  <2>5. PICK q \in Nat : q = p[6] /\ q + 0 = q  BY <1>6
  <2>6. TakeCounted(f, q, w) = [value |-> v, at |-> p[8]] /\ TakeCounted(f, q, w) # None
    BY <1>1, <1>2, <1>5, <2>1, <2>3, <2>4, <2>5, StandsCounted
  <2>7. LengthsRead(f) = TakeCounted(f, q, w)  BY <1>3, <1>9, <2>5 DEF LengthsRead
  <2>. QED  BY <2>2, <2>3, <2>6, <2>7
<1>11. BufferRead(f) = [value |-> Flat(Buffer(info)), at |-> p[10]] /\ BufferRead(f) # None
  <2>1. PICK n \in Nat : n = Len(Buffer(info)) /\ n <= MaxWord  BY <1>4, LenProperties, FieldsSmall
  <2>2. PICK v \in Seq(Byte) : v = Flat(Buffer(info)) /\ Sized(v, w, n)
    BY <1>3, <1>4, <2>1, FlatType DEF Sized
  <2>3. InfoParts(info)[8] = Word(n) /\ InfoParts(info)[8 + 1] = v  BY <1>5, <2>1, <2>2 DEF InfoParts
  <2>4. PICK q \in Nat : q = p[8] /\ q + 0 = q  BY <1>6
  <2>5. TakeCounted(f, q, w) = [value |-> v, at |-> p[10]] /\ TakeCounted(f, q, w) # None
    BY <1>1, <1>2, <1>5, <2>1, <2>2, <2>3, <2>4, StandsCounted
  <2>6. BufferRead(f) = TakeCounted(f, q, w)  BY <1>3, <1>10, <2>4 DEF BufferRead
  <2>. QED  BY <2>2, <2>5, <2>6
<1>12. /\ RequestedRead(f) = [value |-> Flat(KeysOf(info) \o ValuesOf(info)), at |-> p[12]]
       /\ RequestedRead(f) # None
  <2>1. PICK n \in Nat : n = Len(KeysOf(info)) /\ n <= MaxWord  BY <1>4, LenProperties, FieldsSmall
  <2>2. PICK s \in Seq(Nat) : s = KeysOf(info) \o ValuesOf(info) /\ Len(s) = 2 * n  BY <2>1, IdsSmall
  <2>3. PICK v \in Seq(Byte) : v = Flat(s) /\ Len(v) = w * (2 * n)
    BY <1>3, <2>2, FlatType
  <2>4. PICK size \in Nat : size = 2 * w  OBVIOUS
  <2>5. Sized(v, size, n)
    <3>1. w * (2 * n) = (2 * w) * n  BY SMT
    <3>. QED  BY <2>3, <2>4, <3>1 DEF Sized
  <2>6. InfoParts(info)[10] = Word(n) /\ InfoParts(info)[10 + 1] = v  BY <1>5, <2>1, <2>2, <2>3 DEF InfoParts
  <2>7. PICK q \in Nat : q = p[10] /\ q + 0 = q  BY <1>6
  <2>8. TakeCounted(f, q, size) = [value |-> v, at |-> p[12]] /\ TakeCounted(f, q, size) # None
    BY <1>1, <1>2, <1>5, <2>1, <2>3, <2>5, <2>6, <2>7, StandsCounted
  <2>9. RequestedRead(f) = TakeCounted(f, q, size)  BY <1>3, <1>11, <2>4, <2>7 DEF RequestedRead
  <2>. QED  BY <2>2, <2>3, <2>8, <2>9
<1>13. /\ FlagsRead(f) # None /\ FlagsRead(f).at = Len(f) /\ FlagsRead(f).value[1] = info.flags
  <2>1. w - 1 \in Nat  OBVIOUS
  <2>2. PICK u \in Nat, z \in Seq(Byte) : u = w - 1 /\ z = Zeros(u) /\ Len(z) = u
    BY <2>1, ZerosType
  <2>3. PICK b \in Seq(Byte) : b = <<info.flags>> /\ Len(b) = 1 /\ b[1] = info.flags
    <3>1. PICK x \in Byte : x = info.flags  BY <1>4
    <3>2. <<x>> \in Seq(Byte) /\ Len(<<x>>) = 1 /\ <<x>>[1] = x  OBVIOUS
    <3>. QED  BY <3>1, <3>2
  <2>4. PICK v \in Seq(Byte) : v = b \o z /\ Len(v) = w /\ v[1] = info.flags
    <3>1. /\ b \o z \in Seq(Byte) /\ Len(b \o z) = 1 + (w - 1)
          /\ (b \o z)[1] = b[1]
      <4>1. /\ b \o z \in Seq(Byte) /\ Len(b \o z) = Len(b) + Len(z)
            /\ \A k \in 1 .. Len(b) + Len(z) :
                 (b \o z)[k] = IF k <= Len(b) THEN b[k] ELSE z[k - Len(b)]
        BY ConcatProperties
      <4>2. 1 \in 1 .. 1 + u /\ 1 <= 1  OBVIOUS
      <4>. QED  BY <2>2, <2>3, <4>1, <4>2
    <3>2. 1 \in 1 .. 1 + (w - 1) /\ 1 + (w - 1) = w  OBVIOUS
    <3>. QED  BY <2>3, <3>1, <3>2
  <2>5. InfoParts(info)[12] = v  BY <1>3, <2>2, <2>3, <2>4 DEF InfoParts
  <2>6. PICK q \in Nat : q = p[12]  BY <1>6
  <2>7. Holds(f, q, v)  BY <1>2, <1>5, <2>5, <2>6 DEF Stands
  <2>8. q + w = Len(f)
    <3>1. p[12 + 1] = p[12] + Len(InfoParts(info)[12]) /\ p[13] = Len(f)  BY <1>2, <1>5 DEF Stands
    <3>. QED  BY <1>5, <2>4, <2>5, <2>6, <3>1
  <2>9. Take(f, q, Len(v)) = [value |-> v, at |-> q + Len(v)] /\ Take(f, q, Len(v)) # None
    BY <1>1, <2>7, TakeFinds
  <2>10. FlagsRead(f) = Take(f, q, Len(v))  BY <1>3, <1>12, <2>4, <2>6 DEF FlagsRead
  <2>. QED  BY <2>4, <2>8, <2>9, <2>10
<1>. QED  BY <1>7, <1>9, <1>10, <1>11, <1>12, <1>13 DEF AllRead

(* A part of a sequence. *)
LEMMA SubSeqHas ==
  ASSUME NEW S, NEW s \in Seq(S), NEW a \in Seq(S), NEW p \in Nat, NEW n \in Nat, n = Len(a),
         p + n <= Len(s), \A i \in 1 .. n : s[p + i] = a[i]
  PROVE  SubSeq(s, p + 1, p + n) = a
<1>1. PICK l \in Nat : l = Len(s)  BY LenProperties
<1>2. PICK v : v = SubSeq(s, p + 1, p + n)  OBVIOUS
<1>3. \A i \in p + 1 .. p + n : s[i] \in S
  <2>1. \A i \in p + 1 .. p + n : i \in 1 .. l  BY <1>1
  <2>. QED  BY <1>1, <2>1, ElementOfSeq
<1>4. /\ v \in Seq(S) /\ Len(v) = (IF p + 1 <= p + n THEN (p + n) - (p + 1) + 1 ELSE 0)
      /\ \A i \in 1 .. (p + n) - (p + 1) + 1 : v[i] = s[(p + 1) + i - 1]
  <2>1. p + 1 \in Int /\ p + n \in Int  OBVIOUS
  <2>. QED  BY <1>2, <1>3, <2>1, SubSeqProperties
<1>5. Len(v) = n  BY <1>4
<1>6. \A i \in 1 .. n : v[i] = a[i]
  <2>1. \A i \in 1 .. n : (p + 1) + i - 1 = p + i  OBVIOUS
  <2>2. (p + n) - (p + 1) + 1 = n  OBVIOUS
  <2>. QED  BY <1>4, <2>1, <2>2
<1>. QED  BY <1>2, <1>4, <1>5, <1>6, SeqEqual

(* The keys and the values are found again. *)
LEMMA Halves ==
  ASSUME NEW a \in Seq(Nat), NEW b \in Seq(Nat), Len(a) = Len(b), NEW v, v = a \o b
  PROVE  /\ Len(v) \div 2 = Len(a) /\ SubSeq(v, 1, Len(v) \div 2) = a
         /\ SubSeq(v, Len(v) \div 2 + 1, 2 * (Len(v) \div 2)) = b
<1>1. PICK m \in Nat : m = Len(a) /\ m = Len(b)  BY LenProperties
<1>2. /\ v \in Seq(Nat) /\ Len(v) = m + m
      /\ \A k \in 1 .. m + m : v[k] = IF k <= m THEN a[k] ELSE b[k - m]
  <2>1. /\ a \o b \in Seq(Nat) /\ Len(a \o b) = Len(a) + Len(b)
        /\ \A k \in 1 .. Len(a) + Len(b) :
             (a \o b)[k] = IF k <= Len(a) THEN a[k] ELSE b[k - Len(a)]
    BY ConcatProperties
  <2>. QED  BY <1>1, <2>1
<1>3. Len(v) \div 2 = m
  <2>1. 0 \in 0 .. 2 - 1 /\ 2 \in Nat \ {0}  OBVIOUS
  <2>2. (0 + 2 * m) \div 2 = m  BY <2>1, DivModOf
  <2>3. 0 + 2 * m = m + m  OBVIOUS
  <2>. QED  BY <1>2, <2>2, <2>3
<1>4. SubSeq(v, 0 + 1, 0 + m) = a
  <2>1. \A i \in 1 .. m : v[0 + i] = a[i]
    <3>1. \A i \in 1 .. m : i \in 1 .. m + m /\ i <= m /\ 0 + i = i  OBVIOUS
    <3>. QED  BY <1>2, <3>1
  <2>2. 0 + m <= Len(v) /\ 0 \in Nat  BY <1>2
  <2>. QED  BY <1>1, <1>2, <2>1, <2>2, SubSeqHas
<1>5. SubSeq(v, m + 1, m + m) = b
  <2>1. \A i \in 1 .. m : v[m + i] = b[i]
    <3>1. \A i \in 1 .. m : m + i \in 1 .. m + m /\ ~(m + i <= m) /\ (m + i) - m = i  OBVIOUS
    <3>. QED  BY <1>2, <3>1
  <2>2. m + m <= Len(v)  BY <1>2
  <2>. QED  BY <1>1, <1>2, <2>1, <2>2, SubSeqHas
<1>6. 0 + 1 = 1 /\ 0 + m = m /\ 2 * m = m + m  OBVIOUS
<1>. QED  BY <1>1, <1>3, <1>4, <1>5, <1>6

(* The words that the decoder takes for names. *)
Ids(info) ==
  [k \in DOMAIN KindBytes(info) |->
     SubSeq(RecordWords(info)[k], 1, Arity[KindBytes(info)[k] + 1])]

LEMMA IdsKnown ==
  ASSUME WellFormed, NEW info, Recordable(info), NEW k \in DOMAIN info.records,
         NEW r, r = info.records[k]
  PROVE  /\ DOMAIN Ids(info)[k] = DOMAIN r.names
         /\ \A i \in DOMAIN r.names :
              r.names[i] # None /\ Resolve(Ids(info)[k][i], Strings(info)) = r.names[i]
<1>1. Strings(info) \in Seq(Seq(Byte)) /\ Len(Strings(info)) + 3 <= MaxWord  BY FieldTypes, FieldsSmall
<1>2. r \in InfoRecord /\ r.kind \in Range(Kinds)
  BY RecordGiven, RecordType
<1>3. PICK b \in 0 .. 8, w \in Nat :
        /\ b = KindByte(r.kind) /\ w = Width[b + 1] /\ Arity[b + 1] \in 0 .. w
  BY <1>2, KindKnown
<1>4. PICK a \in 0 .. w : /\ a = Arity[b + 1] /\ a = Len(r.names) /\ DOMAIN r.names = 1 .. a
  BY <1>2, <1>3, RecordType DEF Recordable
<1>5. k \in DOMAIN KindBytes(info) /\ KindBytes(info)[k] = b  BY <1>3 DEF KindBytes
<1>6. PICK u : u = WordsOf(info, r) /\ u = RecordWords(info)[k]  BY DEF RecordWords
<1>7. u \in Seq(Nat)
  <2>1. RecordWords(info) \in Seq(Seq(Nat)) /\ DOMAIN RecordWords(info) = DOMAIN info.records
    BY FieldTypes DEF RecordWords
  <2>2. DOMAIN RecordWords(info) = 1 .. Len(RecordWords(info))  BY <2>1, LenProperties
  <2>. QED  BY <1>6, <2>1, <2>2, ElementOfSeq
<1>8. u = [i \in 1 .. w |-> IF i \in 1 .. a THEN Id(Strings(info), r.names[i]) ELSE 0]
  BY <1>3, <1>4, <1>6 DEF WordsOf
<1>9. Len(u) = w  BY <1>7, <1>8
<1>10. PICK v : v = SubSeq(u, 1, a)  OBVIOUS
<1>11. Len(v) = a /\ DOMAIN v = 1 .. a /\ \A i \in 1 .. a : v[i] = u[i]
  <2>1. \A i \in 1 .. a : u[i] \in Nat
    <3>1. \A i \in 1 .. a : i \in 1 .. w  BY <1>4
    <3>. QED  BY <1>7, <1>9, <3>1, ElementOfSeq
  <2>2. 1 \in Int /\ a \in Int  BY <1>4
  <2>3. /\ v \in Seq(Nat) /\ Len(v) = (IF 1 <= a THEN a - 1 + 1 ELSE 0)
        /\ \A i \in 1 .. a - 1 + 1 : v[i] = u[1 + i - 1]
    BY <1>10, <2>1, <2>2, SubSeqProperties
  <2>4. a - 1 + 1 = a /\ \A i \in 1 .. a : 1 + i - 1 = i  BY <1>4
  <2>5. Len(v) = a  BY <1>4, <2>3, <2>4
  <2>. QED  BY <2>3, <2>4, <2>5, LenProperties
<1>12. Ids(info)[k] = v  BY <1>4, <1>5, <1>6, <1>10 DEF Ids
<1>13. ASSUME NEW i \in 1 .. a
       PROVE  r.names[i] # None /\ Resolve(v[i], Strings(info)) = r.names[i]
  <2>1. PICK x : x = r.names[i]  OBVIOUS
  <2>2. x \in Texts /\ (x \in Seq(Byte) => \E j \in DOMAIN Strings(info) : Strings(info)[j] = x)
    BY <1>4, <2>1, RecordGiven
  <2>3. i \in 1 .. w  BY <1>4
  <2>4. v[i] = Id(Strings(info), x)  BY <1>8, <1>11, <2>1, <2>3
  <2>. QED  BY <1>1, <2>1, <2>2, <2>4, IdOfName
<1>. QED  BY <1>4, <1>11, <1>12, <1>13

(* Every record takes as many words as its kind is wide. *)
LEMMA WidthsAre ==
  ASSUME WellFormed, NEW info, Recordable(info)
  PROVE  [k \in DOMAIN KindBytes(info) |-> Width[KindBytes(info)[k] + 1]]
           = Lengths(RecordWords(info))
<1>1. PICK n \in Nat : n = Len(info.records) /\ DOMAIN info.records = 1 .. n  BY InfoType
<1>2. DOMAIN KindBytes(info) = 1 .. n  BY <1>1 DEF KindBytes
<1>3. RecordWords(info) \in Seq(Seq(Nat)) /\ DOMAIN RecordWords(info) = 1 .. n
  BY <1>1, FieldTypes DEF RecordWords
<1>4. ASSUME NEW k \in 1 .. n
      PROVE  Len(RecordWords(info)[k]) = Width[KindBytes(info)[k] + 1]
  <2>1. PICK r : r = info.records[k]  OBVIOUS
  <2>2. PICK w \in Nat : w = Width[KindByte(r.kind) + 1]
    BY <1>1, <2>1, RecordGiven, RecordType, KindKnown
  <2>3. RecordWords(info)[k] = WordsOf(info, r)  BY <1>1, <2>1 DEF RecordWords
  <2>4. DOMAIN WordsOf(info, r) = 1 .. w  BY <2>2 DEF WordsOf
  <2>5. RecordWords(info)[k] \in Seq(Nat)
    <3>1. k \in 1 .. Len(RecordWords(info))  BY <1>3, LenProperties
    <3>. QED  BY <1>3, <3>1, ElementOfSeq
  <2>6. Len(WordsOf(info, r)) = w  BY <2>3, <2>4, <2>5, LenProperties
  <2>7. KindBytes(info)[k] = KindByte(r.kind)  BY <1>1, <2>1 DEF KindBytes
  <2>. QED  BY <2>2, <2>3, <2>6, <2>7
<1>. QED  BY <1>2, <1>3, <1>4 DEF Lengths

(* The fields mean what was recorded. *)
LEMMA MeaningOf ==
  ASSUME WellFormed, NEW info, Recordable(info)
  PROVE  Meaning(KindBytes(info), Buffer(info), KeysOf(info), ValuesOf(info), Strings(info),
                         info.flags) = info
<1>1. Strings(info) \in Seq(Seq(Byte)) /\ Len(Strings(info)) + 3 <= MaxWord  BY FieldTypes, FieldsSmall
<1>2. PICK n \in Nat : /\ n = Len(info.records) /\ DOMAIN info.records = 1 .. n
                       /\ info.records \in [1 .. n -> InfoRecord]
  BY InfoType
<1>3. PICK m \in Nat : /\ m = Len(info.requested) /\ DOMAIN info.requested = 1 .. m
                       /\ info.requested \in [1 .. m -> Request]
  BY InfoType
<1>4. DOMAIN KindBytes(info) = 1 .. n /\ DOMAIN KeysOf(info) = 1 .. m  BY <1>2, <1>3 DEF KindBytes, KeysOf
<1>5. Pieces(Buffer(info),
                     [k \in DOMAIN KindBytes(info) |-> Width[KindBytes(info)[k] + 1]])
        = RecordWords(info)
  BY WidthsAre, FieldTypes, PiecesOfFlat DEF Buffer
<1>6. [k \in DOMAIN KindBytes(info) |->
         [kind  |-> Kinds[KindBytes(info)[k] + 1],
          names |-> [i \in DOMAIN Ids(info)[k] |->
                       Resolve(Ids(info)[k][i], Strings(info))]]] = info.records
  <2>1. ASSUME NEW k \in 1 .. n
        PROVE  [kind  |-> Kinds[KindBytes(info)[k] + 1],
                names |-> [i \in DOMAIN Ids(info)[k] |->
                             Resolve(Ids(info)[k][i], Strings(info))]] = info.records[k]
    <3>1. PICK r \in InfoRecord : r = info.records[k]  BY <1>2
    <3>2. r = [kind |-> r.kind, names |-> r.names] /\ r.kind \in Range(Kinds)
          /\ r.names \in Seq(Texts)
      BY RecordType
    <3>3. Kinds[KindBytes(info)[k] + 1] = r.kind
      <4>1. KindBytes(info)[k] = KindByte(r.kind)  BY <1>2, <3>1 DEF KindBytes
      <4>. QED  BY <3>2, <4>1, KindKnown
    <3>4. r.names = [i \in DOMAIN Ids(info)[k] |-> Resolve(Ids(info)[k][i], Strings(info))]
      <4>1. /\ DOMAIN Ids(info)[k] = DOMAIN r.names
            /\ \A i \in DOMAIN r.names : Resolve(Ids(info)[k][i], Strings(info)) = r.names[i]
        BY <1>2, <3>1, IdsKnown
      <4>2. r.names = [i \in DOMAIN r.names |-> r.names[i]]  BY <3>2
      <4>. QED  BY <4>1, <4>2
    <3>. QED  BY <3>1, <3>2, <3>3, <3>4
  <2>2. info.records = [k \in 1 .. n |-> info.records[k]]  BY <1>2
  <2>. QED  BY <1>4, <2>1, <2>2
<1>7. ASSUME NEW k \in 1 .. m
      PROVE  /\ Resolve(KeysOf(info)[k], Strings(info)) # None
             /\ ValuesOf(info)[k] <= MaxWord - 4 => Resolve(ValuesOf(info)[k], Strings(info)) # None
             /\ [module     |-> Resolve(KeysOf(info)[k], Strings(info)),
                 attributes |-> IF ValuesOf(info)[k] > MaxWord - 4
                                THEN Attribute(ValuesOf(info)[k])
                                ELSE Resolve(ValuesOf(info)[k], Strings(info))]
                  = info.requested[k]
  <2>1. PICK r, x, y : r = info.requested[k] /\ x = r.module /\ y = r.attributes  OBVIOUS
  <2>2. /\ r = [module |-> x, attributes |-> y] /\ x \in Texts /\ y \in Attributes
        /\ x \in Seq(Byte) => \E j \in DOMAIN Strings(info) : Strings(info)[j] = x
        /\ y \in Seq(Byte) => \E j \in DOMAIN Strings(info) : Strings(info)[j] = y
    BY <1>3, <2>1, RequestGiven
  <2>3. PICK a, b : a = KeysOf(info)[k] /\ b = ValuesOf(info)[k]  OBVIOUS
  <2>4. a = Id(Strings(info), x) /\ b = Id(Strings(info), y)
    BY <1>3, <2>1, <2>3 DEF KeysOf, ValuesOf
  <2>5. Resolve(a, Strings(info)) = x /\ x # None  BY <1>1, <2>2, <2>4, IdOfName
  <2>6. /\ b <= MaxWord - 4 => Resolve(b, Strings(info)) # None
        /\ y = IF b > MaxWord - 4 THEN Attribute(b) ELSE Resolve(b, Strings(info))
    BY <1>1, <2>2, <2>4, IdOfAttribute
  <2>. QED  BY <2>1, <2>2, <2>3, <2>5, <2>6, Zenon
<1>8. [k \in DOMAIN KeysOf(info) |->
         [module     |-> Resolve(KeysOf(info)[k], Strings(info)),
          attributes |-> IF ValuesOf(info)[k] > MaxWord - 4 THEN Attribute(ValuesOf(info)[k])
                         ELSE Resolve(ValuesOf(info)[k], Strings(info))]] = info.requested
  <2>1. info.requested = [k \in 1 .. m |-> info.requested[k]]  BY <1>3
  <2>. QED  BY <1>4, <1>7, <2>1, Zenon
<1>9. info.flags % 4 = info.flags
  <2>1. info.flags \in 0 .. 3  BY InfoType
  <2>. QED  BY <2>1
<1>10. \A k \in DOMAIN Ids(info) : \A i \in DOMAIN Ids(info)[k] :
         Resolve(Ids(info)[k][i], Strings(info)) # None
  <2>1. DOMAIN Ids(info) = 1 .. n  BY <1>4 DEF Ids
  <2>. QED  BY <1>2, <2>1, IdsKnown
<1>11. info = [records |-> info.records, requested |-> info.requested, flags |-> info.flags]
  BY InfoType
<1>. DEFINE pieces == Pieces(Buffer(info), [k \in DOMAIN KindBytes(info) |->
                                                     Width[KindBytes(info)[k] + 1]])
            ids == [k \in DOMAIN KindBytes(info) |->
                      SubSeq(pieces[k], 1, Arity[KindBytes(info)[k] + 1])]
<1>12. ids = Ids(info)  BY <1>5 DEF Ids
<1>13. /\ \A k \in DOMAIN ids : \A i \in DOMAIN ids[k] : Resolve(ids[k][i], Strings(info)) # None
       /\ \A k \in DOMAIN KeysOf(info) :
            /\ Resolve(KeysOf(info)[k], Strings(info)) # None
            /\ ValuesOf(info)[k] <= MaxWord - 4 => Resolve(ValuesOf(info)[k], Strings(info)) # None
  BY <1>4, <1>7, <1>10, <1>12, Zenon
<1>14. Meaning(KindBytes(info), Buffer(info), KeysOf(info), ValuesOf(info), Strings(info), info.flags)
        = [records   |-> [k \in DOMAIN KindBytes(info) |->
                           [kind  |-> Kinds[KindBytes(info)[k] + 1],
                            names |-> [i \in DOMAIN ids[k] |->
                                         Resolve(ids[k][i], Strings(info))]]],
           requested |-> [k \in DOMAIN KeysOf(info) |->
                           [module     |-> Resolve(KeysOf(info)[k], Strings(info)),
                            attributes |-> IF ValuesOf(info)[k] > MaxWord - 4
                                           THEN Attribute(ValuesOf(info)[k])
                                           ELSE Resolve(ValuesOf(info)[k], Strings(info))]],
           flags     |-> info.flags % 4]
  BY <1>13, SameWord, Zenon DEF Meaning
<1>. HIDE DEF ids, pieces
<1>. QED  BY <1>6, <1>8, <1>9, <1>11, <1>12, <1>14

LEMMA InfoDecoded ==
  ASSUME WellFormed, NEW info, Recordable(info)
  PROVE  DecodeInfo(InfoBytes(info)) = info
<1>1. PICK f : f = InfoBytes(info)  OBVIOUS
<1>2. /\ AllRead(f)
      /\ KindsRead(f).value = KindBytes(info)
      /\ TextRead(f).value = FlattenSeq(Strings(info))
      /\ LengthsRead(f).value = Flat(Lengths(Strings(info)))
      /\ BufferRead(f).value = Flat(Buffer(info))
      /\ RequestedRead(f).value = Flat(KeysOf(info) \o ValuesOf(info))
      /\ FlagsRead(f).value[1] = info.flags /\ FlagsRead(f).at = Len(f)
  BY <1>1, InfoRead
<1>3. /\ Strings(info) \in Seq(Seq(Byte)) /\ Buffer(info) \in Seq(Nat)
      /\ KeysOf(info) \in Seq(Nat) /\ ValuesOf(info) \in Seq(Nat) /\ Len(KeysOf(info)) = Len(ValuesOf(info))
      /\ RecordWords(info) \in Seq(Seq(Nat))
  BY FieldTypes
<1>4. Words(LengthsRead(f).value) = Lengths(Strings(info))
  <2>1. /\ Lengths(Strings(info)) \in Seq(Nat) /\ Len(Lengths(Strings(info))) = Len(Strings(info))
        /\ \A k \in 1 .. Len(Strings(info)) : Lengths(Strings(info))[k] = Len(Strings(info)[k])
    BY <1>3, LengthsType
  <2>2. \A k \in 1 .. Len(Lengths(Strings(info))) : Lengths(Strings(info))[k] <= MaxWord
    BY <2>1, FieldsSmall
  <2>. QED  BY <1>2, <2>1, <2>2, WordsOfFlat
<1>5. Words(BufferRead(f).value) = Buffer(info)
  <2>1. \A k \in 1 .. Len(Buffer(info)) : Buffer(info)[k] <= MaxWord  BY IdsSmall
  <2>. QED  BY <1>2, <1>3, <2>1, WordsOfFlat
<1>6. PICK pairs \in Seq(Nat) : /\ pairs = KeysOf(info) \o ValuesOf(info)
                                /\ pairs = Words(RequestedRead(f).value)
  <2>1. PICK v \in Seq(Nat) : /\ v = KeysOf(info) \o ValuesOf(info)
                              /\ \A k \in 1 .. Len(v) : v[k] <= MaxWord
    BY IdsSmall
  <2>2. Words(Flat(v)) = v  BY <2>1, WordsOfFlat
  <2>. QED  BY <1>2, <2>1, <2>2
<1>7. /\ SubSeq(pairs, 1, Len(pairs) \div 2) = KeysOf(info)
      /\ SubSeq(pairs, Len(pairs) \div 2 + 1, 2 * (Len(pairs) \div 2)) = ValuesOf(info)
  BY <1>3, <1>6, Halves
<1>8. Shown(Pieces(TextRead(f).value, Words(LengthsRead(f).value))) = Strings(info)
  <2>1. Pieces(TextRead(f).value, Words(LengthsRead(f).value)) = Strings(info)
    BY <1>2, <1>3, <1>4, PiecesOfFlat
  <2>2. \A k \in DOMAIN Strings(info) : Lossy(Strings(info)[k]) = Strings(info)[k]
    BY StringsAreText, LossyText DEF Strings
  <2>3. Strings(info) = [k \in DOMAIN Strings(info) |-> Strings(info)[k]]
    <3>1. PICK n \in Nat : Strings(info) \in [1 .. n -> Seq(Byte)]  BY <1>3, LenProperties
    <3>. QED  BY <3>1
  <2>. QED  BY <2>1, <2>2, <2>3, Zenon DEF Shown
<1>9. Consistent(f, KindsRead(f).value, TextRead(f).value, LengthsRead(f).value,
                 BufferRead(f).value, FlagsRead(f))
  <2>1. AtEnd(f, FlagsRead(f))  BY <1>2 DEF AtEnd
  <2>2. ASSUME NEW k \in DOMAIN KindBytes(info) PROVE KindBytes(info)[k] < Len(Kinds)
    <3>1. k \in DOMAIN info.records  BY <2>2 DEF KindBytes
    <3>2. info.records[k].kind \in Range(Kinds)  BY <3>1, RecordGiven, RecordType
    <3>3. KindBytes(info)[k] \in 0 .. 8  BY <3>1, <3>2, KindKnown DEF KindBytes
    <3>. QED  BY <3>3, NineKinds
  <2>3. Total(Lengths(Strings(info))) = Len(FlattenSeq(Strings(info)))
    BY <1>3, PiecesOfFlat
  <2>4. Total([k \in DOMAIN KindBytes(info) |-> Width[KindBytes(info)[k] + 1]])
          = Len(Buffer(info))
    BY <1>3, WidthsAre, PiecesOfFlat DEF Buffer
  <2>. QED  BY <1>2, <1>4, <1>5, <2>1, <2>2, <2>3, <2>4 DEF Consistent
<1>10. Said(KindsRead(f).value, TextRead(f).value, LengthsRead(f).value, BufferRead(f).value,
            Words(RequestedRead(f).value), FlagsRead(f).value[1]) = info
  BY <1>2, <1>5, <1>6, <1>7, <1>8, MeaningOf DEF Said
<1>. QED  BY <1>1, <1>2, <1>9, <1>10, DecodeIs

-----------------------------------------------------------------------------
(* What is written as a sourcemap *)

(* The names, and behind them the frames. *)
MapTexts(map) ==
  [k \in 1 .. 2 * Len(map.sources) |->
     IF k <= Len(map.sources) THEN map.sources[k].name
     ELSE <<Frame, map.sources[k - Len(map.sources)].size>>]

First(map) == 2 * WordSize + 4 * WordSize * Len(map.sources) + Len(map.mappings)

Pointers(map) ==
  [k \in 1 .. 2 * Len(map.sources) |->
     Word(First(map) + Start(Lengths(MapTexts(map)), k)) \o Word(Lengths(MapTexts(map))[k])]

MapParts(map) ==
  <<Word(Len(map.sources)), Word(Len(map.mappings)), FlattenSeq(Pointers(map)),
    map.mappings, FlattenSeq(MapTexts(map))>>

LEMMA MapBytesAre == ASSUME NEW map PROVE MapBytes(map) = FlattenSeq(MapParts(map))
<1>. DEFINE n == Len(map.sources)
            texts == [k \in 1 .. 2 * n |->
                        IF k <= n THEN map.sources[k].name ELSE <<Frame, map.sources[k - n].size>>]
<1>1. texts = MapTexts(map)  BY DEF MapTexts
<1>2. [k \in 1 .. 2 * n |-> Len(texts[k])] = Lengths(MapTexts(map))
  <2>1. DOMAIN MapTexts(map) = 1 .. 2 * n  BY DEF MapTexts
  <2>. HIDE DEF texts
  <2>. QED  BY <1>1, <2>1 DEF Lengths
<1>. QED  BY <1>1, <1>2, SameWord DEF MapBytes, MapParts, Pointers, First

(* The pieces of a piece. *)
LEMMA HoldsIn ==
  ASSUME NEW f \in Seq(Byte), NEW p \in Nat, NEW g \in Seq(Byte), Holds(f, p, g),
         NEW q \in Nat, NEW v \in Seq(Byte), Holds(g, q, v)
  PROVE  Holds(f, p + q, v)
<1>1. PICK m \in Nat, n \in Nat, l \in Nat : m = Len(g) /\ n = Len(v) /\ l = Len(f)  BY LenProperties
<1>2. /\ p + m <= l /\ \A k \in 1 .. m : f[p + k] = g[k]
      /\ q + n <= m /\ \A k \in 1 .. n : g[q + k] = v[k]
  BY <1>1 DEF Holds
<1>3. ASSUME NEW k \in 1 .. n PROVE f[(p + q) + k] = v[k]
  <2>1. q + k \in 1 .. m /\ p + (q + k) = (p + q) + k  BY <1>2
  <2>. QED  BY <1>2, <2>1
<1>4. (p + q) + n <= l  BY <1>2
<1>. QED  BY <1>1, <1>3, <1>4 DEF Holds

LEMMA MapType ==
  ASSUME WellFormed, NEW map, Mappable(map)
  PROVE  /\ map = [sources |-> map.sources, mappings |-> map.mappings] /\ map.mappings \in Seq(Byte)
         /\ \E n \in Nat :
              /\ n = Len(map.sources) /\ DOMAIN map.sources = 1 .. n
              /\ map.sources = [k \in 1 .. n |-> map.sources[k]]
              /\ \A k \in 1 .. n :
                   /\ map.sources[k] = [name |-> map.sources[k].name, size |-> map.sources[k].size]
                   /\ map.sources[k].name \in Seq(Byte) /\ map.sources[k].size \in Byte
                   /\ map.sources[k].size <= Limit
                   /\ Lossy(map.sources[k].name) = map.sources[k].name
         /\ Lossy(map.mappings) = map.mappings
<1>1. PICK S : S = [name : Seq(Utf8), size : Byte \cap 0 .. Limit]  OBVIOUS
<1>2. map \in [sources : Seq(S), mappings : Seq(Utf8)]
  BY <1>1, SameWord DEF Mappable, Text
<1>3. map = [sources |-> map.sources, mappings |-> map.mappings] /\ map.sources \in Seq(S)
      /\ map.mappings \in Seq(Utf8)
  BY <1>2
<1>4. PICK n \in Nat : /\ n = Len(map.sources) /\ DOMAIN map.sources = 1 .. n
                       /\ map.sources \in [1 .. n -> S]
  BY <1>3, LenProperties
<1>5. \A s \in S : s = [name |-> s.name, size |-> s.size] /\ s.name \in Seq(Utf8) /\ s.size \in Byte
                   /\ s.size <= Limit
  BY <1>1
<1>6. \A k \in 1 .. n : map.sources[k] \in S  BY <1>4
<1>7. map.sources = [k \in 1 .. n |-> map.sources[k]]  BY <1>4
<1>8. \A v \in Seq(Utf8) : v \in Seq(Byte) /\ Lossy(v) = v  BY TextIsBytes, LossyText
<1>. QED  BY <1>3, <1>4, <1>5, <1>6, <1>7, <1>8, Zenon

LEMMA MapTextsType ==
  ASSUME WellFormed, NEW map, Mappable(map), NEW n \in Nat, n = Len(map.sources)
  PROVE  /\ MapTexts(map) \in Seq(Seq(Byte)) /\ Len(MapTexts(map)) = 2 * n
         /\ \A k \in 1 .. 2 * n : MapTexts(map)[k] \in Seq(Byte)
         /\ \A k \in 1 .. n : /\ MapTexts(map)[k] = map.sources[k].name
                              /\ MapTexts(map)[n + k] = <<Frame, map.sources[k].size>>
<1>1. \A k \in 1 .. n : map.sources[k].name \in Seq(Byte) /\ map.sources[k].size \in Byte
  BY MapType
<1>2. Frame \in Byte  BY SameWord DEF WellFormed
<1>3. \A k \in 1 .. n : <<Frame, map.sources[k].size>> \in Seq(Byte)  BY <1>1, <1>2
<1>4. ASSUME NEW k \in 1 .. 2 * n PROVE MapTexts(map)[k] \in Seq(Byte)
  <2>1. CASE k <= n
    <3>1. k \in 1 .. n  BY <2>1
    <3>. QED  BY <1>1, <2>1, <3>1 DEF MapTexts
  <2>2. CASE ~(k <= n)
    <3>1. k - n \in 1 .. n  BY <2>2
    <3>2. MapTexts(map)[k] = <<Frame, map.sources[k - n].size>>  BY <2>2 DEF MapTexts
    <3>. QED  BY <1>3, <3>1, <3>2
  <2>. QED  BY <2>1, <2>2
<1>5. MapTexts(map) \in [1 .. 2 * n -> Seq(Byte)]  BY <1>4 DEF MapTexts
<1>6. MapTexts(map) \in Seq(Seq(Byte)) /\ Len(MapTexts(map)) = 2 * n
  <2>1. 2 * n \in Nat  OBVIOUS
  <2>. QED  BY <1>5, <2>1
<1>7. ASSUME NEW k \in 1 .. n
      PROVE  /\ MapTexts(map)[k] = map.sources[k].name
             /\ MapTexts(map)[n + k] = <<Frame, map.sources[k].size>>
  <2>1. k \in 1 .. 2 * n /\ k <= n /\ n + k \in 1 .. 2 * n /\ ~(n + k <= n) /\ (n + k) - n = k
    OBVIOUS
  <2>. QED  BY <2>1 DEF MapTexts
<1>. QED  BY <1>4, <1>6, <1>7

LEMMA Fourfold ==
  ASSUME NEW w \in Nat, NEW n \in Nat
  PROVE  (2 * w) * (2 * n) = 4 * w * n
<1>1. PICK a \in Nat : a = 2 * w  OBVIOUS
<1>2. a * (2 * n) = 2 * (a * n)  OBVIOUS
<1>3. 4 * w = 2 * a  BY <1>1
<1>4. (2 * a) * n = 2 * (a * n)  OBVIOUS
<1>. QED  BY <1>1, <1>2, <1>3, <1>4

LEMMA PointersType ==
  ASSUME WellFormed, NEW map, Mappable(map), NEW n \in Nat, n = Len(map.sources)
  PROVE  /\ Pointers(map) \in Seq(Seq(Byte)) /\ Len(Pointers(map)) = 2 * n /\ First(map) \in Nat
         /\ FlattenSeq(Pointers(map)) \in Seq(Byte)
         /\ Len(FlattenSeq(Pointers(map))) = 4 * WordSize * n
         /\ \A k \in 1 .. 2 * n :
              /\ Start(Lengths(MapTexts(map)), k) \in Nat
              /\ Lengths(MapTexts(map))[k] = Len(MapTexts(map)[k])
              /\ Holds(FlattenSeq(Pointers(map)), (2 * WordSize) * (k - 1), Pointers(map)[k])
<1>1. PICK w \in Nat \ {0} : w = WordSize  BY WordsAssumption
<1>2. PICK t \in Seq(Seq(Byte)) : t = MapTexts(map) /\ Len(t) = 2 * n  BY MapTextsType
<1>3. PICK l \in Seq(Nat) : /\ l = Lengths(t) /\ Len(l) = 2 * n
                            /\ \A k \in 1 .. 2 * n : l[k] = Len(t[k])
  <2>1. /\ Lengths(t) \in Seq(Nat) /\ Len(Lengths(t)) = Len(t)
        /\ \A k \in 1 .. Len(t) : Lengths(t)[k] = Len(t[k])
    BY LengthsType
  <2>. QED  BY <1>2, <2>1
<1>4. PICK first \in Nat : first = First(map)
  <2>1. Len(map.mappings) \in Nat  BY MapType, LenProperties
  <2>2. PICK m \in Nat : m = Len(map.mappings)  BY <2>1
  <2>3. PICK a \in Nat : a = 4 * w  OBVIOUS
  <2>4. PICK b \in Nat : b = a * n  OBVIOUS
  <2>5. 2 * w + b + m \in Nat  OBVIOUS
  <2>6. First(map) = 2 * w + b + m  BY <1>1, <2>2, <2>3, <2>4 DEF First
  <2>. QED  BY <2>5, <2>6
<1>5. ASSUME NEW k \in 1 .. 2 * n PROVE Start(l, k) \in Nat /\ l[k] \in Nat
  <2>1. k \in 1 .. 2 * n + 1  OBVIOUS
  <2>. QED  BY <1>3, <2>1, Starts, ElementOfSeq
<1>6. Pointers(map) = [k \in 1 .. 2 * n |-> Word(first + Start(l, k)) \o Word(l[k])]
  BY <1>2, <1>3, <1>4 DEF Pointers
<1>7. ASSUME NEW k \in 1 .. 2 * n PROVE Pointers(map)[k] \in Seq(Byte) /\ Len(Pointers(map)[k]) = 2 * w
  <2>1. PICK a \in Nat, b \in Nat : a = first + Start(l, k) /\ b = l[k]
    <3>1. PICK c \in Nat, d \in Nat : c = Start(l, k) /\ d = l[k]  BY <1>5
    <3>2. first + c \in Nat  OBVIOUS
    <3>. QED  BY <3>1, <3>2
  <2>2. PICK u \in Seq(Byte), v \in Seq(Byte) : u = Word(a) /\ Len(u) = w /\ v = Word(b) /\ Len(v) = w
    BY <1>1, WordType
  <2>3. u \o v \in Seq(Byte) /\ Len(u \o v) = w + w  BY <2>2, ConcatProperties
  <2>4. Pointers(map)[k] = u \o v  BY <1>6, <2>1, <2>2
  <2>. QED  BY <2>3, <2>4
<1>8. PICK s \in Seq(Seq(Byte)) : s = Pointers(map) /\ Len(s) = 2 * n
  <2>1. PICK m \in Nat : m = 2 * n  OBVIOUS
  <2>2. Pointers(map) \in [1 .. m -> Seq(Byte)]  BY <1>6, <1>7, <2>1
  <2>3. Pointers(map) \in Seq(Seq(Byte)) /\ Len(Pointers(map)) = m  BY <2>2
  <2>. QED  BY <2>1, <2>3
<1>9. PICK m \in Seq(Nat) : /\ m = Lengths(s) /\ Len(m) = 2 * n
                            /\ \A k \in 1 .. 2 * n : m[k] = 2 * w
  <2>1. /\ Lengths(s) \in Seq(Nat) /\ Len(Lengths(s)) = Len(s)
        /\ \A k \in 1 .. Len(s) : Lengths(s)[k] = Len(s[k])
    BY LengthsType
  <2>. QED  BY <1>7, <1>8, <2>1
<1>10. PICK r \in Nat : r = 2 * w  OBVIOUS
<1>11. \A k \in 1 .. Len(m) + 1 : Start(m, k) = r * (k - 1)  BY <1>9, <1>10, EvenStarts
<1>12. FlattenSeq(s) \in Seq(Byte) /\ Len(FlattenSeq(s)) = 4 * w * n
  <2>1. Len(FlattenSeq(s)) = Start(m, 2 * n + 1)  BY <1>8, <1>9, PiecesOfFlat, Starts
  <2>2. 2 * n + 1 \in 1 .. Len(m) + 1 /\ (2 * n + 1) - 1 = 2 * n  BY <1>9
  <2>3. Start(m, 2 * n + 1) = r * (2 * n)  BY <1>11, <2>2
  <2>4. (2 * w) * (2 * n) = 4 * w * n  BY Fourfold
  <2>. QED  BY <1>8, <1>10, <2>1, <2>3, <2>4, PiecesOfFlat
<1>13. ASSUME NEW k \in 1 .. 2 * n PROVE Holds(FlattenSeq(s), r * (k - 1), s[k])
  <2>1. k \in 1 .. Len(m) + 1  BY <1>9
  <2>2. Holds(FlattenSeq(s), Start(m, k), s[k])  BY <1>8, <1>9, FlatHolds
  <2>. QED  BY <1>11, <2>1, <2>2
<1>. QED  BY <1>1, <1>2, <1>3, <1>4, <1>5, <1>8, <1>10, <1>12, <1>13

LEMMA MapPartsType ==
  ASSUME WellFormed, NEW map, Mappable(map)
  PROVE  /\ MapParts(map) \in Seq(Seq(Byte)) /\ Len(MapParts(map)) = 5
         /\ MapBytes(map) \in Seq(Byte) /\ Len(MapBytes(map)) <= MaxWord
<1>1. PICK n \in Nat : n = Len(map.sources)  BY MapType
<1>2. Word(n) \in Seq(Byte)  BY WordType
<1>3. map.mappings \in Seq(Byte) /\ Word(Len(map.mappings)) \in Seq(Byte)
  BY MapType, LenProperties, WordType
<1>4. FlattenSeq(Pointers(map)) \in Seq(Byte)  BY <1>1, PointersType
<1>5. FlattenSeq(MapTexts(map)) \in Seq(Byte)  BY <1>1, MapTextsType, PiecesOfFlat
<1>6. MapParts(map) \in Seq(Seq(Byte)) /\ Len(MapParts(map)) = 5
  BY <1>1, <1>2, <1>3, <1>4, <1>5 DEF MapParts
<1>7. MapBytes(map) \in Seq(Byte)  BY <1>6, MapBytesAre, PiecesOfFlat
<1>8. Len(MapBytes(map)) <= MaxWord  BY SameWord DEF Mappable
<1>. QED  BY <1>6, <1>7, <1>8

(* Where the fields of a sourcemap stand. *)
LEMMA MapStands ==
  ASSUME WellFormed, NEW map, Mappable(map), NEW n \in Nat, n = Len(map.sources),
         NEW f, f = MapBytes(map), NEW w \in Nat, w = WordSize,
         NEW m \in Nat, m = Len(map.mappings)
  PROVE  /\ Holds(f, 0, Word(n)) /\ Holds(f, w, Word(m))
         /\ Holds(f, 2 * w, FlattenSeq(Pointers(map)))
         /\ Holds(f, 2 * w + 4 * w * n, map.mappings)
         /\ Holds(f, First(map), FlattenSeq(MapTexts(map)))
<1>1. PICK s \in Seq(Seq(Byte)) : s = MapParts(map) /\ Len(s) = 5  BY MapPartsType
<1>2. f = FlattenSeq(s)  BY <1>1, MapBytesAre
<1>3. PICK p : /\ p[1] = 0
               /\ \A k \in 1 .. Len(s) + 1 : p[k] \in Nat
               /\ \A k \in 1 .. Len(s) : p[k + 1] = p[k] + Len(s[k]) /\ Holds(f, p[k], s[k])
  BY <1>2, PartsStand
<1>4. /\ 1 \in 1 .. 5 /\ 2 \in 1 .. 5 /\ 3 \in 1 .. 5 /\ 4 \in 1 .. 5 /\ 5 \in 1 .. 5
      /\ 1 + 1 = 2 /\ 2 + 1 = 3 /\ 3 + 1 = 4 /\ 4 + 1 = 5
  OBVIOUS
<1>5. /\ s[1] = Word(n) /\ s[2] = Word(m) /\ s[3] = FlattenSeq(Pointers(map))
      /\ s[4] = map.mappings /\ s[5] = FlattenSeq(MapTexts(map))
  BY <1>1 DEF MapParts
<1>6. /\ Len(s[1]) = w /\ Len(s[2]) = w /\ Len(s[3]) = 4 * w * n /\ Len(s[4]) = m
  BY <1>5, WordType, PointersType
<1>7. \A k \in 1 .. 5 : p[k + 1] = p[k] + Len(s[k]) /\ Holds(f, p[k], s[k])  BY <1>1, <1>3
<1>8. PICK x \in Nat : x = 4 * w * n
  <2>1. PICK a \in Nat : a = 4 * w  OBVIOUS
  <2>2. a * n \in Nat  OBVIOUS
  <2>. QED  BY <2>1, <2>2
<1>9. p[2] = w
  <2>1. p[1 + 1] = p[1] + Len(s[1])  BY <1>4, <1>7
  <2>2. Len(s[1]) = w /\ p[1] = 0 /\ 1 + 1 = 2 /\ 0 + w = w  BY <1>3, <1>6
  <2>. QED  BY <2>1, <2>2
<1>10. p[3] = 2 * w
  <2>1. p[2 + 1] = p[2] + Len(s[2])  BY <1>4, <1>7
  <2>2. Len(s[2]) = w /\ 2 + 1 = 3 /\ w + w = 2 * w  BY <1>6
  <2>. QED  BY <1>9, <2>1, <2>2
<1>11. p[4] = 2 * w + x  BY <1>4, <1>6, <1>7, <1>8, <1>10
<1>12. p[5] = 2 * w + x + m  BY <1>4, <1>6, <1>7, <1>11
<1>13. First(map) = 2 * w + x + m  BY <1>8 DEF First
<1>. QED  BY <1>3, <1>4, <1>5, <1>7, <1>8, <1>9, <1>10, <1>11, <1>12, <1>13

(* The pointers point to the texts. *)
PointsTo(f, words, k, v) ==
  Take(f, words[2 * k - 1], words[2 * k]) # None /\ Take(f, words[2 * k - 1], words[2 * k]).value = v

LEMMA PointersAre ==
  ASSUME WellFormed, NEW map, Mappable(map), NEW n \in Nat, n = Len(map.sources),
         NEW f, f = MapBytes(map), NEW k \in 1 .. 2 * n,
         NEW words, words = Words(FlattenSeq(Pointers(map)))
  PROVE  PointsTo(f, words, k, MapTexts(map)[k])
<1>1. PICK w \in Nat \ {0}, max \in Nat : w = WordSize /\ max = MaxWord
  BY WordsAssumption, MaxWordType
<1>2. f \in Seq(Byte) /\ Len(f) \in Nat /\ Len(f) <= max  BY <1>1, MapPartsType, LenProperties
<1>3. PICK v \in Seq(Byte), b \in Nat : v = MapTexts(map)[k] /\ b = Len(v)
  BY MapTextsType, LenProperties
<1>4. PICK first \in Nat, s \in Nat :
        first = First(map) /\ s = Start(Lengths(MapTexts(map)), k)
  BY PointersType
<1>5. Holds(f, first + s, v)
  <2>1. PICK g \in Seq(Byte) : g = FlattenSeq(MapTexts(map))  BY MapTextsType, PiecesOfFlat
  <2>2. Len(map.mappings) \in Nat  BY MapType, LenProperties
  <2>3. Holds(f, first, g)  BY <1>1, <1>4, <2>1, <2>2, MapStands
  <2>4. k \in 1 .. Len(MapTexts(map)) /\ MapTexts(map) \in Seq(Seq(Byte))  BY MapTextsType
  <2>5. Holds(g, s, v)  BY <1>3, <1>4, <2>1, <2>4, FlatHolds
  <2>. QED  BY <1>2, <2>3, <2>5, HoldsIn
<1>6. PICK a \in Nat : a = first + s  OBVIOUS
<1>7. Holds(f, a, v) /\ a + b <= Len(f)  BY <1>3, <1>5, <1>6 DEF Holds
<1>8. a <= MaxWord /\ b <= MaxWord  BY <1>1, <1>2, <1>7
<1>9. PICK t \in Seq(Byte) : t = FlattenSeq(Pointers(map))  BY PointersType
<1>10. PICK x \in Seq(Byte), y \in Seq(Byte) : x = Word(a) /\ y = Word(b) /\ Len(x) = w
  BY <1>1, WordType
<1>11. Pointers(map)[k] = x \o y
  <2>1. Lengths(MapTexts(map))[k] = b  BY <1>3, PointersType
  <2>. QED  BY <1>4, <1>6, <1>10, <2>1 DEF Pointers
<1>12. PICK q \in Nat : q = (2 * w) * (k - 1)
  <2>1. k - 1 \in Nat /\ 2 * w \in Nat  OBVIOUS
  <2>2. PICK c \in Nat, d \in Nat : c = 2 * w /\ d = k - 1  BY <2>1
  <2>3. c * d \in Nat  OBVIOUS
  <2>. QED  BY <2>2, <2>3
<1>13. Holds(t, q, x \o y)  BY <1>1, <1>9, <1>11, <1>12, PointersType
<1>14. Holds(t, q, x) /\ Holds(t, q + w, y)  BY <1>10, <1>13, HoldsBoth
<1>15. q = ((2 * k - 1) - 1) * w /\ q + w = ((2 * k) - 1) * w
  <2>1. PICK d \in Nat : d = k - 1  OBVIOUS
  <2>2. (2 * k - 1) - 1 = 2 * d /\ (2 * k) - 1 = 2 * d + 1  BY <2>1
  <2>3. (2 * w) * d = (2 * d) * w /\ (2 * d + 1) * w = (2 * d) * w + w
    <3>1. PICK e \in Nat : e = d * w  OBVIOUS
    <3>2. (2 * d) * w = 2 * e /\ (2 * w) * d = 2 * e /\ (2 * d + 1) * w = 2 * e + w  BY <3>1
    <3>. QED  BY <3>2
  <2>. QED  BY <1>12, <2>1, <2>2, <2>3
<1>16. 2 * k - 1 \in Nat \ {0} /\ 2 * k \in Nat \ {0}  OBVIOUS
<1>17. words[2 * k - 1] = a
  <2>1. PICK i \in Nat \ {0} : i = 2 * k - 1  BY <1>16
  <2>2. Holds(t, (i - 1) * WordSize, Word(a))  BY <1>1, <1>10, <1>14, <1>15, <2>1
  <2>3. Words(t)[i] = a  BY <1>8, <2>2, WordStands
  <2>. QED  BY <1>9, <2>1, <2>3
<1>18. words[2 * k] = b
  <2>1. PICK i \in Nat \ {0} : i = 2 * k  BY <1>16
  <2>2. Holds(t, (i - 1) * WordSize, Word(b))  BY <1>1, <1>10, <1>14, <1>15, <2>1
  <2>3. Words(t)[i] = b  BY <1>8, <2>2, WordStands
  <2>. QED  BY <1>9, <2>1, <2>3
<1>19. Take(f, a, Len(v)) = [value |-> v, at |-> a + Len(v)] /\ Take(f, a, Len(v)) # None
  BY <1>2, <1>7, TakeFinds
<1>. QED  BY <1>3, <1>17, <1>18, <1>19 DEF PointsTo

(* The decoder shows the sources and mappings that were recorded. *)
LEMMA MapDecoded ==
  ASSUME WellFormed, NEW map, Mappable(map)
  PROVE  DecodeMap(MapBytes(map)) = map
<1>1. PICK f \in Seq(Byte) : f = MapBytes(map)  BY MapPartsType
<1>2. PICK w \in Nat \ {0} : w = WordSize  BY WordsAssumption
<1>3. PICK n \in Nat : n = Len(map.sources)  BY MapType
<1>4. PICK v \in Seq(Byte), m \in Nat : v = map.mappings /\ m = Len(v)  BY MapType, LenProperties
<1>5. /\ Holds(f, 0, Word(n)) /\ Holds(f, w, Word(m))
      /\ Holds(f, 2 * w, FlattenSeq(Pointers(map)))
      /\ Holds(f, 2 * w + 4 * w * n, v)
  BY <1>1, <1>2, <1>3, <1>4, MapStands
<1>6. n <= MaxWord /\ m <= MaxWord
  <2>1. Len(f) \in Nat /\ Len(f) <= MaxWord /\ MaxWord \in Nat
    BY <1>1, MapPartsType, LenProperties, MaxWordType
  <2>2. PICK x \in Nat : x = 4 * w * n /\ n <= x
    <3>1. PICK a \in Nat \ {0} : a = 4 * w  OBVIOUS
    <3>2. n <= a * n /\ a * n \in Nat  BY SMT
    <3>. QED  BY <3>1, <3>2
  <2>3. 2 * w + x + m <= Len(f)  BY <1>4, <1>5, <2>2 DEF Holds
  <2>. QED  BY <2>1, <2>2, <2>3
<1>7. PICK x \in Seq(Byte), y \in Seq(Byte), h \in Seq(Byte) :
        /\ x = Word(n) /\ Len(x) = w /\ y = Word(m) /\ Len(y) = w /\ h = x \o y /\ Len(h) = 2 * w
  <2>1. PICK x \in Seq(Byte), y \in Seq(Byte) : x = Word(n) /\ Len(x) = w /\ y = Word(m) /\ Len(y) = w
    BY <1>2, WordType
  <2>2. x \o y \in Seq(Byte) /\ Len(x \o y) = Len(x) + Len(y)  BY ConcatProperties
  <2>3. Len(x) + Len(y) = 2 * w  BY <2>1
  <2>. QED  BY <2>1, <2>2, <2>3, Zenon
<1>8. HeaderRead(f) = [value |-> h, at |-> 2 * w] /\ HeaderRead(f) # None
  <2>1. 0 \in Nat /\ 0 + Len(x) = w  BY <1>7
  <2>2. Holds(f, 0, h)  BY <1>5, <1>7, <2>1, HoldsBoth
  <2>3. Take(f, 0, Len(h)) = [value |-> h, at |-> 0 + Len(h)] /\ Take(f, 0, Len(h)) # None
    BY <2>1, <2>2, TakeFinds
  <2>. QED  BY <1>2, <1>7, <2>3 DEF HeaderRead
<1>9. Words(h)[1] = n /\ Words(h)[2] = m
  <2>1. Holds(h, 0, x \o y)  BY <1>7, HoldsAll
  <2>2. 0 \in Nat /\ 0 + Len(x) = w  BY <1>7
  <2>3. Holds(h, 0, x) /\ Holds(h, w, y)
    <3>1. Holds(h, 0, x) /\ Holds(h, 0 + Len(x), y)  BY <2>1, <2>2, HoldsBoth
    <3>. QED  BY <2>2, <3>1
  <2>4. (1 - 1) * w = 0 /\ (2 - 1) * w = w /\ 1 \in Nat \ {0} /\ 2 \in Nat \ {0}  OBVIOUS
  <2>5. Holds(h, (1 - 1) * WordSize, Word(n)) /\ Holds(h, (2 - 1) * WordSize, Word(m))
    BY <1>2, <1>7, <2>3, <2>4
  <2>. QED  BY <1>6, <2>4, <2>5, WordStands
<1>10. Sources(f) = n  BY <1>8, <1>9 DEF Sources
<1>11. PICK t \in Seq(Byte), l \in Nat :
         t = FlattenSeq(Pointers(map)) /\ l = Len(t) /\ l = 4 * w * n
  BY <1>2, <1>3, PointersType, LenProperties
<1>12. TableRead(f) = [value |-> t, at |-> 2 * w + l] /\ TableRead(f) # None
  <2>1. PICK q \in Nat : q = 2 * w  OBVIOUS
  <2>2. Holds(f, q, t)  BY <1>5, <1>11, <2>1
  <2>3. Take(f, q, Len(t)) = [value |-> t, at |-> q + Len(t)] /\ Take(f, q, Len(t)) # None
    BY <2>2, TakeFinds
  <2>4. TableRead(f) = Take(f, q, l)  BY <1>2, <1>8, <1>10, <1>11, <2>1 DEF TableRead
  <2>. QED  BY <1>11, <2>1, <2>3, <2>4
<1>13. MappingsRead(f) # None /\ MappingsRead(f).value = v
  <2>1. PICK q \in Nat : q = 2 * w + l  OBVIOUS
  <2>2. Holds(f, q, v)  BY <1>5, <1>11, <2>1
  <2>3. Take(f, q, Len(v)) = [value |-> v, at |-> q + Len(v)] /\ Take(f, q, Len(v)) # None
    BY <2>2, TakeFinds
  <2>4. MappingsRead(f) = Take(f, q, Len(v))  BY <1>4, <1>8, <1>9, <1>12, <2>1 DEF MappingsRead
  <2>. QED  BY <2>3, <2>4
<1>14. ASSUME NEW k \in 1 .. 2 * n
       PROVE  TextAt(f, k) # None /\ TextAt(f, k).value = MapTexts(map)[k]
  <2>1. PICK words : words = Words(t)  OBVIOUS
  <2>2. TextAt(f, k) = Take(f, words[2 * k - 1], words[2 * k])  BY <1>12, <2>1 DEF TextAt
  <2>3. words = Words(FlattenSeq(Pointers(map)))  BY <1>11, <2>1
  <2>4. PointsTo(f, words, k, MapTexts(map)[k])  BY <1>1, <1>3, <2>3, PointersAre
  <2>. QED  BY <2>2, <2>4 DEF PointsTo
<1>15. ASSUME NEW k \in 1 .. n
       PROVE  /\ Lossy(TextAt(f, k).value) = map.sources[k].name
              /\ Decompress(TextAt(f, n + k).value) = map.sources[k].size
              /\ Decompress(TextAt(f, n + k).value) # None
  <2>1. k \in 1 .. 2 * n /\ n + k \in 1 .. 2 * n  OBVIOUS
  <2>2. PICK size \in Byte : size = map.sources[k].size /\ size <= Limit  BY <1>3, MapType
  <2>3. TextAt(f, k).value = map.sources[k].name /\ TextAt(f, n + k).value = <<Frame, size>>
    BY <1>3, <1>14, <2>1, <2>2, MapTextsType
  <2>4. size # None /\ size \in Nat /\ Limit \in Nat
    BY SameWord, WordsAssumption DEF WellFormed, Byte
  <2>5. Decompress(<<Frame, size>>) = size
    <3>1. Len(<<Frame, size>>) = 2 /\ <<Frame, size>>[1] = Frame /\ <<Frame, size>>[2] = size  OBVIOUS
    <3>2. ~(2 < 2) /\ ~(size > Limit)  BY <2>2, <2>4
    <3>. QED  BY <3>1, <3>2 DEF Decompress
  <2>6. Lossy(map.sources[k].name) = map.sources[k].name  BY <1>3, MapType
  <2>. QED  BY <2>2, <2>3, <2>4, <2>5, <2>6
<1>16. TextsRead(f)
  <2>1. ASSUME NEW k \in n + 1 .. 2 * n PROVE Decompress(TextAt(f, k).value) # None
    <3>1. k - n \in 1 .. n /\ n + (k - n) = k  OBVIOUS
    <3>. QED  BY <1>15, <3>1
  <2>. QED  BY <1>10, <1>14, <2>1 DEF TextsRead
<1>17. [k \in 1 .. n |-> [name |-> Lossy(TextAt(f, k).value),
                         size |-> Decompress(TextAt(f, n + k).value)]] = map.sources
  <2>1. /\ map.sources = [k \in 1 .. n |-> map.sources[k]]
        /\ \A k \in 1 .. n :
             map.sources[k] = [name |-> map.sources[k].name, size |-> map.sources[k].size]
    BY <1>3, MapType
  <2>. QED  BY <1>15, <2>1, Zenon
<1>18. DecodeMap(f) = [sources |-> map.sources, mappings |-> v]
  <2>1. Lossy(v) = v  BY <1>4, MapType
  <2>. QED  BY <1>8, <1>10, <1>12, <1>13, <1>16, <1>17, <2>1, MapIs
<1>. QED  BY <1>1, <1>4, <1>18, MapType

-----------------------------------------------------------------------------
(* Every step *)

(* The sidecar is bytes, and as it was written until it is damaged; what is shown of it is
   what the decoder makes of it. *)
SidecarInv ==
  /\ recorded \in Infos \cup Maps /\ sidecar \in Seq(Byte)
  /\ damaged \/ sidecar = IF IsInfo THEN InfoBytes(recorded)
                          ELSE MapBytes(recorded)
  /\ \/ view = Unread
     \/ view = IF IsInfo THEN DecodeInfo(sidecar) ELSE DecodeMap(sidecar)

LEMMA SidecarStart == ASSUME WellFormed, SidecarInit PROVE SidecarInv
<1>1. CASE IsInfo
  <2>1. sidecar = InfoBytes(recorded) /\ Recordable(recorded)
    BY <1>1 DEF SidecarInit, IsInfo, WellFormed
  <2>2. sidecar \in Seq(Byte)  BY <2>1, PartsType
  <2>. QED  BY <1>1, <2>1, <2>2 DEF SidecarInit, SidecarInv
<1>2. CASE ~IsInfo
  <2>1. sidecar = MapBytes(recorded) /\ Mappable(recorded)
    BY <1>2 DEF SidecarInit, IsInfo, WellFormed
  <2>2. sidecar \in Seq(Byte)  BY <2>1, MapPartsType
  <2>. QED  BY <1>2, <2>1, <2>2 DEF SidecarInit, SidecarInv
<1>. QED  BY <1>1, <1>2

LEMMA SidecarStep ==
  ASSUME SidecarInv, [SidecarNext]_SidecarVars
  PROVE  SidecarInv'
<1>1. CASE DamageSidecar
  <2>1. damaged' /\ view' = Unread /\ recorded' = recorded /\ recorded \in Infos \cup Maps
    BY <1>1 DEF DamageSidecar, SidecarInv
  <2>2. PICK l \in Nat : l = Len(sidecar) /\ sidecar \in Seq(Byte) /\ DOMAIN sidecar = 1 .. l
    BY LenProperties DEF SidecarInv
  <2>3. sidecar' \in Seq(Byte)
    <3>1. ASSUME NEW n \in 0 .. Len(sidecar) - 1, sidecar' = SubSeq(sidecar, 1, n)
          PROVE  sidecar' \in Seq(Byte)
      <4>1. n \in 0 .. Len(sidecar)  BY <2>2
      <4>. QED  BY <2>2, <3>1, <4>1, PrefixType
    <3>2. ASSUME NEW b \in Byte, sidecar' = Append(sidecar, b) PROVE sidecar' \in Seq(Byte)
      BY <2>2, <3>2, AppendProperties
    <3>3. ASSUME NEW k \in DOMAIN sidecar, NEW b \in Byte, sidecar' = [sidecar EXCEPT ![k] = b]
          PROVE  sidecar' \in Seq(Byte)
      BY <2>2, <3>3, ExceptSeq
    <3>. QED  BY <1>1, <3>1, <3>2, <3>3, SameWord DEF DamageSidecar
  <2>. QED  BY <2>1, <2>3 DEF SidecarInv
<1>2. CASE Decode
  BY <1>2 DEF Decode, IsInfo, SidecarInv
<1>3. CASE UNCHANGED SidecarVars
  BY <1>3 DEF SidecarVars, IsInfo, SidecarInv
<1>. QED  BY <1>1, <1>2, <1>3 DEF SidecarNext

LEMMA SidecarShows ==
  ASSUME WellFormed, SidecarInv
  PROVE  ShowsRecorded /\ NoPartShown /\ UnfoldsToLimit
<1>1. ShowsRecorded
  <2>. SUFFICES ASSUME ~damaged, view # Unread PROVE view = recorded  BY DEF ShowsRecorded
  <2>1. CASE IsInfo
    <3>1. Recordable(recorded)  BY <2>1 DEF IsInfo, WellFormed
    <3>2. view = DecodeInfo(InfoBytes(recorded))  BY <2>1 DEF SidecarInv
    <3>. QED  BY <3>1, <3>2, InfoDecoded
  <2>2. CASE ~IsInfo
    <3>1. Mappable(recorded)  BY <2>2 DEF SidecarInv, IsInfo, WellFormed
    <3>2. view = DecodeMap(MapBytes(recorded))  BY <2>2 DEF SidecarInv
    <3>. QED  BY <3>1, <3>2, MapDecoded
  <2>. QED  BY <2>1, <2>2
<1>2. NoPartShown
  <2>. SUFFICES ASSUME IsInfo, view # Unread, view # None, NEW n \in 0 .. Len(sidecar) - 1
                PROVE  DecodeInfo(SubSeq(sidecar, 1, n)) = None
    BY DEF NoPartShown
  <2>1. DecodeInfo(sidecar) # None /\ sidecar \in Seq(Byte)  BY DEF SidecarInv
  <2>. QED  BY <2>1, NoPrefixDecodes
<1>3. UnfoldsToLimit
  <2>. SUFFICES ASSUME ~IsInfo, view # Unread, view # None
                PROVE  /\ \A k \in DOMAIN view.sources : view.sources[k].size <= Limit
                       /\ Total([k \in DOMAIN view.sources |-> view.sources[k].size])
                            <= Limit * (Len(sidecar) \div (4 * WordSize))
    BY DEF UnfoldsToLimit
  <2>1. view = DecodeMap(sidecar) /\ sidecar \in Seq(Byte)  BY DEF SidecarInv
  <2>. QED  BY <2>1, MapUnfolds
<1>. QED  BY <1>1, <1>2, <1>3

(* The decoders show what Bun recorded, name by name: decode_module_info a module_info of any
   size, decode_serialized_sourcemap a sourcemap of any number of sources. *)
THEOREM SidecarShown == SidecarSpec => []ShowsRecorded
<1>1. SidecarInit => SidecarInv  BY SidecarsAssumption, SidecarStart
<1>2. SidecarInv /\ [SidecarNext]_SidecarVars => SidecarInv'  BY SidecarStep
<1>3. SidecarInv => ShowsRecorded  BY SidecarsAssumption, SidecarShows
<1>. QED  BY <1>1, <1>2, <1>3, PTL DEF SidecarSpec

(* decode_module_info shows nothing of a part of a module_info that it shows. *)
THEOREM SidecarWhole == SidecarSpec => []NoPartShown
<1>1. SidecarInit => SidecarInv  BY SidecarsAssumption, SidecarStart
<1>2. SidecarInv /\ [SidecarNext]_SidecarVars => SidecarInv'  BY SidecarStep
<1>3. SidecarInv => NoPartShown  BY SidecarsAssumption, SidecarShows
<1>. QED  BY <1>1, <1>2, <1>3, PTL DEF SidecarSpec

(* Whatever its bytes say, decode_serialized_sourcemap unfolds a sourcemap to no more than
   the limit of decompress_zstd_frame for every pair of pointers that fits in it. *)
THEOREM SidecarLimited == SidecarSpec => []UnfoldsToLimit
<1>1. SidecarInit => SidecarInv  BY SidecarsAssumption, SidecarStart
<1>2. SidecarInv /\ [SidecarNext]_SidecarVars => SidecarInv'  BY SidecarStep
<1>3. SidecarInv => UnfoldsToLimit  BY SidecarsAssumption, SidecarShows
<1>. QED  BY <1>1, <1>2, <1>3, PTL DEF SidecarSpec

-----------------------------------------------------------------------------
(* Raw extraction: the source *)

OneCell == [is : Tags, n : Nat]

(* c stands in f from m on. *)
Stood(f, m, c) == \A i \in 1 .. Len(c) : f[m + i - 1] = c[i]

(* The text that begins at m ends with a NUL in f, and is no longer than one of the scripts;
   if it is as long, it is that script. *)
Ended(f, scripts, m) ==
  \E n \in m .. Len(f), c \in scripts :
    IsNul(f[n]) /\ n - m <= Len(c) /\ (n - m = Len(c) => Stood(f, m, c))

(* Every marked text ends. *)
Closed(f, scripts) ==
  f \in Seq(OneCell) /\ \A m \in 1 .. Len(f) : f[m] = Marker => Ended(f, scripts, m)

(* c stands in f, with a NUL behind it. *)
Keeping(f, c) ==
  \E m \in 1 .. Len(f) : f[m] = Marker /\ m + Len(c) <= Len(f) /\ IsNul(f[m + Len(c)]) /\ Stood(f, m, c)

(* Two runs of cells, one behind the other. *)
LEMMA JoinCells ==
  ASSUME NEW f \in Seq(OneCell), NEW g \in Seq(OneCell)
  PROVE  /\ f \o g \in Seq(OneCell) /\ Len(f) \in Nat /\ Len(g) \in Nat
         /\ Len(f \o g) = Len(f) + Len(g)
         /\ \A i \in 1 .. Len(f) : (f \o g)[i] = f[i]
         /\ \A i \in 1 .. Len(g) : (f \o g)[Len(f) + i] = g[i]
<1>1. PICK a \in Nat, b \in Nat : a = Len(f) /\ b = Len(g)  BY LenProperties
<1>2. /\ f \o g \in Seq(OneCell) /\ Len(f \o g) = Len(f) + Len(g)
      /\ \A i \in 1 .. Len(f) + Len(g) :
           (f \o g)[i] = IF i <= Len(f) THEN f[i] ELSE g[i - Len(f)]
  BY ConcatProperties
<1>3. \A i \in 1 .. b : a + i \in 1 .. a + b /\ ~(a + i <= a) /\ (a + i) - a = i  BY <1>1
<1>. QED  BY <1>1, <1>2, <1>3

(* A text that ends, ends whatever lies behind. *)
LEMMA EndedLeft ==
  ASSUME NEW C, C \subseteq Seq(OneCell), NEW f \in Seq(OneCell), NEW g \in Seq(OneCell),
         NEW m \in 1 .. Len(f), Ended(f, C, m)
  PROVE  Ended(f \o g, C, m)
<1>1. PICK n \in m .. Len(f), c \in C :
        IsNul(f[n]) /\ n - m <= Len(c) /\ (n - m = Len(c) => Stood(f, m, c))
  BY DEF Ended
<1>2. PICK a \in Nat, b \in Nat, l \in Nat : a = Len(f) /\ b = Len(g) /\ l = Len(c)
  BY <1>1, LenProperties
<1>3. PICK h : h = f \o g  OBVIOUS
<1>4. Len(h) = a + b /\ \A i \in 1 .. a : h[i] = f[i]  BY <1>2, <1>3, JoinCells
<1>5. n \in m .. a + b /\ n \in 1 .. a /\ m \in 1 .. a  BY <1>2
<1>6. n - m = l => Stood(h, m, c)
  <2>. SUFFICES ASSUME n - m = l, NEW i \in 1 .. l PROVE h[m + i - 1] = c[i]  BY <1>2 DEF Stood
  <2>1. m + i - 1 \in 1 .. a  BY <1>5
  <2>. QED  BY <1>1, <1>2, <1>4, <2>1 DEF Stood
<1>. QED  BY <1>1, <1>2, <1>3, <1>4, <1>5, <1>6 DEF Ended

(* It does whatever lies in front. *)
LEMMA EndedRight ==
  ASSUME NEW C, C \subseteq Seq(OneCell), NEW f \in Seq(OneCell), NEW g \in Seq(OneCell),
         NEW m \in 1 .. Len(f), Ended(f, C, m)
  PROVE  Ended(g \o f, C, Len(g) + m)
<1>1. PICK n \in m .. Len(f), c \in C :
        IsNul(f[n]) /\ n - m <= Len(c) /\ (n - m = Len(c) => Stood(f, m, c))
  BY DEF Ended
<1>2. PICK a \in Nat, b \in Nat, l \in Nat : a = Len(f) /\ b = Len(g) /\ l = Len(c)
  BY <1>1, LenProperties
<1>3. PICK h : h = g \o f  OBVIOUS
<1>4. Len(h) = b + a /\ \A i \in 1 .. a : h[b + i] = f[i]  BY <1>2, <1>3, JoinCells
<1>5. b + n \in (b + m) .. (b + a) /\ n \in 1 .. a /\ m \in 1 .. a /\ (b + n) - (b + m) = n - m
  BY <1>2
<1>6. n - m = l => Stood(h, b + m, c)
  <2>. SUFFICES ASSUME n - m = l, NEW i \in 1 .. l PROVE h[b + m + i - 1] = c[i]  BY <1>2 DEF Stood
  <2>1. m + i - 1 \in 1 .. a /\ b + m + i - 1 = b + (m + i - 1)  BY <1>2, <1>5
  <2>. QED  BY <1>1, <1>2, <1>4, <2>1 DEF Stood
<1>7. IsNul(h[b + n])  BY <1>1, <1>4, <1>5
<1>. QED  BY <1>1, <1>2, <1>3, <1>4, <1>5, <1>6, <1>7 DEF Ended

(* If all marked texts end in two runs of cells, they do in both together. *)
LEMMA ClosedJoin ==
  ASSUME NEW C, C \subseteq Seq(OneCell), NEW f, NEW g, Closed(f, C), Closed(g, C)
  PROVE  Closed(f \o g, C)
<1>1. f \in Seq(OneCell) /\ g \in Seq(OneCell)  BY DEF Closed
<1>2. PICK a \in Nat, b \in Nat : a = Len(f) /\ b = Len(g)  BY <1>1, LenProperties
<1>3. PICK h \in Seq(OneCell) : h = f \o g  BY <1>1, JoinCells
<1>4. /\ Len(h) = a + b /\ \A i \in 1 .. a : h[i] = f[i]
      /\ \A i \in 1 .. b : h[a + i] = g[i]
  BY <1>1, <1>2, <1>3, JoinCells
<1>5. ASSUME NEW m \in 1 .. a + b, h[m] = Marker PROVE Ended(h, C, m)
  <2>1. CASE m <= a
    <3>1. m \in 1 .. a  BY <1>2, <2>1
    <3>2. Ended(f, C, m)  BY <1>2, <1>4, <1>5, <3>1 DEF Closed
    <3>. QED  BY <1>1, <1>2, <1>3, <3>1, <3>2, EndedLeft
  <2>2. CASE ~(m <= a)
    <3>1. PICK i \in 1 .. b : m = a + i
      <4>1. m - a \in 1 .. b /\ m = a + (m - a)  BY <1>2, <2>2
      <4>. QED  BY <4>1
    <3>2. Ended(g, C, i)  BY <1>2, <1>4, <1>5, <3>1 DEF Closed
    <3>. QED  BY <1>1, <1>2, <1>3, <3>1, <3>2, EndedRight
  <2>. QED  BY <2>1, <2>2
<1>. QED  BY <1>3, <1>4, <1>5 DEF Closed

(* A script that stands in a run of cells stands in a longer one. *)
LEMMA KeepingJoin ==
  ASSUME NEW f \in Seq(OneCell), NEW g \in Seq(OneCell), NEW c \in Seq(OneCell), Keeping(f, c)
  PROVE  Keeping(f \o g, c) /\ Keeping(g \o f, c)
<1>1. PICK m \in 1 .. Len(f) :
        f[m] = Marker /\ m + Len(c) <= Len(f) /\ IsNul(f[m + Len(c)]) /\ Stood(f, m, c)
  BY DEF Keeping
<1>2. PICK a \in Nat, b \in Nat, l \in Nat : a = Len(f) /\ b = Len(g) /\ l = Len(c)
  BY LenProperties
<1>3. PICK h, k : h = f \o g /\ k = g \o f  OBVIOUS
<1>4. /\ Len(h) = a + b /\ \A i \in 1 .. a : h[i] = f[i]
      /\ Len(k) = b + a /\ \A i \in 1 .. a : k[b + i] = f[i]
  BY <1>2, <1>3, JoinCells
<1>5. /\ m \in 1 .. a /\ m + l \in 1 .. a /\ m + l <= a + b /\ m \in 1 .. a + b
      /\ b + m \in 1 .. b + a /\ (b + m) + l <= b + a /\ (b + m) + l = b + (m + l)
  BY <1>1, <1>2
<1>6. ASSUME NEW i \in 1 .. l PROVE h[m + i - 1] = c[i] /\ k[(b + m) + i - 1] = c[i]
  <2>1. m + i - 1 \in 1 .. a /\ (b + m) + i - 1 = b + (m + i - 1)  BY <1>2, <1>5
  <2>. QED  BY <1>1, <1>2, <1>4, <2>1 DEF Stood
<1>7. Stood(h, m, c) /\ Stood(k, b + m, c)  BY <1>2, <1>6 DEF Stood
<1>8. IsNul(h[m + l]) /\ IsNul(k[(b + m) + l]) /\ h[m] = Marker /\ k[b + m] = Marker
  BY <1>1, <1>2, <1>4, <1>5
<1>9. Keeping(h, c)  BY <1>2, <1>4, <1>5, <1>7, <1>8 DEF Keeping
<1>10. Keeping(k, c)  BY <1>2, <1>4, <1>5, <1>7, <1>8 DEF Keeping
<1>. QED  BY <1>3, <1>9, <1>10

(* A text ends in front of the first NUL. *)
LEMMA UpToNulIs ==
  ASSUME NEW f \in Seq(OneCell), NEW m \in 1 .. Len(f), NEW n \in m .. Len(f), IsNul(f[n])
  PROVE  \E q \in m .. n : /\ IsNul(f[q]) /\ \A i \in m .. q - 1 : ~IsNul(f[i])
                           /\ UpToNul(Rest(f, m)) = SubSeq(f, m, q - 1)
                           /\ Len(UpToNul(Rest(f, m))) = q - m
<1>1. PICK l \in Nat : l = Len(f)  BY LenProperties
<1>2. PICK g : g = Rest(f, m)  OBVIOUS
<1>3. /\ Len(g) = l - m + 1 /\ \A i \in 1 .. l - m + 1 : g[i] = f[m + i - 1]
  BY <1>1, <1>2, SubSeqProperties DEF Rest
<1>4. n - m + 1 \in 1 .. l - m + 1 /\ m + (n - m + 1) - 1 = n  BY <1>1
<1>. DEFINE I == {i \in 1 .. Len(g) : IsNul(g[i])}
<1>5. n - m + 1 \in I /\ I \subseteq 1 .. l - m + 1
  BY <1>3, <1>4
<1>6. PICK k \in I : \A i \in I : k <= i
  <2>1. I \in SUBSET Nat /\ I # {}  BY <1>1, <1>5
  <2>. HIDE DEF I
  <2>. QED  BY <2>1, SmallestOf
<1>7. k \in 1 .. n - m + 1 /\ k \in Nat  BY <1>1, <1>4, <1>5, <1>6
<1>8. Min(I) = k
  <2>1. \A i \in I : i \in Nat  BY <1>1, <1>5
  <2>. HIDE DEF I
  <2>2. \A x \in I : (\A y \in I : x <= y) => x = k  BY <1>6, <2>1
  <2>3. (CHOOSE x \in I : \A y \in I : x <= y) = k  BY <1>6, <2>2
  <2>. QED  BY <2>3 DEF Min
<1>9. Terminated(g) = k
  <2>1. Terminated(g) = IF I # {} THEN Min(I) ELSE 0  BY DEF Terminated, SelectInSeq
  <2>. HIDE DEF I
  <2>. QED  BY <1>5, <1>8, <2>1
<1>10. PICK q \in m .. n : q = m + k - 1  BY <1>1, <1>7
<1>11. UpToNul(g) = SubSeq(g, 1, k - 1)  BY <1>7, <1>9 DEF UpToNul
<1>12. SubSeq(g, 1, k - 1) = SubSeq(f, m, q - 1)
  <2>1. /\ \A i \in 1 .. k - 1 : i \in 1 .. l - m + 1 /\ g[i] = f[m + i - 1]
    BY <1>1, <1>3, <1>4, <1>7
  <2>2. \A i \in m .. q - 1 : f[i] \in OneCell
    <3>1. \A i \in m .. q - 1 : i \in 1 .. l  BY <1>1, <1>10
    <3>. QED  BY <1>1, <3>1, ElementOfSeq
  <2>3. SubSeq(f, m, q - 1) = [i \in 1 .. (q - 1) - m + 1 |-> f[i + m - 1]]  OBVIOUS
  <2>4. SubSeq(g, 1, k - 1) = [i \in 1 .. (k - 1) - 1 + 1 |-> g[i + 1 - 1]]  OBVIOUS
  <2>. QED  BY <1>1, <1>7, <1>10, <2>1, <2>3, <2>4
<1>13. Len(SubSeq(g, 1, k - 1)) = k - 1
  <2>1. g \in Seq(OneCell)  BY <1>1, <1>2, SubSeqProperties DEF Rest
  <2>2. \A i \in 1 .. k - 1 : g[i] \in OneCell
    <3>1. \A i \in 1 .. k - 1 : i \in 1 .. Len(g)  BY <1>1, <1>3, <1>4, <1>7
    <3>. QED  BY <2>1, <3>1, ElementOfSeq
  <2>. QED  BY <1>7, <2>2, SubSeqProperties
<1>14. IsNul(f[q])
  <2>1. IsNul(g[k])  BY <1>6
  <2>2. k \in 1 .. l - m + 1  BY <1>5, <1>6
  <2>. QED  BY <1>3, <1>10, <2>1, <2>2
<1>15. ASSUME NEW i \in m .. q - 1 PROVE ~IsNul(f[i])
  <2>1. i - m + 1 \in 1 .. k - 1 /\ i - m + 1 \in 1 .. l - m + 1 /\ m + (i - m + 1) - 1 = i
        /\ ~(k <= i - m + 1)
    BY <1>1, <1>4, <1>7, <1>10
  <2>2. i - m + 1 \notin I  BY <1>6, <2>1
  <2>3. g[i - m + 1] = f[i]  BY <1>3, <2>1
  <2>. QED  BY <1>3, <2>1, <2>2, <2>3
<1>16. k - 1 = q - m  BY <1>1, <1>7, <1>10
<1>. QED  BY <1>2, <1>10, <1>11, <1>12, <1>13, <1>14, <1>15, <1>16

(* What is between a marker and a NUL. *)
Slices(f) == [m \in {m \in DOMAIN f : f[m] = Marker} |-> UpToNul(Rest(f, m))]

Better(f, m, n) ==
  \/ Len(Slices(f)[m]) > Len(Slices(f)[n])
  \/ Len(Slices(f)[m]) = Len(Slices(f)[n]) /\ m <= n

(* What find_best_slice returns, with its order named. *)
LEMMA BestSliceIs ==
  ASSUME NEW f, NEW S, S = {m \in DOMAIN f : f[m] = Marker}, S # {},
         NEW b \in S, b = CHOOSE m \in S : \A n \in S : Better(f, m, n)
  PROVE  BestSlice(f) = Slices(f)[b]
<1>1. DOMAIN Slices(f) = S /\ \A m \in S : Slices(f)[m] = UpToNul(Rest(f, m))  BY DEF Slices
<1>2. \A m \in S : \A n \in S :
        (\/ Len(UpToNul(Rest(f, m))) > Len(UpToNul(Rest(f, n)))
         \/ Len(UpToNul(Rest(f, m))) = Len(UpToNul(Rest(f, n))) /\ m <= n) <=> Better(f, m, n)
  BY <1>1 DEF Better
<1>3. (CHOOSE m \in S : \A n \in S :
         \/ Len(UpToNul(Rest(f, m))) > Len(UpToNul(Rest(f, n)))
         \/ Len(UpToNul(Rest(f, m))) = Len(UpToNul(Rest(f, n))) /\ m <= n) = b
  <2>1. \A m \in S :
          (\A n \in S :
             \/ Len(UpToNul(Rest(f, m))) > Len(UpToNul(Rest(f, n)))
             \/ Len(UpToNul(Rest(f, m))) = Len(UpToNul(Rest(f, n))) /\ m <= n)
          <=> \A n \in S : Better(f, m, n)
    BY <1>2
  <2>. QED  BY <2>1
<1>4. BestSlice(f) = UpToNul(Rest(f, b))
  <2>1. BestSlice(f) =
          UpToNul(Rest(f, CHOOSE m \in S : \A n \in S :
            \/ Len(UpToNul(Rest(f, m))) > Len(UpToNul(Rest(f, n)))
            \/ Len(UpToNul(Rest(f, m))) = Len(UpToNul(Rest(f, n))) /\ m <= n))
    BY Zenon DEF BestSlice
  <2>. QED  BY <1>3, <2>1
<1>. QED  BY <1>1, <1>4

(* There is a longest, the first of those. *)
LEMMA BestExists ==
  ASSUME NEW S \in SUBSET Nat, S # {}, NEW size \in [S -> Nat], NEW l \in Nat,
         \A m \in S : size[m] <= l
  PROVE  \E m \in S : \A n \in S : size[m] > size[n] \/ (size[m] = size[n] /\ m <= n)
<1>1. PICK d \in Nat : /\ \E m \in S : size[m] = l - d
                       /\ \A n \in S : size[n] <= l - d
  <2>. DEFINE D == {l - size[m] : m \in S}
  <2>1. D \in SUBSET Nat /\ D # {}
    <3>1. \A m \in S : l - size[m] \in Nat  OBVIOUS
    <3>. QED  BY <3>1
  <2>2. PICK d \in D : \A e \in D : d <= e
    <3>. HIDE DEF D
    <3>. QED  BY <2>1, SmallestOf
  <2>3. \E m \in S : size[m] = l - d  BY <2>2
  <2>4. ASSUME NEW n \in S PROVE size[n] <= l - d
    <3>1. l - size[n] \in D  OBVIOUS
    <3>2. d <= l - size[n] /\ d \in Nat  BY <2>1, <2>2, <3>1
    <3>. QED  BY <3>2
  <2>. QED  BY <2>1, <2>3, <2>4
<1>. DEFINE E == {m \in S : size[m] = l - d}
<1>2. E \in SUBSET Nat /\ E # {}  BY <1>1
<1>3. PICK m \in E : \A n \in E : m <= n
  <2>. HIDE DEF E
  <2>. QED  BY <1>2, SmallestOf
<1>4. ASSUME NEW n \in S PROVE size[m] > size[n] \/ (size[m] = size[n] /\ m <= n)
  <2>1. PICK x \in Nat, y \in Nat : x = size[n] /\ y = size[m] /\ y = l - d  BY <1>3
  <2>2. x <= y
    <3>1. size[n] <= l - d  BY <1>1
    <3>. QED  BY <2>1, <3>1
  <2>3. CASE x = y  BY <1>3, <2>1, <2>3
  <2>4. CASE x # y
    <3>1. y > x  BY <2>2, <2>4
    <3>. QED  BY <2>1, <3>1
  <2>. QED  BY <2>3, <2>4
<1>. QED  BY <1>3, <1>4

(* A text without NULs. *)
Plain(c) == c \in Seq(OneCell) /\ \A i \in 1 .. Len(c) : ~IsNul(c[i])

(* If every marked text ends, with no more than a script has, and all scripts are there, the
   best slice is one of them. *)
LEMMA BestIsScript ==
  ASSUME NEW C, C # {}, \A c \in C : Plain(c), NEW f, Closed(f, C), \A c \in C : Keeping(f, c)
  PROVE  BestSlice(f) \in C
<1>1. PICK l \in Nat : l = Len(f) /\ f \in Seq(OneCell) /\ DOMAIN f = 1 .. l
  BY LenProperties DEF Closed
<1>. DEFINE S == {m \in DOMAIN f : f[m] = Marker}
<1>2. DOMAIN Slices(f) = S /\ \A m \in S : Slices(f)[m] = UpToNul(Rest(f, m))  BY DEF Slices
<1>3. ASSUME NEW m \in S
      PROVE  \E n \in m .. l, c \in C :
               /\ IsNul(f[n]) /\ n - m <= Len(c) /\ (n - m = Len(c) => Stood(f, m, c))
               /\ \E q \in m .. n : /\ IsNul(f[q]) /\ Slices(f)[m] = SubSeq(f, m, q - 1)
                                    /\ Len(Slices(f)[m]) = q - m
  <2>1. m \in 1 .. Len(f) /\ Ended(f, C, m)  BY <1>1 DEF Closed
  <2>2. PICK n \in m .. l, c \in C :
          IsNul(f[n]) /\ n - m <= Len(c) /\ (n - m = Len(c) => Stood(f, m, c))
    BY <1>1, <2>1 DEF Ended
  <2>3. n \in m .. Len(f)  BY <1>1, <2>2
  <2>4. \E q \in m .. n : /\ IsNul(f[q]) /\ UpToNul(Rest(f, m)) = SubSeq(f, m, q - 1)
                          /\ Len(UpToNul(Rest(f, m))) = q - m
    BY <1>1, <2>1, <2>2, <2>3, UpToNulIs
  <2>. QED  BY <1>2, <2>2, <2>4
<1>4. \A m \in S : m \in 1 .. l /\ Len(Slices(f)[m]) \in Nat /\ Len(Slices(f)[m]) <= l
  <2>. SUFFICES ASSUME NEW m \in S PROVE m \in 1 .. l /\ Len(Slices(f)[m]) \in 0 .. l  OBVIOUS
  <2>1. m \in 1 .. l  BY <1>1
  <2>2. PICK n \in m .. l : \E q \in m .. n : Len(Slices(f)[m]) = q - m  BY <1>3
  <2>3. PICK q \in m .. n : Len(Slices(f)[m]) = q - m  BY <2>2
  <2>. QED  BY <1>1, <2>1, <2>2, <2>3
<1>5. S # {}
  <2>1. PICK c \in C : Keeping(f, c)  OBVIOUS
  <2>. QED  BY <1>1, <2>1 DEF Keeping
<1>6. \E m \in S : \A n \in S : Better(f, m, n)
  <2>. DEFINE size == [m \in S |-> Len(Slices(f)[m])]
  <2>1. size \in [S -> Nat] /\ (\A m \in S : size[m] <= l) /\ S \in SUBSET Nat  BY <1>1, <1>4
  <2>. HIDE DEF size, S
  <2>2. PICK m \in S : \A n \in S : size[m] > size[n] \/ (size[m] = size[n] /\ m <= n)
    BY <1>1, <1>5, <2>1, BestExists
  <2>. QED  BY <2>2 DEF size, Better
<1>7. PICK b : b = CHOOSE m \in S : \A n \in S : Better(f, m, n)  OBVIOUS
<1>8. b \in S /\ \A n \in S : Better(f, b, n)
  <2>. HIDE DEF S
  <2>. QED  BY <1>6, <1>7
<1>9. BestSlice(f) = Slices(f)[b]  BY <1>5, <1>7, <1>8, BestSliceIs
<1>10. PICK n \in b .. l, c \in C :
         /\ IsNul(f[n]) /\ n - b <= Len(c) /\ (n - b = Len(c) => Stood(f, b, c))
         /\ \E q \in b .. n : /\ IsNul(f[q]) /\ Slices(f)[b] = SubSeq(f, b, q - 1)
                              /\ Len(Slices(f)[b]) = q - b
  BY <1>3, <1>8
<1>11. PICK q \in b .. n : /\ IsNul(f[q]) /\ Slices(f)[b] = SubSeq(f, b, q - 1)
                           /\ Len(Slices(f)[b]) = q - b
  BY <1>10
<1>12. PICK k \in Nat : k = Len(c) /\ c \in Seq(OneCell) /\ \A i \in 1 .. k : ~IsNul(c[i])
  BY <1>10, LenProperties DEF Plain
<1>13. PICK p \in 1 .. l : f[p] = Marker /\ p + k <= l /\ IsNul(f[p + k]) /\ Stood(f, p, c)
  BY <1>1, <1>10, <1>12 DEF Keeping
<1>14. Len(Slices(f)[p]) = k
  <2>1. p \in S /\ p + k \in p .. Len(f) /\ p \in 1 .. Len(f)  BY <1>1, <1>13
  <2>2. PICK r \in p .. p + k : /\ IsNul(f[r]) /\ \A i \in p .. r - 1 : ~IsNul(f[i])
                                /\ Len(UpToNul(Rest(f, p))) = r - p
    BY <1>1, <1>13, <2>1, UpToNulIs
  <2>3. r = p + k
    <3>. SUFFICES ASSUME r # p + k PROVE FALSE  OBVIOUS
    <3>1. r - p + 1 \in 1 .. k /\ p + (r - p + 1) - 1 = r  BY <1>12, <1>13, <2>2
    <3>2. f[r] = c[r - p + 1]  BY <1>12, <1>13, <3>1 DEF Stood
    <3>. QED  BY <1>12, <2>2, <3>1, <3>2
  <2>. QED  BY <1>2, <1>12, <1>13, <2>1, <2>2, <2>3
<1>15. q - b >= k
  <2>1. p \in S  BY <1>1, <1>13
  <2>2. Better(f, b, p)  BY <1>8, <2>1
  <2>3. PICK x \in Nat : x = Len(Slices(f)[b])  BY <1>4, <1>8
  <2>4. x > k \/ x = k  BY <1>14, <2>2, <2>3 DEF Better
  <2>. QED  BY <1>11, <1>12, <2>3, <2>4
<1>16. b \in 1 .. l  BY <1>4, <1>8
<1>17. q = n /\ q - b = k
  <2>1. q \in b .. n /\ n \in b .. l /\ n - b <= k  BY <1>10, <1>12
  <2>2. q \in Int /\ n \in Int /\ b \in Int  BY <1>16, <2>1
  <2>. QED  BY <1>12, <1>15, <2>1, <2>2
<1>18. SubSeq(f, b, q - 1) = c
  <2>1. Stood(f, b, c)  BY <1>10, <1>12, <1>17
  <2>2. PICK e \in Nat : e = b - 1  BY <1>16
  <2>3. e + k <= Len(f) /\ e + 1 = b /\ e + k = q - 1  BY <1>1, <1>10, <1>12, <1>16, <1>17, <2>2
  <2>4. \A i \in 1 .. k : f[e + i] = c[i]
    <3>1. \A i \in 1 .. k : b + i - 1 = e + i  BY <1>16, <2>2
    <3>. QED  BY <1>12, <2>1, <3>1 DEF Stood
  <2>5. SubSeq(f, e + 1, e + k) = c  BY <1>1, <1>12, <2>3, <2>4, SubSeqHas
  <2>. QED  BY <2>3, <2>5
<1>. QED  BY <1>9, <1>10, <1>11, <1>18

(* Where no marker is, every marked text ends. *)
LEMMA NoMarkerClosed ==
  ASSUME NEW C, NEW f \in Seq(OneCell), \A i \in 1 .. Len(f) : f[i] # Marker
  PROVE  Closed(f, C)
BY DEF Closed

(* A NUL ends a text, and marks none. *)
LEMMA NulIs == Nul \in OneCell /\ Nul # Marker /\ IsNul(Nul)
<1>1. Nul \in OneCell  BY DEF Nul, Cell, OneCell, Tags
<1>2. Nul # Marker
  <2>1. Nul.is = "nul" /\ Marker.is = "marker"  BY DEF Nul, Marker, Cell
  <2>. QED  BY <2>1
<1>3. IsNul(Nul)  BY DEF Nul, Cell, IsNul
<1>. QED  BY <1>1, <1>2, <1>3

(* A content with the NUL that Bun writes behind it. *)
LEMMA ContentClosed ==
  ASSUME NEW C, NEW c \in Seq(OneCell), TextOnly(c), Script(c) => c \in C
  PROVE  Closed(c \o <<Nul>>, C) /\ (Script(c) => Keeping(c \o <<Nul>>, c))
<1>1. PICK l \in Nat : l = Len(c) /\ DOMAIN c = 1 .. l  BY LenProperties
<1>2. PICK h : h = c \o <<Nul>>  OBVIOUS
<1>3. /\ h \in Seq(OneCell) /\ Len(h) = l + 1 /\ \A i \in 1 .. l : h[i] = c[i]
      /\ h[l + 1] = Nul
  <2>1. <<Nul>> \in Seq(OneCell) /\ Len(<<Nul>>) = 1 /\ <<Nul>>[1] = Nul  BY NulIs
  <2>2. 1 \in 1 .. Len(<<Nul>>)  BY <2>1
  <2>. QED  BY <1>1, <1>2, <2>1, <2>2, JoinCells
<1>4. Stood(h, 1, c)
  <2>1. \A i \in 1 .. l : 1 + i - 1 = i  OBVIOUS
  <2>. QED  BY <1>1, <1>3, <2>1 DEF Stood
<1>5. ASSUME NEW m \in 1 .. l + 1, h[m] = Marker PROVE Ended(h, C, m)
  <2>1. m \in 1 .. l
    <3>1. m # l + 1  BY <1>3, <1>5, NulIs
    <3>. QED  BY <1>1, <3>1
  <2>2. Marker \in Range(c)  BY <1>1, <1>3, <1>5, <2>1 DEF Range
  <2>3. Script(c) /\ c \in C  BY <2>2 DEF TextOnly
  <2>4. IsNul(h[l + 1])  BY <1>3, NulIs
  <2>5. l + 1 \in m .. Len(h) /\ (l + 1) - m <= l /\ ((l + 1) - m = l => m = 1)  BY <1>1, <1>3, <2>1
  <2>. QED  BY <1>1, <1>4, <2>3, <2>4, <2>5 DEF Ended
<1>6. ASSUME Script(c) PROVE Keeping(h, c)
  <2>1. l # 0 /\ c[1] = Marker  BY <1>1, <1>6, EmptySeq DEF Script
  <2>2. 1 \in 1 .. l /\ 1 \in 1 .. Len(h) /\ 1 + l = l + 1 /\ 1 + l <= Len(h)  BY <1>1, <1>3, <2>1
  <2>3. h[1] = Marker /\ IsNul(h[1 + l])  BY <1>3, <2>1, <2>2, NulIs
  <2>. QED  BY <1>1, <1>4, <2>2, <2>3 DEF Keeping
<1>. QED  BY <1>2, <1>3, <1>5, <1>6 DEF Closed

(* A file as Bun writes it: its path and its content. *)
LEMMA EntryClosed ==
  ASSUME NEW C, C \subseteq Seq(OneCell), NEW e \in Entry, TextOnly(e.content),
         Script(e.content) => e.content \in C
  PROVE  /\ Closed(EntryCells(e), C)
         /\ Script(e.content) => Keeping(EntryCells(e), e.content)
<1>1. PICK p : p = (IF e.scheme THEN <<Scheme>> ELSE << >>) \o <<Root, e.name, Nul>>  OBVIOUS
<1>2. e.content \in Seq(OneCell) /\ <<Nul>> \in Seq(OneCell)  BY NulIs DEF Entry, Cells, OneCell
<1>3. p \in Seq(OneCell) /\ Closed(p, C)
  <2>1. e.name \in OneCell /\ Root \in OneCell /\ Scheme \in OneCell
    BY DEF Entry, OneCell, Tags, Root, Scheme, Cell
  <2>2. e.name # Marker /\ Root # Marker /\ Scheme # Marker
    BY DEF Entry, Root, Scheme, Marker, Cell
  <2>3. <<Root, e.name, Nul>> \in Seq(OneCell) /\ Closed(<<Root, e.name, Nul>>, C)
    <3>1. \A i \in 1 .. 3 : <<Root, e.name, Nul>>[i] # Marker  BY <2>2, NulIs
    <3>2. <<Root, e.name, Nul>> \in Seq(OneCell) /\ Len(<<Root, e.name, Nul>>) = 3  BY <2>1, NulIs
    <3>. QED  BY <3>1, <3>2, NoMarkerClosed
  <2>4. <<Scheme>> \in Seq(OneCell) /\ Closed(<<Scheme>>, C)
    <3>1. <<Scheme>> \in Seq(OneCell) /\ Len(<<Scheme>>) = 1 /\ \A i \in 1 .. 1 : <<Scheme>>[i] # Marker
      BY <2>1, <2>2
    <3>. QED  BY <3>1, NoMarkerClosed
  <2>5. << >> \in Seq(OneCell) /\ Closed(<< >>, C)
    <3>1. << >> \in Seq(OneCell) /\ \A i \in 1 .. Len(<< >>) : << >>[i] # Marker  OBVIOUS
    <3>. QED  BY <3>1, NoMarkerClosed
  <2>6. p = <<Scheme>> \o <<Root, e.name, Nul>> \/ p = << >> \o <<Root, e.name, Nul>>  BY <1>1
  <2>7. Closed(p, C)  BY <2>3, <2>4, <2>5, <2>6, ClosedJoin
  <2>. QED  BY <2>7 DEF Closed
<1>4. PICK q : q = e.content \o <<Nul>>  OBVIOUS
<1>5. Closed(q, C) /\ (Script(e.content) => Keeping(q, e.content))  BY <1>2, <1>4, ContentClosed
<1>6. EntryCells(e) = p \o q
  <2>1. EntryCells(e) = (p \o e.content) \o <<Nul>>  BY <1>1 DEF EntryCells
  <2>2. PICK c \in Seq(OneCell), z \in Seq(OneCell) : c = e.content /\ z = <<Nul>>  BY <1>2
  <2>3. (p \o c) \o z = p \o (c \o z)  BY <1>3, ConcatAssociative
  <2>. QED  BY <1>4, <2>1, <2>2, <2>3
<1>7. Closed(p \o q, C)  BY <1>3, <1>5, ClosedJoin
<1>8. q \in Seq(OneCell)  BY <1>5 DEF Closed
<1>9. Script(e.content) => Keeping(p \o q, e.content)  BY <1>2, <1>3, <1>5, <1>8, KeepingJoin
<1>. QED  BY <1>6, <1>7, <1>9

(* The scripts among the files. *)
ScriptsOf(image) == {content \in ContentsOf(image) : Script(content)}

(* The files of an image, and its scripts. *)
LEMMA ImageTyped ==
  ASSUME NEW image \in Images
  PROVE  /\ image \in Seq(Entry) /\ Len(image) \in Nat /\ DOMAIN image = 1 .. Len(image)
         /\ \A k \in 1 .. Len(image) : image[k] \in Entry /\ TextOnly(image[k].content)
         /\ \A c \in ScriptsOf(image) : Plain(c)
<1>1. image \in Seq(Entry) /\ \A c \in ContentsOf(image) : TextOnly(c)  BY RawAssumption
<1>2. PICK l \in Nat : l = Len(image) /\ DOMAIN image = 1 .. l  BY <1>1, LenProperties
<1>3. \A k \in 1 .. l : image[k] \in Entry  BY <1>1, <1>2, ElementOfSeq
<1>4. \A k \in 1 .. l : TextOnly(image[k].content)  BY <1>1, <1>2 DEF ContentsOf
<1>5. ASSUME NEW c \in ScriptsOf(image) PROVE Plain(c)
  <2>1. PICK k \in 1 .. l : c = image[k].content  BY <1>2 DEF ScriptsOf, ContentsOf
  <2>2. c \in Seq(OneCell)  BY <1>3, <2>1 DEF Entry, Cells, OneCell
  <2>3. PICK n \in Nat : n = Len(c) /\ DOMAIN c = 1 .. n  BY <2>2, LenProperties
  <2>4. Script(c)  BY DEF ScriptsOf
  <2>5. 1 \in 1 .. n
    <3>1. n # 0  BY <2>2, <2>3, <2>4, EmptySeq DEF Script
    <3>. QED  BY <3>1
  <2>6. Marker \in Range(c)  BY <2>3, <2>4, <2>5 DEF Range, Script
  <2>7. \A cell \in Range(c) : ~IsNul(cell)  BY <1>4, <2>1, <2>6 DEF TextOnly
  <2>8. \A i \in 1 .. n : c[i] \in Range(c)  BY <2>3 DEF Range
  <2>. QED  BY <2>2, <2>3, <2>7, <2>8 DEF Plain
<1>. QED  BY <1>1, <1>2, <1>3, <1>4, <1>5

(* The marked texts of the executable end, and are shorter than any script. *)
LEMMA HostClosed ==
  ASSUME NEW image \in Images, NEW script \in ScriptsOf(image)
  PROVE  Closed(Host, ScriptsOf(image))
<1>1. PICK l \in Nat : l = Len(Host) /\ Host \in Seq(OneCell) /\ DOMAIN Host = 1 .. l
  BY RawAssumption, LenProperties DEF Cells, OneCell
<1>2. ASSUME NEW m \in 1 .. l, Host[m] = Marker PROVE Ended(Host, ScriptsOf(image), m)
  <2>1. Short(m)  BY <1>1, <1>2, RawAssumption
  <2>2. PICK n \in m .. l : IsNul(Host[n]) /\ n - m < Len(script)
    BY <1>1, <2>1 DEF Short, ScriptsOf
  <2>3. script \in Seq(OneCell)
    BY ImageTyped DEF Plain
  <2>4. PICK k \in Nat : k = Len(script)  BY <2>3, LenProperties
  <2>5. n - m <= k /\ n - m # k  BY <1>1, <2>2, <2>4
  <2>. QED  BY <1>1, <2>2, <2>4, <2>5 DEF Ended
<1>. QED  BY <1>1, <1>2 DEF Closed

(* The files, one behind the other. *)
Laid(image) == FlattenSeq([k \in DOMAIN image |-> EntryCells(image[k])])

(* All marked texts of the files end, and every script stands there. *)
LEMMA LaidClosed ==
  ASSUME NEW image \in Images, NEW C, C = ScriptsOf(image)
  PROVE  Closed(Laid(image), C) /\ \A c \in C : Keeping(Laid(image), c)
<1>1. PICK n \in Nat : n = Len(image) /\ DOMAIN image = 1 .. n  BY ImageTyped
<1>2. C \subseteq Seq(OneCell)  BY ImageTyped DEF Plain
<1>3. PICK seqs : seqs = [k \in 1 .. n |-> EntryCells(image[k])]  OBVIOUS
<1>4. \A k \in 1 .. n : /\ Closed(seqs[k], C)
                        /\ Script(image[k].content) => Keeping(seqs[k], image[k].content)
  <2>. SUFFICES ASSUME NEW k \in 1 .. n
                PROVE  /\ Closed(EntryCells(image[k]), C)
                       /\ Script(image[k].content) => Keeping(EntryCells(image[k]), image[k].content)
    BY <1>3
  <2>1. image[k] \in Entry /\ TextOnly(image[k].content)  BY <1>1, ImageTyped
  <2>2. Script(image[k].content) => image[k].content \in C  BY <1>1 DEF ScriptsOf, ContentsOf
  <2>. QED  BY <1>2, <2>1, <2>2, EntryClosed
<1>5. \A k \in 1 .. n : seqs[k] \in Seq(OneCell)  BY <1>4 DEF Closed
<1>6. seqs \in Seq(Seq(OneCell)) /\ Len(seqs) = n  BY <1>3, <1>5
<1>7. PICK u \in [0 .. n -> Seq(OneCell)] :
        /\ u[0] = << >> /\ u[n] = FlattenSeq(seqs)
        /\ \A k \in 1 .. n : u[k] = u[k - 1] \o seqs[k]
  <2>1. \E u \in [0 .. Len(seqs) -> Seq(OneCell)] :
          Grows(u, seqs, Len(seqs)) /\ u[Len(seqs)] = FlattenSeq(seqs)
    BY <1>6, FlatSteps
  <2>. QED  BY <1>6, <2>1 DEF Grows
<1>. DEFINE Good == {k \in 0 .. n : /\ Closed(u[k], C)
                                    /\ \A j \in 1 .. k : Script(image[j].content) =>
                                         Keeping(u[k], image[j].content)}
<1>8. 0 \in Good
  <2>1. << >> \in Seq(OneCell) /\ \A i \in 1 .. Len(<< >>) : << >>[i] # Marker  OBVIOUS
  <2>2. Closed(<< >>, C)  BY <2>1, NoMarkerClosed
  <2>. QED  BY <1>7, <2>2
<1>9. ASSUME NEW k \in 1 .. n, k - 1 \in Good PROVE k \in Good
  <2>1. k - 1 \in 0 .. n /\ u[k - 1] \in Seq(OneCell) /\ seqs[k] \in Seq(OneCell)  BY <1>5, <1>7
  <2>2. u[k] = u[k - 1] \o seqs[k]  BY <1>7
  <2>3. Closed(u[k], C)  BY <1>2, <1>4, <1>9, <2>2, ClosedJoin
  <2>4. ASSUME NEW j \in 1 .. k, Script(image[j].content) PROVE Keeping(u[k], image[j].content)
    <3>1. image[j].content \in Seq(OneCell)
      <4>1. j \in 1 .. n  OBVIOUS
      <4>2. image[j] \in Entry  BY <1>1, <4>1, ImageTyped
      <4>. QED  BY <4>2 DEF Entry, Cells, OneCell
    <3>2. CASE j = k  BY <1>4, <2>1, <2>2, <2>4, <3>1, <3>2, KeepingJoin
    <3>3. CASE j # k
      <4>1. j \in 1 .. k - 1  BY <3>3
      <4>2. Keeping(u[k - 1], image[j].content)  BY <1>9, <2>4, <4>1
      <4>. QED  BY <2>1, <2>2, <3>1, <4>2, KeepingJoin
    <3>. QED  BY <3>2, <3>3
  <2>. QED  BY <2>3, <2>4
<1>. HIDE DEF Good
<1>10. \A k \in 0 .. n : k \in Good  BY <1>8, <1>9, UpTo
<1>11. n \in Good  BY <1>10
<1>12. u[n] = Laid(image)  BY <1>1, <1>3, <1>7 DEF Laid
<1>13. \A c \in C : \E j \in 1 .. n : c = image[j].content /\ Script(c)  BY <1>1 DEF ScriptsOf, ContentsOf
<1>. QED  BY <1>11, <1>12, <1>13 DEF Good

(* The section is as it was laid out, and the source is the best slice. *)
RawInv ==
  /\ entries \in Images
  /\ \E tail \in Tails : section = Laid(entries) \o tail
  /\ source = Missing \/ source = BestSlice(Host \o section)

(* The longest marked text is a script. *)
LEMMA RawInvShows == RawInv => SourceIsAFile
<1>. SUFFICES ASSUME RawInv, source # Missing, NEW k \in DOMAIN entries, Script(entries[k].content)
              PROVE  \E j \in DOMAIN entries : source = entries[j].content
  BY DEF SourceIsAFile
<1>1. PICK C : C = ScriptsOf(entries)  OBVIOUS
<1>2. entries[k].content \in C /\ entries \in Images  BY <1>1 DEF ScriptsOf, ContentsOf, RawInv
<1>3. (\A c \in C : Plain(c)) /\ C \subseteq Seq(OneCell)  BY <1>1, <1>2, ImageTyped DEF Plain
<1>4. PICK tail \in Tails : section = Laid(entries) \o tail  BY DEF RawInv
<1>5. Closed(Laid(entries), C) /\ \A c \in C : Keeping(Laid(entries), c)  BY <1>1, <1>2, LaidClosed
<1>6. tail \in Seq(OneCell) /\ Closed(tail, C)
  <2>1. tail \in Seq(OneCell) /\ Marker \notin Range(tail)  BY RawAssumption DEF Cells, OneCell
  <2>2. \A i \in 1 .. Len(tail) : tail[i] # Marker  BY <2>1, LenProperties DEF Range
  <2>. QED  BY <2>1, <2>2, NoMarkerClosed
<1>7. Closed(Host, C)  BY <1>1, <1>2, HostClosed
<1>8. Laid(entries) \in Seq(OneCell) /\ Host \in Seq(OneCell)  BY <1>5, <1>7 DEF Closed
<1>9. Closed(section, C)  BY <1>3, <1>4, <1>5, <1>6, ClosedJoin
<1>10. section \in Seq(OneCell)  BY <1>9 DEF Closed
<1>11. Closed(Host \o section, C)  BY <1>3, <1>7, <1>9, ClosedJoin
<1>12. \A c \in C : Keeping(Host \o section, c)
  <2>. SUFFICES ASSUME NEW c \in C PROVE Keeping(Host \o section, c)  OBVIOUS
  <2>1. c \in Seq(OneCell)  BY <1>3
  <2>2. Keeping(section, c)  BY <1>4, <1>5, <1>6, <1>8, <2>1, KeepingJoin
  <2>. QED  BY <1>8, <1>10, <2>1, <2>2, KeepingJoin
<1>13. BestSlice(Host \o section) \in C  BY <1>2, <1>3, <1>11, <1>12, BestIsScript
<1>14. source \in C  BY <1>13 DEF RawInv
<1>. QED  BY <1>1, <1>14 DEF ScriptsOf, ContentsOf

-----------------------------------------------------------------------------
(* Raw extraction: the ends of what is cut out *)

(* A function that jumps from each place to one of a lower rank, until it is done. *)
Jumping(f, S, done, value, to) == f = [x \in S |-> IF x \in done THEN value[x] ELSE f[to[x]]]

Descends(S, done, to, rank) ==
  \A x \in S : x \notin done => to[x] \in S /\ rank[to[x]] < rank[x]

(* It exists. *)
LEMMA Jumps ==
  ASSUME NEW S, NEW N \in Nat, NEW rank \in [S -> 0 .. N], NEW done, NEW value, NEW to,
         Descends(S, done, to, rank)
  PROVE  \E f : Jumping(f, S, done, value, to)
<1>. DEFINE Solves(f, r) == \A x \in S : rank[x] <= r =>
                             f[x] = IF x \in done THEN value[x] ELSE f[to[x]]
            Good == {r \in 0 .. N : \E f : Solves(f, r)}
<1>1. 0 \in Good
  <2>1. \A x \in S : rank[x] <= 0 => x \in done
    <3>. SUFFICES ASSUME NEW x \in S, rank[x] <= 0, x \notin done PROVE FALSE  OBVIOUS
    <3>1. rank[to[x]] < rank[x] /\ rank[to[x]] \in 0 .. N /\ rank[x] \in 0 .. N  BY DEF Descends
    <3>. QED  BY <3>1
  <2>. DEFINE g == [x \in S |-> value[x]]
  <2>2. Solves(g, 0)  BY <2>1
  <2>. HIDE DEF Solves, g
  <2>. QED  BY <2>2
<1>2. ASSUME NEW r \in 1 .. N, r - 1 \in Good PROVE r \in Good
  <2>1. PICK f : Solves(f, r - 1)  BY <1>2
  <2>. DEFINE g == [x \in S |-> IF rank[x] <= r - 1 THEN f[x]
                                ELSE IF x \in done THEN value[x] ELSE f[to[x]]]
  <2>2. ASSUME NEW x \in S, rank[x] <= r
        PROVE  g[x] = IF x \in done THEN value[x] ELSE g[to[x]]
    <3>1. rank[x] \in 0 .. N  OBVIOUS
    <3>2. x \notin done => /\ to[x] \in S /\ rank[to[x]] <= r - 1
      <4>. SUFFICES ASSUME x \notin done PROVE to[x] \in S /\ rank[to[x]] <= r - 1  OBVIOUS
      <4>1. to[x] \in S /\ rank[to[x]] < rank[x]  BY DEF Descends
      <4>2. rank[to[x]] \in 0 .. N  BY <4>1
      <4>. QED  BY <2>2, <3>1, <4>1, <4>2
    <3>3. x \notin done => g[to[x]] = f[to[x]]  BY <3>2
    <3>4. CASE rank[x] <= r - 1
      <4>1. g[x] = f[x]  BY <3>4
      <4>2. f[x] = IF x \in done THEN value[x] ELSE f[to[x]]  BY <2>1, <3>4
      <4>. QED  BY <3>3, <4>1, <4>2
    <3>5. CASE ~(rank[x] <= r - 1)
      <4>1. g[x] = IF x \in done THEN value[x] ELSE f[to[x]]  BY <3>5
      <4>. QED  BY <3>3, <4>1
    <3>. QED  BY <3>4, <3>5
  <2>3. Solves(g, r)
    <3>. HIDE DEF g
    <3>. QED  BY <2>2
  <2>. HIDE DEF Solves, g
  <2>. QED  BY <2>3
<1>3. \A r \in 0 .. N : r \in Good
  <2>. HIDE DEF Good
  <2>. QED  BY <1>1, <1>2, UpTo
<1>4. PICK f : Solves(f, N)
  <2>1. N \in Good  BY <1>3
  <2>. HIDE DEF Solves
  <2>. QED  BY <2>1
<1>. DEFINE g == [x \in S |-> f[x]]
<1>5. \A x \in S : f[x] = IF x \in done THEN value[x] ELSE f[to[x]]
  <2>1. \A x \in S : rank[x] <= N  OBVIOUS
  <2>. QED  BY <1>4, <2>1
<1>6. \A x \in S : g[x] = IF x \in done THEN value[x] ELSE g[to[x]]
  <2>1. \A x \in S : x \notin done => to[x] \in S  BY DEF Descends
  <2>. QED  BY <1>5, <2>1
<1>7. g = [x \in S |-> IF x \in done THEN value[x] ELSE g[to[x]]]
  <2>1. g = [x \in S |-> g[x]]  OBVIOUS
  <2>. HIDE DEF g
  <2>. QED  BY <1>6, <2>1
<1>. HIDE DEF g
<1>. QED  BY <1>7 DEF Jumping

(* Each of its values is one of those where it is done. *)
LEMMA JumpsEnd ==
  ASSUME NEW S, NEW N \in Nat, NEW rank \in [S -> 0 .. N], NEW done, NEW value, NEW to,
         Descends(S, done, to, rank), NEW f, Jumping(f, S, done, value, to), NEW x \in S
  PROVE  \E y \in S : y \in done /\ f[x] = value[y]
<1>. DEFINE Good == {r \in 0 .. N : \A z \in S : rank[z] <= r =>
                                      \E y \in S : y \in done /\ f[z] = value[y]}
<1>0. \A z \in S : f[z] = IF z \in done THEN value[z] ELSE f[to[z]]  BY DEF Jumping
<1>1. 0 \in Good
  <2>. SUFFICES ASSUME NEW z \in S, rank[z] <= 0, z \notin done PROVE FALSE  BY <1>0
  <2>1. rank[to[z]] < rank[z] /\ rank[to[z]] \in 0 .. N /\ rank[z] \in 0 .. N  BY DEF Descends
  <2>. QED  BY <2>1
<1>2. ASSUME NEW r \in 1 .. N, r - 1 \in Good PROVE r \in Good
  <2>. SUFFICES ASSUME NEW z \in S, rank[z] <= r PROVE \E y \in S : y \in done /\ f[z] = value[y]
    OBVIOUS
  <2>1. CASE z \in done  BY <1>0, <2>1
  <2>2. CASE z \notin done
    <3>1. to[z] \in S /\ rank[to[z]] < rank[z]  BY <2>2 DEF Descends
    <3>2. rank[to[z]] \in 0 .. N /\ rank[z] \in 0 .. N  BY <3>1
    <3>3. rank[to[z]] <= r - 1  BY <3>1, <3>2
    <3>4. \E y \in S : y \in done /\ f[to[z]] = value[y]  BY <1>2, <3>1, <3>3
    <3>. QED  BY <1>0, <2>2, <3>4
  <2>. QED  BY <2>1, <2>2
<1>3. \A r \in 0 .. N : r \in Good
  <2>. HIDE DEF Good
  <2>. QED  BY <1>1, <1>2, UpTo
<1>4. N \in Good /\ rank[x] <= N  BY <1>3
<1>. QED  BY <1>4

(* A cell is a number. *)
LEMMA ValueType ==
  ASSUME NEW c \in Seq(OneCell), NEW k \in 1 .. Len(c)
  PROVE  Value(c, k) \in Nat
<1>1. c[k] \in OneCell /\ Len(c) \in Nat  BY ElementOfSeq, LenProperties
<1>. QED  BY <1>1 DEF Value, OneCell

WasmOf(c, f) ==
  f = [it \in (1 .. Len(c) + 1) \X (0 .. 12) |->
        IF it[1] > Len(c) THEN it[1] - 1
        ELSE IF Value(c, it[1]) > 12 THEN it[1] - 1
        ELSE IF it[1] = Len(c) THEN Missing
        ELSE IF it[1] + 1 + Value(c, it[1] + 1) > Len(c) THEN it[1] - 1
        ELSE IF Value(c, it[1]) # 0 /\ Value(c, it[1]) < it[2] THEN it[1] - 1
        ELSE f[<<it[1] + 2 + Value(c, it[1] + 1),
                 IF Value(c, it[1]) = 0 THEN it[2] ELSE Value(c, it[1])>>]]

(* What wasm_length computes, as a function. *)
LEMMA WasmIs ==
  ASSUME NEW c, NEW f, f = CHOOSE g : WasmOf(c, g)
  PROVE  WasmLength(c) = f[<<2, 0>>]
BY Zenon DEF WasmLength, WasmOf

(* A wasm file is no longer than what it is looked for in. *)
LEMMA WasmWithin ==
  ASSUME NEW c \in Seq(OneCell), c # << >>, NEW n, n = WasmLength(c), n # Missing
  PROVE  n \in Nat /\ n <= Len(c)
<1>1. PICK l \in Nat : l = Len(c) /\ l > 0
  <2>1. Len(c) \in Nat /\ Len(c) # 0  BY LenProperties, EmptySeq
  <2>. QED  BY <2>1
<1>. DEFINE S == (1 .. l + 1) \X (0 .. 12)
            back(it) == \/ it[1] > l
                        \/ Value(c, it[1]) > 12
                        \/ /\ it[1] # l
                           /\ \/ it[1] + 1 + Value(c, it[1] + 1) > l
                              \/ Value(c, it[1]) # 0 /\ Value(c, it[1]) < it[2]
            done == {it \in S : back(it) \/ it[1] = l}
            value == [it \in S |-> IF back(it) THEN it[1] - 1 ELSE Missing]
            to == [it \in S |-> <<it[1] + 2 + Value(c, it[1] + 1),
                                  IF Value(c, it[1]) = 0 THEN it[2] ELSE Value(c, it[1])>>]
            rank == [it \in S |-> l + 1 - it[1]]
<1>2. rank \in [S -> 0 .. l]
  <2>1. \A it \in S : it[1] \in 1 .. l + 1  OBVIOUS
  <2>2. \A it \in S : l + 1 - it[1] \in 0 .. l  BY <2>1
  <2>. QED  BY <2>2
<1>3. Descends(S, done, to, rank)
  <2>. SUFFICES ASSUME NEW it \in S, it \notin done PROVE to[it] \in S /\ rank[to[it]] < rank[it]
    BY DEF Descends
  <2>1. PICK k \in 1 .. l + 1, last \in 0 .. 12 : it = <<k, last>> /\ it[1] = k /\ it[2] = last
    OBVIOUS
  <2>2. k \in 1 .. l - 1 /\ Value(c, k) <= 12 /\ k + 1 + Value(c, k + 1) <= l
    <3>1. ~back(it) /\ k # l  BY <2>1
    <3>2. k <= l /\ k # l  BY <2>1, <3>1
    <3>3. k \in 1 .. l /\ k + 1 \in 1 .. l  BY <3>2
    <3>4. Value(c, k) \in Nat /\ Value(c, k + 1) \in Nat  BY <1>1, <3>3, ValueType
    <3>. QED  BY <2>1, <3>1, <3>2, <3>4
  <2>3. PICK v \in Nat, s \in Nat : v = Value(c, k) /\ s = Value(c, k + 1)
    <3>1. k \in 1 .. l /\ k + 1 \in 1 .. l  BY <2>2
    <3>. QED  BY <1>1, <3>1, ValueType
  <2>4. to[it] = <<k + 2 + s, IF v = 0 THEN last ELSE v>>  BY <2>1, <2>3
  <2>5. k + 2 + s \in 1 .. l + 1 /\ (IF v = 0 THEN last ELSE v) \in 0 .. 12 /\ k + 2 + s > k
    <3>. HIDE DEF S, back, done, value, to, rank
    <3>1. v <= 12 /\ k + 1 + s <= l  BY <2>2, <2>3
    <3>2. l \in Nat /\ k \in Nat /\ k >= 1 /\ v \in 0 .. 12 /\ last \in 0 .. 12  BY <2>1, <3>1
    <3>3. k + 2 + s \in 1 .. l + 1 /\ k + 2 + s > k  BY <2>3, <3>1, <3>2
    <3>4. (IF v = 0 THEN last ELSE v) \in 0 .. 12  BY <3>2
    <3>. QED  BY <3>3, <3>4
  <2>6. to[it] \in S /\ to[it][1] = k + 2 + s  BY <2>4, <2>5
  <2>7. rank[to[it]] = l + 1 - (k + 2 + s) /\ rank[it] = l + 1 - k  BY <2>1, <2>6
  <2>. QED  BY <2>5, <2>6, <2>7
<1>4. \A f : WasmOf(c, f) <=> Jumping(f, S, done, value, to)
  <2>. TAKE f
  <2>. DEFINE old(it) == IF it[1] > l THEN it[1] - 1
                         ELSE IF Value(c, it[1]) > 12 THEN it[1] - 1
                         ELSE IF it[1] = l THEN Missing
                         ELSE IF it[1] + 1 + Value(c, it[1] + 1) > l THEN it[1] - 1
                         ELSE IF Value(c, it[1]) # 0 /\ Value(c, it[1]) < it[2] THEN it[1] - 1
                         ELSE f[<<it[1] + 2 + Value(c, it[1] + 1),
                                  IF Value(c, it[1]) = 0 THEN it[2] ELSE Value(c, it[1])>>]
              jump(it) == IF it \in done THEN value[it] ELSE f[to[it]]
  <2>1. \A it \in S : old(it) = jump(it)  OBVIOUS
  <2>2. WasmOf(c, f) <=> f = [it \in S |-> old(it)]  BY <1>1 DEF WasmOf
  <2>3. Jumping(f, S, done, value, to) <=> f = [it \in S |-> jump(it)]  BY DEF Jumping
  <2>. HIDE DEF old, jump, S, done, value, to
  <2>4. [it \in S |-> old(it)] = [it \in S |-> jump(it)]  BY <2>1
  <2>. QED  BY <2>2, <2>3, <2>4
<1>5. PICK f : f = CHOOSE g : WasmOf(c, g)  OBVIOUS
<1>6. Jumping(f, S, done, value, to)
  <2>. HIDE DEF S, done, value, to, rank
  <2>1. \E g : Jumping(g, S, done, value, to)  BY <1>2, <1>3, Jumps
  <2>2. \E g : WasmOf(c, g)  BY <1>4, <2>1
  <2>. QED  BY <1>4, <1>5, <2>2
<1>7. PICK y \in S : y \in done /\ f[<<2, 0>>] = value[y]
  <2>1. <<2, 0>> \in S  BY <1>1
  <2>. HIDE DEF S, done, value, to, rank
  <2>. QED  BY <1>2, <1>3, <1>6, <2>1, JumpsEnd
<1>8. n = value[y]  BY <1>5, <1>7, WasmIs
<1>9. y[1] \in 1 .. l + 1 /\ value[y] = y[1] - 1  BY <1>7, <1>8
<1>. QED  BY <1>1, <1>8, <1>9

PngOf(c, f) ==
  f = [k \in 1 .. Len(c) + 1 |->
        IF k + 1 > Len(c) THEN Missing
        ELSE IF c[k] = Cell("number", 0) THEN k + 1 + Value(c, k + 1)
        ELSE IF k + 2 + Value(c, k + 1) > Len(c) THEN Missing
        ELSE f[k + 2 + Value(c, k + 1)]]

(* What png_length computes, as a function. *)
LEMMA PngIs ==
  ASSUME NEW c, NEW f, f = CHOOSE g : PngOf(c, g)
  PROVE  PngLength(c) = f[2]
BY Zenon DEF PngLength, PngOf

(* A PNG ends behind the chunk IEND. *)
LEMMA PngEnds ==
  ASSUME NEW c \in Seq(OneCell), c # << >>, NEW n, n = PngLength(c), n # Missing
  PROVE  \E k \in 1 .. Len(c) - 1 : c[k] = Cell("number", 0) /\ n = k + 1 + Value(c, k + 1)
<1>1. PICK l \in Nat : l = Len(c) /\ l > 0
  <2>1. Len(c) \in Nat /\ Len(c) # 0  BY LenProperties, EmptySeq
  <2>. QED  BY <2>1
<1>. DEFINE S == 1 .. l + 1
            iend(k) == k + 1 <= l /\ c[k] = Cell("number", 0)
            done == {k \in S : k + 1 > l \/ iend(k) \/ k + 2 + Value(c, k + 1) > l}
            value == [k \in S |-> IF iend(k) THEN k + 1 + Value(c, k + 1) ELSE Missing]
            to == [k \in S |-> k + 2 + Value(c, k + 1)]
            rank == [k \in S |-> l + 1 - k]
<1>2. rank \in [S -> 0 .. l]  BY <1>1
<1>3. Descends(S, done, to, rank)
  <2>. SUFFICES ASSUME NEW k \in S, k \notin done PROVE to[k] \in S /\ rank[to[k]] < rank[k]
    BY DEF Descends
  <2>1. k + 1 <= l /\ ~(k + 2 + Value(c, k + 1) > l)  BY <1>1
  <2>2. PICK s \in Nat : s = Value(c, k + 1)
    <3>1. k + 1 \in 1 .. l  BY <1>1, <2>1
    <3>. QED  BY <1>1, <3>1, ValueType
  <2>3. to[k] = k + 2 + s /\ k + 2 + s \in S /\ k + 2 + s > k  BY <1>1, <2>1, <2>2
  <2>4. rank[to[k]] = l + 1 - (k + 2 + s) /\ rank[k] = l + 1 - k  BY <2>3
  <2>. QED  BY <1>1, <2>2, <2>3, <2>4
<1>4. \A f : PngOf(c, f) <=> Jumping(f, S, done, value, to)
  <2>. TAKE f
  <2>. DEFINE old(k) == IF k + 1 > l THEN Missing
                        ELSE IF c[k] = Cell("number", 0) THEN k + 1 + Value(c, k + 1)
                        ELSE IF k + 2 + Value(c, k + 1) > l THEN Missing
                        ELSE f[k + 2 + Value(c, k + 1)]
              jump(k) == IF k \in done THEN value[k] ELSE f[to[k]]
  <2>1. ASSUME NEW k \in S PROVE old(k) = jump(k)
    <3>1. k + 1 <= l <=> ~(k + 1 > l)  BY <1>1
    <3>. QED  BY <3>1
  <2>2. PngOf(c, f) <=> f = [k \in S |-> old(k)]  BY <1>1 DEF PngOf
  <2>3. Jumping(f, S, done, value, to) <=> f = [k \in S |-> jump(k)]  BY DEF Jumping
  <2>. HIDE DEF old, jump, S, done, value, to
  <2>4. [k \in S |-> old(k)] = [k \in S |-> jump(k)]  BY <2>1
  <2>. QED  BY <2>2, <2>3, <2>4
<1>5. PICK f : f = CHOOSE g : PngOf(c, g)  OBVIOUS
<1>6. Jumping(f, S, done, value, to)
  <2>. HIDE DEF S, done, value, to, rank
  <2>1. \E g : Jumping(g, S, done, value, to)  BY <1>2, <1>3, Jumps
  <2>2. \E g : PngOf(c, g)  BY <1>4, <2>1
  <2>. QED  BY <1>4, <1>5, <2>2
<1>7. PICK y \in S : y \in done /\ f[2] = value[y]
  <2>1. 2 \in S  BY <1>1
  <2>. HIDE DEF S, done, value, to, rank
  <2>. QED  BY <1>2, <1>3, <1>6, <2>1, JumpsEnd
<1>8. n = value[y]  BY <1>5, <1>7, PngIs
<1>9. iend(y) /\ n = y + 1 + Value(c, y + 1)  BY <1>7, <1>8
<1>10. y \in 1 .. l - 1  BY <1>1, <1>7, <1>9
<1>. QED  BY <1>1, <1>9, <1>10

MachoOf(c, f) ==
  f = [it \in (0 .. Value(c, 2)) \X (Nat \ {0}) \X Nat |->
        IF it[1] = 0 THEN it[3]
        ELSE IF it[2] + 2 > Len(c) THEN Missing
        ELSE IF Value(c, it[2]) < 3 \/ it[2] + Value(c, it[2]) - 1 > Len(c) THEN Missing
        ELSE f[<<it[1] - 1, it[2] + Value(c, it[2]),
                 Larger(it[3], Value(c, it[2] + 1) + Value(c, it[2] + 2))>>]]

(* What macho_length computes, as a function. *)
LEMMA MachoIs ==
  ASSUME NEW c, NEW f, f = CHOOSE g : MachoOf(c, g),
         NEW m, m = f[<<Value(c, 2), 4, 3 + Value(c, 3)>>]
  PROVE  MachoLength(c) = IF Len(c) < 3 \/ 3 + Value(c, 3) > Len(c) \/ m = Missing THEN Missing
                          ELSE IF m < Len(c) THEN m ELSE Len(c)
<1>. DEFINE end == (CHOOSE g : MachoOf(c, g))[<<Value(c, 2), 4, 3 + Value(c, 3)>>]
<1>1. MachoLength(c) = IF Len(c) < 3 \/ 3 + Value(c, 3) > Len(c) \/ end = Missing THEN Missing
                       ELSE IF end < Len(c) THEN end ELSE Len(c)
  BY DEF MachoLength, MachoOf
<1>2. end = m  OBVIOUS
<1>. HIDE DEF end
<1>. QED  BY <1>1, <1>2

(* A Mach-O file is no longer than what it is looked for in. *)
LEMMA MachoWithin ==
  ASSUME NEW c \in Seq(OneCell), NEW n, n = MachoLength(c), n # Missing
  PROVE  n \in Nat /\ n <= Len(c)
<1>1. PICK l \in Nat : l = Len(c)  BY LenProperties
<1>2. PICK f : f = CHOOSE g : MachoOf(c, g)  OBVIOUS
<1>3. PICK m : m = f[<<Value(c, 2), 4, 3 + Value(c, 3)>>]  OBVIOUS
<1>4. n = IF l < 3 \/ 3 + Value(c, 3) > l \/ m = Missing THEN Missing ELSE IF m < l THEN m ELSE l
  BY <1>1, <1>2, <1>3, MachoIs
<1>5. ~(l < 3) /\ m # Missing /\ n = IF m < l THEN m ELSE l  BY <1>4
<1>6. PICK N \in Nat, p \in Nat : N = Value(c, 2) /\ p = Value(c, 3)
  <2>1. 2 \in 1 .. l /\ 3 \in 1 .. l  BY <1>5
  <2>. QED  BY <1>1, <2>1, ValueType
<1>. DEFINE S == (0 .. N) \X (Nat \ {0}) \X Nat
            short(it) == \/ it[2] + 2 > l
                         \/ Value(c, it[2]) < 3 \/ it[2] + Value(c, it[2]) - 1 > l
            done == {it \in S : it[1] = 0 \/ short(it)}
            value == [it \in S |-> IF it[1] = 0 THEN it[3] ELSE Missing]
            to == [it \in S |-> <<it[1] - 1, it[2] + Value(c, it[2]),
                                  Larger(it[3], Value(c, it[2] + 1) + Value(c, it[2] + 2))>>]
            rank == [it \in S |-> it[1]]
<1>7. rank \in [S -> 0 .. N]  OBVIOUS
<1>8. Descends(S, done, to, rank)
  <2>. SUFFICES ASSUME NEW it \in S, it \notin done PROVE to[it] \in S /\ rank[to[it]] < rank[it]
    BY DEF Descends
  <2>1. PICK a \in 0 .. N, k \in Nat \ {0}, e \in Nat :
          it = <<a, k, e>> /\ it[1] = a /\ it[2] = k /\ it[3] = e
    OBVIOUS
  <2>2. a # 0 /\ ~(k + 2 > l)  BY <2>1
  <2>3. PICK s \in Nat, x \in Nat, y \in Nat :
          s = Value(c, k) /\ x = Value(c, k + 1) /\ y = Value(c, k + 2)
    <3>1. k \in 1 .. l /\ k + 1 \in 1 .. l /\ k + 2 \in 1 .. l
      <4>. HIDE DEF S, done, value, to, rank
      <4>. QED  BY <1>1, <2>1, <2>2
    <3>. QED  BY <1>1, <3>1, ValueType
  <2>4. to[it] = <<a - 1, k + s, Larger(e, x + y)>>  BY <2>1, <2>3
  <2>5. a - 1 \in 0 .. N /\ a - 1 < a /\ k + s \in Nat \ {0} /\ Larger(e, x + y) \in Nat
    <3>. HIDE DEF S, done, value, to, rank
    <3>1. a \in Int /\ a >= 1 /\ a <= N /\ k \in Nat /\ k # 0  BY <2>1, <2>2
    <3>2. a - 1 \in 0 .. N /\ a - 1 < a  BY <1>6, <3>1
    <3>3. k + s \in Nat \ {0}  BY <2>3, <3>1
    <3>4. Larger(e, x + y) \in Nat  BY <2>1, <2>3 DEF Larger
    <3>. QED  BY <3>2, <3>3, <3>4
  <2>6. to[it] \in S /\ to[it][1] = a - 1  BY <2>4, <2>5
  <2>7. rank[to[it]] = a - 1 /\ rank[it] = a  BY <2>1, <2>6
  <2>. QED  BY <2>5, <2>6, <2>7
<1>9. \A g : MachoOf(c, g) <=> Jumping(g, S, done, value, to)
  <2>. TAKE g
  <2>. DEFINE old(it) == IF it[1] = 0 THEN it[3]
                         ELSE IF it[2] + 2 > l THEN Missing
                         ELSE IF Value(c, it[2]) < 3 \/ it[2] + Value(c, it[2]) - 1 > l THEN Missing
                         ELSE g[<<it[1] - 1, it[2] + Value(c, it[2]),
                                  Larger(it[3], Value(c, it[2] + 1) + Value(c, it[2] + 2))>>]
              jump(it) == IF it \in done THEN value[it] ELSE g[to[it]]
  <2>1. \A it \in S : old(it) = jump(it)  OBVIOUS
  <2>2. MachoOf(c, g) <=> g = [it \in S |-> old(it)]  BY <1>1, <1>6 DEF MachoOf
  <2>3. Jumping(g, S, done, value, to) <=> g = [it \in S |-> jump(it)]  BY DEF Jumping
  <2>. HIDE DEF old, jump, S, done, value, to
  <2>4. [it \in S |-> old(it)] = [it \in S |-> jump(it)]  BY <2>1
  <2>. QED  BY <2>2, <2>3, <2>4
<1>10. Jumping(f, S, done, value, to)
  <2>. HIDE DEF S, done, value, to, rank
  <2>1. \E g : Jumping(g, S, done, value, to)  BY <1>6, <1>7, <1>8, Jumps
  <2>2. \E g : MachoOf(c, g)  BY <1>9, <2>1
  <2>. QED  BY <1>2, <1>9, <2>2
<1>11. PICK y \in S : y \in done /\ m = value[y]
  <2>1. <<N, 4, 3 + p>> \in S  BY <1>6
  <2>. HIDE DEF S, done, value, to, rank
  <2>. QED  BY <1>3, <1>6, <1>7, <1>8, <1>10, <2>1, JumpsEnd
<1>12. m \in Nat
  <2>1. y[3] \in Nat /\ value[y] = y[3]  BY <1>5, <1>11
  <2>. QED  BY <1>11, <2>1
<1>. QED  BY <1>1, <1>5, <1>12

(* Min is what its name says. *)
LEMMA LeastIs ==
  ASSUME NEW S, S \in SUBSET Nat, S # {}
  PROVE  Min(S) \in S /\ \A n \in S : Min(S) <= n
<1>1. PICK m \in S : \A n \in S : m <= n  BY SmallestOf
<1>. QED  BY <1>1 DEF Min

(* What SelectInSeq finds, or 0. *)
LEMMA SelectedIs ==
  ASSUME NEW l \in Nat, NEW I, I \subseteq 1 .. l
  PROVE  (IF I # {} THEN Min(I) ELSE 0) \in 0 .. l
<1>1. I \in SUBSET Nat  OBVIOUS
<1>2. CASE I # {}
  <2>1. PICK m \in I : m = Min(I)  BY <1>1, <1>2, LeastIs
  <2>2. m \in 0 .. l  BY <2>1
  <2>. QED  BY <1>2, <2>1, <2>2
<1>. QED  BY <1>2

(* The text up to a NUL has a length. *)
LEMMA TextLength ==
  ASSUME NEW g \in Seq(OneCell)
  PROVE  Len(UpToNul(g)) \in Nat
<1>1. PICK l \in Nat : l = Len(g)  BY LenProperties
<1>. DEFINE I == {i \in 1 .. l : IsNul(g[i])}
<1>2. PICK t \in 0 .. l : t = Terminated(g)
  <2>1. Terminated(g) = IF I # {} THEN Min(I) ELSE 0  BY <1>1 DEF Terminated, SelectInSeq
  <2>2. I \subseteq 1 .. l  OBVIOUS
  <2>. HIDE DEF I
  <2>. QED  BY <2>1, <2>2, SelectedIs
<1>3. CASE t = 0  BY <1>1, <1>2, <1>3 DEF UpToNul
<1>4. CASE t # 0
  <2>1. UpToNul(g) = SubSeq(g, 1, t - 1)  BY <1>2, <1>4 DEF UpToNul
  <2>2. Len(SubSeq(g, 1, t - 1)) = t - 1
    <3>1. \A i \in 1 .. t - 1 : i \in 1 .. l  OBVIOUS
    <3>2. \A i \in 1 .. t - 1 : g[i] \in OneCell  BY <1>1, <3>1, ElementOfSeq
    <3>. QED  BY <1>4, <3>2, SubSeqProperties
  <2>. QED  BY <1>4, <2>1, <2>2
<1>. QED  BY <1>3, <1>4

(* The content of a path begins behind it. *)
LEMMA StartBehind ==
  ASSUME section \in Seq(OneCell), NEW it \in 1 .. Len(section),
         NEW start, start = ContentStart(it), start # Missing
  PROVE  start \in Nat /\ start > it
<1>1. PICK l \in Nat : l = Len(section)  BY LenProperties
<1>2. PICK p \in Nat : p = Len(PathAt(it))
  <2>1. Rest(section, it) \in Seq(OneCell)  BY SubSeqProperties DEF Rest
  <2>. QED  BY <2>1, TextLength DEF PathAt
<1>3. PICK after \in Nat : after = it + p + 1 /\ after > it  BY <1>1, <1>2
<1>4. PICK g : g = Rest(section, after)  OBVIOUS
<1>5. PICK mark : mark = SelectInSeq(g, LAMBDA cell : cell = Marker)  OBVIOUS
<1>6. start = IF after > l THEN Missing ELSE IF mark # 0 /\ mark - 1 <= Reach THEN after + mark - 1
              ELSE after
  BY <1>1, <1>2, <1>3, <1>4, <1>5 DEF ContentStart
<1>7. ~(after > l)  BY <1>6
<1>8. mark \in Nat
  <2>1. g \in Seq(OneCell)
    <3>1. after \in 1 .. l  BY <1>1, <1>3, <1>7
    <3>. QED  BY <1>1, <1>4, <3>1, SubSeqProperties DEF Rest
  <2>2. PICK n \in Nat : n = Len(g)  BY <2>1, LenProperties
  <2>. DEFINE I == {i \in 1 .. n : g[i] = Marker}
  <2>3. mark = IF I # {} THEN Min(I) ELSE 0  BY <1>5, <2>2 DEF SelectInSeq
  <2>4. I \subseteq 1 .. n  OBVIOUS
  <2>. HIDE DEF I
  <2>5. mark \in 0 .. n  BY <2>3, <2>4, SelectedIs
  <2>. QED  BY <2>5
<1>9. CASE mark # 0 /\ mark - 1 <= Reach  BY <1>3, <1>6, <1>7, <1>8, <1>9
<1>10. CASE ~(mark # 0 /\ mark - 1 <= Reach)  BY <1>3, <1>6, <1>7, <1>10
<1>. QED  BY <1>9, <1>10

(* Where the next path begins. *)
LEMMA BoundIs ==
  ASSUME section \in Seq(OneCell), NEW it \in Nat, NEW k \in Occurrences(section), k > it
  PROVE  Bound(it) \in 1 .. Len(section) /\ Bound(it) <= k
<1>1. Occurrences(section) \subseteq 1 .. Len(section) /\ Len(section) \in Nat
  BY LenProperties DEF Occurrences
<1>2. PICK S : S = {j \in Occurrences(section) : j > it}  OBVIOUS
<1>3. S \in SUBSET Nat /\ k \in S /\ S # {} /\ S \subseteq 1 .. Len(section)  BY <1>1, <1>2
<1>4. Bound(it) = Min(S)  BY <1>2, <1>3 DEF Bound
<1>5. Min(S) \in S /\ Min(S) <= k  BY <1>3, LeastIs
<1>. QED  BY <1>3, <1>4, <1>5

(* What is cut out of a window ends in it, a PNG with data in IEND aside. *)
LEMMA CutWithin ==
  ASSUME section \in Seq(OneCell), NEW start \in Nat \ {0}, NEW bound \in 1 .. Len(section),
         NEW item, item.kind \in Bounded, ~Overlong(item),
         NEW end, end = End(item.kind, start, bound), ~(end > Len(section)),
         item.content = SubSeq(section, start, end)
  PROVE  \A k \in start .. start + Len(item.content) - 1 : k < bound
<1>1. PICK l \in Nat : l = Len(section)  BY LenProperties
<1>2. PICK w \in 0 .. l : Window(start, bound) = SubSeq(section, start, w) /\ w < bound
  <2>1. CASE bound > 1 /\ section[bound - 1] = Nul
    <3>1. Window(start, bound) = SubSeq(section, start, bound - 2)  BY <2>1 DEF Window
    <3>2. bound - 2 \in 0 .. l /\ bound - 2 < bound  BY <1>1, <2>1
    <3>. QED  BY <3>1, <3>2
  <2>2. CASE ~(bound > 1 /\ section[bound - 1] = Nul)
    <3>1. Window(start, bound) = SubSeq(section, start, bound - 1)  BY <2>2 DEF Window
    <3>2. bound - 1 \in 0 .. l /\ bound - 1 < bound  BY <1>1
    <3>. QED  BY <3>1, <3>2
  <2>. QED  BY <2>1, <2>2
<1>3. PICK c : c = SubSeq(section, start, w)  OBVIOUS
<1>4. PICK n : n = IF c = << >> THEN Missing ELSE Length(item.kind, c)  OBVIOUS
<1>5. end = start - 1 + (IF n = Missing THEN Len(c) ELSE n)
  BY <1>2, <1>3, <1>4 DEF End
<1>6. CASE w < start
  <2>1. c = << >> /\ Len(c) = 0  BY <1>3, <1>6, SubSeqProperties
  <2>2. end = start - 1  BY <1>4, <1>5, <2>1
  <2>3. Len(item.content) = 0  BY <2>2, SubSeqProperties
  <2>4. start .. start + Len(item.content) - 1 = {}  BY <2>3
  <2>. QED  BY <2>4
<1>7. CASE ~(w < start)
  <2>1. PICK s \in Nat : s = w - start + 1 /\ s > 0  BY <1>7
  <2>2. c \in Seq(OneCell) /\ Len(c) = s /\ \A i \in 1 .. s : c[i] = section[start + i - 1]
    <3>1. \A i \in start .. w : i \in 1 .. l  BY <1>1, <1>2
    <3>2. \A i \in start .. w : section[i] \in OneCell  BY <1>1, <3>1, ElementOfSeq
    <3>. QED  BY <1>1, <1>2, <1>3, <2>1, <3>2, SubSeqProperties
  <2>3. c # << >> /\ n = Length(item.kind, c)  BY <1>4, <2>1, <2>2
  <2>4. PICK e \in 0 .. s : end = start - 1 + e
    <3>1. CASE n = Missing  BY <1>5, <2>1, <2>2, <3>1
    <3>2. CASE n # Missing
      <4>0. end = start - 1 + n  BY <1>5, <3>2
      <4>1. CASE item.kind = "wasm"
        <5>1. n = WasmLength(c)  BY <2>3, <4>1 DEF Length
        <5>2. n \in Nat /\ n <= s  BY <2>2, <2>3, <3>2, <5>1, WasmWithin
        <5>. QED  BY <4>0, <5>2
      <4>2. CASE item.kind = "macho"
        <5>1. n = MachoLength(c)  BY <2>3, <4>2 DEF Length
        <5>2. n \in Nat /\ n <= s  BY <2>2, <2>3, <3>2, <5>1, MachoWithin
        <5>. QED  BY <4>0, <5>2
      <4>3. CASE item.kind = "png"
        <5>1. n = PngLength(c)  BY <2>3, <4>3 DEF Length
        <5>2. PICK k \in 1 .. s - 1 : c[k] = Cell("number", 0) /\ n = k + 1 + Value(c, k + 1)
          BY <2>2, <2>3, <3>2, <5>1, PngEnds
        <5>3. k + 1 \in 1 .. s /\ k \in 1 .. s  BY <5>2
        <5>4. PICK v \in Nat : v = Value(c, k + 1)  BY <2>2, <5>3, ValueType
        <5>5. v = 0
          <6>. SUFFICES ASSUME v # 0 PROVE FALSE  OBVIOUS
          <6>1. end = start - 1 + (k + 1 + v)  BY <4>0, <5>2, <5>4
          <6>2. PICK m \in Nat : m = Len(item.content) /\ m = k + 1 + v
            <7>1. end = start + k + v /\ end \in Nat /\ start <= end /\ end - start + 1 = k + 1 + v
              BY <5>2, <5>4, <6>1
            <7>2. \A i \in start .. end : i \in 1 .. l  BY <1>1, <7>1
            <7>3. \A i \in start .. end : section[i] \in OneCell  BY <1>1, <7>2, ElementOfSeq
            <7>4. Len(SubSeq(section, start, end)) = end - start + 1  BY <7>1, <7>3, SubSeqProperties
            <7>. QED  BY <5>2, <5>4, <7>1, <7>4
          <6>3. \A i \in 1 .. m : item.content[i] = section[start + i - 1]
            BY <5>2, <5>4, <6>1, <6>2
          <6>4. item.content[k] = c[k] /\ item.content[k + 1] = c[k + 1]
            <7>1. k \in 1 .. m /\ k + 1 \in 1 .. m  BY <5>2, <5>4, <6>2
            <7>. QED  BY <2>2, <5>3, <6>3, <7>1
          <6>5. Value(item.content, k + 1) # 0
            BY <5>4, <6>2, <6>4 DEF Value
          <6>6. k \in 1 .. Len(item.content) - 1  BY <5>2, <5>4, <6>2
          <6>7. item.content[k] = Cell("number", 0)  BY <5>2, <6>4
          <6>. QED  BY <4>3, <6>5, <6>6, <6>7 DEF Overlong
        <5>6. n = k + 1 /\ k + 1 \in 0 .. s  BY <5>2, <5>3, <5>4, <5>5
        <5>. QED  BY <4>0, <5>6
      <4>. QED  BY <4>1, <4>2, <4>3 DEF Bounded
    <3>. QED  BY <3>1, <3>2
  <2>5. Len(item.content) = e
    <3>1. end - start + 1 = e /\ end \in Int /\ start <= end + 1  BY <2>4
    <3>2. \A i \in start .. end : i \in 1 .. l  BY <1>1, <2>4
    <3>3. \A i \in start .. end : section[i] \in OneCell  BY <1>1, <3>2, ElementOfSeq
    <3>. QED  BY <2>4, <3>1, <3>3, SubSeqProperties
  <2>6. start + e - 1 <= w  BY <2>1, <2>4
  <2>. QED  BY <1>2, <2>4, <2>5, <2>6
<1>. QED  BY <1>6, <1>7

(* A file is cut out of the section as its path says. *)
Cut(item) ==
  /\ item.at \in Occurrences(section)
  /\ ContentStart(item.at) # Missing
  /\ ~(End(item.kind, ContentStart(item.at), Bound(item.at)) > Len(section))
  /\ item.content = SubSeq(section, ContentStart(item.at),
                           End(item.kind, ContentStart(item.at), Bound(item.at)))

(* All files are, and the paths that are left are paths of the section. *)
CutInv ==
  /\ RawInv
  /\ paths \subseteq Occurrences(section)
  /\ \A item \in Range(files) : Cut(item)

(* The section is made of cells. *)
LEMMA SectionIs == RawInv => section \in Seq(OneCell)
<1>. SUFFICES ASSUME RawInv PROVE section \in Seq(OneCell)  OBVIOUS
<1>1. PICK tail \in Tails : section = Laid(entries) \o tail /\ entries \in Images  BY DEF RawInv
<1>2. tail \in Seq(OneCell)  BY RawAssumption DEF Cells, OneCell
<1>3. Laid(entries) \in Seq(OneCell)
  <2>1. PICK C : C = ScriptsOf(entries)  OBVIOUS
  <2>2. Closed(Laid(entries), C)  BY <1>1, <2>1, LaidClosed
  <2>. QED  BY <2>2 DEF Closed
<1>. QED  BY <1>1, <1>2, <1>3, JoinCells

(* What is cut out of the section holds no path behind its own. *)
LEMMA CutInvShows == CutInv => EndsBeforePath
<1>. SUFFICES ASSUME CutInv, NEW path \in DOMAIN files, NEW item, item = files[path],
                     item.kind \in Bounded, ~Overlong(item), NEW k \in Occurrences(section),
                     k \in ContentStart(item.at) .. ContentStart(item.at) + Len(item.content) - 1
              PROVE  FALSE
  BY DEF EndsBeforePath
<1>1. section \in Seq(OneCell) /\ Cut(item)  BY SectionIs DEF CutInv, Range
<1>2. PICK start, end : start = ContentStart(item.at) /\ end = End(item.kind, start, Bound(item.at))
  OBVIOUS
<1>3. item.at \in 1 .. Len(section) /\ item.at \in Nat
  <2>1. item.at \in Occurrences(section)  BY <1>1 DEF Cut
  <2>2. DOMAIN section = 1 .. Len(section) /\ Len(section) \in Nat  BY <1>1, LenProperties
  <2>. QED  BY <2>1, <2>2 DEF Occurrences
<1>4. start \in Nat /\ start > item.at  BY <1>1, <1>2, <1>3, StartBehind DEF Cut
<1>5. k > item.at  BY <1>2, <1>3, <1>4
<1>6. PICK b \in 1 .. Len(section) : b = Bound(item.at) /\ b <= k  BY <1>1, <1>3, <1>5, BoundIs
<1>7. start \in Nat \ {0}  BY <1>3, <1>4
<1>8. ~(end > Len(section)) /\ item.content = SubSeq(section, start, end) /\ end = End(item.kind, start, b)
  BY <1>1, <1>2, <1>6 DEF Cut
<1>9. \A i \in start .. start + Len(item.content) - 1 : i < b
  BY <1>1, <1>6, <1>7, <1>8, CutWithin
<1>10. k < b  BY <1>2, <1>9
<1>11. k \in Int /\ b \in Int  BY <1>2, <1>6
<1>. QED  BY <1>6, <1>10, <1>11

(* What is said of the section holds as long as it stays. *)
LEMMA CutKept ==
  ASSUME section' = section
  PROVE  /\ Occurrences(section)' = Occurrences(section)
         /\ \A item : Cut(item)' <=> Cut(item)
<1>2. \A k : ContentStart(k)' = ContentStart(k)  BY DEF ContentStart, PathAt, SelectInSeq
<1>3. \A kind, start, bound : End(kind, start, bound)' = End(kind, start, bound)  BY DEF End, Window
<1>4. \A k : Bound(k)' = Bound(k)  BY DEF Bound
<1>. QED  BY <1>2, <1>3, <1>4 DEF Cut

(* One round of extract_embedded_files. *)
LEMMA CarveCuts == ASSUME CutInv, Carve PROVE CutInv'
<1>1. RawInv' /\ section' = section  BY DEF Carve, CutInv, RawInv
<1>2. section \in Seq(OneCell)  BY SectionIs DEF CutInv
<1>3. paths \in SUBSET Nat /\ paths # {}
  <2>1. DOMAIN section = 1 .. Len(section)  BY <1>2, LenProperties
  <2>. QED  BY <2>1 DEF CutInv, Carve, Occurrences
<1>4. PICK it \in paths : it = Min(paths)  BY <1>3, LeastIs
<1>5. PICK start, kind, end, path, name :
        /\ path = PathAt(it) /\ name = Normalized(path) /\ start = ContentStart(it)
        /\ kind = IF start = Missing THEN Missing ELSE Kind(path, Rest(section, start))
        /\ end = End(kind, start, Bound(it))
  OBVIOUS
<1>6. PICK item : item = [kind |-> kind, at |-> it, content |-> SubSeq(section, start, end)]  OBVIOUS
<1>7. files' = IF start = Missing \/ kind = Missing THEN files
               ELSE IF end > Len(section) \/ name \in DOMAIN files THEN files
               ELSE [p \in DOMAIN files \cup {name} |-> IF p = name THEN item ELSE files[p]]
  BY <1>4, <1>5, <1>6 DEF Carve
<1>8. it \in Occurrences(section)  BY <1>4 DEF CutInv
<1>9. \A f \in Range(files') : Cut(f)
  <2>1. CASE files' = files  BY <2>1 DEF CutInv
  <2>2. CASE files' # files
    <3>1. /\ start # Missing /\ ~(end > Len(section))
          /\ files' = [p \in DOMAIN files \cup {name} |-> IF p = name THEN item ELSE files[p]]
      BY <1>7, <2>2
    <3>2. Cut(item)
      <4>1. item.at = it /\ item.kind = kind /\ item.content = SubSeq(section, start, end)  BY <1>6
      <4>. QED  BY <1>5, <1>8, <3>1, <4>1 DEF Cut
    <3>3. Range(files') \subseteq Range(files) \cup {item}  BY <3>1 DEF Range
    <3>. QED  BY <3>2, <3>3 DEF CutInv
  <2>. QED  BY <2>1, <2>2
<1>10. paths' \subseteq paths
  <2>1. paths' = paths \ {Min(paths)}  BY DEF Carve
  <2>. QED  BY <2>1
<1>11. paths' \subseteq Occurrences(section)'  BY <1>1, <1>10, CutKept DEF CutInv
<1>12. \A f \in Range(files)' : Cut(f)'  BY <1>1, <1>9, CutKept
<1>. QED  BY <1>1, <1>11, <1>12 DEF CutInv

(* Every other step leaves the files. *)
LEMMA RestKeeps == ASSUME CutInv, Slice \/ UNCHANGED RawVars PROVE CutInv'
<1>1. RawInv' /\ section' = section /\ paths' = paths /\ files' = files
  BY DEF Slice, RawVars, CutInv, RawInv
<1>. QED  BY <1>1, CutKept DEF CutInv

(* The invariant of the extraction. *)
LEMMA CutInvariant == RawSpec => []CutInv
<1>1. RawInit => CutInv
  <2>. SUFFICES ASSUME RawInit PROVE CutInv  OBVIOUS
  <2>1. RawInv  BY DEF RawInit, RawInv, Laid
  <2>2. Range(files) = {} /\ paths \subseteq Occurrences(section)  BY DEF RawInit, Range
  <2>. QED  BY <2>1, <2>2 DEF CutInv
<1>2. CutInv /\ [RawNext]_RawVars => CutInv'  BY CarveCuts, RestKeeps DEF RawNext
<1>. QED  BY <1>1, <1>2, PTL DEF RawSpec

(* from_path: the source of an input without a graph is the whole of a script that Bun
   embedded, however many files there are, whatever they contain and whatever surrounds them. *)
THEOREM SourceIsWhole == RawSpec => []SourceIsAFile
<1>1. CutInv => SourceIsAFile  BY RawInvShows DEF CutInv
<1>. QED  BY <1>1, CutInvariant, PTL

(* extract_embedded_files: whatever lies in the section, no path begins in a wasm, PNG or
   Mach-O file that is cut out of it, a PNG aside whose last chunk has data. *)
THEOREM CutInFront == RawSpec => []EndsBeforePath
BY CutInvariant, CutInvShows, PTL

=============================================================================
