----------------------------- MODULE ByteWords -----------------------------
(***************************************************************************)
(* Strings of bytes that hold little-endian numbers of a fixed size and are     *)
(* read from the front to the back: the patch file and the sidecars.            *)
(***************************************************************************)
EXTENDS Integers, Sequences

CONSTANTS
  None,      \* nothing that could be read, or no value (Option::None)
  Radix,     \* how many values a byte has (256)
  WordSize,  \* bytes of a number (4)
  Utf8       \* bytes of which text is made

ASSUME WordsAssumption == Radix \in Nat \ {0} /\ WordSize \in Nat \ {0}

Byte == 0 .. Radix - 1

ASSUME TextAssumption == Utf8 \subseteq Byte

(* The least significant byte is the first: it is what is left of the number when it is
   divided, and so on. *)
Word(n) ==
  LET quotient[k \in 0 .. WordSize] == IF k = 0 THEN n ELSE quotient[k - 1] \div Radix
  IN [k \in 1 .. WordSize |-> quotient[k - 1] % Radix]

(* The number that the last k bytes are, for each k. *)
Number(bytes) ==
  LET last[k \in 0 .. Len(bytes)] ==
        IF k = 0 THEN 0 ELSE bytes[Len(bytes) + 1 - k] + Radix * last[k - 1]
  IN last[Len(bytes)]

(* u32::MAX. *)
MaxWord == Number([k \in 1 .. WordSize |-> Radix - 1])

(* n bytes behind the first p, and how many bytes lie in front of what follows; None
   where the bytes end too early. *)
Take(bytes, p, n) ==
  IF p + n <= Len(bytes) THEN [value |-> SubSeq(bytes, p + 1, p + n), at |-> p + n] ELSE None

(* A number, and as many elements of a size. *)
TakeCounted(bytes, p, size) ==
  LET count == Take(bytes, p, WordSize) IN
    IF count = None THEN None ELSE Take(bytes, count.at, size * Number(count.value))

=============================================================================
