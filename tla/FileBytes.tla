----------------------------- MODULE FileBytes -----------------------------
(***************************************************************************)
(* What the container writers do to the bytes of a file                    *)
(* (src/src/standalone/elf.rs, macho.rs, pe.rs): move a tail back, and put  *)
(* a payload behind its length into a room that is zero otherwise.          *)
(*                                                                         *)
(* A file is a function on 0 .. size - 1.  A byte is a natural number, so   *)
(* that the first cell of the length prefix can hold the length.           *)
(***************************************************************************)
EXTENDS Naturals, Sequences

CONSTANT Width    \* cells of the length prefix (SectionLengthWidth)

ASSUME WidthAssumption == Width \in Nat \ {0}

Files(size) == [0 .. size - 1 -> Nat]

Slice(bytes, from, length) == [i \in 0 .. length - 1 |-> bytes[from + i]]

(* resize, copy_within and fill: the bytes from at on move back by growth cells,
   which are zero then. *)
Gap(bytes, size, at, growth) ==
  [i \in 0 .. size + growth - 1 |->
     IF i < at THEN bytes[i] ELSE IF i < at + growth THEN 0 ELSE bytes[i - growth]]

Required(payload) == Width + Len(payload)

(* The i-th cell of a room that holds the payload: length, payload, zeros. *)
Cell(payload, i) ==
  IF i = 0 THEN Len(payload)
  ELSE IF i \in Width .. Width + Len(payload) - 1 THEN payload[i - Width + 1]
  ELSE 0

Put(bytes, at, capacity, payload) ==
  [i \in DOMAIN bytes |->
     IF i \in at .. at + capacity - 1 THEN Cell(payload, i - at) ELSE bytes[i]]

(* parse_length_prefixed_payload, of a section that starts at at. *)
PayloadAt(bytes, at) == [i \in 1 .. bytes[at] |-> bytes[at + Width + i - 1]]

AlignUp(value, alignment) ==
  IF value % alignment = 0 THEN value ELSE value + (alignment - (value % alignment))

=============================================================================
