------------------------------ MODULE BunSlot ------------------------------
(***************************************************************************)
(* What repack_executable promises of an executable that keeps its payload *)
(* in a section of its own (src/README.md, "swaps only the embedded         *)
(* standalone payload"): the payload is another one, the address at which    *)
(* the program looks for it and everything else in the file is as before.   *)
(***************************************************************************)
CONSTANT Payloads

VARIABLES
  payload,   \* what is read from the section
  address,   \* where the loaded program finds the section
  rest       \* the other things in the file, by name

Init == payload \in Payloads

Write ==
  /\ payload' \in Payloads
  /\ UNCHANGED <<address, rest>>

Spec == Init /\ [][Write]_<<payload, address, rest>>
=============================================================================
