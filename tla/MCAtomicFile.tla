---------------------------- MODULE MCAtomicFile ----------------------------
(***************************************************************************)
(* Instances of AtomicFile for TLC: a packer whose output is re-signed, a  *)
(* packer whose output is not, and a run that writes a patch.              *)
(***************************************************************************)
EXTENDS AtomicFile

CONSTANTS resigner, packer, patcher, p1
=============================================================================
