---------------------------- MODULE MCWorkspace ----------------------------
(***************************************************************************)
(* Instances of Workspace for TLC: executables with one module and one     *)
(* sidecar.                                                                *)
(***************************************************************************)
EXTENDS Workspace

CONSTANTS u1, u2, p1, v1, v2, raw, plain, contents, sidecar

ContentsFirst == <<contents, sidecar>>

=============================================================================
