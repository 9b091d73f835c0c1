-------------------------- MODULE MCClientRoleBinding --------------------------
(***************************************************************************)
(* Small instances of ClientRoleBinding.                                   *)
(***************************************************************************)
EXTENDS ClientRoleBinding

CONSTANTS p1, p2
================================================================================
