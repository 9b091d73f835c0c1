----------------------------- MODULE MCSidecarPeer -----------------------------
(***************************************************************************)
(* Small instances of SidecarPeer.                                         *)
(***************************************************************************)
EXTENDS SidecarPeer
================================================================================
