------------------------------- MODULE MCNetwork -------------------------------
(***************************************************************************)
(* Small instances of Network: VMs whose namespaces share a directory.     *)
(***************************************************************************)
EXTENDS Network, TLC

CONSTANTS v1, v2
===============================================================================
