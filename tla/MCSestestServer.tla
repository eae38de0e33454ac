---------------------------- MODULE MCSestestServer -----------------------------
(***************************************************************************)
(* Instances of SestestServer for TLC.                                     *)
(***************************************************************************)
EXTENDS SestestServer, TLC

CONSTANTS c1, c2
=============================================================================
