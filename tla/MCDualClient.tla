---------------------------- MODULE MCDualClient ----------------------------
(***************************************************************************)
(* DualClient for TLC.                                                     *)
(***************************************************************************)
EXTENDS DualClient
=============================================================================
