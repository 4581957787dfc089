----------------------------- MODULE MCReceiver -----------------------------
(***************************************************************************)
(* Receiver for TLC.                                                       *)
(***************************************************************************)
EXTENDS Receiver
=============================================================================
