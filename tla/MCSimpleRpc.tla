---------------------------- MODULE MCSimpleRpc ----------------------------
(***************************************************************************)
(* SimpleRpc for TLC.                                                      *)
(***************************************************************************)
EXTENDS SimpleRpc
=============================================================================
