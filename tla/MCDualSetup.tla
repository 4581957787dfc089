---------------------------- MODULE MCDualSetup ----------------------------
(***************************************************************************)
(* DualSetup for TLC.                                                      *)
(***************************************************************************)
EXTENDS DualSetup
=============================================================================
