------------------------------ MODULE MCEpoll ------------------------------
(***************************************************************************)
(* Epoll for TLC.                                                          *)
(***************************************************************************)
EXTENDS Epoll
=============================================================================
