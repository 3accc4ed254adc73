---------------------------- MODULE MCSocketMain ----------------------------
(***************************************************************************)
(* TLC instances of SocketMain.                                            *)
(***************************************************************************)
EXTENDS SocketMain
=============================================================================
