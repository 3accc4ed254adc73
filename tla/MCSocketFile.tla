---------------------------- MODULE MCSocketFile ----------------------------
(***************************************************************************)
(* TLC instances of SocketFile.                                            *)
(***************************************************************************)
EXTENDS SocketFile

CONSTANTS c1, c2

\* One client sends twice.
MCMaxPieces == c1 :> 2 @@ c2 :> 1
=============================================================================
