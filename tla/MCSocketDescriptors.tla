------------------------ MODULE MCSocketDescriptors ------------------------
(***************************************************************************)
(* TLC instances of SocketDescriptors: numbers and connections are only    *)
(* compared for equality, so both sets are symmetric.                      *)
(***************************************************************************)
EXTENDS SocketDescriptors, TLC

Symmetry == Permutations(Conn) \cup Permutations(Fd)
=============================================================================
