--------------------------- MODULE MCSystemCalls ---------------------------
(***************************************************************************)
(* TLC instances of SystemCalls.                                           *)
(***************************************************************************)
EXTENDS SystemCalls
=============================================================================
