---------------------------- MODULE MCThreading ----------------------------
(***************************************************************************)
(* TLC instances of Threading: two threads and their caller.               *)
(***************************************************************************)
EXTENDS Threading

\* A wait the source refuses, none, and one of more than a second.
MCWaitTimes == {-1, 0, 1500}
=============================================================================
