-------------------------- MODULE MCCircularBuffer --------------------------
(***************************************************************************)
(* TLC instance of CircularBuffer: a ring of three slots, entries of 0 and *)
(* 2 bytes, enough adds to go around the ring twice.                       *)
(***************************************************************************)
EXTENDS CircularBuffer
=============================================================================
