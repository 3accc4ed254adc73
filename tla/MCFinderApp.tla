---------------------------- MODULE MCFinderApp ----------------------------
(***************************************************************************)
(* TLC instances of FinderApp.                                             *)
(***************************************************************************)
EXTENDS FinderApp
=============================================================================
