------------------------------- MODULE MCConsole -------------------------------
(***************************************************************************)
(* Console on a small instance.                                            *)
(***************************************************************************)
EXTENDS Console
=============================================================================
