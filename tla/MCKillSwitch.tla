---------------------------- MODULE MCKillSwitch ----------------------------
(***************************************************************************)
(* KillSwitch on a small instance: one switch with an infrastructure       *)
(* machine, which may be managed, behind one port and an endpoint behind   *)
(* the other.                                                              *)
(***************************************************************************)
EXTENDS KillSwitch

CONSTANTS d1, p1, p2

OneSwitch == [p \in Port |-> d1]

=============================================================================
