--------------------------- MODULE MCCiscoConfig ---------------------------
(***************************************************************************)
(* CiscoConfig on a small instance: two ports, the name of one beginning   *)
(* that of the other, one VLAN, and batches of four lines, which split the *)
(* five-line and six-line interface blocks.                                *)
(***************************************************************************)
EXTENDS CiscoConfig

CONSTANTS p1, p2

PrefixHere == {<<p1, p2>>}

\* Writes are read back on a switch that grants its mode at the enable check, and not on one
\* whose secret does so at login.
MCInit == Init /\ env.verify = ~env.secret

MCSpec == MCInit /\ [][Next]_vars

=============================================================================
