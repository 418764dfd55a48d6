---------------------------- MODULE MCDeviceJobs ----------------------------
(***************************************************************************)
(* DeviceJobs on a small instance: two jobs of different intervals, and a  *)
(* grace period shorter than one and as long as the other, so that a due   *)
(* time may lie within it or beyond.                                       *)
(***************************************************************************)
EXTENDS DeviceJobs

CONSTANTS rogue_scan, time_policy

MCInterval == [j \in Job |-> IF j = rogue_scan THEN 3 ELSE 2]

=============================================================================
