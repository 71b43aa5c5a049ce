---------------------------- MODULE MCTruckClient ----------------------------
(* Instances of TruckClient for TLC. *)
EXTENDS TruckClient, TLC

CONSTANTS s1, s2, s3, c1, c2
=============================================================================
