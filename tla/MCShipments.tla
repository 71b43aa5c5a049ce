---------------------------- MODULE MCShipments ----------------------------
(* Instances of Shipments, and so of TrackingLog, for TLC. *)
EXTENDS Shipments, TLC

CONSTANTS a1, a2, a3, a4, r1

AppendSymmetry == Permutations(Appends)
=============================================================================
