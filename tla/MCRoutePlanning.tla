-------------------------- MODULE MCRoutePlanning --------------------------
(* Instances of RoutePlanning for TLC. *)
EXTENDS RoutePlanning, TLC

\* The requests and drivers of a route are alike.
Symmetry == Permutations(Calls) \cup Permutations(Drivers)
=============================================================================
