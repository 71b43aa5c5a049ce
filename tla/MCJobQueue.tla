----------------------------- MODULE MCJobQueue -----------------------------
(* Instances of JobQueue for TLC. *)
EXTENDS JobQueue, TLC

CONSTANTS w1, w2, s1, s2, s3

\* A worker of concurrency 2 and one of concurrency 1.
TwoAndOne == s1 :> w1 @@ s2 :> w1 @@ s3 :> w2

Symmetry == Permutations(Jobs) \cup Permutations({s1, s2})
=============================================================================
