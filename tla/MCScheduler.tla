----------------------------- MODULE MCScheduler -----------------------------
(* Instances of Scheduler for TLC. *)
EXTENDS Scheduler, TLC

CONSTANTS i1, i2, m1, m2

\* Two entries registered under one name (with different intervals, say).
SameName == [m \in Entries |-> "job"]

TwiceAndOnce == m1 :> 2 @@ m2 :> 1
=============================================================================
