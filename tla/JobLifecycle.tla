---------------------------- MODULE JobLifecycle ----------------------------
(***************************************************************************)
(* What the job queue promises about one job, whatever lists, hashes,      *)
(* timers and workers it is made of: a job is tried by one worker at a     *)
(* time, goes back to the queue only while it has retries left, and ends   *)
(* done, failed after its last retry, or lost.                             *)
(***************************************************************************)
EXTENDS Integers

CONSTANT Jobs

VARIABLES
  phase,     \* where each job is in its life
  left,      \* the retries it has left
  forgotten  \* jobs whose stored retry count has been lost

vars == <<phase, left, forgotten>>

OnItsWay == {"accepted", "queued", "active", "backoff"}

Init ==
  /\ phase = [j \in Jobs |-> "absent"]
  /\ left = [j \in Jobs |-> 0]
  /\ forgotten = {}

Move(j, from, to) == phase[j] \in from /\ phase' = [phase EXCEPT ![j] = to]

Accept(j) ==
  /\ Move(j, {"absent"}, "accepted")
  /\ left'[j] \in Nat /\ left' = [left EXCEPT ![j] = left'[j]]
  /\ UNCHANGED forgotten

Queue(j) == Move(j, {"accepted", "backoff"}, "queued") /\ UNCHANGED <<left, forgotten>>

Start(j) == Move(j, {"queued"}, "active") /\ UNCHANGED <<left, forgotten>>

Complete(j) == Move(j, {"active"}, "done") /\ UNCHANGED <<left, forgotten>>

Retry(j) ==
  /\ Move(j, {"active"}, "backoff")
  /\ \/ left[j] > 0 /\ left' = [left EXCEPT ![j] = @ - 1]
     \/ j \in forgotten /\ UNCHANGED left
  /\ UNCHANGED forgotten

\* Out of retries; a forgotten job may end without a trace.
GiveUp(j) ==
  /\ \/ Move(j, {"active"}, "failed") /\ (left[j] = 0 \/ j \in forgotten)
     \/ Move(j, {"active"}, "gone") /\ j \in forgotten
  /\ UNCHANGED <<left, forgotten>>

\* A failure takes some jobs away.
Lose(S) ==
  /\ \A j \in S : phase[j] \in OnItsWay
  /\ phase' = [j \in Jobs |-> IF j \in S THEN "lost" ELSE phase[j]]
  /\ left' = [j \in Jobs |-> IF j \in S THEN 0 ELSE left[j]]
  /\ UNCHANGED forgotten

\* The stored job expires.
Forget(j) ==
  /\ phase' = [phase EXCEPT ![j] = IF @ \in {"done", "failed"} THEN "gone" ELSE @]
  /\ left' = [left EXCEPT ![j] = 0]
  /\ forgotten' = forgotten \cup {j}

Next ==
  \/ \E j \in Jobs : \/ Accept(j) \/ Queue(j) \/ Start(j) \/ Complete(j)
                     \/ Retry(j) \/ GiveUp(j) \/ Forget(j)
  \/ \E S \in SUBSET Jobs : Lose(S)

Spec == Init /\ [][Next]_vars
=============================================================================
