------------------------------ MODULE Scheduler ------------------------------
(***************************************************************************)
(* The recurring-job scheduler (core/queue/scheduler.ts): a sorted set of  *)
(* job entries scored by their next run, and, in every server instance, a  *)
(* loop whose tick takes a Redis lock with a TTL, reads the entries that   *)
(* are due, moves each to its next run and enqueues a job for it.          *)
(*                                                                         *)
(* Each await on Redis is a step of its own.  The lock's value names       *)
(* nobody, its TTL can run out under a tick that is still going (a slow    *)
(* Redis, a blocked event loop, many due jobs), and the DEL that ends a    *)
(* tick removes whatever lock is there.                                    *)
(***************************************************************************)
EXTENDS Integers, FiniteSets

CONSTANTS
  Instances,      \* server processes, each with one startScheduler loop
  Stoppable,      \* those whose stop() may be called
  Entries,        \* members of the sorted set: serialised job records
  Names, NameOf,  \* the name inside each entry
  MaxRuns,        \* bound: times each entry may become due
  MaxLapses,      \* bound: TTL expiries under a tick that is still going
  MaxFailures,    \* bound: failed Redis calls and crashes
  None

ASSUME ConstantsOK ==
  /\ Stoppable \subseteq Instances
  /\ NameOf \in [Entries -> Names]
  /\ MaxRuns \in [Entries -> Nat] /\ MaxLapses \in Nat /\ MaxFailures \in Nat
  /\ IsFiniteSet(Instances)
  /\ None \notin Instances \cup Entries

VARIABLES
  entry,      \* the sorted set: whether an entry's score is in the past yet
  lock,       \* LOCK_KEY; the code stores '1', the model keeps who set it
  running,    \* the loop's running flag
  pc,         \* the call each instance's tick awaits
  batch,      \* the due entries the tick has read and not handled yet
  current,    \* the entry it has rescheduled and is enqueueing
  cancelling, \* entries a cancelScheduledJob has found and not removed yet
  due,        \* history: times each entry became due
  fired,      \* history: jobs enqueued for it
  disturbed,  \* history: entries whose run a failure, cancel or registration took
  gone,       \* history: cancelled while no tick held them, and not registered since
  lapses, failures

vars == <<entry, lock, running, pc, batch, current, cancelling, due, fired,
          disturbed, gone, lapses, failures>>
tickVars  == <<pc, batch, current>>
ghostVars == <<due, fired, disturbed, gone, lapses, failures>>

Init ==
  /\ entry = [m \in Entries |-> "absent"]
  /\ lock = None
  /\ running = [i \in Instances |-> TRUE]
  /\ pc = [i \in Instances |-> "idle"]
  /\ batch = [i \in Instances |-> {}]
  /\ current = [i \in Instances |-> None]
  /\ cancelling = {}
  /\ due = [m \in Entries |-> 0] /\ fired = [m \in Entries |-> 0]
  /\ disturbed = {} /\ gone = {}
  /\ lapses = 0 /\ failures = 0

-----------------------------------------------------------------------------
(* Helpers *)

Inside == {i \in Instances : pc[i] # "idle"}
DueNow == {m \in Entries : entry[m] = "due"}
Scheduled == {m \in Entries : entry[m] # "absent"}
HeldBy(i) == batch[i] \cup {current[i]}
HeldInTick == {m \in Entries : \E i \in Instances : m \in HeldBy(i)}

Fails == failures < MaxFailures /\ failures' = failures + 1

Put(m, state) == entry' = [entry EXCEPT ![m] = state]
Goto(i, step) == pc' = [pc EXCEPT ![i] = step]

GiveUpOnly(i) == Goto(i, "release") /\ UNCHANGED <<batch, current>>

\* The finally block: what the tick had not handled is left for a later one.
GiveUp(i) ==
  /\ Goto(i, "release")
  /\ batch' = [batch EXCEPT ![i] = {}] /\ current' = [current EXCEPT ![i] = None]

-----------------------------------------------------------------------------
(* scheduleJob and cancelScheduledJob *)

\* ZADD: a new entry, or the same one with its next run an interval from now,
\* which a server does again each time it starts.
Schedule(m) ==
  /\ Put(m, "waiting")
  /\ gone' = gone \ {m}
  /\ disturbed' = IF entry[m] = "due" THEN disturbed \cup {m} ELSE disturbed
  /\ UNCHANGED <<lock, running, tickVars, cancelling, due, fired, lapses, failures>>

\* ZRANGE and the search by name: the entry of that name with the lowest score.
CancelFinds(name, m) ==
  /\ m \in Scheduled /\ NameOf[m] = name
  /\ entry[m] = "waiting" => \A n \in DueNow : NameOf[n] # name
  /\ m \notin cancelling /\ cancelling' = cancelling \cup {m}
  /\ UNCHANGED <<entry, lock, running, tickVars, ghostVars>>

KeepEntry(m) == UNCHANGED entry
RemoveEntry(m) == Put(m, "absent")

\* ZREM of the member found.
CancelRemoves(m) ==
  /\ m \in cancelling /\ cancelling' = cancelling \ {m}
  /\ RemoveEntry(m)
  /\ gone' = IF m \in HeldInTick THEN gone ELSE gone \cup {m}
  /\ disturbed' = IF entry[m] = "due" THEN disturbed \cup {m} ELSE disturbed
  /\ UNCHANGED <<lock, running, tickVars, due, fired, lapses, failures>>

-----------------------------------------------------------------------------
(* tick *)

TakeLock(i) == lock' = i
TakeFreeLock(i) == lock = None /\ lock' = i

\* SET NX EX.  While the lock is there the tick returns, which changes nothing.
Acquire(i) ==
  /\ running[i] /\ pc[i] = "idle"
  /\ TakeFreeLock(i)
  /\ Goto(i, "read")
  /\ UNCHANGED <<entry, running, batch, current, cancelling, ghostVars>>

\* Its reply is lost: the tick ends before the try block and the lock stays.
AcquireFails(i) ==
  /\ running[i] /\ pc[i] = "idle" /\ lock = None
  /\ lock' = i
  /\ Fails
  /\ UNCHANGED <<entry, running, tickVars, cancelling, due, fired, disturbed, gone, lapses>>

\* ZRANGEBYSCORE -inf now
EveryEntry == Scheduled
Readable == DueNow

ReadDue(i) ==
  /\ pc[i] = "read"
  /\ batch' = [batch EXCEPT ![i] = Readable]
  /\ Goto(i, IF Readable = {} THEN "release" ELSE "handle")
  /\ UNCHANGED <<entry, lock, running, current, cancelling, ghostVars>>

ReadFails(i) ==
  /\ pc[i] = "read"
  /\ Fails /\ GiveUp(i)
  /\ UNCHANGED <<entry, lock, running, cancelling, due, fired, disturbed, gone, lapses>>

NextRun(m) == Put(m, "waiting")

\* MULTI ZREM ZADD EXEC: puts the entry back even if it was cancelled meanwhile.
Reschedule(i, m) ==
  /\ pc[i] = "handle" /\ m \in batch[i]
  /\ NextRun(m)
  /\ batch' = [batch EXCEPT ![i] = @ \ {m}]
  /\ current' = [current EXCEPT ![i] = m]
  /\ Goto(i, "enqueue")
  /\ gone' = gone \ {m}
  /\ UNCHANGED <<lock, running, cancelling, due, fired, disturbed, lapses, failures>>

\* The transaction fails, whether or not it took effect.
RescheduleFails(i, m) ==
  /\ pc[i] = "handle" /\ m \in batch[i]
  /\ Fails /\ GiveUp(i)
  /\ \/ UNCHANGED <<entry, disturbed, gone>>
     \/ NextRun(m) /\ disturbed' = disturbed \cup {m} /\ gone' = gone \ {m}
  /\ UNCHANGED <<lock, running, cancelling, due, fired, lapses>>

\* After an enqueue, the next entry of the batch or the end of the tick.
NextInBatch(i) ==
  /\ current' = [current EXCEPT ![i] = None]
  /\ Goto(i, IF batch[i] = {} THEN "release" ELSE "handle")
  /\ UNCHANGED batch

\* enqueueFull.
Fire(i) ==
  /\ pc[i] = "enqueue"
  /\ fired' = [fired EXCEPT ![current[i]] = @ + 1]
  /\ NextInBatch(i)
  /\ UNCHANGED <<entry, lock, running, cancelling, due, disturbed, gone, lapses, failures>>

\* enqueueFull throws: logged, and the run is skipped unless the push was done.
FireFails(i) ==
  /\ pc[i] = "enqueue"
  /\ Fails /\ NextInBatch(i)
  /\ \/ fired' = [fired EXCEPT ![current[i]] = @ + 1] /\ UNCHANGED disturbed
     \/ disturbed' = disturbed \cup {current[i]} /\ UNCHANGED fired
  /\ UNCHANGED <<entry, lock, running, cancelling, due, gone, lapses>>

\* finally DEL, whoever set the lock.
Release(i) ==
  /\ pc[i] = "release"
  /\ lock' = None
  /\ Goto(i, "idle")
  /\ UNCHANGED <<entry, running, batch, current, cancelling, ghostVars>>

ReleaseFails(i) ==
  /\ pc[i] = "release"
  /\ Fails /\ Goto(i, "idle")
  /\ lock' \in {lock, None}
  /\ UNCHANGED <<entry, running, batch, current, cancelling, due, fired,
                 disturbed, gone, lapses>>

-----------------------------------------------------------------------------
(* Time, stop() and crashes *)

\* An interval passes.  Bound: MaxRuns[m] times.
BecomesDue(m) ==
  /\ entry[m] = "waiting" /\ due[m] < MaxRuns[m]
  /\ Put(m, "due")
  /\ due' = [due EXCEPT ![m] = @ + 1]
  /\ UNCHANGED <<lock, running, tickVars, cancelling, fired, disturbed, gone,
                 lapses, failures>>

NeverExpires == UNCHANGED lock
Expires == lock' = None

\* LOCK_TTL_SECONDS after an instance that is no longer in its tick set it.
AbandonedLockExpires ==
  /\ lock \in Instances \ Inside
  /\ Expires
  /\ UNCHANGED <<entry, running, tickVars, cancelling, ghostVars>>

\* The same under a tick that is still going.
LockLapses ==
  /\ lock \in Inside
  /\ lapses < MaxLapses /\ lapses' = lapses + 1
  /\ lock' = None
  /\ UNCHANGED <<entry, running, tickVars, cancelling, due, fired, disturbed,
                 gone, failures>>

\* A tick under way goes on to its end.
Stop(i) ==
  /\ i \in Stoppable /\ running[i]
  /\ running' = [running EXCEPT ![i] = FALSE]
  /\ UNCHANGED <<entry, lock, tickVars, cancelling, ghostVars>>

Crash(i) ==
  /\ Fails
  /\ Goto(i, "idle")
  /\ batch' = [batch EXCEPT ![i] = {}] /\ current' = [current EXCEPT ![i] = None]
  /\ running' = [running EXCEPT ![i] = TRUE]
  /\ disturbed' = disturbed \cup ({current[i]} \ {None})
  /\ UNCHANGED <<entry, lock, cancelling, due, fired, gone, lapses>>

-----------------------------------------------------------------------------
Tick(i) ==
  \/ Acquire(i) \/ ReadDue(i) \/ Fire(i) \/ Release(i)
  \/ \E m \in Entries : Reschedule(i, m)

TickFails(i) ==
  \/ AcquireFails(i) \/ ReadFails(i) \/ FireFails(i) \/ ReleaseFails(i)
  \/ \E m \in Entries : RescheduleFails(i, m)

Caller(m) == Schedule(m) \/ CancelRemoves(m) \/ \E n \in Names : CancelFinds(n, m)

Next ==
  \/ \E i \in Instances : Tick(i) \/ TickFails(i) \/ Stop(i) \/ Crash(i)
  \/ \E m \in Entries : Caller(m) \/ BecomesDue(m)
  \/ AbandonedLockExpires \/ LockLapses

Spec == Init /\ [][Next]_vars

\* The loop of each instance goes on, and an abandoned lock runs out.
Fairness ==
  /\ \A i \in Instances : WF_vars(Tick(i))
  /\ WF_vars(AbandonedLockExpires)

FairSpec == Spec /\ Fairness

-----------------------------------------------------------------------------
(* Properties *)

\* Types, and what a tick holds at each of its calls.
TypeOK ==
  /\ entry \in [Entries -> {"absent", "waiting", "due"}]
  /\ lock \in Instances \cup {None}
  /\ running \in [Instances -> BOOLEAN]
  /\ pc \in [Instances -> {"idle", "read", "handle", "enqueue", "release"}]
  /\ batch \in [Instances -> SUBSET Entries]
  /\ current \in [Instances -> Entries \cup {None}]
  /\ \A i \in Instances :
       /\ batch[i] # {} => pc[i] \in {"handle", "enqueue"}
       /\ current[i] # None <=> pc[i] = "enqueue"
       /\ pc[i] = "handle" => batch[i] # {}
  /\ cancelling \subseteq Entries
  /\ due \in [Entries -> Nat] /\ fired \in [Entries -> Nat]
  /\ disturbed \subseteq Entries /\ gone \subseteq Entries
  /\ lapses \in Nat /\ failures \in Nat

\* Only the instance that set the lock is in its tick, and each time the TTL runs
\* out under a tick it lets in at most one instance more, however many of the
\* DELs that follow remove another instance's lock.
OneScheduler == Cardinality(Inside \ {lock}) <= lapses

\* An entry is enqueued at most once for each time it becomes due while no lock has
\* run out under a tick, whatever is cancelled, registered again, fails or
\* crashes.  From the first lapse on, the ticks can go on releasing each other's
\* locks and enqueue every later run twice, but no more than that for each lapse.
AtMostOncePerRun == \A m \in Entries : fired[m] <= due[m] * (1 + lapses)

\* With no lapse, a run that no failure, cancel or registration took is
\* enqueued, or still due, or about to be enqueued by a tick: none is skipped.
NoneSkipped ==
  lapses = 0 => \A m \in Entries \ disturbed :
    due[m] = fired[m] + Cardinality({i \in Instances : current[i] = m})
                      + (IF entry[m] = "due" THEN 1 ELSE 0)

\* The tick enqueues every run that comes due, and once, but for those two exceptions.
ExactlyOncePerRun == AtMostOncePerRun /\ NoneSkipped

\* A job cancelled while no tick held it stays cancelled: no later tick reads,
\* reschedules or enqueues it until it is registered again.
CancelledForGood ==
  \A m \in gone : entry[m] = "absent" /\ m \notin HeldInTick

\* A due entry does not stay due for ever, even after a crash that left the
\* lock behind: some tick reschedules it, unless it is cancelled or registered.
DueIsServed == \A m \in Entries : entry[m] = "due" ~> entry[m] # "due"
=============================================================================
