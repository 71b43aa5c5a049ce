------------------------------ MODULE JobQueue ------------------------------
(***************************************************************************)
(* The Redis-backed job queue (core/queue/queue.ts) and its worker         *)
(* (core/queue/worker.ts) for one queue name.                              *)
(*                                                                         *)
(* A job is a Redis hash, its id travels through one of three lists (one   *)
(* per priority), a worker pops it, runs the handler and writes the        *)
(* outcome back; a failed attempt waits in an in-process timer before its  *)
(* id is pushed again, and a job out of retries goes to the dead-letter    *)
(* list.  Every await on Redis is a step of its own, so that other         *)
(* workers, a stop(), a crash, a Redis error or the expiry of a hash can   *)
(* come in between.                                                        *)
(***************************************************************************)
EXTENDS Integers, Sequences, FiniteSets

CONSTANTS
  Jobs,              \* job ids (randomUUID): each is drawn once
  Workers,           \* calls of startFullWorker
  Slots, Home,       \* concurrency: Home[s] is the worker slot s belongs to
  Stoppable,         \* the workers whose stop() may be called
  EnqueuePriorities, \* the priorities callers ask for
  RequestedRetries,  \* the opts.maxRetries callers ask for
  MaxRetriesCap,     \* MAX_RETRIES_CAP
  DefaultRetries,    \* what getFullJob reads from a hash with no maxRetries
  DlqMaxSize,        \* DLQ_MAX_SIZE
  MaxFailures,       \* bound: failed Redis calls and crashes of a process
  MaxExpiries,       \* bound: job hashes that reach JOB_TTL_SECONDS
  None

ASSUME ConstantsOK ==
  /\ Home \in [Slots -> Workers]
  /\ Stoppable \subseteq Workers
  /\ EnqueuePriorities \subseteq 1..3
  /\ RequestedRetries \subseteq Nat
  /\ MaxRetriesCap \in Nat /\ DefaultRetries \in Nat
  /\ DlqMaxSize \in Nat \ {0}
  /\ MaxFailures \in Nat /\ MaxExpiries \in Nat
  /\ IsFiniteSet(Jobs)
  /\ None \notin Jobs

\* 'high', 'normal' and 'low', numbered in the order tryDequeue polls them.
Priorities == 1..3
NormalPriority == 2

\* The most retries a stored job can allow.
RetryCeiling == IF DefaultRetries > MaxRetriesCap THEN DefaultRetries ELSE MaxRetriesCap

\* The fields of the job hash that control depends on.
Record == [status: {"pending", "running", "done", "failed"},
           attempts: Nat, maxRetries: Nat, prio: Priorities]

\* A hash that is not there is told from every hash that is.
ASSUME NoneIsNoHash == None \notin Record

\* Where processJob stands: each value names the Redis call (or the handler)
\* it awaits.
Awaiting == {"read", "mark", "handler", "finish", "caught",
             "reread", "save", "bury"}
SlotState == [pc: Awaiting \cup {"idle"}, job: Jobs \cup {None},
              copy: Record \cup {None}]
IdleSlot == [pc |-> "idle", job |-> None, copy |-> None]

VARIABLES
  record,      \* the job hashes in Redis
  list,        \* the three Redis lists of job ids
  dlq,         \* the dead-letter list
  fresh,       \* ids not drawn yet
  submitting,  \* jobs saved by a caller that has not yet pushed their id
  scan,        \* 0, or the list the worker's tryDequeue is blocked on
  slot,        \* processJob in each concurrency slot
  timers,      \* jobs waiting in a setTimeout of the worker's process
  running,     \* the worker's running flag
  stop,        \* the promise stop() returned
  runs,        \* history: handler invocations of each job
  lost,        \* history: jobs some failed step has dropped
  expired,     \* history: jobs whose hash has expired
  failures     \* history: failed calls and crashes so far

vars == <<record, list, dlq, fresh, submitting, scan, slot, timers, running,
          stop, runs, lost, expired, failures>>

redisVars  == <<record, list, dlq>>
workerVars == <<scan, slot, timers, running, stop>>
ghostVars  == <<runs, lost, expired, failures>>

Init ==
  /\ record = [j \in Jobs |-> None]
  /\ list = [p \in Priorities |-> <<>>]
  /\ dlq = <<>>
  /\ fresh = Jobs /\ submitting = {}
  /\ scan = [w \in Workers |-> 0]
  /\ slot = [s \in Slots |-> IdleSlot]
  /\ timers = [w \in Workers |-> {}]
  /\ running = [w \in Workers |-> TRUE]
  /\ stop = [w \in Workers |-> "none"]
  /\ runs = [j \in Jobs |-> 0]
  /\ lost = {} /\ expired = {}
  /\ failures = 0

-----------------------------------------------------------------------------
(* Helpers *)

SlotsOf(w) == {s \in Slots : Home[s] = w}
Busy(s) == slot[s].pc # "idle"
Active(w) == {s \in SlotsOf(w) : Busy(s)}           \* activeCount

Listed == UNION {{list[p][i] : i \in DOMAIN list[p]} : p \in Priorities}
InSlot == {slot[s].job : s \in {x \in Slots : Busy(x)}}
InTimer == UNION {timers[w] : w \in Workers}
Held == submitting \cup Listed \cup InSlot \cup InTimer

\* A Redis call fails, or a process dies.
Fails == failures < MaxFailures /\ failures' = failures + 1

Buried(j) == \E i \in DOMAIN dlq : dlq[i] = j

\* Math.min(opts.maxRetries ?? 3, MAX_RETRIES_CAP)
Unclamped(n) == n
Clamp(n) == IF n < MaxRetriesCap THEN n ELSE MaxRetriesCap

NewRecord(prio, retries) ==
  [status |-> "pending", attempts |-> 0, maxRetries |-> Clamp(retries),
   prio |-> prio]

\* HSET on a hash that has expired creates one that holds only the fields set;
\* getFullJob reads the others as their defaults.
HSet(j, status) ==
  IF record[j] # None
  THEN [record[j] EXCEPT !.status = status]
  ELSE [status |-> status, attempts |-> 0, maxRetries |-> DefaultRetries,
        prio |-> NormalPriority]

Push(j) == list' = [list EXCEPT ![record[j].prio] = Append(@, j)]

\* RPUSH and LTRIM -DLQ_MAX_SIZE -1
KeepNewest(q) == IF Len(q) > DlqMaxSize
                 THEN SubSeq(q, Len(q) - DlqMaxSize + 1, Len(q)) ELSE q

-----------------------------------------------------------------------------
(* Callers: enqueueFull, and replayDlqJob behind the jobs route *)

Submit(j, prio, retries) ==
  /\ j \in fresh /\ fresh' = fresh \ {j}
  /\ record' = [record EXCEPT ![j] = NewRecord(prio, retries)]
  /\ submitting' = submitting \cup {j}
  /\ UNCHANGED <<list, dlq, workerVars, ghostVars>>

\* Any stored job can be replayed, whatever its status, and any number of times.
Replay(original, j) ==
  /\ record[original] # None
  /\ j \in fresh /\ fresh' = fresh \ {j}
  /\ record' = [record EXCEPT ![j] = [record[original] EXCEPT
                                        !.status = "pending", !.attempts = 0]]
  /\ submitting' = submitting \cup {j}
  /\ UNCHANGED <<list, dlq, workerVars, ghostVars>>

\* The RPUSH that follows the save.
Enlist(j) ==
  /\ j \in submitting /\ submitting' = submitting \ {j}
  /\ Push(j)
  /\ UNCHANGED <<record, dlq, fresh, workerVars, ghostVars>>

\* The RPUSH fails, or the caller's process dies before it: the hash stays.
EnlistFails(j) ==
  /\ j \in submitting /\ submitting' = submitting \ {j}
  /\ Fails
  /\ lost' = lost \cup {j}
  /\ UNCHANGED <<redisVars, fresh, workerVars, runs, expired>>

-----------------------------------------------------------------------------
(* The worker's loop *)

\* An iteration of loop() that finds a free slot enters tryDequeue.
BeginScan(w) ==
  /\ running[w] /\ scan[w] = 0 /\ Active(w) # SlotsOf(w)
  /\ scan' = [scan EXCEPT ![w] = 1]
  /\ UNCHANGED <<redisVars, fresh, submitting, slot, timers, running, stop, ghostVars>>

MissToLoop(w) ==
  /\ scan[w] \in Priorities /\ list[scan[w]] = <<>>
  /\ scan' = [scan EXCEPT ![w] = 0]
  /\ UNCHANGED <<redisVars, fresh, submitting, slot, timers, running, stop, ghostVars>>

\* BLPOP times out on an empty list: the next priority, or back to loop().
Miss(w) ==
  /\ scan[w] \in Priorities /\ list[scan[w]] = <<>>
  /\ scan' = [scan EXCEPT ![w] = IF @ = 3 THEN 0 ELSE @ + 1]
  /\ UNCHANGED <<redisVars, fresh, submitting, slot, timers, running, stop, ghostVars>>

LeaveHead(p) == UNCHANGED list
RemoveHead(p) == list' = [list EXCEPT ![p] = Tail(@)]

\* BLPOP returns an id: processJob starts, even if stop() was called meanwhile.
Pop(w, s) ==
  /\ scan[w] \in Priorities /\ list[scan[w]] # <<>>
  /\ Home[s] = w /\ ~Busy(s)
  /\ slot' = [slot EXCEPT ![s] = [pc |-> "read", job |-> Head(list[scan[w]]),
                                  copy |-> None]]
  /\ RemoveHead(scan[w])
  /\ scan' = [scan EXCEPT ![w] = 0]
  /\ UNCHANGED <<record, dlq, fresh, submitting, timers, running, stop, ghostVars>>

\* BLPOP fails; the id may already have left the list.
PopFails(w) ==
  /\ scan[w] \in Priorities
  /\ Fails
  /\ scan' = [scan EXCEPT ![w] = 0]
  /\ \/ UNCHANGED <<list, lost>>
     \/ /\ list[scan[w]] # <<>>
        /\ RemoveHead(scan[w])
        /\ lost' = lost \cup {Head(list[scan[w]])}
  /\ UNCHANGED <<record, dlq, fresh, submitting, slot, timers, running, stop,
                 runs, expired>>

-----------------------------------------------------------------------------
(* processJob(jobId), from the slot s it occupies *)

\* processJob settles: activeCount--, and the last one resolves stop()'s promise.
LeaveOnly(s) == slot' = [slot EXCEPT ![s] = IdleSlot] /\ UNCHANGED stop
Leave(s) ==
  /\ slot' = [slot EXCEPT ![s] = IdleSlot]
  /\ stop' = [stop EXCEPT ![Home[s]] =
                IF @ = "waiting" /\ Active(Home[s]) = {s} THEN "resolved" ELSE @]

Advance(s, pc) == slot' = [slot EXCEPT ![s].pc = pc] /\ UNCHANGED stop

Drop(s) == Leave(s) /\ lost' = lost \cup {slot[s].job}

\* getFullJob at the start; an unknown id is logged and forgotten.
GetJob(s) ==
  /\ slot[s].pc = "read"
  /\ IF record[slot[s].job] = None
     THEN Drop(s)
     ELSE /\ slot' = [slot EXCEPT ![s].pc = "mark", ![s].copy = record[slot[s].job]]
          /\ UNCHANGED <<stop, lost>>
  /\ UNCHANGED <<redisVars, fresh, submitting, scan, timers, running,
                 runs, expired, failures>>

\* updateJobStatus 'running'; the handler is invoked as soon as it returns.
MarkRunning(s) ==
  /\ slot[s].pc = "mark"
  /\ record' = [record EXCEPT ![slot[s].job] = HSet(slot[s].job, "running")]
  /\ runs' = [runs EXCEPT ![slot[s].job] = @ + 1]
  /\ Advance(s, "handler")
  /\ UNCHANGED <<list, dlq, fresh, submitting, scan, timers, running,
                 lost, expired, failures>>

\* The handler fulfils, or it rejects, or the timeout wins the race.
HandlerSettles(s) ==
  /\ slot[s].pc = "handler"
  /\ \E pc \in {"finish", "caught"} : Advance(s, pc)
  /\ UNCHANGED <<redisVars, fresh, submitting, scan, timers, running, ghostVars>>

\* updateJobStatus 'done'.
MarkDone(s) ==
  /\ slot[s].pc = "finish"
  /\ record' = [record EXCEPT ![slot[s].job] = HSet(slot[s].job, "done")]
  /\ Leave(s)
  /\ UNCHANGED <<list, dlq, fresh, submitting, scan, timers, running, ghostVars>>

\* nextAttempt <= job.maxRetries, both from the copy read at the start.
RetriesLeftInclusive(c) == c.attempts <= c.maxRetries
RetriesLeft(c) == c.attempts + 1 <= c.maxRetries

\* The catch block's updateJobStatus.
OutcomeOf(s) == IF RetriesLeft(slot[s].copy) THEN "pending" ELSE "failed"

ForgetFailed(s) ==
  /\ slot[s].pc = "caught"
  /\ record' = [record EXCEPT ![slot[s].job] = HSet(slot[s].job, OutcomeOf(s))]
  /\ IF RetriesLeft(slot[s].copy) THEN Advance(s, "reread") ELSE Leave(s)
  /\ UNCHANGED <<list, dlq, fresh, submitting, scan, timers, running, ghostVars>>

HandleFailure(s) ==
  /\ slot[s].pc = "caught"
  /\ record' = [record EXCEPT ![slot[s].job] = HSet(slot[s].job, OutcomeOf(s))]
  /\ Advance(s, IF RetriesLeft(slot[s].copy) THEN "reread" ELSE "bury")
  /\ UNCHANGED <<list, dlq, fresh, submitting, scan, timers, running, ghostVars>>

\* requeueJob: the job is read again, counted up and saved as a whole, and a
\* setTimeout of this process will push its id.
ReadForRequeue(s) ==
  /\ slot[s].pc = "reread"
  /\ IF record[slot[s].job] = None
     THEN Drop(s)
     ELSE /\ slot' = [slot EXCEPT ![s].pc = "save", ![s].copy = record[slot[s].job]]
          /\ UNCHANGED <<stop, lost>>
  /\ UNCHANGED <<redisVars, fresh, submitting, scan, timers, running,
                 runs, expired, failures>>

SameAttempt(c) == [c EXCEPT !.status = "pending"]
NextAttempt(c) == [c EXCEPT !.status = "pending", !.attempts = @ + 1]

SaveRequeued(s) ==
  /\ slot[s].pc = "save"
  /\ record' = [record EXCEPT ![slot[s].job] = NextAttempt(slot[s].copy)]
  /\ timers' = [timers EXCEPT ![Home[s]] = @ \cup {slot[s].job}]
  /\ Leave(s)
  /\ UNCHANGED <<list, dlq, fresh, submitting, scan, running, ghostVars>>

\* moveToDlq.
MoveToDlq(s) ==
  /\ slot[s].pc = "bury"
  /\ dlq' = KeepNewest(Append(dlq, slot[s].job))
  /\ Leave(s)
  /\ UNCHANGED <<record, list, fresh, submitting, scan, timers, running, ghostVars>>

\* A Redis call of processJob fails, with or without having taken effect.  A
\* failed getFullJob reads as null; a failed 'done' is caught like a failure of
\* the handler; every other error ends processJob and its job with it.
CallFails(s) ==
  /\ slot[s].pc \in Awaiting \ {"handler"}
  /\ Fails
  /\ LET j == slot[s].job
         written == CASE slot[s].pc = "mark"   -> HSet(j, "running")
                      [] slot[s].pc = "finish" -> HSet(j, "done")
                      [] slot[s].pc = "caught" -> HSet(j, OutcomeOf(s))
                      [] slot[s].pc = "save"   -> NextAttempt(slot[s].copy)
                      [] OTHER                 -> record[j]
     IN \E r \in {record[j], written} : record' = [record EXCEPT ![j] = r]
  /\ dlq' \in IF slot[s].pc = "bury"
              THEN {dlq, KeepNewest(Append(dlq, slot[s].job))} ELSE {dlq}
  /\ IF slot[s].pc = "finish" THEN Advance(s, "caught") /\ UNCHANGED lost
                              ELSE Drop(s)
  /\ UNCHANGED <<list, fresh, submitting, scan, timers, running,
                 runs, expired>>

\* The timer of requeueJob pushes the id.
FireTimer(w, j) ==
  /\ j \in timers[w] /\ timers' = [timers EXCEPT ![w] = @ \ {j}]
  /\ Push(j)
  /\ UNCHANGED <<record, dlq, fresh, submitting, scan, slot, running, stop, ghostVars>>

\* Its RPUSH fails: logged, and nothing tries again.
TimerFails(w, j) ==
  /\ j \in timers[w] /\ timers' = [timers EXCEPT ![w] = @ \ {j}]
  /\ Fails
  /\ lost' = lost \cup {j}
  /\ UNCHANGED <<redisVars, fresh, submitting, scan, slot, running, stop,
                 runs, expired>>

-----------------------------------------------------------------------------
(* stop(), crashes and expiry *)

Stop(w) ==
  /\ w \in Stoppable /\ running[w]
  /\ running' = [running EXCEPT ![w] = FALSE]
  /\ stop' = [stop EXCEPT ![w] = IF Active(w) = {} THEN "resolved" ELSE "waiting"]
  /\ UNCHANGED <<redisVars, fresh, submitting, scan, slot, timers, ghostVars>>

\* The worker's process dies and is started again: what it had popped, and the
\* retries waiting in its timers, are gone.
Crash(w) ==
  /\ Fails
  /\ slot' = [s \in Slots |-> IF Home[s] = w THEN IdleSlot ELSE slot[s]]
  /\ timers' = [timers EXCEPT ![w] = {}]
  /\ lost' = lost \cup timers[w] \cup {slot[s].job : s \in Active(w)}
  /\ scan' = [scan EXCEPT ![w] = 0]
  /\ running' = [running EXCEPT ![w] = TRUE]
  /\ stop' = [stop EXCEPT ![w] = "none"]
  /\ UNCHANGED <<redisVars, fresh, submitting, runs, expired>>

\* JOB_TTL_SECONDS after the last save.  The longest backoff and the longest
\* timeout are minutes, so a hash just saved does not expire in a timer or
\* before its first push.  Bound: at most once for a job.
Expire(j) ==
  /\ record[j] # None /\ j \notin expired \cup submitting \cup InTimer
  /\ Cardinality(expired) < MaxExpiries
  /\ expired' = expired \cup {j}
  /\ record' = [record EXCEPT ![j] = None]
  /\ UNCHANGED <<list, dlq, fresh, submitting, workerVars, runs, lost, failures>>

-----------------------------------------------------------------------------
Caller(j) ==
  \/ \E p \in EnqueuePriorities, n \in RequestedRetries : Submit(j, p, n)
  \/ \E original \in Jobs : Replay(original, j)
  \/ Enlist(j)

Loop(w) == BeginScan(w) \/ Miss(w) \/ \E s \in Slots : Pop(w, s)

Process(s) ==
  \/ GetJob(s) \/ MarkRunning(s) \/ HandlerSettles(s) \/ MarkDone(s)
  \/ HandleFailure(s) \/ ReadForRequeue(s) \/ SaveRequeued(s) \/ MoveToDlq(s)

Failure ==
  \/ \E j \in Jobs : EnlistFails(j) \/ Expire(j)
  \/ \E w \in Workers : PopFails(w) \/ Crash(w) \/ \E j \in Jobs : TimerFails(w, j)
  \/ \E s \in Slots : CallFails(s)

Next ==
  \/ \E j \in Jobs : Caller(j)
  \/ \E w \in Workers : Loop(w) \/ Stop(w) \/ \E j \in Jobs : FireTimer(w, j)
  \/ \E s \in Slots : Process(s)
  \/ Failure

Spec == Init /\ [][Next]_vars

\* A caller that has saved a job goes on to push it, the loop and processJob go
\* on while their process lives (the timeout bounds the handler), and a timer
\* fires.  Nothing makes a caller submit, and no failure has to happen.
Fairness ==
  /\ \A j \in Jobs : WF_vars(Enlist(j))
  /\ \A w \in Workers : WF_vars(Loop(w)) /\ \A j \in Jobs : WF_vars(FireTimer(w, j))
  /\ \A s \in Slots : WF_vars(Process(s))

FairSpec == Spec /\ Fairness

-----------------------------------------------------------------------------
(* Properties *)

\* Types; a stored job never allows more retries than the cap, and the DLQ
\* never outgrows its limit.
TypeOK ==
  /\ record \in [Jobs -> Record \cup {None}]
  /\ \A j \in Jobs : record[j] # None => record[j].maxRetries <= RetryCeiling
  /\ \A s \in Slots : Busy(s) =>
       /\ slot[s].job \in Jobs
       /\ slot[s].pc # "read" => /\ slot[s].copy \in Record
                                /\ slot[s].copy.maxRetries <= RetryCeiling
  /\ list \in [Priorities -> Seq(Jobs)]
  /\ dlq \in Seq(Jobs) /\ Len(dlq) <= DlqMaxSize
  /\ fresh \subseteq Jobs /\ submitting \subseteq Jobs
  /\ scan \in [Workers -> 0..3]
  /\ slot \in [Slots -> SlotState]
  /\ timers \in [Workers -> SUBSET Jobs]
  /\ running \in [Workers -> BOOLEAN]
  /\ stop \in [Workers -> {"none", "waiting", "resolved"}]
  /\ runs \in [Jobs -> Nat]
  /\ lost \subseteq Jobs /\ expired \subseteq Jobs
  /\ failures \in Nat

\* A job id is in one place at most: about to be pushed, once in one list, in
\* one slot, or in one timer.  So no two slots ever process the same job, across
\* retries, crashes, failed calls and replays.
ListedOnce ==
  \A p, q \in Priorities : \A i \in DOMAIN list[p], k \in DOMAIN list[q] :
    list[p][i] = list[q][k] => p = q /\ i = k
OneSlotEach ==
  \A s, t \in Slots : Busy(s) /\ Busy(t) /\ slot[s].job = slot[t].job => s = t
OneTimerEach ==
  \A v, w \in Workers : timers[v] \cap timers[w] # {} => v = w
PlacesDisjoint ==
  /\ submitting \cap (Listed \cup InSlot \cup InTimer) = {}
  /\ Listed \cap (InSlot \cup InTimer) = {}
  /\ InSlot \cap InTimer = {}
NoDoubleDelivery == ListedOnce /\ OneSlotEach /\ OneTimerEach /\ PlacesDisjoint

\* NoDoubleDelivery is inductive once ids not drawn yet are known to be nowhere.
FreshNowhere == fresh \cap Held = {}

\* The handler is invoked at most maxRetries + 1 times for a job whose hash has
\* not expired, however its attempts end; and a job in the DLQ has failed for
\* good: every attempt it was allowed was made, and nothing runs it again.
RetryBudget ==
  /\ \A j \in Jobs \ (fresh \cup expired) :
       /\ record[j].attempts <= record[j].maxRetries
       /\ runs[j] <= record[j].maxRetries + 1
  /\ \A i \in DOMAIN dlq : LET j == dlq[i] IN
       /\ j \notin Held
       /\ j \notin expired => record[j].status = "failed" /\ runs[j] = record[j].maxRetries + 1

\* Only a failure (a failed call, a crash, an expired hash) can make a job
\* disappear: every other job is on its way, done, or failed and in the DLQ
\* (which, once full, has pushed older entries out).
NothingDropped ==
  /\ lost # {} => failures > 0 \/ expired # {}
  /\ \A j \in Jobs \ (fresh \cup Held \cup lost \cup expired) :
       \/ record[j].status = "done"
       \/ record[j].status = "failed" /\ (Buried(j) \/ Len(dlq) = DlqMaxSize)

\* Every job saved by a caller comes to rest: done, in the DLQ, or dropped by a
\* failure; it does not circulate for ever.
EveryJobComesToRest == \A j \in Jobs : j \in Held ~> j \notin Held

\* stop()'s promise resolves (or its process dies).
StopReturns == \A w \in Workers : stop[w] = "waiting" ~> stop[w] # "waiting"

-----------------------------------------------------------------------------
(* The queue implements the life cycle of JobLifecycle *)

Phase(j) ==
  CASE j \in fresh           -> "absent"
    [] j \in submitting      -> "accepted"
    [] j \in Listed          -> "queued"
    [] j \in InSlot          -> "active"
    [] j \in InTimer         -> "backoff"
    [] j \in lost \ Held     -> "lost"
    [] OTHER                 -> IF record[j] = None THEN "gone" ELSE record[j].status

RetriesLeftFor(j) ==
  IF j \in fresh \cup lost \cup expired THEN 0
  ELSE record[j].maxRetries - record[j].attempts

Lifecycle == INSTANCE JobLifecycle WITH
  phase <- [j \in Jobs |-> Phase(j)],
  left <- [j \in Jobs |-> RetriesLeftFor(j)],
  forgotten <- expired

ImplementsLifecycle == Lifecycle!Spec
=============================================================================
