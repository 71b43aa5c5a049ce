----------------------------- MODULE RecurringJobs -----------------------------
(***************************************************************************)
(* The in-process job scheduler (core/jobs/scheduler.ts) and the job it    *)
(* runs every five minutes, the SMS processor (core/jobs/sms-processor.ts).*)
(* Executions, of one server or of several, exclude each other by a lock   *)
(* in Redis; the handler of one that times out goes on without it.         *)
(***************************************************************************)
EXTENDS Integers, FiniteSets

CONSTANTS
  Executions,  \* bound: calls of executeJob
  Messages,    \* the SMS messages
  MaxRetries,  \* message.maxRetries
  MaxRedisErrors, \* bound: calls of Redis that fail
  None

JobsOK == MaxRetries \in Nat /\ MaxRedisErrors \in Nat /\ None \notin Executions

VARIABLES
  outer,    \* what each executeJob does
  handler,  \* what the processSmsQueue it started does
  todo,     \* the copies its LRANGE returned and it has not come to
  current,  \* the copy it is at
  lock,     \* job:lock:sms-processor: whose lockValue it holds
  cutShort, \* history: the lock expired between the GET and the DEL of its holder
  pending,  \* sms:queue:pending: copies of messages, each with its retries
  failedList,   \* sms:queue:failed: the messages in it
  sent,     \* history: how often each message was sent, 2 for more than once
  overlap,  \* history: two handlers were at work at the same time
  redisErrors

jobVars == <<outer, handler, todo, current, lock, cutShort>>
smsVars == <<pending, failedList, sent, overlap>>
jobsVars == <<jobVars, smsVars, redisErrors>>

\* A copy is one JSON string of the list: a retry has its own nextRetryAt, so no two are equal.
Copy(m, retries, serial) == [of |-> m, retries |-> retries, serial |-> serial]

\* External: messages new to the list, or retried before now.
JobsInit ==
  /\ outer = [x \in Executions |-> "idle"] /\ handler = [x \in Executions |-> "none"]
  /\ todo = [x \in Executions |-> {}] /\ current = [x \in Executions |-> None]
  /\ lock = None /\ cutShort = FALSE
  /\ \E retries \in [Messages -> 0..MaxRetries] : pending = {Copy(m, retries[m], None) : m \in Messages}
  /\ failedList = {}
  /\ sent = [m \in Messages |-> 0] /\ overlap = FALSE /\ redisErrors = 0

RedisError == redisErrors < MaxRedisErrors /\ redisErrors' = redisErrors + 1
Outer(x, from, to) == outer[x] = from /\ outer' = [outer EXCEPT ![x] = to]
Handler(x, from, to) == handler[x] = from /\ handler' = [handler EXCEPT ![x] = to]
Working(x) == handler[x] \notin {"none", "ended", "threw"}

-----------------------------------------------------------------------------
(* executeJob *)

\* SET NX EX: without the lock it returns, through the GET of its finally; with it the
\* handler starts.
Acquire(x) ==
  /\ outer[x] = "idle"
  /\ IF lock = None
       THEN /\ lock' = x /\ outer' = [outer EXCEPT ![x] = "racing"]
            /\ handler' = [handler EXCEPT ![x] = "list"]
            /\ overlap' = (overlap \/ \E y \in Executions : Working(y))
       ELSE outer' = [outer EXCEPT ![x] = "finally"] /\ UNCHANGED <<lock, handler, overlap>>
  /\ UNCHANGED <<todo, current, cutShort, pending, failedList, sent, redisErrors>>

\* The SET fails.
AcquireFails(x) ==
  /\ Outer(x, "idle", "finally")
  /\ RedisError
  /\ UNCHANGED <<handler, todo, current, lock, cutShort, smsVars>>

\* The race is over: the handler has ended, or maxDurationMs has passed.
Settle(x) ==
  /\ Outer(x, "racing", "finally")
  /\ UNCHANGED <<handler, todo, current, lock, cutShort, smsVars, redisErrors>>

ReadNoLock(x) ==
  /\ Outer(x, "finally", "delete")
  /\ UNCHANGED <<handler, todo, current, lock, cutShort, smsVars, redisErrors>>

\* finally: GET; the DEL is for its own value only.
ReadLock(x) ==
  /\ Outer(x, "finally", IF lock = x THEN "delete" ELSE "done")
  /\ UNCHANGED <<handler, todo, current, lock, cutShort, smsVars, redisErrors>>

\* finally: DEL
DeleteLock(x) ==
  /\ Outer(x, "delete", "done")
  /\ lock' = None
  /\ UNCHANGED <<handler, todo, current, cutShort, smsVars, redisErrors>>

\* Errors of the GET and the DEL are swallowed.
ReleaseFails(x) ==
  /\ outer[x] \in {"finally", "delete"}
  /\ Outer(x, outer[x], "done")
  /\ RedisError
  /\ UNCHANGED <<handler, todo, current, lock, cutShort, smsVars>>

\* The lock outlives maxDurationMs by ten seconds: when it expires the race is over.
LockExpires ==
  /\ lock # None /\ outer[lock] # "racing"
  /\ cutShort' = (cutShort \/ outer[lock] = "delete")
  /\ lock' = None
  /\ UNCHANGED <<outer, handler, todo, current, smsVars, redisErrors>>

\* The server of this execution stops.
JobCrash(x) ==
  /\ outer[x] \notin {"idle", "done"} \/ Working(x)
  /\ RedisError
  /\ outer' = [outer EXCEPT ![x] = "done"] /\ handler' = [handler EXCEPT ![x] = "ended"]
  /\ todo' = [todo EXCEPT ![x] = {}] /\ current' = [current EXCEPT ![x] = None]
  /\ UNCHANGED <<lock, cutShort, smsVars>>

-----------------------------------------------------------------------------
(* processSmsQueue *)

\* LRANGE 0 99
ListPending(x) ==
  /\ Handler(x, "list", "next")
  /\ todo' = [todo EXCEPT ![x] = pending]
  /\ UNCHANGED <<outer, current, lock, cutShort, smsVars, redisErrors>>

Advance(x, c) == todo' = [todo EXCEPT ![x] = @ \ {c}]

\* A copy whose nextRetryAt is still to come is passed over.
NotDue(x) ==
  /\ handler[x] = "next"
  /\ \E c \in todo[x] : c.retries > 0 /\ Advance(x, c)
  /\ UNCHANGED <<outer, handler, current, lock, cutShort, smsVars, redisErrors>>

\* The message is sent, whether or not its copy is still in the list.
Send(x) ==
  /\ Handler(x, "next", "remove")
  /\ \E c \in todo[x] :
       /\ Advance(x, c)
       /\ current' = [current EXCEPT ![x] = c]
       /\ sent' = [sent EXCEPT ![c.of] = IF @ < 2 THEN @ + 1 ELSE 2]
  /\ UNCHANGED <<outer, lock, cutShort, pending, failedList, overlap, redisErrors>>

\* LREM of the copy
Remove(x) ==
  /\ Handler(x, "remove", "record")
  /\ pending' = pending \ {current[x]}
  /\ UNCHANGED <<outer, todo, current, lock, cutShort, failedList, sent, overlap, redisErrors>>

\* SET of sms:sent:<id>
Record(x) ==
  /\ Handler(x, "record", "next")
  /\ current' = [current EXCEPT ![x] = None]
  /\ UNCHANGED <<outer, todo, lock, cutShort, smsVars, redisErrors>>

\* LREM or SET fails: the catch takes the message for not sent.
SendFails(x) ==
  /\ handler[x] \in {"remove", "record"}
  /\ Handler(x, handler[x], IF current[x].retries < MaxRetries THEN "retry" ELSE "give up")
  /\ RedisError
  /\ UNCHANGED <<outer, todo, current, lock, cutShort, smsVars>>

\* The copy with one more retry is pushed; the one it comes from stays where it is.
Retry(x) ==
  /\ Handler(x, "retry", "next")
  /\ pending' = pending \cup {Copy(current[x].of, current[x].retries + 1, <<x, redisErrors>>)}
  /\ current' = [current EXCEPT ![x] = None]
  /\ UNCHANGED <<outer, todo, lock, cutShort, failedList, sent, overlap, redisErrors>>

\* LPUSH to sms:queue:failed
GiveUp(x) ==
  /\ Handler(x, "give up", "drop")
  /\ failedList' = failedList \cup {current[x].of}
  /\ UNCHANGED <<outer, todo, current, lock, cutShort, pending, sent, overlap, redisErrors>>

\* ... then the LREM.
DropGivenUp(x) ==
  /\ Handler(x, "drop", "next")
  /\ pending' = pending \ {current[x]}
  /\ current' = [current EXCEPT ![x] = None]
  /\ UNCHANGED <<outer, todo, lock, cutShort, failedList, sent, overlap, redisErrors>>

\* An error outside the try, or in the catch itself, ends the run: the rest waits for the next.
RunFails(x) ==
  /\ handler[x] \in {"list", "retry", "give up", "drop"}
  /\ Handler(x, handler[x], "threw")
  /\ RedisError
  /\ current' = [current EXCEPT ![x] = None]
  /\ UNCHANGED <<outer, todo, lock, cutShort, smsVars>>

RunEnds(x) ==
  /\ todo[x] = {} /\ Handler(x, "next", "ended")
  /\ UNCHANGED <<outer, todo, current, lock, cutShort, smsVars, redisErrors>>

JobsNext ==
  \/ \E x \in Executions :
       \/ Acquire(x) \/ AcquireFails(x) \/ Settle(x) \/ ReadLock(x) \/ DeleteLock(x)
       \/ ReleaseFails(x) \/ JobCrash(x)
       \/ ListPending(x) \/ NotDue(x) \/ Send(x) \/ Remove(x) \/ Record(x) \/ SendFails(x)
       \/ Retry(x) \/ GiveUp(x) \/ DropGivenUp(x) \/ RunFails(x) \/ RunEnds(x)
  \/ LockExpires

-----------------------------------------------------------------------------
(* Properties *)

JobsTypeOK ==
  /\ lock \in Executions \cup {None}
  /\ \A c \in pending : c.of \in Messages /\ c.retries \in 0..MaxRetries
  /\ failedList \subseteq Messages /\ sent \in [Messages -> 0..2]
  /\ \A x \in Executions : current[x] # None => handler[x] \in {"remove", "record", "retry", "give up", "drop"}

\* One execution at a time is in its race, however late the others release, unless a lock expired
\* between the GET and the DEL of its holder.
OneExecution ==
  ~cutShort => Cardinality({x \in Executions : outer[x] = "racing"}) <= 1

\* A message is sent twice only after Redis failed or when the handlers of two executions
\* overlapped, as they do after a timeout; and it is not given up before it was sent once.
SentOnce ==
  /\ redisErrors = 0 /\ ~overlap => \A m \in Messages : sent[m] <= 1
  /\ \A m \in failedList : sent[m] > 0 /\ redisErrors > 0
=============================================================================
