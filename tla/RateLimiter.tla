------------------------------ MODULE RateLimiter ------------------------------
(***************************************************************************)
(* The sliding window of one client and route (api/middleware/rate-        *)
(* limiter.ts): a sorted set in Redis with the time of each request let    *)
(* through, read and written in separate calls.                            *)
(***************************************************************************)
EXTENDS Integers, FiniteSets, Folds

CONSTANTS
  Requests,    \* bound: requests at a time
  MaxRequests, \* limit.maxRequests
  Window,      \* limit.windowMs, in ticks
  MaxTime      \* bound: ticks

RateOK == /\ MaxRequests \in Nat \ {0} /\ Window \in Nat \ {0} /\ MaxTime \in Nat
          /\ IsFiniteSet(Requests)

VARIABLES
  time,    \* Date.now(), in ticks
  entries, \* how many members the sorted set has with each score
  request, \* what each request awaits, and when it began
  crossing \* history: two requests were under way at the same time

rateVars == <<time, entries, request, crossing>>

RateInit ==
  /\ time = 0
  /\ entries = [t \in 0..MaxTime |-> 0]
  /\ request = [q \in Requests |-> [at |-> "idle", now |-> 0]]
  /\ crossing = FALSE

Total(from) ==
  MapThenFoldSet(+, 0, LAMBDA t : entries[t], LAMBDA S : CHOOSE t \in S : TRUE,
                 {t \in 0..MaxTime : t >= from})

\* ZREMRANGEBYSCORE up to windowStart.
Expel(q) ==
  /\ request[q].at = "idle"
  /\ entries' = [t \in 0..MaxTime |-> IF t <= time - Window THEN 0 ELSE entries[t]]
  /\ request' = [request EXCEPT ![q] = [at |-> "count", now |-> time]]
  /\ crossing' = (crossing \/ \E r \in Requests : request[r].at # "idle")
  /\ UNCHANGED time

\* ZCARD: at the limit the request is refused.
Count(q) ==
  /\ request[q].at = "count"
  /\ request' = [request EXCEPT ![q].at = IF Total(0) >= MaxRequests THEN "idle" ELSE "add"]
  /\ UNCHANGED <<time, entries, crossing>>

\* ZADD with the time read at the beginning; PEXPIRE only removes what is old anyway.
Add(q) ==
  /\ request[q].at = "add"
  /\ entries' = [entries EXCEPT ![request[q].now] = @ + 1]
  /\ request' = [request EXCEPT ![q].at = "idle"]
  /\ UNCHANGED <<time, crossing>>

\* Redis is away: the request passes uncounted.
PassUncounted(q) ==
  /\ request[q].at \in {"count", "add"}
  /\ request' = [request EXCEPT ![q].at = "idle"]
  /\ UNCHANGED <<time, entries, crossing>>

TimePasses == time < MaxTime /\ time' = time + 1 /\ UNCHANGED <<entries, request, crossing>>

RateNext ==
  \/ \E q \in Requests : Expel(q) \/ Count(q) \/ Add(q) \/ PassUncounted(q)
  \/ TimePasses

RateTypeOK ==
  /\ time \in 0..MaxTime /\ entries \in [0..MaxTime -> Nat] /\ crossing \in BOOLEAN
  /\ request \in [Requests -> [at : {"idle", "count", "add"}, now : 0..MaxTime]]

\* The requests counted in any window stay within the limit, exceeded by no more than the
\* requests that overlapped, and not at all while they come one at a time.
WindowBounded ==
  /\ Total(time - Window + 1) <= MaxRequests - 1 + Cardinality(Requests)
  /\ ~crossing => Total(time - Window + 1) <= MaxRequests
=============================================================================
