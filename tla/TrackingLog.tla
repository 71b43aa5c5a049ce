----------------------------- MODULE TrackingLog -----------------------------
(***************************************************************************)
(* The event log of one shipment and its cached state (engines/tracking).  *)
(*                                                                         *)
(* recordEvent appends in three statements of their own (SELECT the last   *)
(* hash, INSERT the event, UPDATE its hash), then deletes the cached state *)
(* from Redis; getCurrentState reads the cache, or replays the log and     *)
(* fills it.  Nothing orders two of these calls, so each statement is a    *)
(* step.  SHA-256 is taken as free of collisions: the hash of an event is  *)
(* the sequence of the contents it was chained from, of which event_status *)
(* is no part.                                                             *)
(***************************************************************************)
EXTENDS Integers, Sequences, FiniteSets

CONSTANTS
  Appends,      \* calls of recordEvent for the shipment
  Readers,      \* callers of getCurrentState
  Kinds,        \* event types
  Created,      \* the status of a shipment without events
  MaxFailures,  \* bound: failed database or Redis calls, crashes
  MaxEdits,     \* bound: rows changed by another statement than appendEvent's
  MaxTrims,     \* bound: rows deleted by the 90-day retention policy
  None

ASSUME ConstantsOK ==
  /\ MaxFailures \in Nat /\ MaxEdits \in Nat /\ MaxTrims \in Nat
  /\ IsFiniteSet(Appends)
  /\ None \notin Appends \cup Kinds \cup Seq(Appends \X Kinds)

VARIABLES
  log,       \* tracking_events of the shipment, by created_at
  op,        \* what each recordEvent awaits
  kind,      \* the event type it was called with
  prev,      \* the previousHash it has read
  cache,     \* shipment:state:<id> in Redis
  reader,    \* what each getCurrentState awaits
  view,      \* the state it has computed
  contended, \* history: appends that overlapped, failed, or followed a failed one
  edited,    \* history: events changed behind appendEvent's back, but for event_status
  overtaken, \* history: the cached state was out of date when it was stored,
             \* or an append or its DEL failed, or the log changed otherwise
  trims, failures

vars == <<log, op, kind, prev, cache, reader, view, contended, edited, overtaken,
          trims, failures>>
readVars  == <<reader, view>>
ghostVars == <<contended, edited, overtaken, trims, failures>>

Genesis == <<>>

Init ==
  /\ log = <<>>
  /\ op = [a \in Appends |-> "idle"]
  /\ kind = [a \in Appends |-> None]
  /\ prev = [a \in Appends |-> Genesis]
  /\ cache = None
  /\ reader = [r \in Readers |-> "idle"]
  /\ view = [r \in Readers |-> None]
  /\ contended = {} /\ edited = {}
  /\ overtaken = FALSE
  /\ trims = 0 /\ failures = 0

-----------------------------------------------------------------------------
(* Helpers *)

Logged == DOMAIN log
Appending == {a \in Appends : op[a] \in {"insert", "hash"}}
Fails == failures < MaxFailures /\ failures' = failures + 1
Goto(a, step) == op' = [op EXCEPT ![a] = step]

\* computeEventHash: every column of the event (kind stands for them) but event_status.
Hash(event, previous) == Append(previous, <<event.id, event.kind>>)

\* The hash the next event is chained from: 'genesis' for a first event, and
\* also after an event whose hash has not been written.
FirstHash == IF log = <<>> \/ log[1].hash = None THEN Genesis ELSE log[1].hash
LastHash ==
  IF log = <<>> \/ log[Len(log)].hash = None THEN Genesis ELSE log[Len(log)].hash

\* reduceEvents: the last event's type is the status, whatever came before it.
LastOf(type) == LET S == {i \in Logged : log[i].kind = type}
                IN IF S = {} THEN None
                   ELSE log[CHOOSE i \in S : \A k \in S : k <= i].id
Reduced ==
  [status |-> IF log = <<>> THEN Created ELSE log[Len(log)].kind,
   eventCount |-> Len(log),
   isException |-> \E i \in Logged : log[i].kind = "exception",
   deliveredAt |-> LastOf("delivered")]

\* verifyEventChain: an event is fine if its stored hash is that of its content
\* and of the hash stored for the event before it.
Fine(i) ==
  LET before == IF i = 1 THEN Genesis ELSE log[i - 1].hash
  IN log[i].hash # None /\ before # None /\ log[i].hash = Hash(log[i], before)
Broken == {i \in Logged : ~Fine(i)}
Valid == Broken = {}
FirstBroken == CHOOSE i \in Broken : \A k \in Broken : i <= k

-----------------------------------------------------------------------------
(* recordEvent *)

\* The SELECT of the last hash.
Start(a, type) ==
  /\ op[a] = "idle" /\ Goto(a, "insert")
  /\ kind' = [kind EXCEPT ![a] = type]
  /\ prev' = [prev EXCEPT ![a] = LastHash]
  /\ contended' = contended
       \cup (IF Appending # {} THEN Appending \cup {a} ELSE {})
       \cup (IF log # <<>> /\ log[Len(log)].hash = None THEN {a} ELSE {})
  /\ UNCHANGED <<log, cache, readVars, edited, overtaken, trims, failures>>

NewRow(a) == [id |-> a, kind |-> kind[a], status |-> "written", hash |-> None]

\* INSERT ... RETURNING
Insert(a) ==
  /\ op[a] = "insert" /\ Goto(a, "hash")
  /\ log' = Append(log, NewRow(a))
  /\ UNCHANGED <<kind, prev, cache, readVars, ghostVars>>

WithHash(a) == [i \in Logged |-> IF log[i].id = a
                                 THEN [log[i] EXCEPT !.hash = Hash(NewRow(a), prev[a])]
                                 ELSE log[i]]

\* UPDATE ... SET event_hash
WriteHash(a) ==
  /\ op[a] = "hash" /\ Goto(a, "invalidate")
  /\ log' = WithHash(a)
  /\ UNCHANGED <<kind, prev, cache, readVars, ghostVars>>

KeepCached(a) == UNCHANGED <<cache, overtaken>>
DropCached(a) == cache' = None /\ overtaken' = FALSE

\* DEL of the cached state; the call returns.
Invalidate(a) ==
  /\ op[a] = "invalidate" /\ Goto(a, "done")
  /\ DropCached(a)
  /\ UNCHANGED <<log, kind, prev, readVars, contended, edited, trims, failures>>

\* Redis is unavailable: logged, and the call returns.
InvalidateFails(a) ==
  /\ op[a] = "invalidate" /\ Goto(a, "done")
  /\ Fails
  /\ overtaken' = TRUE
  /\ UNCHANGED <<log, kind, prev, cache, readVars, contended, edited, trims>>

\* A statement fails, with or without effect, or the process dies: the call ends
\* where it was, and the cached state stays.
AppendFails(a) ==
  /\ a \in Appending /\ Goto(a, "failed")
  /\ Fails
  /\ log' \in {log, IF op[a] = "insert" THEN Append(log, NewRow(a)) ELSE WithHash(a)}
  /\ contended' = contended \cup {a}
  /\ overtaken' = TRUE
  /\ UNCHANGED <<kind, prev, cache, readVars, edited, trims>>

-----------------------------------------------------------------------------
(* getCurrentState *)

\* GET finds nothing, or Redis is unavailable.  (A hit returns and changes nothing.)
Miss(r) ==
  /\ reader[r] = "idle"
  /\ cache # None => Fails
  /\ cache = None => UNCHANGED failures
  /\ reader' = [reader EXCEPT ![r] = "replay"]
  /\ UNCHANGED <<log, op, kind, prev, cache, view, contended, edited, overtaken, trims>>

\* replayEvents and reduceEvents; an empty log returns null.
Replay(r) ==
  /\ reader[r] = "replay"
  /\ IF log = <<>>
     THEN reader' = [reader EXCEPT ![r] = "idle"] /\ UNCHANGED view
     ELSE /\ reader' = [reader EXCEPT ![r] = "fill"]
          /\ view' = [view EXCEPT ![r] = Reduced]
  /\ UNCHANGED <<log, op, kind, prev, cache, ghostVars>>

\* SETEX, whatever has been appended or cached since.
Fill(r) ==
  /\ reader[r] = "fill"
  /\ cache' = view[r]
  /\ overtaken' = (view[r] # Reduced)
  /\ reader' = [reader EXCEPT ![r] = "idle"] /\ view' = [view EXCEPT ![r] = None]
  /\ UNCHANGED <<log, op, kind, prev, contended, edited, trims, failures>>

\* SETEX fails: logged, and the state is returned all the same.
FillFails(r) ==
  /\ reader[r] = "fill"
  /\ Fails
  /\ reader' = [reader EXCEPT ![r] = "idle"] /\ view' = [view EXCEPT ![r] = None]
  /\ UNCHANGED <<log, op, kind, prev, cache, contended, edited, overtaken, trims>>

\* The 60 s of the SETEX are over.
CacheExpires ==
  /\ cache # None
  /\ cache' = None
  /\ overtaken' = FALSE
  /\ UNCHANGED <<log, op, kind, prev, readVars, contended, edited, trims, failures>>

-----------------------------------------------------------------------------
(* Other statements on tracking_events *)

\* A column that the hash covers is changed by something else than appendEvent,
\* which leaves the stored hashes and the order of the events as they are.
Restated == {i \in Logged : log[i].status = "changed"}
Edit(i, type) ==
  /\ i \in Logged /\ type # log[i].kind /\ log[i].id \notin edited
  /\ Cardinality(edited) + Cardinality(Restated) < MaxEdits
  /\ edited' = edited \cup {log[i].id}
  /\ log' = [log EXCEPT ![i].kind = type]
  /\ overtaken' = TRUE
  /\ UNCHANGED <<op, kind, prev, cache, readVars, contended, trims, failures>>

\* event_status is changed, which neither the hash nor reduceEvents reads: the comment in
\* appendEvent calls the log tamper-evident, but Valid cannot tell.
EditStatus(i) ==
  /\ i \in Logged \ Restated
  /\ Cardinality(edited) + Cardinality(Restated) < MaxEdits
  /\ log' = [log EXCEPT ![i].status = "changed"]
  /\ UNCHANGED <<op, kind, prev, cache, readVars, ghostVars>>

\* GdprCleanup deletes events older than 90 days, the oldest first; an append
\* does not take that long.
Trim ==
  /\ log # <<>> /\ op[log[1].id] \in {"done", "failed"}
  /\ trims < MaxTrims /\ trims' = trims + 1
  /\ log' = Tail(log)
  /\ overtaken' = TRUE
  /\ UNCHANGED <<op, kind, prev, cache, readVars, contended, edited, failures>>

-----------------------------------------------------------------------------
RecordEvent(a) ==
  \/ \E type \in Kinds : Start(a, type)
  \/ Insert(a) \/ WriteHash(a) \/ Invalidate(a)

GetCurrentState(r) == Miss(r) \/ Replay(r) \/ Fill(r)

Next ==
  \/ \E a \in Appends : RecordEvent(a) \/ AppendFails(a) \/ InvalidateFails(a)
  \/ \E r \in Readers : GetCurrentState(r) \/ FillFails(r)
  \/ CacheExpires
  \/ \E i \in Logged, type \in Kinds : Edit(i, type)
  \/ \E i \in Logged : EditStatus(i)
  \/ Trim

Spec == Init /\ [][Next]_vars

-----------------------------------------------------------------------------
(* Properties *)

Row == [id : Appends, kind : Kinds, status : {"written", "changed"},
        hash : {None} \cup Seq(Appends \X Kinds)]
ShipmentState == [status : Kinds \cup {Created}, eventCount : Nat,
                  isException : BOOLEAN, deliveredAt : Appends \cup {None}]

\* Types; an event is logged under one id at most.
TypeOK ==
  /\ log \in Seq(Row)
  /\ \A i, k \in Logged : log[i].id = log[k].id => i = k
  /\ op \in [Appends -> {"idle", "insert", "hash", "invalidate", "done", "failed"}]
  /\ kind \in [Appends -> Kinds \cup {None}]
  /\ \A a \in Appends : op[a] # "idle" => kind[a] # None
  /\ prev \in [Appends -> Seq(Appends \X Kinds)]
  /\ cache \in ShipmentState \cup {None}
  /\ reader \in [Readers -> {"idle", "replay", "fill"}]
  /\ view \in [Readers -> ShipmentState \cup {None}]
  /\ contended \subseteq Appends /\ edited \subseteq Appends
  /\ overtaken \in BOOLEAN
  /\ trims \in Nat /\ failures \in Nat

\* verifyEventChain reports an event whose hashed columns nobody changed only if its
\* append overlapped another one, failed, or came right after one that failed (and
\* nothing older was deleted): a log written by one append at a time is valid, and
\* stays so whatever is done to event_status.
BlamesContended ==
  Appending = {} /\ edited = {} /\ trims = 0 /\ ~Valid =>
    log[FirstBroken].id \in contended

\* A change of a column that the hash covers is always reported, at its place or before
\* it, however the appends around it were interleaved.
EditIsReported ==
  \A i \in Logged : log[i].id \in edited => ~Valid /\ FirstBroken <= i

\* verifyEventChain reports what was changed in a column it covers and, but for those
\* exceptions, nothing else.
VerificationIsJust == BlamesContended /\ EditIsReported

\* The cached state is that of the log except while an append has not yet come to
\* its DEL, or when the reader that stored it was overtaken by one, or when
\* the log or the cache could not be updated as recordEvent does.
CachedIsCurrent ==
  cache # None /\ cache # Reduced =>
    overtaken \/ \E a \in Appends : op[a] \in {"hash", "invalidate"}
=============================================================================
