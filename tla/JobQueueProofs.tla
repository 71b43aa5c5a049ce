--------------------------- MODULE JobQueueProofs ---------------------------
(***************************************************************************)
(* Theorems about JobQueue for every number of jobs, workers and slots:    *)
(* its type invariant, that no job is ever delivered twice, that a handler *)
(* runs no more often than its retries allow, that a job never disappears  *)
(* without a failure, and that the queue implements JobLifecycle.          *)
(***************************************************************************)
EXTENDS JobQueue, TLAPS

\* HSET leaves a well-formed hash, whether or not the hash was still there.
LEMMA HSetType ==
  ASSUME TypeOK, NEW j \in Jobs, NEW st \in {"pending", "running", "done", "failed"}
  PROVE  HSet(j, st) \in Record /\ HSet(j, st).maxRetries <= RetryCeiling
<1>1. CASE record[j] # None
  <2>1. record[j] \in Record /\ record[j].maxRetries <= RetryCeiling
    BY <1>1 DEF TypeOK
  <2>2. HSet(j, st) = [record[j] EXCEPT !.status = st]
    BY <1>1 DEF HSet
  <2>3. QED BY <2>1, <2>2 DEF Record
<1>2. CASE record[j] = None
  BY <1>2, ConstantsOK DEF TypeOK, HSet, Record, RetryCeiling, Priorities, NormalPriority
<1>3. QED BY <1>1, <1>2

\* A new job is well-formed and allows no more retries than the cap.
LEMMA NewRecordType ==
  ASSUME NEW p \in EnqueuePriorities, NEW n \in RequestedRetries
  PROVE  NewRecord(p, n) \in Record /\ NewRecord(p, n).maxRetries <= RetryCeiling
BY ConstantsOK DEF NewRecord, Record, Clamp, RetryCeiling, Priorities

\* Trimming the dead-letter list keeps it within its limit.
LEMMA KeepNewestType ==
  ASSUME NEW q \in Seq(Jobs)
  PROVE  KeepNewest(q) \in Seq(Jobs) /\ Len(KeepNewest(q)) <= DlqMaxSize
<1>1. CASE Len(q) > DlqMaxSize
  <2>1. SubSeq(q, Len(q) - DlqMaxSize + 1, Len(q)) \in Seq(Jobs)
    BY <1>1, ConstantsOK
  <2>2. Len(SubSeq(q, Len(q) - DlqMaxSize + 1, Len(q))) = DlqMaxSize
    BY <1>1, ConstantsOK
  <2>3. QED BY <1>1, <2>1, <2>2, ConstantsOK DEF KeepNewest
<1>2. CASE ~(Len(q) > DlqMaxSize)
  BY <1>2, ConstantsOK DEF KeepNewest
<1>3. QED BY <1>1, <1>2

\* Pushing an id and popping one keep the three lists sequences of ids.
LEMMA PushType ==
  ASSUME list \in [Priorities -> Seq(Jobs)], NEW j \in Jobs, Push(j)
  PROVE  list' \in [Priorities -> Seq(Jobs)]
<1>1. SUFFICES ASSUME NEW p \in Priorities
                PROVE  IF p = record[j].prio THEN Append(list[p], j) \in Seq(Jobs)
                                             ELSE list[p] \in Seq(Jobs)
  BY DEF Push
<1>2. list[p] \in Seq(Jobs)
  OBVIOUS
<1>3. QED BY <1>2

LEMMA RemoveHeadType ==
  ASSUME list \in [Priorities -> Seq(Jobs)], NEW p \in Priorities,
         list[p] # <<>>, RemoveHead(p)
  PROVE  list' \in [Priorities -> Seq(Jobs)] /\ Head(list[p]) \in Jobs
BY DEF RemoveHead

-----------------------------------------------------------------------------
(* Type correctness *)

LEMMA InitType == Init => TypeOK
BY ConstantsOK DEF Init, TypeOK, IdleSlot, SlotState, Busy, Priorities

LEMMA CallerType ==
  ASSUME TypeOK, NEW j \in Jobs, Caller(j)
  PROVE  TypeOK'
<1>1. ASSUME NEW p \in EnqueuePriorities, NEW n \in RequestedRetries, Submit(j, p, n)
      PROVE  TypeOK'
  BY <1>1, NewRecordType DEF TypeOK, Submit, workerVars, ghostVars, Busy
<1>2. ASSUME NEW o \in Jobs, Replay(o, j)
      PROVE  TypeOK'
  <2>1. record[o] \in Record /\ record[o].maxRetries <= RetryCeiling
    BY <1>2 DEF TypeOK, Replay
  <2>2. /\ [record[o] EXCEPT !.status = "pending", !.attempts = 0] \in Record
        /\ [record[o] EXCEPT !.status = "pending", !.attempts = 0].maxRetries <= RetryCeiling
    BY <2>1 DEF Record
  <2>3. QED
    BY <1>2, <2>2 DEF TypeOK, Replay, workerVars, ghostVars, Busy
<1>3. ASSUME Enlist(j)
      PROVE  TypeOK'
  <2>1. list' \in [Priorities -> Seq(Jobs)]
    BY <1>3, PushType DEF TypeOK, Enlist
  <2>2. QED
    BY <1>3, <2>1 DEF TypeOK, Enlist, workerVars, ghostVars, Busy
<1>4. QED BY <1>1, <1>2, <1>3 DEF Caller

LEMMA LoopType ==
  ASSUME TypeOK, NEW w \in Workers, Loop(w)
  PROVE  TypeOK'
<1>1. ASSUME BeginScan(w) PROVE TypeOK'
  BY <1>1 DEF TypeOK, BeginScan, redisVars, ghostVars, Busy
<1>2. ASSUME Miss(w) PROVE TypeOK'
  BY <1>2 DEF TypeOK, Miss, redisVars, ghostVars, Busy, Priorities
<1>3. ASSUME NEW s \in Slots, Pop(w, s) PROVE TypeOK'
  <2>1. list' \in [Priorities -> Seq(Jobs)] /\ Head(list[scan[w]]) \in Jobs
    BY <1>3, RemoveHeadType DEF TypeOK, Pop
  <2>2. [pc |-> "read", job |-> Head(list[scan[w]]), copy |-> None] \in SlotState
    BY <2>1 DEF SlotState, Awaiting
  <2>3. QED
    BY <1>3, <2>1, <2>2 DEF TypeOK, Pop, ghostVars, Busy
<1>4. QED BY <1>1, <1>2, <1>3 DEF Loop

\* The slots after processJob has settled, or has gone on to another call.
SlotsOK ==
  /\ slot \in [Slots -> SlotState]
  /\ \A s \in Slots : Busy(s) =>
       /\ slot[s].job \in Jobs
       /\ slot[s].pc # "read" => /\ slot[s].copy \in Record
                                /\ slot[s].copy.maxRetries <= RetryCeiling
StopOK == stop \in [Workers -> {"none", "waiting", "resolved"}]

LEMMA LeaveType ==
  ASSUME SlotsOK, StopOK, NEW s \in Slots, Leave(s)
  PROVE  SlotsOK' /\ StopOK'
<1>1. IdleSlot \in SlotState
  BY DEF IdleSlot, SlotState
<1>2. SlotsOK'
  BY <1>1 DEF SlotsOK, Leave, Busy, IdleSlot
<1>3. QED BY <1>2 DEF StopOK, Leave

LEMMA AdvanceType ==
  ASSUME SlotsOK, StopOK, NEW s \in Slots, slot[s].pc \notin {"idle", "read"},
         NEW pc \in Awaiting, Advance(s, pc)
  PROVE  SlotsOK' /\ StopOK'
<1>1. [slot[s] EXCEPT !.pc = pc] \in SlotState
  BY DEF SlotsOK, SlotState
<1>2. QED BY <1>1 DEF SlotsOK, StopOK, Advance, Busy, SlotState

LEMMA ReadType ==
  ASSUME TypeOK, NEW s \in Slots, NEW pc \in Awaiting, Busy(s),
         IF record[slot[s].job] = None THEN Drop(s)
         ELSE /\ slot' = [slot EXCEPT ![s].pc = pc, ![s].copy = record[slot[s].job]]
              /\ UNCHANGED <<stop, lost>>
  PROVE  SlotsOK' /\ StopOK' /\ lost' \subseteq Jobs
<1> DEFINE j == slot[s].job
<1>1. SlotsOK /\ StopOK /\ j \in Jobs /\ lost \subseteq Jobs
  BY DEF TypeOK, SlotsOK, StopOK
<1>2. CASE record[j] = None
  BY <1>1, <1>2, LeaveType DEF Drop
<1>3. CASE record[j] # None
  <2>1. record[j] \in Record /\ record[j].maxRetries <= RetryCeiling
    BY <1>1, <1>3 DEF TypeOK
  <2>2. slot[s] \in SlotState
    BY <1>1 DEF SlotsOK
  <2>3. [slot[s] EXCEPT !.pc = pc, !.copy = record[j]] \in SlotState
    BY <2>1, <2>2 DEF SlotState
  <2>4. QED BY <1>1, <1>3, <2>1, <2>3 DEF SlotsOK, StopOK, Busy, SlotState
<1>4. QED BY <1>2, <1>3

LEMMA NextAttemptType ==
  ASSUME NEW c \in Record, c.maxRetries <= RetryCeiling
  PROVE  NextAttempt(c) \in Record /\ NextAttempt(c).maxRetries <= RetryCeiling
<1>1. c.attempts + 1 \in Nat
  BY DEF Record
<1>2. PICK a \in Nat : a = c.attempts + 1
  BY <1>1
<1>3. NextAttempt(c) = [c EXCEPT !.status = "pending", !.attempts = a]
  BY <1>2 DEF NextAttempt
<1>4. QED BY <1>3 DEF Record

LEMMA ProcessType ==
  ASSUME TypeOK, NEW s \in Slots, Process(s)
  PROVE  TypeOK'
<1> DEFINE j == slot[s].job
<1>0. SlotsOK /\ StopOK /\ (Busy(s) => j \in Jobs)
  BY DEF TypeOK, SlotsOK, StopOK
<1>1. ASSUME GetJob(s) PROVE TypeOK'
  <2>1. SlotsOK' /\ StopOK' /\ lost' \subseteq Jobs
    BY <1>1, ReadType DEF GetJob, Awaiting, Busy
  <2>2. QED BY <1>1, <2>1 DEF TypeOK, GetJob, redisVars, SlotsOK, StopOK
<1>2. ASSUME MarkRunning(s) PROVE TypeOK'
  <2>1. SlotsOK' /\ StopOK'
    BY <1>0, <1>2, AdvanceType DEF MarkRunning, Awaiting
  <2>2. HSet(j, "running") \in Record /\ HSet(j, "running").maxRetries <= RetryCeiling
    BY <1>0, <1>2, HSetType DEF MarkRunning, Busy
  <2>3. runs' \in [Jobs -> Nat]
    <3>1. j \in Jobs /\ runs \in [Jobs -> Nat]
      BY <1>0, <1>2 DEF MarkRunning, Busy, TypeOK
    <3>2. runs[j] + 1 \in Nat
      BY <3>1
    <3>3. runs' = [runs EXCEPT ![j] = runs[j] + 1]
      BY <1>2 DEF MarkRunning
    <3>4. QED BY <3>1, <3>2, <3>3
  <2>4. QED BY <1>2, <2>1, <2>2, <2>3 DEF TypeOK, MarkRunning, SlotsOK, StopOK
<1>3. ASSUME HandlerSettles(s) PROVE TypeOK'
  <2>1. SlotsOK' /\ StopOK'
    BY <1>0, <1>3, AdvanceType DEF HandlerSettles, Awaiting
  <2>2. QED BY <1>3, <2>1 DEF TypeOK, HandlerSettles, redisVars, ghostVars, SlotsOK, StopOK
<1>4. ASSUME MarkDone(s) PROVE TypeOK'
  <2>1. SlotsOK' /\ StopOK'
    BY <1>0, <1>4, LeaveType DEF MarkDone
  <2>2. HSet(j, "done") \in Record /\ HSet(j, "done").maxRetries <= RetryCeiling
    BY <1>0, <1>4, HSetType DEF MarkDone, Busy
  <2>3. QED BY <1>4, <2>1, <2>2 DEF TypeOK, MarkDone, ghostVars, SlotsOK, StopOK
<1>5. ASSUME HandleFailure(s) PROVE TypeOK'
  <2>1. SlotsOK' /\ StopOK'
    BY <1>0, <1>5, AdvanceType DEF HandleFailure, Awaiting
  <2>2. /\ HSet(j, OutcomeOf(s)) \in Record
        /\ HSet(j, OutcomeOf(s)).maxRetries <= RetryCeiling
    BY <1>0, <1>5, HSetType DEF HandleFailure, OutcomeOf, Busy
  <2>3. QED BY <1>5, <2>1, <2>2 DEF TypeOK, HandleFailure, ghostVars, SlotsOK, StopOK
<1>6. ASSUME ReadForRequeue(s) PROVE TypeOK'
  <2>1. SlotsOK' /\ StopOK' /\ lost' \subseteq Jobs
    BY <1>6, ReadType DEF ReadForRequeue, Awaiting, Busy
  <2>2. QED BY <1>6, <2>1 DEF TypeOK, ReadForRequeue, redisVars, SlotsOK, StopOK
<1>7. ASSUME SaveRequeued(s) PROVE TypeOK'
  <2>1. SlotsOK' /\ StopOK'
    BY <1>0, <1>7, LeaveType DEF SaveRequeued
  <2>2. /\ NextAttempt(slot[s].copy) \in Record
        /\ NextAttempt(slot[s].copy).maxRetries <= RetryCeiling
    BY <1>0, <1>7, NextAttemptType DEF SaveRequeued, Busy, SlotsOK
  <2>3. j \in Jobs
    BY <1>0, <1>7 DEF SaveRequeued, Busy
  <2>4. timers' \in [Workers -> SUBSET Jobs]
    BY <1>7, <2>3 DEF TypeOK, SaveRequeued
  <2>5. QED BY <1>7, <2>1, <2>2, <2>4 DEF TypeOK, SaveRequeued, ghostVars, SlotsOK, StopOK
<1>8. ASSUME MoveToDlq(s) PROVE TypeOK'
  <2>1. SlotsOK' /\ StopOK'
    BY <1>0, <1>8, LeaveType DEF MoveToDlq
  <2>2. Append(dlq, j) \in Seq(Jobs)
    BY <1>0, <1>8 DEF TypeOK, MoveToDlq, Busy
  <2>3. dlq' \in Seq(Jobs) /\ Len(dlq') <= DlqMaxSize
    BY <1>8, <2>2, KeepNewestType DEF MoveToDlq
  <2>4. QED BY <1>8, <2>1, <2>3 DEF TypeOK, MoveToDlq, ghostVars, SlotsOK, StopOK
<1>9. QED BY <1>1, <1>2, <1>3, <1>4, <1>5, <1>6, <1>7, <1>8 DEF Process

LEMMA WorkerEventType ==
  ASSUME TypeOK, NEW w \in Workers,
         Stop(w) \/ Crash(w) \/ \E j \in Jobs : FireTimer(w, j) \/ TimerFails(w, j)
  PROVE  TypeOK'
<1>1. ASSUME Stop(w) PROVE TypeOK'
  BY <1>1 DEF TypeOK, Stop, redisVars, ghostVars, Busy
<1>2. ASSUME Crash(w) PROVE TypeOK'
  <2>1. IdleSlot \in SlotState /\ IdleSlot.pc = "idle"
    BY DEF IdleSlot, SlotState
  <2>2. slot' \in [Slots -> SlotState]
    BY <1>2, <2>1 DEF TypeOK, Crash
  <2>3. {slot[s].job : s \in Active(w)} \subseteq Jobs
    BY DEF TypeOK, Active, SlotsOf
  <2>4. lost' \subseteq Jobs /\ failures' \in Nat
    BY <1>2, <2>3 DEF TypeOK, Crash, Fails
  <2>5. QED
    BY <1>2, <2>1, <2>2, <2>4 DEF TypeOK, Crash, redisVars, Busy
<1>3. ASSUME NEW j \in Jobs, FireTimer(w, j) PROVE TypeOK'
  <2>1. list' \in [Priorities -> Seq(Jobs)]
    BY <1>3, PushType DEF TypeOK, FireTimer
  <2>2. QED BY <1>3, <2>1 DEF TypeOK, FireTimer, ghostVars, Busy
<1>4. ASSUME NEW j \in Jobs, TimerFails(w, j) PROVE TypeOK'
  BY <1>4 DEF TypeOK, TimerFails, Fails, redisVars, Busy
<1>5. QED BY <1>1, <1>2, <1>3, <1>4

LEMMA CallFailsType ==
  ASSUME TypeOK, NEW s \in Slots, CallFails(s)
  PROVE  TypeOK'
<1> DEFINE j == slot[s].job
           c == slot[s].copy
<1>1. SlotsOK /\ StopOK /\ Busy(s) /\ j \in Jobs
  BY DEF TypeOK, SlotsOK, StopOK, CallFails, Awaiting, Busy
<1>2. SlotsOK' /\ StopOK' /\ lost' \subseteq Jobs
  <2>1. CASE slot[s].pc = "finish"
    BY <1>1, <2>1, AdvanceType DEF CallFails, TypeOK, Awaiting
  <2>2. CASE slot[s].pc # "finish"
    BY <1>1, <2>2, LeaveType DEF CallFails, Drop, TypeOK
  <2>3. QED BY <2>1, <2>2
<1>3. /\ record' \in [Jobs -> Record \cup {None}]
      /\ \A i \in Jobs : record'[i] # None => record'[i].maxRetries <= RetryCeiling
  <2> DEFINE Fine(r) == r # None => r \in Record /\ r.maxRetries <= RetryCeiling
  <2>1. /\ Fine(record[j])
        /\ Fine(HSet(j, "running")) /\ Fine(HSet(j, "done")) /\ Fine(HSet(j, OutcomeOf(s)))
    BY <1>1, HSetType DEF TypeOK, OutcomeOf
  <2>2. slot[s].pc = "save" => Fine(NextAttempt(c))
    BY <1>1, NextAttemptType DEF SlotsOK
  <2>3. PICK r : record' = [record EXCEPT ![j] = r] /\ Fine(r)
    BY <2>1, <2>2 DEF CallFails
  <2>4. QED BY <2>3 DEF TypeOK
<1>4. dlq' \in Seq(Jobs) /\ Len(dlq') <= DlqMaxSize
  <2>1. Append(dlq, j) \in Seq(Jobs)
    BY <1>1 DEF TypeOK
  <2>2. QED BY <2>1, KeepNewestType DEF TypeOK, CallFails
<1>5. failures' \in Nat
  BY DEF TypeOK, CallFails, Fails
<1>6. QED
  BY <1>2, <1>3, <1>4, <1>5 DEF TypeOK, CallFails, SlotsOK, StopOK

LEMMA FailureType ==
  ASSUME TypeOK, Failure
  PROVE  TypeOK'
<1>1. ASSUME NEW j \in Jobs, EnlistFails(j) PROVE TypeOK'
  BY <1>1 DEF TypeOK, EnlistFails, Fails, redisVars, workerVars, Busy
<1>2. ASSUME NEW j \in Jobs, Expire(j) PROVE TypeOK'
  BY <1>2 DEF TypeOK, Expire, workerVars, Busy
<1>3. ASSUME NEW w \in Workers, PopFails(w) PROVE TypeOK'
  <2>1. failures' \in Nat
    BY <1>3 DEF TypeOK, PopFails, Fails
  <2>2. list' \in [Priorities -> Seq(Jobs)] /\ lost' \subseteq Jobs
    BY <1>3, RemoveHeadType DEF TypeOK, PopFails
  <2>3. QED BY <1>3, <2>1, <2>2 DEF TypeOK, PopFails, Busy
<1>4. QED
  BY <1>1, <1>2, <1>3, WorkerEventType, CallFailsType DEF Failure

LEMMA NextType == TypeOK /\ [Next]_vars => TypeOK'
<1>1. TypeOK /\ Next => TypeOK'
  BY CallerType, LoopType, ProcessType, WorkerEventType, FailureType DEF Next
<1>2. TypeOK /\ UNCHANGED vars => TypeOK'
  BY DEF TypeOK, vars, Busy
<1>3. QED BY <1>1, <1>2

\* Every hash, list, slot and timer keeps its shape, no stored job allows more
\* retries than the cap (enqueueFull's clamp), and the DLQ never holds more than
\* DLQ_MAX_SIZE ids (moveToDlq's trim).
THEOREM TypeCorrect == Spec => []TypeOK
BY InitType, NextType, PTL DEF Spec

-----------------------------------------------------------------------------
(* No double delivery *)

LEMMA ListedIff ==
  ASSUME NEW j
  PROVE  j \in Listed <=> \E p \in Priorities : \E i \in DOMAIN list[p] : list[p][i] = j
BY DEF Listed

LEMMA PushPlaces ==
  ASSUME list \in [Priorities -> Seq(Jobs)], ListedOnce, NEW j \in Jobs, j \notin Listed, Push(j)
  PROVE  ListedOnce' /\ Listed' \subseteq Listed \cup {j}
<1> DEFINE q == record[j].prio
<1>1. \A p \in Priorities :
        /\ p # q => list'[p] = list[p]
        /\ p = q => list'[p] = Append(list[p], j)
  BY DEF Push
<1>2. \A p \in Priorities : \A i \in DOMAIN list'[p] :
        \/ i \in DOMAIN list[p] /\ list'[p][i] = list[p][i]
        \/ p = q /\ i = Len(list[p]) + 1 /\ list'[p][i] = j
  <2>1. SUFFICES ASSUME NEW p \in Priorities, NEW i \in DOMAIN list'[p]
                 PROVE  \/ i \in DOMAIN list[p] /\ list'[p][i] = list[p][i]
                        \/ p = q /\ i = Len(list[p]) + 1 /\ list'[p][i] = j
    OBVIOUS
  <2>2. list[p] \in Seq(Jobs)
    OBVIOUS
  <2>3. CASE p # q
    BY <1>1, <2>3
  <2>4. CASE p = q
    <3>1. list'[p] = Append(list[p], j)
      BY <1>1, <2>4
    <3>2. Len(list[p]) \in Nat /\ DOMAIN list[p] = 1..Len(list[p])
      BY <2>2
    <3>3. DOMAIN list'[p] = 1..(Len(list[p]) + 1)
      BY <2>2, <3>1
    <3>4. CASE i = Len(list[p]) + 1
      BY <2>2, <2>4, <3>1, <3>4
    <3>5. CASE i \in 1..Len(list[p])
      BY <2>2, <3>1, <3>2, <3>5
    <3>6. QED BY <3>2, <3>3, <3>4, <3>5
  <2>5. QED BY <2>3, <2>4
<1>3. \A p \in Priorities : \A i \in DOMAIN list[p] : list[p][i] # j
  BY DEF Listed
<1>4. ListedOnce'
  <2>1. SUFFICES ASSUME NEW p \in Priorities, NEW r \in Priorities,
                        NEW i \in DOMAIN list'[p], NEW k \in DOMAIN list'[r],
                        list'[p][i] = list'[r][k]
                 PROVE  p = r /\ i = k
    BY DEF ListedOnce
  <2>2. QED BY <1>2, <1>3, <2>1 DEF ListedOnce
<1>5. Listed' \subseteq Listed \cup {j}
  BY <1>2 DEF Listed
<1>6. QED BY <1>4, <1>5

LEMMA RemoveHeadPlaces ==
  ASSUME list \in [Priorities -> Seq(Jobs)], ListedOnce, NEW p \in Priorities,
         list[p] # <<>>, RemoveHead(p)
  PROVE  ListedOnce' /\ Head(list[p]) \in Listed /\ Listed' \subseteq Listed \ {Head(list[p])}
<1>1. list[p] \in Seq(Jobs) /\ 1 \in DOMAIN list[p] /\ Head(list[p]) = list[p][1]
  OBVIOUS
<1>2. \A q \in Priorities \ {p} : list'[q] = list[q]
  BY DEF RemoveHead
<1>3. list'[p] = Tail(list[p])
  BY DEF RemoveHead
<1>4. \A i \in DOMAIN list'[p] : i + 1 \in DOMAIN list[p] /\ list'[p][i] = list[p][i + 1] /\ i \in 1..Len(list[p])
  BY <1>1, <1>3
<1>5. \A q \in Priorities : \A i \in DOMAIN list'[q] :
        \E k \in DOMAIN list[q] : k = (IF q = p THEN i + 1 ELSE i) /\ list'[q][i] = list[q][k]
  BY <1>2, <1>4
<1>6. \A q \in Priorities : \A i \in DOMAIN list'[q] : i \in Int
  <2>1. SUFFICES ASSUME NEW q \in Priorities, NEW i \in DOMAIN list'[q] PROVE i \in Int
    OBVIOUS
  <2>2. list[q] \in Seq(Jobs)
    OBVIOUS
  <2>3. CASE q = p
    BY <1>4, <2>3
  <2>4. CASE q # p
    BY <1>2, <2>2, <2>4
  <2>5. QED BY <2>3, <2>4
<1>7. ListedOnce'
  <2>1. SUFFICES ASSUME NEW q \in Priorities, NEW r \in Priorities,
                        NEW i \in DOMAIN list'[q], NEW k \in DOMAIN list'[r],
                        list'[q][i] = list'[r][k]
                 PROVE  q = r /\ i = k
    BY DEF ListedOnce
  <2>2. i \in Int /\ k \in Int
    BY <1>6
  <2>3. PICK i0 \in DOMAIN list[q] :
          i0 = (IF q = p THEN i + 1 ELSE i) /\ list'[q][i] = list[q][i0]
    BY <1>5
  <2>4. PICK k0 \in DOMAIN list[r] :
          k0 = (IF r = p THEN k + 1 ELSE k) /\ list'[r][k] = list[r][k0]
    BY <1>5
  <2>5. q = r /\ i0 = k0
    <3>1. list[q][i0] = list[r][k0]
      BY <2>1, <2>3, <2>4
    <3>2. ListedOnce
      OBVIOUS
    <3>3. QED BY ONLY <2>3, <2>4, <3>1, <3>2 DEF ListedOnce
  <2>6. QED BY <2>2, <2>3, <2>4, <2>5
<1>8. Head(list[p]) \in Listed
  BY <1>1 DEF Listed
<1>9. Listed' \subseteq Listed \ {Head(list[p])}
  <2>1. SUFFICES ASSUME NEW q \in Priorities, NEW i \in DOMAIN list'[q]
                 PROVE  list'[q][i] \in Listed \ {Head(list[p])}
    BY DEF Listed
  <2>2. PICK i0 \in DOMAIN list[q] :
          i0 = (IF q = p THEN i + 1 ELSE i) /\ list'[q][i] = list[q][i0]
    BY <1>5
  <2>3. list[q][i0] \in Listed
    BY DEF Listed
  <2>4. CASE list[q][i0] = list[p][1]
    <3>1. q = p /\ i0 = 1
      BY <1>1, <2>4 DEF ListedOnce
    <3>2. i \in 1..Len(list[p])
      BY <1>4, <3>1
    <3>3. QED BY <2>2, <3>1, <3>2
  <2>5. QED BY <1>1, <2>2, <2>3, <2>4
<1>10. QED BY <1>7, <1>8, <1>9

LEMMA EmptySlotPlaces ==
  ASSUME slot \in [Slots -> SlotState], OneSlotEach, NEW s \in Slots, Busy(s),
         slot' = [slot EXCEPT ![s] = IdleSlot]
  PROVE  OneSlotEach' /\ InSlot' \subseteq InSlot \ {slot[s].job}
<1>1. \A t \in Slots : slot'[t] = IF t = s THEN IdleSlot ELSE slot[t]
  OBVIOUS
<1>2. QED BY <1>1 DEF OneSlotEach, InSlot, Busy, IdleSlot

LEMMA KeepJobPlaces ==
  ASSUME slot \in [Slots -> SlotState], OneSlotEach, NEW s \in Slots, Busy(s),
         NEW x, slot' = [slot EXCEPT ![s] = x], x.job = slot[s].job
  PROVE  OneSlotEach' /\ InSlot' \subseteq InSlot
<1>1. \A t \in Slots : slot'[t] = IF t = s THEN x ELSE slot[t]
  OBVIOUS
<1>2. QED BY <1>1 DEF OneSlotEach, InSlot, Busy

LEMMA FillSlotPlaces ==
  ASSUME slot \in [Slots -> SlotState], OneSlotEach, NEW s \in Slots,
         NEW x, slot' = [slot EXCEPT ![s] = x], x.job \notin InSlot
  PROVE  OneSlotEach' /\ InSlot' \subseteq InSlot \cup {x.job}
<1>1. \A t \in Slots : slot'[t] = IF t = s THEN x ELSE slot[t]
  OBVIOUS
<1>2. QED BY <1>1 DEF OneSlotEach, InSlot, Busy

LEMMA SetTimerPlaces ==
  ASSUME timers \in [Workers -> SUBSET Jobs], OneTimerEach, NEW w \in Workers,
         NEW j, j \notin InTimer, timers' = [timers EXCEPT ![w] = @ \cup {j}]
  PROVE  OneTimerEach' /\ InTimer' \subseteq InTimer \cup {j}
BY DEF OneTimerEach, InTimer

LEMMA ClearTimerPlaces ==
  ASSUME timers \in [Workers -> SUBSET Jobs], OneTimerEach, NEW w \in Workers,
         NEW j \in timers[w], timers' = [timers EXCEPT ![w] = @ \ {j}]
  PROVE  OneTimerEach' /\ j \in InTimer /\ InTimer' \subseteq InTimer \ {j}
BY DEF OneTimerEach, InTimer

LEMMA CrashPlaces ==
  ASSUME slot \in [Slots -> SlotState], timers \in [Workers -> SUBSET Jobs],
         OneSlotEach, OneTimerEach, NEW w \in Workers, Crash(w)
  PROVE  /\ OneSlotEach' /\ OneTimerEach'
         /\ InSlot' \subseteq InSlot /\ InTimer' \subseteq InTimer
<1>1. \A t \in Slots : slot'[t] = IF Home[t] = w THEN IdleSlot ELSE slot[t]
  BY DEF Crash
<1>2. OneSlotEach' /\ InSlot' \subseteq InSlot
  BY <1>1 DEF OneSlotEach, InSlot, Busy, IdleSlot
<1>3. OneTimerEach' /\ InTimer' \subseteq InTimer
  BY DEF OneTimerEach, InTimer, Crash
<1>4. QED BY <1>2, <1>3

\* What a step leaves alone stays in its place.
LEMMA SamePlaces ==
  /\ list' = list => Listed' = Listed /\ (ListedOnce => ListedOnce')
  /\ slot' = slot => InSlot' = InSlot /\ (OneSlotEach => OneSlotEach')
  /\ timers' = timers => InTimer' = InTimer /\ (OneTimerEach => OneTimerEach')
BY DEF Listed, ListedOnce, InSlot, OneSlotEach, InTimer, OneTimerEach, Busy

\* Each id is in at most one place, and the ids not drawn yet are nowhere.
Delivery == NoDoubleDelivery /\ FreshNowhere

\* No place gains an id but "to", which may gain j; and j has left "from".
Moves(j, from, to) ==
  /\ from # to \/ to = "none"
  /\ from = "none" => to = "none"
  /\ fresh' \subseteq fresh
  /\ from = "fresh" => j \in fresh /\ j \notin fresh'
  /\ from = "submitting" => j \in submitting /\ j \notin submitting'
  /\ from = "listed" => j \in Listed /\ j \notin Listed'
  /\ from = "slot" => j \in InSlot /\ j \notin InSlot'
  /\ from = "timer" => j \in InTimer /\ j \notin InTimer'
  /\ submitting' \subseteq IF to = "submitting" THEN submitting \cup {j} ELSE submitting
  /\ Listed' \subseteq IF to = "listed" THEN Listed \cup {j} ELSE Listed
  /\ InSlot' \subseteq IF to = "slot" THEN InSlot \cup {j} ELSE InSlot
  /\ InTimer' \subseteq IF to = "timer" THEN InTimer \cup {j} ELSE InTimer

\* A job that leaves one of its places can enter another one.
LEMMA MoveDelivery ==
  ASSUME Delivery, ListedOnce', OneSlotEach', OneTimerEach', NEW j,
         NEW from \in {"fresh", "submitting", "listed", "slot", "timer", "none"},
         NEW to \in {"submitting", "listed", "slot", "timer", "none"},
         Moves(j, from, to)
  PROVE  Delivery'
<1> USE DEF Delivery, NoDoubleDelivery, FreshNowhere, PlacesDisjoint, Held, Moves
<1>1. PlacesDisjoint' /\ FreshNowhere'
  OBVIOUS
<1>2. QED BY <1>1

LEMMA InitDelivery == Init => Delivery
BY DEF Init, Delivery, NoDoubleDelivery, FreshNowhere, ListedOnce, OneSlotEach,
       OneTimerEach, PlacesDisjoint, Held, Listed, InSlot, InTimer, Busy, IdleSlot

\* A step that touches no place.
LEMMA StillDelivery ==
  ASSUME Delivery, UNCHANGED <<list, slot, timers, fresh, submitting>>
  PROVE  Delivery'
<1>1. Moves(CHOOSE j : TRUE, "none", "none")
  BY SamePlaces DEF Moves
<1>2. QED BY <1>1, SamePlaces, MoveDelivery DEF Delivery, NoDoubleDelivery

LEMMA CallerDelivery ==
  ASSUME TypeOK, Delivery, NEW j \in Jobs, Caller(j)
  PROVE  Delivery'
<1> USE DEF Delivery, NoDoubleDelivery
<1>1. ASSUME j \in fresh, fresh' = fresh \ {j}, submitting' = submitting \cup {j},
             UNCHANGED <<list, slot, timers>>
      PROVE  Delivery'
  <2>1. Moves(j, "fresh", "submitting")
    BY <1>1, SamePlaces DEF Moves
  <2>2. QED BY <1>1, <2>1, SamePlaces, MoveDelivery
<1>2. ASSUME NEW p \in EnqueuePriorities, NEW n \in RequestedRetries, Submit(j, p, n)
      PROVE  Delivery'
  BY <1>1, <1>2 DEF Submit, workerVars
<1>3. ASSUME NEW o \in Jobs, Replay(o, j)
      PROVE  Delivery'
  BY <1>1, <1>3 DEF Replay, workerVars
<1>4. ASSUME Enlist(j)
      PROVE  Delivery'
  <2>1. j \notin Listed
    BY <1>4 DEF Enlist, PlacesDisjoint
  <2>2. ListedOnce' /\ Listed' \subseteq Listed \cup {j}
    BY <1>4, <2>1, PushPlaces DEF Enlist, TypeOK
  <2>3. UNCHANGED <<slot, timers>>
    BY <1>4 DEF Enlist, workerVars
  <2>4. Moves(j, "submitting", "listed")
    BY <1>4, <2>2, <2>3, SamePlaces DEF Moves, Enlist
  <2>5. QED BY <2>2, <2>3, <2>4, SamePlaces, MoveDelivery
<1>5. QED BY <1>2, <1>3, <1>4 DEF Caller

LEMMA LoopDelivery ==
  ASSUME TypeOK, Delivery, NEW w \in Workers, Loop(w)
  PROVE  Delivery'
<1> USE DEF Delivery, NoDoubleDelivery
<1>1. ASSUME BeginScan(w) \/ Miss(w) PROVE Delivery'
  BY <1>1, StillDelivery DEF BeginScan, Miss, redisVars
<1>2. ASSUME NEW s \in Slots, Pop(w, s) PROVE Delivery'
  <2> DEFINE j == Head(list[scan[w]])
             x == [pc |-> "read", job |-> j, copy |-> None]
  <2>1. ListedOnce' /\ j \in Listed /\ Listed' \subseteq Listed \ {j}
    BY <1>2, RemoveHeadPlaces DEF Pop, TypeOK
  <2>2. x.job = j
    OBVIOUS
  <2>3. j \notin InSlot
    BY <2>1 DEF PlacesDisjoint
  <2>4. slot' = [slot EXCEPT ![s] = x] /\ slot \in [Slots -> SlotState]
    BY <1>2 DEF Pop, TypeOK
  <2> HIDE DEF j, x
  <2>5. OneSlotEach' /\ InSlot' \subseteq InSlot \cup {j}
    BY <2>2, <2>3, <2>4, FillSlotPlaces
  <2>6. UNCHANGED <<timers, fresh, submitting>>
    BY <1>2 DEF Pop
  <2>7. Moves(j, "listed", "slot")
    BY <2>1, <2>5, <2>6, SamePlaces DEF Moves
  <2>8. QED BY <2>1, <2>5, <2>6, <2>7, SamePlaces, MoveDelivery
<1>3. QED BY <1>1, <1>2 DEF Loop

\* processJob goes on with its job, or lets go of it.
LEMMA KeepDelivery ==
  ASSUME TypeOK, Delivery, NEW s \in Slots, Busy(s), NEW x,
         slot' = [slot EXCEPT ![s] = x], x.job = slot[s].job,
         UNCHANGED <<list, timers, fresh, submitting>>
  PROVE  Delivery'
<1> USE DEF Delivery, NoDoubleDelivery
<1>1. OneSlotEach' /\ InSlot' \subseteq InSlot
  BY KeepJobPlaces DEF TypeOK
<1>2. Moves(CHOOSE j : TRUE, "none", "none")
  BY <1>1, SamePlaces DEF Moves
<1>3. QED BY <1>1, <1>2, SamePlaces, MoveDelivery

LEMMA AdvanceDelivery ==
  ASSUME TypeOK, Delivery, NEW s \in Slots, Busy(s), NEW pc, Advance(s, pc),
         UNCHANGED <<list, timers, fresh, submitting>>
  PROVE  Delivery'
<1>1. slot[s] \in SlotState
  BY DEF TypeOK
<1>2. PICK x : x = [slot[s] EXCEPT !.pc = pc]
  OBVIOUS
<1>3. x.job = slot[s].job
  BY <1>1, <1>2 DEF SlotState
<1>4. slot' = [slot EXCEPT ![s] = x]
  BY <1>2 DEF Advance
<1>5. QED BY <1>3, <1>4, KeepDelivery

LEMMA LeaveDelivery ==
  ASSUME TypeOK, Delivery, NEW s \in Slots, Busy(s), Leave(s),
         UNCHANGED <<list, timers, fresh, submitting>>
  PROVE  Delivery'
<1> USE DEF Delivery, NoDoubleDelivery
<1>1. OneSlotEach' /\ InSlot' \subseteq InSlot \ {slot[s].job}
  BY EmptySlotPlaces DEF TypeOK, Leave
<1>2. Moves(CHOOSE j : TRUE, "none", "none")
  BY <1>1, SamePlaces DEF Moves
<1>3. QED BY <1>1, <1>2, SamePlaces, MoveDelivery

LEMMA ReadDelivery ==
  ASSUME TypeOK, Delivery, NEW s \in Slots, Busy(s), NEW pc,
         UNCHANGED <<list, timers, fresh, submitting>>,
         IF record[slot[s].job] = None THEN Drop(s)
         ELSE /\ slot' = [slot EXCEPT ![s].pc = pc, ![s].copy = record[slot[s].job]]
              /\ UNCHANGED <<stop, lost>>
  PROVE  Delivery'
<1>1. CASE record[slot[s].job] = None
  BY <1>1, LeaveDelivery DEF Drop
<1>2. CASE record[slot[s].job] # None
  <2>1. slot[s] \in SlotState
    BY DEF TypeOK
  <2>2. PICK x : x = [slot[s] EXCEPT !.pc = pc, !.copy = record[slot[s].job]]
    OBVIOUS
  <2>3. x.job = slot[s].job
    BY <2>1, <2>2 DEF SlotState
  <2>4. slot' = [slot EXCEPT ![s] = x]
    BY <1>2, <2>2 DEF TypeOK
  <2>5. QED BY <2>3, <2>4, KeepDelivery
<1>3. QED BY <1>1, <1>2

LEMMA ProcessDelivery ==
  ASSUME TypeOK, Delivery, NEW s \in Slots, Process(s)
  PROVE  Delivery'
<1>1. ASSUME GetJob(s) PROVE Delivery'
  BY <1>1, ReadDelivery DEF GetJob, Busy, redisVars
<1>2. ASSUME MarkRunning(s) PROVE Delivery'
  BY <1>2, AdvanceDelivery DEF MarkRunning, Busy
<1>3. ASSUME HandlerSettles(s) PROVE Delivery'
  BY <1>3, AdvanceDelivery DEF HandlerSettles, Busy, redisVars
<1>4. ASSUME MarkDone(s) PROVE Delivery'
  BY <1>4, LeaveDelivery DEF MarkDone, Busy
<1>5. ASSUME HandleFailure(s) PROVE Delivery'
  BY <1>5, AdvanceDelivery DEF HandleFailure, Busy
<1>6. ASSUME ReadForRequeue(s) PROVE Delivery'
  BY <1>6, ReadDelivery DEF ReadForRequeue, Busy, redisVars
<1>7. ASSUME SaveRequeued(s) PROVE Delivery'
  <2> USE DEF Delivery, NoDoubleDelivery
  <2> DEFINE j == slot[s].job
  <2>1. Busy(s) /\ slot' = [slot EXCEPT ![s] = IdleSlot]
    BY <1>7 DEF SaveRequeued, Leave, Busy
  <2>2. OneSlotEach' /\ InSlot' \subseteq InSlot \ {j}
    BY <2>1, EmptySlotPlaces DEF TypeOK
  <2>3. j \in InSlot /\ j \notin InTimer
    BY <2>1 DEF InSlot, PlacesDisjoint
  <2>4. Home[s] \in Workers /\ timers' = [timers EXCEPT ![Home[s]] = @ \cup {j}]
    BY <1>7, ConstantsOK DEF SaveRequeued
  <2>5. OneTimerEach' /\ InTimer' \subseteq InTimer \cup {j}
    BY <2>3, <2>4, SetTimerPlaces DEF TypeOK
  <2>6. UNCHANGED <<list, fresh, submitting>>
    BY <1>7 DEF SaveRequeued
  <2>7. Moves(j, "slot", "timer")
    BY <2>2, <2>3, <2>5, <2>6, SamePlaces DEF Moves
  <2>8. QED BY <2>2, <2>5, <2>6, <2>7, SamePlaces, MoveDelivery
<1>8. ASSUME MoveToDlq(s) PROVE Delivery'
  BY <1>8, LeaveDelivery DEF MoveToDlq, Busy
<1>9. QED BY <1>1, <1>2, <1>3, <1>4, <1>5, <1>6, <1>7, <1>8 DEF Process

LEMMA TimerDelivery ==
  ASSUME TypeOK, Delivery, NEW w \in Workers, NEW j \in Jobs,
         FireTimer(w, j) \/ TimerFails(w, j)
  PROVE  Delivery'
<1> USE DEF Delivery, NoDoubleDelivery
<1>1. /\ j \in timers[w] /\ timers' = [timers EXCEPT ![w] = @ \ {j}]
      /\ UNCHANGED <<slot, fresh, submitting>>
  BY DEF FireTimer, TimerFails
<1>2. OneTimerEach' /\ j \in InTimer /\ InTimer' \subseteq InTimer \ {j}
  BY <1>1, ClearTimerPlaces DEF TypeOK
<1>3. CASE FireTimer(w, j)
  <2>1. j \notin Listed
    BY <1>2 DEF PlacesDisjoint
  <2>2. ListedOnce' /\ Listed' \subseteq Listed \cup {j}
    BY <1>3, <2>1, PushPlaces DEF FireTimer, TypeOK
  <2>3. Moves(j, "timer", "listed")
    BY <1>1, <1>2, <2>2, SamePlaces DEF Moves
  <2>4. QED BY <1>1, <1>2, <2>2, <2>3, SamePlaces, MoveDelivery
<1>4. CASE TimerFails(w, j)
  <2>1. UNCHANGED list
    BY <1>4 DEF TimerFails, redisVars
  <2>2. Moves(j, "none", "none")
    BY <1>1, <1>2, <2>1, SamePlaces DEF Moves
  <2>3. QED BY <1>1, <1>2, <2>1, <2>2, SamePlaces, MoveDelivery
<1>5. QED BY <1>3, <1>4

LEMMA FailureDelivery ==
  ASSUME TypeOK, Delivery, Failure
  PROVE  Delivery'
<1> USE DEF Delivery, NoDoubleDelivery
<1>1. ASSUME NEW j \in Jobs, EnlistFails(j) PROVE Delivery'
  <2>1. UNCHANGED <<list, slot, timers, fresh>> /\ submitting' \subseteq submitting
    BY <1>1 DEF EnlistFails, redisVars, workerVars
  <2>2. Moves(j, "none", "none")
    BY <2>1, SamePlaces DEF Moves
  <2>3. QED BY <2>1, <2>2, SamePlaces, MoveDelivery
<1>2. ASSUME NEW j \in Jobs, Expire(j) PROVE Delivery'
  BY <1>2, StillDelivery DEF Expire, workerVars
<1>3. ASSUME NEW w \in Workers, PopFails(w) PROVE Delivery'
  <2>1. UNCHANGED <<slot, timers, fresh, submitting>>
    BY <1>3 DEF PopFails
  <2>2. ListedOnce' /\ Listed' \subseteq Listed
    BY <1>3, RemoveHeadPlaces, SamePlaces DEF PopFails, TypeOK
  <2>3. Moves(None, "none", "none")
    BY <2>1, <2>2, SamePlaces DEF Moves
  <2>4. QED BY <2>1, <2>2, <2>3, SamePlaces, MoveDelivery
<1>4. ASSUME NEW w \in Workers, Crash(w) PROVE Delivery'
  <2>1. UNCHANGED <<list, fresh, submitting>>
    BY <1>4 DEF Crash, redisVars
  <2>2. /\ OneSlotEach' /\ OneTimerEach'
        /\ InSlot' \subseteq InSlot /\ InTimer' \subseteq InTimer
    BY <1>4, CrashPlaces DEF TypeOK
  <2>3. Moves(None, "none", "none")
    BY <2>1, <2>2, SamePlaces DEF Moves
  <2>4. QED BY <2>1, <2>2, <2>3, SamePlaces, MoveDelivery
<1>5. ASSUME NEW s \in Slots, CallFails(s) PROVE Delivery'
  <2>1. Busy(s) /\ UNCHANGED <<list, timers, fresh, submitting>>
    BY <1>5 DEF CallFails, Busy, Awaiting
  <2>2. Advance(s, "caught") \/ Leave(s)
    BY <1>5 DEF CallFails, Drop
  <2>3. QED BY <2>1, <2>2, AdvanceDelivery, LeaveDelivery
<1>6. QED BY <1>1, <1>2, <1>3, <1>4, <1>5, TimerDelivery DEF Failure

LEMMA NextDelivery == TypeOK /\ Delivery /\ [Next]_vars => Delivery'
<1>1. ASSUME TypeOK, Delivery, Next PROVE Delivery'
  <2>1. ASSUME NEW w \in Workers, Stop(w) PROVE Delivery'
    BY <1>1, <2>1, StillDelivery DEF Stop, redisVars
  <2>2. QED
    BY <1>1, <2>1, CallerDelivery, LoopDelivery, ProcessDelivery, TimerDelivery,
       FailureDelivery DEF Next
<1>2. ASSUME Delivery, UNCHANGED vars PROVE Delivery'
  BY <1>2, StillDelivery DEF vars
<1>3. QED BY <1>1, <1>2

\* No job is ever in two places: no two slots, timers or list entries hold the
\* same id, so no attempt overlaps another one, whatever fails, crashes or is
\* replayed, for any number of jobs, workers and slots.
THEOREM DeliveredOnce == Spec => []NoDoubleDelivery
<1>1. Spec => []Delivery
  BY InitDelivery, NextDelivery, TypeCorrect, PTL DEF Spec
<1>2. Delivery => NoDoubleDelivery
  BY DEF Delivery
<1>3. QED BY <1>1, <1>2, PTL

-----------------------------------------------------------------------------
(* The life of one job: a step of the queue concerns one job (a crash: those of one worker) and leaves *)
(* every other one alone, so each argument is made for one job.                                        *)

\* The attempts counted in the hash against the invocations of the handler: equal
\* while the job waits.
Ledger(j) ==
  /\ record[j] \in Record
  /\ record[j].attempts <= record[j].maxRetries
  /\ runs[j] <= record[j].maxRetries + 1
  /\ j \in submitting \cup Listed \cup InTimer => runs[j] = record[j].attempts

\* The same for a job a slot is processing: one invocation ahead of the hash from
\* MarkRunning on; the copy read at the start agrees with the hash; requeueJob
\* is entered with a retry left and moveToDlq with none.
InHand(s) ==
  LET j == slot[s].job IN
  /\ slot[s].pc \in {"read", "mark"} => runs[j] = record[j].attempts
  /\ slot[s].pc \notin {"read", "mark"} => runs[j] = record[j].attempts + 1
  /\ slot[s].pc # "read" => /\ slot[s].copy.attempts = record[j].attempts
                           /\ slot[s].copy.maxRetries = record[j].maxRetries
  /\ slot[s].pc \in {"reread", "save"} => record[j].attempts < record[j].maxRetries
  /\ slot[s].pc = "bury" => record[j].attempts = record[j].maxRetries

Burying(s) == Busy(s) /\ slot[s].pc = "bury"

\* How a job no failure has touched ends.
Ended(j) ==
  \/ record[j].status = "done"
  \/ record[j].status = "failed" /\ (Buried(j) \/ Len(dlq) = DlqMaxSize)

\* What holds of one job at any time.
JobOK(j) ==
  /\ j \in fresh => record[j] = None /\ runs[j] = 0 /\ j \notin lost \cup expired /\ ~Buried(j)
  /\ j \notin fresh \cup expired =>
       /\ Ledger(j)
       /\ \A s \in Slots : Busy(s) /\ slot[s].job = j => InHand(s)
       /\ Buried(j) => record[j].status = "failed" /\ runs[j] = record[j].maxRetries + 1
  /\ j \in submitting \cup InTimer => record[j] \in Record
  /\ \A s \in Slots : Burying(s) /\ slot[s].job = j =>
       record[j] = None \/ record[j].status = "failed"
  /\ Buried(j) \/ j \in lost => j \notin Held
  /\ j \notin fresh \cup expired \cup Held \cup lost => Ended(j)

\* RetryBudget and NothingDropped, made inductive.
Life ==
  /\ \A j \in Jobs : JobOK(j)
  /\ lost # {} => failures > 0 \/ expired # {}

\* Everything known of a reachable state.
Sound == TypeOK /\ Delivery /\ Life

-----------------------------------------------------------------------------
(* Where each step takes the job it concerns *)

LEMMA PushListed ==
  ASSUME list \in [Priorities -> Seq(Jobs)], NEW j \in Jobs, record[j] \in Record, Push(j)
  PROVE  Listed' = Listed \cup {j}
<1> DEFINE q == record[j].prio
<1>1. q \in Priorities /\ list[q] \in Seq(Jobs)
  BY DEF Record
<1>2. list'[q] = Append(list[q], j) /\ \A p \in Priorities \ {q} : list'[p] = list[p]
  BY <1>1 DEF Push
<1>3. /\ DOMAIN list'[q] = 1..(Len(list[q]) + 1) /\ DOMAIN list[q] = 1..Len(list[q])
      /\ Len(list[q]) \in Nat /\ list'[q][Len(list[q]) + 1] = j
      /\ \A i \in 1..Len(list[q]) : list'[q][i] = list[q][i]
  BY <1>1, <1>2
<1> HIDE DEF q
<1>4. ASSUME NEW k PROVE k \in Listed' <=> k \in Listed \cup {j}
  <2>1. ASSUME NEW p \in Priorities, NEW i \in DOMAIN list'[p], list'[p][i] = k
        PROVE  k \in Listed \cup {j}
    <3>1. CASE p = q
      <4>1. CASE i = Len(list[q]) + 1
        BY <1>3, <2>1, <3>1, <4>1
      <4>2. CASE i \in 1..Len(list[q])
        BY <1>1, <1>3, <2>1, <3>1, <4>2 DEF Listed
      <4>3. QED BY <1>3, <2>1, <3>1, <4>1, <4>2
    <3>2. CASE p # q
      BY <1>2, <2>1, <3>2 DEF Listed
    <3>3. QED BY <3>1, <3>2
  <2>2. ASSUME NEW p \in Priorities, NEW i \in DOMAIN list[p], list[p][i] = k
        PROVE  k \in Listed'
    <3>1. i \in DOMAIN list'[p] /\ list'[p][i] = k
      <4>1. CASE p = q
        BY <1>3, <2>2, <4>1
      <4>2. CASE p # q
        BY <1>2, <2>2, <4>2
      <4>3. QED BY <4>1, <4>2
    <3>2. QED BY <3>1 DEF Listed
  <2>3. j \in Listed'
    <3>1. Len(list[q]) + 1 \in DOMAIN list'[q]
      BY <1>3
    <3>2. QED BY <1>1, <1>3, <3>1 DEF Listed
  <2>4. QED BY <2>1, <2>2, <2>3 DEF Listed
<1>5. QED BY <1>4

LEMMA PopListed ==
  ASSUME list \in [Priorities -> Seq(Jobs)], ListedOnce, NEW p \in Priorities,
         list[p] # <<>>, RemoveHead(p)
  PROVE  Head(list[p]) \in Listed /\ Listed' = Listed \ {Head(list[p])}
<1>1. Head(list[p]) \in Listed /\ Listed' \subseteq Listed \ {Head(list[p])}
  BY RemoveHeadPlaces
<1>2. ASSUME NEW q \in Priorities, NEW i \in DOMAIN list[q], list[q][i] # Head(list[p])
      PROVE  list[q][i] \in Listed'
  <2>1. CASE q = p
    <3>1. list[p] \in Seq(Jobs)
      OBVIOUS
    <3>2. list'[p] = Tail(list[p])
      BY DEF RemoveHead
    <3>3. i \in 1..Len(list[p]) /\ i # 1
      BY <1>2, <2>1, <3>1
    <3>4. i - 1 \in DOMAIN list'[p] /\ list'[p][i - 1] = list[p][i]
      BY <3>1, <3>2, <3>3
    <3>5. QED BY <2>1, <3>4 DEF Listed
  <2>2. CASE q # p
    <3>1. list'[q] = list[q]
      BY <2>2 DEF RemoveHead
    <3>2. QED BY <3>1 DEF Listed
  <2>3. QED BY <2>1, <2>2
<1>3. \A k \in Listed \ {Head(list[p])} : k \in Listed'
  <2>1. SUFFICES ASSUME NEW k \in Listed \ {Head(list[p])} PROVE k \in Listed'
    OBVIOUS
  <2>2. PICK q \in Priorities : \E i \in DOMAIN list[q] : list[q][i] = k
    BY DEF Listed
  <2>3. QED BY <1>2, <2>2
<1>4. QED BY <1>1, <1>3

LEMMA KeepSlot ==
  ASSUME slot \in [Slots -> SlotState], NEW s \in Slots, Busy(s),
         NEW x, x.job = slot[s].job, x.pc # "idle", slot' = [slot EXCEPT ![s] = x]
  PROVE  InSlot' = InSlot
<1>1. \A t \in Slots : slot'[t] = IF t = s THEN x ELSE slot[t]
  OBVIOUS
<1>2. QED BY <1>1 DEF InSlot, Busy

LEMMA EmptySlot ==
  ASSUME slot \in [Slots -> SlotState], OneSlotEach, NEW s \in Slots, Busy(s),
         slot' = [slot EXCEPT ![s] = IdleSlot]
  PROVE  slot[s].job \in InSlot /\ InSlot' = InSlot \ {slot[s].job}
<1>1. \A t \in Slots : slot'[t] = IF t = s THEN IdleSlot ELSE slot[t]
  OBVIOUS
<1>2. QED BY <1>1 DEF OneSlotEach, InSlot, Busy, IdleSlot

LEMMA FillSlot ==
  ASSUME slot \in [Slots -> SlotState], NEW s \in Slots, ~Busy(s),
         NEW x, x.pc # "idle", slot' = [slot EXCEPT ![s] = x]
  PROVE  InSlot' = InSlot \cup {x.job}
<1>1. \A t \in Slots : slot'[t] = IF t = s THEN x ELSE slot[t]
  OBVIOUS
<1>2. QED BY <1>1 DEF InSlot, Busy

LEMMA SetTimer ==
  ASSUME timers \in [Workers -> SUBSET Jobs], NEW w \in Workers, NEW j,
         timers' = [timers EXCEPT ![w] = @ \cup {j}]
  PROVE  InTimer' = InTimer \cup {j}
BY DEF InTimer

LEMMA ClearTimer ==
  ASSUME timers \in [Workers -> SUBSET Jobs], OneTimerEach, NEW w \in Workers,
         NEW j \in timers[w], timers' = [timers EXCEPT ![w] = @ \ {j}]
  PROVE  j \in InTimer /\ InTimer' = InTimer \ {j}
BY DEF OneTimerEach, InTimer

\* moveToDlq adds one job; the others stay, unless the list is full.
DlqAdds(j) ==
  /\ Buried(j)'
  /\ \A k \in Jobs \ {j} : /\ Buried(k)' => Buried(k)
                           /\ Buried(k) => Buried(k)' \/ Len(dlq') = DlqMaxSize
  /\ Len(dlq) = DlqMaxSize => Len(dlq') = DlqMaxSize

LEMMA BuryAdds ==
  ASSUME dlq \in Seq(Jobs), NEW j \in Jobs, dlq' = KeepNewest(Append(dlq, j))
  PROVE  DlqAdds(j)
<1> DEFINE q == Append(dlq, j)
           n == Len(dlq)
<1>0. n \in Nat
  OBVIOUS
<1>1. /\ Len(q) = n + 1 /\ q[n + 1] = j /\ q \in Seq(Jobs)
      /\ DOMAIN dlq = 1..n /\ \A i \in 1..n : q[i] = dlq[i]
  OBVIOUS
<1>d. dlq' = KeepNewest(q)
  OBVIOUS
<1>h. Len(dlq) = n
  OBVIOUS
<1> HIDE DEF q, n
<1>2. CASE n + 1 > DlqMaxSize
  <2> DEFINE d == n + 1 - DlqMaxSize
  <2>0. Len(q) - DlqMaxSize + 1 = d + 1
    BY <1>0, <1>1, ConstantsOK
  <2>1. dlq' = SubSeq(q, d + 1, n + 1)
    BY <1>1, <1>2, <1>d, <2>0 DEF KeepNewest
  <2>2. d \in Nat /\ d >= 1 /\ d <= n /\ n + 1 - (d + 1) + 1 = DlqMaxSize
    BY <1>0, <1>2, ConstantsOK
  <2> HIDE DEF d
  <2>3. Len(dlq') = DlqMaxSize /\ DOMAIN dlq' = 1..DlqMaxSize
    BY <1>0, <1>1, <2>1, <2>2, ConstantsOK
  <2>4. ASSUME NEW i \in 1..DlqMaxSize PROVE dlq'[i] = q[i + d]
    <3>1. i \in Int /\ i + d = d + 1 + i - 1
      BY <2>2, ConstantsOK
    <3>2. QED BY <1>0, <1>1, <2>1, <2>2, <3>1, ConstantsOK
  <2>5. Buried(j)'
    <3>1. DlqMaxSize \in 1..DlqMaxSize /\ DlqMaxSize + d = n + 1
      BY <1>0, <2>2, ConstantsOK
    <3>2. QED BY <1>1, <2>3, <2>4, <3>1 DEF Buried
  <2>6. ASSUME NEW k \in Jobs \ {j}, Buried(k)' PROVE Buried(k)
    <3>1. PICK i \in 1..DlqMaxSize : dlq'[i] = k
      BY <2>3, <2>6 DEF Buried
    <3>2. i + d \in 1..(n + 1) /\ q[i + d] = k
      BY <1>0, <2>2, <2>4, <3>1, ConstantsOK, <1>1
    <3>3. i + d \in 1..n
      BY <1>0, <1>1, <2>2, <3>1, <3>2
    <3>4. QED BY <1>1, <3>2, <3>3 DEF Buried
  <2>7. QED BY <2>3, <2>5, <2>6 DEF DlqAdds
<1>3. CASE ~(n + 1 > DlqMaxSize)
  <2>1. dlq' = q
    BY <1>1, <1>3, <1>d DEF KeepNewest
  <2>2. DOMAIN dlq' = 1..(n + 1)
    BY <1>0, <1>1, <2>1
  <2>3. Len(dlq) # DlqMaxSize
    BY <1>0, <1>3, <1>h, ConstantsOK
  <2>4. Buried(j)'
    <3>1. n + 1 \in 1..(n + 1)
      BY <1>0, <1>1
    <3>2. QED BY <1>1, <2>1, <2>2, <3>1 DEF Buried
  <2>5. ASSUME NEW k \in Jobs \ {j} PROVE Buried(k)' <=> Buried(k)
    <3>1. ASSUME NEW i \in 1..(n + 1), q[i] = k PROVE i \in 1..n
      BY <1>0, <1>1, <2>5, <3>1
    <3>2. 1..n \subseteq 1..(n + 1)
      BY <1>0, <1>1
    <3>3. QED BY <1>1, <2>1, <2>2, <3>1, <3>2 DEF Buried
  <2>6. QED BY <2>3, <2>4, <2>5 DEF DlqAdds
<1>4. QED BY <1>2, <1>3

-----------------------------------------------------------------------------
(* A step leaves every job alone but the one it is about *)

Alone(k) ==
  /\ k \in fresh' <=> k \in fresh
  /\ k \in submitting' <=> k \in submitting
  /\ k \in Listed' <=> k \in Listed
  /\ k \in InSlot' <=> k \in InSlot
  /\ k \in InTimer' <=> k \in InTimer
  /\ k \in lost' <=> k \in lost
  /\ k \in expired' <=> k \in expired
  /\ record'[k] = record[k] /\ runs'[k] = runs[k]
  /\ \A s \in Slots : Busy(s)' /\ slot'[s].job = k => slot'[s] = slot[s]
  /\ Buried(k)' => Buried(k)
  /\ Buried(k) => Buried(k)' \/ Len(dlq') = DlqMaxSize
  /\ Len(dlq) = DlqMaxSize => Len(dlq') = DlqMaxSize
Others(j) == \A k \in Jobs \ {j} : Alone(k)

\* A step about j after which every job is as it should be.
Step(j) == Others(j) /\ \A k \in Jobs : JobOK(k)'

LEMMA AloneOK ==
  ASSUME NEW k \in Jobs, JobOK(k), Alone(k)
  PROVE  JobOK(k)'
<1>1. k \in Held' <=> k \in Held
  BY DEF Alone, Held
<1>2. \A s \in Slots : Busy(s)' /\ slot'[s].job = k =>
        /\ Busy(s) /\ slot[s].job = k /\ slot'[s] = slot[s]
        /\ InHand(s) => InHand(s)'
        /\ Burying(s)' => Burying(s)
  BY DEF Alone, Busy, Burying, InHand
<1>3. Ledger(k) => Ledger(k)'
  BY DEF Ledger, Alone
<1>4. Ended(k) => Ended(k)'
  BY DEF Ended, Alone
<1>5. \A s \in Slots : Burying(s)' => Busy(s)'
  BY DEF Burying
<1>6. QED BY <1>1, <1>2, <1>3, <1>4, <1>5 DEF JobOK, Alone

\* A busy slot's job is nowhere else, not lost, not in the DLQ, and its books
\* balance.
LEMMA SlotFacts ==
  ASSUME TypeOK, Delivery, Life, NEW s \in Slots, Busy(s)
  PROVE  LET j == slot[s].job IN
         /\ j \in Jobs /\ j \in InSlot
         /\ j \notin fresh \cup submitting \cup Listed \cup InTimer \cup lost /\ ~Buried(j)
         /\ \A t \in Slots : Busy(t) /\ slot[t].job = j => t = s
         /\ j \notin expired => Ledger(j) /\ InHand(s)
         /\ Burying(s) => record[j] = None \/ record[j].status = "failed"
<1> DEFINE j == slot[s].job
<1>1. j \in Jobs /\ j \in InSlot
  BY DEF TypeOK, InSlot
<1>2. j \in Held
  BY <1>1 DEF Held
<1>3. j \notin fresh \cup submitting \cup Listed \cup InTimer
  BY <1>1, <1>2 DEF Delivery, NoDoubleDelivery, PlacesDisjoint, FreshNowhere
<1>4. JobOK(j)
  BY <1>1 DEF Life
<1>5. \A t \in Slots : Busy(t) /\ slot[t].job = j => t = s
  BY DEF Delivery, NoDoubleDelivery, OneSlotEach
<1>6. QED BY <1>1, <1>2, <1>3, <1>4, <1>5 DEF JobOK

\* processJob goes on with its job, having perhaps rewritten its hash.
LEMMA Keeps ==
  ASSUME TypeOK, Delivery, Life, NEW s \in Slots, Busy(s), NEW j, j = slot[s].job, NEW x, NEW r, NEW n,
         x.job = j, x.pc # "idle", slot' = [slot EXCEPT ![s] = x],
         record' = [record EXCEPT ![j] = r],
         runs' = [runs EXCEPT ![j] = n],
         UNCHANGED <<list, dlq, timers, fresh, submitting, lost, expired>>,
         j \notin expired =>
           r \in Record /\ r.attempts <= r.maxRetries /\ n <= r.maxRetries + 1 /\ InHand(s)',
         x.pc = "bury" => r = None \/ r.status = "failed"
  PROVE  Step(j) /\ InSlot' = InSlot
<1>1. /\ j \in Jobs /\ j \in InSlot
      /\ j \notin fresh \cup submitting \cup Listed \cup InTimer \cup lost /\ ~Buried(j)
      /\ \A t \in Slots : Busy(t) /\ slot[t].job = j => t = s
  BY SlotFacts
<1>2. InSlot' = InSlot
  BY KeepSlot DEF TypeOK
<1>3. \A t \in Slots : slot'[t] = IF t = s THEN x ELSE slot[t]
  BY DEF TypeOK
<1>4. \A k \in Jobs : /\ record'[k] = IF k = j THEN r ELSE record[k]
                      /\ runs'[k] = IF k = j THEN n ELSE runs[k]
  BY DEF TypeOK
<1>5. UNCHANGED <<Listed, InTimer>> /\ \A k : Buried(k)' <=> Buried(k)
  BY SamePlaces DEF Buried
<1>6. Others(j)
  BY <1>2, <1>3, <1>4, <1>5 DEF Others, Alone, Busy
<1>7. j \in InSlot' /\ j \in Held' /\ j \notin (submitting \cup Listed \cup InTimer)'
  BY <1>1, <1>2, <1>5 DEF Held
<1>8. JobOK(j)'
  <2>1. \A t \in Slots : Busy(t)' /\ slot'[t].job = j => t = s
    BY <1>1, <1>3 DEF Busy
  <2>2. Burying(s)' => x.pc = "bury"
    BY <1>3 DEF Burying
  <2>3. j \notin expired => Ledger(j)'
    BY <1>1, <1>4, <1>7 DEF Ledger
  <2>4. j \notin fresh' /\ j \notin lost' /\ ~Buried(j)'
    BY <1>1, <1>5
  <2>5. \A t \in Slots : Burying(t)' => Busy(t)'
    BY DEF Burying
  <2>6. QED BY <1>1, <1>4, <1>7, <2>1, <2>2, <2>3, <2>4, <2>5 DEF JobOK
<1>9. \A k \in Jobs \ {j} : JobOK(k)'
  BY <1>6, AloneOK DEF Others, Life
<1>10. QED BY <1>2, <1>6, <1>8, <1>9 DEF Step

\* processJob lets go of its job: done, dropped, or buried.
LEMMA Leaves ==
  ASSUME TypeOK, Delivery, Life, NEW s \in Slots, Busy(s), NEW j, j = slot[s].job, NEW r,
         slot' = [slot EXCEPT ![s] = IdleSlot],
         record' = [record EXCEPT ![j] = r],
         UNCHANGED <<list, timers, fresh, submitting, expired, runs>>,
         lost' = lost \/ lost' = lost \cup {j},
         dlq' = dlq \/ DlqAdds(j),
         j \notin expired =>
           /\ r \in Record /\ r.attempts <= r.maxRetries
           /\ runs[j] <= r.maxRetries + 1
           /\ Buried(j)' =>
                r.status = "failed" /\ runs[j] = r.maxRetries + 1
           /\ j \in lost' \/ Ended(j)'
  PROVE  Step(j) /\ InSlot' = InSlot \ {j}
<1>1. /\ j \in Jobs /\ j \in InSlot
      /\ j \notin fresh \cup submitting \cup Listed \cup InTimer \cup lost /\ ~Buried(j)
      /\ \A t \in Slots : Busy(t) /\ slot[t].job = j => t = s
      /\ j \notin expired => Ledger(j) /\ InHand(s)
  BY SlotFacts
<1>2. InSlot' = InSlot \ {j}
  BY EmptySlot DEF TypeOK, Delivery, NoDoubleDelivery
<1>3. \A t \in Slots : slot'[t] = IF t = s THEN IdleSlot ELSE slot[t]
  BY DEF TypeOK
<1>4. \A k \in Jobs : record'[k] = IF k = j THEN r ELSE record[k]
  BY DEF TypeOK
<1>5. UNCHANGED <<Listed, InTimer>>
  BY SamePlaces
<1>6. Others(j)
  <2>1. SUFFICES ASSUME NEW k \in Jobs \ {j} PROVE Alone(k)
    BY DEF Others
  <2>2. /\ Buried(k)' => Buried(k)
        /\ Buried(k) => Buried(k)' \/ Len(dlq') = DlqMaxSize
        /\ Len(dlq) = DlqMaxSize => Len(dlq') = DlqMaxSize
    BY DEF DlqAdds, Buried
  <2>3. \A t \in Slots : Busy(t)' => slot'[t] = slot[t]
    BY <1>3 DEF Busy, IdleSlot
  <2>4. QED BY <1>2, <1>4, <1>5, <2>2, <2>3 DEF Alone
<1>7. j \notin Held' /\ j \notin (submitting \cup Listed \cup InTimer)'
  BY <1>1, <1>2, <1>5 DEF Held
<1>8. JobOK(j)'
  <2>1. \A t \in Slots : ~(Busy(t)' /\ slot'[t].job = j)
    BY <1>1, <1>3 DEF Busy, IdleSlot
  <2>2. \A t \in Slots : Burying(t)' => Busy(t)'
    BY DEF Burying
  <2>0. j \notin fresh' /\ expired' = expired /\ record'[j] = r /\ runs'[j] = runs[j]
    BY <1>1, <1>4
  <2>3. CASE j \in expired
    BY <1>7, <2>0, <2>1, <2>2, <2>3 DEF JobOK
  <2>4. CASE j \notin expired
    <3>1. /\ r \in Record /\ r.attempts <= r.maxRetries /\ runs[j] <= r.maxRetries + 1
          /\ Buried(j)' => r.status = "failed" /\ runs[j] = r.maxRetries + 1
          /\ j \in lost' \/ Ended(j)'
      BY <2>4
    <3>2. Ledger(j)'
      BY <1>7, <2>0, <3>1 DEF Ledger
    <3>3. QED
      BY <1>7, <2>0, <2>1, <2>2, <3>1, <3>2 DEF JobOK
  <2>5. QED BY <2>3, <2>4
<1>9. \A k \in Jobs \ {j} : JobOK(k)'
  BY <1>6, AloneOK DEF Others, Life
<1>10. QED BY <1>2, <1>6, <1>8, <1>9 DEF Step

-----------------------------------------------------------------------------
(* The steps of processJob *)

\* HSET changes the status of a hash that is there and nothing else.
LEMMA HSetKeeps ==
  ASSUME NEW j \in Jobs, record[j] \in Record,
         NEW st \in {"pending", "running", "done", "failed"}
  PROVE  /\ HSet(j, st) \in Record /\ HSet(j, st).status = st
         /\ HSet(j, st).attempts = record[j].attempts
         /\ HSet(j, st).maxRetries = record[j].maxRetries
BY NoneIsNoHash DEF HSet, Record

LEMMA HSetStatus ==
  ASSUME TypeOK, NEW j \in Jobs, NEW st
  PROVE  HSet(j, st).status = st
<1>1. record[j] = None \/ record[j] \in Record
  BY DEF TypeOK
<1>2. QED BY <1>1 DEF HSet, Record

\* The job in hand, while its hash has not expired.
LEMMA HandFacts ==
  ASSUME TypeOK, Delivery, Life, NEW s \in Slots, Busy(s), slot[s].job \notin expired
  PROVE  LET j == slot[s].job
             c == slot[s].copy IN
         /\ j \in Jobs /\ record[j] \in Record /\ record[j] # None
         /\ record[j].attempts \in Nat /\ record[j].maxRetries \in Nat /\ runs[j] \in Nat
         /\ record[j].attempts <= record[j].maxRetries /\ runs[j] <= record[j].maxRetries + 1
         /\ InHand(s)
<1> DEFINE j == slot[s].job
<1>1. j \in Jobs /\ Ledger(j) /\ InHand(s) /\ ~Buried(j) /\ j \notin fresh
  BY SlotFacts
<1>2. record[j] \in Record /\ runs[j] \in Nat
  BY <1>1 DEF TypeOK, Ledger
<1>3. record[j] # None
  BY <1>2, NoneIsNoHash
<1>4. QED BY <1>1, <1>2, <1>3 DEF Record, Ledger

LEMMA MarkRunningStep ==
  ASSUME TypeOK, Delivery, Life, NEW s \in Slots, NEW j, j = slot[s].job, MarkRunning(s)
  PROVE  Step(j) /\ InSlot' = InSlot
<1>1. Busy(s) /\ slot[s] \in SlotState
  BY DEF TypeOK, MarkRunning, Busy
<1>2. PICK x : x = [slot[s] EXCEPT !.pc = "handler"]
  OBVIOUS
<1>3. x.job = j /\ x.pc = "handler" /\ x.copy = slot[s].copy /\ slot' = [slot EXCEPT ![s] = x]
  BY <1>1, <1>2 DEF SlotState, MarkRunning, Advance
<1>4. PICK r : r = HSet(j, "running")
  OBVIOUS
<1>5. PICK n : n = runs[j] + 1
  OBVIOUS
<1>6. /\ record' = [record EXCEPT ![j] = r] /\ runs' = [runs EXCEPT ![j] = n]
      /\ UNCHANGED <<list, dlq, timers, fresh, submitting, lost, expired>>
  BY <1>4, <1>5 DEF MarkRunning
<1>7. ASSUME j \notin expired
      PROVE  r \in Record /\ r.attempts <= r.maxRetries /\ n <= r.maxRetries + 1 /\ InHand(s)'
  <2>1. /\ j \in Jobs /\ record[j] \in Record /\ InHand(s)
        /\ record[j].attempts \in Nat /\ record[j].maxRetries \in Nat /\ runs[j] \in Nat
        /\ record[j].attempts <= record[j].maxRetries
    BY <1>1, <1>7, HandFacts
  <2>2. /\ r \in Record /\ r.attempts = record[j].attempts
        /\ r.maxRetries = record[j].maxRetries
    BY <1>4, <2>1, HSetKeeps
  <2>3. runs[j] = record[j].attempts
    BY <2>1 DEF InHand, MarkRunning
  <2>4. slot[s].copy.attempts = r.attempts /\ slot[s].copy.maxRetries = r.maxRetries
    BY <2>1, <2>2 DEF InHand, MarkRunning
  <2>5. record'[j] = r /\ runs'[j] = n /\ slot'[s] = x
    BY <1>3, <1>6, <2>1 DEF TypeOK
  <2>6. InHand(s)'
    BY <1>3, <1>5, <2>1, <2>2, <2>3, <2>4, <2>5 DEF InHand
  <2>7. QED BY <1>5, <2>1, <2>2, <2>3, <2>6
<1>8. QED
  BY <1>1, <1>3, <1>6, <1>7, Keeps

LEMMA ReadStep ==
  ASSUME TypeOK, Delivery, Life, NEW s \in Slots, NEW j, j = slot[s].job,
         GetJob(s) \/ ReadForRequeue(s)
  PROVE  Step(j) /\ \/ InSlot' = InSlot /\ lost' = lost
                    \/ record[j] = None /\ InSlot' = InSlot \ {j} /\ lost' = lost \cup {j}
<1>1. Busy(s) /\ slot[s] \in SlotState /\ j \in Jobs
  BY SlotFacts DEF TypeOK, GetJob, ReadForRequeue, Busy
<1>2. /\ record' = [record EXCEPT ![j] = record[j]] /\ runs' = [runs EXCEPT ![j] = runs[j]]
      /\ UNCHANGED <<list, dlq, timers, fresh, submitting, expired, runs>>
  BY DEF GetJob, ReadForRequeue, redisVars, TypeOK
<1>3. PICK r, n : r = record[j] /\ n = runs[j]
  OBVIOUS
<1>4. CASE record[j] = None
  <2>1. Leave(s) /\ lost' = lost \cup {j}
    BY <1>4 DEF GetJob, ReadForRequeue, Drop
  <2>2. slot' = [slot EXCEPT ![s] = IdleSlot]
    BY <2>1 DEF Leave
  <2>3. j \in expired
    BY <1>1, <1>4, HandFacts
  <2>4. Step(j) /\ InSlot' = InSlot \ {j}
    BY <1>1, <1>2, <1>3, <2>1, <2>2, <2>3, Leaves
  <2>5. QED BY <1>4, <2>1, <2>4
<1>5. CASE record[j] # None
  <2>1. PICK pc \in {"mark", "save"} :
           /\ slot' = [slot EXCEPT ![s].pc = pc, ![s].copy = record[j]] /\ lost' = lost
           /\ pc = "save" <=> slot[s].pc # "read"
           /\ pc = "mark" => slot[s].pc = "read"
           /\ pc = "save" => slot[s].pc = "reread"
    BY <1>5 DEF GetJob, ReadForRequeue
  <2>2. PICK x : x = [slot[s] EXCEPT !.pc = pc, !.copy = r]
    OBVIOUS
  <2>3. x.job = j /\ x.pc = pc /\ x.copy = r
    BY <1>1, <2>2 DEF SlotState
  <2>4. slot' = [slot EXCEPT ![s] = x]
    BY <1>3, <2>1, <2>2 DEF TypeOK
  <2>5. ASSUME j \notin expired
        PROVE  r \in Record /\ r.attempts <= r.maxRetries /\ n <= r.maxRetries + 1 /\ InHand(s)'
    <3>1. /\ record[j] \in Record /\ InHand(s)
          /\ record[j].attempts <= record[j].maxRetries /\ runs[j] <= record[j].maxRetries + 1
      BY <1>1, <2>5, HandFacts
    <3>2. slot'[s] = x /\ record'[j] = r /\ runs'[j] = n
      BY <1>1, <1>2, <1>3, <2>4 DEF TypeOK
    <3>3. InHand(s)'
      BY <1>3, <2>1, <2>3, <3>1, <3>2 DEF InHand
    <3>4. QED BY <1>3, <3>1, <3>3
  <2>6. /\ x.pc # "idle" /\ x.pc # "bury"
        /\ record' = [record EXCEPT ![j] = r] /\ runs' = [runs EXCEPT ![j] = n]
        /\ UNCHANGED <<list, dlq, timers, fresh, submitting, lost, expired>>
    BY <1>2, <1>3, <2>1, <2>3
  <2>7. Step(j) /\ InSlot' = InSlot
    BY <1>1, <2>3, <2>4, <2>5, <2>6, Keeps
  <2>8. QED BY <2>1, <2>7
<1>6. QED BY <1>4, <1>5

LEMMA SettleStep ==
  ASSUME TypeOK, Delivery, Life, NEW s \in Slots, NEW j, j = slot[s].job, HandlerSettles(s)
  PROVE  Step(j) /\ InSlot' = InSlot
<1>1. Busy(s) /\ slot[s] \in SlotState /\ j \in Jobs
  BY SlotFacts DEF TypeOK, HandlerSettles, Busy
<1>2. /\ record' = [record EXCEPT ![j] = record[j]] /\ runs' = [runs EXCEPT ![j] = runs[j]]
      /\ UNCHANGED <<list, dlq, timers, fresh, submitting, lost, expired>>
  BY DEF HandlerSettles, redisVars, ghostVars, TypeOK
<1>3. PICK r, n : r = record[j] /\ n = runs[j]
  OBVIOUS
<1>4. PICK pc \in {"finish", "caught"} : Advance(s, pc)
  BY DEF HandlerSettles
<1>5. PICK x : x = [slot[s] EXCEPT !.pc = pc]
  OBVIOUS
<1>6. x.job = j /\ x.pc = pc /\ x.copy = slot[s].copy /\ slot' = [slot EXCEPT ![s] = x]
  BY <1>1, <1>4, <1>5 DEF SlotState, Advance
<1>7. ASSUME j \notin expired
      PROVE  r \in Record /\ r.attempts <= r.maxRetries /\ n <= r.maxRetries + 1 /\ InHand(s)'
  <2>1. /\ record[j] \in Record /\ InHand(s)
        /\ record[j].attempts <= record[j].maxRetries /\ runs[j] <= record[j].maxRetries + 1
    BY <1>1, <1>7, HandFacts
  <2>2. slot'[s] = x /\ record'[j] = r /\ runs'[j] = n
    BY <1>1, <1>2, <1>3, <1>6 DEF TypeOK
  <2>3. InHand(s)'
    BY <1>3, <1>6, <2>1, <2>2 DEF InHand, HandlerSettles
  <2>4. QED BY <1>3, <2>1, <2>3
<1>8. QED BY <1>1, <1>2, <1>3, <1>6, <1>7, Keeps

LEMMA DoneStep ==
  ASSUME TypeOK, Delivery, Life, NEW s \in Slots, NEW j, j = slot[s].job, MarkDone(s)
  PROVE  /\ Step(j) /\ InSlot' = InSlot \ {j}
         /\ record'[j] # None /\ record'[j].status = "done" /\ lost' = lost
<1>1. Busy(s) /\ slot[s] \in SlotState /\ j \in Jobs /\ ~Buried(j) /\ j \notin lost
  BY SlotFacts DEF TypeOK, MarkDone, Busy
<1>2. PICK r : r = HSet(j, "done")
  OBVIOUS
<1>3. /\ record' = [record EXCEPT ![j] = r] /\ slot' = [slot EXCEPT ![s] = IdleSlot]
      /\ UNCHANGED <<list, dlq, timers, fresh, submitting, expired, runs, lost>>
  BY <1>2 DEF MarkDone, Leave, ghostVars
<1>4. r # None /\ r.status = "done" /\ record'[j] = r
  <2>1. r \in Record
    BY <1>1, <1>2, HSetType
  <2>2. r.status = "done"
    BY <1>1, <1>2, HSetStatus
  <2>3. record'[j] = r
    BY <1>1, <1>3 DEF TypeOK
  <2>4. QED BY <2>1, <2>2, <2>3, NoneIsNoHash
<1>5. ASSUME j \notin expired
      PROVE  /\ r \in Record /\ r.attempts <= r.maxRetries /\ runs[j] <= r.maxRetries + 1
             /\ ~Buried(j)' /\ Ended(j)'
  <2>1. /\ record[j] \in Record /\ record[j].attempts <= record[j].maxRetries
        /\ runs[j] <= record[j].maxRetries + 1
    BY <1>1, <1>5, HandFacts
  <2>2. ~Buried(j)'
    BY <1>1, <1>3 DEF Buried
  <2>3. QED BY <1>1, <1>2, <1>4, <2>1, <2>2, HSetKeeps DEF Ended
<1>6. Step(j) /\ InSlot' = InSlot \ {j}
  BY <1>1, <1>3, <1>5, Leaves
<1>7. QED BY <1>3, <1>4, <1>6

LEMMA HandleFailureStep ==
  ASSUME TypeOK, Delivery, Life, NEW s \in Slots, NEW j, j = slot[s].job, HandleFailure(s)
  PROVE  Step(j) /\ InSlot' = InSlot /\ lost' = lost
<1>1. Busy(s) /\ slot[s] \in SlotState /\ j \in Jobs
  BY SlotFacts DEF TypeOK, HandleFailure, Busy
<1>2. PICK pc \in {"reread", "bury"} :
        /\ pc = IF RetriesLeft(slot[s].copy) THEN "reread" ELSE "bury"
        /\ Advance(s, pc)
  BY DEF HandleFailure
<1>3. PICK x : x = [slot[s] EXCEPT !.pc = pc]
  OBVIOUS
<1>4. x.job = j /\ x.pc = pc /\ x.copy = slot[s].copy /\ slot' = [slot EXCEPT ![s] = x]
  BY <1>1, <1>2, <1>3 DEF SlotState, Advance
<1>5. PICK r, n : r = HSet(j, OutcomeOf(s)) /\ n = runs[j]
  OBVIOUS
<1>6. /\ record' = [record EXCEPT ![j] = r]
      /\ UNCHANGED <<list, dlq, timers, fresh, submitting, lost, expired, runs>>
  BY <1>5 DEF HandleFailure, ghostVars
<1>7. runs' = [runs EXCEPT ![j] = n]
  BY <1>5, <1>6 DEF TypeOK
<1>8. OutcomeOf(s) \in {"pending", "failed"} /\ (pc = "bury" => OutcomeOf(s) = "failed")
  BY <1>2 DEF OutcomeOf
<1>9. r.status = OutcomeOf(s)
  BY <1>1, <1>5, HSetStatus
<1>10. ASSUME j \notin expired
       PROVE  r \in Record /\ r.attempts <= r.maxRetries /\ n <= r.maxRetries + 1 /\ InHand(s)'
  <2>1. /\ record[j] \in Record /\ InHand(s)
        /\ record[j].attempts \in Nat /\ record[j].maxRetries \in Nat
        /\ record[j].attempts <= record[j].maxRetries /\ runs[j] <= record[j].maxRetries + 1
    BY <1>1, <1>10, HandFacts
  <2>2. /\ r \in Record /\ r.attempts = record[j].attempts
        /\ r.maxRetries = record[j].maxRetries
    BY <1>1, <1>5, <1>8, <2>1, HSetKeeps
  <2>3. slot'[s] = x /\ record'[j] = r /\ runs'[j] = n
    BY <1>1, <1>4, <1>6, <1>7 DEF TypeOK
  <2>4. /\ slot[s].copy.attempts = record[j].attempts
        /\ slot[s].copy.maxRetries = record[j].maxRetries /\ n = record[j].attempts + 1
    BY <1>5, <2>1 DEF InHand, HandleFailure
  <2>5. /\ pc = "reread" => record[j].attempts < record[j].maxRetries
        /\ pc = "bury" => record[j].attempts = record[j].maxRetries
    BY <1>2, <2>1, <2>4 DEF RetriesLeft
  <2>6. InHand(s)'
    BY <1>2, <1>4, <2>2, <2>3, <2>4, <2>5 DEF InHand
  <2>7. QED BY <1>5, <2>1, <2>2, <2>6
<1>11. x.pc # "idle" /\ (x.pc = "bury" => r = None \/ r.status = "failed")
  BY <1>4, <1>8, <1>9
<1>12. j \notin expired =>
         r \in Record /\ r.attempts <= r.maxRetries /\ n <= r.maxRetries + 1 /\ InHand(s)'
  BY <1>10
<1>13. Step(j) /\ InSlot' = InSlot
  <2>1. x.job = j /\ x.pc # "idle" /\ (x.pc = "bury" => r = None \/ r.status = "failed")
    BY <1>4, <1>11
  <2>2. slot' = [slot EXCEPT ![s] = x]
    BY <1>4
  <2>3. QED BY <1>1, <1>6, <1>7, <1>12, <2>1, <2>2, Keeps
<1>14. QED BY <1>6, <1>13

LEMMA BuryStep ==
  ASSUME TypeOK, Delivery, Life, NEW s \in Slots, NEW j, j = slot[s].job, MoveToDlq(s)
  PROVE  /\ Step(j) /\ InSlot' = InSlot \ {j} /\ lost' = lost
         /\ record' = record /\ (record[j] = None \/ record[j].status = "failed")
         /\ record[j] = None => j \in expired
<1>1. /\ Busy(s) /\ slot[s] \in SlotState /\ j \in Jobs
      /\ (record[j] = None \/ record[j].status = "failed")
  BY SlotFacts DEF TypeOK, MoveToDlq, Busy, Burying
<1>2. PICK r : r = record[j]
  OBVIOUS
<1>3. /\ record' = [record EXCEPT ![j] = r] /\ slot' = [slot EXCEPT ![s] = IdleSlot]
      /\ UNCHANGED <<list, timers, fresh, submitting, expired, runs, lost, record>>
      /\ dlq' = KeepNewest(Append(dlq, j))
  BY <1>2 DEF MoveToDlq, Leave, ghostVars, TypeOK
<1>4. DlqAdds(j)
  BY <1>1, <1>3, BuryAdds DEF TypeOK
<1>5. ASSUME j \notin expired
      PROVE  /\ r \in Record /\ r.attempts <= r.maxRetries /\ runs[j] <= r.maxRetries + 1
             /\ r.status = "failed" /\ runs[j] = r.maxRetries + 1 /\ Ended(j)' /\ r # None
  <2>1. /\ record[j] \in Record /\ record[j].attempts <= record[j].maxRetries /\ InHand(s)
        /\ runs[j] <= record[j].maxRetries + 1 /\ record[j] # None
    BY <1>1, <1>5, HandFacts
  <2>2. record[j].status = "failed" /\ runs[j] = record[j].maxRetries + 1
    BY <1>1, <2>1 DEF InHand, MoveToDlq
  <2>3. QED BY <1>2, <1>3, <1>4, <2>1, <2>2 DEF Ended, DlqAdds
<1>6. Step(j) /\ InSlot' = InSlot \ {j}
  BY <1>1, <1>3, <1>4, <1>5, Leaves
<1>7. QED BY <1>1, <1>2, <1>3, <1>5, <1>6

\* requeueJob: the hash counts one attempt more, and the job waits in a timer.
LEMMA RequeueStep ==
  ASSUME TypeOK, Delivery, Life, NEW s \in Slots, NEW j, j = slot[s].job, SaveRequeued(s)
  PROVE  /\ Step(j) /\ InSlot' = InSlot \ {j} /\ InTimer' = InTimer \cup {j} /\ lost' = lost
         /\ j \notin expired =>
              /\ record[j].attempts < record[j].maxRetries
              /\ record'[j].attempts = record[j].attempts + 1
              /\ record'[j].maxRetries = record[j].maxRetries
<1>1. /\ Busy(s) /\ j \in Jobs /\ slot[s].pc = "save" /\ j \in InSlot
      /\ j \notin fresh \cup submitting \cup Listed \cup InTimer \cup lost /\ ~Buried(j)
      /\ \A t \in Slots : Busy(t) /\ slot[t].job = j => t = s
  BY SlotFacts DEF SaveRequeued, Busy
<1>2. PICK r : r = NextAttempt(slot[s].copy)
  OBVIOUS
<1>3. /\ record' = [record EXCEPT ![j] = r] /\ slot' = [slot EXCEPT ![s] = IdleSlot]
      /\ UNCHANGED <<list, dlq, fresh, submitting, expired, runs, lost>>
      /\ timers' = [timers EXCEPT ![Home[s]] = @ \cup {j}]
  BY <1>2 DEF SaveRequeued, Leave, ghostVars
<1>4. InSlot' = InSlot \ {j}
  BY <1>1, <1>3, EmptySlot DEF TypeOK, Delivery, NoDoubleDelivery
<1>5. InTimer' = InTimer \cup {j}
  BY <1>3, SetTimer, ConstantsOK DEF TypeOK
<1>6. /\ UNCHANGED Listed /\ \A k : Buried(k)' <=> Buried(k)
      /\ \A t \in Slots : slot'[t] = IF t = s THEN IdleSlot ELSE slot[t]
      /\ \A k \in Jobs : record'[k] = IF k = j THEN r ELSE record[k]
  BY <1>3, SamePlaces DEF Buried, TypeOK
<1>7. Others(j)
  BY <1>3, <1>4, <1>5, <1>6 DEF Others, Alone, Busy, IdleSlot
<1>8. ASSUME j \notin expired
      PROVE  /\ r \in Record /\ r.attempts <= r.maxRetries /\ runs[j] <= r.maxRetries + 1
             /\ runs[j] = r.attempts /\ record[j].attempts < record[j].maxRetries
             /\ r.attempts = record[j].attempts + 1 /\ r.maxRetries = record[j].maxRetries
  <2>1. /\ record[j] \in Record /\ record[j].attempts <= record[j].maxRetries /\ InHand(s)
        /\ runs[j] <= record[j].maxRetries + 1
        /\ record[j].attempts \in Nat /\ record[j].maxRetries \in Nat
    BY <1>1, <1>8, HandFacts
  <2>2. /\ slot[s].copy \in Record /\ slot[s].copy.attempts = record[j].attempts
        /\ slot[s].copy.maxRetries = record[j].maxRetries
        /\ record[j].attempts < record[j].maxRetries /\ runs[j] = record[j].attempts + 1
    BY <1>1, <2>1 DEF InHand, TypeOK
  <2>3. r \in Record
    BY <1>1, <1>2, <2>2, NextAttemptType DEF TypeOK
  <2>4. r.attempts = slot[s].copy.attempts + 1 /\ r.maxRetries = slot[s].copy.maxRetries
    BY <1>2, <2>2 DEF NextAttempt, Record
  <2>5. QED BY <2>1, <2>2, <2>3, <2>4
<1>9. JobOK(j)'
  <2>1. \A t \in Slots : ~(Busy(t)' /\ slot'[t].job = j)
    BY <1>1, <1>6 DEF Busy, IdleSlot
  <2>2. \A t \in Slots : Burying(t)' => Busy(t)'
    BY DEF Burying
  <2>3. j \notin fresh' /\ j \notin lost' /\ ~Buried(j)' /\ j \in Held'
    BY <1>1, <1>3, <1>5, <1>6 DEF Held
  <2>4. j \notin expired' => Ledger(j)'
    BY <1>1, <1>3, <1>6, <1>8 DEF Ledger
  <2>5. record'[j] \in Record
    <3>1. slot[s].copy \in Record /\ slot[s].copy.maxRetries <= RetryCeiling
      BY <1>1 DEF TypeOK
    <3>2. QED BY <1>1, <1>2, <1>6, <3>1, NextAttemptType
  <2>6. QED BY <2>1, <2>2, <2>3, <2>4, <2>5 DEF JobOK
<1>10. \A k \in Jobs \ {j} : JobOK(k)'
  BY <1>7, AloneOK DEF Others, Life
<1>11. QED BY <1>1, <1>3, <1>4, <1>5, <1>6, <1>7, <1>8, <1>9, <1>10 DEF Step

\* A call that fails drops the job, but a failed 'done' only sends it to the
\* catch block; either way nothing but its own hash and the DLQ can have changed.
LEMMA CallFailsStep ==
  ASSUME TypeOK, Delivery, Life, NEW s \in Slots, NEW j, j = slot[s].job, CallFails(s)
  PROVE  Step(j) /\ \/ InSlot' = InSlot /\ lost' = lost
                    \/ InSlot' = InSlot \ {j} /\ lost' = lost \cup {j}
<1> DEFINE c == slot[s].copy
<1>1. /\ Busy(s) /\ slot[s] \in SlotState /\ j \in Jobs
      /\ (slot[s].pc = "bury" => record[j] = None \/ record[j].status = "failed")
  BY SlotFacts DEF TypeOK, CallFails, Awaiting, Busy, Burying
<1>2. UNCHANGED <<list, timers, fresh, submitting, expired, runs>>
  BY DEF CallFails
<1>3. PICK r :
        /\ record' = [record EXCEPT ![j] = r]
        /\ \/ r = record[j]
           \/ r = HSet(j, "running") /\ slot[s].pc = "mark"
           \/ r = HSet(j, "done") /\ slot[s].pc = "finish"
           \/ r = HSet(j, OutcomeOf(s)) /\ slot[s].pc = "caught"
           \/ r = NextAttempt(c) /\ slot[s].pc = "save"
  BY DEF CallFails
<1>4. ASSUME j \notin expired
      PROVE  /\ r \in Record /\ r.attempts <= r.maxRetries /\ runs[j] <= r.maxRetries + 1
             /\ slot[s].pc = "finish" => /\ r.attempts = record[j].attempts
                                        /\ r.maxRetries = record[j].maxRetries
             /\ slot[s].pc = "bury" => r.status = "failed" /\ runs[j] = r.maxRetries + 1
             /\ record[j] \in Record /\ InHand(s)
  <2>1. /\ record[j] \in Record /\ record[j].attempts <= record[j].maxRetries /\ InHand(s)
        /\ runs[j] <= record[j].maxRetries + 1 /\ record[j] # None
        /\ record[j].attempts \in Nat /\ record[j].maxRetries \in Nat
    BY <1>1, <1>4, HandFacts
  <2>2. CASE r = record[j]
    BY <1>1, <2>1, <2>2 DEF InHand
  <2>3. ASSUME NEW st \in {"pending", "running", "done", "failed"}, r = HSet(j, st),
               slot[s].pc # "bury"
        PROVE  <1>4!2
    BY <1>1, <2>1, <2>3, HSetKeeps
  <2>4. CASE r = NextAttempt(c) /\ slot[s].pc = "save"
    <3>1. /\ c \in Record /\ c.attempts = record[j].attempts
          /\ c.maxRetries = record[j].maxRetries /\ c.maxRetries <= RetryCeiling
          /\ record[j].attempts < record[j].maxRetries
      BY <1>1, <2>1, <2>4 DEF InHand, TypeOK
    <3>2. r \in Record
      BY <2>4, <3>1, NextAttemptType
    <3>3. r.attempts = c.attempts + 1 /\ r.maxRetries = c.maxRetries
      BY <2>4, <3>1 DEF NextAttempt, Record
    <3>4. QED BY <2>1, <2>4, <3>1, <3>2, <3>3
  <2>5. OutcomeOf(s) \in {"pending", "failed"}
    BY DEF OutcomeOf
  <2>6. QED BY <1>3, <2>2, <2>3, <2>4, <2>5
<1>5. CASE slot[s].pc = "finish"
  <2>1. PICK n : n = runs[j]
    OBVIOUS
  <2>2. PICK x : x = [slot[s] EXCEPT !.pc = "caught"]
    OBVIOUS
  <2>3. /\ x.job = j /\ x.pc = "caught" /\ x.copy = c
        /\ slot' = [slot EXCEPT ![s] = x] /\ lost' = lost /\ dlq' = dlq
    BY <1>1, <1>5, <2>2 DEF SlotState, CallFails, Advance
  <2>4. runs' = [runs EXCEPT ![j] = n]
    BY <1>2, <2>1 DEF TypeOK
  <2>5. ASSUME j \notin expired PROVE InHand(s)'
    <3>1. slot'[s] = x /\ record'[j] = r /\ runs'[j] = n
      BY <1>1, <1>3, <2>3, <2>4 DEF TypeOK
    <3>2. QED BY <1>4, <1>5, <2>1, <2>3, <2>5, <3>1 DEF InHand
  <2>6. UNCHANGED <<list, dlq, timers, fresh, submitting, lost, expired>>
    BY <1>2, <2>3
  <2>7. Step(j) /\ InSlot' = InSlot
    BY <1>1, <1>3, <1>4, <2>1, <2>3, <2>4, <2>5, <2>6, Keeps
  <2>8. QED BY <2>3, <2>7
<1>6. CASE slot[s].pc # "finish"
  <2>1. Leave(s) /\ lost' = lost \cup {j}
    BY <1>6 DEF CallFails, Drop
  <2>2. slot' = [slot EXCEPT ![s] = IdleSlot]
    BY <2>1 DEF Leave
  <2>3. dlq' = dlq \/ (DlqAdds(j) /\ slot[s].pc = "bury")
    <3>1. \/ dlq' = dlq
          \/ dlq' = KeepNewest(Append(dlq, j)) /\ slot[s].pc = "bury"
      BY DEF CallFails
    <3>2. dlq \in Seq(Jobs)
      BY DEF TypeOK
    <3>3. QED BY <1>1, <3>1, <3>2, BuryAdds
  <2>4. ASSUME j \notin expired, Buried(j)'
        PROVE  r.status = "failed" /\ runs[j] = r.maxRetries + 1
    <3>1. ~Buried(j)
      BY <1>1, SlotFacts
    <3>2. slot[s].pc = "bury"
      BY <2>3, <2>4, <3>1 DEF Buried
    <3>3. QED BY <1>4, <2>4, <3>2
  <2>5. Step(j) /\ InSlot' = InSlot \ {j}
    BY <1>1, <1>2, <1>3, <1>4, <2>1, <2>2, <2>3, <2>4, Leaves
  <2>6. QED BY <2>1, <2>5
<1>7. QED BY <1>5, <1>6

-----------------------------------------------------------------------------
(* The steps that carry a job from one place to another *)

\* A job in one of the places is known and accounted for.
LEMMA HeldFacts ==
  ASSUME TypeOK, Delivery, Life, NEW j \in Held
  PROVE  /\ j \in Jobs /\ j \notin fresh /\ j \notin lost /\ ~Buried(j) /\ JobOK(j)
         /\ j \notin expired => record[j] \in Record /\ Ledger(j)
         /\ j \in submitting \cup InTimer => record[j] \in Record
<1>1. j \in Jobs
  BY DEF Held, TypeOK, Listed, InSlot, InTimer
<1>2. j \notin fresh
  BY DEF Delivery, FreshNowhere
<1>3. QED BY <1>1, <1>2 DEF Life, JobOK, Ledger

\* What carries j among the waiting places, or drops it, and changes no hash.
LEMMA Carries ==
  ASSUME TypeOK, Delivery, Life, NEW j \in submitting \cup Listed \cup InTimer,
         \A k \in Jobs \ {j} : /\ k \in submitting' <=> k \in submitting
                               /\ k \in Listed' <=> k \in Listed
                               /\ k \in InTimer' <=> k \in InTimer
                               /\ k \in lost' <=> k \in lost,
         UNCHANGED <<record, dlq, fresh, slot, runs, expired>>,
         j \in lost' => j \notin (submitting \cup Listed \cup InTimer)',
         j \in lost' \/ j \in Listed', j \notin (submitting \cup InTimer)'
  PROVE  Step(j)
<1>1. /\ j \in Jobs /\ j \notin fresh /\ ~Buried(j) /\ JobOK(j) /\ j \notin InSlot
      /\ j \notin expired => Ledger(j)
  BY HeldFacts DEF Held, Delivery, NoDoubleDelivery, PlacesDisjoint
<1>2. InSlot' = InSlot /\ \A k : Buried(k)' <=> Buried(k)
  BY SamePlaces DEF Buried
<1>3. Others(j)
  BY <1>2 DEF Others, Alone
<1>4. \A s \in Slots : ~(Busy(s)' /\ slot'[s].job = j)
  BY <1>1 DEF InSlot, Busy
<1>5. \A s \in Slots : Burying(s)' => Busy(s)'
  BY DEF Burying
<1>6. j \notin expired' => Ledger(j)'
  BY <1>1 DEF Ledger
<1>7. j \notin fresh' /\ ~Buried(j)' /\ (j \in lost' => j \notin Held')
  BY <1>1, <1>2 DEF Held
<1>8. j \in Held' \/ j \in lost'
  BY DEF Held
<1>9. JobOK(j)'
  BY <1>4, <1>5, <1>6, <1>7, <1>8 DEF JobOK
<1>10. \A k \in Jobs \ {j} : JobOK(k)'
  BY <1>3, AloneOK DEF Others, Life
<1>11. QED BY <1>3, <1>9, <1>10 DEF Step

LEMMA EnlistStep ==
  ASSUME TypeOK, Delivery, Life, NEW j \in Jobs,
         Enlist(j) \/ \E w \in Workers : FireTimer(w, j)
  PROVE  Step(j) /\ j \in Listed' /\ j \in submitting \cup InTimer /\ lost' = lost
<1>1. /\ j \in submitting \cup InTimer /\ Push(j)
      /\ UNCHANGED <<record, dlq, fresh, slot, runs, expired, lost>>
  BY DEF Enlist, FireTimer, InTimer, workerVars, ghostVars
<1>2. j \in Held /\ j \notin lost /\ record[j] \in Record
  BY <1>1, HeldFacts DEF Held
<1>3. /\ ~(j \in submitting /\ j \in InTimer)
      /\ OneTimerEach /\ list \in [Priorities -> Seq(Jobs)]
      /\ timers \in [Workers -> SUBSET Jobs]
  BY DEF Delivery, NoDoubleDelivery, PlacesDisjoint, TypeOK
<1>4. Listed' = Listed \cup {j}
  BY <1>1, <1>2, <1>3, PushListed
<1>5. \/ submitting' = submitting \ {j} /\ InTimer' = InTimer
      \/ InTimer' = InTimer \ {j} /\ submitting' = submitting
  BY <1>3, ClearTimer, SamePlaces DEF Enlist, FireTimer, workerVars
<1>6. j \notin (submitting \cup InTimer)'
  <2>1. \/ j \in submitting /\ submitting' = submitting \ {j} /\ InTimer' = InTimer
        \/ j \in InTimer /\ InTimer' = InTimer \ {j} /\ submitting' = submitting
    BY <1>3, ClearTimer, SamePlaces DEF Enlist, FireTimer, workerVars
  <2>2. QED BY <1>3, <2>1
<1>7. Step(j)
  BY <1>1, <1>2, <1>4, <1>5, <1>6, Carries
<1>8. QED BY <1>1, <1>4, <1>7

\* An RPUSH or a BLPOP that fails loses the job it was about.
LEMMA LoseStep ==
  ASSUME TypeOK, Delivery, Life, NEW j \in Jobs,
         \/ EnlistFails(j)
         \/ \E w \in Workers : \/ TimerFails(w, j)
                               \/ PopFails(w) /\ list' # list /\ j = Head(list[scan[w]])
  PROVE  Step(j) /\ j \in Held /\ lost' = lost \cup {j}
<1> USE DEF Delivery, NoDoubleDelivery
<1>1. UNCHANGED <<record, dlq, fresh, slot, runs, expired>> /\ lost' = lost \cup {j}
  BY DEF EnlistFails, TimerFails, PopFails, workerVars, redisVars
<1>2. PlacesDisjoint /\ OneTimerEach /\ ListedOnce /\ list \in [Priorities -> Seq(Jobs)]
      /\ timers \in [Workers -> SUBSET Jobs]
  BY DEF TypeOK
<1>3. CASE EnlistFails(j)
  <2>1. j \in submitting /\ submitting' = submitting \ {j} /\ Listed' = Listed /\ InTimer' = InTimer
    BY <1>3, SamePlaces DEF EnlistFails, workerVars, redisVars
  <2>2. j \notin (submitting \cup Listed \cup InTimer)'
    BY <1>2, <2>1 DEF PlacesDisjoint
  <2>3. Step(j)
    BY <1>1, <2>1, <2>2, Carries
  <2>4. QED BY <1>1, <2>1, <2>3 DEF Held
<1>4. ASSUME NEW w \in Workers, TimerFails(w, j) PROVE Step(j) /\ j \in Held
  <2>1. UNCHANGED <<list, submitting>> /\ j \in timers[w] /\ timers' = [timers EXCEPT ![w] = @ \ {j}]
    BY <1>4 DEF TimerFails, redisVars
  <2>2. j \in InTimer /\ InTimer' = InTimer \ {j} /\ submitting' = submitting /\ Listed' = Listed
    BY <1>2, <2>1, ClearTimer, SamePlaces
  <2>3. j \notin (submitting \cup Listed \cup InTimer)'
    BY <1>2, <2>2 DEF PlacesDisjoint
  <2>4. Step(j)
    BY <1>1, <2>2, <2>3, Carries
  <2>5. QED BY <1>1, <2>2, <2>4 DEF Held
<1>5. ASSUME NEW w \in Workers, PopFails(w), list' # list, j = Head(list[scan[w]])
      PROVE  Step(j) /\ j \in Held
  <2>1. /\ scan[w] \in Priorities /\ list[scan[w]] # <<>> /\ RemoveHead(scan[w])
        /\ UNCHANGED <<timers, submitting>>
    BY <1>5 DEF PopFails
  <2>2. j \in Listed /\ Listed' = Listed \ {j} /\ submitting' = submitting /\ InTimer' = InTimer
    BY <1>2, <1>5, <2>1, PopListed, SamePlaces
  <2>3. j \notin (submitting \cup Listed \cup InTimer)'
    BY <1>2, <2>2 DEF PlacesDisjoint
  <2>4. Step(j)
    BY <1>1, <2>2, <2>3, Carries
  <2>5. QED BY <1>1, <2>2, <2>4 DEF Held
<1>6. QED BY <1>1, <1>3, <1>4, <1>5

LEMMA PopStep ==
  ASSUME TypeOK, Delivery, Life, NEW w \in Workers, NEW s \in Slots, NEW j, 
         Pop(w, s), j = Head(list[scan[w]])
  PROVE  Step(j) /\ j \in Listed /\ j \notin Listed' /\ j \in InSlot' /\ lost' = lost
<1>1. /\ scan[w] \in Priorities /\ list[scan[w]] # <<>> /\ RemoveHead(scan[w]) /\ ~Busy(s)
      /\ UNCHANGED <<record, dlq, fresh, submitting, timers, runs, expired, lost>>
  BY DEF Pop, ghostVars
<1>2. j \in Listed /\ Listed' = Listed \ {j}
  BY <1>1, PopListed DEF TypeOK, Delivery, NoDoubleDelivery
<1>3. /\ j \in Jobs /\ j \notin fresh /\ j \notin lost /\ ~Buried(j) /\ JobOK(j)
      /\ j \notin expired => Ledger(j)
  BY <1>2, HeldFacts DEF Held
<1>4. j \notin submitting \cup InSlot \cup InTimer
  BY <1>2 DEF Delivery, NoDoubleDelivery, PlacesDisjoint
<1>5. PICK x : x = [pc |-> "read", job |-> j, copy |-> None]
  OBVIOUS
<1>6. slot' = [slot EXCEPT ![s] = x] /\ x.job = j /\ x.pc = "read"
  BY <1>5 DEF Pop
<1>7. \A t \in Slots : slot'[t] = IF t = s THEN x ELSE slot[t]
  BY <1>6 DEF TypeOK
<1>8. InSlot' = InSlot \cup {j}
  <2>1. x.pc # "idle"
    BY <1>6
  <2>2. QED BY <1>1, <1>6, <2>1, FillSlot DEF TypeOK
<1>9. InTimer' = InTimer /\ \A k : Buried(k)' <=> Buried(k)
  BY <1>1, SamePlaces DEF Buried
<1>10. Others(j)
  BY <1>1, <1>2, <1>6, <1>7, <1>8, <1>9 DEF Others, Alone, Busy
<1>11. JobOK(j)'
  <2>1. \A t \in Slots : Busy(t)' /\ slot'[t].job = j => t = s
    BY <1>4, <1>7 DEF Busy, InSlot
  <2>2. \A t \in Slots : Burying(t)' => Busy(t)'
    BY DEF Burying
  <2>3. ~Burying(s)' /\ slot'[s] = x
    BY <1>6, <1>7 DEF Burying
  <2>4. /\ j \notin fresh' /\ j \notin lost' /\ ~Buried(j)' /\ j \in Held'
        /\ j \notin (submitting \cup Listed \cup InTimer)'
    BY <1>1, <1>2, <1>3, <1>4, <1>8, <1>9 DEF Held
  <2>5. j \notin expired' => Ledger(j)' /\ InHand(s)'
    BY <1>1, <1>2, <1>3, <1>6, <2>3, <2>4 DEF Ledger, InHand
  <2>6. QED BY <2>1, <2>2, <2>3, <2>4, <2>5 DEF JobOK
<1>12. \A k \in Jobs \ {j} : JobOK(k)'
  BY <1>10, AloneOK DEF Others, Life
<1>13. QED BY <1>1, <1>2, <1>8, <1>10, <1>11, <1>12 DEF Step

LEMMA SubmitStep ==
  ASSUME TypeOK, Delivery, Life, NEW j \in Jobs,
         \/ \E p \in EnqueuePriorities, n \in RequestedRetries : Submit(j, p, n)
         \/ \E o \in Jobs : Replay(o, j)
  PROVE  /\ Step(j) /\ j \in fresh /\ j \notin fresh' /\ j \in submitting' /\ lost' = lost
         /\ j \notin lost \cup expired /\ expired' = expired
         /\ record'[j] \in Record /\ record'[j].attempts = 0
<1>1. PICK r \in Record : /\ record' = [record EXCEPT ![j] = r] /\ r.attempts = 0
  <2>1. ASSUME NEW p \in EnqueuePriorities, NEW n \in RequestedRetries, Submit(j, p, n)
        PROVE  \E r \in Record : record' = [record EXCEPT ![j] = r] /\ r.attempts = 0
    BY <2>1, NewRecordType DEF Submit, NewRecord
  <2>2. ASSUME NEW o \in Jobs, Replay(o, j)
        PROVE  \E r \in Record : record' = [record EXCEPT ![j] = r] /\ r.attempts = 0
    <3>1. record[o] \in Record
      BY <2>2 DEF TypeOK, Replay
    <3>2. PICK r : r = [record[o] EXCEPT !.status = "pending", !.attempts = 0]
      OBVIOUS
    <3>3. r \in Record /\ r.attempts = 0
      BY <3>1, <3>2 DEF Record
    <3>4. QED BY <2>2, <3>2, <3>3 DEF Replay
  <2>3. QED BY <2>1, <2>2
<1>2. /\ j \in fresh /\ fresh' = fresh \ {j} /\ submitting' = submitting \cup {j}
      /\ UNCHANGED <<list, dlq, slot, timers, runs, lost, expired>>
  BY DEF Submit, Replay, workerVars, ghostVars
<1>3. /\ runs[j] = 0 /\ j \notin lost \cup expired /\ ~Buried(j)
      /\ j \notin submitting \cup Listed \cup InSlot \cup InTimer
  BY <1>2 DEF Life, JobOK, Delivery, FreshNowhere, Held
<1>4. UNCHANGED <<Listed, InSlot, InTimer>> /\ \A k : Buried(k)' <=> Buried(k)
  BY <1>2, SamePlaces DEF Buried
<1>5. \A k \in Jobs : record'[k] = IF k = j THEN r ELSE record[k]
  BY <1>1 DEF TypeOK
<1>6. Others(j)
  BY <1>2, <1>4, <1>5 DEF Others, Alone
<1>7. JobOK(j)'
  <2>1. \A t \in Slots : ~(Busy(t)' /\ slot'[t].job = j)
    BY <1>2, <1>3 DEF Busy, InSlot
  <2>2. \A t \in Slots : Burying(t)' => Busy(t)'
    BY DEF Burying
  <2>3. j \notin fresh' /\ j \notin lost' /\ ~Buried(j)' /\ j \in Held' /\ record'[j] = r
    BY <1>2, <1>3, <1>4, <1>5 DEF Held
  <2>4. Ledger(j)'
    <3>1. r.maxRetries \in Nat /\ runs'[j] = 0
      BY <1>2, <1>3 DEF Record
    <3>2. QED BY <1>1, <2>3, <3>1 DEF Ledger
  <2>5. QED BY <2>1, <2>2, <2>3, <2>4 DEF JobOK
<1>8. \A k \in Jobs \ {j} : JobOK(k)'
  BY <1>6, AloneOK DEF Others, Life
<1>9. QED BY <1>1, <1>2, <1>3, <1>5, <1>6, <1>7, <1>8 DEF Step

LEMMA ExpireStep ==
  ASSUME TypeOK, Delivery, Life, NEW j \in Jobs, Expire(j)
  PROVE  /\ Step(j) /\ j \notin fresh /\ record'[j] = None
         /\ expired' = expired \cup {j} /\ lost' = lost
         /\ j \notin expired \cup submitting \cup InTimer
         /\ UNCHANGED <<Listed, InSlot, InTimer>>
<1>1. /\ record[j] # None /\ j \notin expired \cup submitting \cup InTimer
      /\ expired' = expired \cup {j}
      /\ record' = [record EXCEPT ![j] = None]
      /\ UNCHANGED <<list, dlq, fresh, submitting, slot, timers, runs, lost>>
  BY DEF Expire, workerVars
<1>2. UNCHANGED <<Listed, InSlot, InTimer, Held>> /\ \A k : Buried(k)' <=> Buried(k)
  BY <1>1, SamePlaces DEF Buried, Held
<1>3. \A k \in Jobs : record'[k] = IF k = j THEN None ELSE record[k]
  BY <1>1 DEF TypeOK
<1>4. JobOK(j) /\ j \notin fresh
  BY <1>1 DEF Life, JobOK
<1>5. Others(j)
  BY <1>1, <1>2, <1>3 DEF Others, Alone
<1>6. JobOK(j)'
  BY <1>1, <1>2, <1>3, <1>4 DEF JobOK
<1>7. \A k \in Jobs \ {j} : JobOK(k)'
  BY <1>5, AloneOK DEF Others, Life
<1>8. QED BY <1>1, <1>2, <1>3, <1>4, <1>5, <1>6, <1>7 DEF Step

\* A step of the loop, or a stop(), concerns no job.
LEMMA QuietStep ==
  ASSUME Life, UNCHANGED <<record, list, dlq, fresh, submitting, slot, timers, runs, lost, expired>>
  PROVE  \A k \in Jobs : Alone(k) /\ JobOK(k)'
<1>1. \A k \in Jobs : Alone(k)
  BY SamePlaces DEF Alone, Buried
<1>2. QED BY <1>1, AloneOK DEF Life

\* A crash drops what the worker was processing and what waited in its timers.
LEMMA CrashStep ==
  ASSUME TypeOK, Delivery, Life, NEW w \in Workers, Crash(w),
         NEW S, S = timers[w] \cup {slot[s].job : s \in Active(w)}
  PROVE  /\ S \subseteq Held /\ lost' = lost \cup S /\ expired' = expired /\ fresh' = fresh
         /\ \A k \in S : k \notin Held'
         /\ \A k \in Jobs \ S : Alone(k)
         /\ \A k \in Jobs : JobOK(k)'
<1> USE DEF Delivery, NoDoubleDelivery
<1>1. /\ lost' = lost \cup S
      /\ timers' = [timers EXCEPT ![w] = {}]
      /\ UNCHANGED <<record, list, dlq, fresh, submitting, runs, expired>>
  BY DEF Crash, redisVars
<1>2. \A t \in Slots : slot'[t] = IF Home[t] = w THEN IdleSlot ELSE slot[t]
  BY DEF Crash
<1>3. \A t \in Slots : Busy(t)' => Busy(t) /\ Home[t] # w /\ slot'[t] = slot[t]
  BY <1>2 DEF Busy, IdleSlot
<1>4. \A t \in Slots : Busy(t) /\ slot[t].job \notin S => Busy(t)' /\ slot'[t] = slot[t]
  BY <1>2 DEF Active, SlotsOf, Busy
<1>5. \A v \in Workers : timers'[v] = IF v = w THEN {} ELSE timers[v]
  BY <1>1 DEF TypeOK
<1>6. S \subseteq InSlot \cup InTimer
  BY DEF Active, SlotsOf, InSlot, InTimer
<1>7. ASSUME NEW k \in S PROVE k \notin InSlot' /\ k \notin InTimer'
  <2>1. CASE k \in timers[w]
    <3>1. k \in InTimer /\ k \notin InSlot
      BY <2>1 DEF InTimer, PlacesDisjoint
    <3>2. \A v \in Workers : k \in timers[v] => v = w
      BY <2>1 DEF OneTimerEach
    <3>3. QED BY <1>3, <1>5, <3>1, <3>2 DEF InSlot, InTimer
  <2>2. CASE \E s \in Active(w) : slot[s].job = k
    <3>1. PICK s \in Slots : Busy(s) /\ Home[s] = w /\ slot[s].job = k
      BY <2>2 DEF Active, SlotsOf
    <3>2. k \in InSlot /\ k \notin InTimer
      BY <3>1 DEF InSlot, PlacesDisjoint
    <3>3. \A t \in Slots : Busy(t) /\ slot[t].job = k => t = s
      BY <3>1 DEF OneSlotEach
    <3>4. QED BY <1>3, <1>5, <3>1, <3>2, <3>3 DEF InSlot, InTimer
  <2>3. QED BY <2>1, <2>2
<1>8. Listed' = Listed /\ \A k : Buried(k)' <=> Buried(k)
  BY <1>1, SamePlaces DEF Buried
<1>9. ASSUME NEW k \in S PROVE k \notin Held' /\ k \in Held
  BY <1>1, <1>6, <1>7, <1>8 DEF Held, PlacesDisjoint
<1>10. ASSUME NEW k \in Jobs \ S PROVE Alone(k)
  <2>1. k \in InSlot' <=> k \in InSlot
    BY <1>3, <1>4 DEF InSlot
  <2>2. k \in InTimer' <=> k \in InTimer
    BY <1>5 DEF InTimer
  <2>3. \A s \in Slots : Busy(s)' /\ slot'[s].job = k => slot'[s] = slot[s]
    BY <1>3
  <2>4. QED BY <1>1, <1>8, <2>1, <2>2, <2>3 DEF Alone
<1>11. ASSUME NEW k \in S PROVE JobOK(k)'
  <2>1. /\ k \in Jobs /\ k \notin fresh /\ ~Buried(k) /\ k \notin lost
        /\ k \notin expired => Ledger(k)
    BY <1>9, HeldFacts
  <2>2. k \notin Held' /\ k \in lost'
    BY <1>1, <1>9
  <2>3. \A t \in Slots : ~(Busy(t)' /\ slot'[t].job = k)
    BY <1>7 DEF InSlot, Busy
  <2>4. \A t \in Slots : Burying(t)' => Busy(t)'
    BY DEF Burying
  <2>5. k \notin expired' => Ledger(k)'
    BY <1>1, <2>1, <2>2 DEF Ledger, Held
  <2>6. k \notin fresh' /\ ~Buried(k)' /\ k \notin (submitting \cup InTimer)'
    BY <1>1, <1>8, <2>1, <2>2 DEF Held
  <2>7. QED BY <2>2, <2>3, <2>4, <2>5, <2>6 DEF JobOK
<1>12. \A k \in Jobs \ S : JobOK(k)'
  BY <1>10, AloneOK DEF Life
<1>13. QED BY <1>1, <1>9, <1>10, <1>11, <1>12

-----------------------------------------------------------------------------
(* Retry budget, and nothing dropped *)

LEMMA InitLife == Init => Life
BY DEF Init, Life, JobOK, Ledger, Burying, Busy, IdleSlot, Buried, Held, Listed, InSlot,
       InTimer

LEMMA ProcessLife ==
  ASSUME TypeOK, Delivery, Life, NEW s \in Slots, Process(s) \/ CallFails(s)
  PROVE  \A k \in Jobs : JobOK(k)'
<1>1. PICK j : j = slot[s].job
  OBVIOUS
<1>2. Step(j)
  BY <1>1, ReadStep, MarkRunningStep, SettleStep, DoneStep, HandleFailureStep,
     RequeueStep, BuryStep, CallFailsStep DEF Process
<1>3. QED BY <1>2 DEF Step

LEMMA JobsLife ==
  ASSUME TypeOK, Delivery, Life, Next
  PROVE  \A k \in Jobs : JobOK(k)'
<1>1. ASSUME NEW j \in Jobs, Caller(j) \/ EnlistFails(j) \/ Expire(j)
      PROVE  \A k \in Jobs : JobOK(k)'
  <2>1. Enlist(j) \/ EnlistFails(j) => Step(j)
    BY EnlistStep, LoseStep
  <2>2. (\E p \in EnqueuePriorities, n \in RequestedRetries : Submit(j, p, n))
          \/ (\E o \in Jobs : Replay(o, j)) \/ Expire(j) => Step(j)
    BY SubmitStep, ExpireStep
  <2>3. QED BY <1>1, <2>1, <2>2 DEF Caller, Step
<1>2. ASSUME NEW w \in Workers, Loop(w) \/ Stop(w) \/ PopFails(w) \/ Crash(w)
      PROVE  \A k \in Jobs : JobOK(k)'
  <2>1. ASSUME NEW s \in Slots, Pop(w, s) PROVE \A k \in Jobs : JobOK(k)'
    <3>1. PICK j : j = Head(list[scan[w]])
      OBVIOUS
    <3>2. QED BY <2>1, <3>1, PopStep DEF Step
  <2>2. ASSUME BeginScan(w) \/ Miss(w) \/ Stop(w) PROVE \A k \in Jobs : JobOK(k)'
    BY <2>2, QuietStep DEF BeginScan, Miss, Stop, redisVars, ghostVars
  <2>3. ASSUME Crash(w) PROVE \A k \in Jobs : JobOK(k)'
    <3>1. PICK S : S = timers[w] \cup {slot[s].job : s \in Active(w)}
      OBVIOUS
    <3>2. QED BY <2>3, <3>1, CrashStep
  <2>4. ASSUME PopFails(w) PROVE \A k \in Jobs : JobOK(k)'
    <3>1. CASE list' = list
      <4>1. lost' = lost
        <5>1. ASSUME scan[w] \in Priorities, list[scan[w]] # <<>>, RemoveHead(scan[w])
              PROVE  FALSE
          <6>1. list \in [Priorities -> Seq(Jobs)] /\ ListedOnce
            BY DEF TypeOK, Delivery, NoDoubleDelivery
          <6>2. Head(list[scan[w]]) \in Listed /\ Listed' = Listed \ {Head(list[scan[w]])}
            BY <5>1, <6>1, PopListed
          <6>3. QED BY <3>1, <6>2, SamePlaces
        <5>2. QED BY <2>4, <5>1 DEF PopFails
      <4>2. QED BY <2>4, <3>1, <4>1, QuietStep DEF PopFails
    <3>2. CASE list' # list
      <4>1. PICK j : j = Head(list[scan[w]])
        OBVIOUS
      <4>2. j \in Jobs
        BY <2>4, <3>2, <4>1 DEF PopFails, TypeOK
      <4>3. QED BY <2>4, <3>2, <4>1, <4>2, LoseStep DEF Step
    <3>3. QED BY <3>1, <3>2
  <2>5. QED BY <1>2, <2>1, <2>2, <2>3, <2>4 DEF Loop
<1>3. ASSUME NEW w \in Workers, NEW j \in Jobs, FireTimer(w, j) \/ TimerFails(w, j)
      PROVE  \A k \in Jobs : JobOK(k)'
  BY <1>3, EnlistStep, LoseStep DEF Step
<1>4. QED BY <1>1, <1>2, <1>3, ProcessLife DEF Next, Failure

\* Only a failed call, a crash or the expiry of a hash takes a job away.
LEMMA LostStep ==
  ASSUME TypeOK, Delivery, Life, Next
  PROVE  lost' # {} => failures' > 0 \/ expired' # {}
<1>1. (lost # {} => failures > 0 \/ expired # {}) /\ failures \in Nat
  BY DEF Life, TypeOK
<1>2. ASSUME Fails PROVE failures' > 0
  BY <1>1, <1>2 DEF Fails
<1>3. ASSUME NEW j \in Jobs, Caller(j) \/ EnlistFails(j) \/ Expire(j)
      PROVE  UNCHANGED <<lost, failures, expired>> \/ Fails \/ expired' # {}
  BY <1>3 DEF Caller, Submit, Replay, Enlist, EnlistFails, Expire, ghostVars
<1>4. ASSUME NEW w \in Workers, Loop(w) \/ Stop(w) \/ PopFails(w) \/ Crash(w)
                 \/ \E j \in Jobs : FireTimer(w, j) \/ TimerFails(w, j)
      PROVE  UNCHANGED <<lost, failures, expired>> \/ Fails
  BY <1>4 DEF Loop, BeginScan, Miss, Pop, Stop, PopFails, Crash, FireTimer, TimerFails, ghostVars
<1>5. ASSUME NEW s \in Slots, Process(s) \/ CallFails(s)
      PROVE  UNCHANGED <<lost, failures, expired>> \/ Fails \/ expired' # {}
  <2>1. CASE CallFails(s)
    BY <2>1 DEF CallFails
  <2>2. CASE GetJob(s) \/ ReadForRequeue(s)
    <3>1. expired' = expired /\ failures' = failures /\ Busy(s)
      BY <2>2 DEF GetJob, ReadForRequeue, Busy
    <3>2. CASE record[slot[s].job] = None
      BY <3>1, <3>2, HandFacts
    <3>3. CASE record[slot[s].job] # None
      BY <2>2, <3>1, <3>3 DEF GetJob, ReadForRequeue
    <3>4. QED BY <3>2, <3>3
  <2>3. CASE MarkRunning(s) \/ HandlerSettles(s) \/ MarkDone(s) \/ HandleFailure(s)
             \/ SaveRequeued(s) \/ MoveToDlq(s)
    BY <2>3 DEF MarkRunning, HandlerSettles, MarkDone, HandleFailure, SaveRequeued, MoveToDlq,
                ghostVars
  <2>4. QED BY <1>5, <2>1, <2>2, <2>3 DEF Process
<1>6. UNCHANGED <<lost, failures, expired>> \/ Fails \/ expired' # {}
  BY <1>3, <1>4, <1>5 DEF Next, Failure
<1>7. QED BY <1>1, <1>2, <1>6

LEMMA NextLife == TypeOK /\ Delivery /\ Life /\ [Next]_vars => Life'
<1>1. ASSUME TypeOK, Delivery, Life, Next PROVE Life'
  BY <1>1, JobsLife, LostStep DEF Life
<1>2. ASSUME Life, UNCHANGED vars PROVE Life'
  <2>1. \A k \in Jobs : JobOK(k)'
    BY <1>2, QuietStep DEF vars
  <2>2. QED BY <1>2, <2>1 DEF Life, vars
<1>3. QED BY <1>1, <1>2

LEMMA AlwaysSound == Spec => []Sound
<1>1. Init => Sound
  BY InitType, InitDelivery, InitLife DEF Sound
<1>2. Sound /\ [Next]_vars => Sound'
  BY NextType, NextDelivery, NextLife DEF Sound
<1>3. QED BY <1>1, <1>2, PTL DEF Spec

\* The handler runs at most maxRetries + 1 times for a job whose hash has not
\* expired, and a job in the DLQ used every attempt and is nowhere else: the count
\* requeueJob saves, the copy processJob compares and the calls made agree through
\* every failed call, crash and replay.
THEOREM BudgetKept == Spec => []RetryBudget
<1>1. Sound => RetryBudget
  <2>1. SUFFICES ASSUME TypeOK, Life PROVE RetryBudget
    BY DEF Sound
  <2>2. ASSUME NEW i \in DOMAIN dlq
        PROVE  /\ dlq[i] \notin Held
               /\ dlq[i] \notin expired => /\ record[dlq[i]].status = "failed"
                                          /\ runs[dlq[i]] = record[dlq[i]].maxRetries + 1
    <3>1. dlq[i] \in Jobs /\ Buried(dlq[i])
      BY <2>1 DEF TypeOK, Buried
    <3>2. JobOK(dlq[i])
      BY <2>1, <3>1 DEF Life
    <3>3. QED BY <3>1, <3>2 DEF JobOK
  <2>3. QED BY <2>1, <2>2 DEF RetryBudget, Life, JobOK, Ledger
<1>2. QED BY <1>1, AlwaysSound, PTL

\* A job disappears only by a failure: every other job that has left its places is
\* done, or failed and in the DLQ (or was pushed out of a full one).
THEOREM NoneDropped == Spec => []NothingDropped
<1>1. Sound => NothingDropped
  BY DEF Sound, Life, NothingDropped, JobOK, Ended
<1>2. QED BY <1>1, AlwaysSound, PTL

-----------------------------------------------------------------------------
(* The queue implements JobLifecycle *)

phaseOf == [j \in Jobs |-> Phase(j)]
leftOf == [j \in Jobs |-> RetriesLeftFor(j)]

\* Each place is a phase of its own.
PhaseOfPlace ==
  \A j \in Jobs :
    /\ j \in fresh => Phase(j) = "absent"
    /\ j \in submitting => Phase(j) = "accepted"
    /\ j \in Listed => Phase(j) = "queued"
    /\ j \in InSlot => Phase(j) = "active"
    /\ j \in InTimer => Phase(j) = "backoff"
    /\ j \notin fresh \cup Held =>
         Phase(j) = IF j \in lost THEN "lost"
                    ELSE IF record[j] = None THEN "gone" ELSE record[j].status

LEMMA PhasePlaces == Delivery /\ Life => PhaseOfPlace
<1>1. SUFFICES ASSUME Delivery, Life, NEW j \in Jobs PROVE PhaseOfPlace!(j)
  BY DEF PhaseOfPlace
<1>2. /\ j \in fresh => j \notin Held
      /\ j \in submitting => j \notin Listed \cup InSlot \cup InTimer
      /\ j \in Listed => j \notin InSlot \cup InTimer
      /\ j \in InSlot => j \notin InTimer
      /\ j \in Held <=> j \in submitting \cup Listed \cup InSlot \cup InTimer
  BY <1>1 DEF Delivery, NoDoubleDelivery, PlacesDisjoint, FreshNowhere, Held
<1>3. CASE j \in fresh
  <2>1. /\ j \notin submitting /\ j \notin Listed /\ j \notin InSlot /\ j \notin InTimer
        /\ j \notin lost
    BY <1>1, <1>2, <1>3 DEF Life, JobOK
  <2>2. Phase(j) = "absent"
    BY <1>3, <2>1 DEF Phase
  <2>3. QED BY <1>3, <2>1, <2>2
<1>4. CASE j \notin fresh /\ j \in Held
  BY <1>2, <1>4 DEF Phase
<1>5. CASE j \notin fresh \cup Held
  <2>1. /\ j \notin fresh /\ j \notin submitting /\ j \notin Listed /\ j \notin InSlot /\ j \notin InTimer
        /\ j \in lost \ Held <=> j \in lost
    BY <1>2, <1>5
  <2>2. Phase(j) = IF j \in lost THEN "lost" ELSE IF record[j] = None THEN "gone" ELSE record[j].status
    BY <2>1 DEF Phase
  <2>3. QED BY <1>5, <2>1, <2>2
<1>6. QED BY <1>3, <1>4, <1>5

LEMMA NextPhasePlaces == Delivery' /\ Life' => PhaseOfPlace'
BY PhasePlaces, PTL

LEMMA AlonePhase ==
  ASSUME NEW k \in Jobs, Alone(k)
  PROVE  Phase(k)' = Phase(k) /\ RetriesLeftFor(k)' = RetriesLeftFor(k)
<1>1. k \in Held' <=> k \in Held
  BY DEF Alone, Held
<1>2. QED BY <1>1 DEF Alone, Phase, RetriesLeftFor

\* Seen from JobLifecycle, a step about j changes the phase and the retries of j.
LEMMA StepMoves ==
  ASSUME NEW j \in Jobs, Others(j)
  PROVE  /\ phaseOf' = [phaseOf EXCEPT ![j] = Phase(j)']
         /\ leftOf' = [leftOf EXCEPT ![j] = RetriesLeftFor(j)']
         /\ phaseOf[j] = Phase(j) /\ leftOf[j] = RetriesLeftFor(j)
BY AlonePhase DEF Others, phaseOf, leftOf

LEMMA InitLifecycle == Init => Lifecycle!Init
<1>1. SUFFICES ASSUME Init PROVE Lifecycle!Init
  OBVIOUS
<1>2. \A j \in Jobs : Phase(j) = "absent" /\ RetriesLeftFor(j) = 0
  <2>1. fresh = Jobs
    BY <1>1 DEF Init
  <2>2. QED
    BY <1>1, <2>1, InitDelivery, InitLife, PhasePlaces DEF PhaseOfPlace, RetriesLeftFor
<1>3. expired = {}
  BY <1>1 DEF Init
<1>4. QED BY <1>2, <1>3 DEF Lifecycle!Init

LEMMA SubmitRefines ==
  ASSUME Sound, Sound', NEW j \in Jobs,
         \/ \E p \in EnqueuePriorities, n \in RequestedRetries : Submit(j, p, n)
         \/ \E o \in Jobs : Replay(o, j)
  PROVE  Lifecycle!Accept(j)
<1> USE DEF Sound
<1>1. /\ Step(j) /\ j \in fresh /\ j \notin fresh' /\ j \in submitting' /\ lost' = lost
      /\ j \notin lost \cup expired /\ expired' = expired
      /\ record'[j] \in Record /\ record'[j].attempts = 0
  BY SubmitStep
<1>2. Phase(j) = "absent" /\ Phase(j)' = "accepted"
  BY <1>1, PhasePlaces, NextPhasePlaces DEF PhaseOfPlace
<1>3. RetriesLeftFor(j)' \in Nat
  BY <1>1 DEF RetriesLeftFor, Record
<1>4. /\ phaseOf' = [phaseOf EXCEPT ![j] = "accepted"] /\ phaseOf[j] = "absent"
      /\ leftOf' = [leftOf EXCEPT ![j] = RetriesLeftFor(j)']
  BY <1>1, <1>2, StepMoves DEF Step
<1>5. leftOf'[j] = RetriesLeftFor(j)'
  BY DEF leftOf
<1>6. QED
  BY <1>1, <1>3, <1>4, <1>5 DEF Lifecycle!Accept, Lifecycle!Move, phaseOf, leftOf

LEMMA EnlistRefines ==
  ASSUME Sound, Sound', NEW j \in Jobs, Enlist(j) \/ \E w \in Workers : FireTimer(w, j)
  PROVE  Lifecycle!Queue(j)
<1> USE DEF Sound
<1>1. /\ Step(j) /\ j \in Listed' /\ j \in submitting \cup InTimer
      /\ UNCHANGED <<record, fresh, lost, expired>>
  BY EnlistStep DEF Enlist, FireTimer, workerVars, ghostVars
<1>2. Phase(j) \in {"accepted", "backoff"} /\ Phase(j)' = "queued"
  BY <1>1, PhasePlaces, NextPhasePlaces DEF PhaseOfPlace
<1>3. RetriesLeftFor(j)' = RetriesLeftFor(j)
  BY <1>1 DEF RetriesLeftFor
<1>4. phaseOf' = [phaseOf EXCEPT ![j] = "queued"] /\ leftOf' = leftOf
  BY <1>1, <1>2, <1>3, StepMoves DEF Step, leftOf
<1>5. QED
  BY <1>1, <1>2, <1>4 DEF Lifecycle!Queue, Lifecycle!Move, phaseOf, leftOf

LEMMA PopRefines ==
  ASSUME Sound, Sound', NEW w \in Workers, NEW s \in Slots, NEW j \in Jobs,
         Pop(w, s), j = Head(list[scan[w]])
  PROVE  Lifecycle!Start(j)
<1> USE DEF Sound
<1>1. /\ Step(j) /\ j \in Listed /\ j \in InSlot'
      /\ UNCHANGED <<record, fresh, lost, expired>>
  BY PopStep DEF Pop, ghostVars
<1>2. Phase(j) = "queued" /\ Phase(j)' = "active"
  BY <1>1, PhasePlaces, NextPhasePlaces DEF PhaseOfPlace
<1>3. RetriesLeftFor(j)' = RetriesLeftFor(j)
  BY <1>1 DEF RetriesLeftFor
<1>4. phaseOf' = [phaseOf EXCEPT ![j] = "active"] /\ leftOf' = leftOf
  BY <1>1, <1>2, <1>3, StepMoves DEF Step, leftOf
<1>5. QED
  BY <1>1, <1>2, <1>4 DEF Lifecycle!Start, Lifecycle!Move, phaseOf, leftOf

\* A job that was on its way and is dropped.
LEMMA LoseRefines ==
  ASSUME Sound, Sound', NEW S \in SUBSET Held, lost' = lost \cup S,
         \A k \in Jobs \ S : Alone(k), \A k \in S : k \notin Held' \cup fresh',
         expired' = expired
  PROVE  Lifecycle!Lose(S) /\ S \in SUBSET Jobs
<1> USE DEF Sound
<1>1. S \subseteq Jobs
  BY HeldFacts
<1>2. ASSUME NEW k \in S
      PROVE  /\ Phase(k) \in Lifecycle!OnItsWay /\ Phase(k)' = "lost"
             /\ RetriesLeftFor(k)' = 0
  <2>1. Phase(k) \in Lifecycle!OnItsWay
    BY <1>1, PhasePlaces DEF PhaseOfPlace, Held, Lifecycle!OnItsWay
  <2>2. Phase(k)' = "lost"
    BY <1>1, NextPhasePlaces DEF PhaseOfPlace
  <2>3. QED BY <2>1, <2>2 DEF RetriesLeftFor
<1>3. \A k \in Jobs \ S : Phase(k)' = Phase(k) /\ RetriesLeftFor(k)' = RetriesLeftFor(k)
  BY AlonePhase
<1>4. /\ phaseOf' = [k \in Jobs |-> IF k \in S THEN "lost" ELSE phaseOf[k]]
      /\ leftOf' = [k \in Jobs |-> IF k \in S THEN 0 ELSE leftOf[k]]
  BY <1>2, <1>3 DEF phaseOf, leftOf
<1>5. \A k \in S : phaseOf[k] \in Lifecycle!OnItsWay
  BY <1>1, <1>2 DEF phaseOf
<1>6. QED
  BY <1>1, <1>4, <1>5 DEF Lifecycle!Lose, phaseOf, leftOf

LEMMA LoseOneRefines ==
  ASSUME Sound, Sound', NEW j \in Held, Step(j), lost' = lost \cup {j},
         fresh' = fresh, expired' = expired
  PROVE  Lifecycle!Next
<1> USE DEF Sound
<1>1. {j} \in SUBSET Held /\ \A k \in Jobs \ {j} : Alone(k)
  BY DEF Step, Others
<1>2. j \in Jobs /\ j \notin fresh'
  BY HeldFacts
<1>3. j \notin Held'
  BY <1>2 DEF Life, JobOK
<1>4. Lifecycle!Lose({j}) /\ {j} \in SUBSET Jobs
  BY <1>1, <1>2, <1>3, LoseRefines
<1>5. QED BY <1>4 DEF Lifecycle!Next

LEMMA ExpireRefines ==
  ASSUME Sound, Sound', NEW j \in Jobs, Expire(j)
  PROVE  Lifecycle!Forget(j)
<1> USE DEF Sound
<1>1. /\ Step(j) /\ j \notin fresh /\ record'[j] = None
      /\ expired' = expired \cup {j} /\ lost' = lost
      /\ j \notin expired \cup submitting \cup InTimer
      /\ UNCHANGED <<Listed, InSlot, InTimer, submitting, fresh>>
  BY ExpireStep DEF Expire
<1>2. RetriesLeftFor(j)' = 0 /\ (j \in Held' <=> j \in Held) /\ j \notin fresh'
  BY <1>1 DEF RetriesLeftFor, Held
<1>3. Phase(j)' = IF Phase(j) \in {"done", "failed"} THEN "gone" ELSE Phase(j)
  <2>1. CASE j \in Held
    <3>1. j \in Listed \cup InSlot
      BY <1>1, <2>1 DEF Held
    <3>2. Phase(j)' = Phase(j) /\ Phase(j) \in {"queued", "active"}
      BY <1>1, <3>1, PhasePlaces, NextPhasePlaces DEF PhaseOfPlace
    <3>3. QED BY <3>2
  <2>2. CASE j \in lost
    <3>1. j \notin Held /\ j \notin Held' /\ j \in lost'
      BY <1>1, <1>2, <2>2 DEF Life, JobOK
    <3>2. Phase(j)' = "lost" /\ Phase(j) = "lost"
      BY <1>1, <1>2, <2>2, <3>1, PhasePlaces, NextPhasePlaces DEF PhaseOfPlace
    <3>3. QED BY <3>2
  <2>3. CASE j \notin Held \cup lost
    <3>1. record[j] \in Record /\ Ended(j)
      BY <1>1, <2>3 DEF Life, JobOK, Ledger
    <3>2. Phase(j) \in {"done", "failed"}
      BY <1>1, <2>3, <3>1, PhasePlaces, NoneIsNoHash DEF PhaseOfPlace, Ended
    <3>3. Phase(j)' = "gone"
      BY <1>1, <1>2, <2>3, NextPhasePlaces DEF PhaseOfPlace
    <3>4. QED BY <3>2, <3>3
  <2>4. QED BY <2>1, <2>2, <2>3
<1>4. /\ phaseOf' = [phaseOf EXCEPT ![j] = IF @ \in {"done", "failed"} THEN "gone" ELSE @]
      /\ leftOf' = [leftOf EXCEPT ![j] = 0]
  <2>1. /\ phaseOf' = [phaseOf EXCEPT ![j] = Phase(j)'] /\ phaseOf[j] = Phase(j)
        /\ leftOf' = [leftOf EXCEPT ![j] = RetriesLeftFor(j)']
    BY <1>1, StepMoves DEF Step
  <2>2. QED BY <1>2, <1>3, <2>1
<1>5. QED BY <1>1, <1>4 DEF Lifecycle!Forget, phaseOf, leftOf

\* What processJob does between reading a job and letting go of it is invisible.
LEMMA KeepRefines ==
  ASSUME Sound, Sound', NEW s \in Slots, Busy(s), NEW j, j = slot[s].job, Step(j),
         InSlot' = InSlot, UNCHANGED <<lost, expired, fresh>>,
         \/ record' = record
         \/ \E st \in {"pending", "running", "done", "failed"} :
              record' = [record EXCEPT ![j] = HSet(j, st)]
  PROVE  UNCHANGED <<phaseOf, leftOf, expired>>
<1> USE DEF Sound
<1>1. j \in InSlot /\ j \in InSlot' /\ j \in Jobs
  BY SlotFacts
<1>2. Phase(j) = "active" /\ Phase(j)' = "active"
  BY <1>1, PhasePlaces, NextPhasePlaces DEF PhaseOfPlace
<1>3. RetriesLeftFor(j)' = RetriesLeftFor(j)
  <2>1. CASE j \in expired
    BY <2>1 DEF RetriesLeftFor
  <2>2. CASE j \notin expired
    <3>1. record[j] \in Record
      BY <2>2, HandFacts
    <3>2. record'[j].attempts = record[j].attempts /\ record'[j].maxRetries = record[j].maxRetries
      BY <1>1, <3>1, HSetKeeps DEF TypeOK
    <3>3. QED BY <3>2 DEF RetriesLeftFor
  <2>3. QED BY <2>1, <2>2
<1>4. /\ phaseOf' = [phaseOf EXCEPT ![j] = "active"] /\ phaseOf[j] = "active"
      /\ leftOf' = [leftOf EXCEPT ![j] = RetriesLeftFor(j)] /\ leftOf[j] = RetriesLeftFor(j)
  BY <1>1, <1>2, <1>3, StepMoves DEF Step
<1>5. QED BY <1>4 DEF phaseOf, leftOf

LEMMA DoneRefines ==
  ASSUME Sound, Sound', NEW s \in Slots, NEW j, j = slot[s].job, MarkDone(s)
  PROVE  Lifecycle!Complete(j) /\ j \in Jobs
<1> USE DEF Sound
<1>1. /\ Step(j) /\ InSlot' = InSlot \ {j}
      /\ record'[j] # None /\ record'[j].status = "done"
      /\ UNCHANGED <<lost, fresh, list, timers, submitting, expired>>
  BY DoneStep DEF MarkDone, ghostVars
<1>2. /\ j \in Jobs /\ j \in InSlot
      /\ j \notin fresh \cup submitting \cup Listed \cup InTimer \cup lost
      /\ j \notin expired => record[j] \in Record
  BY SlotFacts, HandFacts DEF MarkDone, Busy
<1>3. j \notin fresh' \cup Held' \cup lost'
  BY <1>1, <1>2, SamePlaces DEF Held
<1>4. Phase(j) = "active" /\ Phase(j)' = "done"
  BY <1>1, <1>2, <1>3, PhasePlaces, NextPhasePlaces DEF PhaseOfPlace
<1>5. RetriesLeftFor(j)' = RetriesLeftFor(j)
  <2>1. j \notin expired => /\ record'[j].attempts = record[j].attempts
                            /\ record'[j].maxRetries = record[j].maxRetries
    BY <1>2, HSetKeeps DEF MarkDone, TypeOK
  <2>2. QED BY <1>1, <2>1 DEF RetriesLeftFor
<1>6. /\ phaseOf' = [phaseOf EXCEPT ![j] = "done"] /\ phaseOf[j] = "active" /\ leftOf' = leftOf
  BY <1>1, <1>2, <1>4, <1>5, StepMoves DEF Step, leftOf
<1>7. QED
  BY <1>1, <1>2, <1>6 DEF Lifecycle!Complete, Lifecycle!Move, phaseOf, leftOf

LEMMA BuryRefines ==
  ASSUME Sound, Sound', NEW s \in Slots, NEW j, j = slot[s].job, MoveToDlq(s)
  PROVE  Lifecycle!GiveUp(j) /\ j \in Jobs
<1> USE DEF Sound
<1>1. /\ Step(j) /\ InSlot' = InSlot \ {j} /\ record' = record
      /\ record[j] = None \/ record[j].status = "failed"
      /\ record[j] = None => j \in expired
      /\ UNCHANGED <<lost, fresh, list, timers, submitting, expired>>
  BY BuryStep DEF MoveToDlq, ghostVars
<1>2. /\ j \in Jobs /\ j \in InSlot /\ Busy(s)
      /\ j \notin fresh \cup submitting \cup Listed \cup InTimer \cup lost
  BY SlotFacts DEF MoveToDlq, Busy
<1>3. j \notin fresh' \cup Held' \cup lost'
  BY <1>1, <1>2, SamePlaces DEF Held
<1>4. /\ Phase(j) = "active"
      /\ \/ Phase(j)' = "failed"
         \/ Phase(j)' = "gone" /\ j \in expired
  BY <1>1, <1>2, <1>3, PhasePlaces, NextPhasePlaces DEF PhaseOfPlace
<1>5. RetriesLeftFor(j)' = RetriesLeftFor(j) /\ (RetriesLeftFor(j) = 0 \/ j \in expired)
  <2>1. j \notin expired => /\ record[j].attempts = record[j].maxRetries
                            /\ record[j].attempts \in Nat
    BY <1>2, HandFacts DEF InHand, MoveToDlq
  <2>2. QED BY <1>1, <2>1 DEF RetriesLeftFor
<1>6. /\ phaseOf' = [phaseOf EXCEPT ![j] = Phase(j)'] /\ phaseOf[j] = "active"
      /\ leftOf' = leftOf /\ (leftOf[j] = 0 \/ j \in expired)
  BY <1>1, <1>2, <1>4, <1>5, StepMoves DEF Step, leftOf
<1>7. QED
  BY <1>1, <1>2, <1>4, <1>6 DEF Lifecycle!GiveUp, Lifecycle!Move, phaseOf, leftOf

LEMMA RequeueRefines ==
  ASSUME Sound, Sound', NEW s \in Slots, NEW j, j = slot[s].job, SaveRequeued(s)
  PROVE  Lifecycle!Retry(j) /\ j \in Jobs
<1> USE DEF Sound
<1>1. /\ Step(j) /\ InTimer' = InTimer \cup {j}
      /\ j \notin expired =>
              /\ record[j].attempts < record[j].maxRetries
              /\ record'[j].attempts = record[j].attempts + 1
              /\ record'[j].maxRetries = record[j].maxRetries
      /\ UNCHANGED <<lost, fresh, expired>>
  BY RequeueStep DEF SaveRequeued, ghostVars
<1>2. /\ j \in Jobs /\ j \in InSlot /\ Busy(s) /\ j \notin fresh \cup lost
      /\ j \notin expired => record[j].attempts \in Nat /\ record[j].maxRetries \in Nat
  BY SlotFacts, HandFacts DEF SaveRequeued, Busy
<1>3. Phase(j) = "active" /\ Phase(j)' = "backoff"
  BY <1>1, <1>2, PhasePlaces, NextPhasePlaces DEF PhaseOfPlace
<1>4. \/ RetriesLeftFor(j) > 0 /\ RetriesLeftFor(j)' = RetriesLeftFor(j) - 1
      \/ j \in expired /\ RetriesLeftFor(j)' = RetriesLeftFor(j)
  BY <1>1, <1>2 DEF RetriesLeftFor
<1>5. /\ phaseOf' = [phaseOf EXCEPT ![j] = "backoff"] /\ phaseOf[j] = "active"
      /\ leftOf' = [leftOf EXCEPT ![j] = RetriesLeftFor(j)']
      /\ leftOf[j] = RetriesLeftFor(j)
  BY <1>1, <1>2, <1>3, StepMoves DEF Step
<1>6. \/ leftOf[j] > 0 /\ leftOf' = [leftOf EXCEPT ![j] = @ - 1]
      \/ j \in expired /\ leftOf' = leftOf
  BY <1>4, <1>5 DEF leftOf
<1>7. Lifecycle!Move(j, {"active"}, "backoff")
  BY <1>5 DEF Lifecycle!Move, phaseOf
<1>8. CASE leftOf[j] > 0 /\ leftOf' = [leftOf EXCEPT ![j] = @ - 1]
  BY <1>1, <1>2, <1>7, <1>8 DEF Lifecycle!Retry, leftOf
<1>9. CASE j \in expired /\ leftOf' = leftOf
  BY <1>1, <1>2, <1>7, <1>9 DEF Lifecycle!Retry, leftOf
<1>10. QED BY <1>6, <1>8, <1>9

LEMMA ProcessRefines ==
  ASSUME Sound, Sound', NEW s \in Slots, Process(s) \/ CallFails(s)
  PROVE  Lifecycle!Next \/ UNCHANGED <<phaseOf, leftOf, expired>>
<1> USE DEF Sound
<1>1. PICK j : j = slot[s].job
  OBVIOUS
<1>2. Busy(s) /\ j \in Held /\ j \notin lost
  BY <1>1, SlotFacts DEF Process, CallFails, GetJob, MarkRunning, HandlerSettles, MarkDone,
       HandleFailure, ReadForRequeue, SaveRequeued, MoveToDlq, Busy, Awaiting, Held
<1>3. ASSUME UNCHANGED <<fresh, expired>>, Step(j), lost' = lost \cup {j}
      PROVE  Lifecycle!Next
  BY <1>2, <1>3, LoseOneRefines
<1>4. CASE GetJob(s) \/ ReadForRequeue(s)
  <2>1. /\ Step(j) /\ ((InSlot' = InSlot /\ lost' = lost) \/ lost' = lost \cup {j})
        /\ UNCHANGED <<record, fresh, expired>>
    BY <1>1, <1>4, ReadStep DEF GetJob, ReadForRequeue, redisVars
  <2>2. QED BY <1>1, <1>2, <1>3, <2>1, KeepRefines
<1>5. CASE MarkRunning(s)
  BY <1>1, <1>2, <1>5, MarkRunningStep, KeepRefines DEF MarkRunning
<1>6. CASE HandlerSettles(s)
  BY <1>1, <1>2, <1>6, SettleStep, KeepRefines DEF HandlerSettles, redisVars, ghostVars
<1>7. CASE HandleFailure(s)
  <2>1. OutcomeOf(s) \in {"pending", "running", "done", "failed"}
    BY DEF OutcomeOf
  <2>2. QED
    BY <1>1, <1>2, <1>7, <2>1, HandleFailureStep, KeepRefines DEF HandleFailure, ghostVars
<1>8. CASE MarkDone(s) \/ SaveRequeued(s) \/ MoveToDlq(s)
  BY <1>1, <1>8, DoneRefines, RequeueRefines, BuryRefines DEF Lifecycle!Next
<1>9. CASE CallFails(s)
  <2>1. /\ Step(j) /\ UNCHANGED <<fresh, expired>>
        /\ \/ InSlot' = InSlot /\ lost' = lost
           \/ lost' = lost \cup {j}
    BY <1>1, <1>9, CallFailsStep DEF CallFails
  <2>2. CASE lost' = lost
    <3>1. slot[s].pc = "finish"
      BY <1>1, <1>2, <1>9, <2>2 DEF CallFails, Drop
    <3>2. \/ record' = [record EXCEPT ![j] = record[j]]
          \/ record' = [record EXCEPT ![j] = HSet(j, "done")]
      BY <1>1, <1>9, <3>1 DEF CallFails
    <3>3. \/ record' = record
          \/ record' = [record EXCEPT ![j] = HSet(j, "done")]
      BY <3>2 DEF TypeOK
    <3>4. InSlot' = InSlot
      BY <1>2, <2>1, <2>2
    <3>5. QED BY <1>1, <1>2, <2>1, <2>2, <3>3, <3>4, KeepRefines
  <2>3. QED BY <1>3, <2>1, <2>2
<1>10. QED BY <1>4, <1>5, <1>6, <1>7, <1>8, <1>9 DEF Process

LEMMA NextRefines ==
  ASSUME Sound, Sound', [Next]_vars
  PROVE  Lifecycle!Next \/ UNCHANGED <<phaseOf, leftOf, expired>>
<1> USE DEF Sound
<1>1. ASSUME NEW j \in Jobs, Caller(j) \/ EnlistFails(j) \/ Expire(j)
      PROVE  Lifecycle!Next
  <2>1. CASE Caller(j)
    BY <2>1, SubmitRefines, EnlistRefines DEF Caller, Lifecycle!Next
  <2>2. CASE EnlistFails(j)
    BY <2>2, LoseStep, LoseOneRefines DEF EnlistFails, redisVars, workerVars
  <2>3. CASE Expire(j)
    BY <2>3, ExpireRefines DEF Lifecycle!Next
  <2>4. QED BY <1>1, <2>1, <2>2, <2>3
<1>2. ASSUME UNCHANGED <<record, list, dlq, fresh, submitting, slot, timers, runs, lost, expired>>
      PROVE  UNCHANGED <<phaseOf, leftOf, expired>>
  BY <1>2, QuietStep, AlonePhase DEF phaseOf, leftOf
<1>3. ASSUME NEW w \in Workers, Loop(w) \/ Stop(w)
      PROVE  Lifecycle!Next \/ UNCHANGED <<phaseOf, leftOf, expired>>
  <2>1. CASE BeginScan(w) \/ Miss(w) \/ Stop(w)
    BY <1>2, <2>1 DEF BeginScan, Miss, Stop, redisVars, ghostVars
  <2>2. ASSUME NEW s \in Slots, Pop(w, s) PROVE Lifecycle!Next
    <3>1. PICK j : j = Head(list[scan[w]])
      OBVIOUS
    <3>2. j \in Jobs
      BY <2>2, <3>1 DEF Pop, TypeOK
    <3>3. QED BY <2>2, <3>1, <3>2, PopRefines DEF Lifecycle!Next
  <2>3. QED BY <1>3, <2>1, <2>2 DEF Loop
<1>4. ASSUME NEW w \in Workers, PopFails(w) \/ Crash(w)
      PROVE  Lifecycle!Next \/ UNCHANGED <<phaseOf, leftOf, expired>>
  <2>1. CASE PopFails(w) /\ lost' = lost /\ list' = list
    BY <1>2, <2>1 DEF PopFails
  <2>2. CASE PopFails(w) /\ ~(lost' = lost /\ list' = list)
    <3>1. PICK j : j = Head(list[scan[w]])
      OBVIOUS
    <3>2. /\ scan[w] \in Priorities /\ list[scan[w]] # <<>> /\ RemoveHead(scan[w])
          /\ lost' = lost \cup {j} /\ UNCHANGED <<fresh, expired>>
      BY <2>2, <3>1 DEF PopFails
    <3>3. j \in Listed /\ Listed' = Listed \ {j} /\ j \in Jobs
      BY <3>1, <3>2, PopListed DEF TypeOK, Delivery, NoDoubleDelivery
    <3>4. list' # list
      BY <3>3, SamePlaces
    <3>5. Step(j) /\ j \in Held
      BY <2>2, <3>1, <3>3, <3>4, LoseStep
    <3>6. QED BY <3>2, <3>5, LoseOneRefines
  <2>3. CASE Crash(w)
    <3>1. PICK S : S = timers[w] \cup {slot[s].job : s \in Active(w)}
      OBVIOUS
    <3>2. /\ S \subseteq Held /\ lost' = lost \cup S /\ expired' = expired /\ fresh' = fresh
          /\ \A k \in S : k \notin Held'
          /\ \A k \in Jobs \ S : Alone(k)
      BY <2>3, <3>1, CrashStep
    <3>3. \A k \in S : k \notin Held' \cup fresh'
      BY <3>2, HeldFacts
    <3>4. QED BY <3>2, <3>3, LoseRefines DEF Lifecycle!Next
  <2>4. QED BY <1>4, <2>1, <2>2, <2>3
<1>5. ASSUME NEW w \in Workers, NEW j \in Jobs, FireTimer(w, j) \/ TimerFails(w, j)
      PROVE  Lifecycle!Next
  <2>1. CASE FireTimer(w, j)
    BY <2>1, EnlistRefines DEF Lifecycle!Next
  <2>2. CASE TimerFails(w, j)
    BY <2>2, LoseStep, LoseOneRefines DEF TimerFails, redisVars
  <2>3. QED BY <1>5, <2>1, <2>2
<1>6. CASE UNCHANGED vars
  BY <1>2, <1>6 DEF vars
<1>7. QED BY <1>1, <1>3, <1>4, <1>5, <1>6, ProcessRefines DEF Next, Failure

\* The queue implements JobLifecycle: whatever the lists, hashes, timers, slots and
\* failures do, a job is accepted once, tried by one worker at a time, goes back to
\* the queue only with a retry left, and ends done, failed after its last retry, or
\* lost to a failure.
THEOREM QueueImplementsLifecycle == Spec => ImplementsLifecycle
<1>1. Sound /\ Sound' /\ [Next]_vars => [Lifecycle!Next]_(Lifecycle!vars)
  BY NextRefines DEF Lifecycle!vars, phaseOf, leftOf
<1>2. QED
  BY <1>1, InitLifecycle, AlwaysSound, PTL DEF Spec, ImplementsLifecycle, Lifecycle!Spec
=============================================================================
