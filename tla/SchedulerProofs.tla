--------------------------- MODULE SchedulerProofs ---------------------------
(***************************************************************************)
(* Theorems about Scheduler for every number of server instances, entries, *)
(* lapses of the lock and failures: its type invariant, how far the lock   *)
(* keeps ticks apart, that a cancel outlasts every later tick, and how     *)
(* often an entry is enqueued.                                             *)
(***************************************************************************)
EXTENDS Scheduler, FiniteSetTheorems, TLAPS

-----------------------------------------------------------------------------
(* Type correctness *)

LEMMA InitType == Init => TypeOK
BY ConstantsOK DEF Init, TypeOK

LEMMA GiveUpType ==
  ASSUME TypeOK, NEW i \in Instances, GiveUp(i)
  PROVE  /\ pc' \in [Instances -> {"idle", "read", "handle", "enqueue", "release"}]
         /\ batch' \in [Instances -> SUBSET Entries]
         /\ current' \in [Instances -> Entries \cup {None}]
         /\ \A k \in Instances :
              /\ batch'[k] # {} => pc'[k] \in {"handle", "enqueue"}
              /\ current'[k] # None <=> pc'[k] = "enqueue"
              /\ pc'[k] = "handle" => batch'[k] # {}
BY DEF TypeOK, GiveUp, Goto

LEMMA NextInBatchType ==
  ASSUME TypeOK, NEW i \in Instances, pc[i] = "enqueue", NextInBatch(i)
  PROVE  /\ pc' \in [Instances -> {"idle", "read", "handle", "enqueue", "release"}]
         /\ batch' \in [Instances -> SUBSET Entries]
         /\ current' \in [Instances -> Entries \cup {None}]
         /\ \A k \in Instances :
              /\ batch'[k] # {} => pc'[k] \in {"handle", "enqueue"}
              /\ current'[k] # None <=> pc'[k] = "enqueue"
              /\ pc'[k] = "handle" => batch'[k] # {}
BY DEF TypeOK, NextInBatch, Goto

LEMMA TickType ==
  ASSUME TypeOK, NEW i \in Instances, Tick(i)
  PROVE  TypeOK'
<1>1. ASSUME Acquire(i) PROVE TypeOK'
  BY <1>1 DEF TypeOK, Acquire, TakeFreeLock, Goto, ghostVars
<1>2. ASSUME ReadDue(i) PROVE TypeOK'
  BY <1>2 DEF TypeOK, ReadDue, Readable, DueNow, Goto, ghostVars
<1>3. ASSUME NEW m \in Entries, Reschedule(i, m) PROVE TypeOK'
  BY <1>3, ConstantsOK DEF TypeOK, Reschedule, NextRun, Put, Goto
<1>4. ASSUME Fire(i) PROVE TypeOK'
  <2>1. current[i] \in Entries
    BY <1>4 DEF TypeOK, Fire
  <2>2. fired' \in [Entries -> Nat]
    <3>1. fired[current[i]] + 1 \in Nat
      BY <2>1 DEF TypeOK
    <3>2. fired' = [fired EXCEPT ![current[i]] = fired[current[i]] + 1]
      BY <1>4 DEF Fire
    <3>3. QED BY <2>1, <3>1, <3>2 DEF TypeOK
  <2>3. QED BY <1>4, <2>2, NextInBatchType DEF TypeOK, Fire
<1>5. ASSUME Release(i) PROVE TypeOK'
  BY <1>5 DEF TypeOK, Release, Goto, ghostVars
<1>6. QED BY <1>1, <1>2, <1>3, <1>4, <1>5 DEF Tick

LEMMA TickFailsType ==
  ASSUME TypeOK, NEW i \in Instances, TickFails(i)
  PROVE  TypeOK'
<1>1. ASSUME AcquireFails(i) PROVE TypeOK'
  BY <1>1 DEF TypeOK, AcquireFails, Fails, tickVars
<1>2. ASSUME ReadFails(i) PROVE TypeOK'
  BY <1>2, GiveUpType DEF TypeOK, ReadFails, Fails
<1>3. ASSUME NEW m \in Entries, RescheduleFails(i, m) PROVE TypeOK'
  <2>1. /\ entry' \in [Entries -> {"absent", "waiting", "due"}]
        /\ disturbed' \subseteq Entries /\ gone' \subseteq Entries
    BY <1>3 DEF TypeOK, RescheduleFails, NextRun, Put
  <2>2. QED BY <1>3, <2>1, GiveUpType DEF TypeOK, RescheduleFails, Fails
<1>4. ASSUME FireFails(i) PROVE TypeOK'
  <2>1. current[i] \in Entries
    BY <1>4 DEF TypeOK, FireFails
  <2>2. fired' \in [Entries -> Nat] /\ disturbed' \subseteq Entries
    <3>1. fired[current[i]] + 1 \in Nat
      BY <2>1 DEF TypeOK
    <3>2. fired' \in {fired, [fired EXCEPT ![current[i]] = fired[current[i]] + 1]}
      BY <1>4 DEF FireFails
    <3>3. fired' \in [Entries -> Nat]
      BY <2>1, <3>1, <3>2 DEF TypeOK
    <3>4. QED BY <1>4, <2>1, <3>3 DEF TypeOK, FireFails
  <2>3. failures' \in Nat
    BY <1>4 DEF TypeOK, FireFails, Fails
  <2>4. QED BY <1>4, <2>2, <2>3, NextInBatchType DEF TypeOK, FireFails
<1>5. ASSUME ReleaseFails(i) PROVE TypeOK'
  BY <1>5 DEF TypeOK, ReleaseFails, Fails, Goto
<1>6. QED BY <1>1, <1>2, <1>3, <1>4, <1>5 DEF TickFails

LEMMA OtherType ==
  ASSUME TypeOK,
         \/ \E i \in Instances : Stop(i) \/ Crash(i)
         \/ \E m \in Entries : Caller(m) \/ BecomesDue(m)
         \/ AbandonedLockExpires \/ LockLapses
  PROVE  TypeOK'
<1>1. ASSUME NEW i \in Instances, Stop(i) PROVE TypeOK'
  BY <1>1 DEF TypeOK, Stop, tickVars, ghostVars
<1>2. ASSUME NEW i \in Instances, Crash(i) PROVE TypeOK'
  BY <1>2 DEF TypeOK, Crash, Fails, Goto
<1>3. ASSUME NEW m \in Entries, Schedule(m) PROVE TypeOK'
  BY <1>3 DEF TypeOK, Schedule, Put, tickVars
<1>4. ASSUME NEW m \in Entries, CancelRemoves(m) PROVE TypeOK'
  BY <1>4 DEF TypeOK, CancelRemoves, RemoveEntry, Put, tickVars
<1>5. ASSUME NEW m \in Entries, NEW n \in Names, CancelFinds(n, m) PROVE TypeOK'
  BY <1>5 DEF TypeOK, CancelFinds, tickVars, ghostVars
<1>6. ASSUME NEW m \in Entries, BecomesDue(m) PROVE TypeOK'
  BY <1>6 DEF TypeOK, BecomesDue, Put, tickVars
<1>7. ASSUME AbandonedLockExpires PROVE TypeOK'
  BY <1>7 DEF TypeOK, AbandonedLockExpires, Expires, tickVars, ghostVars
<1>8. ASSUME LockLapses PROVE TypeOK'
  BY <1>8 DEF TypeOK, LockLapses, tickVars
<1>9. QED BY <1>1, <1>2, <1>3, <1>4, <1>5, <1>6, <1>7, <1>8 DEF Caller

LEMMA NextType == TypeOK /\ [Next]_vars => TypeOK'
<1>1. TypeOK /\ Next => TypeOK'
  BY TickType, TickFailsType, OtherType DEF Next
<1>2. TypeOK /\ UNCHANGED vars => TypeOK'
  BY DEF TypeOK, vars
<1>3. QED BY <1>1, <1>2

\* Every variable keeps its type, and a tick holds a batch and an entry exactly
\* at the calls that use them.
THEOREM TypeCorrect == Spec => []TypeOK
BY InitType, NextType, PTL DEF Spec

-----------------------------------------------------------------------------
(* What the lock guarantees *)

LEMMA InsideFinite == IsFiniteSet(Inside) /\ IsFiniteSet(Inside \ {lock})
BY FS_Subset, ConstantsOK DEF Inside

\* A step that lets nobody new in beside the holder.
LEMMA Shrinks ==
  ASSUME TypeOK, OneScheduler, lapses' = lapses,
         Inside' \ {lock'} \subseteq Inside \ {lock}
  PROVE  OneScheduler'
<1>1. /\ IsFiniteSet(Inside' \ {lock'})
      /\ Cardinality(Inside' \ {lock'}) <= Cardinality(Inside \ {lock})
  BY InsideFinite, FS_Subset
<1>2. Cardinality(Inside' \ {lock'}) \in Nat /\ Cardinality(Inside \ {lock}) \in Nat
  BY <1>1, InsideFinite, FS_CardinalityType
<1>3. QED BY <1>1, <1>2 DEF OneScheduler, TypeOK

\* The DEL that ends a tick may remove the lock of another instance, but then
\* one instance has left and one has lost its lock.
LEMMA ReleaseCounts ==
  ASSUME TypeOK, OneScheduler, NEW i \in Inside, Inside' = Inside \ {i},
         lock' = None, lapses' = lapses
  PROVE  OneScheduler'
<1>1. None \notin Inside
  BY ConstantsOK DEF Inside
<1>2. Inside' \ {lock'} = Inside \ {i}
  BY <1>1
<1>3. Cardinality(Inside \ {i}) = Cardinality(Inside) - 1
  BY InsideFinite, FS_RemoveElement
<1>4. \/ Cardinality(Inside \ {lock}) = Cardinality(Inside)
      \/ Cardinality(Inside \ {lock}) = Cardinality(Inside) - 1
  BY InsideFinite, FS_RemoveElement
<1>5. Cardinality(Inside) \in Nat
  BY InsideFinite, FS_CardinalityType
<1>6. Cardinality(Inside' \ {lock'}) = Cardinality(Inside \ {i})
  BY <1>2, Zenon
<1>7. Cardinality(Inside \ {i}) <= Cardinality(Inside \ {lock})
  BY <1>3, <1>4, <1>5
<1>8. Cardinality(Inside \ {i}) <= lapses
  BY <1>3, <1>4, <1>5, <1>7 DEF OneScheduler, TypeOK
<1>9. QED BY <1>6, <1>8 DEF OneScheduler

LEMMA LapseCounts ==
  ASSUME TypeOK, OneScheduler, LockLapses
  PROVE  OneScheduler'
<1>1. None \notin Inside /\ lock \in Inside
  BY ConstantsOK DEF Inside, LockLapses
<1>2. Inside' \ {lock'} = Inside
  BY <1>1 DEF LockLapses, Inside, tickVars
<1>3. Cardinality(Inside \ {lock}) = Cardinality(Inside) - 1
  BY <1>1, InsideFinite, FS_RemoveElement
<1>4. Cardinality(Inside) \in Nat /\ lapses \in Nat /\ lapses' = lapses + 1
  BY InsideFinite, FS_CardinalityType DEF TypeOK, LockLapses
<1>5. Cardinality(Inside' \ {lock'}) = Cardinality(Inside)
  BY <1>2, Zenon
<1>6. Cardinality(Inside) <= lapses + 1
  BY <1>3, <1>4 DEF OneScheduler
<1>7. QED BY <1>4, <1>5, <1>6 DEF OneScheduler

LEMMA TickLock ==
  ASSUME TypeOK, OneScheduler, NEW i \in Instances, Tick(i) \/ TickFails(i)
  PROVE  OneScheduler'
<1> USE DEF Goto
<1>0. None \notin Inside
  BY ConstantsOK DEF Inside
<1>1. CASE Acquire(i)
  <2>1. Inside' \ {lock'} \subseteq Inside \ {lock}
    BY <1>0, <1>1 DEF Acquire, TakeFreeLock, Inside, TypeOK
  <2>2. QED BY <1>1, <2>1, Shrinks DEF Acquire, ghostVars
<1>2. CASE AcquireFails(i)
  <2>1. Inside' \ {lock'} \subseteq Inside \ {lock}
    BY <1>0, <1>2 DEF AcquireFails, Inside, tickVars
  <2>2. QED BY <1>2, <2>1, Shrinks DEF AcquireFails
<1>3. CASE \/ ReadDue(i) \/ ReadFails(i) \/ Fire(i) \/ FireFails(i)
           \/ \E m \in Entries : Reschedule(i, m) \/ RescheduleFails(i, m)
  <2>1. pc[i] # "idle" /\ pc'[i] # "idle" /\ \A k \in Instances \ {i} : pc'[k] = pc[k]
    BY <1>3 DEF ReadDue, ReadFails, Fire, FireFails, Reschedule, RescheduleFails,
                GiveUp, NextInBatch, TypeOK
  <2>2. Inside' = Inside
    BY <2>1 DEF Inside
  <2>3. UNCHANGED <<lock, lapses>>
    BY <1>3 DEF ReadDue, ReadFails, Fire, FireFails, Reschedule, RescheduleFails, ghostVars
  <2>4. QED BY <2>2, <2>3, Shrinks
<1>4. CASE Release(i)
  <2>1. i \in Inside /\ Inside' = Inside \ {i}
    BY <1>4 DEF Release, Inside, TypeOK
  <2>2. QED BY <1>4, <2>1, ReleaseCounts DEF Release, ghostVars
<1>5. CASE ReleaseFails(i)
  <2>1. i \in Inside /\ Inside' = Inside \ {i} /\ lapses' = lapses
    BY <1>5 DEF ReleaseFails, Inside, TypeOK
  <2>2. CASE lock' = None
    BY <2>1, <2>2, ReleaseCounts
  <2>3. CASE lock' = lock
    BY <2>1, <2>3, Shrinks
  <2>4. QED BY <1>5, <2>2, <2>3 DEF ReleaseFails
<1>6. QED BY <1>1, <1>2, <1>3, <1>4, <1>5 DEF Tick, TickFails

LEMMA NextLock == TypeOK /\ OneScheduler /\ [Next]_vars => OneScheduler'
<1>1. ASSUME TypeOK, OneScheduler, NEW i \in Instances, Crash(i) PROVE OneScheduler'
  <2>1. Inside' \ {lock'} \subseteq Inside \ {lock} /\ lapses' = lapses
    BY <1>1 DEF Crash, Inside, Goto, TypeOK
  <2>2. QED BY <1>1, <2>1, Shrinks
<1>2. ASSUME TypeOK, OneScheduler, UNCHANGED <<lock, pc, lapses>> PROVE OneScheduler'
  BY <1>2, Shrinks DEF Inside
<1>3. ASSUME TypeOK, OneScheduler,
             \/ \E i \in Instances : Stop(i)
             \/ \E m \in Entries : Caller(m) \/ BecomesDue(m)
             \/ UNCHANGED vars
      PROVE  OneScheduler'
  BY <1>2, <1>3 DEF Stop, Caller, Schedule, CancelRemoves, CancelFinds, BecomesDue,
                    tickVars, ghostVars, vars
<1>4. ASSUME TypeOK, OneScheduler, AbandonedLockExpires PROVE OneScheduler'
  <2>1. Inside' \ {lock'} \subseteq Inside \ {lock} /\ lapses' = lapses
    BY <1>4 DEF AbandonedLockExpires, Expires, Inside, tickVars, ghostVars
  <2>2. QED BY <1>4, <2>1, Shrinks
<1>5. QED BY <1>1, <1>3, <1>4, TickLock, LapseCounts DEF Next

\* However many instances there are, without a lapse only the one that set the
\* lock is in its tick, and k lapses let in at most k others.
THEOREM LockCounts == Spec => []OneScheduler
<1>1. Init => OneScheduler
  <2>1. Init => Inside \ {lock} = {} /\ lapses = 0
    BY DEF Init, Inside
  <2>2. QED BY <2>1, FS_EmptySet DEF OneScheduler
<1>2. QED BY <1>1, NextLock, TypeCorrect, PTL DEF Spec

-----------------------------------------------------------------------------
(* Cancels *)

LEMMA NextCancelled == TypeOK /\ CancelledForGood /\ [Next]_vars => CancelledForGood'
<1> USE DEF CancelledForGood, HeldInTick, HeldBy
<1>0. None \notin Entries
  BY ConstantsOK
<1>1. ASSUME TypeOK, CancelledForGood, NEW i \in Instances, Tick(i) PROVE CancelledForGood'
  <2>1. CASE Acquire(i) \/ Release(i)
    BY <1>1, <2>1 DEF Acquire, Release, ghostVars
  <2>2. CASE ReadDue(i)
    BY <1>1, <2>2 DEF ReadDue, Readable, DueNow, ghostVars, TypeOK
  <2>3. ASSUME NEW m \in Entries, Reschedule(i, m) PROVE CancelledForGood'
    BY <1>1, <2>3 DEF Reschedule, NextRun, Put, TypeOK
  <2>4. CASE Fire(i)
    BY <1>0, <1>1, <2>4 DEF Fire, NextInBatch, TypeOK
  <2>5. QED BY <1>1, <2>1, <2>2, <2>3, <2>4 DEF Tick
<1>2. ASSUME TypeOK, CancelledForGood, NEW i \in Instances, TickFails(i) \/ Crash(i)
      PROVE  CancelledForGood'
  <2>1. CASE AcquireFails(i) \/ ReleaseFails(i)
    BY <1>2, <2>1 DEF AcquireFails, ReleaseFails, tickVars
  <2>2. CASE ReadFails(i)
    BY <1>0, <1>2, <2>2 DEF ReadFails, GiveUp, TypeOK
  <2>3. ASSUME NEW m \in Entries, RescheduleFails(i, m) PROVE CancelledForGood'
    BY <1>0, <1>2, <2>3 DEF RescheduleFails, GiveUp, NextRun, Put, TypeOK
  <2>4. CASE FireFails(i)
    BY <1>0, <1>2, <2>4 DEF FireFails, NextInBatch, TypeOK
  <2>5. CASE Crash(i)
    BY <1>0, <1>2, <2>5 DEF Crash, TypeOK
  <2>6. QED BY <1>2, <2>1, <2>2, <2>3, <2>4, <2>5 DEF TickFails
<1>3. ASSUME TypeOK, CancelledForGood, NEW m \in Entries, Caller(m) \/ BecomesDue(m)
      PROVE  CancelledForGood'
  BY <1>3 DEF Caller, Schedule, CancelFinds, CancelRemoves, RemoveEntry, BecomesDue,
              Put, tickVars, ghostVars, TypeOK
<1>4. ASSUME CancelledForGood,
             \/ \E i \in Instances : Stop(i)
             \/ AbandonedLockExpires \/ LockLapses \/ UNCHANGED vars
      PROVE  CancelledForGood'
  BY <1>4 DEF Stop, AbandonedLockExpires, LockLapses, tickVars, ghostVars, vars
<1>5. QED BY <1>1, <1>2, <1>3, <1>4 DEF Next

\* A job cancelled while no tick held it is not brought back by any later tick,
\* even when lapses let several ticks run at once.
THEOREM CancelHolds == Spec => []CancelledForGood
<1>1. Init => CancelledForGood
  BY DEF Init, CancelledForGood
<1>2. QED BY <1>1, NextCancelled, TypeCorrect, PTL DEF Spec

-----------------------------------------------------------------------------
(* How often an entry is enqueued *)

\* The instances enqueueing m, and those that have read it and not come to it yet.
Enqueueing(m) == {i \in Instances : current[i] = m}
Reading(m) == {i \in Instances : m \in batch[i]}

\* Each instance that has read m can enqueue it once more, but no more than
\* 1 + lapses have read it when its first reschedule ends the run.
RunBound(m) ==
  IF entry[m] = "due"
  THEN /\ due[m] >= 1
       /\ fired[m] + Cardinality(Enqueueing(m)) <= (due[m] - 1) * (1 + lapses)
  ELSE fired[m] + Cardinality(Enqueueing(m)) + Cardinality(Reading(m))
         <= due[m] * (1 + lapses)

\* Without a lapse, what a tick has read is still due when it comes to it, and every
\* run is accounted for.
RunKept(m) ==
  lapses = 0 /\ m \notin disturbed =>
    /\ \A i \in Instances : m \in batch[i] => entry[m] = "due"
    /\ due[m] = fired[m] + Cardinality(Enqueueing(m)) + (IF entry[m] = "due" THEN 1 ELSE 0)

Runs == \A m \in Entries : RunBound(m) /\ RunKept(m)

LEMMA CountsFinite ==
  \A m : /\ IsFiniteSet(Enqueueing(m)) /\ Cardinality(Enqueueing(m)) \in Nat
         /\ IsFiniteSet(Reading(m)) /\ Cardinality(Reading(m)) \in Nat
BY FS_Subset, FS_CardinalityType, ConstantsOK DEF Enqueueing, Reading

LEMMA NextCountsFinite ==
  \A m : /\ IsFiniteSet(Enqueueing(m)') /\ Cardinality(Enqueueing(m)') \in Nat
         /\ IsFiniteSet(Reading(m)') /\ Cardinality(Reading(m)') \in Nat
BY FS_Subset, FS_CardinalityType, ConstantsOK DEF Enqueueing, Reading

LEMMA ReadersBounded ==
  ASSUME TypeOK, OneScheduler, NEW m \in Entries
  PROVE  Cardinality(Reading(m)) <= 1 + lapses
<1>1. Reading(m) \subseteq Inside
  BY DEF Reading, Inside, TypeOK
<1>2. Cardinality(Reading(m)) <= Cardinality(Inside)
  BY <1>1, InsideFinite, FS_Subset
<1>3. \/ Cardinality(Inside \ {lock}) = Cardinality(Inside)
      \/ Cardinality(Inside \ {lock}) = Cardinality(Inside) - 1
  BY InsideFinite, FS_RemoveElement
<1>4. Cardinality(Inside) \in Nat /\ Cardinality(Reading(m)) \in Nat /\ lapses \in Nat
  BY InsideFinite, FS_CardinalityType, CountsFinite DEF TypeOK
<1>5. QED BY <1>2, <1>3, <1>4 DEF OneScheduler

\* Without a lapse there is one tick at a time.
LEMMA AloneInside ==
  ASSUME OneScheduler, lapses = 0
  PROVE  \A i, k \in Inside : i = k
<1>1. Cardinality(Inside \ {lock}) = 0
  BY InsideFinite, FS_CardinalityType DEF OneScheduler
<1>2. Inside \ {lock} = {}
  BY <1>1, InsideFinite, FS_EmptySet
<1>3. QED BY <1>2

LEMMA Products ==
  ASSUME NEW d \in Int, NEW l \in Nat
  PROVE  /\ (d - 1) * (1 + l) = d * (1 + l) - (1 + l)
         /\ d * (1 + (l + 1)) = d * (1 + l) + d
         /\ ((d + 1) - 1) * (1 + l) = d * (1 + l)
         /\ d * (1 + l) \in Int
OBVIOUS

\* Steps that enqueue nothing of m and read no more of it, or read it while due.
LEMMA RunKeeps ==
  ASSUME TypeOK, OneScheduler, NEW m \in Entries, RunBound(m), fired'[m] = fired[m],
         due'[m] = due[m], lapses' = lapses \/ lapses' = lapses + 1,
         Enqueueing(m)' \subseteq Enqueueing(m),
         \/ entry'[m] = "due" /\ entry[m] = "due"
         \/ entry'[m] # "due" /\ Reading(m)' \subseteq Reading(m)
  PROVE  RunBound(m)'
<1> DEFINE e == Cardinality(Enqueueing(m))
           b == Cardinality(Reading(m))
           d == due[m]
           l == lapses
<1>1. /\ d \in Nat /\ l \in Nat /\ fired[m] \in Nat /\ e \in Nat /\ b \in Nat
  BY CountsFinite DEF TypeOK
<1>2. Cardinality(Enqueueing(m)') <= e /\ Cardinality(Enqueueing(m)') \in Nat
  BY CountsFinite, NextCountsFinite, FS_Subset
<1>3. Reading(m)' \subseteq Reading(m) => Cardinality(Reading(m)') <= b
  BY CountsFinite, FS_Subset
<1>4. Cardinality(Reading(m)') \in Nat
  BY NextCountsFinite
<1>5. b <= 1 + l
  BY ReadersBounded
<1>6. PICK p \in Int : p = d * (1 + l)
  BY <1>1
<1>7. (d - 1) * (1 + l) = p - (1 + l) /\ d * (1 + (l + 1)) = p + d
  BY <1>1, <1>6, Products
<1>8. (d - 1) * (1 + (l + 1)) = p + d - (1 + (l + 1))
  <2>1. PICK c \in Int : c = d - 1
    BY <1>1
  <2>2. c * (1 + (l + 1)) = c * (1 + l) + c
    BY <1>1, <2>1, Products
  <2>3. QED BY <1>1, <1>6, <1>7, <2>1, <2>2
<1>9. CASE entry[m] = "due"
  <2>1. d >= 1 /\ fired[m] + e <= p - (1 + l)
    BY <1>7, <1>9 DEF RunBound
  <2>2. CASE entry'[m] = "due"
    <3>1. CASE lapses' = l
      <4>1. (due'[m] - 1) * (1 + lapses') = p - (1 + l)
        BY <1>7, <3>1
      <4>2. QED BY <1>1, <1>2, <2>1, <2>2, <4>1, <1>6 DEF RunBound
    <3>2. CASE lapses' = l + 1
      <4>1. (due'[m] - 1) * (1 + lapses') = p + d - (1 + (l + 1))
        BY <1>8, <3>2
      <4>2. QED BY <1>1, <1>2, <2>1, <2>2, <4>1, <1>6 DEF RunBound
    <3>3. QED BY <3>1, <3>2
  <2>3. CASE entry'[m] # "due"
    <3>1. Cardinality(Reading(m)') <= b
      BY <1>3, <2>3
    <3>2. due'[m] * (1 + lapses') >= p
      BY <1>1, <1>6, <1>7
    <3>3. due'[m] * (1 + lapses') \in Int
      BY <1>1
    <3>4. QED BY <1>1, <1>2, <1>4, <1>5, <1>6, <2>1, <2>3, <3>1, <3>2, <3>3 DEF RunBound
  <2>4. QED BY <2>2, <2>3
<1>10. CASE entry[m] # "due"
  <2>1. fired[m] + e + b <= p
    BY <1>6, <1>10 DEF RunBound
  <2>2. Cardinality(Reading(m)') <= b /\ entry'[m] # "due"
    BY <1>3, <1>10
  <2>3. due'[m] * (1 + lapses') >= p
    BY <1>1, <1>6, <1>7
  <2>4. due'[m] * (1 + lapses') \in Int
    BY <1>1
  <2>5. QED BY <1>1, <1>2, <1>4, <1>6, <2>1, <2>2, <2>3, <2>4 DEF RunBound
<1>11. QED BY <1>9, <1>10

\* The first reschedule of a run: what has read m may enqueue it, and nothing more.
LEMMA RunMoves ==
  ASSUME TypeOK, OneScheduler, NEW m \in Entries, RunBound(m), NEW i \in Instances,
         fired'[m] = fired[m], due'[m] = due[m], lapses' = lapses, entry'[m] # "due",
         i \in Reading(m), Reading(m)' = Reading(m) \ {i},
         i \notin Enqueueing(m), Enqueueing(m)' = Enqueueing(m) \cup {i}
  PROVE  RunBound(m)' /\ Cardinality(Enqueueing(m)') = Cardinality(Enqueueing(m)) + 1
<1> DEFINE e == Cardinality(Enqueueing(m))
           b == Cardinality(Reading(m))
           d == due[m]
           l == lapses
<1>1. /\ d \in Nat /\ l \in Nat /\ fired[m] \in Nat /\ e \in Nat /\ b \in Nat
      /\ b <= 1 + l
  BY CountsFinite, ReadersBounded DEF TypeOK
<1>2. Cardinality(Enqueueing(m)') = e + 1
  BY CountsFinite, FS_AddElement
<1>3. Cardinality(Reading(m)') = b - 1
  BY CountsFinite, FS_RemoveElement
<1>4. PICK p \in Int : p = d * (1 + l)
  BY <1>1
<1>5. (d - 1) * (1 + l) = p - (1 + l)
  BY <1>1, <1>4, Products
<1>6. fired[m] + e + b <= p
  BY <1>1, <1>4, <1>5 DEF RunBound
<1>7. QED BY <1>1, <1>2, <1>3, <1>4, <1>6 DEF RunBound

\* enqueueFull.
LEMMA RunFires ==
  ASSUME TypeOK, NEW m \in Entries, RunBound(m), NEW i \in Enqueueing(m),
         due'[m] = due[m], lapses' = lapses, entry'[m] = entry[m],
         fired'[m] = fired[m] + 1, Reading(m)' = Reading(m),
         Enqueueing(m)' = Enqueueing(m) \ {i}
  PROVE  RunBound(m)' /\ Cardinality(Enqueueing(m)') = Cardinality(Enqueueing(m)) - 1
<1> DEFINE e == Cardinality(Enqueueing(m))
<1>1. fired[m] \in Nat /\ e \in Nat
  BY CountsFinite DEF TypeOK
<1>2. Cardinality(Enqueueing(m)') = e - 1
  BY CountsFinite, FS_RemoveElement
<1>3. fired'[m] + Cardinality(Enqueueing(m)') = fired[m] + e
  BY <1>1, <1>2
<1>4. QED BY <1>2, <1>3 DEF RunBound

LEMMA RunComesDue ==
  ASSUME TypeOK, NEW m \in Entries, RunBound(m),
         due'[m] = due[m] + 1, lapses' = lapses, entry[m] # "due", entry'[m] = "due",
         fired'[m] = fired[m], Enqueueing(m)' = Enqueueing(m)
  PROVE  RunBound(m)'
<1> DEFINE e == Cardinality(Enqueueing(m))
           b == Cardinality(Reading(m))
           p == due[m] * (1 + lapses)
<1>1. /\ due[m] \in Nat /\ lapses \in Nat /\ fired[m] \in Nat /\ e \in Nat /\ b \in Nat
  BY CountsFinite DEF TypeOK
<1>2. (due'[m] - 1) * (1 + lapses') = p /\ p \in Int
  BY <1>1, Products
<1>3. fired[m] + e + b <= p
  BY DEF RunBound
<1>4. fired[m] + e <= p
  BY <1>1, <1>2, <1>3
<1>5. QED BY <1>1, <1>2, <1>4 DEF RunBound

\* A step that touches neither the set nor a batch.
LEMMA StillRuns ==
  ASSUME Runs, UNCHANGED <<entry, batch, current, due, fired, disturbed, lapses>>
  PROVE  Runs'
BY DEF Runs, RunBound, RunKept, Enqueueing, Reading

LEMMA ReadRuns ==
  ASSUME TypeOK, OneScheduler, Runs, NEW i \in Instances, ReadDue(i)
  PROVE  Runs'
<1>1. SUFFICES ASSUME NEW m \in Entries PROVE RunBound(m)' /\ RunKept(m)'
  BY DEF Runs
<1>2. /\ UNCHANGED <<entry, current, due, fired, disturbed, lapses>> /\ batch[i] = {}
      /\ \A k \in Instances : batch'[k] = IF k = i THEN DueNow ELSE batch[k]
  BY DEF ReadDue, Readable, ghostVars, TypeOK
<1>3. Enqueueing(m)' = Enqueueing(m)
  BY <1>2 DEF Enqueueing
<1>4. entry[m] # "due" => Reading(m)' \subseteq Reading(m)
  BY <1>2 DEF Reading, DueNow
<1>5. RunBound(m) /\ RunKept(m)
  BY DEF Runs
<1>6. RunBound(m)'
  BY <1>2, <1>3, <1>4, <1>5, RunKeeps
<1>7. RunKept(m)'
  BY <1>2, <1>3, <1>5 DEF RunKept, DueNow
<1>8. QED BY <1>6, <1>7

\* The tick gives up: nothing of its batch is enqueued.
LEMMA GiveUpRuns ==
  ASSUME TypeOK, OneScheduler, Runs, NEW i \in Instances, ReadFails(i)
  PROVE  Runs'
<1>1. SUFFICES ASSUME NEW m \in Entries PROVE RunBound(m)' /\ RunKept(m)'
  BY DEF Runs
<1>2. /\ UNCHANGED <<entry, due, fired, disturbed, lapses>> /\ current[i] = None /\ batch[i] = {}
      /\ \A k \in Instances : batch'[k] = batch[k] /\ current'[k] = current[k]
  BY DEF ReadFails, GiveUp, TypeOK
<1>3. Enqueueing(m)' = Enqueueing(m) /\ Reading(m)' = Reading(m)
  BY <1>2 DEF Enqueueing, Reading
<1>4. QED BY <1>2, <1>3 DEF Runs, RunBound, RunKept

LEMMA RescheduleRuns ==
  ASSUME TypeOK, OneScheduler, Runs, NEW i \in Instances, NEW n \in Entries, Reschedule(i, n)
  PROVE  Runs'
<1>1. SUFFICES ASSUME NEW m \in Entries PROVE RunBound(m)' /\ RunKept(m)'
  BY DEF Runs
<1>2. /\ UNCHANGED <<due, fired, disturbed, lapses>> /\ current[i] = None /\ n \in batch[i]
      /\ i \in Inside
      /\ \A k \in Instances : /\ batch'[k] = IF k = i THEN batch[i] \ {n} ELSE batch[k]
                              /\ current'[k] = IF k = i THEN n ELSE current[k]
      /\ \A k \in Entries : entry'[k] = IF k = n THEN "waiting" ELSE entry[k]
  BY DEF Reschedule, NextRun, Put, TypeOK, Inside
<1>3. RunBound(m) /\ RunKept(m)
  BY DEF Runs
<1>4. None # n
  BY ConstantsOK
<1>5. CASE m = n
  <2>1. i \in Reading(m) /\ Reading(m)' = Reading(m) \ {i}
    BY <1>2, <1>5 DEF Reading
  <2>2. i \notin Enqueueing(m) /\ Enqueueing(m)' = Enqueueing(m) \cup {i}
    BY <1>2, <1>4, <1>5 DEF Enqueueing
  <2>3. /\ RunBound(m)'
        /\ Cardinality(Enqueueing(m)') = Cardinality(Enqueueing(m)) + 1
    BY <1>2, <1>3, <1>5, <2>1, <2>2, RunMoves
  <2>4. ASSUME lapses = 0, m \notin disturbed
        PROVE  /\ \A k \in Instances : m \notin batch'[k]
               /\ due'[m] = fired'[m] + Cardinality(Enqueueing(m)')
    <3>1. entry[m] = "due" /\ due[m] = fired[m] + Cardinality(Enqueueing(m)) + 1
      BY <1>2, <1>3, <1>5, <2>4 DEF RunKept
    <3>2. \A k \in Instances : m \in batch[k] => k \in Inside
      BY DEF TypeOK, Inside
    <3>3. \A k \in Instances : m \in batch[k] => k = i
      BY <1>2, <2>4, <3>2, AloneInside
    <3>4. fired[m] \in Nat /\ Cardinality(Enqueueing(m)) \in Nat
      BY CountsFinite DEF TypeOK
    <3>5. QED BY <1>2, <1>5, <2>3, <3>1, <3>3, <3>4
  <2>5. RunKept(m)'
    <3>1. SUFFICES ASSUME lapses = 0, m \notin disturbed PROVE RunKept(m)'
      BY <1>2 DEF RunKept
    <3>2. Cardinality(Enqueueing(m)') \in Nat /\ fired'[m] \in Nat /\ entry'[m] # "due"
      BY <1>2, <1>5, NextCountsFinite DEF TypeOK
    <3>3. QED BY <2>4, <3>1, <3>2 DEF RunKept
  <2>6. QED BY <2>3, <2>5
<1>6. CASE m # n
  <2>1. Reading(m)' = Reading(m)
    BY <1>2, <1>6 DEF Reading
  <2>2. \A k \in Instances : current'[k] = m <=> current[k] = m
    <3>1. None # m
      BY ConstantsOK
    <3>2. QED BY <1>2, <1>6, <3>1
  <2>3. Enqueueing(m)' = Enqueueing(m)
    BY <2>2 DEF Enqueueing
  <2>4. entry'[m] = entry[m]
    BY <1>2, <1>6
  <2>5. QED BY <1>2, <1>3, <2>1, <2>3, <2>4 DEF RunBound, RunKept, Reading
<1>7. QED BY <1>5, <1>6

LEMMA RescheduleFailsRuns ==
  ASSUME TypeOK, OneScheduler, Runs, NEW i \in Instances, NEW n \in Entries,
         RescheduleFails(i, n)
  PROVE  Runs'
<1>1. SUFFICES ASSUME NEW m \in Entries PROVE RunBound(m)' /\ RunKept(m)'
  BY DEF Runs
<1>2. /\ UNCHANGED <<due, fired, lapses>> /\ current[i] = None
      /\ \A k \in Instances : batch'[k] = (IF k = i THEN {} ELSE batch[k]) /\ current'[k] = current[k]
  BY DEF RescheduleFails, GiveUp, TypeOK
<1>3. RunBound(m) /\ RunKept(m)
  BY DEF Runs
<1>4. Enqueueing(m)' = Enqueueing(m) /\ Reading(m)' \subseteq Reading(m)
  BY <1>2 DEF Enqueueing, Reading
<1>5. \/ entry'[m] = entry[m] /\ (m \in disturbed' <=> m \in disturbed)
      \/ entry'[m] = "waiting" /\ m \in disturbed'
  BY DEF RescheduleFails, NextRun, Put, TypeOK
<1>6. RunBound(m)'
  BY <1>2, <1>3, <1>4, <1>5, RunKeeps
<1>7. RunKept(m)'
  BY <1>2, <1>3, <1>4, <1>5 DEF RunKept
<1>8. QED BY <1>6, <1>7

LEMMA FireRuns ==
  ASSUME TypeOK, OneScheduler, Runs, NEW i \in Instances, Fire(i) \/ FireFails(i)
  PROVE  Runs'
<1>1. SUFFICES ASSUME NEW m \in Entries PROVE RunBound(m)' /\ RunKept(m)'
  BY DEF Runs
<1>2. /\ UNCHANGED <<entry, due, lapses, batch>> /\ current[i] \in Entries
      /\ \A k \in Instances : current'[k] = IF k = i THEN None ELSE current[k]
  BY DEF Fire, FireFails, NextInBatch, TypeOK
<1>3. RunBound(m) /\ RunKept(m)
  BY DEF Runs
<1>4. Reading(m)' = Reading(m)
  BY <1>2 DEF Reading
<1>5. None # m
  BY ConstantsOK
<1>6. CASE m = current[i]
  <2>1. i \in Enqueueing(m) /\ Enqueueing(m)' = Enqueueing(m) \ {i}
    BY <1>2, <1>5, <1>6 DEF Enqueueing
  <2>2. CASE fired'[m] = fired[m] + 1 /\ UNCHANGED disturbed
    <3>1. RunBound(m)' /\ Cardinality(Enqueueing(m)') = Cardinality(Enqueueing(m)) - 1
      BY <1>2, <1>3, <1>4, <2>1, <2>2, RunFires
    <3>2. fired[m] \in Nat /\ Cardinality(Enqueueing(m)) \in Nat
      BY CountsFinite DEF TypeOK
    <3>3. fired'[m] + Cardinality(Enqueueing(m)') = fired[m] + Cardinality(Enqueueing(m))
      BY <2>2, <3>1, <3>2
    <3>4. RunKept(m)'
      BY <1>2, <1>3, <2>2, <3>3 DEF RunKept
    <3>5. QED BY <3>1, <3>4
  <2>3. CASE fired'[m] = fired[m] /\ m \in disturbed'
    <3>1. RunBound(m)'
      BY <1>2, <1>3, <1>4, <2>1, <2>3, RunKeeps
    <3>2. QED BY <2>3, <3>1 DEF RunKept
  <2>4. fired \in [Entries -> Nat]
    BY DEF TypeOK
  <2>5. QED BY <1>6, <2>2, <2>3, <2>4 DEF Fire, FireFails
<1>7. CASE m # current[i]
  <2>1. Enqueueing(m)' = Enqueueing(m)
    BY <1>2, <1>5, <1>7 DEF Enqueueing
  <2>2. fired'[m] = fired[m] /\ (m \in disturbed' <=> m \in disturbed)
    BY <1>2, <1>7 DEF Fire, FireFails, TypeOK
  <2>3. QED BY <1>2, <1>3, <1>4, <2>1, <2>2 DEF RunBound, RunKept
<1>8. QED BY <1>6, <1>7

LEMMA CrashRuns ==
  ASSUME TypeOK, OneScheduler, Runs, NEW i \in Instances, Crash(i)
  PROVE  Runs'
<1>1. SUFFICES ASSUME NEW m \in Entries PROVE RunBound(m)' /\ RunKept(m)'
  BY DEF Runs
<1>2. /\ UNCHANGED <<entry, due, fired, lapses>>
      /\ disturbed' = disturbed \cup ({current[i]} \ {None})
      /\ \A k \in Instances : /\ batch'[k] = (IF k = i THEN {} ELSE batch[k])
                              /\ current'[k] = (IF k = i THEN None ELSE current[k])
  BY DEF Crash, TypeOK
<1>3. RunBound(m) /\ RunKept(m)
  BY DEF Runs
<1>4. None # m
  BY ConstantsOK
<1>5. Enqueueing(m)' \subseteq Enqueueing(m) /\ Reading(m)' \subseteq Reading(m)
  BY <1>2, <1>4 DEF Enqueueing, Reading
<1>6. RunBound(m)'
  BY <1>2, <1>3, <1>5, RunKeeps
<1>7. m \notin disturbed' => m \notin disturbed /\ Enqueueing(m)' = Enqueueing(m)
  BY <1>2, <1>4 DEF Enqueueing
<1>8. RunKept(m)'
  BY <1>2, <1>3, <1>7 DEF RunKept
<1>9. QED BY <1>6, <1>8

\* Callers, time and the lock.
LEMMA OtherRuns ==
  ASSUME TypeOK, OneScheduler, Runs,
         \/ \E n \in Entries : Caller(n) \/ BecomesDue(n)
         \/ LockLapses
  PROVE  Runs'
<1>1. SUFFICES ASSUME NEW m \in Entries PROVE RunBound(m)' /\ RunKept(m)'
  BY DEF Runs
<1>2. RunBound(m) /\ RunKept(m)
  BY DEF Runs
<1>3. UNCHANGED <<batch, current, fired>>
  BY DEF Caller, Schedule, CancelFinds, CancelRemoves, BecomesDue, LockLapses, tickVars, ghostVars
<1>4. Enqueueing(m)' = Enqueueing(m) /\ Reading(m)' = Reading(m)
  BY <1>3 DEF Enqueueing, Reading
<1>5. ASSUME NEW n \in Entries, Caller(n) PROVE RunBound(m)' /\ RunKept(m)'
  <2>1. /\ UNCHANGED <<due, lapses>>
        /\ \/ entry'[m] = entry[m] /\ (m \in disturbed' <=> m \in disturbed)
           \/ entry[m] = "due" /\ entry'[m] # "due" /\ m \in disturbed'
           \/ entry[m] # "due" /\ entry'[m] # "due" /\ (m \in disturbed' <=> m \in disturbed)
    BY <1>5 DEF Caller, Schedule, CancelFinds, CancelRemoves, RemoveEntry, Put, ghostVars, TypeOK
  <2>2. RunBound(m)'
    BY <1>2, <1>3, <1>4, <2>1, RunKeeps
  <2>3. RunKept(m)'
    BY <1>2, <1>3, <1>4, <2>1 DEF RunKept
  <2>4. QED BY <2>2, <2>3
<1>6. ASSUME NEW n \in Entries, BecomesDue(n) PROVE RunBound(m)' /\ RunKept(m)'
  <2>1. UNCHANGED <<lapses, disturbed>>
    BY <1>6 DEF BecomesDue
  <2>2. CASE m = n
    <3>1. entry[m] # "due" /\ entry'[m] = "due" /\ due'[m] = due[m] + 1
      BY <1>6, <2>2 DEF BecomesDue, Put, TypeOK
    <3>2. RunBound(m)'
      BY <1>2, <1>3, <1>4, <2>1, <3>1, RunComesDue
    <3>3. fired[m] \in Nat /\ Cardinality(Enqueueing(m)) \in Nat /\ due[m] \in Nat
      BY CountsFinite DEF TypeOK
    <3>4. RunKept(m)'
      BY <1>2, <1>3, <1>4, <2>1, <3>1, <3>3 DEF RunKept
    <3>5. QED BY <3>2, <3>4
  <2>3. CASE m # n
    <3>1. entry'[m] = entry[m] /\ due'[m] = due[m]
      BY <1>6, <2>3 DEF BecomesDue, Put, TypeOK
    <3>2. QED BY <1>2, <1>3, <1>4, <2>1, <3>1 DEF RunBound, RunKept
  <2>4. QED BY <2>2, <2>3
<1>7. ASSUME LockLapses PROVE RunBound(m)' /\ RunKept(m)'
  <2>1. UNCHANGED <<entry, due, disturbed>> /\ lapses' = lapses + 1
    BY <1>7 DEF LockLapses
  <2>2. RunBound(m)'
    BY <1>2, <1>3, <1>4, <2>1, RunKeeps
  <2>3. lapses' # 0
    BY <2>1 DEF TypeOK
  <2>4. QED BY <2>2, <2>3 DEF RunKept
<1>8. QED BY <1>5, <1>6, <1>7

LEMMA NextRuns == TypeOK /\ OneScheduler /\ Runs /\ [Next]_vars => Runs'
<1>1. ASSUME TypeOK, OneScheduler, Runs, NEW i \in Instances, Tick(i) \/ TickFails(i)
      PROVE  Runs'
  <2>1. CASE Acquire(i) \/ Release(i) \/ AcquireFails(i) \/ ReleaseFails(i)
    BY <1>1, <2>1, StillRuns DEF Acquire, Release, AcquireFails, ReleaseFails, tickVars, ghostVars
  <2>2. QED
    BY <1>1, <2>1, ReadRuns, GiveUpRuns, RescheduleRuns, RescheduleFailsRuns, FireRuns
       DEF Tick, TickFails
<1>2. ASSUME Runs, \/ \E i \in Instances : Stop(i)
                   \/ AbandonedLockExpires \/ UNCHANGED vars
      PROVE  Runs'
  BY <1>2, StillRuns DEF Stop, AbandonedLockExpires, tickVars, ghostVars, vars
<1>3. QED BY <1>1, <1>2, CrashRuns, OtherRuns DEF Next

LEMMA InitRuns == Init => Runs
<1>1. ASSUME Init, NEW m \in Entries PROVE RunBound(m) /\ RunKept(m)
  <2>1. None # m
    BY ConstantsOK
  <2>2. Enqueueing(m) = {} /\ Reading(m) = {}
    BY <1>1, <2>1 DEF Init, Enqueueing, Reading
  <2>3. Cardinality(Enqueueing(m)) = 0 /\ Cardinality(Reading(m)) = 0
    BY <2>2, FS_EmptySet
  <2>4. QED BY <1>1, <2>3 DEF Init, RunBound, RunKept
<1>2. QED BY <1>1 DEF Runs

\* An entry is enqueued at most once for each time it becomes due, and once more for
\* each lapse of the lock; without a lapse, every run no failure, cancel or
\* registration took is enqueued: for any number of server instances and entries.
THEOREM RunsOnce == Spec => []ExactlyOncePerRun
<1>1. Spec => [](TypeOK /\ OneScheduler /\ Runs)
  BY InitRuns, NextRuns, TypeCorrect, LockCounts, PTL DEF Spec
<1>2. ASSUME TypeOK, Runs, NEW m \in Entries PROVE fired[m] <= due[m] * (1 + lapses)
  <2>1. PICK p \in Int : p = due[m] * (1 + lapses)
    BY <1>2 DEF TypeOK
  <2>2. (due[m] - 1) * (1 + lapses) = p - (1 + lapses)
    BY <1>2, <2>1, Products DEF TypeOK
  <2>3. /\ fired[m] \in Nat /\ lapses \in Nat /\ Cardinality(Enqueueing(m)) \in Nat
        /\ Cardinality(Reading(m)) \in Nat
    BY <1>2, CountsFinite DEF TypeOK
  <2>4. QED BY <1>2, <2>1, <2>2, <2>3 DEF Runs, RunBound
<1>3. TypeOK /\ Runs => ExactlyOncePerRun
  BY <1>2 DEF ExactlyOncePerRun, AtMostOncePerRun, NoneSkipped, Runs, RunKept, Enqueueing
<1>4. QED BY <1>1, <1>3, PTL
=============================================================================
