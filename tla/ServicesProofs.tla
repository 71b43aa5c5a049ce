----------------------------- MODULE ServicesProofs -----------------------------
(***************************************************************************)
(* Theorems about the services, for every number of servers, rows, keys,   *)
(* executions, messages, calls, tokens, requests, orders, events and       *)
(* failures: a rotation of the keys keeps what is written and is complete  *)
(* when it ends; executions of the SMS job exclude each other and send a   *)
(* message once; replies marked as processed were handled, and a number    *)
(* gets one message an hour; what was revoked stays out; no window and no  *)
(* lockout lets more through than it promises, but for calls that          *)
(* overlapped; the rows of an order and its decisions agree; the stored    *)
(* subscription follows Stripe's events, and failed payments suspend. The  *)
(* counts of the limits are sums over finite sets, of which the facts      *)
(* needed are proved here too.                                             *)
(***************************************************************************)
EXTENDS MCServices, Sequences, FiniteSetTheorems, WellFoundedInduction, TLAPS

-----------------------------------------------------------------------------
(* key-rotation.ts: the inductive invariant *)

\* What rotateField has between its SELECT and its UPDATE, and rotateTable before and after.
Rotation ==
  [at : {"idle", "fields", "update", "ended"}, ids : SUBSET Rows, id : Rows \cup {0},
   read : [version : Nat, value : 0..MaxValue]]

RotationTypes ==
  /\ field \in [Rows -> [version : Nat, value : 0..MaxValue]]
  /\ latest \in [Rows -> 0..MaxValue]
  /\ rotation \in [Managers -> Rotation]
  /\ \A m \in Managers : rotation[m].at = "update" => rotation[m].id \in Rows
  /\ raced \subseteq Rows
  /\ disturbed \in [Managers -> BOOLEAN]

\* What a rotation has read is the last value written, or NULL, unless it raced.
ReadOK ==
  \A m \in Managers :
    rotation[m].at = "update" /\ rotation[m].id \notin raced =>
      rotation[m].read.value \in {latest[rotation[m].id], 0}

\* A rotation that was left alone still has every row of the version it looks for before it.
Outdated(m, r) == field[r].value # 0 /\ field[r].version = K!CurrentVersion(m) - 1
Ahead(m, r) ==
  \/ rotation[m].at \in {"fields", "update"} /\ r \in rotation[m].ids
  \/ rotation[m].at = "update" /\ r = rotation[m].id
CompleteOK ==
  \A m \in Managers :
    rotation[m].at # "idle" /\ ~disturbed[m] => \A r \in Rows : Outdated(m, r) => Ahead(m, r)

RotationInv ==
  /\ RotationTypes /\ K!WritesKept /\ ReadOK /\ CompleteOK
  /\ \A m \in Managers : rotation[m].at = "ended" => rotation[m].ids = {}

-----------------------------------------------------------------------------

\* A set of numbers that is not empty has a least one, and a finite one a greatest.
LEMMA LeastNumber ==
  ASSUME NEW S \in SUBSET Nat, S # {}
  PROVE  \E i \in S : \A k \in S : i <= k
<1>1. PICK i \in S : \A k \in S : ~ (<<k, i>> \in OpToRel(<, Nat))
  BY NatLessThanWellFounded, WFMin
<1>2. \A k \in S : ~ (k < i)
  BY <1>1 DEF OpToRel
<1>3. QED BY <1>2

LEMMA MaxIsMember ==
  ASSUME NEW S \in SUBSET Nat, IsFiniteSet(S), S # {}
  PROVE  K!Max(S) \in S /\ \A y \in S : K!Max(S) >= y
<1> DEFINE Above(x) == {y \in S : y > x}
<1> DEFINE Counts == {Cardinality(Above(x)) : x \in S}
<1>1. \A x \in S : IsFiniteSet(Above(x)) /\ Cardinality(Above(x)) \in Nat
  BY FS_Subset, FS_CardinalityType
<1>2. Counts \in SUBSET Nat /\ Counts # {}
  BY <1>1
<1>3. PICK k \in Counts : \A i \in Counts : k <= i
  BY <1>2, LeastNumber
<1>4. PICK x \in S : k = Cardinality(Above(x))
  BY <1>3
<1>5. ASSUME NEW y \in S, y > x PROVE FALSE
  <2>1. Above(y) \subseteq Above(x) /\ y \in Above(x) /\ y \notin Above(y)
    BY <1>4, <1>5
  <2>2. Cardinality(Above(y)) <= k /\ Cardinality(Above(y)) # k
    BY <1>1, <1>4, <2>1, FS_Subset
  <2>3. Cardinality(Above(y)) \in Nat /\ k \in Nat /\ k <= Cardinality(Above(y))
    BY <1>1, <1>3, <1>4
  <2>4. QED BY <2>2, <2>3
<1>6. \A y \in S : x >= y
  BY <1>4, <1>5
<1>7. QED BY <1>6 DEF K!Max

LEMMA CurrentIsKnown ==
  ASSUME NEW m \in Managers
  PROVE  K!CurrentVersion(m) \in Keys[m] /\ K!CurrentVersion(m) \in Nat \ {0}
<1>1. IsFiniteSet(Keys[m]) /\ Keys[m] # {} /\ Keys[m] \in SUBSET (Nat \ {0})
  BY Bounds DEF K!RotationOK, IsFiniteSet, K!IsFiniteSet
<1>2. QED BY <1>1, MaxIsMember DEF K!CurrentVersion

LEMMA InitRotation == Init => RotationInv
<1> SUFFICES ASSUME Init PROVE RotationInv
  OBVIOUS
<1> USE DEF Init, K!RotationInit, K!Idle
<1>1. MaxValue \in Nat
  BY Bounds DEF K!RotationOK
<1>2. RotationTypes
  BY <1>1 DEF RotationTypes, Rotation
<1>3. QED BY <1>2 DEF RotationInv, K!WritesKept, ReadOK, CompleteOK, Outdated

\* A value written by the application: the row is disturbed for every rotation, and raced for
\* one that has read it.
LEMMA WriteKeepsRotation ==
  ASSUME RotationInv, NEW m \in Managers, NEW r \in Rows, K!Write(m, r)
  PROVE  RotationInv'
<1>1. K!CurrentVersion(m) \in Keys[m] /\ K!CurrentVersion(m) \in Nat /\ MaxValue \in Nat
  BY CurrentIsKnown, Bounds DEF K!RotationOK
<1>2. PICK null \in BOOLEAN :
        field' = [field EXCEPT ![r] = [version |-> IF null THEN 0 ELSE K!CurrentVersion(m),
                                       value   |-> IF null THEN 0 ELSE latest[r] + 1]]
  BY DEF K!Write
<1>3. /\ latest[r] < MaxValue /\ latest' = [latest EXCEPT ![r] = @ + 1]
      /\ raced' = raced \cup {s \in {r} : \E n \in Managers :
                                            rotation[n].at = "update" /\ rotation[n].id = s}
      /\ disturbed' = [n \in Managers |-> disturbed[n] \/ K!Watches(n)]
      /\ rotation' = rotation
  BY DEF K!Write
<1>4. RotationTypes'
  BY <1>1, <1>2, <1>3 DEF RotationInv, RotationTypes, K!Watches
<1>5. K!WritesKept'
  BY <1>1, <1>2, <1>3 DEF RotationInv, RotationTypes, K!WritesKept
<1>6. ReadOK'
  BY <1>2, <1>3 DEF RotationInv, RotationTypes, ReadOK
<1>7. CompleteOK'
  BY <1>3 DEF RotationInv, RotationTypes, CompleteOK, K!Watches
<1>8. QED BY <1>3, <1>4, <1>5, <1>6, <1>7 DEF RotationInv

LEMMA SelectRowsKeepsRotation ==
  ASSUME RotationInv, NEW m \in Managers, K!SelectRows(m)
  PROVE  RotationInv'
<1> DEFINE found == {r \in Rows : field[r].version = K!TargetVersion(m) /\ field[r].value # 0}
<1>1. /\ rotation' = [rotation EXCEPT ![m] = [at |-> "fields", ids |-> found, id |-> 0,
                                               read |-> [version |-> 0, value |-> 0]]]
      /\ UNCHANGED <<field, latest, raced>>
      /\ disturbed' = [n \in Managers |-> IF n = m THEN \E o \in Managers \ {m} : K!InRotation(o)
                                          ELSE disturbed[n]]
  <2> HIDE DEF found
  <2>1. PICK started : started = [K!Idle EXCEPT !.at = "fields", !.ids = found]
    OBVIOUS
  <2>2. K!Idle = [at |-> "idle", ids |-> {}, id |-> 0, read |-> [version |-> 0, value |-> 0]]
    BY DEF K!Idle
  <2>3. /\ started.at = "fields" /\ started.ids = found /\ started.id = 0
        /\ started.read = [version |-> 0, value |-> 0]
    BY <2>1, <2>2
  <2>4. started = [at |-> started.at, ids |-> started.ids, id |-> started.id, read |-> started.read]
    BY <2>1, <2>2
  <2>5. started = [at |-> "fields", ids |-> found, id |-> 0, read |-> [version |-> 0, value |-> 0]]
    BY <2>3, <2>4
  <2>6. QED BY <2>1, <2>5 DEF K!SelectRows, found
<1>2. found \subseteq Rows /\ MaxValue \in Nat
  BY Bounds DEF K!RotationOK
<1>3. \A r \in Rows : Outdated(m, r) => r \in found
  BY DEF Outdated, K!TargetVersion
<1> HIDE DEF found
<1>4. RotationTypes'
  <2>1. [at |-> "fields", ids |-> found, id |-> 0, read |-> [version |-> 0, value |-> 0]] \in Rotation
    BY <1>2 DEF Rotation
  <2>2. rotation' \in [Managers -> Rotation]
        /\ \A n \in Managers : rotation'[n].at = "update" => rotation'[n].id \in Rows
    BY <1>1, <2>1 DEF RotationInv, RotationTypes
  <2>3. disturbed' \in [Managers -> BOOLEAN]
    BY <1>1 DEF RotationInv, RotationTypes
  <2>4. QED BY <1>1, <2>2, <2>3 DEF RotationInv, RotationTypes
<1>5. K!WritesKept' /\ ReadOK'
  BY <1>1 DEF RotationInv, RotationTypes, K!WritesKept, ReadOK
<1>6. CompleteOK'
  BY <1>1, <1>3 DEF RotationInv, RotationTypes, CompleteOK, Outdated, Ahead
<1>7. QED BY <1>1, <1>4, <1>5, <1>6 DEF RotationInv, RotationTypes

LEMMA SelectFieldKeepsRotation ==
  ASSUME RotationInv, NEW m \in Managers, K!SelectField(m)
  PROVE  RotationInv'
<1>1. PICK r \in rotation[m].ids :
        LET left == [rotation[m] EXCEPT !.ids = @ \ {r}]
        IN rotation' = [rotation EXCEPT ![m] =
             IF field[r].value = 0 \/ field[r].version = K!CurrentVersion(m) THEN left
             ELSE IF field[r].version \notin Keys[m] THEN K!Idle
             ELSE [left EXCEPT !.at = "update", !.id = r, !.read = field[r]]]
  BY DEF K!SelectField
<1>2. rotation[m].at = "fields" /\ UNCHANGED <<field, latest, raced, disturbed>>
  BY DEF K!SelectField
<1>3. r \in Rows /\ rotation[m] \in Rotation /\ field[r] \in [version : Nat, value : 0..MaxValue]
  BY <1>1 DEF RotationInv, RotationTypes, Rotation
<1>4. K!CurrentVersion(m) \in Nat /\ MaxValue \in Nat
  BY CurrentIsKnown, Bounds DEF K!RotationOK
<1>5. \A n \in Managers \ {m} : rotation'[n] = rotation[n]
  BY <1>1 DEF RotationInv, RotationTypes
<1>6. CASE field[r].value = 0 \/ field[r].version = K!CurrentVersion(m)
  <2>1. rotation'[m] = [rotation[m] EXCEPT !.ids = @ \ {r}] /\ rotation'[m] \in Rotation
    BY <1>1, <1>3, <1>6 DEF RotationInv, RotationTypes, Rotation
  <2>2. RotationTypes'
    BY <1>1, <1>2, <1>3, <1>5, <1>6, <2>1 DEF RotationInv, RotationTypes, Rotation
  <2>3. ReadOK' /\ K!WritesKept'
    BY <1>2, <1>3, <1>5, <2>1 DEF RotationInv, ReadOK, K!WritesKept, Rotation
  <2>4. ~Outdated(m, r)
    BY <1>4, <1>6 DEF Outdated
  <2>5. CompleteOK'
    BY <1>2, <1>3, <1>5, <2>1, <2>4 DEF RotationInv, CompleteOK, Outdated, Ahead, Rotation
  <2>6. QED BY <1>2, <1>3, <1>5, <2>1, <2>2, <2>3, <2>5 DEF RotationInv, Rotation
<1>7. CASE field[r].value # 0 /\ field[r].version # K!CurrentVersion(m) /\ field[r].version \notin Keys[m]
  <2>1. rotation'[m] = K!Idle /\ K!Idle \in Rotation
    BY <1>1, <1>4, <1>7 DEF RotationInv, RotationTypes, Rotation, K!Idle
  <2>2. RotationTypes'
    BY <1>1, <1>2, <1>5, <1>7, <2>1 DEF RotationInv, RotationTypes, K!Idle
  <2>3. ReadOK' /\ K!WritesKept'
    BY <1>2, <1>5, <2>1 DEF RotationInv, ReadOK, K!WritesKept, K!Idle
  <2>4. CompleteOK'
    BY <1>2, <1>5, <2>1 DEF RotationInv, CompleteOK, Outdated, Ahead, K!Idle
  <2>5. QED BY <1>2, <1>5, <2>1, <2>2, <2>3, <2>4 DEF RotationInv, K!Idle
<1>8. CASE field[r].value # 0 /\ field[r].version # K!CurrentVersion(m) /\ field[r].version \in Keys[m]
  <2>1. rotation'[m] = [at |-> "update", ids |-> rotation[m].ids \ {r}, id |-> r, read |-> field[r]]
    BY <1>1, <1>3, <1>8 DEF RotationInv, RotationTypes, Rotation
  <2>2. RotationTypes'
    BY <1>1, <1>2, <1>3, <1>5, <1>8, <2>1 DEF RotationInv, RotationTypes, Rotation
  <2>3. ReadOK' /\ K!WritesKept'
    BY <1>2, <1>3, <1>5, <2>1 DEF RotationInv, ReadOK, K!WritesKept
  <2>4. CompleteOK'
    BY <1>2, <1>3, <1>5, <2>1 DEF RotationInv, CompleteOK, Outdated, Ahead
  <2>5. QED BY <1>2, <1>3, <1>5, <2>1, <2>2, <2>3, <2>4 DEF RotationInv
<1>9. QED BY <1>6, <1>7, <1>8

\* The UPDATE stores what was read, under a key this server knows: the row is raced if another
\* rotation has read it too, and every other rotation disturbed.
LEMMA UpdateFieldKeepsRotation ==
  ASSUME RotationInv, NEW m \in Managers, K!UpdateField(m)
  PROVE  RotationInv'
<1> DEFINE r == rotation[m].id
<1>1. /\ rotation[m].at = "update" /\ r \in Rows /\ rotation[m] \in Rotation
      /\ rotation[m].read.value \in 0..MaxValue /\ latest' = latest
  BY DEF K!UpdateField, RotationInv, RotationTypes, Rotation
<1>2. /\ field' = [field EXCEPT ![r] = [version |-> K!CurrentVersion(m),
                                         value |-> rotation[m].read.value]]
      /\ rotation' = [rotation EXCEPT ![m].at = "fields"]
      /\ raced' = raced \cup {s \in {r} : \E n \in Managers \ {m} :
                                            rotation[n].at = "update" /\ rotation[n].id = s}
      /\ disturbed' = [n \in Managers |-> disturbed[n] \/ (K!Watches(n) /\ n # m)]
  BY DEF K!UpdateField, K!Disturb
<1>3. K!CurrentVersion(m) \in Keys[m] /\ K!CurrentVersion(m) \in Nat
  BY CurrentIsKnown
<1>4. /\ \A n \in Managers \ {m} : rotation'[n] = rotation[n]
      /\ rotation'[m] = [rotation[m] EXCEPT !.at = "fields"] /\ rotation'[m] \in Rotation
  BY <1>1, <1>2 DEF RotationInv, RotationTypes, Rotation
<1> HIDE DEF r
<1>5. RotationTypes'
  BY <1>1, <1>2, <1>3, <1>4 DEF RotationInv, RotationTypes, Rotation, K!Watches
<1>6. K!WritesKept'
  BY <1>1, <1>2, <1>3 DEF RotationInv, RotationTypes, ReadOK, K!WritesKept, r
<1>7. ReadOK'
  BY <1>1, <1>2, <1>4 DEF RotationInv, RotationTypes, ReadOK, Rotation, r
<1>8. CompleteOK'
  <2>1. ASSUME NEW n \in Managers \ {m}, rotation'[n].at # "idle", ~disturbed'[n] PROVE FALSE
    BY <1>2, <1>4, <2>1 DEF K!Watches
  <2>2. ~disturbed'[m] => ~disturbed[m]
    BY <1>2
  <2>3. ASSUME NEW s \in Rows, Outdated(m, s)', ~disturbed[m] PROVE Ahead(m, s)'
    <3>1. s # r /\ field'[s] = field[s]
      BY <1>1, <1>2, <1>3, <2>3 DEF Outdated, RotationInv, RotationTypes
    <3>2. Outdated(m, s)
      BY <2>3, <3>1 DEF Outdated
    <3>3. s \in rotation[m].ids
      BY <1>1, <2>3, <3>1, <3>2 DEF RotationInv, CompleteOK, Ahead, r
    <3>4. QED BY <1>1, <1>4, <3>3 DEF Ahead, Rotation
  <2>4. QED BY <2>1, <2>2, <2>3 DEF CompleteOK
<1>9. QED BY <1>1, <1>4, <1>5, <1>6, <1>7, <1>8 DEF RotationInv, Rotation

LEMMA RotationRests ==
  ASSUME RotationInv, NEW m \in Managers, K!RotationEnds(m) \/ K!RotationFails(m)
  PROVE  RotationInv'
<1>1. /\ rotation[m].at \in {"fields", "update"} /\ UNCHANGED <<field, latest, raced, disturbed>>
      /\ \/ rotation' = [rotation EXCEPT ![m] = K!Idle]
         \/ /\ rotation[m].at = "fields" /\ rotation[m].ids = {}
            /\ rotation' = [rotation EXCEPT ![m] = [K!Idle EXCEPT !.at = "ended"]]
  BY DEF K!RotationEnds, K!RotationFails, K!InRotation
<1>2. MaxValue \in Nat
  BY Bounds DEF K!RotationOK
<1>3. /\ \A n \in Managers \ {m} : rotation'[n] = rotation[n]
      /\ rotation'[m] \in Rotation /\ rotation'[m].ids = {}
      /\ \/ rotation'[m].at = "idle"
         \/ rotation'[m].at = "ended" /\ rotation[m].at = "fields" /\ rotation[m].ids = {}
  BY <1>1, <1>2 DEF RotationInv, RotationTypes, Rotation, K!Idle
<1>4. RotationTypes'
  BY <1>1, <1>3 DEF RotationInv, RotationTypes
<1>5. K!WritesKept' /\ ReadOK'
  BY <1>1, <1>3 DEF RotationInv, K!WritesKept, ReadOK
<1>6. CompleteOK'
  BY <1>1, <1>3 DEF RotationInv, CompleteOK, Outdated, Ahead
<1>7. QED BY <1>1, <1>3, <1>4, <1>5, <1>6 DEF RotationInv

LEMMA RotationStep == RotationInv /\ K!RotationNext => RotationInv'
BY WriteKeepsRotation, SelectRowsKeepsRotation, SelectFieldKeepsRotation, UpdateFieldKeepsRotation,
   RotationRests DEF K!RotationNext

LEMMA RotationStutter == RotationInv /\ UNCHANGED rotationVars => RotationInv'
<1> SUFFICES ASSUME RotationInv, UNCHANGED rotationVars PROVE RotationInv'
  OBVIOUS
<1>1. RotationTypes' /\ K!WritesKept' /\ ReadOK'
  BY DEF RotationInv, rotationVars, RotationTypes, K!WritesKept, ReadOK
<1>2. CompleteOK'
  BY DEF RotationInv, rotationVars, CompleteOK, Outdated, Ahead
<1>3. QED BY <1>1, <1>2 DEF RotationInv, rotationVars

\* key-rotation.ts: a rotation overwrites nothing but what was written between its SELECT and its
\* UPDATE of a row, and leaves no row behind when nobody else wrote: for any number of
\* servers that know any keys.
THEOREM RotationsKeepAll == Spec => []RotationKeepsAll
<1> DEFINE Inv == part = "rotation" => RotationInv
<1>1. Init => Inv
  BY InitRotation
<1>2. Inv /\ [Next]_vars => Inv'
  <2> SUFFICES ASSUME part = "rotation", RotationInv, [Next]_vars PROVE RotationInv'
    BY DEF Next, Others, vars
  <2>1. CASE Next
    BY <2>1, RotationStep DEF Next
  <2>2. CASE UNCHANGED vars
    BY <2>2, RotationStutter DEF vars
  <2>3. QED BY <2>1, <2>2
<1>3. Inv => RotationKeepsAll
  <2> SUFFICES ASSUME RotationInv PROVE K!WritesKept /\ K!RotationComplete
    BY DEF RotationKeepsAll
  <2>1. QED BY DEF RotationInv, CompleteOK, Outdated, Ahead, K!RotationComplete
<1>4. QED BY <1>1, <1>2, <1>3, PTL DEF Spec

-----------------------------------------------------------------------------
(* jobs/scheduler.ts with sms-processor.ts: the inductive invariant *)

JobsTypes ==
  /\ outer \in [Executions -> {"idle", "racing", "finally", "delete", "done"}]
  /\ handler \in [Executions -> {"none", "list", "next", "remove", "record", "retry", "give up", "drop",
                                 "ended", "threw"}]
  /\ DOMAIN todo = Executions /\ DOMAIN current = Executions
  /\ lock \in Executions \cup {None}
  /\ sent \in [Messages -> 0..2]
  /\ redisErrors \in Nat

\* Unless a lock expired under its holder, who is in the race or about to delete has the lock.
LockOK == ~cutShort => \A x \in Executions : outer[x] \in {"racing", "delete"} => lock = x

\* Copies are of messages, a copy in hand was sent, and only an error makes one not sent of it.
HandOK ==
  /\ \A c \in pending : c.of \in Messages
  /\ \A x \in Executions : \A c \in todo[x] : c.of \in Messages
  /\ \A x \in Executions :
       handler[x] \in {"remove", "record", "retry", "give up", "drop"} =>
         current[x].of \in Messages /\ sent[current[x].of] > 0
  /\ \A x \in Executions : handler[x] \in {"retry", "give up", "drop"} => redisErrors > 0
  /\ \A m \in failedList : m \in Messages /\ sent[m] > 0 /\ redisErrors > 0

\* As long as Redis answers and handlers do not overlap, one of them is at work; a message has one
\* copy; what the handler has before it is in the list and was not sent, and what
\* was sent leaves the list next.
Alone ==
  /\ \A x, y \in Executions : J!Working(x) /\ J!Working(y) => x = y
  /\ \A c, d \in pending : c.of = d.of => c = d
  /\ \A x \in Executions : handler[x] \in {"next", "remove", "record"} =>
       \A c \in todo[x] : c \in pending /\ sent[c.of] = 0
  /\ \A c \in pending : sent[c.of] > 0 =>
       \E x \in Executions : handler[x] = "remove" /\ current[x] = c
  /\ \A m \in Messages : sent[m] <= 1

JobsInv == JobsTypes /\ LockOK /\ HandOK /\ (redisErrors = 0 /\ ~overlap => Alone)

-----------------------------------------------------------------------------

LEMMA InitJobs == Init => JobsInv
<1> SUFFICES ASSUME Init PROVE JobsInv
  OBVIOUS
<1>1. J!JobsInit
  BY DEF Init
<1>2. PICK retries \in [Messages -> 0..MaxRetries] :
        pending = {J!Copy(m, retries[m], None) : m \in Messages}
  BY <1>1 DEF J!JobsInit
<1>3. \A c \in pending : \E m \in Messages : c = [of |-> m, retries |-> retries[m], serial |-> None]
  BY <1>2 DEF J!Copy
<1>4. \A c \in pending : c.of \in Messages /\ c = [of |-> c.of, retries |-> retries[c.of], serial |-> None]
  BY <1>3
<1>5. JobsTypes /\ LockOK
  BY <1>1 DEF J!JobsInit, JobsTypes, LockOK
<1>6. HandOK
  BY <1>1, <1>4 DEF J!JobsInit, HandOK
<1>7. Alone
  BY <1>1, <1>4 DEF J!JobsInit, Alone, J!Working
<1>8. QED BY <1>5, <1>6, <1>7 DEF JobsInv

\* Steps that touch neither the messages nor the handlers.
LEMMA LockStep ==
  ASSUME JobsInv, UNCHANGED <<handler, todo, current, pending, failedList, sent, overlap>>,
         JobsTypes', LockOK', redisErrors' >= redisErrors
  PROVE  JobsInv'
<1>1. redisErrors \in Nat /\ redisErrors' \in Nat
  BY DEF JobsInv, JobsTypes
<1>2. HandOK'
  <2>1. redisErrors > 0 => redisErrors' > 0
    BY <1>1
  <2>2. QED BY <2>1 DEF JobsInv, HandOK
<1>3. redisErrors' = 0 /\ ~overlap' => Alone'
  BY <1>1 DEF JobsInv, Alone, J!Working
<1>4. QED BY <1>2, <1>3 DEF JobsInv

LEMMA ErrorCounted ==
  ASSUME JobsInv, J!RedisError
  PROVE  redisErrors' \in Nat /\ redisErrors' > 0 /\ redisErrors' # 0 /\ redisErrors' >= redisErrors
<1>1. redisErrors \in Nat
  BY DEF JobsInv, JobsTypes
<1>2. redisErrors' = redisErrors + 1
  BY DEF J!RedisError
<1>3. QED BY <1>1, <1>2

\* The lock is taken by one, and given up, or lost, by one that is not in its race.
LEMMA LockSteps ==
  ASSUME JobsInv,
         \/ \E x \in Executions :
              \/ J!AcquireFails(x) \/ J!Settle(x) \/ J!ReadLock(x) \/ J!DeleteLock(x) \/ J!ReleaseFails(x)
         \/ J!LockExpires
  PROVE  JobsInv'
<1>1. CASE J!LockExpires
  <2>1. /\ lock \in Executions /\ outer[lock] # "racing" /\ lock' = None
        /\ cutShort' = (cutShort \/ outer[lock] = "delete")
        /\ UNCHANGED <<outer, handler, todo, current, pending, failedList, sent, overlap, redisErrors>>
    BY <1>1 DEF J!LockExpires, J!smsVars, JobsInv, JobsTypes
  <2>2. JobsTypes'
    BY <2>1 DEF JobsInv, JobsTypes
  <2>3. LockOK'
    BY <2>1 DEF JobsInv, LockOK
  <2>4. redisErrors' >= redisErrors
    <3>1. redisErrors \in Nat
      BY DEF JobsInv, JobsTypes
    <3>2. QED BY <2>1, <3>1
  <2>5. QED BY <2>1, <2>2, <2>3, <2>4, LockStep
<1>2. ASSUME NEW x \in Executions,
             \/ J!AcquireFails(x) \/ J!Settle(x) \/ J!ReadLock(x) \/ J!DeleteLock(x) \/ J!ReleaseFails(x)
      PROVE  JobsInv'
  <2>1. UNCHANGED <<handler, todo, current, pending, failedList, sent, overlap, cutShort>>
    BY <1>2 DEF J!AcquireFails, J!Settle, J!ReadLock, J!DeleteLock, J!ReleaseFails, J!smsVars
  <2>2. redisErrors' \in Nat /\ redisErrors' >= redisErrors
    <3>1. redisErrors \in Nat
      BY DEF JobsInv, JobsTypes
    <3>2. J!RedisError \/ redisErrors' = redisErrors
      BY <1>2 DEF J!AcquireFails, J!Settle, J!ReadLock, J!DeleteLock, J!ReleaseFails
    <3>3. QED BY <3>1, <3>2, ErrorCounted
  <2>3. \E to \in {"finally", "delete", "done"} :
          /\ outer' = [outer EXCEPT ![x] = to]
          /\ \/ to # "delete" /\ lock' = lock
             \/ to = "delete" /\ lock = x /\ lock' = lock
             \/ outer[x] = "delete" /\ to = "done" /\ lock' = None
    BY <1>2 DEF J!AcquireFails, J!Settle, J!ReadLock, J!DeleteLock, J!ReleaseFails, J!Outer
  <2>4. JobsTypes'
    BY <2>1, <2>2, <2>3 DEF JobsInv, JobsTypes
  <2>5. LockOK'
    <3> SUFFICES ASSUME ~cutShort', NEW y \in Executions, outer'[y] \in {"racing", "delete"}
                 PROVE  lock' = y
      BY DEF LockOK
    <3>1. \A z \in Executions : outer[z] \in {"racing", "delete"} => lock = z
      BY <2>1 DEF JobsInv, LockOK
    <3>2. outer \in [Executions -> {"idle", "racing", "finally", "delete", "done"}]
      BY DEF JobsInv, JobsTypes
    <3>3. CASE y = x
      BY <2>3, <3>2, <3>3
    <3>4. CASE y # x
      <4>1. outer'[y] = outer[y] /\ lock = y
        BY <2>3, <3>1, <3>2, <3>4
      <4>2. outer[x] # "delete" /\ lock # x
        BY <3>1, <3>4, <4>1
      <4>3. QED BY <2>3, <4>1, <4>2
    <3>5. QED BY <3>3, <3>4
  <2>6. QED BY <2>1, <2>2, <2>4, <2>5, LockStep
<1>3. QED BY <1>1, <1>2

LEMMA AcquireKeepsJobs ==
  ASSUME JobsInv, NEW x \in Executions, J!Acquire(x)
  PROVE  JobsInv'
<1>1. CASE lock = None
  <2>1. /\ lock' = x /\ outer' = [outer EXCEPT ![x] = "racing"]
        /\ handler' = [handler EXCEPT ![x] = "list"]
        /\ overlap' = (overlap \/ \E y \in Executions : J!Working(y))
        /\ UNCHANGED <<todo, current, cutShort, pending, failedList, sent, redisErrors>>
    BY <1>1 DEF J!Acquire
  <2>2. JobsTypes'
    BY <2>1 DEF JobsInv, JobsTypes
  <2>3. LockOK'
    BY <1>1, <2>1, Bounds DEF JobsInv, JobsTypes, LockOK, J!JobsOK
  <2>4. HandOK'
    BY <2>1 DEF JobsInv, JobsTypes, HandOK
  <2>5. ASSUME redisErrors' = 0, ~overlap' PROVE Alone'
    <3>1. Alone /\ \A y \in Executions : ~J!Working(y)
      BY <2>1, <2>5 DEF JobsInv
    <3>2. \A y \in Executions : J!Working(y)' => y = x
      BY <2>1, <3>1 DEF J!Working, JobsInv, JobsTypes
    <3>3. \A y \in Executions : handler'[y] \notin {"next", "remove", "record"}
      BY <2>1, <3>1 DEF J!Working, JobsInv, JobsTypes
    <3>4. \A c \in pending : ~(sent[c.of] > 0)
      BY <3>1 DEF Alone, J!Working
    <3>5. QED BY <2>1, <3>1, <3>2, <3>3, <3>4 DEF Alone
  <2>6. QED BY <2>2, <2>3, <2>4, <2>5 DEF JobsInv
<1>2. CASE lock # None
  <2>1. outer' = [outer EXCEPT ![x] = "finally"]
        /\ UNCHANGED <<lock, handler, overlap, todo, current, cutShort, pending, failedList, sent, redisErrors>>
    BY <1>2 DEF J!Acquire
  <2>2. JobsTypes'
    BY <2>1 DEF JobsInv, JobsTypes
  <2>3. LockOK'
    BY <2>1 DEF JobsInv, JobsTypes, LockOK
  <2>4. redisErrors' >= redisErrors
    <3>1. redisErrors \in Nat
      BY DEF JobsInv, JobsTypes
    <3>2. QED BY <2>1, <3>1
  <2>5. QED BY <2>1, <2>2, <2>3, <2>4, LockStep
<1>3. QED BY <1>1, <1>2

\* After an error nothing is promised of what is alone: the other parts are all there is to keep.
LEMMA ErrorStep ==
  ASSUME JobsInv, J!RedisError, UNCHANGED <<lock, cutShort, pending, failedList, sent, overlap>>,
         JobsTypes', LockOK',
         \A x \in Executions :
           /\ \A c \in todo'[x] : c \in todo[x]
           /\ handler'[x] \in {"remove", "record", "retry", "give up", "drop"} =>
                /\ handler[x] \in {"remove", "record", "retry", "give up", "drop"}
                /\ current'[x] = current[x]
  PROVE  JobsInv'
<1>1. redisErrors' \in Nat /\ redisErrors' > 0 /\ redisErrors' # 0
  BY ErrorCounted
<1>2. HandOK'
  BY <1>1 DEF JobsInv, HandOK
<1>3. QED BY <1>1, <1>2 DEF JobsInv

LEMMA FailuresKeepJobs ==
  ASSUME JobsInv, NEW x \in Executions, J!JobCrash(x) \/ J!SendFails(x) \/ J!RunFails(x)
  PROVE  JobsInv'
<1>1. /\ J!RedisError /\ UNCHANGED <<lock, cutShort, pending, failedList, sent, overlap>>
      /\ redisErrors' \in Nat
  BY ErrorCounted DEF J!JobCrash, J!SendFails, J!RunFails, J!smsVars
<1>2. CASE J!JobCrash(x)
  <2>1. /\ outer' = [outer EXCEPT ![x] = "done"] /\ handler' = [handler EXCEPT ![x] = "ended"]
        /\ todo' = [todo EXCEPT ![x] = {}] /\ current' = [current EXCEPT ![x] = None]
    BY <1>2 DEF J!JobCrash
  <2>2. JobsTypes'
    BY <1>1, <2>1 DEF JobsInv, JobsTypes
  <2>3. LockOK'
    BY <1>1, <2>1 DEF JobsInv, JobsTypes, LockOK
  <2>4. \A y \in Executions :
           /\ \A c \in todo'[y] : c \in todo[y]
           /\ handler'[y] \in {"remove", "record", "retry", "give up", "drop"} =>
                /\ handler[y] \in {"remove", "record", "retry", "give up", "drop"}
                /\ current'[y] = current[y]
    BY <2>1 DEF JobsInv, JobsTypes
  <2>5. QED BY <1>1, <2>2, <2>3, <2>4, ErrorStep
<1>3. CASE J!SendFails(x)
  <2>1. /\ handler[x] \in {"remove", "record"}
        /\ \E to \in {"retry", "give up"} : handler' = [handler EXCEPT ![x] = to]
        /\ UNCHANGED <<outer, todo, current>>
    BY <1>3 DEF J!SendFails, J!Handler
  <2>2. JobsTypes' /\ LockOK'
    BY <1>1, <2>1 DEF JobsInv, JobsTypes, LockOK
  <2>3. \A y \in Executions :
           /\ \A c \in todo'[y] : c \in todo[y]
           /\ handler'[y] \in {"remove", "record", "retry", "give up", "drop"} =>
                /\ handler[y] \in {"remove", "record", "retry", "give up", "drop"}
                /\ current'[y] = current[y]
    BY <2>1 DEF JobsInv, JobsTypes
  <2>4. QED BY <1>1, <2>2, <2>3, ErrorStep
<1>4. CASE J!RunFails(x)
  <2>1. /\ handler' = [handler EXCEPT ![x] = "threw"]
        /\ current' = [current EXCEPT ![x] = None] /\ UNCHANGED <<outer, todo>>
    BY <1>4 DEF J!RunFails, J!Handler
  <2>2. JobsTypes' /\ LockOK'
    BY <1>1, <2>1 DEF JobsInv, JobsTypes, LockOK
  <2>3. \A y \in Executions :
           /\ \A c \in todo'[y] : c \in todo[y]
           /\ handler'[y] \in {"remove", "record", "retry", "give up", "drop"} =>
                /\ handler[y] \in {"remove", "record", "retry", "give up", "drop"}
                /\ current'[y] = current[y]
    BY <2>1 DEF JobsInv, JobsTypes
  <2>4. QED BY <1>1, <2>2, <2>3, ErrorStep
<1>5. QED BY <1>2, <1>3, <1>4

\* A step of one handler, which leaves the locks and the other handlers alone.
LEMMA HandlerStep ==
  ASSUME JobsInv, NEW x \in Executions, J!Working(x),
         UNCHANGED <<outer, lock, cutShort, redisErrors, overlap>>,
         NEW to \in {"next", "remove", "record", "drop", "ended"}, handler' = [handler EXCEPT ![x] = to],
         DOMAIN todo' = Executions, DOMAIN current' = Executions, sent' \in [Messages -> 0..2],
         HandOK',
         \A y \in Executions \ {x} : todo'[y] = todo[y] /\ current'[y] = current[y],
         redisErrors = 0 /\ ~overlap /\ Alone => 
           /\ \A c, d \in pending' : c.of = d.of => c = d
           /\ to \in {"next", "remove", "record"} =>
                \A c \in todo'[x] : c \in pending' /\ sent'[c.of] = 0
           /\ \A c \in pending' : sent'[c.of] > 0 => to = "remove" /\ current'[x] = c
           /\ \A m \in Messages : sent'[m] <= 1
  PROVE  JobsInv'
<1>1. JobsTypes' /\ LockOK'
  BY DEF JobsInv, JobsTypes, LockOK
<1>2. ASSUME redisErrors' = 0, ~overlap' PROVE Alone'
  <2>1. Alone /\ redisErrors = 0 /\ ~overlap
    BY <1>2 DEF JobsInv
  <2>2. \A y \in Executions : J!Working(y) => y = x
    BY <2>1 DEF Alone
  <2>3. \A y \in Executions \ {x} : handler'[y] = handler[y] /\ ~J!Working(y)
    BY <2>2 DEF JobsInv, JobsTypes
  <2>4. \A y \in Executions \ {x} :
          ~J!Working(y)' /\ handler'[y] \notin {"next", "remove", "record"}
    BY <2>3 DEF J!Working
  <2>5. handler'[x] = to
    BY DEF JobsInv, JobsTypes
  <2>6. QED BY <2>1, <2>4, <2>5 DEF Alone
<1>3. QED BY <1>1, <1>2 DEF JobsInv

LEMMA WalkingKeepsJobs ==
  ASSUME JobsInv, NEW x \in Executions, J!ListPending(x) \/ J!NotDue(x) \/ J!Record(x) \/ J!RunEnds(x)
  PROVE  JobsInv'
<1>1. /\ UNCHANGED <<outer, lock, cutShort, redisErrors, overlap, pending, failedList, sent>>
      /\ sent' \in [Messages -> 0..2]
  BY DEF J!ListPending, J!NotDue, J!Record, J!RunEnds, J!smsVars, JobsInv, JobsTypes
<1>2. CASE J!ListPending(x)
  <2>1. /\ handler[x] = "list" /\ handler' = [handler EXCEPT ![x] = "next"]
        /\ todo' = [todo EXCEPT ![x] = pending] /\ current' = current
    BY <1>2 DEF J!ListPending, J!Handler
  <2>2. J!Working(x)
    BY <2>1 DEF J!Working
  <2>3. HandOK'
    BY <1>1, <2>1 DEF JobsInv, JobsTypes, HandOK
  <2>4. DOMAIN todo' = Executions /\ DOMAIN current' = Executions /\ todo'[x] = pending
        /\ \A y \in Executions \ {x} : todo'[y] = todo[y] /\ current'[y] = current[y]
    BY <2>1 DEF JobsInv, JobsTypes
  <2>5. ASSUME Alone PROVE \A c \in pending : ~(sent[c.of] > 0)
    BY <2>1, <2>2, <2>5 DEF Alone, J!Working
  <2>6. ASSUME Alone PROVE \A c \in pending : sent[c.of] = 0
    <3>1. \A c \in pending : sent[c.of] \in 0..2
      BY DEF JobsInv, JobsTypes, HandOK
    <3>2. QED BY <2>5, <2>6, <3>1
  <2>7. QED BY <1>1, <2>1, <2>2, <2>3, <2>4, <2>5, <2>6, HandlerStep DEF Alone
<1>3. CASE J!NotDue(x)
  <2>1. PICK c \in todo[x] : todo' = [todo EXCEPT ![x] = @ \ {c}]
    BY <1>3 DEF J!NotDue, J!Advance
  <2>2. /\ handler[x] = "next" /\ handler' = [handler EXCEPT ![x] = "next"]
        /\ current' = current
    BY <1>3 DEF J!NotDue, JobsInv, JobsTypes
  <2>3. J!Working(x)
    BY <2>2 DEF J!Working
  <2>4. DOMAIN todo' = Executions /\ DOMAIN current' = Executions /\ todo'[x] \subseteq todo[x]
        /\ \A y \in Executions \ {x} : todo'[y] = todo[y] /\ current'[y] = current[y]
    BY <2>1, <2>2 DEF JobsInv, JobsTypes
  <2>5. HandOK'
    BY <1>1, <2>2, <2>4 DEF JobsInv, JobsTypes, HandOK
  <2>6. ASSUME Alone PROVE \A d \in pending : ~(sent[d.of] > 0)
    BY <2>2, <2>3, <2>6 DEF Alone, J!Working
  <2>7. ASSUME Alone PROVE \A d \in todo'[x] : d \in pending /\ sent[d.of] = 0
    BY <2>2, <2>4, <2>7 DEF Alone
  <2>8. QED BY <1>1, <2>2, <2>3, <2>4, <2>5, <2>6, <2>7, HandlerStep DEF Alone
<1>4. CASE J!Record(x)
  <2>1. /\ handler[x] = "record" /\ handler' = [handler EXCEPT ![x] = "next"]
        /\ current' = [current EXCEPT ![x] = None] /\ todo' = todo
    BY <1>4 DEF J!Record, J!Handler
  <2>2. J!Working(x)
    BY <2>1 DEF J!Working
  <2>3. HandOK'
    BY <1>1, <2>1 DEF JobsInv, JobsTypes, HandOK
  <2>4. DOMAIN todo' = Executions /\ DOMAIN current' = Executions
        /\ \A y \in Executions \ {x} : todo'[y] = todo[y] /\ current'[y] = current[y]
    BY <2>1 DEF JobsInv, JobsTypes
  <2>5. ASSUME Alone PROVE \A c \in pending : ~(sent[c.of] > 0)
    BY <2>1, <2>2, <2>5 DEF Alone, J!Working
  <2>6. ASSUME Alone PROVE \A c \in todo'[x] : c \in pending /\ sent[c.of] = 0
    BY <2>1, <2>6 DEF Alone
  <2>7. QED BY <1>1, <2>1, <2>2, <2>3, <2>4, <2>5, <2>6, HandlerStep DEF Alone
<1>5. CASE J!RunEnds(x)
  <2>1. /\ handler[x] = "next" /\ handler' = [handler EXCEPT ![x] = "ended"] /\ UNCHANGED <<todo, current>>
    BY <1>5 DEF J!RunEnds, J!Handler
  <2>2. J!Working(x)
    BY <2>1 DEF J!Working
  <2>3. HandOK'
    BY <1>1, <2>1 DEF JobsInv, JobsTypes, HandOK
  <2>4. DOMAIN todo' = Executions /\ DOMAIN current' = Executions
        /\ \A y \in Executions \ {x} : todo'[y] = todo[y] /\ current'[y] = current[y]
    BY <2>1 DEF JobsInv, JobsTypes
  <2>5. ASSUME Alone PROVE \A c \in pending : ~(sent[c.of] > 0)
    BY <2>1, <2>2, <2>5 DEF Alone, J!Working
  <2>6. QED BY <1>1, <2>1, <2>2, <2>3, <2>4, <2>5, HandlerStep DEF Alone
<1>6. QED BY <1>2, <1>3, <1>4, <1>5

LEMMA SendKeepsJobs ==
  ASSUME JobsInv, NEW x \in Executions, J!Send(x)
  PROVE  JobsInv'
<1>1. PICK c \in todo[x] :
        /\ todo' = [todo EXCEPT ![x] = @ \ {c}]
        /\ current' = [current EXCEPT ![x] = c]
        /\ sent' = [sent EXCEPT ![c.of] = IF @ < 2 THEN @ + 1 ELSE 2]
  BY DEF J!Send, J!Advance
<1>2. /\ handler[x] = "next" /\ handler' = [handler EXCEPT ![x] = "remove"]
      /\ UNCHANGED <<outer, lock, cutShort, pending, failedList, overlap, redisErrors>>
  BY DEF J!Send, J!Handler
<1>3. J!Working(x) /\ c.of \in Messages /\ sent \in [Messages -> 0..2]
  BY <1>1, <1>2 DEF J!Working, JobsInv, JobsTypes, HandOK
<1>4. /\ sent' \in [Messages -> 0..2] /\ sent'[c.of] > 0
      /\ sent[c.of] = 0 => sent'[c.of] = 1
      /\ \A m \in Messages \ {c.of} : sent'[m] = sent[m]
      /\ \A m \in Messages : sent[m] > 0 => sent'[m] > 0
  BY <1>1, <1>3
<1>5. /\ DOMAIN todo' = Executions /\ DOMAIN current' = Executions
      /\ todo'[x] = todo[x] \ {c} /\ current'[x] = c /\ handler'[x] = "remove"
      /\ \A y \in Executions \ {x} :
           todo'[y] = todo[y] /\ current'[y] = current[y] /\ handler'[y] = handler[y]
  BY <1>1, <1>2 DEF JobsInv, JobsTypes
<1>6. HandOK'
  <2>1. (\A d \in pending' : d.of \in Messages) /\ \A y \in Executions : \A d \in todo'[y] : d.of \in Messages
    BY <1>2, <1>5 DEF JobsInv, HandOK
  <2>2. \A y \in Executions :
          handler'[y] \in {"remove", "record", "retry", "give up", "drop"} =>
            current'[y].of \in Messages /\ sent'[current'[y].of] > 0
    BY <1>3, <1>4, <1>5 DEF JobsInv, HandOK
  <2>3. \A y \in Executions : handler'[y] \in {"retry", "give up", "drop"} => redisErrors' > 0
    BY <1>2, <1>5 DEF JobsInv, HandOK
  <2>4. \A m \in failedList' : m \in Messages /\ sent'[m] > 0 /\ redisErrors' > 0
    BY <1>2, <1>4 DEF JobsInv, HandOK
  <2>5. QED BY <2>1, <2>2, <2>3, <2>4 DEF HandOK
<1>7. ASSUME Alone
      PROVE  /\ \A b, d \in pending' : b.of = d.of => b = d
             /\ \A d \in todo'[x] : d \in pending' /\ sent'[d.of] = 0
             /\ \A d \in pending' : sent'[d.of] > 0 => current'[x] = d
             /\ \A m \in Messages : sent'[m] <= 1
  <2>1. /\ \A d \in todo[x] : d \in pending /\ sent[d.of] = 0
        /\ \A d \in pending : d.of \in Messages
        /\ \A b, d \in pending : b.of = d.of => b = d
    BY <1>2, <1>7 DEF Alone, JobsInv, HandOK
  <2>2. \A d \in pending : ~(sent[d.of] > 0)
    BY <1>2, <1>3, <1>7 DEF Alone, J!Working
  <2>3. \A d \in todo'[x] : d \in pending' /\ sent'[d.of] = 0
    BY <1>1, <1>2, <1>4, <1>5, <2>1
  <2>4. \A d \in pending' : sent'[d.of] > 0 => current'[x] = d
    BY <1>1, <1>2, <1>4, <1>5, <2>1, <2>2
  <2>5. \A m \in Messages : sent'[m] <= 1
    BY <1>1, <1>4, <1>7, <2>1 DEF Alone
  <2>6. QED BY <1>2, <2>1, <2>3, <2>4, <2>5
<1>8. /\ "remove" \in {"next", "remove", "record", "drop", "ended"}
      /\ \A y \in Executions \ {x} : todo'[y] = todo[y] /\ current'[y] = current[y]
  BY <1>5
<1>9. QED BY <1>2, <1>3, <1>4, <1>5, <1>6, <1>7, <1>8, HandlerStep

LEMMA RemoveKeepsJobs ==
  ASSUME JobsInv, NEW x \in Executions, J!Remove(x)
  PROVE  JobsInv'
<1>1. /\ handler[x] = "remove" /\ handler' = [handler EXCEPT ![x] = "record"]
      /\ pending' = pending \ {current[x]}
      /\ UNCHANGED <<outer, todo, current, lock, cutShort, failedList, sent, overlap, redisErrors>>
  BY DEF J!Remove, J!Handler
<1>2. J!Working(x) /\ sent' \in [Messages -> 0..2] /\ DOMAIN todo' = Executions /\ DOMAIN current' = Executions
  BY <1>1 DEF J!Working, JobsInv, JobsTypes
<1>3. current[x].of \in Messages /\ sent[current[x].of] > 0
  BY <1>1 DEF JobsInv, HandOK
<1>4. HandOK'
  BY <1>1 DEF JobsInv, JobsTypes, HandOK
<1>5. ASSUME Alone
      PROVE  /\ \A b, d \in pending' : b.of = d.of => b = d
             /\ \A d \in todo'[x] : d \in pending' /\ sent'[d.of] = 0
             /\ \A d \in pending' : ~(sent'[d.of] > 0)
             /\ \A m \in Messages : sent'[m] <= 1
  <2>1. \A b, d \in pending' : b.of = d.of => b = d
    BY <1>1, <1>5 DEF Alone
  <2>2. \A d \in todo[x] : d \in pending /\ sent[d.of] = 0 /\ d # current[x]
    BY <1>1, <1>3, <1>5 DEF Alone
  <2>3. \A d \in pending : sent[d.of] > 0 => d = current[x]
    BY <1>1, <1>2, <1>5 DEF Alone, J!Working
  <2>4. QED BY <1>1, <1>5, <2>1, <2>2, <2>3 DEF Alone
<1>6. QED BY <1>1, <1>2, <1>4, <1>5, HandlerStep

\* A message that was not sent in the view of its handler was: there was an error.
LEMMA GivenUpKeepsJobs ==
  ASSUME JobsInv, NEW x \in Executions, J!Retry(x) \/ J!GiveUp(x) \/ J!DropGivenUp(x)
  PROVE  JobsInv'
<1>1. /\ handler[x] \in {"retry", "give up", "drop"}
      /\ UNCHANGED <<outer, todo, lock, cutShort, sent, overlap, redisErrors>>
      /\ sent' \in [Messages -> 0..2] /\ DOMAIN todo' = Executions
  BY DEF J!Retry, J!GiveUp, J!DropGivenUp, J!Handler, JobsInv, JobsTypes
<1>2. J!Working(x) /\ redisErrors > 0 /\ current[x].of \in Messages /\ sent[current[x].of] > 0
  BY <1>1 DEF J!Working, JobsInv, HandOK
<1>3. redisErrors # 0
  <2>1. redisErrors \in Nat
    BY DEF JobsInv, JobsTypes
  <2>2. QED BY <1>2, <2>1
<1>4. CASE J!Retry(x)
  <2>1. /\ handler' = [handler EXCEPT ![x] = "next"] /\ current' = [current EXCEPT ![x] = None]
        /\ failedList' = failedList
        /\ pending' = pending \cup {J!Copy(current[x].of, current[x].retries + 1, <<x, redisErrors>>)}
    BY <1>4 DEF J!Retry, J!Handler
  <2>2. \A c \in pending' : c.of \in Messages
    <3>1. J!Copy(current[x].of, current[x].retries + 1, <<x, redisErrors>>).of = current[x].of
      BY DEF J!Copy
    <3>2. \A c \in pending : c.of \in Messages
      BY DEF JobsInv, HandOK
    <3>3. QED BY <1>2, <2>1, <3>1, <3>2
  <2>3. HandOK'
    BY <1>1, <2>1, <2>2 DEF JobsInv, JobsTypes, HandOK
  <2>4. /\ DOMAIN current' = Executions
        /\ \A y \in Executions \ {x} : todo'[y] = todo[y] /\ current'[y] = current[y]
    BY <1>1, <2>1 DEF JobsInv, JobsTypes
  <2>5. QED BY <1>1, <1>2, <1>3, <2>1, <2>3, <2>4, HandlerStep
<1>5. CASE J!GiveUp(x)
  <2>1. /\ handler' = [handler EXCEPT ![x] = "drop"] /\ current' = current
        /\ failedList' = failedList \cup {current[x].of} /\ pending' = pending
    BY <1>5 DEF J!GiveUp, J!Handler
  <2>2. HandOK'
    BY <1>1, <1>2, <2>1 DEF JobsInv, JobsTypes, HandOK
  <2>3. /\ DOMAIN current' = Executions
        /\ \A y \in Executions \ {x} : todo'[y] = todo[y] /\ current'[y] = current[y]
    BY <1>1, <2>1 DEF JobsInv, JobsTypes
  <2>4. QED BY <1>1, <1>2, <1>3, <2>1, <2>2, <2>3, HandlerStep
<1>6. CASE J!DropGivenUp(x)
  <2>1. /\ handler' = [handler EXCEPT ![x] = "next"] /\ current' = [current EXCEPT ![x] = None]
        /\ failedList' = failedList /\ pending' = pending \ {current[x]}
    BY <1>6 DEF J!DropGivenUp, J!Handler
  <2>2. HandOK'
    BY <1>1, <2>1 DEF JobsInv, JobsTypes, HandOK
  <2>3. /\ DOMAIN current' = Executions
        /\ \A y \in Executions \ {x} : todo'[y] = todo[y] /\ current'[y] = current[y]
    BY <1>1, <2>1 DEF JobsInv, JobsTypes
  <2>4. QED BY <1>1, <1>2, <1>3, <2>1, <2>2, <2>3, HandlerStep
<1>7. QED BY <1>4, <1>5, <1>6

LEMMA JobsStep == JobsInv /\ J!JobsNext => JobsInv'
BY LockSteps, AcquireKeepsJobs, FailuresKeepJobs, WalkingKeepsJobs, SendKeepsJobs, RemoveKeepsJobs,
   GivenUpKeepsJobs DEF J!JobsNext

LEMMA JobsStutter == JobsInv /\ UNCHANGED jobsVars => JobsInv'
<1> SUFFICES ASSUME JobsInv, UNCHANGED jobsVars PROVE JobsInv'
  OBVIOUS
<1>1. JobsTypes' /\ LockOK' /\ HandOK'
  BY DEF JobsInv, jobsVars, JobsTypes, LockOK, HandOK
<1>2. redisErrors' = 0 /\ ~overlap' => Alone'
  BY DEF JobsInv, jobsVars, Alone, J!Working
<1>3. QED BY <1>1, <1>2 DEF JobsInv

\* jobs/scheduler.ts: one execution at a time is in its race, unless a lock expired under its
\* holder; sms-processor.ts: a message is sent twice only after an error of Redis or when handlers
\* overlapped, and given up only after it was sent: for any number of executions and messages.
THEOREM JobsAreAlone == Spec => []JobsExcludeEachOther
<1> DEFINE Inv == part = "jobs" => JobsInv
<1>1. Init => Inv
  BY InitJobs
<1>2. Inv /\ [Next]_vars => Inv'
  <2> SUFFICES ASSUME part = "jobs", JobsInv, [Next]_vars PROVE JobsInv'
    BY DEF Next, Others, vars
  <2>1. CASE Next
    BY <2>1, JobsStep DEF Next
  <2>2. CASE UNCHANGED vars
    BY <2>2, JobsStutter DEF vars
  <2>3. QED BY <2>1, <2>2
<1>3. Inv => JobsExcludeEachOther
  <2> SUFFICES ASSUME JobsInv PROVE J!OneExecution /\ J!SentOnce
    BY DEF JobsExcludeEachOther
  <2>1. ASSUME ~cutShort PROVE Cardinality({x \in Executions : outer[x] = "racing"}) <= 1
    <3>1. {x \in Executions : outer[x] = "racing"} \in SUBSET {lock}
      BY <2>1 DEF JobsInv, LockOK
    <3>2. IsFiniteSet({lock}) /\ Cardinality({lock}) = 1
      BY FS_Singleton
    <3>3. QED BY <3>1, <3>2, FS_Subset
  <2>2. J!OneExecution
    BY <2>1 DEF J!OneExecution, J!Cardinality, Cardinality
  <2>3. J!SentOnce
    BY DEF JobsInv, HandOK, Alone, J!SentOnce
  <2>4. QED BY <2>2, <2>3
<1>4. QED BY <1>1, <1>2, <1>3, PTL DEF Spec

-----------------------------------------------------------------------------
(* Twilio: the inductive invariant *)

TwilioTypes ==
  /\ smsCall \in [Calls -> [at : {"idle", "find", "ask", "limit", "log", "mark"}, sid : Sids \cup {None}]]
  /\ notice \in [Notices -> {"idle", "expire", "post"}]
  /\ logs \in 0..2 /\ posted \in 0..2 /\ smsFailures \in Nat
  /\ lastSent \in {"none", "bare", "hour"}

\* A reply past its UPDATE has recorded its request; one about to be marked has, or had no
\* delivery.
Handled ==
  /\ processed \subseteq requested \cup unmatched
  /\ \A c \in Calls :
       /\ smsCall[c].at \in {"find", "ask", "mark"} => smsCall[c].sid # None
       /\ smsCall[c].at \in {"limit", "log"} /\ smsCall[c].sid # None =>
            smsCall[c].sid \in requested
       /\ smsCall[c].at = "mark" => smsCall[c].sid \in requested \cup unmatched

\* Calls that never met come one by one: who is about to send has seen no row, and there is none.
OneCall ==
  /\ \A c, d \in Calls : smsCall[c].at # "idle" /\ smsCall[d].at # "idle" => c = d
  /\ \A c \in Calls : smsCall[c].at = "log" => logs = 0
  /\ logs <= 1

\* The key of a number has one notification behind it, which gives it a time to live first
\* and posts then.
OneNotice ==
  /\ \A n1, n2 \in Notices : notice[n1] # "idle" /\ notice[n2] # "idle" => n1 = n2
  /\ \A n1 \in Notices : /\ notice[n1] # "idle" => posted = 0
                         /\ notice[n1] = "expire" => lastSent = "bare"
                         /\ notice[n1] = "post" => lastSent = "hour"
  /\ lastSent = "bare" => \E n1 \in Notices : notice[n1] = "expire"
  /\ lastSent = "none" => posted = 0
  /\ posted <= 1

TwilioInv ==
  /\ TwilioTypes /\ Handled
  /\ ~meeting /\ smsFailures = 0 => OneCall
  /\ smsFailures = 0 => OneNotice

-----------------------------------------------------------------------------

LEMMA InitTwilio == Init => TwilioInv
<1> SUFFICES ASSUME T!TwilioInit PROVE TwilioInv
  BY DEF Init
<1>1. TwilioTypes /\ Handled
  BY DEF T!TwilioInit, TwilioTypes, Handled
<1>2. OneCall /\ OneNotice
  BY DEF T!TwilioInit, OneCall, OneNotice
<1>3. QED BY <1>1, <1>2 DEF TwilioInv

LEMMA FailureCounted ==
  ASSUME TwilioInv, T!SmsFails
  PROVE  smsFailures' \in Nat /\ smsFailures' # 0
<1>1. smsFailures \in Nat
  BY DEF TwilioInv, TwilioTypes
<1>2. smsFailures' = smsFailures + 1
  BY DEF T!SmsFails
<1>3. QED BY <1>1, <1>2

LEMMA MoreIsSmall ==
  ASSUME NEW i \in 0..2
  PROVE  T!OneMore(i) \in 0..2 /\ (i = 0 => T!OneMore(i) = 1)
BY DEF T!OneMore

\* A call comes in: alone, or from now on in a meeting.
LEMMA CallBegins ==
  ASSUME TwilioInv, NEW c \in Calls, smsCall[c].at = "idle",
         NEW at \in {"find", "limit"}, NEW sid \in Sids \cup {None},
         smsCall' = [smsCall EXCEPT ![c] = [at |-> at, sid |-> sid]],
         at = "find" => sid # None, at = "limit" => sid = None,
         meeting' = (meeting \/ T!Meets),
         smsFailures' = smsFailures \/ T!SmsFails,
         UNCHANGED <<processed, requested, unmatched, logs, lastSent, notice, posted>>
  PROVE  TwilioInv'
<1>1. /\ smsCall'[c] = [at |-> at, sid |-> sid]
      /\ \A d \in Calls \ {c} : smsCall'[d] = smsCall[d]
      /\ smsCall' \in [Calls -> [at : {"idle", "find", "ask", "limit", "log", "mark"}, sid : Sids \cup {None}]]
  BY DEF TwilioInv, TwilioTypes
<1>2. smsFailures' \in Nat /\ (smsFailures' = 0 => smsFailures = 0)
  BY FailureCounted DEF TwilioInv, TwilioTypes
<1>3. TwilioTypes'
  BY <1>1, <1>2 DEF TwilioInv, TwilioTypes
<1>4. Handled'
  BY <1>1 DEF TwilioInv, Handled
<1>5. ASSUME ~meeting', smsFailures' = 0 PROVE OneCall'
  <2>1. OneCall /\ \A d \in Calls : smsCall[d].at = "idle"
    BY <1>2, <1>5 DEF TwilioInv, T!Meets
  <2>2. smsCall'[c].at # "log" /\ \A d \in Calls \ {c} : smsCall'[d].at = "idle"
    BY <1>1, <2>1
  <2>3. QED BY <2>1, <2>2 DEF OneCall
<1>6. smsFailures' = 0 => OneNotice'
  BY <1>2 DEF TwilioInv, OneNotice
<1>7. QED BY <1>3, <1>4, <1>5, <1>6 DEF TwilioInv

\* A call goes on, and the rows and marks with it.
LEMMA CallGoesOn ==
  ASSUME TwilioInv, NEW c \in Calls, smsCall[c].at # "idle",
         NEW at \in {"idle", "ask", "limit", "log", "mark"}, smsCall' = [smsCall EXCEPT ![c].at = at],
         smsFailures' = smsFailures \/ T!SmsFails,
         logs' \in 0..2, requested \subseteq requested', unmatched \subseteq unmatched',
         processed' \subseteq requested' \cup unmatched',
         at \in {"limit", "log"} => smsCall[c].sid = None \/ smsCall[c].sid \in requested',
         at = "mark" => smsCall[c].sid \in requested' \cup unmatched',
         at \in {"ask", "mark"} => smsCall[c].sid # None,
         ~meeting /\ smsFailures' = 0 /\ OneCall => logs' <= 1 /\ (at = "log" => logs' = 0),
         UNCHANGED <<meeting, lastSent, notice, posted>>
  PROVE  TwilioInv'
<1>1. /\ smsCall'[c].at = at /\ smsCall'[c].sid = smsCall[c].sid
      /\ \A d \in Calls \ {c} : smsCall'[d] = smsCall[d]
      /\ smsCall' \in [Calls -> [at : {"idle", "find", "ask", "limit", "log", "mark"}, sid : Sids \cup {None}]]
  BY DEF TwilioInv, TwilioTypes
<1>2. smsFailures' \in Nat /\ (smsFailures' = 0 => smsFailures = 0)
  BY FailureCounted DEF TwilioInv, TwilioTypes
<1>3. TwilioTypes'
  BY <1>1, <1>2 DEF TwilioInv, TwilioTypes
<1>4. Handled'
  BY <1>1 DEF TwilioInv, Handled
<1>5. ASSUME ~meeting', smsFailures' = 0 PROVE OneCall'
  <2>1. OneCall /\ \A d \in Calls \ {c} : smsCall[d].at = "idle"
    BY <1>2, <1>5 DEF TwilioInv, OneCall
  <2>2. \A d \in Calls \ {c} : smsCall'[d].at = "idle"
    BY <1>1, <2>1
  <2>3. logs' <= 1 /\ (smsCall'[c].at = "log" => logs' = 0)
    BY <1>1, <1>5, <2>1
  <2>4. QED BY <2>2, <2>3 DEF OneCall
<1>6. smsFailures' = 0 => OneNotice'
  BY <1>2 DEF TwilioInv, OneNotice
<1>7. QED BY <1>3, <1>4, <1>5, <1>6 DEF TwilioInv

LEMMA CallsStep ==
  ASSUME TwilioInv, T!CallsNext
  PROVE  TwilioInv'
<1> USE DEF T!noticeVars
<1>1. ASSUME NEW c \in Calls, NEW sid \in Sids, T!Incoming(c, sid) \/ T!IncomingUnread(c, sid)
      PROVE  TwilioInv'
  <2>1. sid # None
    BY Bounds DEF T!TwilioOK
  <2>2. /\ smsCall[c].at = "idle" /\ smsCall' = [smsCall EXCEPT ![c] = [at |-> "find", sid |-> sid]]
        /\ meeting' = (meeting \/ T!Meets) /\ (smsFailures' = smsFailures \/ T!SmsFails)
        /\ UNCHANGED <<processed, requested, unmatched, logs, lastSent, notice, posted>>
    BY <1>1 DEF T!Incoming, T!IncomingUnread
  <2>3. QED BY <2>1, <2>2, CallBegins
<1>2. ASSUME NEW c \in Calls, T!Outgoing(c) PROVE TwilioInv'
  <2>1. /\ smsCall[c].at = "idle" /\ smsCall' = [smsCall EXCEPT ![c] = [at |-> "limit", sid |-> None]]
        /\ meeting' = (meeting \/ T!Meets) /\ smsFailures' = smsFailures
        /\ UNCHANGED <<processed, requested, unmatched, logs, lastSent, notice, posted>>
    BY <1>2 DEF T!Outgoing
  <2>2. QED BY <2>1, CallBegins
<1>3. logs \in 0..2 /\ processed \subseteq requested \cup unmatched /\ (OneCall => logs <= 1)
  BY DEF TwilioInv, TwilioTypes, Handled, OneCall
<1>4. ASSUME NEW c \in Calls, T!FindDelivery(c) PROVE TwilioInv'
  <2>1. /\ smsCall[c].at = "find" /\ smsCall' = [smsCall EXCEPT ![c].at = "ask"]
        /\ UNCHANGED <<processed, requested, unmatched, logs, meeting, lastSent, notice, posted,
                       smsFailures>>
    BY <1>4 DEF T!FindDelivery, T!Goes
  <2>2. smsCall[c].sid # None
    BY <2>1 DEF TwilioInv, Handled
  <2>3. QED BY <1>3, <2>1, <2>2, CallGoesOn
<1>5. ASSUME NEW c \in Calls, T!FindNothing(c) PROVE TwilioInv'
  <2>1. /\ smsCall[c].at = "find" /\ smsCall' = [smsCall EXCEPT ![c].at = "mark"]
        /\ unmatched' = unmatched \cup {smsCall[c].sid}
        /\ UNCHANGED <<processed, requested, logs, meeting, lastSent, notice, posted, smsFailures>>
    BY <1>5 DEF T!FindNothing, T!Goes
  <2>2. smsCall[c].sid # None
    BY <2>1 DEF TwilioInv, Handled
  <2>3. QED BY <1>3, <2>1, <2>2, CallGoesOn
<1>6. ASSUME NEW c \in Calls, T!RequestReschedule(c) PROVE TwilioInv'
  <2>1. /\ smsCall[c].at = "ask" /\ smsCall' = [smsCall EXCEPT ![c].at = "limit"]
        /\ requested' = requested \cup {smsCall[c].sid}
        /\ UNCHANGED <<processed, unmatched, logs, meeting, lastSent, notice, posted, smsFailures>>
    BY <1>6 DEF T!RequestReschedule, T!Goes
  <2>2. QED BY <1>3, <2>1, CallGoesOn
<1>7. ASSUME NEW c \in Calls, T!ReadLogs(c) PROVE TwilioInv'
  <2>1. /\ smsCall[c].at = "limit"
        /\ smsCall' = [smsCall EXCEPT ![c].at = IF logs > 0 THEN T!After(c) ELSE "log"]
        /\ UNCHANGED <<processed, requested, unmatched, logs, meeting, lastSent, notice, posted, smsFailures>>
    BY <1>7 DEF T!ReadLogs, T!Goes
  <2>2. smsCall[c].sid = None \/ smsCall[c].sid \in requested
    BY <2>1 DEF TwilioInv, Handled
  <2>3. CASE logs > 0
    <3>1. CASE smsCall[c].sid = None
      <4>1. smsCall' = [smsCall EXCEPT ![c].at = "idle"]
        BY <2>1, <2>3, <3>1 DEF T!After
      <4>2. QED BY <1>3, <2>1, <4>1, CallGoesOn
    <3>2. CASE smsCall[c].sid # None
      <4>1. smsCall' = [smsCall EXCEPT ![c].at = "mark"]
        BY <2>1, <2>3, <3>2 DEF T!After
      <4>2. QED BY <1>3, <2>1, <2>2, <3>2, <4>1, CallGoesOn
    <3>3. QED BY <3>1, <3>2
  <2>4. CASE ~(logs > 0)
    <3>1. smsCall' = [smsCall EXCEPT ![c].at = "log"] /\ logs = 0
      BY <1>3, <2>1, <2>4
    <3>2. QED BY <1>3, <2>1, <2>2, <3>1, CallGoesOn
  <2>5. QED BY <2>3, <2>4
<1>8. ASSUME NEW c \in Calls, T!LogSent(c) PROVE TwilioInv'
  <2>1. /\ smsCall[c].at = "log" /\ smsCall' = [smsCall EXCEPT ![c].at = T!After(c)]
        /\ logs' = T!OneMore(logs)
        /\ UNCHANGED <<processed, requested, unmatched, meeting, lastSent, notice, posted, smsFailures>>
    BY <1>8 DEF T!LogSent, T!Goes
  <2>2. smsCall[c].sid = None \/ smsCall[c].sid \in requested
    BY <2>1 DEF TwilioInv, Handled
  <2>3. logs' \in 0..2 /\ (OneCall => logs' <= 1)
    <3>1. OneCall => logs = 0
      BY <2>1 DEF OneCall
    <3>2. QED BY <1>3, <2>1, <3>1, MoreIsSmall
  <2>4. CASE smsCall[c].sid = None
    <3>1. smsCall' = [smsCall EXCEPT ![c].at = "idle"]
      BY <2>1, <2>4 DEF T!After
    <3>2. QED BY <1>3, <2>1, <2>3, <3>1, CallGoesOn
  <2>5. CASE smsCall[c].sid # None
    <3>1. smsCall' = [smsCall EXCEPT ![c].at = "mark"]
      BY <2>1, <2>5 DEF T!After
    <3>2. QED BY <1>3, <2>1, <2>2, <2>3, <2>5, <3>1, CallGoesOn
  <2>6. QED BY <2>4, <2>5
<1>9. ASSUME NEW c \in Calls, T!LogFailed(c) PROVE TwilioInv'
  <2>1. /\ smsCall[c].at = "log" /\ smsCall' = [smsCall EXCEPT ![c].at = "idle"]
        /\ logs' \in {T!OneMore(logs), T!OneMore(T!OneMore(logs))} /\ T!SmsFails
        /\ UNCHANGED <<processed, requested, unmatched, meeting, lastSent, notice, posted>>
    BY <1>9 DEF T!LogFailed, T!Goes
  <2>2. logs' \in 0..2 /\ smsFailures' # 0
    BY <1>3, <2>1, MoreIsSmall, FailureCounted
  <2>3. QED BY <1>3, <2>1, <2>2, CallGoesOn
<1>10. ASSUME NEW c \in Calls, T!MarkProcessed(c) PROVE TwilioInv'
  <2>1. /\ smsCall[c].at = "mark" /\ smsCall' = [smsCall EXCEPT ![c].at = "idle"]
        /\ processed' = processed \cup {smsCall[c].sid}
        /\ UNCHANGED <<requested, unmatched, logs, meeting, lastSent, notice, posted, smsFailures>>
    BY <1>10 DEF T!MarkProcessed, T!Goes
  <2>2. smsCall[c].sid \in requested \cup unmatched
    BY <2>1 DEF TwilioInv, Handled
  <2>3. QED BY <1>3, <2>1, <2>2, CallGoesOn
<1>11. ASSUME NEW c \in Calls, T!CallThrows(c) PROVE TwilioInv'
  <2>1. /\ smsCall[c].at # "idle" /\ smsCall' = [smsCall EXCEPT ![c].at = "idle"] /\ T!SmsFails
        /\ requested \subseteq requested'
        /\ UNCHANGED <<processed, unmatched, logs, meeting, lastSent, notice, posted>>
    BY <1>11 DEF T!CallThrows
  <2>2. QED BY <1>3, <2>1, CallGoesOn
<1>12. CASE T!LogsAge
  <2>1. /\ logs' = 0 /\ meeting' = (meeting \/ T!Meets)
        /\ UNCHANGED <<processed, requested, unmatched, smsCall, lastSent, notice, posted, smsFailures>>
    BY <1>12 DEF T!LogsAge
  <2>2. TwilioTypes' /\ Handled'
    BY <2>1 DEF TwilioInv, TwilioTypes, Handled
  <2>3. ASSUME ~meeting', smsFailures' = 0 PROVE OneCall'
    <3>1. ~meeting /\ smsFailures = 0
      BY <2>1, <2>3
    <3>2. OneCall
      BY <3>1 DEF TwilioInv
    <3>3. logs' = 0 /\ logs' <= 1
      BY <2>1
    <3>4. \A c, d \in Calls : smsCall'[c].at # "idle" /\ smsCall'[d].at # "idle" => c = d
      BY <2>1, <3>2 DEF OneCall
    <3>5. QED BY <3>3, <3>4 DEF OneCall
  <2>4. smsFailures' = 0 => OneNotice'
    BY <2>1 DEF TwilioInv, OneNotice
  <2>5. QED BY <2>2, <2>3, <2>4 DEF TwilioInv
<1>13. CASE T!MarksExpire
  <2>1. /\ processed' = {}
        /\ UNCHANGED <<requested, unmatched, logs, meeting, smsCall, lastSent, notice, posted, smsFailures>>
    BY <1>13 DEF T!MarksExpire
  <2>2. TwilioTypes' /\ Handled'
    BY <2>1 DEF TwilioInv, TwilioTypes, Handled
  <2>3. QED BY <2>1, <2>2 DEF TwilioInv, OneCall, OneNotice
<1>14. QED BY <1>1, <1>2, <1>4, <1>5, <1>6, <1>7, <1>8, <1>9, <1>10, <1>11, <1>12, <1>13 DEF T!CallsNext

\* A notification goes on: what holds of its key and of its post is for the one under way.
LEMMA NoticeGoesOn ==
  ASSUME TwilioInv, NEW n1 \in Notices, NEW to \in {"idle", "expire", "post"},
         notice' = [notice EXCEPT ![n1] = to],
         lastSent' \in {"none", "bare", "hour"}, posted' \in 0..2, smsFailures' = smsFailures,
         UNCHANGED <<processed, requested, unmatched, logs, smsCall, meeting>>,
         notice[n1] = "idle" => lastSent = "none",
         OneNotice => /\ to # "idle" => posted' = 0
                      /\ to = "expire" <=> lastSent' = "bare"
                      /\ to = "post" => lastSent' = "hour"
                      /\ lastSent' = "none" => posted' = 0
                      /\ posted' <= 1
  PROVE  TwilioInv'
<1>1. /\ notice'[n1] = to /\ \A n2 \in Notices \ {n1} : notice'[n2] = notice[n2]
      /\ notice' \in [Notices -> {"idle", "expire", "post"}]
  BY DEF TwilioInv, TwilioTypes
<1>2. TwilioTypes' /\ Handled'
  BY <1>1 DEF TwilioInv, TwilioTypes, Handled
<1>3. ~meeting' /\ smsFailures' = 0 => OneCall'
  BY DEF TwilioInv, OneCall
<1>4. ASSUME smsFailures' = 0 PROVE OneNotice'
  <2>1. OneNotice
    BY <1>4 DEF TwilioInv
  <2>2. \A n2 \in Notices \ {n1} : notice[n2] = "idle"
    <3>1. CASE notice[n1] = "idle"
      <4>1. lastSent = "none"
        BY <3>1
      <4>2. \A n2 \in Notices : notice[n2] \in {"idle", "expire", "post"}
        BY DEF TwilioInv, TwilioTypes
      <4>3. QED BY <2>1, <4>1, <4>2 DEF OneNotice
    <3>2. CASE notice[n1] # "idle"
      BY <2>1, <3>2 DEF OneNotice
    <3>3. QED BY <3>1, <3>2
  <2>3. \A n2 \in Notices : notice'[n2] # "idle" => n2 = n1
    BY <1>1, <2>2
  <2>4. QED BY <1>1, <2>1, <2>3 DEF OneNotice
<1>5. QED BY <1>2, <1>3, <1>4 DEF TwilioInv

\* After a failure nothing is promised of the key.
LEMMA NoticeFails ==
  ASSUME TwilioInv, T!SmsFails, notice' \in [Notices -> {"idle", "expire", "post"}],
         UNCHANGED <<lastSent, posted, processed, requested, unmatched, logs, smsCall, meeting>>
  PROVE  TwilioInv'
<1>1. smsFailures' \in Nat /\ smsFailures' # 0
  BY FailureCounted
<1>2. TwilioTypes' /\ Handled'
  BY <1>1 DEF TwilioInv, TwilioTypes, Handled
<1>3. QED BY <1>1, <1>2 DEF TwilioInv

LEMMA NoticesStep ==
  ASSUME TwilioInv, T!NoticesNext
  PROVE  TwilioInv'
<1> USE DEF T!callVars
<1>1. /\ notice \in [Notices -> {"idle", "expire", "post"}] /\ posted \in 0..2
      /\ lastSent \in {"none", "bare", "hour"}
  BY DEF TwilioInv, TwilioTypes
<1>2. ASSUME NEW n1 \in Notices, T!SetIfAbsent(n1) PROVE TwilioInv'
  <2>1. /\ lastSent = "none" /\ notice[n1] = "idle" /\ notice' = [notice EXCEPT ![n1] = "expire"]
        /\ lastSent' = "bare"
        /\ UNCHANGED <<posted, processed, requested, unmatched, logs, smsCall, meeting, smsFailures>>
    BY <1>2 DEF T!SetIfAbsent, T!Moves
  <2>2. OneNotice => posted' = 0 /\ posted' <= 1
    BY <2>1 DEF OneNotice
  <2>3. QED BY <1>1, <2>1, <2>2, NoticeGoesOn
<1>3. ASSUME NEW n1 \in Notices, T!ExpireKey(n1) PROVE TwilioInv'
  <2>1. /\ notice[n1] = "expire" /\ notice' = [notice EXCEPT ![n1] = "post"]
        /\ lastSent' = IF lastSent = "none" THEN "none" ELSE "hour"
        /\ UNCHANGED <<posted, processed, requested, unmatched, logs, smsCall, meeting, smsFailures>>
    BY <1>3 DEF T!ExpireKey, T!Moves
  <2>2. OneNotice => lastSent' = "hour" /\ posted' = 0 /\ posted' <= 1
    BY <2>1 DEF OneNotice
  <2>3. lastSent' \in {"none", "bare", "hour"} /\ notice[n1] # "idle" /\ lastSent' # "bare"
    BY <2>1
  <2>4. QED BY <1>1, <2>1, <2>2, <2>3, NoticeGoesOn
<1>4. ASSUME NEW n1 \in Notices, T!Post(n1) PROVE TwilioInv'
  <2>1. /\ notice[n1] = "post" /\ notice' = [notice EXCEPT ![n1] = "idle"]
        /\ posted' = T!OneMore(posted)
        /\ UNCHANGED <<lastSent, processed, requested, unmatched, logs, smsCall, meeting, smsFailures>>
    BY <1>4 DEF T!Post, T!Moves
  <2>2. OneNotice => lastSent = "hour" /\ posted' = 1 /\ posted' <= 1
    <3>1. OneNotice => lastSent = "hour" /\ posted = 0
      BY <2>1 DEF OneNotice
    <3>2. QED BY <1>1, <2>1, <3>1, MoreIsSmall
  <2>3. posted' \in 0..2 /\ notice[n1] # "idle"
    BY <1>1, <2>1, MoreIsSmall
  <2>4. QED BY <1>1, <2>1, <2>2, <2>3, NoticeGoesOn
<1>5. ASSUME NEW n1 \in Notices, T!FailOpen(n1) \/ T!PostFails(n1) PROVE TwilioInv'
  <2>1. /\ \E to \in {"idle", "post"} : notice' = [notice EXCEPT ![n1] = to]
        /\ T!SmsFails
        /\ UNCHANGED <<lastSent, posted, processed, requested, unmatched, logs, smsCall, meeting>>
    BY <1>5 DEF T!FailOpen, T!PostFails, T!Moves
  <2>2. notice' \in [Notices -> {"idle", "expire", "post"}]
    BY <1>1, <2>1
  <2>3. QED BY <2>1, <2>2, NoticeFails
<1>6. CASE T!KeyExpires
  <2>1. /\ \A n1 \in Notices : notice[n1] = "idle"
        /\ lastSent' = "none" /\ posted' = 0
        /\ UNCHANGED <<notice, processed, requested, unmatched, logs, smsCall, meeting, smsFailures>>
    BY <1>6 DEF T!KeyExpires
  <2>2. TwilioTypes' /\ Handled'
    BY <2>1 DEF TwilioInv, TwilioTypes, Handled
  <2>3. OneNotice'
    BY <2>1 DEF OneNotice
  <2>4. ~meeting' /\ smsFailures' = 0 => OneCall'
    BY <2>1 DEF TwilioInv, OneCall
  <2>5. QED BY <2>2, <2>3, <2>4 DEF TwilioInv
<1>7. QED BY <1>2, <1>3, <1>4, <1>5, <1>6 DEF T!NoticesNext

LEMMA TwilioStutter == TwilioInv /\ UNCHANGED twilioVars => TwilioInv'
<1> SUFFICES ASSUME TwilioInv, UNCHANGED twilioVars PROVE TwilioInv'
  OBVIOUS
<1>1. TwilioTypes' /\ Handled'
  BY DEF TwilioInv, twilioVars, TwilioTypes, Handled
<1>2. (~meeting' /\ smsFailures' = 0 => OneCall') /\ (smsFailures' = 0 => OneNotice')
  BY DEF TwilioInv, twilioVars, OneCall, OneNotice
<1>3. QED BY <1>1, <1>2 DEF TwilioInv

\* Twilio: a MessageSid is marked only when its request is recorded or its number had no pending
\* delivery; a number gets one message an hour by either way, and its key ends, unless calls met or
\* something failed: for any number of replies, calls and notifications.
THEOREM MessagesAreLimited == Spec => []MessagesLimited
<1> DEFINE Inv == part \in {"calls", "notices"} => TwilioInv
<1>1. Init => Inv
  BY InitTwilio
<1>2. Inv /\ [Next]_vars => Inv'
  <2> SUFFICES ASSUME part \in {"calls", "notices"}, TwilioInv, [Next]_vars PROVE TwilioInv'
    BY DEF Next, Others, vars
  <2>1. CASE Next
    BY <2>1, CallsStep, NoticesStep DEF Next
  <2>2. CASE UNCHANGED vars
    BY <2>2, TwilioStutter DEF vars
  <2>3. QED BY <2>1, <2>2
<1>3. Inv => MessagesLimited
  <2> SUFFICES ASSUME TwilioInv PROVE T!MarkedIsHandled /\ T!OneAnHour
    BY DEF MessagesLimited
  <2>1. T!MarkedIsHandled
    BY DEF TwilioInv, Handled, T!MarkedIsHandled
  <2>2. T!OneAnHour
    BY DEF TwilioInv, OneCall, OneNotice, T!OneAnHour
  <2>3. QED BY <2>1, <2>2
<1>4. QED BY <1>1, <1>2, <1>3, PTL DEF Spec

-----------------------------------------------------------------------------
(* authentication-manager.ts: the inductive invariant *)

Steps == {"idle", "select", "verify", "store", "insert", "drop", "change", "reset", "clear", "revoke"}

\* Tokens are numbered, and have the epoch their owner was authenticated in.
TokensOK ==
  /\ epoch \in Nat
  /\ \E k \in Nat : issuedIn \in [1..k -> Nat]
  /\ refreshTokens \subseteq A!Issued
  /\ exchanged \in [once : SUBSET A!Issued, twice : SUBSET A!Issued]
  /\ call \in [Calls -> [at : Steps, token : A!Issued \cup {0}, epoch : Nat]]
  /\ \A c \in Calls : call[c].epoch <= epoch
  /\ \A c \in Calls : call[c].at \notin {"store", "drop"} => call[c].token = 0

\* A token that was exchanged is not in the table; calls that would exchange it again, and any two that
\* exchange the same one, had read it at the same time.
ExchangesOK ==
  /\ exchanged.twice \subseteq rivals
  /\ \A t \in exchanged.once : t \notin refreshTokens
  /\ \A c \in Calls : call[c].at = "store" /\ call[c].token \in exchanged.once => call[c].token \in rivals
  /\ \A c, d \in Calls :
       (/\ call[c].at = "store" /\ call[d].at = "store" /\ c # d
        /\ call[c].token = call[d].token /\ call[c].token # 0) => call[c].token \in rivals

AuthInv == TokensOK /\ A!RevokedStaysOut /\ ExchangesOK

-----------------------------------------------------------------------------

LEMMA IssuedAre ==
  ASSUME NEW k \in Nat, issuedIn \in [1..k -> Nat]
  PROVE  A!Issued = 1..k /\ Cardinality(A!Issued) = k /\ A!Cardinality(A!Issued) = k
<1>1. IsFiniteSet(1..k) /\ Cardinality(1..k) = k
  BY FS_Interval
<1>2. DOMAIN issuedIn = 1..k
  OBVIOUS
<1>3. A!Issued = 1..k
  BY <1>1, <1>2 DEF A!Issued, A!Cardinality, Cardinality
<1>4. QED BY <1>1, <1>3 DEF A!Cardinality, Cardinality

LEMMA InitAuth == Init => AuthInv
<1> SUFFICES ASSUME A!AuthInit PROVE AuthInv
  BY DEF Init
<1>1. issuedIn \in [1..0 -> Nat]
  BY DEF A!AuthInit
<1>2. A!Issued = {}
  BY <1>1, IssuedAre
<1>3. TokensOK
  BY <1>1, <1>2 DEF A!AuthInit, TokensOK, A!Ready, Steps
<1>4. refreshTokens = {} /\ exchanged.once = {} /\ exchanged.twice = {}
      /\ \A c \in Calls : call[c].at = "idle"
  BY DEF A!AuthInit, A!Ready
<1>5. A!RevokedStaysOut
  BY <1>4 DEF A!RevokedStaysOut
<1>6. ExchangesOK
  BY <1>4 DEF ExchangesOK
<1>7. QED BY <1>3, <1>5, <1>6 DEF AuthInv

AwaitedCall == [at : Steps, token : A!Issued \cup {0}, epoch : Nat]

\* A call goes on without a token of its own: nothing is exchanged, issued or found.
LEMMA CallMoves ==
  ASSUME AuthInv, NEW c \in Calls, call' \in [Calls -> AwaitedCall],
         \A d \in Calls \ {c} : call'[d] = call[d],
         call'[c].at # "drop" => call'[c].token = 0,
         call'[c].epoch <= epoch', epoch' \in Nat, epoch <= epoch',
         refreshTokens' \subseteq refreshTokens,
         UNCHANGED <<issuedIn, exchanged, rivals>>
  PROVE  TokensOK' /\ ExchangesOK'
<1>1. A!Issued' = A!Issued
  BY DEF A!Issued
<1>2. \A d \in Calls : call'[d].epoch <= epoch'
  <2>1. \A d \in Calls \ {c} : call[d].epoch <= epoch /\ call[d].epoch \in Nat /\ epoch \in Nat
    BY DEF AuthInv, TokensOK
  <2>2. \A d \in Calls \ {c} : call[d].epoch <= epoch'
    BY <2>1
  <2>3. QED BY <2>2
<1>3. TokensOK'
  BY <1>1, <1>2 DEF AuthInv, TokensOK, AwaitedCall
<1>4. call'[c].token \notin exchanged.once \/ call'[c].at # "store"
  <2>1. 0 \notin A!Issued
    <3>1. PICK k \in Nat : issuedIn \in [1..k -> Nat]
      BY DEF AuthInv, TokensOK
    <3>2. QED BY <3>1, IssuedAre
  <2>2. QED BY <2>1 DEF AuthInv, TokensOK
<1>5. ExchangesOK'
  <2>1. exchanged'.twice \subseteq rivals' /\ \A t \in exchanged'.once : t \notin refreshTokens'
    BY DEF AuthInv, ExchangesOK
  <2>2. \A d \in Calls :
          call'[d].at = "store" /\ call'[d].token \in exchanged'.once => call'[d].token \in rivals'
    BY <1>4 DEF AuthInv, ExchangesOK
  <2>3. ASSUME NEW d \in Calls, NEW e \in Calls, call'[d].at = "store", call'[e].at = "store",
               call'[d].token = call'[e].token, call'[d].token # 0, d # e
        PROVE  call'[d].token \in rivals'
    <3>1. d # c /\ e # c
      BY <2>3
    <3>2. call'[d] = call[d] /\ call'[e] = call[e]
      BY <3>1
    <3>3. QED BY <2>3, <3>2 DEF AuthInv, ExchangesOK
  <2>4. QED BY <2>1, <2>2, <2>3 DEF ExchangesOK
<1>6. QED BY <1>3, <1>5

\* ... and what was revoked stays out, if it was not about to revoke itself.
LEMMA StillRevoked ==
  ASSUME AuthInv, NEW c \in Calls,
         \A d \in Calls \ {c} : call'[d] = call[d],
         refreshTokens' \subseteq refreshTokens, unrevoked => unrevoked',
         call[c].at \in {"clear", "revoke"} => unrevoked' \/ call'[c].at \in {"clear", "revoke"},
         UNCHANGED <<issuedIn, late, epoch>>
  PROVE  A!RevokedStaysOut'
<1> SUFFICES ASSUME NEW t \in refreshTokens', issuedIn'[t] < epoch'
             PROVE  t \in late' \/ unrevoked' \/ \E d \in Calls : call'[d].at \in {"clear", "revoke"}
  BY DEF A!RevokedStaysOut
<1>1. t \in late \/ unrevoked \/ \E d \in Calls : call[d].at \in {"clear", "revoke"}
  BY DEF AuthInv, A!RevokedStaysOut
<1>2. CASE t \in late \/ unrevoked
  BY <1>2
<1>3. ASSUME NEW d \in Calls, call[d].at \in {"clear", "revoke"}
      PROVE  unrevoked' \/ \E e \in Calls : call'[e].at \in {"clear", "revoke"}
  <2>1. CASE d = c
    BY <1>3, <2>1
  <2>2. CASE d # c
    BY <1>3, <2>2
  <2>3. QED BY <2>1, <2>2
<1>4. QED BY <1>1, <1>2, <1>3

LEMMA ReadyIsAwaited ==
  ASSUME AuthInv
  PROVE  /\ call \in [Calls -> AwaitedCall] /\ A!Ready \in AwaitedCall
         /\ A!Ready.at = "idle" /\ A!Ready.token = 0 /\ A!Ready.epoch = 0 /\ epoch \in Nat
BY DEF AuthInv, TokensOK, AwaitedCall, A!Ready, Steps

\* login up to the comparison, and the other calls before their UPDATE; what concerns no token.
LEMMA PlainStep ==
  ASSUME AuthInv, NEW c \in Calls,
         \/ A!CheckBruteForce(c) \/ A!SelectUser(c) \/ A!PasswordRight(c) \/ A!PasswordWrong(c)
         \/ A!BeginChange(c) \/ A!BeginReset(c) \/ A!ClearResetToken(c)
  PROVE  AuthInv'
<1> USE DEF A!tableVars, A!pastVars
<1>1. UNCHANGED <<refreshTokens, epoch, issuedIn, late, exchanged, rivals, unrevoked>>
  BY DEF A!CheckBruteForce, A!SelectUser, A!PasswordRight, A!PasswordWrong, A!BeginChange,
         A!BeginReset, A!ClearResetToken
<1>2. PICK to \in Steps, seen \in Nat :
        /\ call' = [call EXCEPT ![c].at = to, ![c].epoch = seen]
        /\ seen \in {call[c].epoch, epoch}
        /\ to # "drop" /\ call[c].at \notin {"store", "drop"}
        /\ call[c].at = "clear" => to = "revoke"
        /\ call[c].at # "revoke"
  <2>1. call \in [Calls -> AwaitedCall] /\ epoch \in Nat
    BY ReadyIsAwaited
  <2>2. \A to : [call EXCEPT ![c].at = to] = [call EXCEPT ![c].at = to, ![c].epoch = call[c].epoch]
    BY <2>1 DEF AwaitedCall
  <2>3. CASE A!SelectUser(c)
    BY <2>1, <2>3 DEF A!SelectUser, Steps
  <2>4. CASE ~A!SelectUser(c)
    <3>1. PICK to \in Steps : /\ call' = [call EXCEPT ![c].at = to]
                              /\ to # "drop" /\ call[c].at \notin {"store", "drop"}
                              /\ call[c].at = "clear" => to = "revoke"
                              /\ call[c].at # "revoke"
      BY <2>4 DEF A!CheckBruteForce, A!PasswordRight, A!PasswordWrong, A!BeginChange,
         A!BeginReset, A!ClearResetToken, A!Await, Steps
    <3>2. call[c].epoch \in Nat
      BY <2>1 DEF AwaitedCall
    <3>3. QED BY <2>2, <3>1, <3>2
  <2>5. QED BY <2>3, <2>4
<1>3. /\ call' \in [Calls -> AwaitedCall] /\ \A d \in Calls \ {c} : call'[d] = call[d]
      /\ call'[c].at = to /\ call'[c].token = call[c].token /\ call'[c].epoch = seen
  BY <1>2, ReadyIsAwaited DEF AwaitedCall
<1>4. call[c].token = 0 /\ call[c].epoch <= epoch /\ epoch \in Nat
  BY <1>2 DEF AuthInv, TokensOK
<1>5. seen <= epoch' /\ epoch <= epoch' /\ epoch' \in Nat
  BY <1>1, <1>2, <1>4
<1>6. TokensOK' /\ ExchangesOK'
  BY <1>1, <1>3, <1>4, <1>5, CallMoves
<1>7. A!RevokedStaysOut'
  BY <1>1, <1>2, <1>3, StillRevoked
<1>8. QED BY <1>6, <1>7 DEF AuthInv

\* A call ends, however it ends, and leaves what is stored alone, or less of it.
LEMMA EndingStep ==
  ASSUME AuthInv, NEW c \in Calls,
         \/ A!InsertAttempt(c) \/ A!DropOldToken(c) \/ A!RevokeTokens(c) \/ A!AuthCallFails(c)
  PROVE  AuthInv'
<1> USE DEF A!tableVars, A!pastVars
<1>1. /\ call' = [call EXCEPT ![c] = A!Ready]
      /\ refreshTokens' \subseteq refreshTokens
      /\ UNCHANGED <<epoch, issuedIn, late, exchanged, rivals>>
      /\ unrevoked => unrevoked' \/ refreshTokens' = {}
      /\ call[c].at \in {"clear", "revoke"} => unrevoked' \/ refreshTokens' = {}
  <2>1. CASE A!InsertAttempt(c)
    BY <2>1 DEF A!InsertAttempt, A!End
  <2>2. CASE A!DropOldToken(c)
    BY <2>2 DEF A!DropOldToken, A!End
  <2>3. CASE A!RevokeTokens(c)
    BY <2>3 DEF A!RevokeTokens, A!End
  <2>4. CASE A!AuthCallFails(c)
    BY <2>4 DEF A!AuthCallFails, A!End
  <2>5. QED BY <2>1, <2>2, <2>3, <2>4
<1>2. /\ call' \in [Calls -> AwaitedCall] /\ \A d \in Calls \ {c} : call'[d] = call[d]
      /\ call'[c].at = "idle" /\ call'[c].token = 0 /\ call'[c].epoch = 0
  BY <1>1, ReadyIsAwaited
<1>3. 0 <= epoch' /\ epoch <= epoch' /\ epoch' \in Nat
  <2>1. epoch \in Nat
    BY ReadyIsAwaited
  <2>2. QED BY <1>1, <2>1
<1>4. TokensOK' /\ ExchangesOK'
  BY <1>1, <1>2, <1>3, CallMoves
<1>5. CASE refreshTokens' = {}
  BY <1>4, <1>5 DEF AuthInv, A!RevokedStaysOut
<1>6. CASE refreshTokens' # {}
  BY <1>1, <1>2, <1>4, <1>6, StillRevoked DEF AuthInv
<1>7. QED BY <1>5, <1>6

\* A logout, or a new password: from now on every token is of an epoch that is over.
LEMMA RevokingStep ==
  ASSUME AuthInv, NEW c \in Calls, A!UpdatePassword(c) \/ \E t \in A!Issued : A!Logout(c, t)
  PROVE  AuthInv'
<1> USE DEF A!tableVars, A!pastVars
<1>1. epoch \in Nat /\ call \in [Calls -> AwaitedCall] /\ \A d \in Calls : call[d].epoch <= epoch
  BY ReadyIsAwaited DEF AuthInv, TokensOK
<1>2. epoch' = epoch + 1 /\ epoch' \in Nat /\ epoch <= epoch' /\ call[c].epoch <= epoch'
  <2>1. epoch' = epoch + 1 /\ call[c].epoch <= epoch /\ call[c].epoch \in Nat
    BY <1>1 DEF A!UpdatePassword, A!Logout, AwaitedCall
  <2>2. QED BY <1>1, <2>1
<1>3. CASE A!UpdatePassword(c)
  <2>1. PICK to \in {"clear", "revoke"} : call' = [call EXCEPT ![c].at = to]
    BY <1>3 DEF A!UpdatePassword, A!Await
  <2>2. call[c].at \in {"change", "reset"} /\ UNCHANGED <<refreshTokens, issuedIn, late, exchanged, rivals>>
    BY <1>3 DEF A!UpdatePassword
  <2>3. /\ call' \in [Calls -> AwaitedCall] /\ \A d \in Calls \ {c} : call'[d] = call[d]
        /\ call'[c].at = to /\ call'[c].token = call[c].token /\ call'[c].epoch = call[c].epoch
    BY <1>1, <2>1 DEF AwaitedCall, Steps
  <2>4. call[c].token = 0
    BY <2>2 DEF AuthInv, TokensOK
  <2>5. TokensOK' /\ ExchangesOK'
    BY <1>2, <2>2, <2>3, <2>4, CallMoves
  <2>6. A!RevokedStaysOut'
    BY <2>3 DEF A!RevokedStaysOut
  <2>7. QED BY <2>5, <2>6 DEF AuthInv
<1>4. ASSUME NEW t \in A!Issued, A!Logout(c, t) PROVE AuthInv'
  <2>1. /\ call[c].at = "idle" /\ UNCHANGED <<call, issuedIn, late, exchanged, rivals>>
        /\ refreshTokens' \subseteq refreshTokens /\ (refreshTokens' = {} \/ unrevoked')
    BY <1>4 DEF A!Logout
  <2>2. call'[c].at = "idle" /\ call'[c].token = 0 /\ call'[c].epoch = call[c].epoch
    BY <2>1 DEF AuthInv, TokensOK
  <2>3. TokensOK' /\ ExchangesOK'
    BY <1>1, <1>2, <2>1, <2>2, CallMoves
  <2>4. A!RevokedStaysOut'
    BY <2>1 DEF A!RevokedStaysOut
  <2>5. QED BY <2>3, <2>4 DEF AuthInv
<1>5. QED BY <1>3, <1>4

\* refresh: the token is found, by one call or by several.
LEMMA RefreshStep ==
  ASSUME AuthInv, NEW c \in Calls, NEW t \in A!Issued, A!BeginRefresh(c, t)
  PROVE  AuthInv'
<1> USE DEF A!tableVars, A!pastVars
<1>1. /\ t \in refreshTokens /\ call[c].at = "idle"
      /\ call' = [call EXCEPT ![c] = [at |-> "store", token |-> t, epoch |-> epoch]]
      /\ rivals' = IF \E d \in Calls : call[d].token = t /\ call[d].at = "store"
                   THEN rivals \cup {t} ELSE rivals
      /\ UNCHANGED <<refreshTokens, epoch, issuedIn, late, exchanged, unrevoked>>
  BY DEF A!BeginRefresh
<1>2. A!Issued' = A!Issued
  BY <1>1 DEF A!Issued
<1>3. [at |-> "store", token |-> t, epoch |-> epoch] \in AwaitedCall
  BY ReadyIsAwaited DEF AwaitedCall, Steps
<1>4. /\ call' \in [Calls -> AwaitedCall] /\ \A d \in Calls \ {c} : call'[d] = call[d]
      /\ call'[c].at = "store" /\ call'[c].token = t /\ call'[c].epoch = epoch
  BY <1>1, <1>3, ReadyIsAwaited
<1>5. TokensOK'
  <2>1. \A d \in Calls : call'[d].epoch <= epoch'
    <3>1. epoch' = epoch /\ epoch <= epoch
      BY <1>1, ReadyIsAwaited
    <3>2. \A d \in Calls : call[d].epoch <= epoch
      BY DEF AuthInv, TokensOK
    <3>3. QED BY <1>4, <3>1, <3>2
  <2>2. \A d \in Calls : call'[d].at \notin {"store", "drop"} => call'[d].token = 0
    BY <1>4 DEF AuthInv, TokensOK
  <2>3. QED BY <1>1, <1>2, <1>4, <2>1, <2>2 DEF AuthInv, TokensOK, AwaitedCall
<1>6. rivals \subseteq rivals' /\ \A d \in Calls : call[d].token = t /\ call[d].at = "store" => t \in rivals'
  BY <1>1
<1>7. ExchangesOK'
  <2>1. exchanged'.twice \subseteq rivals' /\ \A s \in exchanged'.once : s \notin refreshTokens'
    BY <1>1, <1>6 DEF AuthInv, ExchangesOK
  <2>2. t \notin exchanged'.once
    BY <1>1, <2>1
  <2>3. ASSUME NEW d \in Calls, call'[d].at = "store", call'[d].token \in exchanged'.once
        PROVE  call'[d].token \in rivals'
    <3>1. d # c
      BY <1>4, <2>2, <2>3
    <3>2. QED BY <1>1, <1>4, <1>6, <2>3, <3>1 DEF AuthInv, ExchangesOK
  <2>4. ASSUME NEW d \in Calls, NEW e \in Calls, call'[d].at = "store", call'[e].at = "store", d # e,
               call'[d].token = call'[e].token, call'[d].token # 0
        PROVE  call'[d].token \in rivals'
    <3>1. CASE d # c /\ e # c
      <4>1. call'[d] = call[d] /\ call'[e] = call[e]
        BY <1>4, <3>1
      <4>2. QED BY <1>6, <2>4, <4>1 DEF AuthInv, ExchangesOK
    <3>2. CASE d = c
      BY <1>4, <1>6, <2>4, <3>2
    <3>3. CASE e = c
      BY <1>4, <1>6, <2>4, <3>3
    <3>4. QED BY <3>1, <3>2, <3>3
  <2>5. QED BY <2>1, <2>3, <2>4 DEF ExchangesOK
<1>8. A!RevokedStaysOut'
  <2>1. \A d \in Calls : call[d].at \in {"clear", "revoke"} => call'[d] = call[d]
    BY <1>1, <1>4
  <2>2. QED BY <1>1, <2>1 DEF AuthInv, A!RevokedStaysOut
<1>9. QED BY <1>5, <1>7, <1>8 DEF AuthInv

\* storeRefreshToken: the new token is nobody's yet; the old one is exchanged.
LEMMA StoreStep ==
  ASSUME AuthInv, NEW c \in Calls, A!StoreToken(c)
  PROVE  AuthInv'
<1> USE DEF A!tableVars, A!pastVars
<1>1. PICK k \in Nat : issuedIn \in [1..k -> Nat]
  BY DEF AuthInv, TokensOK
<1>2. A!Issued = 1..k /\ A!Cardinality(A!Issued) = k
  BY <1>1, IssuedAre
<1> DEFINE new == k + 1
           old == call[c].token
<1>3. /\ call[c].at = "store" /\ UNCHANGED <<epoch, rivals, unrevoked>>
      /\ refreshTokens' = {new}
      /\ issuedIn' = [t \in 1..new |-> IF t = new THEN call[c].epoch ELSE issuedIn[t]]
      /\ late' = IF call[c].epoch < epoch THEN late \cup {new} ELSE late
      /\ exchanged' = IF old = 0 THEN exchanged
                      ELSE [once  |-> exchanged.once \cup {old},
                            twice |-> exchanged.twice \cup ({old} \cap exchanged.once)]
      /\ IF old = 0 THEN A!End(c) ELSE A!Await(c, "drop")
  BY <1>2 DEF A!StoreToken
<1>4. /\ call \in [Calls -> AwaitedCall] /\ epoch \in Nat /\ call[c].epoch \in Nat /\ call[c].epoch <= epoch
      /\ old \in (1..k) \cup {0}
  BY <1>2, ReadyIsAwaited DEF AuthInv, TokensOK, AwaitedCall
<1>5. issuedIn' \in [1..new -> Nat] /\ new \in Nat
  BY <1>1, <1>3, <1>4
<1>6. A!Issued' = 1..new /\ 1..k \subseteq 1..new
  <2>1. IsFiniteSet(1..new) /\ Cardinality(1..new) = new
    BY <1>5, FS_Interval
  <2>2. DOMAIN issuedIn' = 1..new
    BY <1>5
  <2>3. A!Issued' = 1..new
    BY <2>1, <2>2 DEF A!Issued, A!Cardinality, Cardinality
  <2>4. QED BY <1>1, <2>3
<1> HIDE DEF new
<1>7. /\ \A d \in Calls \ {c} : call'[d] = call[d]
      /\ call'[c].at \in {"idle", "drop"} /\ call'[c].at \in Steps /\ call'[c].epoch \in Nat
      /\ call'[c].epoch <= epoch
      /\ call'[c].token \in (1..k) \cup {0} /\ (call'[c].at = "idle" => call'[c].token = 0)
      /\ call' \in [Calls -> [at : Steps, token : (1..k) \cup {0}, epoch : Nat]]
  <2>1. call \in [Calls -> [at : Steps, token : (1..k) \cup {0}, epoch : Nat]]
    BY <1>2, <1>4 DEF AwaitedCall
  <2>2. CASE old = 0
    <3>1. call' = [call EXCEPT ![c] = A!Ready]
      BY <1>3, <2>2 DEF A!End
    <3>2. /\ A!Ready.at = "idle" /\ A!Ready.token = 0 /\ A!Ready.epoch = 0
          /\ A!Ready \in [at : Steps, token : (1..k) \cup {0}, epoch : Nat]
      BY DEF A!Ready, Steps
    <3>3. 0 <= epoch
      BY <1>4
    <3>4. QED BY <2>1, <3>1, <3>2, <3>3 DEF Steps
  <2>3. CASE old # 0
    <3>1. call' = [call EXCEPT ![c].at = "drop"]
      BY <1>3, <2>3 DEF A!Await
    <3>2. QED BY <1>4, <2>1, <3>1 DEF Steps
  <2>4. QED BY <2>2, <2>3
<1>8. exchanged \in [once : SUBSET (1..k), twice : SUBSET (1..k)]
  BY <1>2 DEF AuthInv, TokensOK
<1>9. /\ exchanged' \in [once : SUBSET (1..k), twice : SUBSET (1..k)]
      /\ exchanged'.once \subseteq exchanged.once \cup ({old} \ {0})
      /\ exchanged'.twice \subseteq exchanged.twice \cup ({old} \cap exchanged.once)
  BY <1>3, <1>4, <1>8
<1> HIDE DEF old
<1>10. TokensOK'
  <2>1. epoch' \in Nat /\ refreshTokens' \subseteq A!Issued' /\ \E i \in Nat : issuedIn' \in [1..i -> Nat]
    BY <1>3, <1>4, <1>5, <1>6 DEF new
  <2>2. exchanged' \in [once : SUBSET A!Issued', twice : SUBSET A!Issued']
    BY <1>6, <1>9
  <2>3. call' \in [Calls -> [at : Steps, token : A!Issued' \cup {0}, epoch : Nat]]
    BY <1>6, <1>7
  <2>4. \A d \in Calls : call'[d].epoch <= epoch'
    BY <1>3, <1>7 DEF AuthInv, TokensOK
  <2>5. \A d \in Calls : call'[d].at \notin {"store", "drop"} => call'[d].token = 0
    BY <1>7 DEF AuthInv, TokensOK
  <2>6. QED BY <2>1, <2>2, <2>3, <2>4, <2>5 DEF TokensOK
<1>11. ExchangesOK'
  <2>1. exchanged'.twice \subseteq rivals'
    <3>1. old \in exchanged.once => old \in rivals
      BY <1>3 DEF AuthInv, ExchangesOK, old
    <3>2. QED BY <1>3, <1>9, <3>1 DEF AuthInv, ExchangesOK
  <2>2. \A t \in exchanged'.once : t \notin refreshTokens'
    <3>1. \A t \in exchanged'.once : t \in 1..k
      BY <1>9
    <3>2. new \notin 1..k
      BY <1>1 DEF new
    <3>3. QED BY <1>3, <3>1, <3>2
  <2>3. \A d \in Calls : call'[d].at = "store" => d # c /\ call'[d] = call[d]
    BY <1>7
  <2>4. ASSUME NEW d \in Calls, call'[d].at = "store", call'[d].token \in exchanged'.once
        PROVE  call'[d].token \in rivals'
    <3>1. d # c /\ call'[d] = call[d] /\ call[d].at = "store"
      BY <2>3, <2>4
    <3>2. CASE call[d].token \in exchanged.once
      BY <1>3, <3>1, <3>2 DEF AuthInv, ExchangesOK
    <3>3. CASE call[d].token = old /\ old # 0
      BY <1>3, <3>1, <3>3 DEF AuthInv, ExchangesOK, old
    <3>4. QED BY <1>9, <2>4, <3>1, <3>2, <3>3
  <2>5. ASSUME NEW d \in Calls, NEW e \in Calls, call'[d].at = "store", call'[e].at = "store", d # e,
               call'[d].token = call'[e].token, call'[d].token # 0
        PROVE  call'[d].token \in rivals'
    BY <1>3, <2>3, <2>5 DEF AuthInv, ExchangesOK
  <2>6. QED BY <2>1, <2>2, <2>4, <2>5 DEF ExchangesOK
<1>12. A!RevokedStaysOut'
  <2> SUFFICES ASSUME issuedIn'[new] < epoch' PROVE new \in late'
    BY <1>3 DEF A!RevokedStaysOut
  <2>1. issuedIn'[new] = call[c].epoch
    <3>1. new \in 1..new
      BY <1>1 DEF new
    <3>2. QED BY <1>3, <3>1
  <2>2. QED BY <1>3, <2>1
<1>13. QED BY <1>10, <1>11, <1>12 DEF AuthInv

LEMMA AuthStutter ==
  ASSUME AuthInv,
         UNCHANGED <<refreshTokens, call, epoch, issuedIn, late, exchanged, rivals, unrevoked>>
  PROVE  AuthInv'
<1>1. A!Issued' = A!Issued
  BY DEF A!Issued
<1>2. TokensOK' /\ ExchangesOK' /\ A!RevokedStaysOut'
  BY <1>1 DEF AuthInv, TokensOK, ExchangesOK, A!RevokedStaysOut
<1>3. QED BY <1>2 DEF AuthInv

LEMMA AuthStep ==
  ASSUME AuthInv, A!AuthNext
  PROVE  AuthInv'
<1>1. ASSUME NEW c \in Calls, A!RequestReset(c) PROVE AuthInv'
  BY <1>1, AuthStutter DEF A!RequestReset, A!pastVars
<1>2. CASE A!ResetTokenExpires \/ A!LockEnds \/ A!AttemptAges
  BY <1>2, AuthStutter DEF A!ResetTokenExpires, A!LockEnds, A!AttemptAges, A!tableVars, A!pastVars
<1>3. QED BY <1>1, <1>2, PlainStep, EndingStep, RevokingStep, RefreshStep, StoreStep DEF A!AuthNext

-----------------------------------------------------------------------------
(* jwt.ts: the inductive invariant *)

\* The tick in which the last second of the token begins.
LastSecond == Expiry * TicksPerSecond

\* A token that logged out stays blacklisted up to its last second.
TokenInv ==
  /\ clock \in Nat /\ blacklisted \in Nat /\ redisFailures \in Nat
  /\ redisFailures = 0 /\ loggedOut => blacklisted >= LastSecond \/ clock >= LastSecond
  /\ redisFailures = 0 => seconds \subseteq {Expiry}

-----------------------------------------------------------------------------

\* Times and seconds.
LEMMA SecondOf ==
  ASSUME NEW t \in Nat, NEW d \in Nat \ {0}
  PROVE  /\ t \div d \in Nat
         /\ (t \div d) * d <= t
         /\ t < (t \div d) * d + d
OBVIOUS

LEMMA TimesKeepsOrder ==
  ASSUME NEW a \in Int, NEW b \in Int, NEW d \in Nat \ {0}
  PROVE  /\ a <= b => a * d <= b * d
         /\ (a - b) * d = a * d - b * d
         /\ (a + 1) * d = a * d + d
         /\ a * d \in Int
OBVIOUS

LEMMA NowIs ==
  ASSUME TokenInv
  PROVE  /\ L!Now \in Nat /\ LastSecond \in Nat /\ Expiry \in Nat
         /\ clock >= LastSecond => L!Now >= Expiry
         /\ L!Now * TicksPerSecond \in Nat /\ L!Now * TicksPerSecond <= clock
<1>1. Expiry \in Nat /\ TicksPerSecond \in Nat \ {0} /\ clock \in Nat
  BY Bounds DEF L!ApiAuthOK, TokenInv
<1> DEFINE now == clock \div TicksPerSecond
<1>2. now \in Nat /\ now * TicksPerSecond <= clock /\ clock < now * TicksPerSecond + TicksPerSecond
  BY <1>1, SecondOf
<1>3. L!Now = now
  BY DEF L!Now
<1> HIDE DEF now
<1>4. ASSUME clock >= LastSecond, now < Expiry PROVE FALSE
  <2>1. (now + 1) * TicksPerSecond <= Expiry * TicksPerSecond
    BY <1>1, <1>2, <1>4, TimesKeepsOrder
  <2>2. (now + 1) * TicksPerSecond = now * TicksPerSecond + TicksPerSecond
    BY <1>1, <1>2, TimesKeepsOrder
  <2>3. now * TicksPerSecond \in Int /\ Expiry * TicksPerSecond \in Int
    BY <1>1, <1>2, TimesKeepsOrder
  <2>4. QED BY <1>1, <1>2, <1>4, <2>1, <2>2, <2>3 DEF LastSecond
<1>5. LastSecond \in Nat /\ now * TicksPerSecond \in Nat
  BY <1>1, <1>2 DEF LastSecond
<1>6. clock >= LastSecond => now >= Expiry
  BY <1>1, <1>2, <1>4
<1>7. QED BY <1>1, <1>2, <1>3, <1>5, <1>6

LEMMA InitToken == Init => TokenInv
BY DEF Init, L!ApiAuthInit, TokenInv

\* What concerns only logins.
LEMMA LockoutStep ==
  ASSUME TokenInv, UNCHANGED <<clock, blacklisted, loggedOut, seconds>>,
         redisFailures' = redisFailures \/ L!RedisAway
  PROVE  TokenInv'
<1>1. redisFailures \in Nat
  BY DEF TokenInv
<1>2. redisFailures' \in Nat /\ (redisFailures' = 0 => redisFailures = 0)
  BY <1>1 DEF L!RedisAway
<1>3. QED BY <1>2 DEF TokenInv

LEMMA TokenStep ==
  ASSUME TokenInv, L!ApiAuthNext
  PROVE  TokenInv'
<1> USE DEF L!lockoutVars, L!tokenVars
<1>1. redisFailures \in Nat /\ clock \in Nat /\ blacklisted \in Nat
  BY DEF TokenInv
<1>2. ASSUME L!RedisAway PROVE redisFailures' \in Nat /\ redisFailures' # 0
  BY <1>1, <1>2 DEF L!RedisAway
<1>3. ASSUME NEW c \in Logins,
             \/ L!CheckLockout(c) \/ L!Compare(c) \/ L!IncrAttempts(c) \/ L!ExpireAttempts(c)
             \/ L!ClearLockout(c) \/ L!RecordFails(c)
      PROVE  TokenInv'
  <2>1. UNCHANGED <<clock, blacklisted, loggedOut, seconds>>
    BY <1>3 DEF L!CheckLockout, L!Compare, L!IncrAttempts, L!ExpireAttempts, L!ClearLockout, L!RecordFails
  <2>2. redisFailures' = redisFailures \/ L!RedisAway
    BY <1>3 DEF L!CheckLockout, L!Compare, L!IncrAttempts, L!ExpireAttempts, L!ClearLockout, L!RecordFails
  <2>3. QED BY <2>1, <2>2, LockoutStep
<1>4. CASE L!AttemptsExpire
  BY <1>4, LockoutStep DEF L!AttemptsExpire
<1>5. CASE L!Accept
  <2>1. UNCHANGED <<clock, blacklisted, loggedOut>>
    BY <1>5 DEF L!Accept
  <2>2. CASE L!RedisAway
    BY <1>2, <2>1, <2>2 DEF TokenInv
  <2>3. CASE ~L!RedisAway
    <3>1. /\ L!Now <= Expiry /\ ~(clock < blacklisted) /\ redisFailures' = redisFailures
          /\ seconds' = IF loggedOut THEN seconds \cup {L!Now} ELSE seconds
      BY <1>5, <2>3 DEF L!Accept, L!Verified, L!Blacklisted
    <3>2. ASSUME redisFailures = 0, loggedOut PROVE L!Now = Expiry
      <4>1. clock >= LastSecond
        BY <1>1, <3>1, <3>2, NowIs DEF TokenInv
      <4>2. QED BY <3>1, <4>1, NowIs
    <3>3. QED BY <2>1, <3>1, <3>2 DEF TokenInv
  <2>4. QED BY <2>2, <2>3
<1>6. CASE L!LogOut
  <2>1. L!Now <= Expiry /\ loggedOut' = TRUE /\ UNCHANGED <<clock, seconds>>
    BY <1>6 DEF L!LogOut, L!Verified
  <2>2. CASE L!RedisAway
    <3>1. blacklisted' \in Nat
      <4>1. CASE blacklisted' = blacklisted
        BY <1>1, <4>1
      <4>2. CASE blacklisted' # blacklisted
        <5>1. redisFailures' = redisFailures
          BY <1>6, <4>2 DEF L!LogOut
        <5>2. QED BY <1>1, <2>2, <5>1 DEF L!RedisAway
      <4>3. QED BY <4>1, <4>2
    <3>2. QED BY <1>2, <2>1, <2>2, <3>1 DEF TokenInv
  <2>3. CASE ~L!RedisAway
    <3>1. /\ redisFailures' = redisFailures
          /\ blacklisted' = IF L!Remaining > 0 THEN clock + L!Remaining * TicksPerSecond ELSE blacklisted
      BY <1>6, <2>3 DEF L!LogOut, L!BlacklistFor
    <3>2. L!Remaining = Expiry - L!Now /\ L!Remaining \in Nat
      BY <2>1, NowIs DEF L!Remaining
    <3>3. CASE L!Remaining > 0
      <4>1. /\ Expiry \in Nat /\ TicksPerSecond \in Nat \ {0} /\ L!Now \in Nat
        BY NowIs, Bounds DEF L!ApiAuthOK
      <4>2. L!Remaining * TicksPerSecond = LastSecond - L!Now * TicksPerSecond
        BY <3>2, <4>1, TimesKeepsOrder DEF LastSecond
      <4>3. blacklisted' = clock + (LastSecond - L!Now * TicksPerSecond)
        BY <3>1, <3>3, <4>2
      <4>4. blacklisted' \in Nat /\ blacklisted' >= LastSecond
        BY <1>1, <4>3, NowIs
      <4>5. QED BY <1>1, <2>1, <3>1, <4>4 DEF TokenInv
    <3>4. CASE ~(L!Remaining > 0)
      <4>1. L!Now = Expiry
        BY <2>1, <3>2, <3>4, NowIs
      <4>2. clock >= LastSecond
        BY <1>1, <4>1, NowIs DEF LastSecond
      <4>3. QED BY <1>1, <2>1, <3>1, <3>4, <4>2 DEF TokenInv
    <3>5. QED BY <3>3, <3>4
  <2>4. QED BY <2>2, <2>3
<1>7. CASE L!Tick
  <2>1. clock' = clock + 1 /\ UNCHANGED <<blacklisted, loggedOut, seconds, redisFailures>>
    BY <1>7 DEF L!Tick
  <2>2. clock' \in Nat /\ (clock >= LastSecond => clock' >= LastSecond)
    BY <1>1, <2>1, NowIs
  <2>3. QED BY <2>1, <2>2 DEF TokenInv
<1>8. QED BY <1>3, <1>4, <1>5, <1>6, <1>7 DEF L!ApiAuthNext

\* authentication-manager.ts and jwt.ts: a logout or a new password ends the sessions before it, a
\* refresh token is exchanged once, and a token that logged out is refused up to its last second,
\* but for the overlaps and failures the property names: for any number of calls and tokens.
THEOREM SessionsDoEnd == Spec => []SessionsEnd
<1> DEFINE Inv == (part = "auth" => AuthInv) /\ (part = "lockout" => TokenInv)
<1>1. Init => Inv
  BY InitAuth, InitToken
<1>2. Inv /\ [Next]_vars => Inv'
  <2>1. ASSUME part = "auth", AuthInv, [Next]_vars PROVE AuthInv'
    <3>1. CASE Next
      BY <2>1, <3>1, AuthStep DEF Next
    <3>2. CASE UNCHANGED vars
      BY <2>1, <3>2, AuthStutter DEF vars, authVars
    <3>3. QED BY <2>1, <3>1, <3>2
  <2>2. ASSUME part = "lockout", TokenInv, [Next]_vars PROVE TokenInv'
    <3>1. CASE Next
      BY <2>2, <3>1, TokenStep DEF Next
    <3>2. CASE UNCHANGED vars
      BY <2>2, <3>2, LockoutStep DEF vars, apiAuthVars
    <3>3. QED BY <2>2, <3>1, <3>2
  <2>3. [Next]_vars => part' = part
    BY DEF Next, Others, vars
  <2>4. QED BY <2>1, <2>2, <2>3
<1>3. Inv => SessionsEnd
  <2>1. ASSUME AuthInv PROVE A!RevokedStaysOut /\ A!ExchangedOnce
    BY <2>1 DEF AuthInv, ExchangesOK, A!ExchangedOnce
  <2>2. ASSUME TokenInv PROVE L!LoggedOutIsRefused
    BY <2>2 DEF TokenInv, L!LoggedOutIsRefused
  <2>3. QED BY <2>1, <2>2 DEF SessionsEnd
<1>4. QED BY <1>1, <1>2, <1>3, PTL DEF Spec

-----------------------------------------------------------------------------
(* integrations/payments/stripe-connector.ts: the inductive invariant *)

Statuses == {"active", "past_due"}
StripeEvents == [of : Subscriptions, says : Statuses, acknowledged : BOOLEAN]
StoredRows == [subscription : Subscriptions, status : Statuses]

IsOf(e, s) == event[e] # None /\ event[e].of = s
Answered(e) == event[e] # None /\ event[e].acknowledged

StripeTypes ==
  /\ creation \in [Subscriptions -> {"none", "customer", "subscribed", "stored", "failed"}]
  /\ standing \in [Subscriptions -> Statuses \cup {None}]
  /\ event \in [Events -> StripeEvents \cup {None}]
  /\ delivery \in [Events -> {"idle", "active", "past_due", "update"}]
  /\ stored \in StoredRows \cup {None}
  /\ begun \in [Subscriptions -> Nat]
  /\ astray \in BOOLEAN

\* Stripe says of a subscription what its last event says, and its events come one after the other.
LastEventSays ==
  /\ \A d, e \in Events : d < e /\ event[e] # None => event[d] # None
  /\ \A s \in Subscriptions : creation[s] \in {"none", "customer"} => standing[s] = None
  /\ \A s \in Subscriptions : creation[s] \in {"subscribed", "stored"} => standing[s] # None
  /\ \A s \in Subscriptions : standing[s] = None => \A e \in Events : ~IsOf(e, s)
  /\ \A s \in Subscriptions :
       standing[s] # None /\ (\A e \in Events : ~IsOf(e, s)) => standing[s] = "active"
  /\ \A e \in Events :
       event[e] # None /\ (\A d \in Events : IsOf(d, event[e].of) => d <= e)
         => standing[event[e].of] = event[e].says

\* The row is one that createSubscription has written, and a handler does what its event says.
HandlersOK ==
  /\ stored # None => /\ creation[stored.subscription] \in {"stored", "failed"}
                      /\ standing[stored.subscription] # None
  /\ \A e \in Events :
       delivery[e] # "idle" => event[e] # None /\ (delivery[e] = "active" <=> event[e].says = "active")

\* While the events of a subscription come in order and one at a time, the one being handled is the last to
\* begin, and the row says what the last to begin says, once it is answered.
InOrder ==
  /\ \A s \in Subscriptions : begun[s] = 0 \/ (begun[s] \in Events /\ IsOf(begun[s], s))
  /\ \A e \in Events : Answered(e) \/ delivery[e] # "idle" =>
       creation[event[e].of] = "stored" /\ e <= begun[event[e].of]
  /\ \A e \in Events : delivery[e] # "idle" => begun[event[e].of] = e
  /\ \A e \in Events :
       stored # None /\ Answered(e) /\ event[e].of = stored.subscription /\ begun[event[e].of] = e
         => stored.status = event[e].says
  /\ stored # None /\ (\A e \in Events : ~IsOf(e, stored.subscription)) => stored.status = "active"

StripeInv == StripeTypes /\ LastEventSays /\ HandlersOK /\ (~astray => InOrder)

-----------------------------------------------------------------------------

LEMMA BillingConstants ==
  /\ Events \subseteq Nat /\ SuspendAt \in Nat \ {0} /\ MaxBillingFailures \in Nat
  /\ None \notin Nat /\ None \notin Subscriptions /\ None \notin Statuses
  /\ None \notin StoredRows /\ None \notin StripeEvents
BY Bounds DEF B!BillingOK, Statuses, StoredRows, StripeEvents

LEMMA InitStripe == Init => StripeInv
<1> SUFFICES ASSUME B!BillingInit PROVE StripeInv
  BY DEF Init
<1>1. /\ creation = [s \in Subscriptions |-> "none"] /\ standing = [s \in Subscriptions |-> None]
      /\ event = [e \in Events |-> None] /\ delivery = [e \in Events |-> "idle"] /\ stored = None
      /\ begun = [s \in Subscriptions |-> 0] /\ astray = FALSE
  BY DEF B!BillingInit
<1>2. StripeTypes
  BY <1>1 DEF StripeTypes
<1>3. LastEventSays /\ HandlersOK
  BY <1>1 DEF LastEventSays, HandlersOK, IsOf
<1>4. InOrder
  BY <1>1 DEF InOrder, IsOf, Answered
<1>5. QED BY <1>2, <1>3, <1>4 DEF StripeInv

\* What an event is when it is there.
LEMMA EventIs ==
  ASSUME StripeInv, NEW e \in Events, event[e] # None
  PROVE  /\ event[e] \in StripeEvents /\ event[e].of \in Subscriptions /\ event[e].says \in Statuses
         /\ event[e].acknowledged \in BOOLEAN /\ e \in Nat
BY BillingConstants DEF StripeInv, StripeTypes, StripeEvents

LEMMA RowIs ==
  ASSUME StripeInv, stored # None
  PROVE  stored \in StoredRows /\ stored.subscription \in Subscriptions /\ stored.status \in Statuses
         /\ stored = [subscription |-> stored.subscription, status |-> stored.status]
BY DEF StripeInv, StripeTypes, StoredRows

\* The UPDATE by subscription touches the row of that one only, and only its status.
LEMMA WrittenRow ==
  ASSUME StripeInv, NEW of \in Subscriptions, NEW says \in Statuses,
         stored' = IF stored # None /\ stored.subscription = of
                     THEN [stored EXCEPT !.status = says] ELSE stored
  PROVE  /\ stored = None => stored' = None
         /\ stored # None => /\ stored' # None /\ stored'.subscription = stored.subscription
                             /\ IF stored.subscription = of THEN stored'.status = says
                                ELSE stored' = stored
         /\ stored' \in StoredRows \cup {None}
<1>1. CASE stored # None /\ stored.subscription = of
  <2>1. PICK new : new = [stored EXCEPT !.status = says]
    OBVIOUS
  <2>2. stored \in StoredRows
    BY <1>1, RowIs
  <2>3. new \in StoredRows /\ new.subscription = stored.subscription /\ new.status = says
    BY <2>1, <2>2 DEF StoredRows
  <2>4. stored' = new
    BY <1>1, <2>1
  <2>5. QED BY <1>1, <2>3, <2>4, BillingConstants
<1>2. CASE ~(stored # None /\ stored.subscription = of)
  BY <1>2 DEF StripeInv, StripeTypes
<1>3. QED BY <1>1, <1>2

\* createSubscription: a step changes nothing that events have done.
LEMMA CreationStep ==
  ASSUME StripeInv, NEW s \in Subscriptions,
         B!CreateCustomer(s) \/ B!CreateInStripe(s) \/ B!StoreSubscription(s) \/ B!CreateFails(s)
  PROVE  StripeInv'
<1>1. /\ UNCHANGED <<event, delivery, begun, astray>> /\ creation[s] \in {"none", "customer", "subscribed"}
      /\ \A x \in Subscriptions \ {s} : creation'[x] = creation[x] /\ standing'[x] = standing[x]
      /\ creation' \in [Subscriptions -> {"none", "customer", "subscribed", "stored", "failed"}]
  BY DEF B!CreateCustomer, B!CreateInStripe, B!StoreSubscription, B!CreateFails, B!Create,
         StripeInv, StripeTypes
<1>2. \/ creation[s] = "none" /\ creation'[s] = "customer" /\ UNCHANGED <<standing, stored>>
      \/ /\ creation[s] = "customer" /\ creation'[s] = "subscribed" /\ UNCHANGED stored
         /\ standing' = [standing EXCEPT ![s] = "active"]
      \/ /\ creation[s] = "subscribed" /\ creation'[s] = "stored" /\ UNCHANGED standing
         /\ stored' = [subscription |-> s, status |-> "active"]
      \/ creation'[s] = "failed" /\ UNCHANGED <<standing, stored>>
      \/ /\ creation[s] = "subscribed" /\ creation'[s] = "failed" /\ UNCHANGED standing
         /\ stored' = [subscription |-> s, status |-> "active"]
  BY DEF B!CreateCustomer, B!CreateInStripe, B!StoreSubscription, B!CreateFails, B!Create,
         StripeInv, StripeTypes
<1>3. StripeTypes'
  BY <1>1, <1>2 DEF StripeInv, StripeTypes, Statuses, StoredRows
<1>4. \A e \in Events, x \in Subscriptions : IsOf(e, x)' = IsOf(e, x)
  BY <1>1 DEF IsOf
<1>5. creation[s] \in {"none", "customer"} => standing[s] = None /\ \A e \in Events : ~IsOf(e, s)
  BY DEF StripeInv, LastEventSays
<1>6. \/ standing' = standing
      \/ /\ standing[s] = None /\ standing'[s] = "active" /\ creation'[s] = "subscribed"
         /\ \A e \in Events : ~IsOf(e, s)
  BY <1>2, <1>5 DEF StripeInv, StripeTypes
<1>7. LastEventSays'
  <2>1. \A d, e \in Events : d < e /\ event'[e] # None => event'[d] # None
    BY <1>1 DEF StripeInv, LastEventSays
  <2>2. /\ \A x \in Subscriptions : creation'[x] \in {"none", "customer"} => standing'[x] = None
        /\ \A x \in Subscriptions : creation'[x] \in {"subscribed", "stored"} => standing'[x] # None
    <3>1. /\ creation'[s] \in {"none", "customer"} => standing'[s] = None
          /\ creation'[s] \in {"subscribed", "stored"} => standing'[s] # None
      <4>1. creation[s] = "subscribed" => standing[s] # None
        BY DEF StripeInv, LastEventSays
      <4>2. creation'[s] = "subscribed" => standing'[s] = "active"
        BY <1>2 DEF StripeInv, StripeTypes
      <4>3. creation'[s] = "stored" => creation[s] = "subscribed" /\ standing'[s] = standing[s]
        BY <1>2
      <4>4. creation'[s] = "customer" => creation[s] = "none" /\ standing'[s] = standing[s]
        BY <1>2
      <4>5. creation'[s] # "none"
        BY <1>2
      <4>6. QED BY <1>5, <4>1, <4>2, <4>3, <4>4, <4>5, BillingConstants DEF Statuses
    <3>2. QED BY <1>1, <3>1 DEF StripeInv, LastEventSays
  <2>3. \A x \in Subscriptions : standing'[x] = None => \A e \in Events : ~IsOf(e, x)'
    BY <1>1, <1>4, <1>6, BillingConstants DEF StripeInv, LastEventSays, Statuses
  <2>4. \A x \in Subscriptions :
          standing'[x] # None /\ (\A e \in Events : ~IsOf(e, x)') => standing'[x] = "active"
    BY <1>1, <1>4, <1>6 DEF StripeInv, LastEventSays
  <2>5. ASSUME NEW e \in Events, event[e] # None, \A d \in Events : IsOf(d, event[e].of) => d <= e
        PROVE  standing'[event[e].of] = event[e].says
    <3>1. IsOf(e, event[e].of)
      BY <2>5 DEF IsOf
    <3>2. standing'[event[e].of] = standing[event[e].of]
      BY <1>1, <1>6, <2>5, <3>1, EventIs
    <3>3. QED BY <2>5, <3>2 DEF StripeInv, LastEventSays
  <2>6. (\A e \in Events : event[e] # None /\ (\A d \in Events : IsOf(d, event[e].of) => d <= e)
          => standing[event[e].of] = event[e].says)'
    BY <1>1, <2>5 DEF IsOf
  <2>7. QED BY <2>1, <2>2, <2>3, <2>4, <2>6 DEF LastEventSays
<1>8. HandlersOK'
  <2>1. stored' # None => /\ creation'[stored'.subscription] \in {"stored", "failed"}
                          /\ standing'[stored'.subscription] # None
    <3>1. CASE stored' = stored
      <4>1. stored # None => stored.subscription # s /\ stored.subscription \in Subscriptions
        BY <1>1, RowIs DEF StripeInv, HandlersOK
      <4>2. QED BY <1>1, <3>1, <4>1 DEF StripeInv, HandlersOK
    <3>2. CASE stored' # stored
      <4>1. /\ creation[s] = "subscribed" /\ creation'[s] \in {"stored", "failed"}
            /\ stored' = [subscription |-> s, status |-> "active"] /\ standing' = standing
        BY <1>2, <3>2
      <4>2. stored'.subscription = s /\ standing[s] # None
        BY <4>1 DEF StripeInv, LastEventSays
      <4>3. QED BY <4>1, <4>2
    <3>3. QED BY <3>1, <3>2
  <2>2. QED BY <1>1, <2>1 DEF StripeInv, HandlersOK
<1>9. ASSUME InOrder PROVE InOrder'
  <2>1. \A e \in Events : Answered(e) \/ delivery[e] # "idle" => event[e].of # s /\ event[e].of \in Subscriptions
    <3>1. \A e \in Events : Answered(e) \/ delivery[e] # "idle" => event[e] # None
      BY DEF Answered, StripeInv, HandlersOK
    <3>2. QED BY <1>1, <1>9, <3>1, EventIs DEF InOrder
  <2>2. \A e \in Events : Answered(e)' = Answered(e)
    BY <1>1 DEF Answered
  <2>3. \A x \in Subscriptions : begun[x] = 0 \/ (begun[x] \in Events /\ IsOf(begun[x], x))
    BY <1>9 DEF InOrder
  <2>4. \A e \in Events : Answered(e)' \/ delivery'[e] # "idle" =>
          creation'[event'[e].of] = "stored" /\ e <= begun'[event'[e].of]
    BY <1>1, <1>9, <2>1, <2>2 DEF InOrder
  <2>5. stored' = stored \/ (stored' # None /\ stored'.subscription = s /\ stored'.status = "active")
    <3>1. [subscription |-> s, status |-> "active"] \in StoredRows
      BY DEF StoredRows, Statuses
    <3>2. QED BY <1>2, <3>1, BillingConstants
  <2>6. \A e \in Events :
          stored' # None /\ Answered(e)' /\ event'[e].of = stored'.subscription /\ begun'[event'[e].of] = e
            => stored'.status = event'[e].says
    BY <1>1, <1>9, <2>1, <2>2, <2>5 DEF InOrder
  <2>7. (stored # None /\ (\A e \in Events : ~IsOf(e, stored.subscription)) => stored.status = "active")'
    <3>1. CASE stored' = stored
      BY <1>1, <1>9, <3>1 DEF InOrder, IsOf
    <3>2. CASE stored' # stored
      BY <2>5, <3>2
    <3>3. QED BY <3>1, <3>2
  <2>8. \A e \in Events : delivery'[e] # "idle" => begun'[event'[e].of] = e
    BY <1>1, <1>9 DEF InOrder
  <2>9. (\A x \in Subscriptions : begun[x] = 0 \/ (begun[x] \in Events /\ IsOf(begun[x], x)))'
    BY <1>1, <2>3 DEF IsOf
  <2>10. QED BY <2>4, <2>6, <2>7, <2>8, <2>9 DEF InOrder
<1>10. QED BY <1>1, <1>3, <1>7, <1>8, <1>9 DEF StripeInv

\* External: a new event is the last of its subscription, and waits to be received.
LEMMA EventStep ==
  ASSUME StripeInv, NEW e \in Events, NEW s \in Subscriptions, NEW status \in Statuses,
         B!StripeEvent(e, s, status)
  PROVE  StripeInv'
<1> DEFINE new == [of |-> s, says |-> status, acknowledged |-> FALSE]
<1>1. /\ event[e] = None /\ (\A d \in Events : d < e => event[d] # None) /\ standing[s] # None
      /\ event' = [event EXCEPT ![e] = new] /\ standing' = [standing EXCEPT ![s] = status]
      /\ UNCHANGED <<creation, delivery, stored, begun, astray>>
  BY DEF B!StripeEvent
<1>2. new \in StripeEvents /\ new # None /\ new.of = s /\ new.says = status /\ new.acknowledged = FALSE
  <2>1. new \in StripeEvents
    BY DEF StripeEvents
  <2>2. new # None
    BY <2>1, BillingConstants
  <2>3. QED BY <2>1, <2>2
<1> HIDE DEF new
<1>3. /\ event'[e] = new /\ \A d \in Events \ {e} : event'[d] = event[d]
      /\ standing'[s] = status /\ \A x \in Subscriptions \ {s} : standing'[x] = standing[x]
  BY <1>1 DEF StripeInv, StripeTypes
<1>4. StripeTypes'
  BY <1>1, <1>2 DEF StripeInv, StripeTypes
<1>5. /\ IsOf(e, s)' /\ \A x \in Subscriptions \ {s} : ~IsOf(e, x)'
      /\ \A d \in Events \ {e}, x \in Subscriptions : IsOf(d, x)' = IsOf(d, x)
      /\ \A x \in Subscriptions : ~IsOf(e, x)
  BY <1>1, <1>2, <1>3 DEF IsOf
<1>6. \A d \in Events : event'[d] # None => d <= e
  <2> SUFFICES ASSUME NEW d \in Events, event'[d] # None, ~(d <= e) PROVE FALSE
    OBVIOUS
  <2>1. e < d /\ d # e
    BY BillingConstants
  <2>2. event[d] # None
    BY <1>3, <2>1
  <2>3. QED BY <1>1, <2>1, <2>2 DEF StripeInv, LastEventSays
<1>7. LastEventSays'
  <2>1. \A c, d \in Events : c < d /\ event'[d] # None => event'[c] # None
    <3> SUFFICES ASSUME NEW c \in Events, NEW d \in Events, c < d, event'[d] # None
                 PROVE  event'[c] # None
      OBVIOUS
    <3>1. CASE c = e
      BY <1>2, <1>3, <3>1
    <3>2. CASE c # e /\ d = e
      BY <1>1, <1>3, <3>2
    <3>3. CASE c # e /\ d # e
      BY <1>3, <3>3 DEF StripeInv, LastEventSays
    <3>4. QED BY <3>1, <3>2, <3>3
  <2>2. /\ \A x \in Subscriptions : creation'[x] \in {"none", "customer"} => standing'[x] = None
        /\ \A x \in Subscriptions : creation'[x] \in {"subscribed", "stored"} => standing'[x] # None
    BY <1>1, <1>3, BillingConstants DEF StripeInv, LastEventSays
  <2>3. \A x \in Subscriptions : standing'[x] = None => \A d \in Events : ~IsOf(d, x)'
    BY <1>3, <1>5, BillingConstants DEF StripeInv, LastEventSays
  <2>4. \A x \in Subscriptions :
          standing'[x] # None /\ (\A d \in Events : ~IsOf(d, x)') => standing'[x] = "active"
    BY <1>3, <1>5 DEF StripeInv, LastEventSays
  <2>5. ASSUME NEW d \in Events, event'[d] # None, (\A c \in Events : IsOf(c, event[d].of) => c <= d)'
        PROVE  standing'[event'[d].of] = event'[d].says
    <3>1. CASE d = e
      BY <1>2, <1>3, <3>1
    <3>2. CASE d # e
      <4>1. event'[d] = event[d] /\ event[d] # None /\ event[d].of \in Subscriptions
        BY <1>3, <2>5, <3>2, EventIs
      <4>2. event[d].of # s
        <5> SUFFICES ASSUME event[d].of = s PROVE FALSE
          OBVIOUS
        <5>1. e <= d
          BY <1>5, <2>5, <4>1 DEF IsOf
        <5>2. d <= e
          BY <1>6, <2>5
        <5>3. QED BY <3>2, <5>1, <5>2, BillingConstants
      <4>3. \A c \in Events : IsOf(c, event[d].of) => c <= d
        BY <1>5, <2>5, <4>1 DEF IsOf
      <4>4. QED BY <1>3, <4>1, <4>2, <4>3 DEF StripeInv, LastEventSays
    <3>3. QED BY <3>1, <3>2
  <2>6. QED BY <2>1, <2>2, <2>3, <2>4, <2>5 DEF LastEventSays
<1>8. delivery[e] = "idle" /\ HandlersOK'
  <2>1. delivery[e] = "idle"
    BY <1>1 DEF StripeInv, HandlersOK
  <2>2. stored # None => /\ creation'[stored.subscription] \in {"stored", "failed"}
                         /\ standing'[stored.subscription] # None
    <3>1. stored # None => standing[stored.subscription] # None /\ stored.subscription \in Subscriptions
      BY RowIs DEF StripeInv, HandlersOK
    <3>2. QED BY <1>1, <1>3, <3>1, BillingConstants DEF StripeInv, HandlersOK
  <2>3. QED BY <1>1, <1>3, <2>1, <2>2 DEF StripeInv, HandlersOK
<1>9. ASSUME InOrder PROVE InOrder'
  <2>1. ~Answered(e)' /\ \A d \in Events \ {e} : Answered(d)' = Answered(d)
    BY <1>2, <1>3 DEF Answered
  <2>2. \A x \in Subscriptions : begun[x] = 0 \/ (begun[x] \in Events /\ IsOf(begun[x], x)')
    <3> SUFFICES ASSUME NEW x \in Subscriptions, begun[x] # 0
                 PROVE  begun[x] \in Events /\ IsOf(begun[x], x)'
      OBVIOUS
    <3>1. begun[x] \in Events /\ IsOf(begun[x], x) /\ begun' = begun
      BY <1>1, <1>9 DEF InOrder
    <3>2. begun[x] # e /\ event[begun[x]] # None /\ event[begun[x]].of = x
      BY <1>1, <3>1 DEF IsOf
    <3>3. event'[begun'[x]] = event[begun[x]]
      BY <1>3, <3>1, <3>2
    <3>4. QED BY <3>1, <3>2, <3>3 DEF IsOf
  <2>3. (\A x \in Subscriptions : begun[x] = 0 \/ (begun[x] \in Events /\ IsOf(begun[x], x)))'
    BY <1>1, <2>2 DEF IsOf
  <2>4. (\A d \in Events : Answered(d) \/ delivery[d] # "idle" =>
           creation[event[d].of] = "stored" /\ d <= begun[event[d].of])'
    BY <1>1, <1>3, <1>8, <1>9, <2>1 DEF InOrder
  <2>5. (\A d \in Events : delivery[d] # "idle" => begun[event[d].of] = d)'
    BY <1>1, <1>3, <1>8, <1>9 DEF InOrder
  <2>6. (\A d \in Events :
           stored # None /\ Answered(d) /\ event[d].of = stored.subscription /\ begun[event[d].of] = d
             => stored.status = event[d].says)'
    BY <1>1, <1>3, <1>9, <2>1 DEF InOrder
  <2>7. (stored # None /\ (\A d \in Events : ~IsOf(d, stored.subscription)) => stored.status = "active")'
    <3>1. ASSUME stored # None, \A d \in Events : ~IsOf(d, stored.subscription)' PROVE stored.status = "active"
      <4>1. \A d \in Events : ~IsOf(d, stored.subscription)
        <5>1. stored' = stored /\ stored.subscription \in Subscriptions
          BY <1>1, <3>1, RowIs
        <5>2. QED BY <1>5, <3>1, <5>1 DEF IsOf
      <4>2. QED BY <1>9, <3>1, <4>1 DEF InOrder
    <3>2. ASSUME (\A d \in Events : ~IsOf(d, stored.subscription))'
          PROVE  \A d \in Events : ~IsOf(d, stored.subscription)'
      BY <3>2
    <3>3. QED BY <1>1, <3>1, <3>2
  <2>8. QED BY <2>3, <2>4, <2>5, <2>6, <2>7 DEF InOrder
<1>10. QED BY <1>1, <1>4, <1>7, <1>8, <1>9 DEF StripeInv

\* The POST of an event: unless it is astray, the one being handled is the last to begin.
LEMMA ReceiveStep ==
  ASSUME StripeInv, NEW e \in Events, B!Receive(e)
  PROVE  StripeInv'
<1> DEFINE s == event[e].of
<1>1. /\ event[e] # None /\ delivery[e] = "idle"
      /\ delivery' = [delivery EXCEPT ![e] = event[e].says]
      /\ begun' = [begun EXCEPT ![s] = IF e > @ THEN e ELSE @]
      /\ astray' = (astray \/ begun[s] > e \/ creation[s] # "stored"
                    \/ \E d \in Events \ {e} : event[d] # None /\ event[d].of = s /\ delivery[d] # "idle")
      /\ UNCHANGED <<creation, standing, event, stored>>
  BY DEF B!Receive
<1>2. s \in Subscriptions /\ event[e].says \in Statuses /\ e \in Nat /\ begun[s] \in Nat
  BY <1>1, EventIs DEF StripeInv, StripeTypes
<1>3. delivery'[e] = event[e].says /\ \A d \in Events \ {e} : delivery'[d] = delivery[d]
  BY <1>1 DEF StripeInv, StripeTypes
<1>4. StripeTypes'
  <2>1. delivery' \in [Events -> {"idle", "active", "past_due", "update"}]
    BY <1>1, <1>2 DEF StripeInv, StripeTypes, Statuses
  <2>2. begun' \in [Subscriptions -> Nat]
    BY <1>1, <1>2 DEF StripeInv, StripeTypes
  <2>3. astray' \in BOOLEAN
    BY <1>1 DEF StripeInv, StripeTypes
  <2>4. QED BY <1>1, <2>1, <2>2, <2>3 DEF StripeInv, StripeTypes
<1>5. LastEventSays'
  BY <1>1 DEF StripeInv, LastEventSays, IsOf
<1>6. HandlersOK'
  <2>1. \A d \in Events :
          delivery'[d] # "idle" => event[d] # None /\ (delivery'[d] = "active" <=> event[d].says = "active")
    BY <1>1, <1>3 DEF StripeInv, HandlersOK
  <2>2. QED BY <1>1, <2>1 DEF StripeInv, HandlersOK
<1>7. ASSUME ~astray' PROVE InOrder'
  <2>1. /\ InOrder /\ begun[s] <= e /\ creation[s] = "stored"
        /\ \A d \in Events \ {e} : event[d] # None /\ event[d].of = s => delivery[d] = "idle"
    <3>1. ~astray /\ ~(begun[s] > e) /\ ~(creation[s] # "stored")
          /\ \A d \in Events \ {e} : ~(event[d] # None /\ event[d].of = s /\ delivery[d] # "idle")
      BY <1>1, <1>7
    <3>2. begun[s] <= e
      <4>1. PICK i, j \in Nat : i = begun[s] /\ j = e
        BY <1>2
      <4>2. ~(i > j)
        BY <3>1, <4>1
      <4>3. QED BY <4>1, <4>2
    <3>3. InOrder
      BY <3>1 DEF StripeInv
    <3>4. QED BY <3>1, <3>2, <3>3
  <2>2. begun'[s] = e /\ \A x \in Subscriptions \ {s} : begun'[x] = begun[x]
    BY <1>1, <1>2, <2>1 DEF StripeInv, StripeTypes
  <2>3. (\A x \in Subscriptions : begun[x] = 0 \/ (begun[x] \in Events /\ IsOf(begun[x], x)))'
    BY <1>1, <2>1, <2>2 DEF InOrder, IsOf
  <2>4. (\A d \in Events : Answered(d) \/ delivery[d] # "idle" =>
           creation[event[d].of] = "stored" /\ d <= begun[event[d].of])'
    <3> SUFFICES ASSUME NEW d \in Events, Answered(d) \/ delivery'[d] # "idle"
                 PROVE  creation[event[d].of] = "stored" /\ d <= begun'[event[d].of]
      BY <1>1 DEF Answered
    <3>1. CASE d = e
      BY <1>2, <2>1, <2>2, <3>1
    <3>2. CASE d # e
      <4>1. creation[event[d].of] = "stored" /\ d <= begun[event[d].of]
        BY <1>3, <2>1, <3>2 DEF InOrder
      <4>2. event[d] # None
        BY <1>3, <3>2 DEF Answered, StripeInv, HandlersOK
      <4>3. CASE event[d].of = s
        BY <1>2, <2>1, <2>2, <4>1, <4>3, BillingConstants
      <4>4. CASE event[d].of # s
        BY <2>2, <4>1, <4>2, <4>4, EventIs
      <4>5. QED BY <4>1, <4>3, <4>4
    <3>3. QED BY <3>1, <3>2
  <2>5. (\A d \in Events : delivery[d] # "idle" => begun[event[d].of] = d)'
    <3> SUFFICES ASSUME NEW d \in Events, delivery'[d] # "idle" PROVE begun'[event[d].of] = d
      BY <1>1
    <3>1. CASE d = e
      BY <2>2, <3>1
    <3>2. CASE d # e
      <4>1. delivery[d] # "idle" /\ event[d] # None /\ begun[event[d].of] = d
        BY <1>3, <2>1, <3>2 DEF InOrder, StripeInv, HandlersOK
      <4>2. event[d].of # s /\ event[d].of \in Subscriptions
        BY <2>1, <3>2, <4>1, EventIs
      <4>3. QED BY <2>2, <4>1, <4>2
    <3>3. QED BY <3>1, <3>2
  <2>6. (\A d \in Events :
           stored # None /\ Answered(d) /\ event[d].of = stored.subscription /\ begun[event[d].of] = d
             => stored.status = event[d].says)'
    <3> SUFFICES ASSUME NEW d \in Events, stored # None, Answered(d),
                        event[d].of = stored.subscription, begun'[event[d].of] = d
                 PROVE  stored.status = event[d].says
      BY <1>1 DEF Answered
    <3>1. begun[event[d].of] = d
      <4>1. d <= begun[event[d].of] /\ event[d] # None
        BY <2>1 DEF InOrder, Answered
      <4>2. CASE event[d].of = s
        BY <1>2, <2>1, <2>2, <4>1, <4>2, BillingConstants
      <4>3. CASE event[d].of # s
        BY <2>2, <4>1, <4>3, EventIs
      <4>4. QED BY <4>2, <4>3
    <3>2. QED BY <2>1, <3>1 DEF InOrder
  <2>7. (stored # None /\ (\A d \in Events : ~IsOf(d, stored.subscription)) => stored.status = "active")'
    BY <1>1, <2>1 DEF InOrder, IsOf
  <2>8. QED BY <2>3, <2>4, <2>5, <2>6, <2>7 DEF InOrder
<1>8. QED BY <1>4, <1>5, <1>6, <1>7 DEF StripeInv

\* The handler goes on, or stops without an answer: what it has begun stays.
LEMMA DeliveryStep ==
  ASSUME StripeInv, NEW e \in Events, event[e] # None, delivery[e] # "idle",
         \E at \in {"idle", "active", "past_due", "update"} :
           delivery' = [delivery EXCEPT ![e] = at]
             /\ (at # "idle" => (at = "active" <=> event[e].says = "active")),
         UNCHANGED <<creation, standing, event, stored, begun, astray>>
  PROVE  StripeInv'
<1>1. \A d \in Events : delivery'[d] # "idle" =>
        delivery[d] # "idle" /\ event[d] # None /\ (delivery'[d] = "active" <=> event[d].says = "active")
  BY DEF StripeInv, StripeTypes, HandlersOK
<1>2. StripeTypes'
  BY DEF StripeInv, StripeTypes
<1>3. LastEventSays'
  BY DEF StripeInv, LastEventSays, IsOf
<1>4. HandlersOK'
  BY <1>1 DEF StripeInv, HandlersOK
<1>5. ASSUME InOrder PROVE InOrder'
  BY <1>1, <1>5 DEF InOrder, IsOf, Answered
<1>6. QED BY <1>2, <1>3, <1>4, <1>5 DEF StripeInv

\* The handler stops after its UPDATE, without an answer: the row of its subscription, if it is
\* the stored one, says what the event says.
LEMMA EffectStep ==
  ASSUME StripeInv, NEW e \in Events, event[e] # None, delivery[e] # "idle",
         delivery' = [delivery EXCEPT ![e] = "idle"],
         UNCHANGED <<creation, standing, event, begun, astray>>,
         stored' = IF stored # None /\ stored.subscription = event[e].of
                     THEN [stored EXCEPT !.status = event[e].says] ELSE stored
  PROVE  StripeInv'
<1>1. event[e].of \in Subscriptions /\ event[e].says \in Statuses
  BY EventIs
<1>2. /\ stored = None => stored' = None
      /\ stored # None => /\ stored' # None /\ stored'.subscription = stored.subscription
                          /\ IF stored.subscription = event[e].of THEN stored'.status = event[e].says
                             ELSE stored' = stored
      /\ stored' \in StoredRows \cup {None}
  BY <1>1, WrittenRow
<1>3. delivery'[e] = "idle" /\ \A d \in Events \ {e} : delivery'[d] = delivery[d]
  BY DEF StripeInv, StripeTypes
<1>4. StripeTypes'
  BY <1>2 DEF StripeInv, StripeTypes
<1>5. LastEventSays'
  BY DEF StripeInv, LastEventSays, IsOf
<1>6. HandlersOK'
  BY <1>2, <1>3 DEF StripeInv, HandlersOK
<1>7. ASSUME InOrder PROVE InOrder'
  <2>1. begun[event[e].of] = e
    BY <1>7 DEF InOrder
  <2>2. (\A d \in Events :
           stored # None /\ Answered(d) /\ event[d].of = stored.subscription /\ begun[event[d].of] = d
             => stored.status = event[d].says)'
    BY <1>2, <1>7, <2>1 DEF InOrder, Answered
  <2>3. (stored # None /\ (\A d \in Events : ~IsOf(d, stored.subscription)) => stored.status = "active")'
    BY <1>2, <1>7 DEF InOrder, IsOf
  <2>4. (\A d \in Events : Answered(d) \/ delivery[d] # "idle" =>
           creation[event[d].of] = "stored" /\ d <= begun[event[d].of])'
    BY <1>3, <1>7 DEF InOrder, Answered
  <2>5. /\ (\A s \in Subscriptions : begun[s] = 0 \/ (begun[s] \in Events /\ IsOf(begun[s], s)))'
        /\ (\A d \in Events : delivery[d] # "idle" => begun[event[d].of] = d)'
    BY <1>3, <1>7 DEF InOrder, IsOf
  <2>6. QED BY <2>2, <2>3, <2>4, <2>5 DEF InOrder
<1>8. QED BY <1>4, <1>5, <1>6, <1>7 DEF StripeInv

\* The answer to an event: the row of its subscription, if it is the stored one, says what it says.
LEMMA AnswerStep ==
  ASSUME StripeInv, NEW e \in Events, event[e] # None, delivery[e] # "idle", B!Answer(e),
         UNCHANGED <<creation, standing, begun, astray>>,
         stored' = IF stored # None /\ stored.subscription = event[e].of
                     THEN [stored EXCEPT !.status = event[e].says] ELSE stored
  PROVE  StripeInv'
<1>1. PICK answer : answer = [event[e] EXCEPT !.acknowledged = TRUE]
  OBVIOUS
<1>2. event[e] \in StripeEvents /\ event[e].of \in Subscriptions /\ event[e].says \in Statuses
  BY EventIs
<1>3. answer \in StripeEvents /\ answer.of = event[e].of /\ answer.says = event[e].says /\ answer.acknowledged
  BY <1>1, <1>2 DEF StripeEvents
<1>4. event' = [event EXCEPT ![e] = answer] /\ delivery' = [delivery EXCEPT ![e] = "idle"]
  BY <1>1 DEF B!Answer, StripeInv, StripeTypes
<1>5. /\ event'[e] = answer /\ answer # None /\ \A d \in Events \ {e} : event'[d] = event[d]
      /\ delivery'[e] = "idle" /\ \A d \in Events \ {e} : delivery'[d] = delivery[d]
  BY <1>3, <1>4, BillingConstants DEF StripeInv, StripeTypes
<1>6. /\ \A d \in Events : event'[d] # None <=> event[d] # None
      /\ \A d \in Events : event[d] # None => event'[d].of = event[d].of /\ event'[d].says = event[d].says
      /\ \A d \in Events, s \in Subscriptions : IsOf(d, s)' = IsOf(d, s)
  <2>1. \A d \in Events : event'[d] # None <=> event[d] # None
    BY <1>5
  <2>2. \A d \in Events : event[d] # None => event'[d].of = event[d].of /\ event'[d].says = event[d].says
    BY <1>3, <1>5
  <2>3. QED BY <2>1, <2>2 DEF IsOf
<1>7. /\ stored = None => stored' = None
      /\ stored # None => /\ stored' # None /\ stored'.subscription = stored.subscription
                          /\ IF stored.subscription = event[e].of THEN stored'.status = event[e].says
                             ELSE stored' = stored
      /\ stored' \in StoredRows \cup {None}
  BY <1>2, WrittenRow
<1>8. StripeTypes'
  BY <1>3, <1>4, <1>7 DEF StripeInv, StripeTypes
<1>9. LastEventSays'
  <2>1. \A c, d \in Events : c < d /\ event'[d] # None => event'[c] # None
    BY <1>6 DEF StripeInv, LastEventSays
  <2>2. ASSUME NEW d \in Events, event'[d] # None, (\A c \in Events : IsOf(c, event[d].of) => c <= d)'
        PROVE  standing'[event'[d].of] = event'[d].says
    <3>1. event[d] # None /\ event'[d].of = event[d].of /\ event'[d].says = event[d].says
          /\ event[d].of \in Subscriptions
      BY <1>6, <2>2, EventIs
    <3>2. \A c \in Events : IsOf(c, event[d].of) => c <= d
      BY <1>6, <2>2, <3>1 DEF IsOf
    <3>3. QED BY <3>1, <3>2 DEF StripeInv, LastEventSays
  <2>3. \A s \in Subscriptions : standing'[s] = None => \A d \in Events : ~IsOf(d, s)'
    BY <1>6 DEF StripeInv, LastEventSays
  <2>4. \A s \in Subscriptions :
          standing'[s] # None /\ (\A d \in Events : ~IsOf(d, s)') => standing'[s] = "active"
    BY <1>6 DEF StripeInv, LastEventSays
  <2>5. /\ \A s \in Subscriptions : creation'[s] \in {"none", "customer"} => standing'[s] = None
        /\ \A s \in Subscriptions : creation'[s] \in {"subscribed", "stored"} => standing'[s] # None
    BY DEF StripeInv, LastEventSays
  <2>6. QED BY <2>1, <2>2, <2>3, <2>4, <2>5 DEF LastEventSays
<1>10. HandlersOK'
  <2>1. stored' # None => /\ creation'[stored'.subscription] \in {"stored", "failed"}
                          /\ standing'[stored'.subscription] # None
    BY <1>7 DEF StripeInv, HandlersOK
  <2>2. \A d \in Events :
          delivery'[d] # "idle" => event'[d] # None /\ (delivery'[d] = "active" <=> event'[d].says = "active")
    BY <1>5 DEF StripeInv, HandlersOK
  <2>3. QED BY <2>1, <2>2 DEF HandlersOK
<1>11. ASSUME InOrder PROVE InOrder'
  <2>1. \A d \in Events \ {e} : Answered(d)' = Answered(d)
    BY <1>5 DEF Answered
  <2>2. (\A s \in Subscriptions : begun[s] = 0 \/ (begun[s] \in Events /\ IsOf(begun[s], s)))'
    <3> SUFFICES ASSUME NEW s \in Subscriptions, begun[s] # 0
                 PROVE  begun[s] \in Events /\ event'[begun[s]] # None /\ event'[begun[s]].of = s
      BY DEF IsOf
    <3>1. begun[s] \in Events /\ event[begun[s]] # None /\ event[begun[s]].of = s
      BY <1>11 DEF InOrder, IsOf
    <3>2. QED BY <1>6, <3>1
  <2>3. begun[event[e].of] = e /\ creation[event[e].of] = "stored"
    BY <1>11 DEF InOrder
  <2>4. (\A d \in Events : Answered(d) \/ delivery[d] # "idle" =>
           creation[event[d].of] = "stored" /\ d <= begun[event[d].of])'
    <3> SUFFICES ASSUME NEW d \in Events, Answered(d)' \/ delivery'[d] # "idle"
                 PROVE  creation[event'[d].of] = "stored" /\ d <= begun[event'[d].of]
      OBVIOUS
    <3>1. CASE d = e
      BY <1>6, <2>3, <3>1, BillingConstants
    <3>2. CASE d # e
      BY <1>5, <1>11, <2>1, <3>2 DEF InOrder
    <3>3. QED BY <3>1, <3>2
  <2>5. (\A d \in Events : delivery[d] # "idle" => begun[event[d].of] = d)'
    BY <1>5, <1>11 DEF InOrder
  <2>6. (\A d \in Events :
           stored # None /\ Answered(d) /\ event[d].of = stored.subscription /\ begun[event[d].of] = d
             => stored.status = event[d].says)'
    <3> SUFFICES ASSUME NEW d \in Events, stored' # None, Answered(d)',
                        event'[d].of = stored'.subscription, begun[event'[d].of] = d
                 PROVE  stored'.status = event'[d].says
      OBVIOUS
    <3>1. stored # None /\ stored'.subscription = stored.subscription
      BY <1>7
    <3>2. CASE d = e
      BY <1>6, <1>7, <3>1, <3>2
    <3>3. CASE d # e
      <4>1. event'[d] = event[d] /\ Answered(d)
        BY <1>5, <2>1, <3>3
      <4>2. event[d].of # event[e].of
        BY <2>3, <3>3, <4>1
      <4>3. stored' = stored
        BY <1>7, <3>1, <4>1, <4>2
      <4>4. QED BY <1>11, <3>1, <4>1, <4>3 DEF InOrder
    <3>4. QED BY <3>2, <3>3
  <2>7. (stored # None /\ (\A d \in Events : ~IsOf(d, stored.subscription)) => stored.status = "active")'
    <3> SUFFICES ASSUME stored' # None, \A d \in Events : ~(event'[d] # None /\ event'[d].of = stored'.subscription)
                 PROVE  stored'.status = "active"
      BY DEF IsOf
    <3>1. stored # None /\ stored'.subscription = stored.subscription
      BY <1>7
    <3>2. stored.subscription # event[e].of
      BY <1>6, <3>1
    <3>3. \A d \in Events : ~IsOf(d, stored.subscription)
      BY <1>6, <3>1 DEF IsOf
    <3>4. QED BY <1>7, <1>11, <3>1, <3>2, <3>3 DEF InOrder
  <2>8. QED BY <2>2, <2>4, <2>5, <2>6, <2>7 DEF InOrder
<1>12. QED BY <1>8, <1>9, <1>10, <1>11 DEF StripeInv

LEMMA StripeStep ==
  ASSUME StripeInv, B!StripeNext
  PROVE  StripeInv'
<1>1. ASSUME NEW e \in Events, delivery[e] # "idle"
      PROVE  event[e] # None /\ event[e].says \in Statuses /\ (delivery[e] = "active" <=> event[e].says = "active")
  BY <1>1, EventIs DEF StripeInv, HandlersOK
<1>2. ASSUME NEW e \in Events, B!InvoicePaid(e) PROVE StripeInv'
  <2>1. delivery[e] = "active" /\ B!Answer(e) /\ UNCHANGED <<creation, standing, begun, astray>>
        /\ stored' = IF stored # None /\ stored.subscription = event[e].of
                       THEN [stored EXCEPT !.status = "active"] ELSE stored
    BY <1>2 DEF B!InvoicePaid, B!SetStatus
  <2>2. event[e] # None /\ event[e].says = "active"
    BY <1>1, <2>1
  <2>3. QED BY <2>1, <2>2, AnswerStep
<1>3. ASSUME NEW e \in Events, B!PaymentFailed(e) PROVE StripeInv'
  <2>1. delivery[e] = "update" /\ B!Answer(e) /\ UNCHANGED <<creation, standing, begun, astray>>
        /\ stored' = IF stored # None /\ stored.subscription = event[e].of
                       THEN [stored EXCEPT !.status = "past_due"] ELSE stored
    BY <1>3 DEF B!PaymentFailed, B!SetStatus
  <2>2. event[e] # None /\ event[e].says = "past_due"
    BY <1>1, <2>1 DEF Statuses
  <2>3. QED BY <2>1, <2>2, AnswerStep
<1>4. ASSUME NEW e \in Events, B!FindFailed(e) PROVE StripeInv'
  <2>1. delivery[e] = "past_due" /\ UNCHANGED <<creation, standing, stored, begun, astray>>
    BY <1>4 DEF B!FindFailed
  <2>2. event[e] # None /\ event[e].says = "past_due"
    BY <1>1, <2>1 DEF Statuses
  <2>3. CASE stored # None /\ stored.subscription = event[e].of
    <3>1. delivery' = [delivery EXCEPT ![e] = "update"] /\ UNCHANGED event
      BY <1>4, <2>3 DEF B!FindFailed
    <3>2. QED BY <2>1, <2>2, <3>1, DeliveryStep
  <2>4. CASE ~(stored # None /\ stored.subscription = event[e].of)
    <3>1. B!Answer(e)
      BY <1>4, <2>4 DEF B!FindFailed
    <3>2. QED BY <2>1, <2>2, <2>4, <3>1, AnswerStep
  <2>5. QED BY <2>3, <2>4
<1>5. ASSUME NEW e \in Events, B!DeliveryFails(e) PROVE StripeInv'
  <2>1. /\ delivery[e] # "idle" /\ delivery' = [delivery EXCEPT ![e] = "idle"]
        /\ UNCHANGED <<creation, standing, event, begun, astray>>
        /\ \/ stored' = stored
           \/ stored' = IF stored # None /\ stored.subscription = event[e].of
                          THEN [stored EXCEPT !.status = event[e].says] ELSE stored
    BY <1>5 DEF B!DeliveryFails, B!SetStatus
  <2>2. event[e] # None
    BY <1>1, <2>1
  <2>3. CASE stored' = stored
    BY <2>1, <2>2, <2>3, DeliveryStep
  <2>4. CASE stored' # stored
    BY <2>1, <2>2, <2>4, EffectStep
  <2>5. QED BY <2>3, <2>4
<1>6. QED BY <1>2, <1>3, <1>4, <1>5, CreationStep, EventStep, ReceiveStep DEF B!StripeNext, Statuses

LEMMA StripeStutter ==
  ASSUME StripeInv, UNCHANGED <<creation, standing, event, delivery, stored, begun, astray>>
  PROVE  StripeInv'
<1>1. StripeTypes' /\ LastEventSays' /\ HandlersOK'
  BY DEF StripeInv, StripeTypes, LastEventSays, HandlersOK, IsOf
<1>2. InOrder => InOrder'
  BY DEF InOrder, IsOf, Answered
<1>3. QED BY <1>1, <1>2 DEF StripeInv

\* Once all is answered, the last event of the subscription is the last that was begun.
LEMMA RowFollows == StripeInv => B!StatusFollowsStripe
<1> SUFFICES ASSUME StripeInv, ~astray, stored # None,
                    \A e \in Events : event[e] # None => event[e].acknowledged /\ delivery[e] = "idle"
             PROVE  stored.status = standing[stored.subscription]
  BY DEF B!StatusFollowsStripe
<1> DEFINE s == stored.subscription
           last == begun[s]
<1>1. InOrder /\ s \in Subscriptions /\ standing[s] # None
  <2>1. standing[s] # None
    BY DEF StripeInv, HandlersOK
  <2>2. s \in Subscriptions
    BY RowIs
  <2>3. QED BY <2>1, <2>2 DEF StripeInv
<1>2. \A e \in Events : IsOf(e, s) => Answered(e) /\ e <= last
  BY <1>1 DEF IsOf, Answered, InOrder
<1>3. CASE \A e \in Events : ~IsOf(e, s)
  BY <1>1, <1>3 DEF InOrder, StripeInv, LastEventSays
<1>4. ASSUME NEW e \in Events, IsOf(e, s) PROVE stored.status = standing[s]
  <2>1. last \in Events /\ IsOf(last, s)
    <3>1. CASE last = 0
      <4>1. e = 0
        BY <1>2, <1>4, <3>1, BillingConstants
      <4>2. QED BY <1>4, <3>1, <4>1
    <3>2. CASE last # 0
      BY <1>1, <3>2 DEF InOrder
    <3>3. QED BY <3>1, <3>2
  <2>2. event[last] # None /\ event[last].of = s /\ Answered(last)
    BY <1>2, <2>1 DEF IsOf
  <2>3. stored.status = event[last].says
    BY <1>1, <2>1, <2>2 DEF InOrder
  <2>4. standing[s] = event[last].says
    BY <1>2, <2>1, <2>2 DEF StripeInv, LastEventSays
  <2>5. QED BY <2>3, <2>4
<1>5. QED BY <1>3, <1>4

-----------------------------------------------------------------------------
(* integrations/stripe/connector.ts: the inductive invariant *)

\* The count in the row, whatever its age.
Counted == IF retryCount = None THEN 0 ELSE retryCount

\* No count, read or stored, is ahead of the failures handled.
CountsOK ==
  /\ payment \in [Payments -> [at : {"idle", "failed"}, count : Nat]]
  /\ retryCount = None \/ retryCount \in 0..SuspendAt - 1
  /\ handled \in 0..SuspendAt /\ streak \in 0..SuspendAt /\ blurred \in BOOLEAN
  /\ Counted <= handled
  /\ \A q \in Payments :
       payment[q].at = "failed" => payment[q].count \in 1..SuspendAt /\ payment[q].count <= handled + 1
  /\ suspended => handled >= SuspendAt

\* One handler at a time has read what is stored, and what is stored are the failures in a row, but for the
\* one that suspends.
StreakOK ==
  /\ \A q, r \in Payments : payment[q].at = "failed" /\ payment[r].at = "failed" => q = r
  /\ \A q \in Payments : payment[q].at = "failed" => payment[q].count = Counted + 1
  /\ streak = Counted \/ (streak = SuspendAt /\ suspended /\ Counted = SuspendAt - 1)

PaymentInv == CountsOK /\ (~blurred => StreakOK)

-----------------------------------------------------------------------------

LEMMA InitPayment == Init => PaymentInv
<1> SUFFICES ASSUME B!BillingInit PROVE PaymentInv
  BY DEF Init
<1>1. /\ payment = [q \in Payments |-> [at |-> "idle", count |-> 0]] /\ retryCount = None
      /\ streak = 0 /\ handled = 0 /\ blurred = FALSE /\ suspended = FALSE
  BY DEF B!BillingInit
<1>2. Counted = 0 /\ 0 \in 0..SuspendAt
  BY <1>1, BillingConstants DEF Counted
<1>3. CountsOK
  <2>1. payment \in [Payments -> [at : {"idle", "failed"}, count : Nat]]
        /\ \A q \in Payments : payment[q].at = "idle"
    BY <1>1
  <2>2. ~suspended /\ blurred \in BOOLEAN
    BY <1>1
  <2>3. handled \in 0..SuspendAt /\ streak \in 0..SuspendAt /\ Counted <= handled
    BY <1>1, <1>2
  <2>4. QED BY <1>1, <2>1, <2>2, <2>3 DEF CountsOK
<1>4. StreakOK
  BY <1>1, <1>2 DEF StreakOK
<1>5. QED BY <1>3, <1>4 DEF PaymentInv

LEMMA CountIs ==
  ASSUME PaymentInv
  PROVE  /\ Counted \in 0..SuspendAt - 1 /\ handled \in Nat /\ SuspendAt \in Nat \ {0} /\ streak \in Nat
         /\ B!CountRead \in 0..SuspendAt - 1 /\ B!CountRead <= handled
         /\ retryCount = None \/ inWindow => B!CountRead = Counted
<1>1. SuspendAt \in Nat \ {0} /\ handled \in 0..SuspendAt /\ streak \in 0..SuspendAt
  BY BillingConstants DEF PaymentInv, CountsOK
<1>2. Counted \in 0..SuspendAt - 1 /\ Counted <= handled
  <2>1. CASE retryCount = None
    BY <1>1, <2>1 DEF Counted
  <2>2. CASE retryCount # None
    <3>1. Counted = retryCount
      BY <2>2 DEF Counted
    <3>2. retryCount \in 0..SuspendAt - 1 /\ Counted <= handled
      BY <2>2 DEF PaymentInv, CountsOK
    <3>3. QED BY <3>1, <3>2
  <2>3. QED BY <2>1, <2>2
<1>3. B!CountRead = 0 \/ B!CountRead = Counted
  BY DEF B!CountRead, Counted
<1>4. retryCount = None \/ inWindow => B!CountRead = Counted
  BY DEF B!CountRead, Counted
<1>5. QED BY <1>1, <1>2, <1>3, <1>4

LEMMA OneMoreIs ==
  ASSUME NEW n \in 0..SuspendAt
  PROVE  /\ B!OneMore(n) \in 0..SuspendAt /\ n <= B!OneMore(n)
         /\ n < SuspendAt => B!OneMore(n) = n + 1
         /\ n = SuspendAt => B!OneMore(n) = SuspendAt
BY BillingConstants DEF B!OneMore

\* handlePaymentFailed: the SELECT.
LEMMA ReadStep ==
  ASSUME PaymentInv, NEW q \in Payments, B!ReadFailures(q)
  PROVE  PaymentInv'
<1>1. /\ payment[q].at = "idle"
      /\ payment' = [payment EXCEPT ![q] = [at |-> "failed", count |-> B!CountRead + 1]]
      /\ blurred' = (blurred \/ (retryCount # None /\ ~inWindow) \/ \E r \in Payments : payment[r].at # "idle")
      /\ UNCHANGED <<retryCount, suspended, streak, handled>>
  BY DEF B!ReadFailures
<1>2. /\ payment'[q] = [at |-> "failed", count |-> B!CountRead + 1]
      /\ \A r \in Payments \ {q} : payment'[r] = payment[r]
      /\ B!CountRead + 1 \in 1..SuspendAt /\ B!CountRead + 1 <= handled + 1
      /\ payment' \in [Payments -> [at : {"idle", "failed"}, count : Nat]]
  <2>1. B!CountRead + 1 \in 1..SuspendAt /\ B!CountRead + 1 <= handled + 1 /\ B!CountRead + 1 \in Nat
    BY CountIs
  <2>2. [at |-> "failed", count |-> B!CountRead + 1] \in [at : {"idle", "failed"}, count : Nat]
    BY <2>1
  <2>3. QED BY <1>1, <2>1, <2>2 DEF PaymentInv, CountsOK
<1>3. Counted' = Counted
  BY <1>1 DEF Counted
<1>4. CountsOK'
  <2>1. blurred' \in BOOLEAN
    BY <1>1 DEF PaymentInv, CountsOK
  <2>2. \A r \in Payments : payment'[r].at = "failed" =>
          payment'[r].count \in 1..SuspendAt /\ payment'[r].count <= handled + 1
    BY <1>2 DEF PaymentInv, CountsOK
  <2>3. QED BY <1>1, <1>2, <1>3, <2>1, <2>2 DEF PaymentInv, CountsOK
<1>5. ASSUME ~blurred' PROVE StreakOK'
  <2>1. ~blurred /\ (retryCount = None \/ inWindow) /\ \A r \in Payments : ~(payment[r].at # "idle")
    BY <1>1, <1>5
  <2>2. B!CountRead = Counted
    BY <2>1, CountIs
  <2>3. \A r \in Payments : payment'[r].at = "failed" => r = q
    BY <1>2, <2>1
  <2>4. QED BY <1>1, <1>2, <1>3, <2>1, <2>2, <2>3 DEF PaymentInv, StreakOK
<1>6. QED BY <1>4, <1>5 DEF PaymentInv

\* A handler that is done leaves the others as they are.
LEMMA OneIsDone ==
  ASSUME PaymentInv, NEW q \in Payments, payment[q].at = "failed", payment' = [payment EXCEPT ![q].at = "idle"]
  PROVE  /\ payment'[q].at = "idle" /\ \A r \in Payments \ {q} : payment'[r] = payment[r]
         /\ payment' \in [Payments -> [at : {"idle", "failed"}, count : Nat]]
BY DEF PaymentInv, CountsOK

\* ... the UPDATE, or the suspension.
LEMMA CountStep ==
  ASSUME PaymentInv, NEW q \in Payments, B!CountFailure(q)
  PROVE  PaymentInv'
<1> DEFINE count == payment[q].count
<1>1. /\ payment[q].at = "failed" /\ payment' = [payment EXCEPT ![q].at = "idle"]
      /\ streak' = B!OneMore(streak) /\ handled' = B!OneMore(handled) /\ blurred' = blurred
      /\ IF count >= SuspendAt THEN suspended' = TRUE /\ retryCount' = retryCount
         ELSE retryCount' = count /\ suspended' = suspended
  BY DEF B!CountFailure
<1>2. /\ payment'[q].at = "idle" /\ \A r \in Payments \ {q} : payment'[r] = payment[r]
      /\ payment' \in [Payments -> [at : {"idle", "failed"}, count : Nat]]
  BY <1>1, OneIsDone
<1>3. /\ count \in 1..SuspendAt /\ count <= handled + 1 /\ handled \in 0..SuspendAt /\ streak \in 0..SuspendAt
      /\ SuspendAt \in Nat \ {0}
  BY <1>1, CountIs DEF PaymentInv, CountsOK
<1>4. /\ handled' \in 0..SuspendAt /\ streak' \in 0..SuspendAt /\ handled <= handled' /\ count <= handled'
  BY <1>1, <1>3, OneMoreIs
<1>5. Counted' = IF count >= SuspendAt THEN Counted ELSE count
  BY <1>1, <1>3, BillingConstants DEF Counted
<1> HIDE DEF count
<1>6. CountsOK'
  <2>1. retryCount' = None \/ retryCount' \in 0..SuspendAt - 1
    BY <1>1, <1>3 DEF PaymentInv, CountsOK
  <2>2. Counted' <= handled'
    <3>1. Counted <= handled /\ Counted \in Nat
      BY CountIs DEF PaymentInv, CountsOK
    <3>2. QED BY <1>3, <1>4, <1>5, <3>1
  <2>3. ASSUME NEW r \in Payments, payment'[r].at = "failed"
        PROVE  payment'[r].count \in 1..SuspendAt /\ payment'[r].count <= handled' + 1
    <3>1. r # q /\ payment'[r] = payment[r]
      BY <1>2, <2>3
    <3>2. payment[r].count \in 1..SuspendAt /\ payment[r].count <= handled + 1
      BY <2>3, <3>1 DEF PaymentInv, CountsOK
    <3>3. QED BY <1>3, <1>4, <3>1, <3>2
  <2>4. suspended' => handled' >= SuspendAt
    <3>1. suspended => handled >= SuspendAt
      BY DEF PaymentInv, CountsOK
    <3>2. CASE count >= SuspendAt
      BY <1>3, <1>4, <3>2
    <3>3. CASE ~(count >= SuspendAt)
      <4>1. suspended' <=> suspended
        BY <1>1, <3>3
      <4>2. handled >= SuspendAt => handled' >= SuspendAt
        BY <1>3, <1>4
      <4>3. QED BY <3>1, <4>1, <4>2
    <3>4. QED BY <3>2, <3>3
  <2>5. blurred' \in BOOLEAN
    BY <1>1 DEF PaymentInv, CountsOK
  <2>6. QED BY <1>2, <1>4, <2>1, <2>2, <2>3, <2>4, <2>5 DEF CountsOK
<1>7. ASSUME ~blurred' PROVE StreakOK'
  <2>1. StreakOK /\ count = Counted + 1
    BY <1>1, <1>7 DEF PaymentInv, StreakOK, count
  <2>2. \A r \in Payments : ~(payment'[r].at = "failed")
    BY <1>1, <1>2, <2>1 DEF StreakOK
  <2>3. streak' = Counted' \/ (streak' = SuspendAt /\ suspended' /\ Counted' = SuspendAt - 1)
    <3>1. CASE count >= SuspendAt
      <4>1. Counted' = SuspendAt - 1 /\ suspended'
        BY <1>1, <1>3, <1>5, <2>1, <3>1, CountIs
      <4>2. streak' = SuspendAt
        BY <1>1, <1>3, <2>1, <3>1, OneMoreIs, CountIs DEF StreakOK
      <4>3. QED BY <4>1, <4>2
    <3>2. CASE ~(count >= SuspendAt)
      <4>1. Counted' = count /\ streak = Counted
        BY <1>3, <1>5, <2>1, <3>2, CountIs DEF StreakOK
      <4>2. streak' = streak + 1
        BY <1>1, <1>3, <2>1, <3>2, <4>1, OneMoreIs, CountIs
      <4>3. QED BY <2>1, <4>1, <4>2
    <3>3. QED BY <3>1, <3>2
  <2>4. QED BY <2>2, <2>3 DEF StreakOK
<1>8. QED BY <1>6, <1>7 DEF PaymentInv

LEMMA PaymentStutter ==
  ASSUME PaymentInv, UNCHANGED <<retryCount, suspended, payment, streak, handled, blurred>>
  PROVE  PaymentInv'
<1>1. Counted' = Counted
  BY DEF Counted
<1>2. QED BY <1>1 DEF PaymentInv, CountsOK, StreakOK

LEMMA PaymentStep ==
  ASSUME PaymentInv, B!PaymentNext
  PROVE  PaymentInv'
<1>1. ASSUME NEW q \in Payments, B!PaymentCallFails(q) PROVE PaymentInv'
  <2>1. /\ payment[q].at = "failed" /\ payment' = [payment EXCEPT ![q].at = "idle"]
        /\ UNCHANGED <<retryCount, suspended, streak, handled, blurred>>
    BY <1>1 DEF B!PaymentCallFails
  <2>2. /\ payment'[q].at = "idle" /\ \A r \in Payments \ {q} : payment'[r] = payment[r]
        /\ payment' \in [Payments -> [at : {"idle", "failed"}, count : Nat]]
    BY <2>1, OneIsDone
  <2>3. Counted' = Counted
    BY <2>1 DEF Counted
  <2>4. CountsOK'
    BY <2>1, <2>2, <2>3 DEF PaymentInv, CountsOK
  <2>5. StreakOK => StreakOK'
    BY <2>1, <2>2, <2>3 DEF StreakOK
  <2>6. QED BY <2>1, <2>4, <2>5 DEF PaymentInv
<1>2. CASE B!ResetFailures
  <2>1. /\ retryCount' = IF retryCount = None THEN None ELSE 0
        /\ streak' = 0 /\ UNCHANGED <<suspended, payment, handled>>
        /\ blurred' = (blurred \/ \E q \in Payments : payment[q].at # "idle")
    BY <1>2 DEF B!ResetFailures
  <2>2. Counted' = 0 /\ 0 <= handled /\ 0 \in 0..SuspendAt - 1
    BY <2>1, CountIs, BillingConstants DEF Counted
  <2>3. blurred' \in BOOLEAN /\ streak' \in 0..SuspendAt
    BY <2>1, BillingConstants DEF PaymentInv, CountsOK
  <2>4. CountsOK'
    BY <2>1, <2>2, <2>3 DEF PaymentInv, CountsOK
  <2>5. ASSUME ~blurred' PROVE StreakOK'
    <3>1. \A q \in Payments : ~(payment[q].at # "idle")
      BY <2>1, <2>5
    <3>2. QED BY <2>1, <2>2, <3>1 DEF StreakOK
  <2>6. QED BY <2>4, <2>5 DEF PaymentInv
<1>3. CASE B!ThirtyDaysPass
  BY <1>3, PaymentStutter DEF B!ThirtyDaysPass
<1>4. QED BY <1>1, <1>2, <1>3, ReadStep, CountStep DEF B!PaymentNext

\* stripe-connector.ts and connector.ts: once all events are answered the stored row says what Stripe says,
\* if they came in order, one at a time; and failed payments suspend at the SuspendAt-th in a row, if they are
\* handled one at a time, and for no fewer: for any number of subscriptions, events and payments.
THEOREM BillingDoesFollow == Spec => []BillingFollowsStripe
<1> DEFINE Inv == (part = "stripe" => StripeInv) /\ (part = "payments" => PaymentInv)
<1>1. Init => Inv
  BY InitStripe, InitPayment
<1>2. Inv /\ [Next]_vars => Inv'
  <2>1. ASSUME part = "stripe", StripeInv, [Next]_vars PROVE StripeInv'
    <3>1. CASE Next
      BY <2>1, <3>1, StripeStep DEF Next
    <3>2. CASE UNCHANGED vars
      BY <2>1, <3>2, StripeStutter DEF vars, billingVars
    <3>3. QED BY <2>1, <3>1, <3>2
  <2>2. ASSUME part = "payments", PaymentInv, [Next]_vars PROVE PaymentInv'
    <3>1. CASE Next
      BY <2>2, <3>1, PaymentStep DEF Next
    <3>2. CASE UNCHANGED vars
      BY <2>2, <3>2, PaymentStutter DEF vars, billingVars
    <3>3. QED BY <2>2, <3>1, <3>2
  <2>3. [Next]_vars => part' = part
    BY DEF Next, Others, vars
  <2>4. QED BY <2>1, <2>2, <2>3
<1>3. Inv => BillingFollowsStripe
  <2>1. ASSUME PaymentInv PROVE B!SuspendedForFailures
    <3>1. suspended => handled >= SuspendAt
      BY <2>1 DEF PaymentInv, CountsOK
    <3>2. ASSUME streak >= SuspendAt, ~blurred PROVE suspended
      <4>1. streak = Counted \/ suspended
        BY <2>1, <3>2 DEF PaymentInv, StreakOK
      <4>2. QED BY <2>1, <3>2, <4>1, CountIs
    <3>3. QED BY <3>1, <3>2 DEF B!SuspendedForFailures
  <2>2. QED BY <2>1, RowFollows DEF BillingFollowsStripe
<1>4. QED BY <1>1, <1>2, <1>3, PTL DEF Spec

-----------------------------------------------------------------------------
(* Sums over finite sets, as the folds of the community modules form them *)

Picked(s) == CHOOSE x \in s : TRUE

\* f[s] is the sum of the weights of s, for each part s of S.
IsSum(f, weight, S) ==
  f = [s \in SUBSET S |-> IF s = {} THEN 0 ELSE weight[Picked(s)] + f[s \ {Picked(s)}]]

SumOver(weight, S) == (CHOOSE f : IsSum(f, weight, S))[S]

-----------------------------------------------------------------------------

\* Induction on finite sets: a smallest one of those that are bad, all parts of it less one element good.
LEMMA SmallestSet ==
  ASSUME NEW S, IsFiniteSet(S), NEW Bad \in SUBSET (SUBSET S), Bad # {}
  PROVE  \E s \in Bad : \A x \in s : s \ {x} \notin Bad
<1> DEFINE Sizes == {Cardinality(s) : s \in Bad}
<1>1. \A s \in Bad : IsFiniteSet(s) /\ Cardinality(s) \in Nat
  BY FS_Subset, FS_CardinalityType
<1>2. Sizes \in SUBSET Nat /\ Sizes # {}
  BY <1>1
<1>3. PICK n \in Sizes : \A k \in Sizes : n <= k
  BY <1>2, LeastNumber
<1>4. PICK s \in Bad : n = Cardinality(s)
  BY <1>3
<1>5. ASSUME NEW x \in s, s \ {x} \in Bad PROVE FALSE
  <2>1. Cardinality(s \ {x}) = n - 1
    BY <1>1, <1>4, FS_RemoveElement
  <2>2. n <= Cardinality(s \ {x})
    BY <1>3, <1>5
  <2>3. QED BY <1>1, <1>4, <2>1, <2>2
<1>6. QED BY <1>5

\* There are such sums: by induction on the size of the parts.
LEMMA SumExists ==
  ASSUME NEW S, IsFiniteSet(S), NEW weight
  PROVE  \E f : IsSum(f, weight, S)
<1> DEFINE Small(n) == {s \in SUBSET S : Cardinality(s) <= n}
           SumsTo(f, n) == f = [s \in Small(n) |->
                                  IF s = {} THEN 0 ELSE weight[Picked(s)] + f[s \ {Picked(s)}]]
           Without == {n \in Nat : ~ \E f : SumsTo(f, n)}
<1>1. \A s \in SUBSET S : IsFiniteSet(s) /\ Cardinality(s) \in Nat
  BY FS_Subset, FS_CardinalityType
<1>2. \E f : SumsTo(f, 0)
  <2>1. \A s \in Small(0) : s = {}
    BY <1>1, FS_EmptySet
  <2>2. SumsTo([s \in Small(0) |-> 0], 0)
    BY <2>1
  <2>3. QED BY <2>2
<1>3. ASSUME NEW n \in Nat, NEW g, SumsTo(g, n) PROVE \E f : SumsTo(f, n + 1)
  <2> DEFINE f == [s \in Small(n + 1) |-> IF s = {} THEN 0 ELSE weight[Picked(s)] + g[s \ {Picked(s)}]]
  <2>1. ASSUME NEW s \in Small(n + 1), s # {} PROVE f[s \ {Picked(s)}] = g[s \ {Picked(s)}]
    <3> DEFINE r == s \ {Picked(s)}
    <3>1. Picked(s) \in s
      BY <2>1 DEF Picked
    <3>2. Cardinality(r) = Cardinality(s) - 1 /\ r \in SUBSET S
      BY <1>1, <3>1, FS_RemoveElement
    <3>3. r \in Small(n) /\ r \in Small(n + 1)
      BY <1>1, <3>2
    <3> HIDE DEF r, Small
    <3>4. g[r] = IF r = {} THEN 0 ELSE weight[Picked(r)] + g[r \ {Picked(r)}]
      BY <1>3, <3>3
    <3>5. f[r] = IF r = {} THEN 0 ELSE weight[Picked(r)] + g[r \ {Picked(r)}]
      BY <3>3
    <3>6. QED BY <3>4, <3>5 DEF r
  <2>2. f = [s \in Small(n + 1) |-> IF s = {} THEN 0 ELSE weight[Picked(s)] + f[s \ {Picked(s)}]]
    <3> HIDE DEF Small
    <3>1. \A s \in Small(n + 1) : f[s] = IF s = {} THEN 0 ELSE weight[Picked(s)] + f[s \ {Picked(s)}]
      BY <2>1
    <3>2. QED BY <3>1
  <2>3. QED BY <2>2
<1>4. Without = {}
  <2> SUFFICES ASSUME Without # {} PROVE FALSE
    OBVIOUS
  <2> HIDE DEF SumsTo
  <2>1. PICK n \in Without : \A k \in Without : n <= k
    BY LeastNumber
  <2>2. n # 0 /\ n \in Nat /\ n - 1 \in Nat
    BY <1>2, <2>1
  <2>3. n - 1 \notin Without
    BY <2>1, <2>2
  <2>4. PICK g : SumsTo(g, n - 1)
    BY <2>2, <2>3
  <2>5. \E f : SumsTo(f, (n - 1) + 1)
    BY <1>3, <2>2, <2>4
  <2>6. (n - 1) + 1 = n
    BY <2>2
  <2>7. QED BY <2>1, <2>5, <2>6
<1>5. Small(Cardinality(S)) = SUBSET S
  BY FS_Subset
<1>6. Cardinality(S) \in Nat
  BY FS_CardinalityType
<1>7. PICK f : SumsTo(f, Cardinality(S))
  <2> HIDE DEF SumsTo
  <2>1. QED BY <1>4, <1>6
<1>8. IsSum(f, weight, S)
  BY <1>5, <1>7 DEF IsSum
<1>9. QED BY <1>8

\* Its equation.
LEMMA SumAt ==
  ASSUME NEW f, NEW weight, NEW S, IsSum(f, weight, S), NEW s \in SUBSET S
  PROVE  /\ s = {} => f[s] = 0
         /\ s # {} => Picked(s) \in s /\ f[s] = weight[Picked(s)] + f[s \ {Picked(s)}]
<1>1. f[s] = IF s = {} THEN 0 ELSE weight[Picked(s)] + f[s \ {Picked(s)}]
  BY DEF IsSum
<1>2. s # {} => Picked(s) \in s
  BY DEF Picked
<1>3. QED BY <1>1, <1>2

LEMMA SumIsNat ==
  ASSUME NEW D, NEW weight \in [D -> Nat], NEW S \in SUBSET D, IsFiniteSet(S),
         NEW f, IsSum(f, weight, S)
  PROVE  \A s \in SUBSET S : f[s] \in Nat
<1> DEFINE Bad == {s \in SUBSET S : f[s] \notin Nat}
<1> SUFFICES ASSUME Bad # {} PROVE FALSE
  OBVIOUS
<1>1. PICK s \in Bad : \A x \in s : s \ {x} \notin Bad
  BY SmallestSet
<1>2. s # {} /\ Picked(s) \in s /\ f[s] = weight[Picked(s)] + f[s \ {Picked(s)}]
  BY <1>1, SumAt
<1>3. f[s \ {Picked(s)}] \in Nat /\ weight[Picked(s)] \in Nat
  BY <1>1, <1>2
<1>4. QED BY <1>1, <1>2, <1>3

\* The sum does not depend on what is picked: any element can be taken out.
LEMMA SumWithout ==
  ASSUME NEW D, NEW weight \in [D -> Nat], NEW S \in SUBSET D, IsFiniteSet(S),
         NEW f, IsSum(f, weight, S)
  PROVE  \A s \in SUBSET S : \A t \in s : f[s] = weight[t] + f[s \ {t}]
<1> DEFINE Bad == {s \in SUBSET S : \E t \in s : f[s] # weight[t] + f[s \ {t}]}
<1> SUFFICES ASSUME Bad # {} PROVE FALSE
  OBVIOUS
<1>1. PICK s \in Bad : \A x \in s : s \ {x} \notin Bad
  BY SmallestSet
<1>2. PICK t \in s : f[s] # weight[t] + f[s \ {t}]
  BY <1>1
<1> DEFINE x == Picked(s)
<1>3. x \in s /\ f[s] = weight[x] + f[s \ {x}]
  <2>1. s \in SUBSET S /\ s # {}
    BY <1>1, <1>2
  <2>2. QED BY <2>1, SumAt
<1> HIDE DEF x
<1>4. x # t
  BY <1>2, <1>3
<1>5. f[s \ {x}] = weight[t] + f[(s \ {x}) \ {t}]
  <2>1. s \ {x} \in SUBSET S /\ s \ {x} \notin Bad /\ t \in s \ {x}
    BY <1>1, <1>2, <1>3, <1>4
  <2>2. QED BY <2>1
<1>6. f[s \ {t}] = weight[x] + f[(s \ {t}) \ {x}]
  <2>1. s \ {t} \in SUBSET S /\ s \ {t} \notin Bad /\ x \in s \ {t}
    BY <1>1, <1>2, <1>3, <1>4
  <2>2. QED BY <2>1
<1>7. (s \ {x}) \ {t} = (s \ {t}) \ {x}
  OBVIOUS
<1>8. f[(s \ {t}) \ {x}] \in Nat /\ weight[x] \in Nat /\ weight[t] \in Nat
  <2>1. (s \ {t}) \ {x} \in SUBSET S /\ x \in D /\ t \in D
    BY <1>1, <1>2, <1>3
  <2>2. QED BY <2>1, SumIsNat
<1>9. PICK k \in Nat : k = f[(s \ {t}) \ {x}]
  BY <1>8
<1>10. f[s] = weight[x] + (weight[t] + k) /\ f[s \ {t}] = weight[x] + k
  BY <1>3, <1>5, <1>6, <1>7, <1>9
<1>11. weight[t] + f[s \ {t}] = weight[t] + (weight[x] + k)
  BY <1>10
<1>12. weight[x] + (weight[t] + k) = weight[t] + (weight[x] + k)
  BY <1>8, <1>9
<1>13. QED BY <1>2, <1>10, <1>11, <1>12

\* Smaller weights on a smaller set have a smaller sum.
LEMMA SumsCompare ==
  ASSUME NEW D, NEW weight \in [D -> Nat], NEW heavier \in [D -> Nat],
         NEW E \in SUBSET D, IsFiniteSet(E), NEW f, IsSum(f, weight, E),
         NEW S \in SUBSET D, IsFiniteSet(S), NEW g, IsSum(g, heavier, S),
         NEW U \in SUBSET S, NEW P \in SUBSET (U \cap E), \A x \in P : weight[x] <= heavier[x]
  PROVE  f[P] <= g[U]
<1>1. P \in SUBSET E /\ P \in SUBSET D
  OBVIOUS
<1>2. /\ \A s \in SUBSET E : f[s] \in Nat
      /\ \A s \in SUBSET S : g[s] \in Nat
  BY <1>1, SumIsNat
<1>3. \A q \in SUBSET E : \A y \in q : f[q] = weight[y] + f[q \ {y}]
  <2> SUFFICES ASSUME NEW q \in SUBSET E, NEW y \in q PROVE f[q] = weight[y] + f[q \ {y}]
    OBVIOUS
  <2>1. weight[y] \in Nat /\ f[q \ {y}] \in Nat
    BY <1>2
  <2>2. QED BY <2>1, SumWithout
<1> DEFINE Bad == {s \in SUBSET S : ~(f[s \cap P] <= g[s])}
<1>4. Bad = {}
  <2> SUFFICES ASSUME Bad # {} PROVE FALSE
    OBVIOUS
  <2>1. PICK s \in Bad : \A x \in s : s \ {x} \notin Bad
    BY SmallestSet
  <2>2. s \in SUBSET S /\ s \cap P \in SUBSET E /\ ~(f[s \cap P] <= g[s])
    BY <2>1
  <2>3. CASE s = {}
    <3>1. f[s \cap P] = 0 /\ g[s] = 0
      BY <2>2, <2>3, SumAt
    <3>2. QED BY <2>2, <3>1
  <2>4. ASSUME NEW x \in s PROVE FALSE
    <3> DEFINE r == s \ {x}
    <3>1. r \in SUBSET S /\ r \cap P \in SUBSET E /\ f[r \cap P] <= g[r]
      BY <2>1, <2>4
    <3>2. g[s] = heavier[x] + g[r] /\ heavier[x] \in Nat /\ g[r] \in Nat /\ g[s] \in Nat
      BY <1>2, <2>2, <2>4, <3>1, SumWithout
    <3>3. CASE x \in P
      <4>1. x \in s \cap P /\ (s \cap P) \ {x} = r \cap P
        BY <2>4, <3>3
      <4>2. f[s \cap P] = weight[x] + f[r \cap P] /\ weight[x] \in Nat /\ f[r \cap P] \in Nat
        <5>2. f[s \cap P] = weight[x] + f[(s \cap P) \ {x}]
          BY <1>3, <2>2, <4>1
        <5>3. x \in D /\ f[r \cap P] \in Nat
          BY <1>1, <1>2, <3>1, <3>3
        <5>4. QED BY <4>1, <5>2, <5>3
      <4>3. weight[x] <= heavier[x]
        BY <3>3
      <4> HIDE DEF r, Bad
      <4>4. QED BY <2>2, <3>1, <3>2, <4>2, <4>3
    <3>4. CASE x \notin P
      <4>1. s \cap P = r \cap P
        BY <3>4
      <4>2. f[r \cap P] \in Nat
        BY <1>2, <3>1
      <4> HIDE DEF r, Bad
      <4>3. g[r] <= g[s]
        BY <3>2
      <4>4. f[r \cap P] <= g[s]
        BY <3>1, <3>2, <4>2, <4>3
      <4>5. QED BY <2>2, <4>1, <4>4
    <3>5. QED BY <3>3, <3>4
  <2>5. QED BY <2>3, <2>4
<1>5. U \cap P = P
  OBVIOUS
<1>6. QED BY <1>4, <1>5

LEMMA SumOverIs ==
  ASSUME NEW S, IsFiniteSet(S), NEW weight
  PROVE  \E f : IsSum(f, weight, S) /\ SumOver(weight, S) = f[S]
<1>1. IsSum(CHOOSE f : IsSum(f, weight, S), weight, S)
  BY SumExists
<1>2. QED BY <1>1 DEF SumOver

LEMMA SumOverIsNat ==
  ASSUME NEW D, NEW weight \in [D -> Nat], NEW S \in SUBSET D, IsFiniteSet(S)
  PROVE  SumOver(weight, S) \in Nat
<1>1. PICK f : IsSum(f, weight, S) /\ SumOver(weight, S) = f[S]
  BY SumOverIs
<1>2. S \in SUBSET S
  OBVIOUS
<1>3. QED BY <1>1, <1>2, SumIsNat

LEMMA SumOverLess ==
  ASSUME NEW D, NEW weight \in [D -> Nat], NEW heavier \in [D -> Nat],
         NEW S \in SUBSET D, IsFiniteSet(S), NEW P \in SUBSET S, \A x \in P : weight[x] <= heavier[x]
  PROVE  SumOver(weight, P) <= SumOver(heavier, S)
<1>1. IsFiniteSet(P) /\ P \in SUBSET D /\ P \in SUBSET (S \cap P) /\ S \in SUBSET S
  BY FS_Subset
<1>2. PICK f : IsSum(f, weight, P) /\ SumOver(weight, P) = f[P]
  BY <1>1, SumOverIs
<1>3. PICK g : IsSum(g, heavier, S) /\ SumOver(heavier, S) = g[S]
  BY SumOverIs
<1>4. QED BY <1>1, <1>2, <1>3, SumsCompare

\* One more in one place is one more at most.
LEMMA SumOverOneMore ==
  ASSUME NEW D, NEW weight \in [D -> Nat], NEW heavier \in [D -> Nat],
         NEW S \in SUBSET D, IsFiniteSet(S), NEW t \in D, heavier[t] = weight[t] + 1,
         \A x \in D \ {t} : heavier[x] = weight[x]
  PROVE  SumOver(heavier, S) <= SumOver(weight, S) + 1
<1>1. PICK f : IsSum(f, weight, S) /\ SumOver(weight, S) = f[S]
  BY SumOverIs
<1>2. PICK g : IsSum(g, heavier, S) /\ SumOver(heavier, S) = g[S]
  BY SumOverIs
<1> DEFINE P == S \ {t}
<1>3. P \in SUBSET S /\ P \in SUBSET (P \cap S) /\ \A x \in P : heavier[x] <= weight[x]
  <2>1. \A x \in P : heavier[x] = weight[x] /\ weight[x] \in Nat
    OBVIOUS
  <2>2. \A x \in P : heavier[x] <= weight[x]
    BY <2>1
  <2>3. QED BY <2>2
<1> HIDE DEF P
<1>4. g[P] <= f[P]
  BY <1>1, <1>2, <1>3, SumsCompare
<1>5. S \in SUBSET S /\ f[S] \in Nat /\ g[S] \in Nat /\ f[P] \in Nat /\ g[P] \in Nat /\ weight[t] \in Nat
  BY <1>1, <1>2, <1>3, SumIsNat
<1>6. CASE t \in S
  <2>1. f[S] = weight[t] + f[P] /\ g[S] = heavier[t] + g[P]
    <3>1. IsSum(f, weight, S) /\ IsSum(g, heavier, S) /\ S \in SUBSET S
      BY <1>1, <1>2
    <3>2. f[S] = weight[t] + f[S \ {t}]
      BY <1>6, <3>1, SumWithout
    <3>3. g[S] = heavier[t] + g[S \ {t}]
      BY <1>6, <3>1, SumWithout
    <3>4. QED BY <3>2, <3>3 DEF P
  <2>2. g[S] = weight[t] + 1 + g[P]
    BY <2>1
  <2>3. g[S] <= f[S] + 1
    BY <1>4, <1>5, <2>1, <2>2
  <2>4. QED BY <1>1, <1>2, <2>3
<1>7. CASE t \notin S
  <2>1. P = S
    BY <1>7 DEF P
  <2>2. g[S] <= f[S] + 1
    BY <1>4, <1>5, <2>1
  <2>3. QED BY <1>1, <1>2, <2>2
<1>8. QED BY <1>6, <1>7

\* Nothing adds up to nothing.
LEMMA SumOfZeros ==
  ASSUME NEW S, IsFiniteSet(S), NEW weight, \A x \in S : weight[x] = 0
  PROVE  SumOver(weight, S) = 0
<1>1. PICK f : IsSum(f, weight, S) /\ SumOver(weight, S) = f[S]
  BY SumOverIs
<1> DEFINE Bad == {s \in SUBSET S : f[s] # 0}
<1>2. Bad = {}
  <2> SUFFICES ASSUME Bad # {} PROVE FALSE
    OBVIOUS
  <2>1. PICK s \in Bad : \A x \in s : s \ {x} \notin Bad
    BY SmallestSet
  <2>2. s \in SUBSET S /\ f[s] # 0
    BY <2>1
  <2>3. s # {} /\ Picked(s) \in s /\ f[s] = weight[Picked(s)] + f[s \ {Picked(s)}]
    BY <1>1, <2>2, SumAt
  <2>4. f[s \ {Picked(s)}] = 0 /\ weight[Picked(s)] = 0
    BY <2>1, <2>2, <2>3
  <2>5. QED BY <2>2, <2>3, <2>4
<1>3. QED BY <1>1, <1>2

-----------------------------------------------------------------------------
(* rate-limiter.ts: the inductive invariant *)

\* The scores from k on.
From(k) == {t \in 0..MaxTime : t >= k}
InWindow == SumOver(entries, From(time - Window + 1))
Adding == {q \in Requests : request[q].at = "add"}

\* Every request that was let through and is not counted yet found the limit not reached; one that
\* is alone found everything counted.
RateInv ==
  /\ time \in 0..MaxTime /\ entries \in [0..MaxTime -> Nat] /\ crossing \in BOOLEAN
  /\ request \in [Requests -> [at : {"idle", "count", "add"}, now : 0..MaxTime]]
  /\ InWindow + Cardinality(Adding) <= MaxRequests - 1 + Cardinality(Requests)
  /\ ~crossing =>
       /\ InWindow <= MaxRequests
       /\ \A q \in Requests : request[q].at = "add" => InWindow <= MaxRequests - 1
       /\ \A q, r \in Requests : request[q].at # "idle" /\ request[r].at # "idle" => q = r

-----------------------------------------------------------------------------

LEMMA RateConstants ==
  /\ MaxRequests \in Nat \ {0} /\ Window \in Nat \ {0} /\ MaxTime \in Nat /\ IsFiniteSet(Requests)
  /\ Cardinality(Requests) \in Nat
<1>1. MaxRequests \in Nat \ {0} /\ Window \in Nat \ {0} /\ MaxTime \in Nat /\ IsFiniteSet(Requests)
  BY Bounds DEF R!RateOK, R!IsFiniteSet, IsFiniteSet
<1>2. QED BY <1>1, FS_CardinalityType

LEMMA TotalIs ==
  ASSUME NEW k
  PROVE  R!Total(k) = SumOver(entries, From(k))
BY DEF R!Total, R!MapThenFoldSet, SumOver, IsSum, From, Picked

LEMMA FromIs ==
  ASSUME NEW k
  PROVE  From(k) \in SUBSET (0..MaxTime) /\ IsFiniteSet(From(k))
<1>1. IsFiniteSet(0..MaxTime)
  BY RateConstants, FS_Interval
<1>2. From(k) \in SUBSET (0..MaxTime)
  BY DEF From
<1>3. QED BY <1>1, <1>2, FS_Subset

\* Parts of a finite set, and those with one more.
LEMMA PartsOf ==
  ASSUME NEW S, IsFiniteSet(S), NEW P \in SUBSET S
  PROVE  /\ IsFiniteSet(P) /\ Cardinality(P) \in Nat /\ Cardinality(S) \in Nat
         /\ Cardinality(P) <= Cardinality(S)
         /\ \A x \in S \ P : Cardinality(P) + 1 <= Cardinality(S)
         /\ \A x \in P : Cardinality(P \ {x}) + 1 = Cardinality(P)
<1>1. IsFiniteSet(P) /\ Cardinality(P) <= Cardinality(S)
  BY FS_Subset
<1>2. Cardinality(P) \in Nat /\ Cardinality(S) \in Nat
  BY <1>1, FS_CardinalityType
<1>3. ASSUME NEW x \in S \ P PROVE Cardinality(P) + 1 <= Cardinality(S)
  <2>1. Cardinality(P) # Cardinality(S)
    BY <1>3, FS_Subset
  <2>2. QED BY <1>1, <1>2, <2>1
<1>4. ASSUME NEW x \in P PROVE Cardinality(P \ {x}) + 1 = Cardinality(P)
  <2>1. Cardinality(P \ {x}) = Cardinality(P) - 1
    BY <1>1, <1>4, FS_RemoveElement
  <2>2. QED BY <1>2, <2>1
<1>5. QED BY <1>1, <1>2, <1>3, <1>4

LEMMA InWindowIs ==
  ASSUME RateInv
  PROVE  /\ InWindow \in Nat /\ InWindow <= R!Total(0) /\ R!Total(0) \in Nat
         /\ IsFiniteSet(Adding) /\ Cardinality(Adding) \in Nat /\ Adding \in SUBSET Requests
         /\ time \in Nat
<1>1. entries \in [0..MaxTime -> Nat] /\ time \in Nat
  BY RateConstants DEF RateInv
<1>2. InWindow \in Nat /\ SumOver(entries, From(0)) \in Nat
  BY <1>1, FromIs, SumOverIsNat DEF InWindow
<1>3. InWindow <= SumOver(entries, From(0))
  <2>1. From(time - Window + 1) \in SUBSET From(0)
    BY RateConstants DEF From
  <2>2. \A x \in From(time - Window + 1) : entries[x] <= entries[x]
    <3>1. \A x \in From(time - Window + 1) : entries[x] \in Nat
      BY <1>1, FromIs
    <3>2. QED BY <3>1
  <2>3. QED BY <1>1, <2>1, <2>2, FromIs, SumOverLess DEF InWindow
<1>4. Adding \in SUBSET Requests
  BY DEF Adding
<1>5. IsFiniteSet(Adding) /\ Cardinality(Adding) \in Nat
  BY <1>4, PartsOf, RateConstants
<1>6. QED BY <1>1, <1>2, <1>3, <1>4, <1>5, TotalIs

LEMMA InitRate == Init => RateInv
<1> SUFFICES ASSUME R!RateInit PROVE RateInv
  BY DEF Init
<1>1. /\ time = 0 /\ entries = [t \in 0..MaxTime |-> 0] /\ crossing = FALSE
      /\ request = [q \in Requests |-> [at |-> "idle", now |-> 0]]
  BY DEF R!RateInit
<1>2. InWindow = 0
  <2>1. \A t \in From(time - Window + 1) : entries[t] = 0
    BY <1>1, FromIs
  <2>2. QED BY <2>1, FromIs, SumOfZeros DEF InWindow
<1>3. Adding = {} /\ Cardinality(Adding) = 0
  <2>1. Adding = {}
    BY <1>1 DEF Adding
  <2>2. QED BY <2>1, FS_EmptySet
<1>4. InWindow + Cardinality(Adding) <= MaxRequests - 1 + Cardinality(Requests)
  BY <1>2, <1>3, RateConstants
<1>5. InWindow <= MaxRequests /\ InWindow <= MaxRequests - 1
  BY <1>2, RateConstants
<1>6. \A q \in Requests : request[q].at = "idle"
  BY <1>1
<1>7. /\ time \in 0..MaxTime /\ entries \in [0..MaxTime -> Nat] /\ crossing \in BOOLEAN
      /\ request \in [Requests -> [at : {"idle", "count", "add"}, now : 0..MaxTime]]
  <2>1. 0 \in 0..MaxTime /\ 0 \in Nat
    BY RateConstants
  <2>2. [at |-> "idle", now |-> 0] \in [at : {"idle", "count", "add"}, now : 0..MaxTime]
    BY <2>1
  <2>3. QED BY <1>1, <2>1, <2>2
<1>8. QED BY <1>4, <1>5, <1>6, <1>7 DEF RateInv

\* Time and the expulsion of what is old take away from the window.
LEMMA WindowShrinks ==
  ASSUME RateInv, time' \in 0..MaxTime, time <= time', entries' \in [0..MaxTime -> Nat],
         \A t \in 0..MaxTime : entries'[t] <= entries[t]
  PROVE  InWindow' <= InWindow /\ InWindow' \in Nat
<1>1. From(time' - Window + 1) \in SUBSET From(time - Window + 1)
  <2>1. time \in Nat /\ time' \in Nat
    BY InWindowIs, RateConstants
  <2>2. QED BY <2>1, RateConstants DEF From
<1>2. InWindow' = SumOver(entries', From(time' - Window + 1))
  BY DEF InWindow, From
<1>3. entries \in [0..MaxTime -> Nat]
  BY DEF RateInv
<1>4. \A t \in From(time' - Window + 1) : entries'[t] <= entries[t]
  BY FromIs
<1>5. SumOver(entries', From(time' - Window + 1)) <= SumOver(entries, From(time - Window + 1))
  BY <1>1, <1>3, <1>4, FromIs, SumOverLess
<1>6. SumOver(entries', From(time' - Window + 1)) \in Nat
  BY FromIs, SumOverIsNat
<1>7. QED BY <1>2, <1>5, <1>6 DEF InWindow

\* ... and so does a request that goes on or ends without adding one.
LEMMA RequestMoves ==
  ASSUME RateInv, InWindow' \in Nat, InWindow' <= InWindow,
         time' \in 0..MaxTime, entries' \in [0..MaxTime -> Nat], crossing' \in BOOLEAN,
         request' \in [Requests -> [at : {"idle", "count", "add"}, now : 0..MaxTime]],
         \A q \in Requests : request'[q].at = "add" => request[q].at = "add",
         ~crossing' => /\ ~crossing
                       /\ \A q, r \in Requests :
                            request'[q].at # "idle" /\ request'[r].at # "idle" => q = r
  PROVE  RateInv'
<1>1. Adding' \in SUBSET Adding
  BY DEF Adding
<1>2. Cardinality(Adding') <= Cardinality(Adding) /\ Cardinality(Adding') \in Nat
  BY <1>1, InWindowIs, PartsOf
<1>3. InWindow' + Cardinality(Adding') <= MaxRequests - 1 + Cardinality(Requests)
  <2>1. InWindow + Cardinality(Adding) <= MaxRequests - 1 + Cardinality(Requests)
    BY DEF RateInv
  <2>2. InWindow' + Cardinality(Adding') <= InWindow + Cardinality(Adding)
    BY <1>2, InWindowIs
  <2>3. QED BY <1>2, <2>1, <2>2, InWindowIs, RateConstants
<1>4. ASSUME ~crossing'
      PROVE  /\ InWindow' <= MaxRequests
             /\ \A q \in Requests : request'[q].at = "add" => InWindow' <= MaxRequests - 1
  <2>1. InWindow <= MaxRequests /\ \A q \in Requests : request[q].at = "add" => InWindow <= MaxRequests - 1
    BY <1>4 DEF RateInv
  <2>2. InWindow' <= MaxRequests
    BY <2>1, InWindowIs, RateConstants
  <2>3. ASSUME NEW q \in Requests, request'[q].at = "add" PROVE InWindow' <= MaxRequests - 1
    <3>1. InWindow <= MaxRequests - 1
      BY <2>1, <2>3
    <3>2. QED BY <3>1, InWindowIs, RateConstants
  <2>4. QED BY <2>2, <2>3
<1>5. QED BY <1>3, <1>4 DEF RateInv

LEMMA SameWindow ==
  ASSUME RateInv, UNCHANGED <<time, entries>>
  PROVE  InWindow' = InWindow /\ InWindow' \in Nat /\ InWindow' <= InWindow
<1>1. InWindow' = InWindow
  BY DEF InWindow, From
<1>2. QED BY <1>1, InWindowIs

\* ZREMRANGEBYSCORE: what goes is out of the window already.
LEMMA ExpelStep ==
  ASSUME RateInv, NEW q \in Requests, R!Expel(q)
  PROVE  RateInv'
<1>1. /\ request[q].at = "idle" /\ time' = time
      /\ entries' = [t \in 0..MaxTime |-> IF t <= time - Window THEN 0 ELSE entries[t]]
      /\ request' = [request EXCEPT ![q] = [at |-> "count", now |-> time]]
      /\ crossing' = (crossing \/ \E r \in Requests : request[r].at # "idle")
  BY DEF R!Expel
<1>2. time \in 0..MaxTime /\ entries \in [0..MaxTime -> Nat]
      /\ request \in [Requests -> [at : {"idle", "count", "add"}, now : 0..MaxTime]]
  BY DEF RateInv
<1>3. entries' \in [0..MaxTime -> Nat] /\ \A t \in 0..MaxTime : entries'[t] <= entries[t]
  <2>1. \A t \in 0..MaxTime : entries[t] \in Nat /\ entries'[t] \in {0, entries[t]}
    BY <1>1, <1>2
  <2>2. \A t \in 0..MaxTime : entries'[t] \in Nat /\ entries'[t] <= entries[t]
    BY <2>1
  <2>3. QED BY <1>1, <2>2
<1>4. InWindow' \in Nat /\ InWindow' <= InWindow
  <2>1. time <= time'
    BY <1>1, InWindowIs
  <2>2. QED BY <1>1, <1>2, <1>3, <2>1, WindowShrinks
<1>5. request' \in [Requests -> [at : {"idle", "count", "add"}, now : 0..MaxTime]]
      /\ request'[q].at = "count" /\ \A r \in Requests \ {q} : request'[r] = request[r]
  BY <1>1, <1>2
<1>6. crossing' \in BOOLEAN
  BY <1>1 DEF RateInv
<1>7. ~crossing' => /\ ~crossing
                    /\ \A r, s \in Requests : request'[r].at # "idle" /\ request'[s].at # "idle" => r = s
  BY <1>1, <1>5
<1>8. \A r \in Requests : request'[r].at = "add" => request[r].at = "add"
  BY <1>5
<1>9. QED BY <1>1, <1>2, <1>3, <1>4, <1>5, <1>6, <1>7, <1>8, RequestMoves

\* ZCARD: only a request that finds room goes on to add itself.
LEMMA CountRequestStep ==
  ASSUME RateInv, NEW q \in Requests, R!Count(q)
  PROVE  RateInv'
<1>1. /\ request[q].at = "count" /\ UNCHANGED <<time, entries, crossing>>
      /\ request' = [request EXCEPT ![q].at = IF R!Total(0) >= MaxRequests THEN "idle" ELSE "add"]
  BY DEF R!Count
<1>2. /\ time \in 0..MaxTime /\ entries \in [0..MaxTime -> Nat] /\ crossing \in BOOLEAN
      /\ request \in [Requests -> [at : {"idle", "count", "add"}, now : 0..MaxTime]]
  BY DEF RateInv
<1>3. /\ request' \in [Requests -> [at : {"idle", "count", "add"}, now : 0..MaxTime]]
      /\ \A r \in Requests \ {q} : request'[r] = request[r]
      /\ request'[q].at = IF R!Total(0) >= MaxRequests THEN "idle" ELSE "add"
  BY <1>1, <1>2
<1>4. InWindow' = InWindow /\ InWindow' \in Nat /\ InWindow' <= InWindow
  BY <1>1, SameWindow
<1>5. ~crossing => \A r, s \in Requests : request'[r].at # "idle" /\ request'[s].at # "idle" => r = s
  BY <1>1, <1>3 DEF RateInv
<1>6. CASE R!Total(0) >= MaxRequests
  <2>1. \A r \in Requests : request'[r].at = "add" => request[r].at = "add"
    BY <1>3, <1>6
  <2>2. QED BY <1>1, <1>2, <1>3, <1>4, <1>5, <2>1, RequestMoves
<1>7. CASE ~(R!Total(0) >= MaxRequests)
  <2>1. InWindow <= MaxRequests - 1
    BY <1>7, InWindowIs, RateConstants
  <2>2. Cardinality(Adding') <= Cardinality(Requests) /\ Cardinality(Adding') \in Nat
    <3>1. Adding' \in SUBSET Requests
      BY DEF Adding
    <3>2. QED BY <3>1, PartsOf, RateConstants
  <2>3. InWindow' + Cardinality(Adding') <= MaxRequests - 1 + Cardinality(Requests)
    BY <1>4, <2>1, <2>2, RateConstants
  <2>4. InWindow' <= MaxRequests - 1 /\ InWindow' <= MaxRequests
    BY <1>4, <2>1, RateConstants
  <2>5. QED BY <1>1, <1>2, <1>3, <1>5, <2>3, <2>4 DEF RateInv
<1>8. QED BY <1>6, <1>7

\* ZADD: the request is counted where it was let through.
LEMMA AddStep ==
  ASSUME RateInv, NEW q \in Requests, R!Add(q)
  PROVE  RateInv'
<1> DEFINE now == request[q].now
<1>1. /\ request[q].at = "add" /\ UNCHANGED <<time, crossing>>
      /\ entries' = [entries EXCEPT ![now] = @ + 1]
      /\ request' = [request EXCEPT ![q].at = "idle"]
  BY DEF R!Add
<1>2. /\ time \in 0..MaxTime /\ entries \in [0..MaxTime -> Nat] /\ crossing \in BOOLEAN
      /\ request \in [Requests -> [at : {"idle", "count", "add"}, now : 0..MaxTime]]
  BY DEF RateInv
<1>3. /\ request' \in [Requests -> [at : {"idle", "count", "add"}, now : 0..MaxTime]]
      /\ \A r \in Requests \ {q} : request'[r] = request[r]
      /\ request'[q].at = "idle" /\ now \in 0..MaxTime
  BY <1>1, <1>2
<1> HIDE DEF now
<1>4. /\ entries' \in [0..MaxTime -> Nat] /\ entries'[now] = entries[now] + 1
      /\ \A t \in (0..MaxTime) \ {now} : entries'[t] = entries[t]
  BY <1>1, <1>2, <1>3
<1>5. InWindow' <= InWindow + 1 /\ InWindow' \in Nat
  <2>1. InWindow' = SumOver(entries', From(time - Window + 1))
    BY <1>1 DEF InWindow, From
  <2>2. SumOver(entries', From(time - Window + 1)) <= SumOver(entries, From(time - Window + 1)) + 1
    <3> DEFINE D == 0..MaxTime
               S == From(time - Window + 1)
    <3>1. entries \in [D -> Nat] /\ entries' \in [D -> Nat] /\ S \in SUBSET D /\ IsFiniteSet(S)
          /\ now \in D /\ entries'[now] = entries[now] + 1
          /\ \A t \in D \ {now} : entries'[t] = entries[t]
      BY <1>2, <1>3, <1>4, FromIs
    <3> HIDE DEF D, S
    <3>2. SumOver(entries', S) <= SumOver(entries, S) + 1
      BY <3>1, SumOverOneMore
    <3>3. QED BY <3>2 DEF S
  <2>3. SumOver(entries', From(time - Window + 1)) \in Nat
    BY <1>4, FromIs, SumOverIsNat
  <2>4. QED BY <2>1, <2>2, <2>3 DEF InWindow
<1>6. Adding' = Adding \ {q} /\ q \in Adding
  BY <1>1, <1>3 DEF Adding
<1>7. Cardinality(Adding') + 1 = Cardinality(Adding) /\ Cardinality(Adding') \in Nat
  <2>1. Adding' \in SUBSET Adding
    BY <1>6
  <2>2. QED BY <1>6, <2>1, InWindowIs, PartsOf
<1>8. InWindow' + Cardinality(Adding') <= MaxRequests - 1 + Cardinality(Requests)
  <2>1. InWindow + Cardinality(Adding) <= MaxRequests - 1 + Cardinality(Requests)
    BY DEF RateInv
  <2>2. QED BY <1>5, <1>7, <2>1, InWindowIs, RateConstants
<1>9. ASSUME ~crossing
      PROVE  /\ InWindow' <= MaxRequests
             /\ \A r \in Requests : request'[r].at = "idle"
  <2>1. InWindow <= MaxRequests - 1
    BY <1>1, <1>9 DEF RateInv
  <2>2. InWindow' <= MaxRequests
    BY <1>5, <2>1, InWindowIs, RateConstants
  <2>3. ASSUME NEW r \in Requests \ {q} PROVE request'[r].at = "idle"
    BY <1>1, <1>3, <1>9 DEF RateInv
  <2>4. QED BY <1>3, <2>2, <2>3
<1>10. QED BY <1>1, <1>2, <1>3, <1>4, <1>8, <1>9 DEF RateInv

LEMMA RateStep ==
  ASSUME RateInv, R!RateNext
  PROVE  RateInv'
<1>1. ASSUME NEW q \in Requests, R!PassUncounted(q) PROVE RateInv'
  <2>1. /\ request[q].at \in {"count", "add"} /\ UNCHANGED <<time, entries, crossing>>
        /\ request' = [request EXCEPT ![q].at = "idle"]
    BY <1>1 DEF R!PassUncounted
  <2>2. /\ time \in 0..MaxTime /\ entries \in [0..MaxTime -> Nat] /\ crossing \in BOOLEAN
        /\ request \in [Requests -> [at : {"idle", "count", "add"}, now : 0..MaxTime]]
    BY DEF RateInv
  <2>3. /\ request' \in [Requests -> [at : {"idle", "count", "add"}, now : 0..MaxTime]]
        /\ \A r \in Requests \ {q} : request'[r] = request[r]
        /\ request'[q].at = "idle"
    BY <2>1, <2>2
  <2>4. /\ \A r \in Requests : request'[r].at = "add" => request[r].at = "add"
        /\ ~crossing => \A r, s \in Requests : request'[r].at # "idle" /\ request'[s].at # "idle" => r = s
    BY <2>1, <2>3 DEF RateInv
  <2>5. InWindow' \in Nat /\ InWindow' <= InWindow
    BY <2>1, SameWindow
  <2>6. QED BY <2>1, <2>2, <2>3, <2>4, <2>5, RequestMoves
<1>2. CASE R!TimePasses
  <2>1. time < MaxTime /\ time' = time + 1 /\ UNCHANGED <<entries, request, crossing>>
    BY <1>2 DEF R!TimePasses
  <2>2. /\ entries \in [0..MaxTime -> Nat] /\ crossing \in BOOLEAN
        /\ request \in [Requests -> [at : {"idle", "count", "add"}, now : 0..MaxTime]]
    BY DEF RateInv
  <2>3. time' \in 0..MaxTime /\ time <= time'
    BY <2>1, InWindowIs, RateConstants
  <2>4. \A t \in 0..MaxTime : entries'[t] <= entries[t]
    <3>1. \A t \in 0..MaxTime : entries[t] \in Nat
      BY <2>2
    <3>2. QED BY <2>1, <3>1
  <2>5. InWindow' \in Nat /\ InWindow' <= InWindow
    BY <2>1, <2>2, <2>3, <2>4, WindowShrinks
  <2>6. ~crossing => \A r, s \in Requests : request[r].at # "idle" /\ request[s].at # "idle" => r = s
    BY DEF RateInv
  <2>7. QED BY <2>1, <2>2, <2>3, <2>5, <2>6, RequestMoves
<1>3. QED BY <1>1, <1>2, ExpelStep, CountRequestStep, AddStep DEF R!RateNext

LEMMA RateStutter ==
  ASSUME RateInv, UNCHANGED <<time, entries, request, crossing>>
  PROVE  RateInv'
BY DEF RateInv, InWindow, From, Adding

LEMMA WindowHolds == RateInv => R!WindowBounded
<1> SUFFICES ASSUME RateInv PROVE R!WindowBounded
  OBVIOUS
<1>1. R!Total(time - Window + 1) = InWindow
  BY TotalIs DEF InWindow
<1>2. InWindow + Cardinality(Adding) <= MaxRequests - 1 + Cardinality(Requests)
      /\ (~crossing => InWindow <= MaxRequests)
  BY DEF RateInv
<1>3. InWindow <= MaxRequests - 1 + Cardinality(Requests)
  BY <1>2, InWindowIs, RateConstants
<1>4. QED BY <1>1, <1>2, <1>3 DEF R!WindowBounded, R!Cardinality, Cardinality

-----------------------------------------------------------------------------
(* authentication-manager.ts and auth.service.ts, the counters: the inductive invariants *)

\* Every call that checkBruteForce let through may still insert one failure.
Trying == {c \in Calls : call[c].at \in {"select", "verify", "insert"}}

AttemptsInv ==
  /\ recent \in Nat
  /\ recent + Cardinality(Trying) <= MaxAttempts - 1 + Cardinality(Calls)

\* Every login that saw the counter below the limit may still raise it.
Verifying == {c \in Logins : login[c] \in {"verify", "incr"}}

LockoutInv ==
  /\ attempts \in Nat /\ expires \in BOOLEAN /\ unexpiring \in BOOLEAN /\ redisFailures \in Nat
  /\ login \in [Logins -> {"idle", "verify", "incr", "expire", "clear"}]
  /\ L!LockoutEnds
  /\ redisFailures = 0 => attempts + Cardinality(Verifying) <= MaxFailed - 1 + Cardinality(Logins)

-----------------------------------------------------------------------------

LEMMA CounterConstants ==
  /\ MaxAttempts \in Nat \ {0} /\ IsFiniteSet(Calls) /\ Cardinality(Calls) \in Nat
  /\ MaxFailed \in Nat \ {0} /\ IsFiniteSet(Logins) /\ Cardinality(Logins) \in Nat
<1>1. MaxAttempts \in Nat \ {0} /\ IsFiniteSet(Calls) /\ MaxFailed \in Nat \ {0} /\ IsFiniteSet(Logins)
  BY Bounds DEF A!AuthOK, L!ApiAuthOK, A!IsFiniteSet, L!IsFiniteSet, IsFiniteSet
<1>2. QED BY <1>1, FS_CardinalityType

LEMMA TryingIs ==
  /\ Trying \in SUBSET Calls /\ IsFiniteSet(Trying) /\ Cardinality(Trying) \in Nat
  /\ Cardinality(Trying) <= Cardinality(Calls)
<1>1. Trying \in SUBSET Calls
  BY DEF Trying
<1>2. QED BY <1>1, CounterConstants, PartsOf

LEMMA InitAttempts == Init => AttemptsInv
<1> SUFFICES ASSUME A!AuthInit PROVE AttemptsInv
  BY DEF Init
<1>1. recent = 0
  BY DEF A!AuthInit
<1>2. QED BY <1>1, TryingIs, CounterConstants DEF AttemptsInv

\* No failure more, and nobody new that tries.
LEMMA FewerTry ==
  ASSUME AttemptsInv, recent' \in Nat, recent' <= recent, Trying' \in SUBSET Trying
  PROVE  AttemptsInv'
<1>1. Cardinality(Trying') <= Cardinality(Trying) /\ Cardinality(Trying') \in Nat
  BY TryingIs, PartsOf
<1>2. QED BY <1>1, TryingIs, CounterConstants DEF AttemptsInv

LEMMA AttemptsStep ==
  ASSUME AuthInv, AttemptsInv, A!AuthNext
  PROVE  AttemptsInv'
<1>1. call \in [Calls -> AwaitedCall] /\ recent \in Nat
  BY ReadyIsAwaited DEF AttemptsInv
<1>2. ASSUME NEW c \in Calls, recent' = recent,
             \A d \in Calls \ {c} : call'[d] = call[d],
             call'[c].at \in {"select", "verify", "insert"} => call[c].at \in {"select", "verify", "insert"}
      PROVE  AttemptsInv'
  <2>1. Trying' \in SUBSET Trying
    BY <1>2 DEF Trying
  <2>2. recent' \in Nat /\ recent' <= recent
    BY <1>1, <1>2
  <2>3. QED BY <2>1, <2>2, FewerTry
<1>3. ASSUME NEW c \in Calls, A!CheckBruteForce(c) PROVE AttemptsInv'
  <2>1. recent < MaxAttempts /\ recent' = recent
    BY <1>3 DEF A!CheckBruteForce, A!Unlocked, A!lockVars
  <2>2. Cardinality(Trying') <= Cardinality(Calls) /\ Cardinality(Trying') \in Nat
    <3>1. Trying' \in SUBSET Calls
      BY DEF Trying
    <3>2. QED BY <3>1, CounterConstants, PartsOf
  <2>3. QED BY <1>1, <2>1, <2>2, CounterConstants DEF AttemptsInv
<1>4. ASSUME NEW c \in Calls, A!InsertAttempt(c) PROVE AttemptsInv'
  <2>1. call[c].at = "insert" /\ call' = [call EXCEPT ![c] = A!Ready] /\ recent' = recent + 1
    BY <1>4 DEF A!InsertAttempt, A!End
  <2>2. Trying' = Trying \ {c} /\ c \in Trying
    BY <1>1, <2>1 DEF Trying, A!Ready
  <2>3. Cardinality(Trying') + 1 = Cardinality(Trying) /\ Cardinality(Trying') \in Nat
    <3>1. Trying' \in SUBSET Trying
      BY <2>2
    <3>2. QED BY <2>2, <3>1, TryingIs, PartsOf
  <2>4. recent' + Cardinality(Trying') = recent + Cardinality(Trying) /\ recent' \in Nat
    BY <1>1, <2>1, <2>3, TryingIs
  <2>5. QED BY <2>4 DEF AttemptsInv
<1>5. ASSUME NEW c \in Calls,
             \/ A!SelectUser(c) \/ A!PasswordRight(c) \/ A!PasswordWrong(c) \/ A!StoreToken(c)
             \/ A!DropOldToken(c) \/ A!BeginChange(c) \/ A!RequestReset(c) \/ A!BeginReset(c)
             \/ A!UpdatePassword(c) \/ A!ClearResetToken(c) \/ A!RevokeTokens(c) \/ A!AuthCallFails(c)
             \/ \E t \in A!Issued : A!BeginRefresh(c, t) \/ A!Logout(c, t)
      PROVE  AttemptsInv'
  <2>1. recent' = recent
    BY <1>5 DEF A!SelectUser, A!PasswordRight, A!PasswordWrong, A!StoreToken, A!DropOldToken, A!BeginChange,
                A!RequestReset, A!BeginReset, A!UpdatePassword, A!ClearResetToken, A!RevokeTokens,
                A!AuthCallFails, A!BeginRefresh, A!Logout, A!lockVars
  <2>2. CASE A!SelectUser(c) \/ A!PasswordRight(c) \/ A!PasswordWrong(c)
    BY <1>1, <1>2, <2>1, <2>2 DEF A!SelectUser, A!PasswordRight, A!PasswordWrong, A!Await
  <2>3. CASE A!BeginChange(c) \/ A!BeginReset(c) \/ A!UpdatePassword(c) \/ A!ClearResetToken(c)
    <3>1. \E step \in {"change", "reset", "clear", "revoke"} : call' = [call EXCEPT ![c].at = step]
      BY <2>3 DEF A!BeginChange, A!BeginReset, A!UpdatePassword, A!ClearResetToken, A!Await
    <3>2. PICK step \in {"change", "reset", "clear", "revoke"} : call' = [call EXCEPT ![c].at = step]
      BY <3>1
    <3>3. call'[c].at = step /\ \A d \in Calls \ {c} : call'[d] = call[d]
      BY <1>1, <3>2 DEF AwaitedCall
    <3>4. QED BY <1>2, <2>1, <3>2, <3>3
  <2>4. CASE A!DropOldToken(c) \/ A!RevokeTokens(c) \/ A!AuthCallFails(c)
    BY <1>1, <1>2, <2>1, <2>4 DEF A!DropOldToken, A!RevokeTokens, A!AuthCallFails, A!End, A!Ready
  <2>5. CASE A!StoreToken(c)
    <3>1. A!End(c) \/ A!Await(c, "drop")
      BY <2>5 DEF A!StoreToken
    <3>2. call' = [call EXCEPT ![c] = A!Ready] \/ call' = [call EXCEPT ![c].at = "drop"]
      BY <3>1 DEF A!End, A!Await
    <3>3. call'[c].at \in {"idle", "drop"} /\ \A d \in Calls \ {c} : call'[d] = call[d]
      BY <1>1, <3>2 DEF AwaitedCall, A!Ready
    <3>4. QED BY <1>2, <2>1, <3>3
  <2>6. CASE A!RequestReset(c) \/ \E t \in A!Issued : A!Logout(c, t)
    BY <1>2, <2>1, <2>6 DEF A!RequestReset, A!Logout
  <2>7. CASE \E t \in A!Issued : A!BeginRefresh(c, t)
    <3>1. PICK t \in A!Issued : call' = [call EXCEPT ![c] = [at |-> "store", token |-> t, epoch |-> epoch]]
      BY <2>7 DEF A!BeginRefresh
    <3>2. QED BY <1>1, <1>2, <2>1, <3>1
  <2>8. QED BY <1>5, <2>2, <2>3, <2>4, <2>5, <2>6, <2>7
<1>6. CASE A!ResetTokenExpires \/ A!LockEnds \/ A!AttemptAges
  <2>1. recent' \in Nat /\ recent' <= recent /\ call' = call
    BY <1>1, <1>6 DEF A!ResetTokenExpires, A!LockEnds, A!AttemptAges, A!lockVars
  <2>2. Trying' \in SUBSET Trying
    BY <2>1 DEF Trying
  <2>3. QED BY <2>1, <2>2, FewerTry
<1>7. QED BY <1>3, <1>4, <1>5, <1>6 DEF A!AuthNext

-----------------------------------------------------------------------------

LEMMA VerifyingIs ==
  /\ Verifying \in SUBSET Logins /\ IsFiniteSet(Verifying) /\ Cardinality(Verifying) \in Nat
  /\ Cardinality(Verifying) <= Cardinality(Logins)
<1>1. Verifying \in SUBSET Logins
  BY DEF Verifying
<1>2. QED BY <1>1, CounterConstants, PartsOf

LEMMA InitLockout == Init => LockoutInv
<1> SUFFICES ASSUME L!ApiAuthInit PROVE LockoutInv
  BY DEF Init
<1>1. /\ attempts = 0 /\ expires = FALSE /\ unexpiring = FALSE /\ redisFailures = 0
      /\ login = [c \in Logins |-> "idle"]
  BY DEF L!ApiAuthInit
<1>2. L!LockoutEnds
  BY <1>1 DEF L!LockoutEnds
<1>3. attempts + Cardinality(Verifying) <= MaxFailed - 1 + Cardinality(Logins)
  BY <1>1, VerifyingIs, CounterConstants
<1>4. QED BY <1>1, <1>2, <1>3 DEF LockoutInv

LEMMA FewerVerify ==
  ASSUME LockoutInv, attempts' \in Nat, attempts' <= attempts, Verifying' \in SUBSET Verifying
  PROVE  redisFailures = 0 => attempts' + Cardinality(Verifying') <= MaxFailed - 1 + Cardinality(Logins)
<1>1. Cardinality(Verifying') <= Cardinality(Verifying) /\ Cardinality(Verifying') \in Nat
  BY VerifyingIs, PartsOf
<1>2. QED BY <1>1, VerifyingIs, CounterConstants DEF LockoutInv

LEMMA CounterStep ==
  ASSUME LockoutInv, NEW c \in Logins,
         \/ L!CheckLockout(c) \/ L!Compare(c) \/ L!IncrAttempts(c) \/ L!ExpireAttempts(c)
         \/ L!ClearLockout(c) \/ L!RecordFails(c)
  PROVE  LockoutInv'
<1>1. /\ attempts \in Nat /\ expires \in BOOLEAN /\ unexpiring \in BOOLEAN /\ redisFailures \in Nat
      /\ login \in [Logins -> {"idle", "verify", "incr", "expire", "clear"}] /\ L!LockoutEnds
  BY DEF LockoutInv
<1>2. CASE L!CheckLockout(c)
  <2>1. /\ login' = [login EXCEPT ![c] = "verify"] /\ login[c] = "idle"
        /\ UNCHANGED <<attempts, expires, unexpiring>>
        /\ IF attempts >= MaxFailed THEN redisFailures' = redisFailures + 1 ELSE redisFailures' = redisFailures
    BY <1>2 DEF L!CheckLockout, L!Step, L!RedisAway
  <2>2. redisFailures' \in Nat /\ (redisFailures' = 0 => attempts <= MaxFailed - 1)
    BY <1>1, <2>1, CounterConstants
  <2>3. Cardinality(Verifying') <= Cardinality(Logins) /\ Cardinality(Verifying') \in Nat
    <3>1. Verifying' \in SUBSET Logins
      BY DEF Verifying
    <3>2. QED BY <3>1, CounterConstants, PartsOf
  <2>4. redisFailures' = 0 => attempts' + Cardinality(Verifying') <= MaxFailed - 1 + Cardinality(Logins)
    BY <1>1, <2>1, <2>2, <2>3, CounterConstants
  <2>5. L!LockoutEnds'
    BY <1>1, <2>1 DEF L!LockoutEnds
  <2>6. QED BY <1>1, <2>1, <2>2, <2>4, <2>5 DEF LockoutInv
<1>3. CASE L!Compare(c)
  <2>1. /\ login[c] = "verify"
        /\ login' = [login EXCEPT ![c] = "incr"] \/ login' = [login EXCEPT ![c] = "clear"]
        /\ UNCHANGED <<attempts, expires, unexpiring, redisFailures>>
    BY <1>3 DEF L!Compare, L!Step
  <2>2. Verifying' \in SUBSET Verifying
    BY <1>1, <2>1 DEF Verifying
  <2>3. attempts' \in Nat /\ attempts' <= attempts
    BY <1>1, <2>1
  <2>4. L!LockoutEnds'
    BY <1>1, <2>1 DEF L!LockoutEnds
  <2>5. QED BY <1>1, <2>1, <2>2, <2>3, <2>4, FewerVerify DEF LockoutInv
<1>4. CASE L!IncrAttempts(c)
  <2>1. /\ login[c] = "incr" /\ attempts' = attempts + 1
        /\ login' = [login EXCEPT ![c] = IF attempts = 0 THEN "expire" ELSE "idle"]
        /\ UNCHANGED <<expires, unexpiring, redisFailures>>
    BY <1>4 DEF L!IncrAttempts, L!Step
  <2>2. Verifying' = Verifying \ {c} /\ c \in Verifying
    BY <1>1, <2>1 DEF Verifying
  <2>3. Cardinality(Verifying') + 1 = Cardinality(Verifying) /\ Cardinality(Verifying') \in Nat
    <3>1. Verifying' \in SUBSET Verifying
      BY <2>2
    <3>2. QED BY <2>2, <3>1, VerifyingIs, PartsOf
  <2>4. attempts' + Cardinality(Verifying') = attempts + Cardinality(Verifying) /\ attempts' \in Nat
    BY <1>1, <2>1, <2>3, VerifyingIs
  <2>5. L!LockoutEnds'
    <3>1. CASE attempts = 0
      <4>1. login'[c] = "expire"
        BY <1>1, <2>1, <3>1
      <4>2. QED BY <4>1 DEF L!LockoutEnds
    <3>2. CASE attempts # 0
      <4>1. attempts > 0
        BY <1>1, <3>2
      <4>2. \A d \in Logins : login[d] = "expire" => login'[d] = "expire"
        BY <1>1, <2>1
      <4>3. QED BY <1>1, <2>1, <4>1, <4>2 DEF L!LockoutEnds
    <3>3. QED BY <3>1, <3>2
  <2>6. login' \in [Logins -> {"idle", "verify", "incr", "expire", "clear"}]
    BY <1>1, <2>1
  <2>7. redisFailures' = 0 => attempts' + Cardinality(Verifying') <= MaxFailed - 1 + Cardinality(Logins)
    BY <2>1, <2>4 DEF LockoutInv
  <2>8. QED BY <1>1, <2>1, <2>4, <2>5, <2>6, <2>7 DEF LockoutInv
<1>5. CASE L!ExpireAttempts(c)
  <2>1. /\ login[c] = "expire" /\ login' = [login EXCEPT ![c] = "idle"] /\ expires' = (attempts > 0)
        /\ UNCHANGED <<attempts, unexpiring, redisFailures>>
    BY <1>5 DEF L!ExpireAttempts, L!Step
  <2>2. Verifying' \in SUBSET Verifying
    BY <1>1, <2>1 DEF Verifying
  <2>3. attempts' \in Nat /\ attempts' <= attempts
    BY <1>1, <2>1
  <2>4. L!LockoutEnds' /\ expires' \in BOOLEAN
    <3>1. attempts' > 0 => expires'
      BY <2>1
    <3>2. expires' \in BOOLEAN
      BY <2>1
    <3>3. QED BY <3>1, <3>2 DEF L!LockoutEnds
  <2>5. login' \in [Logins -> {"idle", "verify", "incr", "expire", "clear"}]
    BY <1>1, <2>1
  <2>6. QED BY <1>1, <2>1, <2>2, <2>3, <2>4, <2>5, FewerVerify DEF LockoutInv
<1>6. CASE L!ClearLockout(c)
  <2>1. /\ login[c] = "clear" /\ login' = [login EXCEPT ![c] = "idle"]
        /\ attempts' = 0 /\ expires' = FALSE /\ unexpiring' = FALSE /\ redisFailures' = redisFailures
    BY <1>6 DEF L!ClearLockout, L!Step
  <2>2. Verifying' \in SUBSET Verifying
    BY <1>1, <2>1 DEF Verifying
  <2>3. attempts' \in Nat /\ attempts' <= attempts
    BY <1>1, <2>1
  <2>4. L!LockoutEnds'
    BY <2>1 DEF L!LockoutEnds
  <2>5. login' \in [Logins -> {"idle", "verify", "incr", "expire", "clear"}]
    BY <1>1, <2>1
  <2>6. QED BY <1>1, <2>1, <2>2, <2>3, <2>4, <2>5, FewerVerify DEF LockoutInv
<1>7. CASE L!RecordFails(c)
  <2>1. /\ login[c] \in {"incr", "expire", "clear"} /\ redisFailures' = redisFailures + 1
        /\ login' = [login EXCEPT ![c] = "idle"] /\ expires' = expires
        /\ attempts' \in {attempts} \cup (IF login[c] = "incr" THEN {attempts + 1} ELSE {})
        /\ unexpiring' = (unexpiring \/ login[c] = "expire" \/ (attempts = 0 /\ attempts' = 1))
    BY <1>7 DEF L!RecordFails, L!RedisAway
  <2>2. redisFailures' \in Nat /\ redisFailures' # 0 /\ attempts' \in {attempts, attempts + 1} /\ attempts' \in Nat
    BY <1>1, <2>1
  <2>3. \A d \in Logins \ {c} : login'[d] = login[d]
    BY <1>1, <2>1
  <2>4. L!LockoutEnds'
    <3> SUFFICES ASSUME attempts' > 0, ~expires', ~unexpiring' PROVE \E d \in Logins : login'[d] = "expire"
      BY DEF L!LockoutEnds
    <3>1. ~unexpiring /\ login[c] # "expire" /\ ~(attempts = 0 /\ attempts' = 1)
      BY <2>1
    <3>2. attempts > 0
      BY <1>1, <2>2, <3>1
    <3>3. PICK d \in Logins : login[d] = "expire"
      BY <1>1, <2>1, <3>1, <3>2 DEF L!LockoutEnds
    <3>4. QED BY <2>3, <3>1, <3>3
  <2>5. unexpiring' \in BOOLEAN /\ expires' \in BOOLEAN
        /\ login' \in [Logins -> {"idle", "verify", "incr", "expire", "clear"}]
    BY <1>1, <2>1
  <2>6. QED BY <2>2, <2>4, <2>5 DEF LockoutInv
<1>8. QED BY <1>2, <1>3, <1>4, <1>5, <1>6, <1>7

\* What concerns only the token: Redis may fail once more.
LEMMA TokenOnly ==
  ASSUME LockoutInv, UNCHANGED <<attempts, expires, login, unexpiring>>,
         redisFailures' = redisFailures \/ redisFailures' = redisFailures + 1
  PROVE  LockoutInv'
<1>1. redisFailures \in Nat
  BY DEF LockoutInv
<1>2. redisFailures' \in Nat /\ (redisFailures' = 0 => redisFailures = 0)
  BY <1>1
<1>3. Verifying' = Verifying /\ L!LockoutEnds' = L!LockoutEnds
  BY DEF Verifying, L!LockoutEnds
<1>4. QED BY <1>2, <1>3 DEF LockoutInv

LEMMA LockoutsStep ==
  ASSUME LockoutInv, L!ApiAuthNext
  PROVE  LockoutInv'
<1>1. CASE L!AttemptsExpire
  <2>1. /\ attempts' = 0 /\ expires' = FALSE /\ unexpiring' = FALSE /\ UNCHANGED <<login, redisFailures>>
    BY <1>1 DEF L!AttemptsExpire
  <2>2. Verifying' \in SUBSET Verifying
    BY <2>1 DEF Verifying
  <2>3. attempts \in Nat
    BY DEF LockoutInv
  <2>4. attempts' \in Nat /\ attempts' <= attempts
    BY <2>1, <2>3
  <2>5. L!LockoutEnds'
    BY <2>1 DEF L!LockoutEnds
  <2>6. QED BY <2>1, <2>2, <2>4, <2>5, FewerVerify DEF LockoutInv
<1>2. CASE L!Accept \/ L!LogOut \/ L!Tick
  <2>1. UNCHANGED <<attempts, expires, login, unexpiring>>
    BY <1>2 DEF L!Accept, L!LogOut, L!Tick, L!lockoutVars
  <2>2. redisFailures' = redisFailures \/ redisFailures' = redisFailures + 1
    <3>1. CASE L!Accept
      BY <3>1 DEF L!Accept, L!RedisAway
    <3>2. CASE L!LogOut
      BY <3>2 DEF L!LogOut, L!RedisAway
    <3>3. CASE L!Tick
      BY <3>3 DEF L!Tick
    <3>4. QED BY <1>2, <3>1, <3>2, <3>3
  <2>3. QED BY <2>1, <2>2, TokenOnly
<1>3. QED BY <1>1, <1>2, CounterStep DEF L!ApiAuthNext

-----------------------------------------------------------------------------

\* The counters hold: failed logins of an account and requests of a client exceed their limits by
\* no more than what overlaps, requests not at all while they come one at a time, and a lockout ends: for any
\* number of calls, limits, windows and failures.
THEOREM LimitsDoHold == Spec => []LimitsHold
<1> DEFINE Inv == /\ part = "auth" => AuthInv /\ AttemptsInv
                  /\ part = "lockout" => LockoutInv
                  /\ part = "rate" => RateInv
<1>1. Init => Inv
  BY InitAuth, InitAttempts, InitLockout, InitRate
<1>2. Inv /\ [Next]_vars => Inv'
  <2>1. ASSUME part = "auth", AuthInv, AttemptsInv, [Next]_vars PROVE AuthInv' /\ AttemptsInv'
    <3>1. CASE Next
      BY <2>1, <3>1, AuthStep, AttemptsStep DEF Next
    <3>2. CASE UNCHANGED vars
      <4>1. AuthInv'
        BY <2>1, <3>2, AuthStutter DEF vars, authVars
      <4>2. AttemptsInv'
        BY <2>1, <3>2 DEF vars, authVars, AttemptsInv, Trying
      <4>3. QED BY <4>1, <4>2
    <3>3. QED BY <2>1, <3>1, <3>2
  <2>2. ASSUME part = "lockout", LockoutInv, [Next]_vars PROVE LockoutInv'
    <3>1. CASE Next
      BY <2>2, <3>1, LockoutsStep DEF Next
    <3>2. CASE UNCHANGED vars
      BY <2>2, <3>2, TokenOnly DEF vars, apiAuthVars
    <3>3. QED BY <2>2, <3>1, <3>2
  <2>3. ASSUME part = "rate", RateInv, [Next]_vars PROVE RateInv'
    <3>1. CASE Next
      BY <2>3, <3>1, RateStep DEF Next
    <3>2. CASE UNCHANGED vars
      BY <2>3, <3>2, RateStutter DEF vars, rateVars
    <3>3. QED BY <2>3, <3>1, <3>2
  <2>4. [Next]_vars => part' = part
    BY DEF Next, Others, vars
  <2>5. QED BY <2>1, <2>2, <2>3, <2>4
<1>3. Inv => LimitsHold
  <2>1. ASSUME AttemptsInv PROVE A!AttemptsBounded
    <3>1. recent <= MaxAttempts - 1 + Cardinality(Calls)
      BY <2>1, TryingIs, CounterConstants DEF AttemptsInv
    <3>2. QED BY <3>1 DEF A!AttemptsBounded, A!Cardinality, Cardinality
  <2>2. ASSUME LockoutInv PROVE L!LockoutEnds /\ L!FailuresBounded
    <3>1. redisFailures = 0 => attempts <= MaxFailed - 1 + Cardinality(Logins)
      BY <2>2, VerifyingIs, CounterConstants DEF LockoutInv
    <3>2. L!LockoutEnds
      BY <2>2 DEF LockoutInv
    <3>3. QED BY <3>1, <3>2 DEF L!FailuresBounded, L!Cardinality, Cardinality
  <2>3. QED BY <2>1, <2>2, WindowHolds DEF LimitsHold
<1>4. QED BY <1>1, <1>2, <1>3, PTL DEF Spec

-----------------------------------------------------------------------------
(* order.service.ts: the inductive invariant *)

OrderRows == [status : {"pending", "allocated"}, warehouse : Warehouses \cup {None}]

\* What a run awaits, with costs of some kind.
Runs(costs) ==
  [at : {"none", "read", "update", "record", "done"}, order : Orders \cup {None}, cost : costs,
   warehouse : Warehouses \cup {None}]

OrderTypes ==
  /\ orders \in [Orders -> OrderRows \cup {None}]
  /\ \E S : decisions \in Seq(S)
  /\ \E costs : allocation \in [Allocations -> Runs(costs)]

\* Runs and decisions are about orders that exist.
AboutOrders ==
  /\ \A a \in Allocations :
       allocation[a].at # "none" => allocation[a].order \in Orders /\ orders[allocation[a].order] # None
  /\ \A o \in Orders : orders[o] = None => O!DecisionsOn(o) = {}

\* The warehouse of the latest decision on an order.
Assigned(o) ==
  IF O!DecisionsOn(o) = {} THEN None ELSE decisions[O!Latest(O!DecisionsOn(o))].assigned

\* The row has the warehouse of the run between its UPDATE and its INSERT, of which there is one at a time, or
\* else of the latest decision.
RowsExplained ==
  \A o \in Orders \ crossed : orders[o] # None =>
    /\ O!Recording(o) = {} => orders[o].warehouse = Assigned(o)
    /\ \A a \in O!Recording(o) : orders[o].warehouse = allocation[a].warehouse
    /\ \A a, b \in O!Recording(o) : a = b

OrderInv == OrderTypes /\ AboutOrders /\ RowsExplained

-----------------------------------------------------------------------------

LEMMA OrderConstants ==
  /\ None \notin Warehouses /\ None \notin OrderRows /\ Quantities \subseteq Nat /\ IsFiniteSet(Skus)
BY Bounds DEF O!OrdersOK, OrderRows, O!IsFiniteSet, IsFiniteSet

LEMMA InitOrders == Init => OrderInv
<1> SUFFICES ASSUME O!OrdersInit PROVE OrderInv
  BY DEF Init
<1>1. /\ orders = [o \in Orders |-> None] /\ decisions = <<>>
      /\ allocation = [a \in Allocations |-> O!Unset]
  BY DEF O!OrdersInit
<1>2. O!Unset \in Runs({<<>>}) /\ O!Unset.at = "none"
  BY DEF O!Unset, Runs
<1>3. allocation \in [Allocations -> Runs({<<>>})] /\ \A a \in Allocations : allocation[a].at = "none"
  BY <1>1, <1>2
<1>4. <<>> \in Seq({}) /\ DOMAIN <<>> = {}
  OBVIOUS
<1>5. OrderTypes
  <2>1. orders \in [Orders -> OrderRows \cup {None}]
    BY <1>1
  <2>2. \E S : decisions \in Seq(S)
    BY <1>1, <1>4
  <2>3. \E costs : allocation \in [Allocations -> Runs(costs)]
    BY <1>3
  <2>4. QED BY <2>1, <2>2, <2>3 DEF OrderTypes
<1>6. AboutOrders
  BY <1>1, <1>3, <1>4 DEF AboutOrders, O!DecisionsOn
<1>7. RowsExplained
  BY <1>1 DEF RowsExplained
<1>8. QED BY <1>5, <1>6, <1>7 DEF OrderInv

\* What a run is.
LEMMA RunIs ==
  ASSUME OrderInv, NEW a \in Allocations, allocation[a].at # "none"
  PROVE  allocation[a].order \in Orders /\ orders[allocation[a].order] # None
         /\ orders[allocation[a].order] \in OrderRows
BY DEF OrderInv, AboutOrders, OrderTypes

\* A run moves on and is not recording before and after: rows and decisions stay explained.
LEMMA RunMoves ==
  ASSUME OrderInv, NEW a \in Allocations,
         NEW costs, allocation' \in [Allocations -> Runs(costs)],
         \A b \in Allocations \ {a} : allocation'[b] = allocation[b],
         allocation[a].at # "record", allocation'[a].at # "record",
         allocation'[a].at # "none" =>
           allocation'[a].order \in Orders /\ orders'[allocation'[a].order] # None,
         orders' \in [Orders -> OrderRows \cup {None}],
         \A o \in Orders :
           orders'[o] = orders[o] \/ (orders[o] = None /\ orders'[o] # None /\ orders'[o].warehouse = None),
         UNCHANGED <<decisions, crossed>>
  PROVE  OrderInv'
<1>1. \A o \in Orders : O!DecisionsOn(o)' = O!DecisionsOn(o) /\ Assigned(o)' = Assigned(o)
  BY DEF O!DecisionsOn, Assigned, O!Latest
<1>2. \A o \in Orders : O!Recording(o)' = O!Recording(o)
  BY DEF O!Recording
<1>3. OrderTypes'
  BY DEF OrderInv, OrderTypes
<1>4. AboutOrders'
  <2>1. \A b \in Allocations :
          allocation'[b].at # "none" => allocation'[b].order \in Orders /\ orders'[allocation'[b].order] # None
    BY DEF OrderInv, AboutOrders
  <2>2. \A o \in Orders : orders'[o] = None => O!DecisionsOn(o)' = {}
    BY <1>1 DEF OrderInv, AboutOrders
  <2>3. QED BY <2>1, <2>2 DEF AboutOrders
<1>5. RowsExplained'
  <2> SUFFICES ASSUME NEW o \in Orders \ crossed', orders'[o] # None
               PROVE  /\ O!Recording(o)' = {} => orders'[o].warehouse = Assigned(o)'
                      /\ \A b \in O!Recording(o)' : orders'[o].warehouse = allocation'[b].warehouse
                      /\ \A b, c \in O!Recording(o)' : b = c
    BY DEF RowsExplained
  <2>1. CASE orders[o] # None
    <3>1. orders'[o] = orders[o]
      BY <2>1
    <3>2. \A b \in O!Recording(o) : allocation'[b] = allocation[b]
      BY DEF O!Recording
    <3>3. QED BY <1>1, <1>2, <2>1, <3>1, <3>2 DEF OrderInv, RowsExplained
  <2>2. CASE orders[o] = None
    <3>1. O!Recording(o) = {}
      BY <2>2 DEF O!Recording, OrderInv, AboutOrders
    <3>2. Assigned(o) = None
      BY <2>2 DEF Assigned, OrderInv, AboutOrders
    <3>3. orders'[o].warehouse = None
      BY <2>2
    <3>4. QED BY <1>1, <1>2, <3>1, <3>2, <3>3
  <2>3. QED BY <2>1, <2>2
<1>6. QED BY <1>3, <1>4, <1>5 DEF OrderInv

\* createOrder, reallocateOrder and the SELECT of the warehouses.
LEMMA BeginningStep ==
  ASSUME OrderInv, NEW a \in Allocations,
         \/ \E o \in Orders, located \in BOOLEAN : O!CreateOrder(a, o, located)
         \/ \E o \in Orders : O!ReallocateOrder(a, o)
         \/ O!ReadWarehouses(a)
  PROVE  OrderInv'
<1>1. PICK costs : allocation \in [Allocations -> Runs(costs)]
  BY DEF OrderInv, OrderTypes
<1>2. orders \in [Orders -> OrderRows \cup {None}]
  BY DEF OrderInv, OrderTypes
<1>3. ASSUME NEW o \in Orders, NEW located \in BOOLEAN, O!CreateOrder(a, o, located) PROVE OrderInv'
  <2> DEFINE new == [status |-> "pending", warehouse |-> None]
  <2>1. /\ allocation[a].at = "none" /\ orders[o] = None /\ orders' = [orders EXCEPT ![o] = new]
        /\ allocation' = [allocation EXCEPT ![a].order = o, ![a].at = IF located THEN "read" ELSE "done"]
        /\ UNCHANGED <<decisions, crossed>>
    BY <1>3 DEF O!CreateOrder
  <2>2. new \in OrderRows /\ new.warehouse = None
    BY DEF OrderRows
  <2> HIDE DEF new
  <2>3. PICK step \in {"read", "done"} : allocation' = [allocation EXCEPT ![a].order = o, ![a].at = step]
    BY <2>1
  <2>4. PICK run : run = [allocation[a] EXCEPT !.order = o, !.at = step]
    OBVIOUS
  <2>5. run \in Runs(costs) /\ run.order = o /\ run.at = step
    BY <1>1, <2>4 DEF Runs
  <2>6. allocation' = [allocation EXCEPT ![a] = run]
    BY <1>1, <2>3, <2>4
  <2>7. /\ allocation' \in [Allocations -> Runs(costs)] /\ allocation'[a] = run
        /\ \A b \in Allocations \ {a} : allocation'[b] = allocation[b]
    BY <1>1, <2>5, <2>6
  <2>8. /\ orders' \in [Orders -> OrderRows \cup {None}] /\ orders'[o] = new /\ new # None
        /\ \A x \in Orders \ {o} : orders'[x] = orders[x]
    BY <1>2, <2>1, <2>2, OrderConstants
  <2>9. QED BY <2>1, <2>2, <2>5, <2>7, <2>8, RunMoves
<1>4. ASSUME NEW o \in Orders, O!ReallocateOrder(a, o) PROVE OrderInv'
  <2>1. /\ allocation[a].at = "none" /\ orders[o] # None /\ UNCHANGED <<orders, decisions, crossed>>
        /\ allocation' = [allocation EXCEPT ![a].order = o, ![a].at = "read"]
    BY <1>4 DEF O!ReallocateOrder
  <2>2. PICK run : run = [allocation[a] EXCEPT !.order = o, !.at = "read"]
    OBVIOUS
  <2>3. run \in Runs(costs) /\ run.order = o /\ run.at = "read"
    BY <1>1, <2>2 DEF Runs
  <2>4. allocation' = [allocation EXCEPT ![a] = run]
    BY <1>1, <2>1, <2>2
  <2>5. /\ allocation' \in [Allocations -> Runs(costs)] /\ allocation'[a] = run
        /\ \A b \in Allocations \ {a} : allocation'[b] = allocation[b]
    BY <1>1, <2>3, <2>4
  <2>6. QED BY <1>2, <2>1, <2>3, <2>5, RunMoves
<1>5. CASE O!ReadWarehouses(a)
  <2>1. PICK w \in Warehouses :
          allocation' = [allocation EXCEPT ![a].at = "update", ![a].cost = O!Costs, ![a].warehouse = w]
    BY <1>5 DEF O!ReadWarehouses
  <2>2. allocation[a].at = "read" /\ UNCHANGED <<orders, decisions, crossed>>
    BY <1>5 DEF O!ReadWarehouses
  <2> DEFINE more == costs \cup {O!Costs}
  <2>3. PICK run : run = [allocation[a] EXCEPT !.at = "update", !.cost = O!Costs, !.warehouse = w]
    OBVIOUS
  <2>4. \A b \in Allocations : allocation[b] \in Runs(more)
    BY <1>1 DEF Runs
  <2>5. PICK cost : cost = O!Costs
    OBVIOUS
  <2>6. run \in Runs(more) /\ run.order = allocation[a].order /\ run.at = "update"
    <3>1. allocation[a] \in Runs(more) /\ cost \in more
      BY <2>4, <2>5
    <3>2. run = [allocation[a] EXCEPT !.at = "update", !.cost = cost, !.warehouse = w]
      BY <2>3, <2>5
    <3> HIDE DEF more
    <3>3. QED BY <3>1, <3>2 DEF Runs
  <2>7. allocation' = [allocation EXCEPT ![a] = run]
    BY <1>1, <2>1, <2>3
  <2> HIDE DEF more
  <2>8. /\ allocation' \in [Allocations -> Runs(more)] /\ allocation'[a] = run
        /\ \A b \in Allocations \ {a} : allocation'[b] = allocation[b]
    BY <1>1, <2>4, <2>6, <2>7
  <2>9. allocation[a].order \in Orders /\ orders[allocation[a].order] # None
    BY <2>2, RunIs
  <2>10. QED BY <1>2, <2>2, <2>6, <2>8, <2>9, RunMoves
<1>6. QED BY <1>3, <1>4, <1>5

LEMMA StepOf ==
  ASSUME OrderInv, NEW a \in Allocations, NEW step \in {"none", "read", "update", "record", "done"},
         allocation' = [allocation EXCEPT ![a].at = step]
  PROVE  /\ \E costs : allocation' \in [Allocations -> Runs(costs)]
         /\ \A b \in Allocations \ {a} : allocation'[b] = allocation[b]
         /\ allocation'[a].at = step /\ allocation'[a].order = allocation[a].order
         /\ allocation'[a].warehouse = allocation[a].warehouse
<1>1. PICK costs : allocation \in [Allocations -> Runs(costs)]
  BY DEF OrderInv, OrderTypes
<1>2. PICK run : run = [allocation[a] EXCEPT !.at = step]
  OBVIOUS
<1>3. run \in Runs(costs) /\ run.at = step /\ run.order = allocation[a].order
      /\ run.warehouse = allocation[a].warehouse
  BY <1>1, <1>2 DEF Runs
<1>4. allocation' = [allocation EXCEPT ![a] = run]
  BY <1>1, <1>2
<1>5. allocation' \in [Allocations -> Runs(costs)] /\ allocation'[a] = run
      /\ \A b \in Allocations \ {a} : allocation'[b] = allocation[b]
  BY <1>1, <1>3, <1>4
<1>6. QED BY <1>3, <1>5

\* The UPDATE of the order: unless another run is between its own and its INSERT, the row is this run's.
LEMMA UpdateStep ==
  ASSUME OrderInv, NEW a \in Allocations, O!UpdateOrder(a)
  PROVE  OrderInv'
<1>0. PICK o \in Orders : o = allocation[a].order
  BY RunIs DEF O!UpdateOrder
<1> DEFINE row2 == [status |-> "allocated", warehouse |-> allocation[a].warehouse]
<1>1. /\ allocation[a].at = "update" /\ orders' = [orders EXCEPT ![o] = row2]
      /\ crossed' = IF O!Recording(o) = {} THEN crossed \ {o} ELSE crossed \cup {o}
      /\ allocation' = [allocation EXCEPT ![a].at = "record"] /\ decisions' = decisions
  BY <1>0 DEF O!UpdateOrder
<1>2. o \in Orders /\ orders[o] # None /\ orders \in [Orders -> OrderRows \cup {None}]
  BY <1>0, <1>1, RunIs DEF OrderInv, OrderTypes
<1>3. row2 \in OrderRows /\ row2.warehouse = allocation[a].warehouse
  <2>1. allocation[a].warehouse \in Warehouses \cup {None}
    BY DEF OrderInv, OrderTypes, Runs
  <2>2. QED BY <2>1 DEF OrderRows
<1> HIDE DEF row2
<1>4. /\ orders' \in [Orders -> OrderRows \cup {None}] /\ orders'[o] = row2 /\ row2 # None
      /\ \A x \in Orders \ {o} : orders'[x] = orders[x]
  BY <1>1, <1>2, <1>3, OrderConstants
<1>5. /\ \E costs : allocation' \in [Allocations -> Runs(costs)]
      /\ \A b \in Allocations \ {a} : allocation'[b] = allocation[b]
      /\ allocation'[a].at = "record" /\ allocation'[a].order = o
      /\ allocation'[a].warehouse = allocation[a].warehouse
  BY <1>0, <1>1, StepOf
<1>6. /\ O!Recording(o)' = O!Recording(o) \cup {a} /\ a \notin O!Recording(o)
      /\ \A x \in Orders \ {o} : O!Recording(x)' = O!Recording(x)
  BY <1>0, <1>1, <1>5 DEF O!Recording
<1>7. \A x \in Orders : O!DecisionsOn(x)' = O!DecisionsOn(x) /\ Assigned(x)' = Assigned(x)
  BY <1>1 DEF O!DecisionsOn, Assigned, O!Latest
<1>8. OrderTypes'
  BY <1>1, <1>4, <1>5 DEF OrderInv, OrderTypes
<1>9. AboutOrders'
  <2>1. ASSUME NEW b \in Allocations, allocation'[b].at # "none"
        PROVE  allocation'[b].order \in Orders /\ orders'[allocation'[b].order] # None
    <3>1. CASE b = a
      BY <1>2, <1>4, <1>5, <3>1
    <3>2. CASE b # a
      <4>1. allocation[b].order \in Orders /\ orders[allocation[b].order] # None
        BY <1>5, <2>1, <3>2, RunIs
      <4>2. QED BY <1>4, <1>5, <3>2, <4>1
    <3>3. QED BY <3>1, <3>2
  <2>2. \A x \in Orders : orders'[x] = None => O!DecisionsOn(x)' = {}
    BY <1>4, <1>7 DEF OrderInv, AboutOrders
  <2>3. QED BY <2>1, <2>2 DEF AboutOrders
<1>10. RowsExplained'
  <2> SUFFICES ASSUME NEW x \in Orders \ crossed', orders'[x] # None
               PROVE  /\ O!Recording(x)' = {} => orders'[x].warehouse = Assigned(x)'
                      /\ \A b \in O!Recording(x)' : orders'[x].warehouse = allocation'[b].warehouse
                      /\ \A b, c \in O!Recording(x)' : b = c
    BY DEF RowsExplained
  <2>1. CASE x = o
    <3>1. O!Recording(o) = {}
      BY <1>1, <2>1
    <3>2. O!Recording(o)' = {a}
      BY <1>6, <3>1
    <3>3. QED BY <1>3, <1>4, <1>5, <2>1, <3>2
  <2>2. CASE x # o
    <3>1. x \notin crossed /\ orders'[x] = orders[x] /\ O!Recording(x)' = O!Recording(x)
      BY <1>1, <1>4, <1>6, <2>2
    <3>2. \A b \in O!Recording(x) : allocation'[b] = allocation[b]
      <4>1. \A b \in O!Recording(x) : b \in Allocations /\ b # a
        BY <1>1 DEF O!Recording
      <4>2. QED BY <1>5, <4>1
    <3>3. QED BY <1>7, <3>1, <3>2 DEF OrderInv, RowsExplained
  <2>3. QED BY <2>1, <2>2
<1>11. QED BY <1>8, <1>9, <1>10 DEF OrderInv

\* The INSERT of the decision: it is the latest on its order, and on no other.
LEMMA DecisionStep ==
  ASSUME OrderInv, NEW a \in Allocations, O!RecordDecision(a)
  PROVE  OrderInv'
<1>0. PICK o \in Orders : o = allocation[a].order
  BY RunIs DEF O!RecordDecision
<1>len. PICK n : n = Len(decisions) + 1
  OBVIOUS
<1>1. PICK runnerUp : runnerUp = O!RunnerUp(a)
  OBVIOUS
<1> DEFINE new == [order |-> o, assigned |-> allocation[a].warehouse, runnerUp |-> runnerUp]
<1>2. /\ allocation[a].at = "record" /\ decisions' = Append(decisions, new)
      /\ allocation' = [allocation EXCEPT ![a].at = "done"] /\ UNCHANGED <<orders, crossed>>
  BY <1>0, <1>1 DEF O!RecordDecision, O!Append, Append
<1>3. new.order = o /\ new.assigned = allocation[a].warehouse /\ o \in Orders /\ orders[o] # None
  BY <1>0, <1>2, RunIs
<1> HIDE DEF new
<1>4. PICK S : decisions \in Seq(S)
  BY DEF OrderInv, OrderTypes
<1>5. /\ decisions' \in Seq(S \cup {new}) /\ Len(decisions) \in Nat
      /\ DOMAIN decisions = 1..Len(decisions) /\ DOMAIN decisions' = 1..n
      /\ decisions'[n] = new /\ \A i \in 1..Len(decisions) : decisions'[i] = decisions[i]
  <2>1. decisions \in Seq(S \cup {new})
    BY <1>4
  <2>2. QED BY <1>2, <1>len, <2>1
<1>6. n \in Nat /\ 1..n = (1..Len(decisions)) \cup {n} /\ n \notin 1..Len(decisions)
  BY <1>5, <1>len
<1>7. O!DecisionsOn(o)' = O!DecisionsOn(o) \cup {n} /\ \A x \in Orders \ {o} : O!DecisionsOn(x)' = O!DecisionsOn(x)
  BY <1>3, <1>5, <1>6 DEF O!DecisionsOn
<1>8. Assigned(o)' = allocation[a].warehouse
  <2>1. n \in O!DecisionsOn(o)' /\ \A k \in O!DecisionsOn(o)' : k \in Nat /\ k <= n
    BY <1>5, <1>6, <1>7 DEF O!DecisionsOn
  <2>2. O!Latest(O!DecisionsOn(o)') = n
    <3>1. \A i \in O!DecisionsOn(o)' : (\A k \in O!DecisionsOn(o)' : k <= i) => i = n
      BY <1>6, <2>1
    <3>2. QED BY <2>1, <3>1 DEF O!Latest
  <2>3. Assigned(o)' = decisions'[O!Latest(O!DecisionsOn(o)')].assigned
    BY <2>1 DEF Assigned, O!Latest
  <2>4. QED BY <1>3, <1>5, <2>2, <2>3
<1>9. ASSUME NEW x \in Orders \ {o} PROVE Assigned(x)' = Assigned(x)
  <2>1. O!DecisionsOn(x)' = O!DecisionsOn(x)
    BY <1>7
  <2>2. CASE O!DecisionsOn(x) = {}
    BY <2>1, <2>2 DEF Assigned
  <2>3. CASE O!DecisionsOn(x) # {}
    <3> DEFINE last == O!Latest(O!DecisionsOn(x))
    <3>1. last \in 1..Len(decisions)
      <4>1. O!DecisionsOn(x) \in SUBSET (1..Len(decisions)) /\ IsFiniteSet(1..Len(decisions))
        BY <1>5, FS_Interval DEF O!DecisionsOn
      <4>2. O!DecisionsOn(x) \in SUBSET Nat /\ IsFiniteSet(O!DecisionsOn(x))
        BY <4>1, FS_Subset
      <4>3. K!Max(O!DecisionsOn(x)) \in O!DecisionsOn(x)
            /\ \A y \in O!DecisionsOn(x) : K!Max(O!DecisionsOn(x)) >= y
        BY <2>3, <4>2, MaxIsMember
      <4>4. \E i \in O!DecisionsOn(x) : \A k \in O!DecisionsOn(x) : k <= i
        BY <4>2, <4>3
      <4>5. last \in O!DecisionsOn(x)
        BY <4>4 DEF O!Latest
      <4>6. QED BY <4>1, <4>5
    <3>2. Assigned(x) = decisions[last].assigned
      BY <2>3 DEF Assigned
    <3>3. Assigned(x)' = decisions'[last].assigned
      BY <2>1, <2>3 DEF Assigned, O!Latest
    <3>4. QED BY <1>5, <3>1, <3>2, <3>3
  <2>4. QED BY <2>2, <2>3
<1>10. /\ \E costs : allocation' \in [Allocations -> Runs(costs)]
       /\ \A b \in Allocations \ {a} : allocation'[b] = allocation[b]
       /\ allocation'[a].at = "done" /\ allocation'[a].order = o
       /\ allocation'[a].warehouse = allocation[a].warehouse
  BY <1>0, <1>2, StepOf
<1>11. /\ O!Recording(o)' = O!Recording(o) \ {a} /\ a \in O!Recording(o)
       /\ \A x \in Orders \ {o} : O!Recording(x)' = O!Recording(x)
       /\ \A x \in Orders : a \notin O!Recording(x)'
  BY <1>0, <1>2, <1>10 DEF O!Recording
<1>12. OrderTypes'
  BY <1>2, <1>5, <1>10 DEF OrderInv, OrderTypes
<1>13. AboutOrders'
  <2>1. \A b \in Allocations :
          allocation'[b].at # "none" => allocation'[b].order \in Orders /\ orders'[allocation'[b].order] # None
    BY <1>2, <1>3, <1>10, RunIs
  <2>2. \A x \in Orders : orders'[x] = None => O!DecisionsOn(x)' = {}
    BY <1>2, <1>3, <1>7 DEF OrderInv, AboutOrders
  <2>3. QED BY <2>1, <2>2 DEF AboutOrders
<1>14. RowsExplained'
  <2> SUFFICES ASSUME NEW x \in Orders \ crossed', orders'[x] # None
               PROVE  /\ O!Recording(x)' = {} => orders'[x].warehouse = Assigned(x)'
                      /\ \A b \in O!Recording(x)' : orders'[x].warehouse = allocation'[b].warehouse
                      /\ \A b, c \in O!Recording(x)' : b = c
    BY DEF RowsExplained
  <2>1. x \in Orders \ crossed /\ orders[x] # None
    BY <1>2
  <2>2. CASE x = o
    <3>1. \A b \in O!Recording(o) : b = a
      BY <1>11, <2>1, <2>2 DEF OrderInv, RowsExplained
    <3>2. orders[o].warehouse = allocation[a].warehouse
      BY <1>11, <2>1, <2>2 DEF OrderInv, RowsExplained
    <3>3. O!Recording(o)' = {}
      BY <1>11, <3>1
    <3>4. QED BY <1>2, <1>8, <2>2, <3>2, <3>3
  <2>3. CASE x # o
    <3>1. O!Recording(x)' = O!Recording(x) /\ Assigned(x)' = Assigned(x)
      BY <1>9, <1>11, <2>3
    <3>2. \A b \in O!Recording(x) : allocation'[b] = allocation[b]
      <4>1. \A b \in O!Recording(x) : b \in Allocations /\ b # a
        BY <1>11, <3>1 DEF O!Recording
      <4>2. QED BY <1>10, <4>1
    <3>3. QED BY <1>2, <2>1, <3>1, <3>2 DEF OrderInv, RowsExplained
  <2>4. QED BY <2>2, <2>3
<1>15. QED BY <1>12, <1>13, <1>14 DEF OrderInv

\* A statement of a run fails: only a row whose order is then among the crossed ones changes.
LEMMA FailingStep ==
  ASSUME OrderInv, NEW a \in Allocations, O!AllocationFails(a)
  PROVE  OrderInv'
<1>1. PICK o \in Orders : o = allocation[a].order
  BY RunIs DEF O!AllocationFails
<1> DEFINE updated == [status |-> "allocated", warehouse |-> allocation[a].warehouse]
<1>2. /\ allocation[a].at \in {"read", "update", "record"} /\ decisions' = decisions
      /\ orders' \in {orders} \cup (IF allocation[a].at = "update"
                                      THEN {[orders EXCEPT ![o] = updated]} ELSE {})
      /\ crossed' = IF allocation[a].at = "record" \/ orders' # orders THEN crossed \cup {o} ELSE crossed
      /\ allocation' = [allocation EXCEPT ![a].at = "done"]
  BY <1>1 DEF O!AllocationFails
<1>3. orders[o] # None /\ orders \in [Orders -> OrderRows \cup {None}]
  BY <1>1, <1>2, RunIs DEF OrderInv, OrderTypes
<1>4. updated \in OrderRows
  <2>1. allocation[a].warehouse \in Warehouses \cup {None}
    BY DEF OrderInv, OrderTypes, Runs
  <2>2. QED BY <2>1 DEF OrderRows
<1> HIDE DEF updated
<1>5. /\ orders' \in [Orders -> OrderRows \cup {None}] /\ orders'[o] # None
      /\ \A x \in Orders \ {o} : orders'[x] = orders[x]
  BY <1>2, <1>3, <1>4, OrderConstants
<1>6. /\ \E costs : allocation' \in [Allocations -> Runs(costs)]
      /\ \A b \in Allocations \ {a} : allocation'[b] = allocation[b]
      /\ allocation'[a].at = "done" /\ allocation'[a].order = o
  BY <1>1, <1>2, StepOf
<1>7. \A x \in Orders : O!DecisionsOn(x)' = O!DecisionsOn(x) /\ Assigned(x)' = Assigned(x)
  BY <1>2 DEF O!DecisionsOn, Assigned, O!Latest
<1>8. \A x \in Orders \ {o} : O!Recording(x)' = O!Recording(x) /\ a \notin O!Recording(x)
  BY <1>1, <1>6 DEF O!Recording
<1>9. OrderTypes'
  BY <1>2, <1>5, <1>6 DEF OrderInv, OrderTypes
<1>10. AboutOrders'
  <2>1. ASSUME NEW b \in Allocations, allocation'[b].at # "none"
        PROVE  allocation'[b].order \in Orders /\ orders'[allocation'[b].order] # None
    <3>1. CASE b = a
      BY <1>5, <1>6, <3>1
    <3>2. CASE b # a
      <4>1. allocation[b].order \in Orders /\ orders[allocation[b].order] # None
        BY <1>6, <2>1, <3>2, RunIs
      <4>2. QED BY <1>5, <1>6, <3>2, <4>1
    <3>3. QED BY <3>1, <3>2
  <2>2. \A x \in Orders : orders'[x] = None => O!DecisionsOn(x)' = {}
    BY <1>5, <1>7 DEF OrderInv, AboutOrders
  <2>3. QED BY <2>1, <2>2 DEF AboutOrders
<1>11. RowsExplained'
  <2> SUFFICES ASSUME NEW x \in Orders \ crossed', orders'[x] # None
               PROVE  /\ O!Recording(x)' = {} => orders'[x].warehouse = Assigned(x)'
                      /\ \A b \in O!Recording(x)' : orders'[x].warehouse = allocation'[b].warehouse
                      /\ \A b, c \in O!Recording(x)' : b = c
    BY DEF RowsExplained
  <2>1. x \notin crossed /\ orders'[x] = orders[x] /\ orders[x] # None
    BY <1>2, <1>5
  <2>2. O!Recording(x)' = O!Recording(x) /\ a \notin O!Recording(x)
    <3>1. CASE x = o
      <4>1. allocation[a].at # "record"
        BY <1>2, <3>1
      <4>2. QED BY <1>6, <4>1 DEF O!Recording
    <3>2. CASE x # o
      BY <1>8, <3>2
    <3>3. QED BY <3>1, <3>2
  <2>3. \A b \in O!Recording(x) : allocation'[b] = allocation[b]
    <3>1. \A b \in O!Recording(x) : b \in Allocations /\ b # a
      BY <2>2 DEF O!Recording
    <3>2. QED BY <1>6, <3>1
  <2>4. QED BY <1>7, <2>1, <2>2, <2>3 DEF OrderInv, RowsExplained
<1>12. QED BY <1>9, <1>10, <1>11 DEF OrderInv

\* A route takes an order in: it keeps its warehouse.
LEMMA RouteOrderStep ==
  ASSUME OrderInv, NEW o \in Orders, O!RouteOrder(o)
  PROVE  OrderInv'
<1>1. /\ orders[o] # None /\ orders' = [orders EXCEPT ![o].status = "allocated"]
      /\ UNCHANGED <<decisions, allocation, crossed>>
  BY DEF O!RouteOrder
<1>2. orders[o] \in OrderRows /\ orders \in [Orders -> OrderRows \cup {None}]
  BY <1>1 DEF OrderInv, OrderTypes
<1>3. PICK taken : taken = [orders[o] EXCEPT !.status = "allocated"]
  OBVIOUS
<1>4. taken \in OrderRows /\ taken.warehouse = orders[o].warehouse
  BY <1>2, <1>3 DEF OrderRows
<1>5. orders' = [orders EXCEPT ![o] = taken]
  BY <1>1, <1>2, <1>3
<1>6. /\ orders' \in [Orders -> OrderRows \cup {None}]
      /\ \A x \in Orders : orders'[x] # None <=> orders[x] # None
      /\ \A x \in Orders : orders[x] # None => orders'[x].warehouse = orders[x].warehouse
  BY <1>1, <1>2, <1>4, <1>5, OrderConstants
<1>7. \A x \in Orders : /\ O!DecisionsOn(x)' = O!DecisionsOn(x) /\ Assigned(x)' = Assigned(x)
                        /\ O!Recording(x)' = O!Recording(x)
  BY <1>1 DEF O!DecisionsOn, Assigned, O!Latest, O!Recording
<1>8. OrderTypes'
  BY <1>1, <1>6 DEF OrderInv, OrderTypes
<1>9. AboutOrders'
  <2>1. \A b \in Allocations :
          allocation'[b].at # "none" => allocation'[b].order \in Orders /\ orders'[allocation'[b].order] # None
    BY <1>1, <1>6, RunIs
  <2>2. \A x \in Orders : orders'[x] = None => O!DecisionsOn(x)' = {}
    BY <1>6, <1>7 DEF OrderInv, AboutOrders
  <2>3. QED BY <2>1, <2>2 DEF AboutOrders
<1>10. RowsExplained'
  BY <1>1, <1>6, <1>7 DEF OrderInv, RowsExplained
<1>11. QED BY <1>8, <1>9, <1>10 DEF OrderInv

LEMMA OrderStutter ==
  ASSUME OrderInv, UNCHANGED <<orders, decisions, allocation, crossed>>
  PROVE  OrderInv'
<1>1. \A x \in Orders : /\ O!DecisionsOn(x)' = O!DecisionsOn(x) /\ Assigned(x)' = Assigned(x)
                        /\ O!Recording(x)' = O!Recording(x)
  BY DEF O!DecisionsOn, Assigned, O!Latest, O!Recording
<1>2. OrderTypes' /\ AboutOrders' /\ RowsExplained'
  BY <1>1 DEF OrderInv, OrderTypes, AboutOrders, RowsExplained
<1>3. QED BY <1>2 DEF OrderInv

-----------------------------------------------------------------------------
(* warehouse.service.ts: the inductive invariant *)

StockInv ==
  /\ inventory \in [Warehouses -> [Skus -> Nat]]
  /\ currentUnits \in [Warehouses -> Nat]
  /\ upsert \in [Upserts -> [at : {"none", "sum", "done"}, warehouse : Warehouses \cup {None}]]
  /\ \A k \in Upserts : upsert[k].at = "sum" => upsert[k].warehouse \in Warehouses
  /\ O!UnitsAddUp

-----------------------------------------------------------------------------

LEMMA LinesAddUp ==
  ASSUME NEW lines \in [Skus -> Nat]
  PROVE  O!TotalOf(lines) = SumOver(lines, Skus) /\ O!TotalOf(lines) \in Nat
<1>1. O!TotalOf(lines) = SumOver(lines, Skus)
  BY DEF O!TotalOf, O!MapThenFoldSet, SumOver, IsSum, Picked
<1>2. SumOver(lines, Skus) \in Nat
  BY OrderConstants, SumOverIsNat
<1>3. QED BY <1>1, <1>2

LEMMA InitStock == Init => StockInv
<1> SUFFICES ASSUME O!OrdersInit PROVE StockInv
  BY DEF Init
<1>1. /\ inventory = [w \in Warehouses |-> [s \in Skus |-> 0]] /\ currentUnits = [w \in Warehouses |-> 0]
      /\ upsert = [k \in Upserts |-> [at |-> "none", warehouse |-> None]]
  BY DEF O!OrdersInit
<1>2. O!TotalOf([s \in Skus |-> 0]) = 0
  BY OrderConstants, LinesAddUp, SumOfZeros
<1>3. O!UnitsAddUp
  BY <1>1, <1>2 DEF O!UnitsAddUp
<1>4. QED BY <1>1, <1>3 DEF StockInv

\* A PATCH of a line: from then on it is about to sum.
LEMMA LineStep ==
  ASSUME StockInv, NEW k \in Upserts, NEW w \in Warehouses, NEW s \in Skus, NEW q \in Quantities,
         O!SetLine(k, w, s, q)
  PROVE  StockInv'
<1>1. /\ upsert[k].at = "none" /\ inventory' = [inventory EXCEPT ![w][s] = q]
      /\ upsert' = [upsert EXCEPT ![k] = [at |-> "sum", warehouse |-> w]]
      /\ UNCHANGED <<currentUnits, unsynced>>
  BY DEF O!SetLine
<1>2. /\ inventory \in [Warehouses -> [Skus -> Nat]]
      /\ upsert \in [Upserts -> [at : {"none", "sum", "done"}, warehouse : Warehouses \cup {None}]]
  BY DEF StockInv
<1>3. /\ inventory' \in [Warehouses -> [Skus -> Nat]]
      /\ \A x \in Warehouses \ {w} : inventory'[x] = inventory[x]
  BY <1>1, <1>2, OrderConstants
<1>4. /\ upsert' \in [Upserts -> [at : {"none", "sum", "done"}, warehouse : Warehouses \cup {None}]]
      /\ upsert'[k].at = "sum" /\ upsert'[k].warehouse = w
      /\ \A j \in Upserts \ {k} : upsert'[j] = upsert[j]
  BY <1>1, <1>2
<1>5. ASSUME NEW x \in Warehouses \ unsynced', currentUnits'[x] # O!TotalOf(inventory'[x])
      PROVE  \E j \in Upserts : upsert'[j].at = "sum" /\ upsert'[j].warehouse = x
  <2>1. CASE x = w
    BY <1>4, <2>1
  <2>2. CASE x # w
    <3>1. inventory'[x] = inventory[x] /\ currentUnits'[x] = currentUnits[x] /\ x \notin unsynced
      BY <1>1, <1>3, <2>2
    <3>2. PICK j \in Upserts : upsert[j].at = "sum" /\ upsert[j].warehouse = x
      BY <1>5, <3>1 DEF StockInv, O!UnitsAddUp
    <3>3. QED BY <1>1, <1>4, <3>2
  <2>3. QED BY <2>1, <2>2
<1>6. O!UnitsAddUp'
  BY <1>5 DEF O!UnitsAddUp
<1>7. \A j \in Upserts : upsert'[j].at = "sum" => upsert'[j].warehouse \in Warehouses
  BY <1>4 DEF StockInv
<1>8. QED BY <1>1, <1>3, <1>4, <1>6, <1>7 DEF StockInv

\* The sum, or its failure: who was about to sum for another warehouse still is.
LEMMA SyncStep ==
  ASSUME StockInv, NEW k \in Upserts, O!SyncUnits(k) \/ O!SyncFails(k)
  PROVE  StockInv'
<1>1. PICK w \in Warehouses : w = upsert[k].warehouse
  BY DEF O!SyncUnits, O!SyncFails, StockInv
<1>2. /\ upsert[k].at = "sum" /\ upsert' = [upsert EXCEPT ![k].at = "done"] /\ inventory' = inventory
      /\ \/ /\ currentUnits' = [currentUnits EXCEPT ![w] = O!TotalOf(inventory[w])]
            /\ unsynced' = unsynced \ {w}
         \/ currentUnits' = currentUnits /\ unsynced' = unsynced \cup {w}
  BY <1>1 DEF O!SyncUnits, O!SyncFails
<1>3. /\ inventory \in [Warehouses -> [Skus -> Nat]] /\ currentUnits \in [Warehouses -> Nat]
      /\ upsert \in [Upserts -> [at : {"none", "sum", "done"}, warehouse : Warehouses \cup {None}]]
  BY DEF StockInv
<1>4. PICK total : total = O!TotalOf(inventory[w])
  OBVIOUS
<1>5. total \in Nat
  BY <1>3, <1>4, LinesAddUp
<1>6. /\ currentUnits' \in [Warehouses -> Nat]
      /\ w \in unsynced' \/ currentUnits'[w] = total
      /\ \A x \in Warehouses \ {w} : currentUnits'[x] = currentUnits[x] /\ (x \in unsynced' <=> x \in unsynced)
  BY <1>2, <1>3, <1>4, <1>5
<1>7. PICK done : done = [upsert[k] EXCEPT !.at = "done"]
  OBVIOUS
<1>8. done \in [at : {"none", "sum", "done"}, warehouse : Warehouses \cup {None}] /\ done.at = "done"
  BY <1>3, <1>7
<1>9. upsert' = [upsert EXCEPT ![k] = done]
  BY <1>2, <1>3, <1>7
<1>10. /\ upsert' \in [Upserts -> [at : {"none", "sum", "done"}, warehouse : Warehouses \cup {None}]]
       /\ upsert'[k].at = "done" /\ \A j \in Upserts \ {k} : upsert'[j] = upsert[j]
  BY <1>3, <1>8, <1>9
<1>11. ASSUME NEW x \in Warehouses \ unsynced', currentUnits'[x] # O!TotalOf(inventory[x])
       PROVE  \E j \in Upserts : upsert'[j].at = "sum" /\ upsert'[j].warehouse = x
  <2>1. x # w
    BY <1>4, <1>6, <1>11
  <2>2. PICK j \in Upserts : upsert[j].at = "sum" /\ upsert[j].warehouse = x
    BY <1>6, <1>11, <2>1 DEF StockInv, O!UnitsAddUp
  <2>3. j # k
    BY <1>1, <2>1, <2>2
  <2>4. QED BY <1>10, <2>2, <2>3
<1>12. O!UnitsAddUp'
  BY <1>2, <1>11 DEF O!UnitsAddUp
<1>13. \A j \in Upserts : upsert'[j].at = "sum" => upsert'[j].warehouse \in Warehouses
  BY <1>10 DEF StockInv
<1>14. QED BY <1>2, <1>3, <1>6, <1>10, <1>12, <1>13 DEF StockInv

LEMMA StockStutter ==
  ASSUME StockInv, UNCHANGED <<inventory, currentUnits, upsert, unsynced>>
  PROVE  StockInv'
BY DEF StockInv, O!UnitsAddUp

LEMMA OrdersStep ==
  ASSUME OrderInv, StockInv, O!OrdersNext
  PROVE  OrderInv' /\ StockInv'
<1> USE DEF O!allocVars, O!stockVars
<1>1. ASSUME NEW a \in Allocations,
             \/ \E o \in Orders : O!ReallocateOrder(a, o) \/ \E located \in BOOLEAN : O!CreateOrder(a, o, located)
             \/ O!ReadWarehouses(a) \/ O!UpdateOrder(a) \/ O!RecordDecision(a) \/ O!AllocationFails(a)
      PROVE  OrderInv' /\ StockInv'
  <2>1. UNCHANGED <<inventory, currentUnits, upsert, unsynced>>
    BY <1>1 DEF O!ReallocateOrder, O!CreateOrder, O!ReadWarehouses, O!UpdateOrder, O!RecordDecision,
                O!AllocationFails
  <2>2. StockInv'
    BY <2>1, StockStutter
  <2>3. QED BY <1>1, <2>2, BeginningStep, UpdateStep, DecisionStep, FailingStep
<1>2. ASSUME NEW o \in Orders, O!RouteOrder(o) PROVE OrderInv' /\ StockInv'
  <2>1. UNCHANGED <<inventory, currentUnits, upsert, unsynced>>
    BY <1>2 DEF O!RouteOrder
  <2>2. QED BY <1>2, <2>1, RouteOrderStep, StockStutter
<1>3. ASSUME NEW k \in Upserts, O!SyncUnits(k) \/ O!SyncFails(k) PROVE OrderInv' /\ StockInv'
  <2>1. UNCHANGED <<orders, decisions, allocation, crossed>>
    BY <1>3 DEF O!SyncUnits, O!SyncFails
  <2>2. QED BY <1>3, <2>1, SyncStep, OrderStutter
<1>4. ASSUME NEW k \in Upserts, NEW w \in Warehouses, NEW s \in Skus, NEW q \in Quantities,
             O!SetLine(k, w, s, q)
      PROVE  OrderInv' /\ StockInv'
  <2>1. UNCHANGED <<orders, decisions, allocation, crossed>>
    BY <1>4 DEF O!SetLine
  <2>2. QED BY <1>4, <2>1, LineStep, OrderStutter
<1>5. QED BY <1>1, <1>2, <1>3, <1>4 DEF O!OrdersNext

\* order.service.ts and warehouse.service.ts: the latest decision on an order says which warehouse its
\* row has, and current_units is the sum of a warehouse's lines, but for the overlaps and failures the
\* property names: for any number of orders, runs, warehouses and lines.
THEOREM OrdersAgree == Spec => []OrdersConsistent
<1> DEFINE Inv == part = "orders" => OrderInv /\ StockInv
<1>1. Init => Inv
  BY InitOrders, InitStock
<1>2. Inv /\ [Next]_vars => Inv'
  <2>1. ASSUME part = "orders", OrderInv, StockInv, [Next]_vars PROVE OrderInv' /\ StockInv'
    <3>1. CASE Next
      BY <2>1, <3>1, OrdersStep DEF Next
    <3>2. CASE UNCHANGED vars
      BY <2>1, <3>2, OrderStutter, StockStutter DEF vars, orderVars
    <3>3. QED BY <2>1, <3>1, <3>2
  <2>2. [Next]_vars => part' = part
    BY DEF Next, Others, vars
  <2>3. QED BY <2>1, <2>2
<1>3. Inv => OrdersConsistent
  <2>1. ASSUME OrderInv, StockInv PROVE O!LatestDecisionIsTheRow /\ O!UnitsAddUp
    BY <2>1 DEF OrderInv, RowsExplained, Assigned, O!LatestDecisionIsTheRow, StockInv
  <2>2. QED BY <2>1 DEF OrdersConsistent
<1>4. QED BY <1>1, <1>2, <1>3, PTL DEF Spec
=============================================================================
