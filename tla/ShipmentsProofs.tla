--------------------------- MODULE ShipmentsProofs ---------------------------
(***************************************************************************)
(* Theorems about Shipments and its event log for every number of          *)
(* requests, readers, failures, edits and deletions: what verification     *)
(* reports is justified, the cached state is current unless it was         *)
(* overtaken, and the row agrees with the log.                             *)
(***************************************************************************)
EXTENDS Shipments, SequenceTheorems, FiniteSetTheorems, WellFoundedInduction, TLAPS

Chains == Seq(Appends \X Kinds)
Hashes == {None} \cup Chains

\* The hash stored for the event before the i-th.
Before(i) == IF i = 1 THEN Genesis ELSE log[i - 1].hash

\* A hash that is there was computed from an event of this id and kind.
HashOf(hash, a, k) == hash # None => \E p \in Chains : hash = Append(p, <<a, k>>)

-----------------------------------------------------------------------------
(* The inductive invariants *)

\* What the log holds of each append: nothing before its INSERT, no hash before its UPDATE,
\* then a hash of what it was called with; its kind differs from that iff it was edited.
Contents ==
  /\ \A a \in Appends : op[a] \in {"idle", "insert"} => a \notin edited
  /\ \A i \in Logged :
       /\ op[log[i].id] \notin {"idle", "insert"}
       /\ op[log[i].id] = "hash" => log[i].hash = None
       /\ HashOf(log[i].hash, log[i].id, kind[log[i].id])
       /\ log[i].kind = kind[log[i].id] <=> log[i].id \notin edited

LogOK ==
  /\ log \in Seq(Row)
  /\ \A i, k \in Logged : log[i].id = log[k].id => i = k
  /\ op \in [Appends -> {"idle", "insert", "hash", "invalidate", "done", "failed"}]
  /\ kind \in [Appends -> Kinds \cup {None}]
  /\ \A a \in Appends : op[a] # "idle" => kind[a] # None
  /\ prev \in [Appends -> Seq(Appends \X Kinds)]
  /\ edited \subseteq Appends
  /\ Contents

\* The last event has its hash, so that the next can be chained to it.
Chainable == log # <<>> => log[Len(log)].hash # None

\* An append that overlaps no other has read the hash its event will follow.
AloneReads(a) ==
  op[a] = "insert" /\ a \notin contended =>
    /\ Appending = {a}
    /\ edited = {} /\ trims = 0 => Chainable /\ prev[a] = LastHash

\* ... and its event is the last one until it has its hash, and fine from then on.
AloneWrites(i) ==
  log[i].id \notin contended /\ edited = {} /\ trims = 0 =>
    \/ /\ op[log[i].id] = "hash" /\ Appending = {log[i].id}
       /\ i = Len(log) /\ prev[log[i].id] = Before(i) /\ Before(i) # None
    \/ op[log[i].id] \in {"invalidate", "done"} /\ Fine(i)

Chained == /\ \A a \in Appends : AloneReads(a)
           /\ \A i \in Logged : AloneWrites(i)

RestOK ==
  /\ cache \in ShipmentState \cup {None}
  /\ reader \in [Readers -> {"idle", "replay", "fill"}]
  /\ view \in [Readers -> ShipmentState \cup {None}]
  /\ contended \subseteq Appends
  /\ overtaken \in BOOLEAN
  /\ trims \in Nat /\ failures \in Nat

LogInv == LogOK /\ RestOK /\ Chained /\ CachedIsCurrent

\* What an append has inserted stays until something is deleted.
Kept == \A a \in Appends : op[a] \in {"hash", "invalidate", "done"} => InLog(a) \/ trims > 0

\* How far a request has come, and what it has left behind.
RequestOK(a) ==
  /\ handler[a] \in {"none", "created"} => op[a] = "idle"
  /\ handler[a] = "recording" <=> op[a] \in {"insert", "hash", "invalidate"}
  /\ handler[a] = "created" => what[a] = "create"
  /\ handler[a] = "flag" => what[a] = "exception"
  /\ handler[a] = "flag" \/ (handler[a] = "answered" /\ what[a] # "location") =>
       op[a] = "done"
  /\ handler[a] # "none" /\ what[a] = "exception" => row # None
  /\ what[a] = "exception" /\ handler[a] = "answered" => row.exceptionFlag

Flagged ==
  row # None /\ row.exceptionFlag =>
    trims > 0 \/ \E b \in Appends : what[b] = "exception" /\ InLog(b)

ShipInv ==
  /\ LogInv /\ Kept
  /\ row \in [status : {"pending"}, exceptionFlag : BOOLEAN] \cup {None}
  /\ what \in [Appends -> {None, "create", "event", "exception", "location"}]
  /\ handler \in [Appends -> {"none", "created", "recording", "flag", "answered", "failed"}]
  /\ \A a \in Appends : RequestOK(a)
  /\ Flagged

-----------------------------------------------------------------------------
(* Lemmas about the operators of the log *)

\* A set of places in the log has a first one, and a last one.
LEMMA FirstOf ==
  ASSUME NEW S \in SUBSET Nat, S # {}
  PROVE  \E i \in S : \A k \in S : i <= k
<1>1. PICK i \in S : \A k \in S : ~ (<<k, i>> \in OpToRel(<, Nat))
  BY NatLessThanWellFounded, WFMin
<1>2. \A k \in S : ~ (k < i)
  BY <1>1 DEF OpToRel
<1>3. QED BY <1>2

LEMMA LastOfPlaces ==
  ASSUME NEW n \in Nat, NEW S \in SUBSET (1 .. n), S # {}
  PROVE  \E i \in S : \A k \in S : k <= i
<1> DEFINE T == {n - i : i \in S}
<1>1. \A k \in S : k \in Nat /\ n - k \in Nat /\ n - k \in T
  OBVIOUS
<1>2. T \in SUBSET Nat /\ T # {}
  BY <1>1
<1>3. PICK d \in T : \A e \in T : d <= e
  BY <1>2, FirstOf
<1>4. PICK i \in S : d = n - i
  BY <1>3
<1>5. ASSUME NEW k \in S PROVE k <= i
  <2>1. n - i <= n - k
    BY <1>1, <1>3, <1>4
  <2>2. QED BY <1>1, <2>1
<1>6. QED BY <1>5

LEMMA LoggedRows ==
  ASSUME log \in Seq(Row)
  PROVE  /\ Len(log) \in Nat /\ Logged = 1 .. Len(log)
         /\ \A i \in Logged : /\ log[i] \in Row /\ log[i].id \in Appends
                              /\ log[i].kind \in Kinds /\ log[i].hash \in Hashes
<1>1. Len(log) \in Nat /\ Logged = 1 .. Len(log)
  BY LenProperties DEF Logged
<1>2. \A i \in Logged : log[i] \in Row
  BY <1>1, ElementOfSeq
<1>3. QED BY <1>1, <1>2 DEF Row, Hashes, Chains

\* computeEventHash gives a hash, the same for the same content after the same hash only.
LEMMA HashChains ==
  ASSUME NEW p \in Chains, NEW a \in Appends, NEW k \in Kinds
  PROVE  Append(p, <<a, k>>) \in Chains /\ Append(p, <<a, k>>) # None
<1>1. Append(p, <<a, k>>) \in Chains
  BY DEF Chains
<1>2. QED BY <1>1, ConstantsOK DEF Chains

LEMMA HashTells ==
  ASSUME NEW p \in Chains, NEW q \in Chains, NEW a \in Appends, NEW k \in Kinds,
         NEW b \in Appends, NEW j \in Kinds, Append(p, <<a, k>>) = Append(q, <<b, j>>)
  PROVE  p = q /\ a = b /\ k = j
<1>1. <<a, k>> \in Appends \X Kinds /\ <<b, j>> \in Appends \X Kinds
  OBVIOUS
<1>2. p = q /\ <<a, k>> = <<b, j>>
  BY <1>1, AppendInjective DEF Chains
<1>3. QED BY <1>2

\* The INSERT, the UPDATE of a hash, and the deletion of the oldest row.
LEMMA Inserted ==
  ASSUME log \in Seq(Row), NEW a \in Appends, kind[a] \in Kinds
  PROVE  LET new == Append(log, NewRow(a)) IN
         /\ new \in Seq(Row) /\ Len(new) = Len(log) + 1 /\ DOMAIN new = 1 .. Len(log) + 1
         /\ \A i \in 1 .. Len(log) : new[i] = log[i]
         /\ new[Len(log) + 1] = NewRow(a)
<1>1. NewRow(a) \in Row
  BY DEF NewRow, Row
<1>2. QED BY <1>1, AppendProperties, LenProperties

LEMMA Rehashed ==
  ASSUME NEW r \in Row, NEW h \in Hashes
  PROVE  LET new == [r EXCEPT !.hash = h]
         IN  new \in Row /\ new.id = r.id /\ new.kind = r.kind /\ new.hash = h
BY DEF Row, Hashes, Chains

LEMMA HashWritten ==
  ASSUME log \in Seq(Row), NEW a \in Appends, kind[a] \in Kinds, prev[a] \in Chains
  PROVE  LET new == WithHash(a)
             hash == Append(prev[a], <<a, kind[a]>>)
         IN
         /\ hash \in Chains /\ hash # None
         /\ new \in Seq(Row) /\ Len(new) = Len(log) /\ DOMAIN new = Logged
         /\ \A i \in Logged :
              /\ new[i].id = log[i].id /\ new[i].kind = log[i].kind
              /\ new[i].hash = IF log[i].id = a THEN hash ELSE log[i].hash
<1> DEFINE new == WithHash(a)
           hash == Append(prev[a], <<a, kind[a]>>)
<1>1. hash \in Chains /\ hash # None
  BY HashChains
<1>2. Hash(NewRow(a), prev[a]) = hash
  BY DEF Hash, NewRow
<1>3. \A i \in Logged : new[i] = IF log[i].id = a THEN [log[i] EXCEPT !.hash = hash] ELSE log[i]
  BY <1>2 DEF WithHash
<1>4. ASSUME NEW i \in Logged
      PROVE  /\ new[i] \in Row /\ new[i].id = log[i].id /\ new[i].kind = log[i].kind
             /\ new[i].hash = IF log[i].id = a THEN hash ELSE log[i].hash
  <2>1. log[i] \in Row
    BY LoggedRows
  <2>2. hash \in Hashes
    BY <1>1 DEF Hashes
  <2>3. CASE log[i].id = a
    <3>1. new[i] = [log[i] EXCEPT !.hash = hash]
      BY <1>3, <2>3
    <3>2. /\ [log[i] EXCEPT !.hash = hash] \in Row
          /\ [log[i] EXCEPT !.hash = hash].id = log[i].id
          /\ [log[i] EXCEPT !.hash = hash].kind = log[i].kind
          /\ [log[i] EXCEPT !.hash = hash].hash = hash
      BY <2>1, <2>2, Rehashed
    <3> HIDE DEF new, hash
    <3>3. QED BY <2>3, <3>1, <3>2
  <2>4. CASE log[i].id # a
    BY <1>3, <2>1, <2>4
  <2>5. QED BY <2>3, <2>4
<1>5. DOMAIN new = 1 .. Len(log) /\ Logged = 1 .. Len(log) /\ Len(log) \in Nat
  BY LoggedRows DEF WithHash
<1>6. new \in [1 .. Len(log) -> Row]
  BY <1>4, <1>5 DEF WithHash
<1>7. new \in Seq(Row) /\ Len(new) = Len(log)
  BY <1>5, <1>6, SeqDef
<1>8. QED BY <1>1, <1>4, <1>5, <1>7

LEMMA Trimmed ==
  ASSUME log \in Seq(Row), log # <<>>
  PROVE  /\ Tail(log) \in Seq(Row) /\ Len(Tail(log)) = Len(log) - 1
         /\ DOMAIN Tail(log) = 1 .. Len(log) - 1 /\ Len(log) >= 1
         /\ \A i \in 1 .. Len(log) - 1 : Tail(log)[i] = log[i + 1]
<1>1. Len(log) \in Nat /\ Len(log) # 0
  BY EmptySeq, LenProperties
<1>2. QED BY <1>1, HeadTailProperties, LenProperties

LEMMA ReducedType ==
  ASSUME log \in Seq(Row)
  PROVE  Reduced \in ShipmentState
<1>1. /\ Len(log) \in Nat /\ Logged = 1 .. Len(log)
      /\ \A i \in Logged : log[i].id \in Appends /\ log[i].kind \in Kinds
  BY LoggedRows
<1>2. (IF log = <<>> THEN Created ELSE log[Len(log)].kind) \in Kinds \cup {Created}
  <2>1. log # <<>> => Len(log) \in Logged
    BY <1>1, EmptySeq
  <2>2. QED BY <1>1, <2>1
<1>3. LastOf("delivered") \in Appends \cup {None}
  <2> DEFINE S == {i \in Logged : log[i].kind = "delivered"}
  <2>1. CASE S = {}
    BY <2>1 DEF LastOf
  <2>2. CASE S # {}
    <3>1. S \in SUBSET (1 .. Len(log))
      BY <1>1
    <3>2. \E i \in S : \A k \in S : k <= i
      BY <1>1, <2>2, <3>1, LastOfPlaces
    <3>3. (CHOOSE i \in S : \A k \in S : k <= i) \in S
      BY <3>2
    <3>4. LastOf("delivered") = log[CHOOSE i \in S : \A k \in S : k <= i].id
      BY <2>2 DEF LastOf
    <3>5. QED BY <1>1, <3>3, <3>4
  <2>3. QED BY <2>1, <2>2
<1>4. (\E i \in Logged : log[i].kind = "exception") \in BOOLEAN
  OBVIOUS
<1>5. QED BY <1>1, <1>2, <1>3, <1>4 DEF Reduced, ShipmentState

\* The replayed state depends on the ids and kinds of the events only.
LEMMA ReducedKept ==
  ASSUME log \in Seq(Row), log' \in Seq(Row), Len(log') = Len(log),
         \A i \in Logged : log'[i].id = log[i].id /\ log'[i].kind = log[i].kind
  PROVE  Reduced' = Reduced
<1>1. /\ Len(log) \in Nat /\ Logged = 1 .. Len(log) /\ Logged' = 1 .. Len(log)
  BY LenProperties DEF Logged
<1>2. log = <<>> <=> log' = <<>>
  BY <1>1, EmptySeq
<1>3. (IF log = <<>> THEN Created ELSE log[Len(log)].kind)' =
      (IF log = <<>> THEN Created ELSE log[Len(log)].kind)
  <2>1. log # <<>> => Len(log) \in Logged
    BY <1>1, EmptySeq
  <2>2. QED BY <1>2, <2>1
<1>4. LastOf("delivered")' = LastOf("delivered")
  <2> DEFINE S == {i \in Logged : log[i].kind = "delivered"}
             last == CHOOSE i \in S : \A k \in S : k <= i
  <2>1. S' = S
    BY <1>1
  <2>2. S # {} => last \in Logged /\ last' = last
    <3>1. SUFFICES ASSUME S # {} PROVE last \in Logged /\ last' = last
      OBVIOUS
    <3>2. S \in SUBSET (1 .. Len(log))
      BY <1>1
    <3>3. \E i \in S : \A k \in S : k <= i
      BY <1>1, <3>1, <3>2, LastOfPlaces
    <3>4. last \in S
      BY <3>3
    <3>5. QED BY <2>1, <3>4
  <2>3. /\ LastOf("delivered") = IF S = {} THEN None ELSE log[last].id
        /\ LastOf("delivered")' = IF S' = {} THEN None ELSE log'[last'].id
    BY DEF LastOf
  <2> HIDE DEF S, last
  <2>4. QED BY <2>1, <2>2, <2>3
<1>5. (\E i \in Logged : log[i].kind = "exception")' = (\E i \in Logged : log[i].kind = "exception")
  BY <1>1
<1>6. QED BY <1>3, <1>4, <1>5 DEF Reduced

-----------------------------------------------------------------------------
(* The log: types and contents *)

LEMMA StartLog ==
  ASSUME LogOK, NEW a \in Appends, NEW type \in Kinds, Start(a, type)
  PROVE  LogOK'
<1>1. LastHash \in Chains
  <2>1. <<>> \in Chains
    BY EmptySeq DEF Chains
  <2>2. log # <<>> => Len(log) \in Logged
    BY LoggedRows, EmptySeq DEF LogOK
  <2>3. \A i \in Logged : log[i].hash \in Hashes
    BY LoggedRows DEF LogOK
  <2>4. QED BY <2>1, <2>2, <2>3 DEF LastHash, Genesis, Hashes
<1>2. /\ \A i \in Logged : log[i].id \in Appends /\ log[i].id # a
      /\ log' = log /\ edited' = edited /\ op[a] = "idle"
      /\ \A b \in Appends : op'[b] = (IF b = a THEN "insert" ELSE op[b])
                            /\ kind'[b] = IF b = a THEN type ELSE kind[b]
  BY LoggedRows DEF Start, Goto, LogOK, Contents
<1>3. Contents'
  BY <1>2 DEF LogOK, Contents, Logged
<1>4. op' \in [Appends -> {"idle", "insert", "hash", "invalidate", "done", "failed"}]
  BY DEF Start, Goto, LogOK
<1>5. kind' \in [Appends -> Kinds \cup {None}] /\ \A b \in Appends : op'[b] # "idle" => kind'[b] # None
  BY <1>2, ConstantsOK DEF Start, LogOK
<1>6. prev' \in [Appends -> Seq(Appends \X Kinds)]
  BY <1>1 DEF Start, LogOK, Chains
<1>7. QED BY <1>2, <1>3, <1>4, <1>5, <1>6 DEF LogOK, Logged

\* The INSERT takes effect, as in Insert and AppendFails.
LEMMA InsertLog ==
  ASSUME LogOK, NEW a \in Appends, NEW step \in {"hash", "failed"}, op[a] = "insert",
         Goto(a, step), log' = Append(log, NewRow(a)), UNCHANGED <<kind, prev, edited>>
  PROVE  LogOK'
<1>1. kind[a] \in Kinds
  BY DEF LogOK
<1>2. /\ Len(log) \in Nat /\ Logged = 1 .. Len(log)
      /\ \A i \in Logged : log[i].id \in Appends /\ log[i].id # a
  BY LoggedRows DEF LogOK, Contents
<1>3. /\ log' \in Seq(Row) /\ Logged' = 1 .. Len(log) + 1
      /\ \A i \in 1 .. Len(log) : log'[i] = log[i]
      /\ log'[Len(log) + 1] = NewRow(a)
  BY <1>1, Inserted DEF LogOK, Logged
<1>4. NewRow(a).id = a /\ NewRow(a).kind = kind[a] /\ NewRow(a).hash = None
  BY DEF NewRow
<1>5. /\ op' \in [Appends -> {"idle", "insert", "hash", "invalidate", "done", "failed"}]
      /\ \A b \in Appends : op'[b] = IF b = a THEN step ELSE op[b]
  BY DEF Goto, LogOK
<1>6. \A i \in Logged' : i \in Logged \/ i = Len(log) + 1
  BY <1>2, <1>3
<1>7. \A i, k \in Logged' : log'[i].id = log'[k].id => i = k
  <2>1. ASSUME NEW i \in Logged, NEW k \in Logged, log'[i].id = log'[k].id PROVE i = k
    BY <1>2, <1>3, <2>1 DEF LogOK
  <2>2. ASSUME NEW i \in Logged, NEW k \in Logged', k \notin Logged
        PROVE  log'[i].id # log'[k].id
    BY <1>2, <1>3, <1>4, <1>6, <2>2
  <2>3. ASSUME NEW i \in Logged', NEW k \in Logged', i \notin Logged, k \notin Logged PROVE i = k
    BY <1>6, <2>3
  <2>4. QED BY <2>1, <2>2, <2>3
<1>8. a \notin edited
  BY DEF LogOK, Contents
<1>9. Contents'
  <2>1. \A b \in Appends : op'[b] \in {"idle", "insert"} => b \notin edited'
    BY <1>5 DEF LogOK, Contents
  <2>2. ASSUME NEW i \in Logged'
        PROVE  /\ op'[log'[i].id] \notin {"idle", "insert"}
               /\ op'[log'[i].id] = "hash" => log'[i].hash = None
               /\ HashOf(log'[i].hash, log'[i].id, kind'[log'[i].id])
               /\ log'[i].kind = kind'[log'[i].id] <=> log'[i].id \notin edited'
    <3>1. CASE i \in Logged
      BY <1>2, <1>3, <1>5, <3>1 DEF LogOK, Contents
    <3>2. CASE i = Len(log) + 1
      BY <1>3, <1>4, <1>5, <1>8, <3>2 DEF HashOf
    <3>3. QED BY <1>6, <3>1, <3>2
  <2>3. QED BY <2>1, <2>2 DEF Contents
<1>10. QED BY <1>3, <1>5, <1>7, <1>9 DEF LogOK

\* The UPDATE of the hash takes effect, as in WriteHash and AppendFails.
LEMMA WriteLog ==
  ASSUME LogOK, NEW a \in Appends, NEW step \in {"invalidate", "failed"}, op[a] = "hash",
         Goto(a, step), log' = WithHash(a), UNCHANGED <<kind, prev, edited>>
  PROVE  LogOK'
<1>1. kind[a] \in Kinds /\ prev[a] \in Chains
  BY DEF LogOK, Chains
<1>2. /\ Logged = 1 .. Len(log) /\ \A i \in Logged : log[i].id \in Appends
  BY LoggedRows DEF LogOK
<1>3. PICK hash : hash = Append(prev[a], <<a, kind[a]>>)
  OBVIOUS
<1>4. /\ log' \in Seq(Row) /\ Logged' = Logged
      /\ \A i \in Logged : /\ log'[i].id = log[i].id /\ log'[i].kind = log[i].kind
                           /\ log'[i].hash = IF log[i].id = a THEN hash ELSE log[i].hash
  <2>1. log \in Seq(Row)
    BY DEF LogOK
  <2>2. DOMAIN log' = Logged
    BY <1>1, <2>1, HashWritten
  <2>3. QED BY <1>1, <1>3, <2>1, <2>2, HashWritten DEF Logged
<1>5. /\ op' \in [Appends -> {"idle", "insert", "hash", "invalidate", "done", "failed"}]
      /\ \A b \in Appends : op'[b] = IF b = a THEN step ELSE op[b]
  BY DEF Goto, LogOK
<1>6. \A i, k \in Logged' : log'[i].id = log'[k].id => i = k
  BY <1>4 DEF LogOK
<1>7. Contents'
  <2>1. \A b \in Appends : op'[b] \in {"idle", "insert"} => b \notin edited'
    BY <1>5 DEF LogOK, Contents
  <2>2. ASSUME NEW i \in Logged'
        PROVE  /\ op'[log'[i].id] \notin {"idle", "insert"}
               /\ op'[log'[i].id] = "hash" => log'[i].hash = None
               /\ HashOf(log'[i].hash, log'[i].id, kind'[log'[i].id])
               /\ log'[i].kind = kind'[log'[i].id] <=> log'[i].id \notin edited'
    <3>1. i \in Logged
      BY <1>4
    <3>2. CASE log[i].id = a
      <4>1. /\ op'[a] = step /\ log'[i].id = a /\ log'[i].hash = hash /\ log'[i].kind = log[i].kind
        BY <1>4, <1>5, <3>1, <3>2
      <4>2. log[i].kind = kind[a] <=> a \notin edited
        BY <3>1, <3>2 DEF LogOK, Contents
      <4>3. HashOf(hash, a, kind[a])
        BY <1>1, <1>3 DEF HashOf
      <4>4. QED BY <4>1, <4>2, <4>3
    <3>3. CASE log[i].id # a
      <4>1. PICK b \in Appends : b = log[i].id
        BY <1>2, <3>1
      <4>2. /\ log'[i].id = b /\ log'[i].kind = log[i].kind /\ log'[i].hash = log[i].hash
            /\ op'[b] = op[b] /\ kind' = kind /\ edited' = edited
        BY <1>4, <1>5, <3>1, <3>3, <4>1
      <4>3. QED BY <3>1, <4>1, <4>2 DEF LogOK, Contents
    <3>4. QED BY <3>2, <3>3
  <2>3. QED BY <2>1, <2>2 DEF Contents
<1>8. QED BY <1>4, <1>5, <1>6, <1>7 DEF LogOK

\* A call ends, or goes on to its last statement, without effect on the log.
LEMMA EndLog ==
  ASSUME LogOK, NEW a \in Appends, NEW step \in {"done", "failed"}, op[a] # "idle",
         Goto(a, step), UNCHANGED <<log, kind, prev, edited>>
  PROVE  LogOK'
<1>1. /\ op' \in [Appends -> {"idle", "insert", "hash", "invalidate", "done", "failed"}]
      /\ \A b \in Appends : op'[b] = IF b = a THEN step ELSE op[b]
  BY DEF Goto, LogOK
<1>2. \A i \in Logged : log[i].id \in Appends
  BY LoggedRows DEF LogOK
<1>3. Contents'
  BY <1>1, <1>2 DEF LogOK, Contents, Logged
<1>4. QED BY <1>1, <1>3 DEF LogOK, Logged

LEMMA EditLog ==
  ASSUME LogOK, NEW i \in Logged, NEW type \in Kinds, Edit(i, type)
  PROVE  /\ LogOK'
         /\ Logged' = Logged
         /\ \A k \in Logged : log'[k].id = log[k].id /\ log'[k].hash = log[k].hash
<1>1. /\ Logged = 1 .. Len(log) /\ \A k \in Logged : log[k] \in Row /\ log[k].id \in Appends
  BY LoggedRows DEF LogOK
<1>2. log' = [log EXCEPT ![i] = [log[i] EXCEPT !.kind = type]]
  BY DEF Edit
<1>3. PICK new : new = [log[i] EXCEPT !.kind = type]
  OBVIOUS
<1>4. new \in Row /\ new.id = log[i].id /\ new.hash = log[i].hash /\ new.kind = type
  BY <1>1, <1>3 DEF Row
<1>5. /\ log' \in Seq(Row) /\ Logged' = Logged
      /\ \A k \in Logged : log'[k] = IF k = i THEN new ELSE log[k]
  BY <1>1, <1>2, <1>3, <1>4, ExceptSeq DEF LogOK, Logged
<1>6. \A k \in Logged : log'[k].id = log[k].id /\ log'[k].hash = log[k].hash
  BY <1>4, <1>5
<1>7. /\ UNCHANGED <<op, kind, prev>> /\ edited' = edited \cup {log[i].id}
      /\ type # log[i].kind /\ log[i].id \notin edited
  BY DEF Edit
<1>8. Contents'
  <2>1. \A b \in Appends : op'[b] \in {"idle", "insert"} => b \notin edited'
    BY <1>7 DEF LogOK, Contents
  <2>2. ASSUME NEW k \in Logged'
        PROVE  /\ op'[log'[k].id] \notin {"idle", "insert"}
               /\ op'[log'[k].id] = "hash" => log'[k].hash = None
               /\ HashOf(log'[k].hash, log'[k].id, kind'[log'[k].id])
               /\ log'[k].kind = kind'[log'[k].id] <=> log'[k].id \notin edited'
    <3>1. k \in Logged /\ (log[k].id = log[i].id <=> k = i)
      BY <1>5 DEF LogOK
    <3>2. QED BY <1>4, <1>5, <1>6, <1>7, <3>1 DEF LogOK, Contents
  <2>3. QED BY <2>1, <2>2 DEF Contents
<1>9. \A k, m \in Logged' : log'[k].id = log'[m].id => k = m
  BY <1>5, <1>6 DEF LogOK
<1>10. edited' \subseteq Appends
  BY <1>1, <1>7 DEF LogOK
<1>11. QED BY <1>5, <1>6, <1>7, <1>8, <1>9, <1>10 DEF LogOK

\* A change of event_status leaves whatever else the log holds, and all that is computed
\* from it: the invariants, the chain, the cached state.
LEMMA RestatedLog ==
  ASSUME LogOK, NEW i \in Logged, EditStatus(i)
  PROVE  /\ LogOK'
         /\ Logged' = Logged /\ Len(log') = Len(log) /\ (log' = <<>> <=> log = <<>>)
         /\ \A k \in Logged : /\ log'[k].id = log[k].id /\ log'[k].hash = log[k].hash
                              /\ log'[k].kind = log[k].kind
<1>1. /\ Len(log) \in Nat /\ Logged = 1 .. Len(log)
      /\ \A k \in Logged : log[k] \in Row /\ log[k].id \in Appends
  BY LoggedRows DEF LogOK
<1>2. log' = [log EXCEPT ![i] = [log[i] EXCEPT !.status = "changed"]]
  BY DEF EditStatus
<1>3. PICK new : new = [log[i] EXCEPT !.status = "changed"]
  OBVIOUS
<1>4. new \in Row /\ new.id = log[i].id /\ new.hash = log[i].hash /\ new.kind = log[i].kind
  BY <1>1, <1>3 DEF Row
<1>5. /\ log' \in Seq(Row) /\ Logged' = Logged /\ Len(log') = Len(log)
      /\ \A k \in Logged : log'[k] = IF k = i THEN new ELSE log[k]
  BY <1>1, <1>2, <1>3, <1>4, ExceptSeq DEF LogOK, Logged
<1>6. \A k \in Logged : /\ log'[k].id = log[k].id /\ log'[k].hash = log[k].hash
                        /\ log'[k].kind = log[k].kind
  BY <1>4, <1>5
<1>7. UNCHANGED <<op, kind, prev, edited>>
  BY DEF EditStatus, ghostVars
<1>8. Contents'
  <2>1. ASSUME NEW k \in Logged
        PROVE  /\ op[log'[k].id] \notin {"idle", "insert"}
               /\ op[log'[k].id] = "hash" => log'[k].hash = None
               /\ HashOf(log'[k].hash, log'[k].id, kind[log'[k].id])
               /\ log'[k].kind = kind[log'[k].id] <=> log'[k].id \notin edited
    BY <1>6, <2>1 DEF LogOK, Contents
  <2>2. QED BY <1>5, <1>7, <2>1 DEF LogOK, Contents
<1>9. \A k, m \in Logged' : log'[k].id = log'[m].id => k = m
  BY <1>5, <1>6 DEF LogOK
<1>10. log # <<>> /\ log' # <<>>
  BY <1>1, <1>5, EmptySeq DEF LogOK
<1>11. QED BY <1>5, <1>6, <1>7, <1>8, <1>9, <1>10 DEF LogOK

LEMMA RestatedReduced ==
  ASSUME LogOK, NEW i \in Logged, EditStatus(i)
  PROVE  Reduced' = Reduced
<1>1. /\ Logged' = Logged /\ Len(log') = Len(log) /\ (log' = <<>> <=> log = <<>>)
      /\ \A k \in Logged : log'[k].id = log[k].id /\ log'[k].kind = log[k].kind
  BY RestatedLog
<1>2. Len(log) \in Nat /\ Logged = 1 .. Len(log)
  BY LoggedRows DEF LogOK
<1>3. (IF log = <<>> THEN Created ELSE log[Len(log)].kind)' = IF log = <<>> THEN Created ELSE log[Len(log)].kind
  <2>1. log # <<>> => Len(log) \in Logged
    BY <1>2, EmptySeq DEF LogOK
  <2>2. QED BY <1>1, <2>1
<1>4. LastOf("delivered")' = LastOf("delivered")
  <2>1. {k \in Logged' : log'[k].kind = "delivered"} = {k \in Logged : log[k].kind = "delivered"}
    BY <1>1
  <2>2. PICK S \in SUBSET Logged : S = {k \in Logged : log[k].kind = "delivered"}
    OBVIOUS
  <2>3. CASE S = {}
    BY <2>1, <2>2, <2>3 DEF LastOf
  <2>4. CASE S # {}
    <3>1. \E k \in S : \A m \in S : m <= k
      BY <1>2, <2>4, LastOfPlaces
    <3>2. PICK last \in S : last = CHOOSE k \in S : \A m \in S : m <= k
      BY <3>1
    <3>3. LastOf("delivered") = log[last].id /\ LastOf("delivered")' = log'[last].id
      BY <2>1, <2>2, <2>4, <3>2 DEF LastOf
    <3>4. QED BY <1>1, <3>3
  <2>5. QED BY <2>3, <2>4
<1>5. (\E k \in Logged : log[k].kind = "exception")' <=> \E k \in Logged : log[k].kind = "exception"
  BY <1>1
<1>6. QED BY <1>1, <1>3, <1>4, <1>5 DEF Reduced

LEMMA TrimLog ==
  ASSUME LogOK, Trim
  PROVE  LogOK'
<1>1. /\ log' \in Seq(Row) /\ Logged' = 1 .. Len(log) - 1 /\ Len(log) >= 1
      /\ \A i \in Logged' : log'[i] = log[i + 1]
  BY Trimmed DEF Trim, LogOK, Logged
<1>2. /\ Len(log) \in Nat /\ Logged = 1 .. Len(log)
  BY LoggedRows DEF LogOK
<1>3. \A i \in Logged' : i + 1 \in Logged
  BY <1>1, <1>2
<1>4. UNCHANGED <<op, kind, prev, edited>>
  BY DEF Trim
<1>5. \A i, k \in Logged' : log'[i].id = log'[k].id => i = k
  <2>1. SUFFICES ASSUME NEW i \in Logged', NEW k \in Logged', log'[i].id = log'[k].id PROVE i = k
    OBVIOUS
  <2>2. i + 1 = k + 1
    BY <1>1, <1>3, <2>1 DEF LogOK
  <2>3. QED BY <1>1, <1>2, <2>2
<1>6. Contents'
  BY <1>1, <1>3, <1>4 DEF LogOK, Contents
<1>7. QED BY <1>1, <1>4, <1>5, <1>6 DEF LogOK

-----------------------------------------------------------------------------
(* The chain of hashes *)

LEMMA FineKept ==
  ASSUME NEW i \in Logged, log'[i] = log[i], i # 1 => log'[i - 1].hash = log[i - 1].hash
  PROVE  Fine(i)' <=> Fine(i)
BY DEF Fine, Hash

LEMMA GenesisIsNoNone == Genesis # None
BY ConstantsOK, EmptySeq DEF Genesis, Chains

LEMMA StartChained ==
  ASSUME LogOK, Chained, NEW b \in Appends, NEW type \in Kinds, Start(b, type)
  PROVE  Chained'
<1>1. /\ log' = log /\ edited' = edited /\ trims' = trims /\ op[b] = "idle"
      /\ \A a \in Appends : /\ op'[a] = IF a = b THEN "insert" ELSE op[a]
                            /\ prev'[a] = IF a = b THEN LastHash ELSE prev[a]
      /\ Appending # {} => Appending \cup {b} \subseteq contended'
      /\ contended \subseteq contended'
      /\ log # <<>> /\ log[Len(log)].hash = None => b \in contended'
  BY DEF Start, Goto, LogOK
<1>2. Appending' = Appending \cup {b}
  BY <1>1 DEF Appending
<1>3. \A i \in Logged : log[i].id \in Appends /\ log[i].id # b
  BY <1>1, LoggedRows DEF LogOK, Contents
<1>4. ASSUME NEW a \in Appends PROVE AloneReads(a)'
  <2>1. CASE a = b
    <3>1. SUFFICES ASSUME b \notin contended'
                   PROVE  /\ Appending' = {b}
                          /\ edited' = {} /\ trims' = 0 => Chainable' /\ prev'[b] = LastHash'
      BY <2>1 DEF AloneReads
    <3>2. QED BY <1>1, <1>2, <3>1 DEF Chainable, LastHash
  <2>2. CASE a # b
    BY <1>1, <2>2 DEF AloneReads, Appending
  <2>3. QED BY <2>1, <2>2
<1>5. ASSUME NEW i \in Logged' PROVE AloneWrites(i)'
  <2>1. i \in Logged /\ (Fine(i)' <=> Fine(i))
    BY <1>1, FineKept DEF Logged
  <2>2. AloneWrites(i)
    BY <2>1 DEF Chained
  <2>3. PICK a \in Appends : a = log[i].id
    BY <1>3, <2>1
  <2>4. op'[a] = op[a] /\ log'[i].id = a
    BY <1>1, <1>3, <2>1, <2>3
  <2>5. op[a] = "hash" => a \in contended'
    BY <1>1 DEF Appending
  <2>6. QED BY <1>1, <2>1, <2>2, <2>3, <2>4, <2>5 DEF AloneWrites
<1>6. QED BY <1>4, <1>5 DEF Chained

LEMMA InsertChained ==
  ASSUME LogOK, Chained, NEW b \in Appends, NEW step \in {"hash", "failed"}, op[b] = "insert",
         Goto(b, step), log' = Append(log, NewRow(b)), UNCHANGED <<kind, prev, edited, trims>>,
         contended \subseteq contended', step = "failed" => b \in contended'
  PROVE  Chained'
<1>1. kind[b] \in Kinds
  BY DEF LogOK
<1>2. /\ Len(log) \in Nat /\ Logged = 1 .. Len(log)
      /\ \A i \in Logged : log[i].id \in Appends /\ log[i].id # b
  BY LoggedRows DEF LogOK, Contents
<1>3. /\ Len(log') = Len(log) + 1 /\ Logged' = 1 .. Len(log) + 1
      /\ \A i \in 1 .. Len(log) : log'[i] = log[i]
      /\ log'[Len(log) + 1] = NewRow(b)
  BY <1>1, Inserted DEF LogOK, Logged
<1>4. \A a \in Appends : op'[a] = IF a = b THEN step ELSE op[a]
  BY DEF Goto, LogOK
<1>5. b \in Appending
  BY DEF Appending
<1>6. ASSUME NEW a \in Appends PROVE AloneReads(a)'
  BY <1>4, <1>5 DEF AloneReads, Chained
<1>7. ASSUME NEW i \in Logged PROVE AloneWrites(i)'
  <2>1. Fine(i)' <=> Fine(i)
    BY <1>2, <1>3, FineKept
  <2>2. AloneWrites(i)
    BY DEF Chained
  <2>3. PICK a \in Appends : a = log[i].id /\ a # b
    BY <1>2
  <2>4. op'[a] = op[a] /\ log'[i].id = a
    BY <1>2, <1>3, <1>4, <2>3
  <2>5. QED BY <1>5, <2>1, <2>2, <2>3, <2>4 DEF AloneWrites
<1>8. PICK n : n = Len(log) + 1
  OBVIOUS
<1>9. AloneWrites(n)'
  <2>1. log'[n].id = b
    BY <1>3, <1>8 DEF NewRow
  <2>2. SUFFICES ASSUME b \notin contended', edited = {}, trims = 0
                 PROVE  /\ op'[b] = "hash" /\ Appending' = {b}
                        /\ prev[b] = Before(n)' /\ Before(n)' # None
    BY <1>3, <1>8, <2>1 DEF AloneWrites
  <2>3. op'[b] = "hash"
    BY <1>4, <2>2
  <2>4. Appending = {b} /\ Chainable /\ prev[b] = LastHash
    BY <2>2 DEF AloneReads, Chained
  <2>5. Appending' = {b}
    BY <1>4, <2>3, <2>4 DEF Appending
  <2>6. prev[b] = Before(n)' /\ Before(n)' # None
    <3>1. CASE log = <<>>
      <4>1. n = 1
        BY <1>8, <3>1
      <4>2. QED BY <2>4, <3>1, <4>1, GenesisIsNoNone DEF Before, LastHash
    <3>2. CASE log # <<>>
      <4>1. Len(log) # 0
        BY <3>2, EmptySeq DEF LogOK
      <4>2. n # 1 /\ n - 1 = Len(log)
        BY <1>2, <1>8, <4>1
      <4>3. Before(n)' = log'[n - 1].hash
        BY <4>2 DEF Before
      <4>4. log'[n - 1] = log[Len(log)]
        BY <1>2, <1>3, <4>1, <4>2
      <4>5. QED BY <2>4, <3>2, <4>3, <4>4 DEF LastHash, Chainable
    <3>3. QED BY <3>1, <3>2
  <2>7. QED BY <2>3, <2>5, <2>6
<1>10. \A i \in Logged' : i \in Logged \/ i = n
  BY <1>2, <1>3, <1>8
<1>11. QED BY <1>6, <1>7, <1>9, <1>10 DEF Chained

LEMMA WriteChained ==
  ASSUME LogOK, Chained, NEW b \in Appends, NEW step \in {"invalidate", "failed"},
         op[b] = "hash", Goto(b, step), log' = WithHash(b), UNCHANGED <<kind, prev, edited, trims>>,
         contended \subseteq contended', step = "failed" => b \in contended'
  PROVE  Chained'
<1>1. kind[b] \in Kinds /\ prev[b] \in Chains
  BY DEF LogOK, Chains
<1>2. /\ Len(log) \in Nat /\ Logged = 1 .. Len(log)
      /\ \A i \in Logged : log[i].id \in Appends
  BY LoggedRows DEF LogOK
<1>3. PICK hash : hash = Append(prev[b], <<b, kind[b]>>)
  OBVIOUS
<1>4. /\ Logged' = Logged /\ Len(log') = Len(log) /\ hash # None
      /\ \A i \in Logged : /\ log'[i].id = log[i].id /\ log'[i].kind = log[i].kind
                           /\ log'[i].hash = IF log[i].id = b THEN hash ELSE log[i].hash
  <2>1. log \in Seq(Row)
    BY DEF LogOK
  <2>2. DOMAIN log' = Logged /\ Len(log') = Len(log)
    BY <1>1, <2>1, HashWritten
  <2>3. QED BY <1>1, <1>3, <2>1, <2>2, HashWritten DEF Logged
<1>5. \A a \in Appends : op'[a] = IF a = b THEN step ELSE op[a]
  BY DEF Goto, LogOK
<1>6. b \in Appending
  BY DEF Appending
<1>7. ASSUME NEW a \in Appends PROVE AloneReads(a)'
  BY <1>5, <1>6 DEF AloneReads, Chained
<1>8. ASSUME NEW i \in Logged PROVE AloneWrites(i)'
  <2>1. AloneWrites(i)
    BY DEF Chained
  <2>2. PICK a \in Appends : a = log[i].id
    BY <1>2
  <2>3. SUFFICES ASSUME a \notin contended', edited = {}, trims = 0
                 PROVE  op'[a] \in {"invalidate", "done"} /\ Fine(i)'
    BY <1>4, <2>2 DEF AloneWrites
  <2>4. a \notin contended
    BY <2>3
  <2>5. i # 1 => i - 1 \in Logged
    BY <1>2
  <2>6. CASE a = b
    <3>1. prev[b] = Before(i) /\ Before(i) # None
      BY <2>1, <2>2, <2>3, <2>4, <2>6 DEF AloneWrites
    <3>2. op'[a] = "invalidate"
      BY <1>5, <2>3, <2>6
    <3>3. Before(i)' = Before(i)
      <4>1. CASE i = 1
        BY <4>1 DEF Before
      <4>2. CASE i # 1
        <5>1. i - 1 # i /\ i - 1 \in Logged
          BY <1>2, <2>5, <4>2
        <5>2. log[i - 1].id # b
          BY <2>2, <2>6, <5>1 DEF LogOK
        <5>3. QED BY <1>4, <4>2, <5>1, <5>2 DEF Before
      <4>3. QED BY <4>1, <4>2
    <3>4. log'[i].kind = kind[b]
      BY <1>4, <2>2, <2>3, <2>6 DEF LogOK, Contents
    <3>5. log'[i].hash = Append(Before(i)', <<log'[i].id, log'[i].kind>>)
      BY <1>3, <1>4, <2>2, <2>6, <3>1, <3>3, <3>4
    <3>6. Fine(i)'
      BY <1>3, <1>4, <2>2, <2>6, <3>1, <3>3, <3>5 DEF Fine, Hash, Before
    <3>7. QED BY <3>2, <3>6
  <2>7. CASE a # b
    <3>1. op[a] \in {"invalidate", "done"} /\ Fine(i)
      BY <1>6, <2>1, <2>2, <2>3, <2>4, <2>7 DEF AloneWrites
    <3>2. log'[i].id = log[i].id /\ log'[i].kind = log[i].kind /\ log'[i].hash = log[i].hash
      BY <1>4, <2>2, <2>7
    <3>3. i # 1 => log'[i - 1].hash = log[i - 1].hash
      <4>1. SUFFICES ASSUME i # 1 PROVE log'[i - 1].hash = log[i - 1].hash
        OBVIOUS
      <4>2. log[i - 1].hash # None
        BY <3>1, <4>1 DEF Fine
      <4>3. log[i - 1].id # b
        BY <2>5, <4>1, <4>2 DEF LogOK, Contents
      <4>4. QED BY <1>4, <2>5, <4>1, <4>3
    <3>4. Fine(i)'
      BY <3>1, <3>2, <3>3 DEF Fine, Hash
    <3>5. QED BY <1>5, <2>7, <3>1, <3>4
  <2>8. QED BY <2>6, <2>7
<1>9. QED BY <1>4, <1>7, <1>8 DEF Chained

LEMMA EndChained ==
  ASSUME LogOK, Chained, NEW b \in Appends, NEW step \in {"done", "failed"},
         Goto(b, step), UNCHANGED <<log, kind, prev, edited, trims>>,
         contended \subseteq contended',
         IF step = "done" THEN op[b] = "invalidate" ELSE op[b] # "idle" /\ b \in contended'
  PROVE  Chained'
<1>1. \A a \in Appends : op'[a] = IF a = b THEN step ELSE op[a]
  BY DEF Goto, LogOK
<1>2. Appending' = Appending \ {b}
  BY <1>1 DEF Appending
<1>3. \A i \in Logged : log[i].id \in Appends
  BY LoggedRows DEF LogOK
<1>4. ASSUME NEW a \in Appends PROVE AloneReads(a)'
  BY <1>1, <1>2 DEF AloneReads, Chained, Chainable, LastHash, Appending
<1>5. ASSUME NEW i \in Logged PROVE AloneWrites(i)'
  <2>1. Fine(i)' <=> Fine(i)
    BY FineKept
  <2>2. PICK a \in Appends : a = log[i].id
    BY <1>3
  <2>3. Before(i)' = Before(i)
    BY DEF Before
  <2>4. AloneWrites(i)
    BY DEF Chained
  <2>5. SUFFICES ASSUME a \notin contended', edited = {}, trims = 0
                 PROVE  \/ /\ op'[a] = "hash" /\ Appending' = {a}
                           /\ i = Len(log) /\ prev[a] = Before(i) /\ Before(i) # None
                        \/ op'[a] \in {"invalidate", "done"} /\ Fine(i)
    BY <2>1, <2>2, <2>3 DEF AloneWrites
  <2>6. \/ /\ op[a] = "hash" /\ Appending = {a}
           /\ i = Len(log) /\ prev[a] = Before(i) /\ Before(i) # None
        \/ op[a] \in {"invalidate", "done"} /\ Fine(i)
    BY <2>2, <2>4, <2>5 DEF AloneWrites
  <2>7. QED BY <1>1, <1>2, <2>5, <2>6
<1>6. Logged' = Logged
  BY DEF Logged
<1>7. QED BY <1>4, <1>5, <1>6 DEF Chained

LEMMA RestatedChained ==
  ASSUME LogOK, Chained, NEW i \in Logged, EditStatus(i)
  PROVE  Chained'
<1>1. /\ Logged' = Logged /\ Len(log') = Len(log) /\ (log' = <<>> <=> log = <<>>)
      /\ \A k \in Logged : /\ log'[k].id = log[k].id /\ log'[k].hash = log[k].hash
                           /\ log'[k].kind = log[k].kind
  BY RestatedLog
<1>2. Len(log) \in Nat /\ Logged = 1 .. Len(log) /\ (log # <<>> => Len(log) \in Logged)
  BY LoggedRows, EmptySeq DEF LogOK
<1>3. UNCHANGED <<op, prev, contended, edited, trims>>
  BY DEF EditStatus, ghostVars
<1>4. (Chainable' <=> Chainable) /\ LastHash' = LastHash
  BY <1>1, <1>2 DEF Chainable, LastHash
<1>5. ASSUME NEW k \in Logged PROVE Before(k)' = Before(k) /\ (Fine(k)' <=> Fine(k))
  <2>1. k # 1 => k - 1 \in Logged
    BY <1>2
  <2>2. QED BY <1>1, <2>1 DEF Before, Fine, Hash
<1>6. \A k \in Logged : AloneWrites(k)'
  BY <1>1, <1>3, <1>5 DEF Chained, AloneWrites, Appending
<1>7. \A a \in Appends : AloneReads(a)'
  BY <1>3, <1>4 DEF Chained, AloneReads, Appending
<1>8. QED BY <1>1, <1>6, <1>7 DEF Chained

\* Once an event was edited or deleted, nothing is left to say.
LEMMA DisturbedChained ==
  ASSUME Chained, UNCHANGED <<op, contended>>, edited' # {} \/ trims' # 0
  PROVE  Chained'
BY DEF Chained, AloneReads, AloneWrites, Appending

-----------------------------------------------------------------------------
(* The invariant of the log under every step *)

\* A process dies between two calls.
Dies == Fails /\ UNCHANGED <<log, op, kind, prev, cache, readVars, contended, edited,
                             overtaken, trims>>

LogStep ==
  \/ \E a \in Appends :
       \/ \E type \in Kinds : Start(a, type)
       \/ Insert(a) \/ WriteHash(a) \/ Invalidate(a) \/ InvalidateFails(a) \/ AppendFails(a)
  \/ \E r \in Readers : GetCurrentState(r) \/ FillFails(r)
  \/ CacheExpires \/ Trim \/ \E i \in Logged, type \in Kinds : Edit(i, type)
  \/ \E i \in Logged : EditStatus(i)
  \/ Dies

LEMMA LogInvTypes == LogInv => TypeOK
BY DEF LogInv, LogOK, RestOK, TypeOK

LEMMA InitLogInv ==
  ASSUME Init
  PROVE  LogInv
<1>1. log \in Seq(Row) /\ Logged = {} /\ <<>> \in Seq(Appends \X Kinds)
  BY EmptySeq, LenProperties DEF Init, Logged
<1>2. LogOK
  BY <1>1 DEF Init, LogOK, Contents, Genesis
<1>3. RestOK
  BY ConstantsOK DEF Init, RestOK
<1>4. Chained
  BY <1>1 DEF Init, Chained, AloneReads
<1>5. CachedIsCurrent
  BY DEF Init, CachedIsCurrent
<1>6. QED BY <1>2, <1>3, <1>4, <1>5 DEF LogInv

\* What leaves the log and its history alone leaves their invariants alone.
LEMMA LogKept ==
  ASSUME LogOK, Chained, UNCHANGED <<log, op, kind, prev, contended, edited, trims>>
  PROVE  LogOK' /\ Chained' /\ Reduced' = Reduced
<1>1. LogOK'
  BY DEF LogOK, Contents, Logged
<1>2. Logged' = Logged /\ \A i \in Logged : Fine(i)' <=> Fine(i)
  BY FineKept DEF Logged
<1>3. \A i \in Logged : AloneWrites(i)'
  BY <1>2 DEF Chained, AloneWrites, Before, Appending
<1>4. \A a \in Appends : AloneReads(a)'
  BY DEF Chained, AloneReads, Chainable, LastHash, Appending
<1>5. Reduced' = Reduced
  BY DEF Reduced, Logged, LastOf
<1>6. QED BY <1>1, <1>2, <1>3, <1>4, <1>5 DEF Chained

LEMMA StartInv ==
  ASSUME LogInv, NEW a \in Appends, NEW type \in Kinds, Start(a, type)
  PROVE  LogInv'
<1>1. LogOK' /\ Chained'
  BY StartLog, StartChained DEF LogInv
<1>2. RestOK'
  BY DEF Start, LogInv, RestOK, readVars, Appending
<1>3. CachedIsCurrent'
  <2>1. Reduced' = Reduced
    BY DEF Start, Reduced, Logged, LastOf
  <2>2. \A b \in Appends : op[b] \in {"hash", "invalidate"} => op'[b] = op[b]
    BY DEF Start, Goto, LogInv, LogOK
  <2>3. QED BY <2>1, <2>2 DEF Start, LogInv, CachedIsCurrent
<1>4. QED BY <1>1, <1>2, <1>3 DEF LogInv

LEMMA InsertInv ==
  ASSUME LogInv, NEW a \in Appends, Insert(a)
  PROVE  LogInv'
<1>1. /\ op[a] = "insert" /\ Goto(a, "hash") /\ log' = Append(log, NewRow(a))
      /\ UNCHANGED <<kind, prev, cache, reader, view, contended, edited, overtaken, trims, failures>>
  BY DEF Insert, readVars, ghostVars
<1>2. LogOK' /\ Chained'
  BY <1>1, InsertLog, InsertChained DEF LogInv
<1>3. RestOK'
  BY <1>1 DEF LogInv, RestOK
<1>4. op'[a] = "hash"
  BY <1>1 DEF Goto, LogInv, LogOK
<1>5. QED BY <1>2, <1>3, <1>4 DEF LogInv, CachedIsCurrent

LEMMA WriteInv ==
  ASSUME LogInv, NEW a \in Appends, WriteHash(a)
  PROVE  LogInv'
<1>1. /\ op[a] = "hash" /\ Goto(a, "invalidate") /\ log' = WithHash(a)
      /\ UNCHANGED <<kind, prev, cache, reader, view, contended, edited, overtaken, trims, failures>>
  BY DEF WriteHash, readVars, ghostVars
<1>2. LogOK' /\ Chained'
  BY <1>1, WriteLog, WriteChained DEF LogInv
<1>3. RestOK'
  BY <1>1 DEF LogInv, RestOK
<1>4. op'[a] = "invalidate"
  BY <1>1 DEF Goto, LogInv, LogOK
<1>5. QED BY <1>2, <1>3, <1>4 DEF LogInv, CachedIsCurrent

LEMMA InvalidateInv ==
  ASSUME LogInv, NEW a \in Appends, Invalidate(a) \/ InvalidateFails(a)
  PROVE  LogInv'
<1>1. /\ op[a] = "invalidate" /\ Goto(a, "done")
      /\ UNCHANGED <<log, kind, prev, reader, view, contended, edited, trims>>
      /\ (cache' = None /\ overtaken' = FALSE) \/ (cache' = cache /\ overtaken' = TRUE)
      /\ failures' = failures \/ failures' = failures + 1
  BY DEF Invalidate, InvalidateFails, DropCached, Fails, readVars
<1>2. LogOK' /\ Chained'
  BY <1>1, EndLog, EndChained DEF LogInv
<1>3. RestOK'
  <2>1. overtaken' \in BOOLEAN /\ cache' \in ShipmentState \cup {None}
    BY <1>1 DEF LogInv, RestOK
  <2>2. failures' \in Nat
    BY <1>1 DEF LogInv, RestOK
  <2>3. QED BY <1>1, <2>1, <2>2 DEF LogInv, RestOK
<1>4. CachedIsCurrent'
  BY <1>1 DEF LogInv, CachedIsCurrent
<1>5. QED BY <1>2, <1>3, <1>4 DEF LogInv

LEMMA AppendFailsInv ==
  ASSUME LogInv, NEW a \in Appends, AppendFails(a)
  PROVE  LogInv'
<1>1. /\ op[a] \in {"insert", "hash"} /\ Goto(a, "failed")
      /\ contended' = contended \cup {a} /\ overtaken' = TRUE /\ failures' = failures + 1
      /\ UNCHANGED <<kind, prev, cache, reader, view, edited, trims>>
  BY DEF AppendFails, Appending, Fails, readVars
<1>2. \/ log' = log
      \/ op[a] = "insert" /\ log' = Append(log, NewRow(a))
      \/ op[a] = "hash" /\ log' = WithHash(a)
  BY <1>1 DEF AppendFails
<1>3. LogOK' /\ Chained'
  <2>1. CASE log' = log
    BY <1>1, <2>1, EndLog, EndChained DEF LogInv
  <2>2. CASE op[a] = "insert" /\ log' = Append(log, NewRow(a))
    BY <1>1, <2>2, InsertLog, InsertChained DEF LogInv
  <2>3. CASE op[a] = "hash" /\ log' = WithHash(a)
    BY <1>1, <2>3, WriteLog, WriteChained DEF LogInv
  <2>4. QED BY <1>2, <2>1, <2>2, <2>3
<1>4. RestOK'
  BY <1>1 DEF LogInv, RestOK
<1>5. QED BY <1>1, <1>3, <1>4 DEF LogInv, CachedIsCurrent

LEMMA ReaderInv ==
  ASSUME LogInv, NEW r \in Readers, GetCurrentState(r) \/ FillFails(r)
  PROVE  LogInv'
<1>1. UNCHANGED <<log, op, kind, prev, contended, edited, trims>>
  BY DEF GetCurrentState, Miss, Replay, Fill, FillFails, ghostVars, Fails
<1>2. LogOK' /\ Chained' /\ Reduced' = Reduced
  BY <1>1, LogKept DEF LogInv
<1>3. Reduced \in ShipmentState
  BY ReducedType DEF LogInv, LogOK
<1>4. RestOK'
  <2>1. CASE Miss(r)
    BY <2>1 DEF Miss, Fails, LogInv, RestOK
  <2>2. CASE Replay(r)
    <3>1. CASE log = <<>>
      BY <2>2, <3>1 DEF Replay, LogInv, RestOK, ghostVars
    <3>2. CASE log # <<>>
      BY <1>3, <2>2, <3>2 DEF Replay, LogInv, RestOK, ghostVars
    <3>3. QED BY <3>1, <3>2
  <2>3. CASE Fill(r)
    BY <2>3 DEF Fill, LogInv, RestOK
  <2>4. CASE FillFails(r)
    BY <2>4 DEF FillFails, Fails, LogInv, RestOK
  <2>5. QED BY <2>1, <2>2, <2>3, <2>4 DEF GetCurrentState
<1>5. CachedIsCurrent'
  <2>1. CASE Fill(r)
    <3>1. cache' = view[r] /\ overtaken' = (view[r] # Reduced)
      BY <2>1 DEF Fill
    <3>2. cache' # Reduced => overtaken'
      BY <3>1
    <3>3. QED BY <1>2, <3>2 DEF CachedIsCurrent
  <2>2. CASE ~ Fill(r)
    <3>1. cache' = cache /\ overtaken' = overtaken
      BY <2>2 DEF GetCurrentState, Miss, Replay, FillFails, ghostVars
    <3>2. QED BY <1>1, <1>2, <3>1 DEF LogInv, CachedIsCurrent
  <2>3. QED BY <2>1, <2>2
<1>6. QED BY <1>2, <1>4, <1>5 DEF LogInv

LEMMA LogInvStep ==
  ASSUME LogInv, LogStep
  PROVE  LogInv'
<1>1. ASSUME NEW a \in Appends,
             \/ \E type \in Kinds : Start(a, type)
             \/ Insert(a) \/ WriteHash(a) \/ Invalidate(a) \/ InvalidateFails(a) \/ AppendFails(a)
      PROVE  LogInv'
  BY <1>1, StartInv, InsertInv, WriteInv, InvalidateInv, AppendFailsInv
<1>2. ASSUME NEW r \in Readers, GetCurrentState(r) \/ FillFails(r) PROVE LogInv'
  BY <1>2, ReaderInv
<1>3. CASE CacheExpires
  <2>1. UNCHANGED <<log, op, kind, prev, reader, view, contended, edited, trims, failures>>
    BY <1>3 DEF CacheExpires, readVars
  <2>2. LogOK' /\ Chained'
    BY <2>1, LogKept DEF LogInv
  <2>3. RestOK' /\ CachedIsCurrent'
    BY <1>3, <2>1 DEF CacheExpires, LogInv, RestOK, CachedIsCurrent
  <2>4. QED BY <2>2, <2>3 DEF LogInv
<1>4. CASE Trim
  <2>1. LogOK'
    BY <1>4, TrimLog DEF LogInv
  <2>2. RestOK' /\ CachedIsCurrent' /\ trims' # 0
    BY <1>4 DEF Trim, LogInv, RestOK, CachedIsCurrent, readVars
  <2>3. Chained'
    BY <1>4, <2>2, DisturbedChained DEF Trim, LogInv
  <2>4. QED BY <2>1, <2>2, <2>3 DEF LogInv
<1>5. ASSUME NEW i \in Logged, NEW type \in Kinds, Edit(i, type) PROVE LogInv'
  <2>1. LogOK'
    BY <1>5, EditLog DEF LogInv
  <2>2. RestOK' /\ CachedIsCurrent' /\ edited' # {}
    BY <1>5 DEF Edit, LogInv, RestOK, CachedIsCurrent, readVars
  <2>3. Chained'
    BY <1>5, <2>2, DisturbedChained DEF Edit, LogInv
  <2>4. QED BY <2>1, <2>2, <2>3 DEF LogInv
<1>6. CASE Dies
  <2>1. UNCHANGED <<log, op, kind, prev, cache, reader, view, contended, edited, overtaken, trims>>
        /\ failures' = failures + 1
    BY <1>6 DEF Dies, Fails, readVars
  <2>2. LogOK' /\ Chained' /\ Reduced' = Reduced
    BY <2>1, LogKept DEF LogInv
  <2>3. RestOK' /\ CachedIsCurrent'
    BY <2>1, <2>2 DEF LogInv, RestOK, CachedIsCurrent
  <2>4. QED BY <2>2, <2>3 DEF LogInv
<1>7. ASSUME NEW i \in Logged, EditStatus(i) PROVE LogInv'
  <2>1. LogOK' /\ Chained' /\ Reduced' = Reduced
    BY <1>7, RestatedLog, RestatedChained, RestatedReduced DEF LogInv
  <2>2. UNCHANGED <<op, cache, reader, view, contended, overtaken, trims, failures>>
    BY <1>7 DEF EditStatus, readVars, ghostVars
  <2>3. RestOK' /\ CachedIsCurrent'
    BY <2>1, <2>2 DEF LogInv, RestOK, CachedIsCurrent
  <2>4. QED BY <2>1, <2>3 DEF LogInv
<1>8. QED BY <1>1, <1>2, <1>3, <1>4, <1>5, <1>6, <1>7 DEF LogStep

LEMMA LogInvStutter ==
  ASSUME LogInv, UNCHANGED logVars
  PROVE  LogInv'
<1>1. UNCHANGED <<log, op, kind, prev, cache, reader, view, contended, edited, overtaken, trims, failures>>
  BY DEF logVars, vars
<1>2. LogOK' /\ Chained' /\ Reduced' = Reduced
  BY <1>1, LogKept DEF LogInv
<1>3. RestOK' /\ CachedIsCurrent'
  BY <1>1, <1>2 DEF LogInv, RestOK, CachedIsCurrent
<1>4. QED BY <1>2, <1>3 DEF LogInv

-----------------------------------------------------------------------------
(* What verification reports *)

LEMMA BrokenPlaces ==
  ASSUME LogOK, ~ Valid
  PROVE  FirstBroken \in Broken /\ \A k \in Broken : FirstBroken <= k
<1>1. Broken \in SUBSET Nat /\ Broken # {}
  BY LoggedRows DEF LogOK, Broken, Valid
<1>2. \E i \in Broken : \A k \in Broken : i <= k
  BY <1>1, FirstOf
<1>3. QED BY <1>2 DEF FirstBroken

\* The hash of an event that was changed is not that of its content.
LEMMA EditedIsBroken ==
  ASSUME LogOK, NEW i \in Logged, log[i].id \in edited
  PROVE  i \in Broken
<1>1. PICK a \in Appends : a = log[i].id
  BY LoggedRows DEF LogOK
<1>2. log[i].kind \in Kinds /\ log[i].kind # kind[a] /\ kind[a] \in Kinds
  BY <1>1, LoggedRows DEF LogOK, Contents
<1>3. SUFFICES ASSUME Fine(i) PROVE FALSE
  BY DEF Broken
<1>4. PICK before \in Chains : log[i].hash = Append(before, <<a, log[i].kind>>)
  <2>1. Before(i) \in Chains
    <3>1. Before(i) # None
      BY <1>3, GenesisIsNoNone DEF Fine, Before
    <3>2. CASE i = 1
      BY <3>2, EmptySeq DEF Before, Genesis, Chains
    <3>3. CASE i # 1
      <4>1. i - 1 \in Logged
        BY <3>3, LoggedRows DEF LogOK
      <4>2. QED BY <3>1, <3>3, <4>1, LoggedRows DEF Before, LogOK, Hashes
    <3>4. QED BY <3>2, <3>3
  <2>2. log[i].hash = Append(Before(i), <<a, log[i].kind>>)
    BY <1>1, <1>3 DEF Fine, Hash, Before
  <2>3. QED BY <2>1, <2>2
<1>5. PICK p \in Chains : log[i].hash = Append(p, <<a, kind[a]>>)
  BY <1>1, <1>3 DEF Fine, LogOK, Contents, HashOf
<1>6. QED BY <1>2, <1>4, <1>5, HashTells

LEMMA LogInvVerifies == LogInv => VerificationIsJust
<1>1. SUFFICES ASSUME LogInv PROVE VerificationIsJust
  OBVIOUS
<1>2. BlamesContended
  <2>1. SUFFICES ASSUME Appending = {}, edited = {}, trims = 0, ~ Valid
                 PROVE  log[FirstBroken].id \in contended
    BY DEF BlamesContended
  <2>2. FirstBroken \in Logged /\ ~ Fine(FirstBroken)
    BY <1>1, <2>1, BrokenPlaces DEF LogInv, Broken
  <2>3. AloneWrites(FirstBroken)
    BY <1>1, <2>2 DEF LogInv, Chained
  <2>4. QED BY <2>1, <2>2, <2>3 DEF AloneWrites
<1>3. EditIsReported
  BY <1>1, EditedIsBroken, BrokenPlaces DEF LogInv, EditIsReported, Valid
<1>4. QED BY <1>2, <1>3 DEF VerificationIsJust

-----------------------------------------------------------------------------
(* What requests leave in the log *)

LEMMA TrimsKept ==
  ASSUME LogStep
  PROVE  trims' = trims \/ trims' = trims + 1
<1>1. \A a \in Appends, type \in Kinds : Start(a, type) => trims' = trims
  BY DEF Start
<1>2. \A a \in Appends : Insert(a) \/ WriteHash(a) => trims' = trims
  BY DEF Insert, WriteHash, ghostVars
<1>3. \A a \in Appends : Invalidate(a) \/ InvalidateFails(a) \/ AppendFails(a) => trims' = trims
  BY DEF Invalidate, InvalidateFails, AppendFails
<1>4. \A r \in Readers : GetCurrentState(r) \/ FillFails(r) => trims' = trims
  BY DEF GetCurrentState, Miss, Replay, Fill, FillFails, ghostVars
<1>5. CacheExpires \/ Dies => trims' = trims
  BY DEF CacheExpires, Dies
<1>6. \A i \in Logged, type \in Kinds : Edit(i, type) => trims' = trims
  BY DEF Edit
<1>7. Trim => trims' = trims + 1
  BY DEF Trim
<1>8. \A i \in Logged : EditStatus(i) => trims' = trims
  BY DEF EditStatus, ghostVars
<1>9. QED BY <1>1, <1>2, <1>3, <1>4, <1>5, <1>6, <1>7, <1>8 DEF LogStep

LEMMA KeptStep ==
  ASSUME LogInv, Kept, LogStep
  PROVE  /\ Kept' /\ (trims > 0 => trims' > 0)
         /\ \A b \in Appends : InLog(b) => InLog(b)' \/ trims' > 0
<1>1. SUFFICES ASSUME NEW b \in Appends
               PROVE  /\ op'[b] \in {"hash", "invalidate", "done"} => InLog(b)' \/ trims' > 0
                      /\ InLog(b) => InLog(b)' \/ trims' > 0
  <2>1. trims > 0 => trims' > 0
    BY TrimsKept DEF LogInv, RestOK
  <2>2. QED BY <2>1 DEF Kept
<1>2. LogOK /\ trims \in Nat
  BY DEF LogInv, RestOK
<1>3. op[b] \in {"hash", "invalidate", "done"} => InLog(b) \/ trims > 0
  BY DEF Kept
<1>4. ASSUME NEW a \in Appends, NEW type \in Kinds, Start(a, type) PROVE
             /\ log' = log /\ trims' = trims
             /\ op'[b] \in {"hash", "invalidate", "done"} => op[b] = op'[b]
  BY <1>2, <1>4 DEF Start, Goto, LogOK
<1>5. ASSUME NEW a \in Appends, Invalidate(a) \/ InvalidateFails(a) PROVE
             /\ log' = log /\ trims' = trims
             /\ op'[b] \in {"hash", "invalidate", "done"} => op[b] \in {"hash", "invalidate", "done"}
  BY <1>2, <1>5 DEF Invalidate, InvalidateFails, Goto, LogOK
<1>6. ASSUME NEW a \in Appends, op[a] = "insert", log' = Append(log, NewRow(a)),
             Goto(a, "hash") \/ Goto(a, "failed")
      PROVE  /\ InLog(b) => InLog(b)'
             /\ op'[b] \in {"hash", "invalidate", "done"} => InLog(b)' \/ op[b] = op'[b]
  <2>1. kind[a] \in Kinds
    BY <1>2, <1>6 DEF LogOK
  <2>2. /\ Logged = 1 .. Len(log) /\ Len(log) \in Nat
        /\ Logged' = 1 .. Len(log) + 1
        /\ \A i \in 1 .. Len(log) : log'[i] = log[i]
        /\ log'[Len(log) + 1].id = a
    BY <1>2, <1>6, <2>1, Inserted, LoggedRows DEF LogOK, Logged, NewRow
  <2>3. InLog(b) => InLog(b)'
    BY <2>2 DEF InLog
  <2>4. InLog(a)'
    BY <2>2 DEF InLog
  <2>5. b # a => op'[b] = op[b]
    BY <1>2, <1>6 DEF Goto, LogOK
  <2>6. QED BY <2>3, <2>4, <2>5
<1>7. ASSUME NEW a \in Appends, op[a] = "hash", log' = WithHash(a),
             Goto(a, "invalidate") \/ Goto(a, "failed")
      PROVE  /\ InLog(b) <=> InLog(b)'
             /\ op'[b] \in {"hash", "invalidate", "done"} => op[b] \in {"hash", "invalidate", "done"}
  <2>1. kind[a] \in Kinds /\ prev[a] \in Chains
    BY <1>2, <1>7 DEF LogOK, Chains
  <2>2. Logged' = Logged /\ \A i \in Logged : log'[i].id = log[i].id
    <3>1. log \in Seq(Row)
      BY <1>2 DEF LogOK
    <3>2. DOMAIN log' = Logged
      BY <1>7, <2>1, <3>1, HashWritten
    <3>3. QED BY <1>7, <2>1, <3>1, <3>2, HashWritten DEF Logged
  <2>3. InLog(b) <=> InLog(b)'
    BY <2>2 DEF InLog
  <2>4. QED BY <1>2, <1>7, <2>3 DEF Goto, LogOK
<1>8. ASSUME NEW a \in Appends, Insert(a) \/ WriteHash(a) \/ AppendFails(a)
      PROVE  /\ trims' = trims
             /\ InLog(b) => InLog(b)'
             /\ op'[b] \in {"hash", "invalidate", "done"} =>
                  InLog(b)' \/ op[b] \in {"hash", "invalidate", "done"}
  <2>1. CASE Insert(a)
    BY <1>6, <2>1 DEF Insert, ghostVars
  <2>2. CASE WriteHash(a)
    BY <1>7, <2>2 DEF WriteHash, ghostVars
  <2>3. CASE AppendFails(a)
    <3>1. op[a] \in {"insert", "hash"} /\ Goto(a, "failed") /\ trims' = trims
      BY <2>3 DEF AppendFails, Appending
    <3>2. \/ log' = log
          \/ op[a] = "insert" /\ log' = Append(log, NewRow(a))
          \/ op[a] = "hash" /\ log' = WithHash(a)
      BY <2>3, <3>1 DEF AppendFails
    <3>3. CASE log' = log
      BY <1>2, <3>1, <3>3 DEF Goto, LogOK, InLog, Logged
    <3>4. CASE log' # log
      BY <1>6, <1>7, <3>1, <3>2, <3>4
    <3>5. QED BY <3>3, <3>4
  <2>4. QED BY <1>8, <2>1, <2>2, <2>3
<1>9. ASSUME NEW r \in Readers, GetCurrentState(r) \/ FillFails(r) PROVE
             log' = log /\ trims' = trims /\ op' = op
  BY <1>9 DEF GetCurrentState, Miss, Replay, Fill, FillFails, ghostVars
<1>10. CASE CacheExpires \/ Dies
  <2>1. log' = log /\ trims' = trims /\ op' = op
    BY <1>10 DEF CacheExpires, Dies
  <2>2. QED BY <1>3, <2>1 DEF InLog, Logged
<1>11. CASE Trim
  BY <1>2, <1>11 DEF Trim
<1>12. ASSUME NEW i \in Logged, NEW type \in Kinds, Edit(i, type) PROVE
             trims' = trims /\ op' = op /\ (InLog(b) <=> InLog(b)')
  BY <1>2, <1>12, EditLog DEF Edit, InLog
<1>13. ASSUME log' = log PROVE InLog(b)' <=> InLog(b)
  BY <1>13 DEF InLog, Logged
<1>14. ASSUME NEW i \in Logged, EditStatus(i) PROVE
             trims' = trims /\ op' = op /\ (InLog(b) <=> InLog(b)')
  <2>1. Logged' = Logged /\ \A k \in Logged : log'[k].id = log[k].id
    BY <1>2, <1>14, RestatedLog
  <2>2. QED BY <1>14, <2>1 DEF EditStatus, ghostVars, InLog
<1>15. QED BY <1>3, <1>4, <1>5, <1>8, <1>9, <1>10, <1>11, <1>12, <1>13, <1>14 DEF LogStep

-----------------------------------------------------------------------------
(* Every step of a request *)

RowType == [status : {"pending"}, exceptionFlag : BOOLEAN]

\* What the requests are, without the log.
ServedOK ==
  /\ row \in RowType \cup {None}
  /\ what \in [Appends -> {None, "create", "event", "exception", "location"}]
  /\ handler \in [Appends -> {"none", "created", "recording", "flag", "answered", "failed"}]
  /\ \A a \in Appends : RequestOK(a)

LEMMA RowTyped ==
  /\ NewShipment \in RowType /\ NewShipment # None /\ NewShipment.exceptionFlag = FALSE
  /\ \A r \in RowType :
       /\ r # None /\ r.status = "pending"
       /\ [r EXCEPT !.exceptionFlag = TRUE] \in RowType
       /\ [r EXCEPT !.exceptionFlag = TRUE].exceptionFlag = TRUE
<1>1. NewShipment \in RowType /\ NewShipment.exceptionFlag = FALSE
  BY DEF RowType, NewShipment
<1>2. ASSUME NEW r \in RowType
      PROVE  /\ r.status = "pending"
             /\ [r EXCEPT !.exceptionFlag = TRUE] \in RowType
             /\ [r EXCEPT !.exceptionFlag = TRUE].exceptionFlag = TRUE
  BY DEF RowType
<1>3. None \notin RowType
  BY NoneIsNoShipment DEF RowType
<1>4. QED BY <1>1, <1>2, <1>3

\* A request that does nothing stays what it is when the row is only filled in or flagged.
LEMMA RequestKept ==
  ASSUME NEW b \in Appends, RequestOK(b), op'[b] = op[b], handler'[b] = handler[b],
         what'[b] = what[b], row # None => row' # None /\ (row.exceptionFlag => row'.exceptionFlag)
  PROVE  RequestOK(b)'
BY DEF RequestOK

LEMMA StartServes ==
  ASSUME ServedOK, LogInv, NEW a \in Appends, NEW type \in Kinds, Start(a, type),
         Become(a, "recording"), handler[a] \in {"none", "created"},
         row' = row,
         NEW request \in {"create", "event", "exception", "location"},
         what' = [what EXCEPT ![a] = request], request = "exception" => row # None
  PROVE  ServedOK'
<1>1. \A b \in Appends : /\ op'[b] = IF b = a THEN "insert" ELSE op[b]
                         /\ handler'[b] = IF b = a THEN "recording" ELSE handler[b]
                         /\ what'[b] = IF b = a THEN request ELSE what[b]
  BY DEF Start, Goto, Become, ServedOK, LogInv, LogOK
<1>2. \A b \in Appends : RequestOK(b)'
  <2>1. RequestOK(a)'
    BY <1>1 DEF RequestOK
  <2>2. ASSUME NEW b \in Appends, b # a PROVE RequestOK(b)'
    BY <1>1, <2>2, RequestKept DEF ServedOK
  <2>3. QED BY <2>1, <2>2
<1>3. QED BY <1>2 DEF ServedOK, Become

LEMMA CreateRowServes ==
  ASSUME ServedOK, NEW a \in Appends, CreateRow(a), LogInv
  PROVE  ServedOK' /\ row' # None /\ row'.exceptionFlag = FALSE
<1>1. /\ row = None /\ row' = NewShipment /\ handler[a] = "none" /\ op' = op
      /\ \A b \in Appends : /\ handler'[b] = IF b = a THEN "created" ELSE handler[b]
                            /\ what'[b] = IF b = a THEN "create" ELSE what[b]
  BY DEF CreateRow, Serve, Become, ServedOK, logVars, vars
<1>2. \A b \in Appends : RequestOK(b)'
  <2>1. RequestOK(a)'
    BY <1>1, RowTyped DEF RequestOK, ServedOK
  <2>2. ASSUME NEW b \in Appends, b # a PROVE RequestOK(b)'
    BY <1>1, <2>2, RequestKept DEF ServedOK
  <2>3. QED BY <2>1, <2>2
<1>3. QED BY <1>1, <1>2, RowTyped DEF ServedOK, CreateRow, Serve, Become

\* A request is answered or fails, and its row stays.
LEMMA EndsServed ==
  ASSUME ServedOK, LogInv, NEW a \in Appends, NEW step \in {"answered", "failed", "flag"},
         Become(a, step), row' = row, what' = what, op' = op \/ Goto(a, "done") \/ Goto(a, "failed"),
         op'[a] \notin {"insert", "hash", "invalidate"},
         step = "flag" => what[a] = "exception" /\ op'[a] = "done",
         step = "answered" => op'[a] = "done" /\ what[a] # "exception",
         handler[a] # "none"
  PROVE  ServedOK'
<1>1. \A b \in Appends : /\ b # a => op'[b] = op[b]
                         /\ handler'[b] = IF b = a THEN step ELSE handler[b]
  BY DEF Goto, Become, ServedOK, LogInv, LogOK
<1>2. \A b \in Appends : RequestOK(b)'
  <2>1. RequestOK(a)'
    BY <1>1 DEF RequestOK, ServedOK
  <2>2. ASSUME NEW b \in Appends, b # a PROVE RequestOK(b)'
    BY <1>1, <2>2, RequestKept DEF ServedOK
  <2>3. QED BY <2>1, <2>2
<1>3. QED BY <1>2 DEF ServedOK, Become

LEMMA FlagServes ==
  ASSUME ServedOK, LogInv, NEW a \in Appends, Flag(a)
  PROVE  ServedOK'
<1>1. handler[a] = "flag" /\ what[a] = "exception" /\ op[a] = "done" /\ row # None
  BY DEF Flag, ServedOK, RequestOK
<1>2. row \in RowType /\ row' = [row EXCEPT !.exceptionFlag = TRUE]
  BY <1>1 DEF ServedOK, Flag
<1>3. row' \in RowType /\ row' # None /\ row'.exceptionFlag = TRUE
  BY <1>2, RowTyped
<1>4. /\ op' = op /\ what' = what
      /\ \A b \in Appends : handler'[b] = IF b = a THEN "answered" ELSE handler[b]
  BY DEF Flag, Become, ServedOK, logVars, vars
<1>5. \A b \in Appends : RequestOK(b)'
  <2>1. RequestOK(a)'
    BY <1>1, <1>3, <1>4 DEF RequestOK
  <2>2. ASSUME NEW b \in Appends, b # a PROVE RequestOK(b)'
    BY <1>3, <1>4, <2>2, RequestKept DEF ServedOK
  <2>3. QED BY <2>1, <2>2
<1>6. QED BY <1>3, <1>4, <1>5 DEF ServedOK, Flag, Become

\* A location finds the shipment pending: nothing is recorded.
LEMMA LocationServes ==
  ASSUME ServedOK, LogInv, NEW a \in Appends, UpdateLocation(a)
  PROVE  ServedOK' /\ UNCHANGED logVars /\ row' = row
<1>1. row \in RowType /\ row # None /\ row.status \notin Active
  BY RowTyped DEF UpdateLocation, ServedOK, Active
<1>2. UNCHANGED logVars /\ Become(a, "answered") /\ row' = row /\ Serve(a, "location")
  BY <1>1 DEF UpdateLocation
<1>3. /\ op' = op /\ handler[a] = "none"
      /\ \A b \in Appends : /\ handler'[b] = IF b = a THEN "answered" ELSE handler[b]
                            /\ what'[b] = IF b = a THEN "location" ELSE what[b]
  BY <1>2 DEF Serve, Become, ServedOK, logVars, vars
<1>4. \A b \in Appends : RequestOK(b)'
  <2>1. RequestOK(a)'
    BY <1>3 DEF RequestOK, ServedOK
  <2>2. ASSUME NEW b \in Appends, b # a PROVE RequestOK(b)'
    BY <1>2, <1>3, <2>2, RequestKept DEF ServedOK
  <2>3. QED BY <2>1, <2>2
<1>5. QED BY <1>2, <1>4 DEF ServedOK, Become, Serve

-----------------------------------------------------------------------------
(* The theorems *)

LEMMA ShipInvServed == ShipInv <=> LogInv /\ Kept /\ ServedOK /\ Flagged
BY DEF ShipInv, ServedOK, RowType

LEMMA InitShipInv == ShipInit => ShipInv
<1>1. SUFFICES ASSUME ShipInit PROVE ShipInv
  OBVIOUS
<1>2. Init /\ row = None
      /\ \A a \in Appends : what[a] = None /\ handler[a] = "none" /\ op[a] = "idle"
  BY <1>1 DEF ShipInit, Init
<1>3. LogInv /\ Kept
  BY <1>2, InitLogInv DEF Kept
<1>4. ServedOK /\ Flagged
  BY <1>1, <1>2 DEF ShipInit, ServedOK, RequestOK, Flagged
<1>5. QED BY <1>3, <1>4, ShipInvServed

\* What a step may do to the row's flag: nothing but to set it, for a request whose event
\* was recorded.
LEMMA FlagKept ==
  ASSUME LogInv, Flagged, Kept, ServedOK, LogStep \/ UNCHANGED logVars,
         \A b \in Appends : what[b] = "exception" => what'[b] = "exception" \/ handler[b] = "none",
         \/ row' = row
         \/ row'.exceptionFlag = FALSE
         \/ \E a \in Appends : handler[a] = "flag" /\ what'[a] = what[a]
  PROVE  Flagged' /\ Kept' /\ LogInv'
<1>1. /\ LogInv' /\ Kept' /\ (trims > 0 => trims' > 0)
      /\ \A b \in Appends : InLog(b) => InLog(b)' \/ trims' > 0
  <2>1. CASE LogStep
    BY <2>1, LogInvStep, KeptStep
  <2>2. CASE UNCHANGED logVars
    <3>1. UNCHANGED <<log, op, trims>>
      BY <2>2 DEF logVars, vars
    <3>2. QED BY <2>2, <3>1, LogInvStutter DEF Kept, InLog, Logged
  <2>3. QED BY <2>1, <2>2
<1>2. \A b \in Appends : InLog(b) => handler[b] # "none"
  BY DEF InLog, LogInv, LogOK, Contents, ServedOK, RequestOK
<1>3. Flagged'
  <2>1. CASE row' = row
    BY <1>1, <1>2, <2>1 DEF Flagged
  <2>2. CASE row'.exceptionFlag = FALSE
    BY <2>2 DEF Flagged
  <2>3. ASSUME NEW a \in Appends, handler[a] = "flag", what'[a] = what[a] PROVE Flagged'
    <3>1. what'[a] = "exception" /\ op[a] = "done"
      BY <2>3 DEF ServedOK, RequestOK
    <3>2. InLog(a) \/ trims > 0
      BY <3>1 DEF Kept
    <3>3. QED BY <1>1, <3>1, <3>2 DEF Flagged
  <2>4. QED BY <2>1, <2>2, <2>3
<1>4. QED BY <1>1, <1>3

LEMMA StepShipInv ==
  ASSUME ShipInv, ShipNext
  PROVE  ShipInv'
<1>1. LogInv /\ Kept /\ ServedOK /\ Flagged
  BY ShipInvServed
<1>2. /\ what \in [Appends -> {None, "create", "event", "exception", "location"}]
      /\ row \in RowType \cup {None}
  BY <1>1 DEF ServedOK
<1>3. ASSUME NEW a \in Appends, CreateRow(a) PROVE ShipInv'
  <2>1. ServedOK' /\ row' # None /\ row'.exceptionFlag = FALSE
    BY <1>1, <1>3, CreateRowServes
  <2>2. /\ UNCHANGED logVars
        /\ \A b \in Appends : what[b] = "exception" => what'[b] = "exception" \/ handler[b] = "none"
    BY <1>2, <1>3 DEF CreateRow, Serve
  <2>3. Flagged' /\ Kept' /\ LogInv'
    BY <1>1, <2>1, <2>2, FlagKept
  <2>4. QED BY <2>1, <2>3, ShipInvServed, PTL

<1>4. ASSUME NEW a \in Appends, NEW type \in Kinds, Start(a, type), Become(a, "recording"),
             row' = row, handler[a] \in {"none", "created"},
             NEW request \in {"create", "event", "exception", "location"},
             what' = [what EXCEPT ![a] = request], request = "exception" => row # None,
             handler[a] = "created" => request = what[a]
      PROVE  ShipInv'
  <2>1. ServedOK'
    BY <1>1, <1>4, StartServes
  <2>2. LogStep
    BY <1>4 DEF LogStep
  <2>3. \A b \in Appends : what[b] = "exception" => what'[b] = "exception" \/ handler[b] = "none"
    BY <1>2, <1>4
  <2>4. Flagged' /\ Kept' /\ LogInv'
    BY <1>1, <1>4, <2>2, <2>3, FlagKept
  <2>5. QED BY <2>1, <2>4, ShipInvServed, PTL
<1>5. ASSUME NEW a \in Appends, RecordCreated(a) PROVE ShipInv'
  <2>1. handler[a] = "created" /\ Become(a, "recording") /\ Start(a, "created")
        /\ row' = row /\ what' = what /\ "created" \in Kinds
    BY <1>5, KindsOK DEF RecordCreated
  <2>2. what[a] = "create"
    BY <1>1, <2>1 DEF ServedOK, RequestOK
  <2>3. what' = [what EXCEPT ![a] = "create"]
    BY <1>2, <2>1, <2>2
  <2>4. QED BY <1>4, <2>1, <2>2, <2>3
<1>6. ASSUME NEW a \in Appends, NEW type \in Posted, PostEvent(a, type) PROVE ShipInv'
  BY <1>4, <1>6, KindsOK DEF PostEvent, Serve
<1>7. ASSUME NEW a \in Appends, MarkException(a) PROVE ShipInv'
  BY <1>4, <1>7, KindsOK DEF MarkException, Serve
<1>8. ASSUME NEW a \in Appends, UpdateLocation(a) PROVE ShipInv'
  <2>1. ServedOK' /\ UNCHANGED logVars /\ row' = row
    BY <1>1, <1>8, LocationServes
  <2>2. \A b \in Appends : what[b] = "exception" => what'[b] = "exception" \/ handler[b] = "none"
    BY <1>2, <1>8 DEF UpdateLocation, Serve
  <2>3. Flagged' /\ Kept' /\ LogInv'
    BY <1>1, <2>1, <2>2, FlagKept
  <2>4. QED BY <2>1, <2>3, ShipInvServed, PTL
<1>9. ASSUME NEW a \in Appends, CreateDies(a) \/ FlagFails(a) PROVE ShipInv'
  <2>1. /\ handler[a] # "none" /\ Become(a, "failed") /\ op' = op /\ row' = row /\ what' = what
        /\ handler[a] \in {"created", "flag"} /\ Dies
    BY <1>9 DEF CreateDies, FlagFails, Dies
  <2>2. op[a] \notin {"insert", "hash", "invalidate"}
    BY <1>1, <2>1 DEF ServedOK, RequestOK
  <2>3. ServedOK'
    BY <1>1, <2>1, <2>2, EndsServed
  <2>4. Flagged' /\ Kept' /\ LogInv'
    BY <1>1, <2>1, FlagKept DEF LogStep
  <2>5. QED BY <2>3, <2>4, ShipInvServed, PTL
<1>10. ASSUME NEW a \in Appends, Flag(a) PROVE ShipInv'
  <2>1. ServedOK'
    BY <1>1, <1>10, FlagServes
  <2>2. handler[a] = "flag" /\ UNCHANGED logVars /\ what' = what
    BY <1>10 DEF Flag
  <2>3. Flagged' /\ Kept' /\ LogInv'
    BY <1>1, <2>2, FlagKept
  <2>4. QED BY <2>1, <2>3, ShipInvServed, PTL
<1>11. ASSUME NEW a \in Appends, Recording(a) PROVE ShipInv'
  <2>1. /\ op[a] \in {"insert", "hash"} /\ UNCHANGED <<row, what, handler>> /\ LogStep
        /\ Goto(a, "hash") \/ Goto(a, "invalidate")
    BY <1>11 DEF Recording, Insert, WriteHash, shipVars, LogStep
  <2>2. \A b \in Appends : /\ b # a => op'[b] = op[b]
                           /\ op'[a] \in {"hash", "invalidate"}
    BY <1>1, <2>1 DEF Goto, LogInv, LogOK
  <2>3. ASSUME NEW b \in Appends PROVE RequestOK(b)'
    <3>1. CASE b = a
      BY <1>1, <2>1, <2>2, <3>1 DEF ServedOK, RequestOK
    <3>2. CASE b # a
      BY <1>1, <2>1, <2>2, <3>2, RequestKept DEF ServedOK
    <3>3. QED BY <3>1, <3>2
  <2>4. ServedOK'
    BY <1>1, <2>1, <2>3 DEF ServedOK
  <2>5. Flagged' /\ Kept' /\ LogInv'
    BY <1>1, <2>1, FlagKept
  <2>6. QED BY <2>4, <2>5, ShipInvServed, PTL
<1>12. ASSUME NEW a \in Appends, Recorded(a) PROVE ShipInv'
  <2>1. /\ op[a] = "invalidate" /\ Goto(a, "done") /\ row' = row /\ what' = what /\ LogStep
        /\ Become(a, IF what[a] = "exception" THEN "flag" ELSE "answered")
    BY <1>12 DEF Recorded, Invalidate, InvalidateFails, LogStep
  <2>2. op'[a] = "done" /\ handler[a] # "none"
    BY <1>1, <2>1 DEF Goto, LogInv, LogOK, ServedOK, RequestOK
  <2>3. CASE what[a] = "exception"
    <3>1. Become(a, "flag")
      BY <2>1, <2>3
    <3>2. ServedOK'
      BY <1>1, <2>1, <2>2, <2>3, <3>1, EndsServed
    <3>3. Flagged' /\ Kept' /\ LogInv'
      BY <1>1, <2>1, FlagKept
    <3>4. QED BY <3>2, <3>3, ShipInvServed, PTL
  <2>4. CASE what[a] # "exception"
    <3>1. Become(a, "answered")
      BY <2>1, <2>4
    <3>2. ServedOK'
      BY <1>1, <2>1, <2>2, <2>4, <3>1, EndsServed
    <3>3. Flagged' /\ Kept' /\ LogInv'
      BY <1>1, <2>1, FlagKept
    <3>4. QED BY <3>2, <3>3, ShipInvServed, PTL
  <2>5. QED BY <2>3, <2>4
<1>13. ASSUME NEW a \in Appends, RecordFails(a) PROVE ShipInv'
  <2>1. /\ op[a] \in {"insert", "hash"} /\ Goto(a, "failed") /\ row' = row /\ what' = what
        /\ LogStep /\ Become(a, "failed")
    BY <1>13 DEF RecordFails, AppendFails, Appending, LogStep
  <2>2. op'[a] = "failed" /\ handler[a] # "none"
    BY <1>1, <2>1 DEF Goto, LogInv, LogOK, ServedOK, RequestOK
  <2>3. ServedOK'
    BY <1>1, <2>1, <2>2, EndsServed
  <2>4. Flagged' /\ Kept' /\ LogInv'
    BY <1>1, <2>1, FlagKept
  <2>5. QED BY <2>3, <2>4, ShipInvServed, PTL
<1>14. CASE Rest
  <2>1. LogStep /\ UNCHANGED <<row, what, handler>>
    BY <1>14 DEF Rest, LogStep, shipVars
  <2>2. op' = op
    BY <1>14 DEF Rest, GetCurrentState, Miss, Replay, Fill, FillFails, CacheExpires, Trim, Edit, EditStatus
  <2>3. \A b \in Appends : RequestOK(b)'
    BY <1>1, <2>1, <2>2, RequestKept DEF ServedOK
  <2>4. ServedOK'
    BY <1>1, <2>1, <2>3 DEF ServedOK
  <2>5. Flagged' /\ Kept' /\ LogInv'
    BY <1>1, <2>1, FlagKept
  <2>6. QED BY <2>4, <2>5, ShipInvServed, PTL
<1>15. QED
  BY <1>3, <1>5, <1>6, <1>7, <1>8, <1>9, <1>10, <1>11, <1>12, <1>13, <1>14 DEF ShipNext

LEMMA StutterShipInv ==
  ASSUME ShipInv, UNCHANGED allVars
  PROVE  ShipInv'
<1>1. LogInv /\ Kept /\ ServedOK /\ Flagged
  BY ShipInvServed
<1>2. UNCHANGED logVars /\ UNCHANGED <<row, what, handler>> /\ op' = op
  BY DEF allVars, shipVars, logVars, vars
<1>3. \A b \in Appends : RequestOK(b)'
  BY <1>1, <1>2, RequestKept DEF ServedOK
<1>4. ServedOK'
  BY <1>1, <1>2, <1>3 DEF ServedOK
<1>5. Flagged' /\ Kept' /\ LogInv'
  BY <1>1, <1>2, FlagKept
<1>6. QED BY <1>4, <1>5, ShipInvServed, PTL

\* The invariant holds of every run of the requests on a shipment.
THEOREM ShipmentsInvariant == ShipSpec => []ShipInv
<1>1. ShipInv /\ [ShipNext]_allVars => ShipInv'
  BY StepShipInv, StutterShipInv
<1>2. QED BY InitShipInv, <1>1, PTL DEF ShipSpec

\* verifyEventChain reports an event one of whose hashed columns was changed behind
\* appendEvent's back and, as long as none was and nothing was deleted, blames only appends
\* that overlapped or failed.  It says nothing of a change of event_status, before or after
\* which it answers the same: for that column the log is not tamper-evident.
THEOREM VerifiesJustly == ShipSpec => []VerificationIsJust
<1>1. ShipInv => VerificationIsJust
  BY LogInvVerifies DEF ShipInv
<1>2. QED BY <1>1, ShipmentsInvariant, PTL

\* getShipmentState's cached state is the log's, but for the appends in progress and the
\* readers and failures that overtake it.
THEOREM CacheStaysCurrent == ShipSpec => []CachedIsCurrent
<1>1. ShipInv => CachedIsCurrent
  BY DEF ShipInv, LogInv
<1>2. QED BY <1>1, ShipmentsInvariant, PTL

\* The row and the log of a shipment agree, whatever fails between the two.
THEOREM RowsAgree == ShipSpec => []RowAgreesWithLog
<1>1. ASSUME ShipInv PROVE RowAgreesWithLog
  <2>1. LogInv /\ Kept /\ ServedOK /\ Flagged
    BY <1>1, ShipInvServed
  <2>2. ShipTypeOK
    BY <2>1, LogInvTypes DEF ShipTypeOK, ServedOK, RowType
  <2>3. ASSUME NEW a \in Appends
        PROVE  /\ what[a] = "create" /\ handler[a] = "answered" => InLog(a) \/ trims > 0
               /\ what[a] = "exception" /\ InLog(a) =>
                    row.exceptionFlag \/ handler[a] \in {"recording", "flag", "failed"}
    <3>1. InLog(a) => op[a] \notin {"idle", "insert"}
      BY <2>1 DEF InLog, LogInv, LogOK, Contents
    <3>2. QED BY <2>1, <3>1 DEF Kept, ServedOK, RequestOK
  <2>4. QED BY <2>1, <2>2, <2>3 DEF RowAgreesWithLog, Flagged
<1>2. QED BY <1>1, ShipmentsInvariant, PTL
=============================================================================
