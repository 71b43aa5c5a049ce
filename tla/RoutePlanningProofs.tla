------------------------ MODULE RoutePlanningProofs ------------------------
(***************************************************************************)
(* Theorems about RoutePlanning, for every number of orders, requests,     *)
(* servers, routes, calls and failures: an order is on two routes only by  *)
(* rival requests, routes and the status of orders agree, a job reported   *)
(* done did its work, callers are told the truth, and a route that two     *)
(* calls did not contest only moves forward.                               *)
(***************************************************************************)
EXTENDS RoutePlanning, FiniteSetTheorems, WellFoundedInduction, TLAPS

-----------------------------------------------------------------------------
(* The queue and its workers: the inductive invariant *)

InList(j) == \E i \in DOMAIN list : list[i] = j
Fresh == [status |-> "pending", intact |-> TRUE]

\* A job is in one place: with its request, on the list, or in the hands of one worker.
PlacesOK ==
  /\ \A i, k \in DOMAIN list : list[i] = list[k] => i = k
  /\ \A j \in Jobs : InList(j) => request[j] = "answered"
  /\ \A w \in Workers : worker[w].pc = "pop" <=> worker[w].job = None
  /\ \A w, v \in Workers : worker[w].job = worker[v].job /\ worker[w].job \in Jobs => w = v
  /\ \A w \in Workers : worker[w].job \in Jobs =>
       request[worker[w].job] = "answered" /\ ~InList(worker[w].job)

\* What the hash of a job says, given where the job is.
RecordsOK ==
  /\ \A j \in Jobs : /\ request[j] \in {"none", "save"} => record[j] = None
                     /\ request[j] = "push" \/ InList(j) => record[j] = Fresh
                     /\ Ended(j) => ~InList(j)
                     /\ Ended(j) /\ record[j].status = "failed" => j \in cut
  /\ \A w \in Workers : worker[w].job \in Jobs =>
       /\ record[worker[w].job] # None
       /\ worker[w].pc = "read" => record[worker[w].job] = Fresh
       /\ worker[w].pc \in {"insert", "allocate", "done"} => worker[w].intact
       /\ worker[w].pc \in {"mark", "solve"} /\ ~worker[w].intact => worker[w].job \in cut
       /\ worker[w].pc \in {"failed", "dead"} => worker[w].job \in cut
       /\ Ended(worker[w].job) => worker[w].pc \in {"failed", "dead"}

\* Between the solver's answer and the UPDATE: what is still to be inserted and what has been.
GroupsOK ==
  \A w \in Workers : worker[w].pc \in {"insert", "allocate"} =>
    /\ worker[w].pc = "allocate" => worker[w].left = {}
    /\ worker[w].kept \subseteq wanted[worker[w].job]
    /\ \A g \in worker[w].left : g \subseteq worker[w].kept
    /\ \A g, h \in worker[w].left : g # h => g \cap h = {}
    /\ \A r \in Rows : route[r].job = worker[w].job =>
         route[r].orders \subseteq worker[w].kept /\ \A g \in worker[w].left : route[r].orders \cap g = {}
    /\ \A o \in worker[w].kept : \/ \E g \in worker[w].left : o \in g
                                 \/ \E r \in Rows : route[r].job = worker[w].job /\ o \in route[r].orders

\* A route is of a job whose solver has answered, and two of one job share no order.
RoutesOK ==
  /\ \A r \in Rows : IF route[r].job \in Jobs
       THEN /\ request[route[r].job] = "answered" /\ ~InList(route[r].job)
            /\ route[r].orders \subseteq wanted[route[r].job]
            /\ \A w \in Workers : worker[w].job = route[r].job =>
                 worker[w].pc \in {"insert", "allocate", "done", "failed", "dead"}
       ELSE route[r].orders = {}
  /\ \A r, s \in Rows : r # s /\ route[r].job = route[s].job => route[r].orders \cap route[s].orders = {}

Allocated(j) == \A r \in Rows : route[r].job = j => \A o \in route[r].orders : order[o].status = "allocated"
AllocationOK ==
  /\ RoutedIsAllocated /\ AllocatedIsRouted /\ DoneIsTrue
  /\ \A w \in Workers : worker[w].pc = "done" => Allocated(worker[w].job)

\* Job j ended before the orders of k were found pending.
Clear(j, k) == Ended(j) /\ \A r \in Rows : route[r].job = j => route[r].orders \cap wanted[k] = {}
RivalsOK ==
  \A j, k \in Jobs : j # k /\ request[j] # "none" /\ request[k] # "none" =>
    \/ {j, k} \in rivals
    \/ j \in cut \/ k \in cut
    \/ Clear(j, k) \/ Clear(k, j)

-----------------------------------------------------------------------------
(* The calls on a route: the inductive invariant *)

On(c, r) == call[c].route = r /\ ~Ready(c)

\* A route on which no two calls overlap is in the state in which its call found it.
CallsOK ==
  /\ \A c \in Calls : call[c].pc # "none" => call[c].route \in Rows
  /\ \A c, d \in Calls, r \in Routes \ contested : On(c, r) /\ On(d, r) => c = d
  /\ \A c \in Calls : call[c].route \notin contested =>
       /\ call[c].pc = "confirming" => route[call[c].route].status = "planned"
       /\ call[c].pc = "feeding" => route[call[c].route].status = "confirmed"

\* The samples taken of a route: none before a call feeds them, then those of its legs.
FedOK ==
  /\ \A r \in Routes : r \notin Rows => fed[r] = 0
  /\ \A r \in Rows \ (contested \cup unsure) :
       /\ fed[r] <= Legs(r)
       /\ route[r].status = "planned" => fed[r] = 0
       /\ route[r].status = "confirmed" /\ (\A c \in Calls : ~(call[c].pc = "feeding" /\ call[c].route = r))
            => fed[r] = 0
       /\ \A c \in Calls : call[c].pc = "feeding" /\ call[c].route = r =>
            fed[r] <= call[c].leg /\ call[c].leg <= Legs(r)

QueueInv == PlacesOK /\ RecordsOK /\ GroupsOK /\ RoutesOK /\ AllocationOK /\ RivalsOK
LifeInv == CallsOK /\ FedOK /\ ToldDriverDrives
PlanningInv == TypeOK /\ QueueInv /\ LifeInv

-----------------------------------------------------------------------------
(* Rows *)

LEMMA LeastOf ==
  ASSUME NEW S \in SUBSET Nat, S # {}
  PROVE  Min(S) \in S
<1>1. PICK i \in S : \A k \in S : ~ (<<k, i>> \in OpToRel(<, Nat))
  BY NatLessThanWellFounded, WFMin
<1>2. \A k \in S : ~ (k < i)
  BY <1>1 DEF OpToRel
<1>3. i \in S /\ \A k \in S : i <= k
  BY <1>2
<1>4. QED BY <1>3 DEF Min

LEMMA MinFree ==
  ASSUME Free # {}
  PROVE  Min(Free) \in Routes /\ route[Min(Free)] = None
<1>1. Free \in SUBSET Nat
  BY PlanningConstants DEF Free, Routes
<1>2. Min(Free) \in Free
  BY <1>1, LeastOf
<1>3. QED BY <1>2 DEF Free

\* The fields of a row, and of a hash.
LEMMA RowTypes ==
  ASSUME TypeOK
  PROVE  /\ \A r \in Rows : /\ route[r] \in RouteRow /\ route[r].orders \subseteq Orders
                            /\ route[r].job \in Jobs \cup {None}
         /\ Rows \subseteq Routes
BY DEF TypeOK, Rows, RouteRow

\* What a step on the calls may do to the routes: neither who made them nor their orders change.
RoutesKept ==
  /\ route' \in [Routes -> RouteRow \cup {None}]
  /\ \A r \in Routes : route'[r] = None <=> route[r] = None
  /\ \A r \in Rows : route'[r].job = route[r].job /\ route'[r].orders = route[r].orders

LEMMA CallsKeepQueue ==
  ASSUME TypeOK, QueueInv, RoutesKept,
         UNCHANGED <<order, record, list, request, wanted, worker, rivals, cut>>
  PROVE  QueueInv'
<1>1. Rows' = Rows
  BY DEF RoutesKept, Rows
<1>2. PlacesOK'
  BY DEF QueueInv, PlacesOK, InList
<1>3. RecordsOK'
  BY DEF QueueInv, RecordsOK, InList, Ended
<1>4. GroupsOK'
  BY <1>1 DEF QueueInv, GroupsOK, RoutesKept
<1>5. RoutesOK'
  BY <1>1 DEF QueueInv, RoutesOK, RoutesKept, InList
<1>6. \A j : Allocated(j) => Allocated(j)'
  BY <1>1 DEF Allocated, RoutesKept
<1>7. AllocationOK'
  <2>1. RoutedIsAllocated' /\ AllocatedIsRouted'
    BY <1>1 DEF QueueInv, AllocationOK, RoutesKept, RoutedIsAllocated, AllocatedIsRouted
  <2>2. DoneIsTrue'
    BY <1>1 DEF QueueInv, AllocationOK, RoutesKept, DoneIsTrue
  <2>3. QED BY <1>6, <2>1, <2>2 DEF QueueInv, AllocationOK
<1>8. \A j, k \in Jobs : Clear(j, k) => Clear(j, k)'
  BY <1>1 DEF Clear, Ended, RoutesKept
<1>9. RivalsOK'
  BY <1>8 DEF QueueInv, RivalsOK
<1>10. QED BY <1>2, <1>3, <1>4, <1>5, <1>7, <1>9 DEF QueueInv

\* What a step of the queue may do to the routes: add one.
RowsKept ==
  /\ \A r \in Routes : route'[r] = route[r]
       \/ (route[r] = None /\ route'[r] \in RouteRow /\ route'[r].status = "planned")

LEMMA QueueKeepsCalls ==
  ASSUME TypeOK, LifeInv, RowsKept, UNCHANGED <<call, contested, unsure, fed>>
  PROVE  LifeInv'
<1>1. Rows \subseteq Rows' /\ \A r \in Rows : route'[r] = route[r]
  BY NoneIsNoRow DEF RowsKept, Rows
<1>2. \A r \in Rows' \ Rows : r \in Routes /\ route'[r].status = "planned"
  BY DEF RowsKept, Rows
<1>3. CallsOK'
  BY <1>1 DEF LifeInv, CallsOK, On, Ready
<1>4. ToldDriverDrives'
  BY <1>1 DEF LifeInv, CallsOK, ToldDriverDrives
<1>5. \A r \in Rows : Legs(r)' = Legs(r)
  BY <1>1 DEF Legs
<1>6. ASSUME NEW r \in Rows' \ Rows PROVE fed[r] = 0 /\ fed[r] <= Legs(r)' /\ \A c \in Calls : call[c].pc = "feeding" => call[c].route # r
  <2>1. fed[r] = 0
    BY <1>2 DEF LifeInv, FedOK
  <2>2. Legs(r)' \in Nat
    <3>1. route'[r] \in RouteRow
      BY <1>2 DEF RowsKept, Rows
    <3>2. IsFiniteSet(route'[r].orders)
      BY <3>1, PlanningConstants, FS_Subset DEF RouteRow
    <3>3. QED BY <3>2, FS_CardinalityType DEF Legs
  <2>3. \A c \in Calls : call[c].pc = "feeding" => call[c].route # r
    BY DEF LifeInv, CallsOK
  <2>4. QED BY <2>1, <2>2, <2>3
<1>7. FedOK'
  <2>1. \A r \in Routes : r \notin Rows' => fed[r] = 0
    BY <1>1 DEF LifeInv, FedOK
  <2>2. ASSUME NEW r \in Rows' \ (contested \cup unsure)
        PROVE  /\ fed[r] <= Legs(r)'
               /\ route'[r].status = "planned" => fed[r] = 0
               /\ route'[r].status = "confirmed" /\ (\A c \in Calls : ~(call[c].pc = "feeding" /\ call[c].route = r))
                    => fed[r] = 0
               /\ \A c \in Calls : call[c].pc = "feeding" /\ call[c].route = r =>
                    fed[r] <= call[c].leg /\ call[c].leg <= Legs(r)'
    <3>1. CASE r \in Rows
      <4>1. route'[r] = route[r] /\ Legs(r)' = Legs(r) /\ r \in Rows \ (contested \cup unsure)
        BY <1>1, <1>5, <2>2, <3>1
      <4>2. QED BY <4>1 DEF LifeInv, FedOK
    <3>2. CASE r \notin Rows
      <4>1. r \in Rows' \ Rows
        BY <2>2, <3>2
      <4>2. QED BY <1>2, <1>6, <4>1
    <3>3. QED BY <3>1, <3>2
  <2>3. QED BY <2>1, <2>2 DEF FedOK
<1>8. QED BY <1>3, <1>4, <1>7 DEF LifeInv

-----------------------------------------------------------------------------
(* The calls on a route, step by step *)

Asked == [pc : {"none", "confirming", "confirmed", "feeding", "completed", "error"},
          route : Routes \cup {0}, driver : Drivers \cup {None}, leg : Nat]

CallTypes == call \in [Calls -> Asked]

LEMMA CallRoute ==
  ASSUME TypeOK
  PROVE  /\ CallTypes
         /\ \A c \in Calls : call[c] \in Asked /\ (call[c].route \in Rows => call[c].route \in Routes)
         /\ contested \subseteq Routes /\ unsure \subseteq Routes
         /\ \A r \in Routes : fed[r] \in Nat
         /\ \A r \in Rows : Legs(r) \in Nat
<1>1. \A r \in Rows : IsFiniteSet(route[r].orders)
  BY RowTypes, PlanningConstants, FS_Subset
<1>2. \A r \in Rows : Legs(r) \in Nat
  BY <1>1, FS_CardinalityType DEF Legs
<1>3. QED BY <1>2 DEF TypeOK, CallTypes, Asked, Rows

\* A call that begins: the route it found, or one that two calls are now at.
LEMMA CallBegins ==
  ASSUME TypeOK, LifeInv, NEW c \in Calls, NEW r \in Rows, Ready(c), NEW a \in Asked,
         a.route = r, a.leg = 0,
         \/ a.pc = "confirming" /\ route[r].status = "planned"
         \/ a.pc = "feeding" /\ route[r].status = "confirmed",
         call' = [call EXCEPT ![c] = a], Contest(r), UNCHANGED <<route, unsure, fed>>
  PROVE  LifeInv'
<1>1. /\ \A d \in Calls : call'[d] = IF d = c THEN a ELSE call[d]
      /\ Rows' = Rows /\ r \in Routes
  BY CallRoute, RowTypes DEF CallTypes, Rows
<1>2. contested \subseteq contested' /\ (r \notin contested' => ~Busy(r) /\ r \notin contested)
      /\ contested' \subseteq contested \cup {r}
  BY DEF Contest
<1>3. \A d \in Calls, s \in Routes :
        On(d, s)' <=> IF d = c THEN s = r ELSE On(d, s)
  BY <1>1 DEF On, Ready
<1>4. CallsOK'
  <2>1. \A d \in Calls : call'[d].pc # "none" => call'[d].route \in Rows'
    BY <1>1 DEF LifeInv, CallsOK
  <2>2. ASSUME NEW d \in Calls, NEW e \in Calls, NEW s \in Routes \ contested', On(d, s)', On(e, s)'
        PROVE  d = e
    <3>1. CASE s = r
      <4>1. \A f \in Calls : ~On(f, r)
        BY <1>2, <2>2, <3>1 DEF Busy, On
      <4>2. QED BY <1>3, <2>2, <3>1, <4>1
    <3>2. CASE s # r
      BY <1>2, <1>3, <2>2, <3>2 DEF LifeInv, CallsOK
    <3>3. QED BY <3>1, <3>2
  <2>3. \A d \in Calls : call'[d].route \notin contested' =>
           /\ call'[d].pc = "confirming" => route[call'[d].route].status = "planned"
           /\ call'[d].pc = "feeding" => route[call'[d].route].status = "confirmed"
    BY <1>1, <1>2 DEF LifeInv, CallsOK
  <2>4. QED BY <2>1, <2>2, <2>3 DEF CallsOK
<1>5. \A s \in Rows : Legs(s)' = Legs(s)
  BY DEF Legs
<1>6. FedOK'
  <2>1. SUFFICES ASSUME NEW s \in Rows \ (contested' \cup unsure)
        PROVE  /\ fed[s] <= Legs(s)
               /\ route[s].status = "planned" => fed[s] = 0
               /\ route[s].status = "confirmed" /\ (\A d \in Calls : ~(call'[d].pc = "feeding" /\ call'[d].route = s))
                    => fed[s] = 0
               /\ \A d \in Calls : call'[d].pc = "feeding" /\ call'[d].route = s =>
                    fed[s] <= call'[d].leg /\ call'[d].leg <= Legs(s)
    BY <1>1, <1>5 DEF LifeInv, FedOK
  <2>2. s \in Rows \ (contested \cup unsure) /\ Legs(s) \in Nat /\ fed[s] \in Nat
    BY <1>2, CallRoute, RowTypes
  <2>3. CASE s = r
    <3>1. \A d \in Calls : call[d].route = r => call[d].pc # "feeding"
      BY <1>2, <2>1, <2>3 DEF Busy, Ready
    <3>2. fed[r] = 0
      BY <2>2, <2>3, <3>1 DEF LifeInv, FedOK
    <3>3. \A d \in Calls : call'[d].pc = "feeding" /\ call'[d].route = r => call'[d].leg = 0
      BY <1>1, <3>1
    <3>4. QED BY <2>2, <2>3, <3>2, <3>3
  <2>4. CASE s # r
    <3>1. \A d \in Calls : (call'[d].pc = "feeding" /\ call'[d].route = s) <=>
                           (call[d].pc = "feeding" /\ call[d].route = s /\ d # c)
      BY <1>1, <2>4
    <3>2. call[c].pc # "feeding"
      BY DEF Ready
    <3>3. \A d \in Calls : (call'[d].pc = "feeding" /\ call'[d].route = s) <=>
                           (call[d].pc = "feeding" /\ call[d].route = s)
      BY <3>1, <3>2
    <3>4. \A d \in Calls : d # c => call'[d] = call[d]
      BY <1>1
    <3>5. QED BY <2>2, <3>1, <3>3, <3>4 DEF LifeInv, FedOK
  <2>5. QED BY <2>3, <2>4
<1>7. ToldDriverDrives'
  BY <1>1, <1>2 DEF LifeInv, ToldDriverDrives
<1>8. QED BY <1>4, <1>6, <1>7 DEF LifeInv

\* The row of a call changes, and nobody else is at it, or it is contested.
LEMMA RowWritten ==
  ASSUME TypeOK, NEW r \in Rows, NEW row \in RouteRow, route' = [route EXCEPT ![r] = row],
         row.orders = route[r].orders, row.job = route[r].job
  PROVE  /\ RoutesKept /\ Rows' = Rows
         /\ \A s \in Routes : route'[s] = IF s = r THEN row ELSE route[s]
         /\ \A s \in Rows : Legs(s)' = Legs(s)
<1>1. r \in Routes /\ route \in [Routes -> RouteRow \cup {None}]
  BY RowTypes DEF TypeOK
<1>2. \A s \in Routes : route'[s] = IF s = r THEN row ELSE route[s]
  BY <1>1
<1>3. Rows' = Rows
  BY <1>2, NoneIsNoRow DEF Rows
<1>4. RoutesKept
  BY <1>1, <1>2, NoneIsNoRow DEF RoutesKept, Rows
<1>5. \A s \in Rows : Legs(s)' = Legs(s)
  BY <1>2 DEF Legs, Rows
<1>6. QED BY <1>2, <1>3, <1>4, <1>5

LEMMA RowWith ==
  ASSUME NEW row \in RouteRow, NEW x \in {"planned", "confirmed", "completed"},
         NEW d \in Drivers \cup {None}
  PROVE  [row EXCEPT !.status = x, !.driver = d] \in RouteRow
BY DEF RouteRow

LEMMA ConfirmRow ==
  ASSUME TypeOK, LifeInv, NEW c \in Calls, Confirm(c)
  PROVE  LET r == call[c].route IN
         /\ r \in Rows /\ On(c, r)
         /\ [route[r] EXCEPT !.status = "confirmed", !.driver = call[c].driver] \in RouteRow
         /\ route' = [route EXCEPT ![r] = [route[r] EXCEPT !.status = "confirmed",
                                                           !.driver = call[c].driver]]
         /\ \A d \in Calls : call'[d] = IF d = c THEN [call[c] EXCEPT !.pc = "confirmed"] ELSE call[d]
<1>1. call[c].pc = "confirming" /\ call[c].route \in Rows
  BY DEF Confirm, LifeInv, CallsOK
<1>2. On(c, call[c].route)
  BY <1>1 DEF On, Ready
<1>3. \A d \in Calls : call'[d] = IF d = c THEN [call[c] EXCEPT !.pc = "confirmed"] ELSE call[d]
  BY CallRoute DEF Confirm, CallTypes
<1>4. [route[call[c].route] EXCEPT !.status = "confirmed", !.driver = call[c].driver] \in RouteRow
  <2>1. call[c].driver \in Drivers \cup {None} /\ route[call[c].route] \in RouteRow
    BY <1>1, RowTypes, CallRoute DEF Asked
  <2>2. PICK row \in RouteRow : row = route[call[c].route]
    BY <2>1
  <2>3. [row EXCEPT !.status = "confirmed", !.driver = call[c].driver] \in RouteRow
    BY <2>1, RowWith
  <2>4. QED BY <2>2, <2>3
<1>5. route' = [route EXCEPT ![call[c].route] =
                  [route[call[c].route] EXCEPT !.status = "confirmed", !.driver = call[c].driver]]
  BY <1>1, RowTypes DEF Confirm, TypeOK, Rows
<1>6. QED BY <1>1, <1>2, <1>3, <1>4, <1>5

\* The UPDATE of the call that alone is on the route: the row is as the call found it.
LEMMA WriteCalls ==
  ASSUME TypeOK, LifeInv, NEW c \in Calls, NEW r \in Rows, On(c, r),
         NEW row \in RouteRow, NEW a \in Asked,
         route' = [route EXCEPT ![r] = row], row.orders = route[r].orders, row.job = route[r].job,
         call' = [call EXCEPT ![c] = a], a.route = r,
         \/ call[c].pc = "confirming" /\ row.status = "confirmed" /\ a.pc = "confirmed"
            /\ row.driver = a.driver
         \/ call[c].pc = "feeding" /\ call[c].leg = Legs(r) /\ row.status = "completed"
            /\ a.pc = "completed" /\ row.driver = route[r].driver,
         UNCHANGED <<contested, unsure, fed>>
  PROVE  LifeInv'
<1>1. /\ \A d \in Calls : call'[d] = IF d = c THEN a ELSE call[d]
      /\ Rows' = Rows /\ r \in Routes /\ Rows \subseteq Routes
      /\ \A s \in Routes : route'[s] = IF s = r THEN row ELSE route[s]
      /\ \A s \in Rows : Legs(s)' = Legs(s)
  BY CallRoute, RowTypes, RowWritten DEF CallTypes
<1>2. call[c].route = r /\ a.pc \notin {"confirming", "feeding"} /\ call[c].pc \in {"confirming", "feeding"}
  BY DEF On, Ready
<1>3. \A d \in Calls, s \in Routes : On(d, s)' <=> d # c /\ On(d, s)
  BY <1>1, <1>2 DEF On, Ready
<1>4. \A d \in Calls : d # c /\ r \notin contested => ~On(d, r)
  BY <1>1 DEF LifeInv, CallsOK
<1>5. CallsOK'
  <2>1. \A d \in Calls : call'[d].pc # "none" => call'[d].route \in Rows'
    BY <1>1 DEF LifeInv, CallsOK
  <2>2. \A d, e \in Calls, s \in Routes \ contested' : On(d, s)' /\ On(e, s)' => d = e
    BY <1>3 DEF LifeInv, CallsOK
  <2>3. ASSUME NEW d \in Calls, call'[d].route \notin contested'
        PROVE  /\ call'[d].pc = "confirming" => route'[call'[d].route].status = "planned"
               /\ call'[d].pc = "feeding" => route'[call'[d].route].status = "confirmed"
    <3>1. CASE d = c
      BY <1>1, <1>2, <3>1
    <3>2. CASE d # c
      <4>1. SUFFICES ASSUME ~Ready(d)
                     PROVE  /\ call'[d].pc = "confirming" => route'[call'[d].route].status = "planned"
                            /\ call'[d].pc = "feeding" => route'[call'[d].route].status = "confirmed"
        BY <1>1, <3>2 DEF Ready
      <4>2. call[d].route \in Rows /\ call'[d] = call[d] /\ call[d].route # r
        BY <1>1, <1>4, <2>3, <3>2, <4>1 DEF LifeInv, CallsOK, On, Ready
      <4>3. QED BY <1>1, <2>3, <4>2 DEF LifeInv, CallsOK
    <3>3. QED BY <3>1, <3>2
  <2>4. QED BY <2>1, <2>2, <2>3 DEF CallsOK
<1>6. FedOK'
  <2>1. SUFFICES ASSUME NEW s \in Rows \ (contested \cup unsure)
        PROVE  /\ fed[s] <= Legs(s)
               /\ route'[s].status = "planned" => fed[s] = 0
               /\ route'[s].status = "confirmed" /\ (\A d \in Calls : ~(call'[d].pc = "feeding" /\ call'[d].route = s))
                    => fed[s] = 0
               /\ \A d \in Calls : call'[d].pc = "feeding" /\ call'[d].route = s =>
                    fed[s] <= call'[d].leg /\ call'[d].leg <= Legs(s)
    BY <1>1 DEF LifeInv, FedOK
  <2>2. Legs(s) \in Nat /\ fed[s] \in Nat
    BY CallRoute, RowTypes
  <2>3. CASE s = r
    <3>1. \A d \in Calls : call'[d].route = r => call'[d].pc # "feeding"
      BY <1>1, <1>2, <1>4, <2>1, <2>3 DEF On, Ready
    <3>2. call[c].pc = "confirming" => fed[r] = 0
      BY <1>2, <2>1, <2>3 DEF LifeInv, FedOK, CallsOK
    <3>3. fed[r] <= Legs(r)
      BY <2>1, <2>3 DEF LifeInv, FedOK
    <3>4. QED BY <1>1, <2>3, <3>1, <3>2, <3>3
  <2>4. CASE s # r
    <3>1. \A d \in Calls : call'[d].pc = "feeding" /\ call'[d].route = s => call'[d] = call[d]
      BY <1>1, <2>4
    <3>2. \A d \in Calls : call[d].pc = "feeding" /\ call[d].route = s => call'[d] = call[d]
      BY <1>1, <1>2, <2>4
    <3>3. route'[s] = route[s]
      BY <1>1, <2>4
    <3>4. QED BY <2>1, <3>1, <3>2, <3>3 DEF LifeInv, FedOK
  <2>5. QED BY <2>3, <2>4
<1>7. ToldDriverDrives'
  <2>1. SUFFICES ASSUME NEW d \in Calls, call'[d].pc = "confirmed", call'[d].route \notin contested \cup unsure
                 PROVE  /\ route'[call'[d].route].driver = call'[d].driver
                        /\ route'[call'[d].route].status # "planned"
    BY DEF ToldDriverDrives
  <2>2. CASE d = c
    BY <1>1, <1>2, <2>1, <2>2
  <2>3. CASE d # c
    <3>1. /\ call'[d] = call[d] /\ call[d].route \in Rows
          /\ route[call[d].route].driver = call[d].driver /\ route[call[d].route].status # "planned"
      BY <1>1, <2>1, <2>3 DEF LifeInv, CallsOK, ToldDriverDrives
    <3>2. CASE call[d].route = r
      <4>1. call[c].pc = "feeding"
        BY <1>2, <2>1, <3>1, <3>2 DEF LifeInv, CallsOK
      <4>2. QED BY <1>1, <2>1, <3>1, <3>2, <4>1
    <3>3. CASE call[d].route # r
      BY <1>1, <3>1, <3>3
    <3>4. QED BY <3>2, <3>3
  <2>4. QED BY <2>2, <2>3
<1>8. QED BY <1>5, <1>6, <1>7 DEF LifeInv

\* Nobody is told of a route that a reassignment touches, or counts on one whose call fails.
LEMMA UnsureCalls ==
  ASSUME TypeOK, LifeInv, NEW r \in Rows, unsure' = unsure \cup {r}, UNCHANGED <<contested, fed>>,
         call' = call \/ (\E c \in Calls : On(c, r) /\ call' = [call EXCEPT ![c].pc = "error"]),
         NEW row \in RouteRow, route' = [route EXCEPT ![r] = row],
         row.orders = route[r].orders, row.job = route[r].job, row.status = route[r].status
  PROVE  LifeInv'
<1>1. /\ Rows' = Rows /\ r \in Routes /\ Rows \subseteq Routes
      /\ \A s \in Routes : route'[s] = IF s = r THEN row ELSE route[s]
      /\ \A s \in Rows : Legs(s)' = Legs(s)
  BY RowTypes, RowWritten
<1>2. \A d \in Calls : /\ call'[d].route = call[d].route /\ call'[d].driver = call[d].driver
                       /\ call'[d].leg = call[d].leg
                       /\ call'[d].pc = call[d].pc
                          \/ (call[d].route = r /\ call[d].pc # "none" /\ call'[d].pc = "error")
  BY CallRoute DEF CallTypes, Asked, On, Ready
<1>3. CallsOK'
  <2>1. \A d \in Calls : call'[d].pc # "none" => call'[d].route \in Rows'
    BY <1>1, <1>2 DEF LifeInv, CallsOK
  <2>2. \A d \in Calls, s \in Routes : On(d, s)' => On(d, s)
    BY <1>2 DEF On, Ready
  <2>3. \A d, e \in Calls, s \in Routes \ contested' : On(d, s)' /\ On(e, s)' => d = e
    BY <2>2 DEF LifeInv, CallsOK
  <2>4. \A s \in Rows : route'[s].status = route[s].status
    BY <1>1
  <2>5. \A d \in Calls : call'[d].route \notin contested' =>
           /\ call'[d].pc = "confirming" => route'[call'[d].route].status = "planned"
           /\ call'[d].pc = "feeding" => route'[call'[d].route].status = "confirmed"
    BY <1>1, <1>2, <2>4 DEF LifeInv, CallsOK
  <2>6. QED BY <2>1, <2>3, <2>5 DEF CallsOK
<1>4. FedOK'
  <2>1. \A s \in Routes : s \notin Rows' => fed'[s] = 0
    BY <1>1 DEF LifeInv, FedOK
  <2>2. SUFFICES ASSUME NEW s \in Rows \ (contested \cup unsure), s # r
        PROVE  /\ fed[s] <= Legs(s)
               /\ route'[s].status = "planned" => fed[s] = 0
               /\ route'[s].status = "confirmed" /\ (\A d \in Calls : ~(call'[d].pc = "feeding" /\ call'[d].route = s))
                    => fed[s] = 0
               /\ \A d \in Calls : call'[d].pc = "feeding" /\ call'[d].route = s =>
                    fed[s] <= call'[d].leg /\ call'[d].leg <= Legs(s)
    BY <1>1, <2>1 DEF FedOK
  <2>3. route'[s] = route[s]
    BY <1>1, <2>2
  <2>4. \A d \in Calls : (call'[d].pc = "feeding" /\ call'[d].route = s) <=>
                         (call[d].pc = "feeding" /\ call[d].route = s)
    BY <1>2, <2>2
  <2>5. QED BY <1>2, <2>2, <2>3, <2>4 DEF LifeInv, FedOK
<1>5. ToldDriverDrives'
  BY <1>1, <1>2 DEF LifeInv, CallsOK, ToldDriverDrives
<1>6. QED BY <1>3, <1>4, <1>5 DEF LifeInv

\* One leg more, counted or skipped.
LEMMA LegFed ==
  ASSUME TypeOK, LifeInv, NEW c \in Calls, FeedLeg(c)
  PROVE  LifeInv'
<1> DEFINE r == call[c].route
<1>1. /\ call[c].pc = "feeding" /\ call[c].leg < Legs(r) /\ r \in Rows
      /\ call' = [call EXCEPT ![c].leg = call[c].leg + 1]
      /\ fed' = fed \/ fed' = [fed EXCEPT ![r] = fed[r] + 1]
      /\ UNCHANGED <<route, contested, unsure>>
  BY DEF FeedLeg, LifeInv, CallsOK
<1>2. PICK q \in Rows : q = r
  BY <1>1
<1>3. /\ Rows' = Rows /\ q \in Routes /\ Rows \subseteq Routes
      /\ \A s \in Rows : Legs(s)' = Legs(s)
  BY <1>1, RowTypes DEF Rows, Legs
<1>4. \A d \in Calls : /\ call'[d].route = call[d].route /\ call'[d].driver = call[d].driver
                       /\ call'[d].pc = call[d].pc
                       /\ call'[d].leg = IF d = c THEN call[c].leg + 1 ELSE call[d].leg
                       /\ call[d].leg \in Nat
  BY <1>1, CallRoute DEF CallTypes, Asked
<1>5. \A s \in Routes : fed'[s] \in {fed[s], IF s = q THEN fed[q] + 1 ELSE fed[s]}
  BY <1>1, <1>2, <1>3 DEF TypeOK
<1>6. CallsOK' /\ ToldDriverDrives'
  <2>1. \A d \in Calls, s \in Routes : On(d, s)' <=> On(d, s)
    BY <1>4 DEF On, Ready
  <2>2. CallsOK'
    BY <1>1, <1>3, <1>4, <2>1 DEF LifeInv, CallsOK
  <2>3. ToldDriverDrives'
    BY <1>1, <1>4 DEF LifeInv, ToldDriverDrives
  <2>4. QED BY <2>2, <2>3
<1>7. FedOK'
  <2>1. \A s \in Routes : s \notin Rows' => fed'[s] = 0
    BY <1>3, <1>5 DEF LifeInv, FedOK
  <2>2. SUFFICES ASSUME NEW s \in Rows \ (contested \cup unsure)
        PROVE  /\ fed'[s] <= Legs(s)
               /\ route[s].status = "planned" => fed'[s] = 0
               /\ route[s].status = "confirmed" /\ (\A d \in Calls : ~(call[d].pc = "feeding" /\ call[d].route = s))
                    => fed'[s] = 0
               /\ \A d \in Calls : call[d].pc = "feeding" /\ call[d].route = s =>
                    fed'[s] <= call'[d].leg /\ call'[d].leg <= Legs(s)
    BY <1>1, <1>3, <1>4, <2>1 DEF FedOK
  <2>3. Legs(s) \in Nat /\ fed[s] \in Nat
    BY CallRoute, RowTypes
  <2>4. CASE s = q
    <3>1. route[q].status = "confirmed"
      BY <1>1, <1>2, <2>2, <2>4 DEF LifeInv, CallsOK
    <3>2. On(c, q) /\ \A d \in Calls : call[d].pc = "feeding" /\ call[d].route = q => On(d, q)
      BY <1>1, <1>2 DEF On, Ready
    <3>3. \A d \in Calls : call[d].pc = "feeding" /\ call[d].route = q => d = c
      BY <1>3, <2>2, <2>4, <3>2 DEF LifeInv, CallsOK
    <3>4. fed[q] <= call[c].leg /\ call[c].leg < Legs(q) /\ call[c].leg \in Nat
      BY <1>1, <1>2, <1>4, <2>2, <2>4 DEF LifeInv, FedOK
    <3>5. fed'[q] <= call[c].leg + 1 /\ call'[c].leg = call[c].leg + 1 /\ call[c].leg + 1 <= Legs(q)
          /\ fed'[q] \in Nat
      BY <1>3, <1>4, <1>5, <2>3, <2>4, <3>4
    <3>6. fed'[q] <= Legs(q)
      BY <2>3, <2>4, <3>4, <3>5
    <3>7. QED BY <1>1, <1>2, <2>4, <3>1, <3>3, <3>5, <3>6
  <2>5. CASE s # q
    <3>1. fed'[s] = fed[s]
      BY <1>3, <1>5, <2>5
    <3>2. \A d \in Calls : call[d].route = s => call'[d].leg = call[d].leg
      BY <1>2, <1>4, <2>5
    <3>3. QED BY <2>2, <3>1, <3>2 DEF LifeInv, FedOK
  <2>6. QED BY <2>4, <2>5
<1>8. QED BY <1>6, <1>7 DEF LifeInv

-----------------------------------------------------------------------------
(* Every step on the calls *)

WorkerState ==
  [pc : {"pop", "read", "mark", "solve", "insert", "allocate", "done", "failed", "dead"},
   job : Jobs \cup {None}, intact : BOOLEAN, left : SUBSET SUBSET Orders, kept : SUBSET Orders]

QueueTypes ==
  /\ order \in [Orders -> OrderRow]
  /\ record \in [Jobs -> JobHash \cup {None}]
  /\ list \in Seq(Jobs)
  /\ request \in [Jobs -> {"none", "save", "push", "answered"}]
  /\ wanted \in [Jobs -> SUBSET Orders]
  /\ worker \in [Workers -> WorkerState]
  /\ rivals \subseteq SUBSET Jobs /\ cut \subseteq Jobs
RouteTypes ==
  /\ route \in [Routes -> RouteRow \cup {None}]
  /\ call \in [Calls -> Asked]
  /\ profile \in [samples : Nat, nan : BOOLEAN]
  /\ contested \subseteq Routes /\ unsure \subseteq Routes
  /\ fed \in [Routes -> Nat]

LEMMA TypeParts == TypeOK <=> QueueTypes /\ RouteTypes /\ failures \in Nat
BY DEF TypeOK, QueueTypes, RouteTypes, WorkerState, Asked

QueueStays == UNCHANGED <<order, record, list, request, wanted, worker, rivals, cut>>

LEMMA CallsStep ==
  ASSUME TypeOK, QueueInv, LifeInv, QueueStays, RouteTypes', failures' \in Nat, LifeInv',
         RoutesKept \/ route' = route
  PROVE  PlanningInv'
<1>1. RoutesKept
  BY DEF RoutesKept, TypeOK
<1>2. QueueInv'
  BY <1>1, CallsKeepQueue DEF QueueStays
<1>3. QueueTypes'
  BY TypeParts DEF QueueTypes, QueueStays
<1>4. TypeOK'
  BY <1>3 DEF TypeOK, QueueTypes, RouteTypes, WorkerState, Asked
<1>5. QED BY <1>2, <1>4 DEF PlanningInv

LEMMA BeginStep ==
  ASSUME PlanningInv, NEW c \in Calls, NEW r \in Routes,
         ReadToComplete(c, r) \/ \E d \in Drivers : ReadToConfirm(c, r, d)
  PROVE  PlanningInv'
<1>1. PICK a \in Asked :
        /\ a.route = r /\ a.leg = 0 /\ call' = [call EXCEPT ![c] = a]
        /\ \/ a.pc = "confirming" /\ route[r].status = "planned"
           \/ a.pc = "feeding" /\ route[r].status = "confirmed"
  <2>1. CASE ReadToComplete(c, r)
    <3>1. [pc |-> "feeding", route |-> r, driver |-> None, leg |-> 0] \in Asked
      BY DEF Asked
    <3>2. QED BY <2>1, <3>1 DEF ReadToComplete
  <2>2. ASSUME NEW d \in Drivers, ReadToConfirm(c, r, d)
        PROVE  \E a \in Asked :
                 /\ a.route = r /\ a.leg = 0 /\ call' = [call EXCEPT ![c] = a]
                 /\ \/ a.pc = "confirming" /\ route[r].status = "planned"
                    \/ a.pc = "feeding" /\ route[r].status = "confirmed"
    <3>1. [pc |-> "confirming", route |-> r, driver |-> d, leg |-> 0] \in Asked
      BY DEF Asked
    <3>2. QED BY <2>2, <3>1 DEF ReadToConfirm
  <2>3. QED BY <2>1, <2>2
<1>2. /\ Ready(c) /\ r \in Rows /\ Contest(r)
      /\ UNCHANGED <<order, record, list, request, wanted, worker, route, profile, unsure, fed, rivals,
                     failures, cut>>
  BY DEF ReadToComplete, ReadToConfirm, Rows, queueVars, Succeeds
<1>3. TypeOK /\ QueueInv /\ LifeInv
  BY DEF PlanningInv
<1>4. LifeInv'
  BY <1>1, <1>2, <1>3, CallBegins
<1>5. RouteTypes' /\ failures' \in Nat
  <2>1. contested' \subseteq Routes
    BY <1>2, <1>3, TypeParts DEF Contest, RouteTypes
  <2>2. QED BY <1>1, <1>2, <1>3, <2>1, TypeParts DEF RouteTypes
<1>6. QED BY <1>2, <1>3, <1>4, <1>5, CallsStep DEF QueueStays

LEMMA AnsweredCall ==
  ASSUME TypeOK, NEW c \in Calls, NEW x \in {"confirmed", "completed"}, call' = [call EXCEPT ![c].pc = x]
  PROVE  \E a \in Asked : /\ call' = [call EXCEPT ![c] = a] /\ a.pc = x
                         /\ a.route = call[c].route /\ a.driver = call[c].driver
<1>1. call[c] \in Asked /\ call \in [Calls -> Asked]
  BY CallRoute DEF CallTypes
<1>2. PICK a \in Asked : a = [call[c] EXCEPT !.pc = x]
  BY <1>1 DEF Asked
<1>3. a.pc = x /\ a.route = call[c].route /\ a.driver = call[c].driver
  BY <1>1, <1>2 DEF Asked
<1>4. QED BY <1>1, <1>2, <1>3

LEMMA ConfirmStep ==
  ASSUME PlanningInv, NEW c \in Calls, Confirm(c)
  PROVE  PlanningInv'
<1>1. TypeOK /\ QueueInv /\ LifeInv /\ RouteTypes /\ failures \in Nat
  BY TypeParts DEF PlanningInv
<1>2. /\ UNCHANGED <<order, record, list, request, wanted, worker, profile, contested, unsure, fed, rivals,
                     failures, cut>>
      /\ call[c].pc = "confirming" /\ call' = [call EXCEPT ![c].pc = "confirmed"]
  BY DEF Confirm, queueVars, Succeeds
<1>3. PICK r \in Rows : r = call[c].route
  BY <1>1, ConfirmRow
<1>4. PICK old \in RouteRow : old = route[r]
  BY <1>1, <1>3, RowTypes
<1>5. PICK row \in RouteRow : row = [old EXCEPT !.status = "confirmed", !.driver = call[c].driver]
  BY <1>1, <1>3, <1>4, ConfirmRow
<1>6. /\ On(c, r) /\ route' = [route EXCEPT ![r] = row]
      /\ row.orders = route[r].orders /\ row.job = route[r].job /\ row.status = "confirmed"
      /\ row.driver = call[c].driver
  BY <1>1, <1>3, <1>4, <1>5, ConfirmRow DEF RouteRow
<1>7. PICK a \in Asked : /\ call' = [call EXCEPT ![c] = a] /\ a.pc = "confirmed"
                         /\ a.route = call[c].route /\ a.driver = call[c].driver
  BY <1>1, <1>2, AnsweredCall
<1>8. a.route = r /\ row.driver = a.driver
  BY <1>3, <1>6, <1>7
<1>9. LifeInv'
  <2>1. UNCHANGED <<contested, unsure, fed>>
    BY <1>2
  <2>2. QED BY <1>1, <1>2, <1>6, <1>7, <1>8, <2>1, WriteCalls
<1>10. RoutesKept
  BY <1>1, <1>6, RowWritten
<1>11. RouteTypes' /\ failures' \in Nat
  BY <1>1, <1>2, <1>7, <1>10 DEF RouteTypes, RoutesKept
<1>12. QED BY <1>1, <1>2, <1>9, <1>10, <1>11, CallsStep DEF QueueStays

LEMMA CompleteStep ==
  ASSUME PlanningInv, NEW c \in Calls, Complete(c)
  PROVE  PlanningInv'
<1>1. TypeOK /\ QueueInv /\ LifeInv /\ RouteTypes /\ failures \in Nat
  BY TypeParts DEF PlanningInv
<1>2. /\ UNCHANGED <<order, record, list, request, wanted, worker, profile, contested, unsure, fed, rivals,
                     failures, cut>>
      /\ call[c].pc = "feeding" /\ call[c].leg = Legs(call[c].route)
      /\ route' = [route EXCEPT ![call[c].route].status = "completed"]
      /\ call' = [call EXCEPT ![c].pc = "completed"]
  BY DEF Complete, queueVars, Succeeds
<1>3. PICK r \in Rows : r = call[c].route
  BY <1>1, <1>2 DEF LifeInv, CallsOK
<1>4. PICK old \in RouteRow : old = route[r]
  BY <1>1, RowTypes
<1>5. PICK row \in RouteRow : row = [old EXCEPT !.status = "completed"]
  BY DEF RouteRow
<1>6. /\ On(c, r) /\ route' = [route EXCEPT ![r] = row]
      /\ row.orders = route[r].orders /\ row.job = route[r].job /\ row.status = "completed"
      /\ row.driver = route[r].driver
  BY <1>1, <1>2, <1>3, <1>4, <1>5 DEF RouteRow, RouteTypes, On, Ready, Rows
<1>7. PICK a \in Asked : /\ call' = [call EXCEPT ![c] = a] /\ a.pc = "completed"
                         /\ a.route = call[c].route /\ a.driver = call[c].driver
  BY <1>1, <1>2, AnsweredCall
<1>8. a.route = r /\ call[c].leg = Legs(r)
  BY <1>2, <1>3, <1>7
<1>9. LifeInv'
  <2>1. UNCHANGED <<contested, unsure, fed>> /\ call[c].pc = "feeding"
    BY <1>2
  <2>2. call[c].leg = Legs(r) /\ row.status = "completed" /\ a.pc = "completed" /\ row.driver = route[r].driver
    BY <1>6, <1>7, <1>8
  <2>3. QED BY <1>1, <1>6, <1>7, <1>8, <2>1, <2>2, WriteCalls
<1>10. RoutesKept
  BY <1>1, <1>6, RowWritten
<1>11. RouteTypes' /\ failures' \in Nat
  BY <1>1, <1>2, <1>7, <1>10 DEF RouteTypes, RoutesKept
<1>12. QED BY <1>1, <1>2, <1>9, <1>10, <1>11, CallsStep DEF QueueStays

LEMMA UnsureStep ==
  ASSUME PlanningInv,
         \/ \E c \in Calls : CallFails(c)
         \/ \E r \in Routes, d \in Drivers : Reassign(r, d)
  PROVE  PlanningInv'
<1>1. TypeOK /\ QueueInv /\ LifeInv /\ RouteTypes /\ failures \in Nat
  BY TypeParts DEF PlanningInv
<1>2. ASSUME NEW c \in Calls, CallFails(c) PROVE PlanningInv'
  <2>1. /\ UNCHANGED <<order, record, list, request, wanted, worker, profile, contested, route, fed, rivals,
                       cut>>
        /\ failures' = failures + 1 /\ ~Ready(c) /\ call' = [call EXCEPT ![c].pc = "error"]
        /\ unsure' = unsure \cup {call[c].route}
    BY <1>2 DEF CallFails, Fails, queueVars
  <2>2. PICK r \in Rows : r = call[c].route
    BY <1>1, <2>1 DEF LifeInv, CallsOK, Ready
  <2>3. On(c, r)
    BY <2>1, <2>2 DEF On
  <2>4. PICK row \in RouteRow : row = route[r] /\ route' = [route EXCEPT ![r] = row]
    BY <1>1, <2>1, RowTypes DEF RouteTypes
  <2>5. LifeInv'
    BY <1>1, <2>1, <2>2, <2>3, <2>4, UnsureCalls
  <2>6. call' \in [Calls -> Asked] /\ unsure' \subseteq Routes
    <3>1. PICK x \in Asked : x = call[c]
      BY <1>1, CallRoute
    <3>2. PICK y \in Asked : y = [x EXCEPT !.pc = "error"]
      BY DEF Asked
    <3>3. call' = [call EXCEPT ![c] = y]
      BY <1>1, <2>1, <3>1, <3>2 DEF RouteTypes
    <3>4. call' \in [Calls -> Asked]
      BY <1>1, <3>3 DEF RouteTypes
    <3>5. r \in Routes
      BY <1>1, <2>2, RowTypes
    <3>6. QED BY <1>1, <2>1, <2>2, <3>4, <3>5 DEF RouteTypes
  <2>7. RouteTypes' /\ failures' \in Nat
    BY <1>1, <2>1, <2>6 DEF RouteTypes
  <2>8. QED BY <1>1, <2>1, <2>5, <2>7, CallsStep DEF QueueStays
<1>3. ASSUME NEW r \in Routes, NEW d \in Drivers, Reassign(r, d) PROVE PlanningInv'
  <2>1. /\ UNCHANGED <<order, record, list, request, wanted, worker, profile, contested, call, fed, rivals,
                       cut, failures>>
        /\ route[r] # None /\ route' = [route EXCEPT ![r].driver = d]
        /\ unsure' = unsure \cup {r}
    BY <1>3 DEF Reassign, Succeeds, queueVars
  <2>2. r \in Rows
    BY <2>1 DEF Rows
  <2>3. PICK old \in RouteRow : old = route[r]
    BY <1>1, <2>2, RowTypes
  <2>4. PICK row \in RouteRow : row = [old EXCEPT !.driver = d]
    BY DEF RouteRow
  <2>5. /\ route' = [route EXCEPT ![r] = row] /\ row.orders = route[r].orders /\ row.job = route[r].job
        /\ row.status = route[r].status
    BY <1>1, <2>1, <2>3, <2>4 DEF RouteRow, RouteTypes
  <2>6. LifeInv'
    BY <1>1, <2>1, <2>2, <2>5, UnsureCalls
  <2>7. RoutesKept
    BY <1>1, <2>2, <2>5, RowWritten
  <2>8. RouteTypes' /\ failures' \in Nat
    BY <1>1, <2>1, <2>7 DEF RouteTypes, RoutesKept
  <2>9. QED BY <1>1, <2>1, <2>6, <2>7, <2>8, CallsStep DEF QueueStays
<1>4. QED BY <1>2, <1>3

LEMMA FeedStep ==
  ASSUME PlanningInv, NEW c \in Calls, FeedLeg(c)
  PROVE  PlanningInv'
<1>1. TypeOK /\ QueueInv /\ LifeInv /\ RouteTypes /\ failures \in Nat
  BY TypeParts DEF PlanningInv
<1>2. /\ UNCHANGED <<order, record, list, request, wanted, worker, route, contested, unsure, rivals,
                     failures, cut>>
      /\ call' = [call EXCEPT ![c].leg = call[c].leg + 1]
      /\ \/ UNCHANGED <<profile, fed>>
         \/ /\ profile' = [samples |-> profile.samples + 1,
                           nan |-> profile.nan \/ route[call[c].route].job = None]
            /\ fed' = [fed EXCEPT ![call[c].route] = fed[call[c].route] + 1]
  BY DEF FeedLeg, queueVars, Succeeds
<1>3. call' \in [Calls -> Asked]
  <2>1. call[c] \in Asked /\ call[c].leg + 1 \in Nat
    BY <1>1, CallRoute DEF Asked
  <2>2. QED BY <1>1, <1>2, <2>1 DEF RouteTypes, Asked
<1>4. profile' \in [samples : Nat, nan : BOOLEAN]
  <2>1. profile.samples + 1 \in Nat /\ profile.nan \in BOOLEAN
    BY <1>1 DEF RouteTypes
  <2>2. PICK nan \in BOOLEAN : nan = (profile.nan \/ route[call[c].route].job = None)
    OBVIOUS
  <2>3. [samples |-> profile.samples + 1, nan |-> nan] \in [samples : Nat, nan : BOOLEAN]
    BY <2>1
  <2>4. QED BY <1>1, <1>2, <2>2, <2>3 DEF RouteTypes
<1>5. fed' \in [Routes -> Nat]
  BY <1>1, <1>2 DEF RouteTypes
<1>6. LifeInv'
  BY <1>1, LegFed
<1>7. RouteTypes' /\ failures' \in Nat
  BY <1>1, <1>2, <1>3, <1>4, <1>5 DEF RouteTypes
<1>8. QED BY <1>1, <1>2, <1>6, <1>7, CallsStep DEF QueueStays

-----------------------------------------------------------------------------
(* The steps of the queue: what they leave as it is *)

CallsStay == UNCHANGED <<call, profile, contested, unsure, fed>>

LEMMA QueueStep ==
  ASSUME PlanningInv, QueueTypes', QueueInv', RowsKept, CallsStay,
         route' \in [Routes -> RouteRow \cup {None}], failures' \in Nat
  PROVE  PlanningInv'
<1>1. TypeOK /\ LifeInv /\ RouteTypes
  BY TypeParts DEF PlanningInv
<1>2. LifeInv'
  BY <1>1, QueueKeepsCalls DEF CallsStay
<1>3. TypeOK'
  BY <1>1 DEF TypeOK, QueueTypes, RouteTypes, WorkerState, Asked, CallsStay
<1>4. QED BY <1>2, <1>3 DEF PlanningInv

\* A worker that is not inserting moves on; of the hashes, only a job it ends changes.
LEMMA WorkerKeeps ==
  ASSUME TypeOK, QueueInv, NEW w \in Workers, NEW x \in WorkerState, worker' = [worker EXCEPT ![w] = x],
         UNCHANGED <<order, route, request, wanted, rivals>>, cut \subseteq cut',
         \A j \in Jobs : InList(j)' => InList(j),
         x.pc \notin {"insert", "allocate"} \/ GroupsOK',
         \A r \in Rows : route[r].job = x.job /\ x.job \in Jobs => x.pc \in {"done", "failed", "dead"},
         worker[w].pc \in {"insert", "allocate"} => worker[w].job \in cut',
         x.pc = "done" => Allocated(x.job),
         \A j \in Jobs : Ended(j) /\ j \notin cut' => Ended(j)',
         \A j \in Jobs : record'[j] # None /\ record'[j].status = "done" =>
                           record'[j] = record[j] \/ (record'[j].intact /\ Allocated(j))
  PROVE  GroupsOK' /\ RoutesOK' /\ AllocationOK' /\ RivalsOK'
<1>1. \A v \in Workers : worker'[v] = IF v = w THEN x ELSE worker[v]
  BY DEF TypeOK
<1>2. Rows' = Rows
  BY DEF Rows
<1>3. GroupsOK'
  BY <1>1, <1>2 DEF QueueInv, GroupsOK
<1>4. RoutesOK'
  <2>1. ASSUME NEW r \in Rows, route[r].job \in Jobs, NEW v \in Workers, worker'[v].job = route[r].job
        PROVE  worker'[v].pc \in {"insert", "allocate", "done", "failed", "dead"}
    BY <1>1, <2>1 DEF QueueInv, RoutesOK
  <2>2. QED BY <1>2, <2>1 DEF QueueInv, RoutesOK
<1>5. RoutedIsAllocated'
  <2>1. SUFFICES ASSUME NEW r \in Rows, NEW o \in route[r].orders, order[o].status # "allocated", route[r].job \notin cut'
                 PROVE  \E v \in Workers : worker'[v].job = route[r].job /\ worker'[v].pc \in {"insert", "allocate"}
    BY <1>2 DEF RoutedIsAllocated
  <2>2. PICK v \in Workers : worker[v].job = route[r].job /\ worker[v].pc \in {"insert", "allocate"}
    BY <2>1 DEF QueueInv, AllocationOK, RoutedIsAllocated
  <2>3. v # w
    BY <2>1, <2>2
  <2>4. QED BY <1>1, <2>2, <2>3
<1>6. AllocatedIsRouted'
  BY <1>2 DEF QueueInv, AllocationOK, AllocatedIsRouted
<1>7. \A j : Allocated(j)' <=> Allocated(j)
  BY <1>2 DEF Allocated
<1>8. DoneIsTrue'
  <2>1. SUFFICES ASSUME NEW j \in Jobs, record'[j] # None, record'[j].status = "done"
                 PROVE  record'[j].intact /\ Allocated(j)
    BY <1>2 DEF DoneIsTrue, Allocated
  <2>2. CASE record'[j] = record[j]
    BY <2>1, <2>2 DEF QueueInv, AllocationOK, DoneIsTrue, Allocated
  <2>3. QED BY <2>1, <2>2
<1>9. \A v \in Workers : worker'[v].pc = "done" => Allocated(worker[v].job)'
  <2>1. ASSUME NEW v \in Workers, worker'[v].pc = "done" PROVE Allocated(worker'[v].job)
    BY <1>1, <2>1 DEF QueueInv, AllocationOK
  <2>2. QED BY <1>2, <2>1 DEF Allocated
<1>10. AllocationOK'
  BY <1>5, <1>6, <1>8, <1>9 DEF AllocationOK
<1>11. RivalsOK'
  <2>1. \A j, k \in Jobs : Clear(j, k) /\ j \notin cut' => Clear(j, k)'
    BY <1>2 DEF Clear
  <2>2. QED BY <2>1 DEF QueueInv, RivalsOK
<1>12. QED BY <1>3, <1>4, <1>10, <1>11

\* The place of the job a worker holds, and its hash.
Held(w) ==
  worker[w].job \in Jobs =>
    /\ record[worker[w].job] # None
    /\ worker[w].pc = "read" => record[worker[w].job] = Fresh
    /\ worker[w].pc \in {"insert", "allocate", "done"} => worker[w].intact
    /\ worker[w].pc \in {"mark", "solve"} /\ ~worker[w].intact => worker[w].job \in cut
    /\ worker[w].pc \in {"failed", "dead"} => worker[w].job \in cut
    /\ Ended(worker[w].job) => worker[w].pc \in {"failed", "dead"}

LEMMA RecordsKeep ==
  ASSUME TypeOK, QueueInv, NEW w \in Workers, NEW x \in WorkerState, worker' = [worker EXCEPT ![w] = x],
         UNCHANGED <<list, request>>, cut \subseteq cut',
         x.job \in {worker[w].job, None}, x.pc = "pop" <=> x.job = None,
         \A j \in Jobs : j # worker[w].job => record'[j] = record[j],
         \A j \in Jobs : j = worker[w].job /\ Ended(j)' /\ record'[j].status = "failed" => j \in cut',
         Held(w)'
  PROVE  PlacesOK' /\ RecordsOK'
<1>1. \A v \in Workers : worker'[v] = IF v = w THEN x ELSE worker[v]
  BY DEF TypeOK
<1>2. None \notin Jobs
  BY PlanningConstants
<1>3. PlacesOK'
  <2>1. \A v \in Workers : worker'[v].pc = "pop" <=> worker'[v].job = None
    BY <1>1 DEF QueueInv, PlacesOK
  <2>2. \A v \in Workers : worker'[v].job \in Jobs => worker'[v].job = worker[v].job
    BY <1>1, <1>2
  <2>3. QED BY <2>1, <2>2 DEF QueueInv, PlacesOK, InList
<1>4. ASSUME NEW j \in Jobs
      PROVE  /\ request'[j] \in {"none", "save"} => record'[j] = None
             /\ request'[j] = "push" \/ InList(j)' => record'[j] = Fresh
             /\ Ended(j)' => ~InList(j)'
             /\ Ended(j)' /\ record'[j].status = "failed" => j \in cut'
  <2>1. CASE j # worker[w].job
    <3>1. record'[j] = record[j]
      BY <2>1
    <3>2. (Ended(j)' <=> Ended(j)) /\ (InList(j)' <=> InList(j))
      BY <3>1 DEF Ended, InList
    <3>3. QED BY <3>1, <3>2 DEF QueueInv, RecordsOK
  <2>2. CASE j = worker[w].job
    <3>1. request[j] = "answered" /\ ~InList(j)
      BY <2>2 DEF QueueInv, PlacesOK
    <3>2. ~InList(j)'
      BY <3>1 DEF InList
    <3>3. QED BY <2>2, <3>1, <3>2
  <2>3. QED BY <2>1, <2>2
<1>5. ASSUME NEW v \in Workers, v # w PROVE Held(v)'
  <2>1. SUFFICES ASSUME worker[v].job \in Jobs PROVE Held(v)'
    BY <1>1, <1>5 DEF Held
  <2>2. worker[v].job # worker[w].job /\ worker'[v] = worker[v]
    BY <1>1, <1>5, <2>1 DEF QueueInv, PlacesOK
  <2>3. record'[worker[v].job] = record[worker[v].job]
    BY <2>1, <2>2
  <2>4. Ended(worker[v].job)' <=> Ended(worker[v].job)
    BY <2>2, <2>3 DEF Ended
  <2>5. QED BY <2>1, <2>2, <2>3, <2>4 DEF Held, QueueInv, RecordsOK
<1>6. \A v \in Workers : Held(v)'
  BY <1>5
<1>7. RecordsOK'
  BY <1>4, <1>6 DEF RecordsOK, Held
<1>8. QED BY <1>3, <1>7

-----------------------------------------------------------------------------
(* The worker's loop, step by step *)

LEMMA WorkerIs ==
  ASSUME TypeOK
  PROVE  /\ worker \in [Workers -> WorkerState] /\ \A w \in Workers : worker[w] \in WorkerState
         /\ \A w \in Workers : /\ worker[w].job \in Jobs \cup {None} /\ worker[w].intact \in BOOLEAN
                               /\ worker[w].left \subseteq SUBSET Orders /\ worker[w].kept \subseteq Orders
         /\ None \notin Jobs /\ None \notin JobHash
BY PlanningConstants, NoneIsNoRow DEF TypeOK, WorkerState

\* x is the state of worker w moved to p.
Sent(w, p, x) ==
  /\ [worker EXCEPT ![w].pc = p] = [worker EXCEPT ![w] = x]
  /\ x.pc = p /\ x.job = worker[w].job /\ x.intact = worker[w].intact
  /\ x.left = worker[w].left /\ x.kept = worker[w].kept
PCs == {"pop", "read", "mark", "solve", "insert", "allocate", "done", "failed", "dead"}

LEMMA Moved ==
  ASSUME TypeOK, NEW w \in Workers, NEW p \in PCs
  PROVE  \E x \in WorkerState : Sent(w, p, x)
<1>1. PICK y \in WorkerState : y = worker[w]
  BY WorkerIs
<1>2. PICK x \in WorkerState : x = [y EXCEPT !.pc = p]
  BY DEF WorkerState, PCs
<1>3. [worker EXCEPT ![w].pc = p] = [worker EXCEPT ![w] = x]
  BY <1>1, <1>2, WorkerIs
<1>4. Sent(w, p, x)
  BY <1>1, <1>2, <1>3 DEF WorkerState, Sent
<1>5. QED BY <1>4

LEMMA Resting ==
  ASSUME TypeOK
  PROVE  Idle \in WorkerState /\ Idle.pc = "pop" /\ Idle.job = None /\ Idle.intact
BY DEF Idle, WorkerState

\* The types after a step of a worker that leaves the requests alone.
LEMMA WorkerTypes ==
  ASSUME TypeOK, NEW w \in Workers, NEW x \in WorkerState, worker' = [worker EXCEPT ![w] = x],
         UNCHANGED <<request, wanted, rivals>>, order' \in [Orders -> OrderRow],
         record' \in [Jobs -> JobHash \cup {None}], list' \in Seq(Jobs), cut' \subseteq Jobs
  PROVE  QueueTypes'
BY TypeParts DEF QueueTypes

LEMMA ReadStep ==
  ASSUME PlanningInv, NEW w \in Workers, Read(w) \/ ReadFails(w)
  PROVE  PlanningInv'
<1>1. /\ TypeOK /\ QueueInv /\ LifeInv /\ QueueTypes /\ RouteTypes /\ failures \in Nat
  BY TypeParts DEF PlanningInv
<1>2. /\ worker[w].pc = "read" /\ CallsStay
      /\ UNCHANGED <<order, record, list, request, wanted, route, rivals>> /\ failures' \in Nat
  BY <1>1 DEF Read, ReadFails, At, Fails, Succeeds, routeVars, CallsStay
<1>3. worker[w].job \in Jobs /\ record[worker[w].job] = Fresh /\ Fresh # None /\ ~Ended(worker[w].job)
      /\ ~InList(worker[w].job)
  <2>1. worker[w].job \in Jobs
    BY <1>1, <1>2, WorkerIs DEF QueueInv, PlacesOK
  <2>2. record[worker[w].job] = Fresh /\ record[worker[w].job] # None
    BY <1>1, <1>2, <2>1 DEF QueueInv, RecordsOK
  <2>3. QED BY <1>1, <2>1, <2>2 DEF Ended, Fresh, QueueInv, PlacesOK
<1>4. PICK b \in BOOLEAN :
        /\ worker' = [worker EXCEPT ![w].pc = "mark", ![w].intact = b]
        /\ cut \subseteq cut' /\ cut' \subseteq Jobs /\ (~b => worker[w].job \in cut')
  <2>1. CASE Read(w)
    <3>1. record[worker[w].job] # None /\ record[worker[w].job].intact = TRUE
      BY <1>3 DEF Fresh
    <3>2. (record[worker[w].job] # None /\ record[worker[w].job].intact) = TRUE
      BY <3>1
    <3>3. worker' = [worker EXCEPT ![w].pc = "mark", ![w].intact = TRUE]
      BY <2>1, <3>1, <3>2 DEF Read
    <3>4. cut' = cut
      BY <2>1 DEF Read, Succeeds
    <3>5. QED BY <1>1, <3>3, <3>4 DEF QueueTypes
  <2>2. CASE ReadFails(w)
    BY <1>1, <1>3, <2>2 DEF ReadFails, QueueTypes
  <2>3. QED BY <2>1, <2>2
<1>5. PICK x \in WorkerState : /\ worker' = [worker EXCEPT ![w] = x]
                               /\ x.pc = "mark" /\ x.job = worker[w].job /\ x.intact = b
  <2>1. PICK y \in WorkerState : y = worker[w]
    BY <1>1, WorkerIs
  <2>2. PICK x \in WorkerState : x = [y EXCEPT !.pc = "mark", !.intact = b]
    BY DEF WorkerState
  <2>3. worker' = [worker EXCEPT ![w] = x]
    BY <1>1, <1>4, <2>1, <2>2, WorkerIs
  <2>4. QED BY <2>1, <2>2, <2>3 DEF WorkerState
<1>6. worker'[w] = x
  BY <1>1, <1>5, WorkerIs
<1>7. \A j \in Jobs : (Ended(j)' <=> Ended(j)) /\ (InList(j)' <=> InList(j))
  BY <1>2 DEF Ended, InList
<1>8. Held(w)'
  BY <1>2, <1>3, <1>4, <1>5, <1>6, <1>7 DEF Held, Fresh, Ended
<1>9. PlacesOK' /\ RecordsOK'
  <2>1. x.pc = "pop" <=> x.job = None
    BY <1>3, <1>5, <1>1, WorkerIs
  <2>2. QED BY <1>1, <1>2, <1>3, <1>4, <1>5, <1>7, <1>8, <2>1, RecordsKeep
<1>10. \A r \in Rows : route[r].job # x.job
  BY <1>1, <1>2, <1>3, <1>5 DEF QueueInv, RoutesOK
<1>11. GroupsOK' /\ RoutesOK' /\ AllocationOK' /\ RivalsOK'
  BY <1>1, <1>2, <1>4, <1>5, <1>7, <1>10, WorkerKeeps
<1>12. QueueTypes'
  BY <1>1, <1>2, <1>4, <1>5, WorkerTypes DEF QueueTypes
<1>13. QED BY <1>1, <1>2, <1>9, <1>11, <1>12, QueueStep DEF QueueInv, RowsKept, RouteTypes

\* A worker that saves the state of its job, then moves on, rests, or has failed to.
LEMMA SaveStep ==
  ASSUME PlanningInv, NEW w \in Workers, NEW x \in WorkerState, worker' = [worker EXCEPT ![w] = x],
         worker[w].pc \in {"mark", "done", "failed"},
         UNCHANGED <<order, list, request, wanted, route, rivals>>, CallsStay,
         cut \subseteq cut', cut' \subseteq Jobs, failures' \in Nat,
         record' = record \/ Save(w, IF At(w, "mark") THEN "running" ELSE worker[w].pc),
         \/ /\ x.job = worker[w].job /\ x.intact = worker[w].intact
            /\ \/ x.pc = "solve" /\ At(w, "mark") /\ Save(w, "running")
               \/ x.pc \in {"failed", "dead"} /\ worker[w].job \in cut'
         \/ x = Idle /\ worker[w].pc # "mark"
  PROVE  PlanningInv'
<1>1. /\ TypeOK /\ QueueInv /\ LifeInv /\ QueueTypes /\ RouteTypes
  BY TypeParts DEF PlanningInv
<1>2. PICK j \in Jobs : j = worker[w].job
  BY <1>1, WorkerIs DEF QueueInv, PlacesOK
<1>3. PICK st \in {"running", "done", "failed"} : st = IF worker[w].pc = "mark" THEN "running" ELSE worker[w].pc
  OBVIOUS
<1>4. PICK hash \in JobHash : hash = [status |-> st, intact |-> worker[w].intact]
  BY <1>1, WorkerIs DEF JobHash
<1>5. /\ record' = record \/ record' = [record EXCEPT ![j] = hash]
      /\ x.pc = "solve" => record' = [record EXCEPT ![j] = hash]
      /\ hash # None /\ hash.status = st /\ hash.intact = worker[w].intact
  <2>1. Save(w, st) => record' = [record EXCEPT ![j] = hash]
    BY <1>2, <1>4 DEF Save
  <2>2. record' = record \/ Save(w, st)
    <3>1. CASE worker[w].pc = "mark"
      BY <1>3, <3>1 DEF At, Save
    <3>2. CASE worker[w].pc # "mark"
      BY <1>3, <3>2 DEF At, Save
    <3>3. QED BY <3>1, <3>2
  <2>3. x.pc = "solve" => Save(w, st)
    BY <1>3, Resting, <1>1 DEF At, Save
  <2>4. hash # None /\ hash.status = st /\ hash.intact = worker[w].intact
    BY <1>1, <1>4, WorkerIs
  <2>5. QED BY <2>1, <2>2, <2>3, <2>4
<1>6. /\ record' \in [Jobs -> JobHash \cup {None}]
      /\ \A k \in Jobs : k # j => record'[k] = record[k]
      /\ record'[j] \in {record[j], hash}
      /\ x.pc = "solve" => record'[j] = hash
  BY <1>1, <1>5 DEF QueueTypes
<1>7. /\ record[j] # None
      /\ worker[w].pc = "done" => worker[w].intact
      /\ worker[w].pc = "mark" /\ ~worker[w].intact => j \in cut
      /\ worker[w].pc = "failed" => j \in cut
      /\ Ended(j) => worker[w].pc = "failed"
      /\ Ended(j) /\ record[j].status = "failed" => j \in cut
  BY <1>1, <1>2 DEF QueueInv, RecordsOK
<1>8. \A k \in Jobs : Ended(k)' <=> record'[k] # None /\ record'[k].status \in {"done", "failed"}
  BY DEF Ended
<1>9. worker'[w] = x
  BY <1>1, WorkerIs
<1>10. x.job \in {worker[w].job, None} /\ (x.pc = "pop" <=> x.job = None) /\ x.pc # "read"
       /\ x.pc \notin {"insert", "allocate", "done"}
  BY <1>1, <1>2, Resting, WorkerIs
<1>11. Held(w)'
  <2>1. SUFFICES ASSUME x.job = j PROVE Held(w)'
    BY <1>2, <1>9, <1>10, WorkerIs, <1>1 DEF Held
  <2>2. /\ x.pc = "solve" \/ (x.pc \in {"failed", "dead"} /\ j \in cut')
        /\ x.intact = worker[w].intact
    BY <1>1, <1>2, <2>1, Resting, WorkerIs
  <2>3. record'[j] # None
    BY <1>5, <1>6, <1>7
  <2>4. CASE x.pc = "solve"
    <3>1. record'[j].status = "running"
      BY <1>1, <1>3, <1>5, <1>6, <2>4, Resting DEF At
    <3>2. ~Ended(j)'
      BY <3>1, <1>8
    <3>3. worker[w].pc = "mark"
      BY <1>1, <2>4, Resting DEF At
    <3>4. ~x.intact => j \in cut'
      BY <1>7, <2>2, <3>3
    <3>5. QED BY <1>9, <2>1, <2>3, <2>4, <3>2, <3>4 DEF Held, Ended
  <2>5. CASE x.pc \in {"failed", "dead"} /\ j \in cut'
    BY <1>9, <2>1, <2>3, <2>5 DEF Held
  <2>6. QED BY <2>2, <2>4, <2>5
<1>12. \A k \in Jobs : k = j /\ Ended(k)' /\ record'[k].status = "failed" => k \in cut'
  BY <1>3, <1>5, <1>6, <1>7 DEF Ended
<1>13. PlacesOK' /\ RecordsOK'
  BY <1>1, <1>2, <1>6, <1>10, <1>11, <1>12, RecordsKeep
<1>14. \A k \in Jobs : (InList(k)' <=> InList(k)) /\ (Ended(k) /\ k \notin cut' => Ended(k)')
  <2>1. \A k \in Jobs : InList(k)' <=> InList(k)
    BY DEF InList
  <2>2. ASSUME NEW k \in Jobs, Ended(k), k \notin cut' PROVE Ended(k)'
    <3>1. CASE k = j
      BY <1>7, <2>2, <3>1
    <3>2. CASE k # j
      BY <1>6, <1>8, <2>2, <3>2 DEF Ended
    <3>3. QED BY <3>1, <3>2
  <2>3. QED BY <2>1, <2>2
<1>15. \A r \in Rows : route[r].job = x.job /\ x.job \in Jobs => x.pc \in {"done", "failed", "dead"}
  <2>1. SUFFICES ASSUME NEW r \in Rows, route[r].job = x.job, x.job \in Jobs, x.pc = "solve" PROVE FALSE
    BY <1>1, <1>10, Resting, WorkerIs
  <2>2. worker[w].pc = "mark" /\ route[r].job = worker[w].job
    BY <1>1, <2>1, Resting DEF At
  <2>3. QED BY <1>1, <1>2, <2>2 DEF QueueInv, RoutesOK
<1>16. \A k \in Jobs : record'[k] # None /\ record'[k].status = "done" =>
                         record'[k] = record[k] \/ (record'[k].intact /\ Allocated(k))
  <2>1. worker[w].pc = "done" => Allocated(j)
    BY <1>1, <1>2 DEF QueueInv, AllocationOK
  <2>2. QED BY <1>3, <1>5, <1>6, <1>7, <2>1
<1>17. GroupsOK' /\ RoutesOK' /\ AllocationOK' /\ RivalsOK'
  BY <1>1, <1>10, <1>14, <1>15, <1>16, WorkerKeeps
<1>18. QueueTypes'
  BY <1>1, <1>6, WorkerTypes DEF QueueTypes
<1>19. QED BY <1>1, <1>13, <1>17, <1>18, QueueStep DEF QueueInv, RowsKept, RouteTypes

LEMMA MarkStep ==
  ASSUME PlanningInv, NEW w \in Workers, Mark(w)
  PROVE  PlanningInv'
<1>1. /\ TypeOK /\ QueueTypes /\ RouteTypes /\ failures \in Nat
  BY TypeParts DEF PlanningInv
<1>2. /\ UNCHANGED <<order, list, request, wanted, route, rivals, failures, cut>> /\ CallsStay
      /\ At(w, "mark") /\ Save(w, "running") /\ Goto(w, "solve")
  BY DEF Mark, Succeeds, routeVars, CallsStay
<1>3. PICK x \in WorkerState : Sent(w, "solve", x)
  BY <1>1, Moved DEF PCs
<1>4. worker' = [worker EXCEPT ![w] = x] /\ worker[w].pc = "mark"
      /\ x.pc = "solve" /\ x.job = worker[w].job /\ x.intact = worker[w].intact
  BY <1>2, <1>3 DEF Goto, At, Sent
<1>5. Save(w, IF At(w, "mark") THEN "running" ELSE worker[w].pc)
  BY <1>2
<1>6. cut \subseteq cut' /\ cut' \subseteq Jobs /\ failures' \in Nat
  BY <1>1, <1>2 DEF QueueTypes
<1>7. QED BY <1>2, <1>4, <1>5, <1>6, SaveStep

LEMMA FinishStep ==
  ASSUME PlanningInv, NEW w \in Workers, Finish(w)
  PROVE  PlanningInv'
<1>1. /\ TypeOK /\ QueueTypes /\ RouteTypes /\ failures \in Nat
  BY TypeParts DEF PlanningInv
<1>2. /\ UNCHANGED <<order, list, request, wanted, route, rivals, failures, cut>> /\ CallsStay
      /\ worker[w].pc \in {"done", "failed"} /\ Save(w, worker[w].pc)
      /\ worker' = [worker EXCEPT ![w] = Idle]
  BY DEF Finish, Succeeds, routeVars, CallsStay
<1>3. Save(w, IF At(w, "mark") THEN "running" ELSE worker[w].pc)
  BY <1>2 DEF At
<1>4. cut \subseteq cut' /\ cut' \subseteq Jobs /\ failures' \in Nat
  BY <1>1, <1>2 DEF QueueTypes
<1>5. QED BY <1>1, <1>2, <1>3, <1>4, Resting, SaveStep

LEMMA SaveFailsStep ==
  ASSUME PlanningInv, NEW w \in Workers, SaveFails(w)
  PROVE  PlanningInv'
<1>1. /\ TypeOK /\ QueueInv /\ QueueTypes /\ RouteTypes /\ failures \in Nat
  BY TypeParts DEF PlanningInv
<1>2. /\ UNCHANGED <<order, list, request, wanted, route, rivals>> /\ CallsStay
      /\ worker[w].pc \in {"mark", "done", "failed"} /\ cut' = cut \cup {worker[w].job} /\ failures' \in Nat
      /\ record' = record \/ Save(w, IF At(w, "mark") THEN "running" ELSE worker[w].pc)
      /\ Goto(w, IF At(w, "done") THEN "failed" ELSE "dead")
  BY <1>1 DEF SaveFails, Fails, routeVars, CallsStay
<1>3. PICK p \in {"failed", "dead"} : p = IF At(w, "done") THEN "failed" ELSE "dead"
  OBVIOUS
<1>4. PICK x \in WorkerState : Sent(w, p, x)
  BY <1>1, Moved DEF PCs
<1>5. worker' = [worker EXCEPT ![w] = x]
      /\ x.pc = p /\ x.job = worker[w].job /\ x.intact = worker[w].intact
  BY <1>2, <1>3, <1>4 DEF Goto, Sent
<1>6. worker[w].job \in Jobs
  BY <1>1, <1>2, WorkerIs DEF QueueInv, PlacesOK
<1>7. cut \subseteq cut' /\ cut' \subseteq Jobs /\ worker[w].job \in cut'
  BY <1>1, <1>2, <1>6 DEF QueueTypes
<1>8. QED BY <1>2, <1>5, <1>7, SaveStep

\* A worker that is cut short: it drops its job, or goes on to save that it failed.
LEMMA CutStep ==
  ASSUME PlanningInv, NEW w \in Workers, NEW x \in WorkerState, worker' = [worker EXCEPT ![w] = x],
         UNCHANGED <<order, record, list, request, wanted, route, rivals>>, CallsStay,
         cut \subseteq cut', cut' \subseteq Jobs, failures' \in Nat,
         worker[w].job \in Jobs => worker[w].job \in cut',
         x = Idle \/ (x.pc = "failed" /\ x.job = worker[w].job /\ x.job \in Jobs)
  PROVE  PlanningInv'
<1>1. /\ TypeOK /\ QueueInv /\ LifeInv /\ QueueTypes /\ RouteTypes
  BY TypeParts DEF PlanningInv
<1>2. worker'[w] = x
  BY <1>1, WorkerIs
<1>3. x.job \in {worker[w].job, None} /\ (x.pc = "pop" <=> x.job = None) /\ x.pc \in {"pop", "failed"}
  BY <1>1, Resting, WorkerIs
<1>4. Held(w)'
  <2>1. SUFFICES ASSUME x.job \in Jobs PROVE Held(w)'
    BY <1>2 DEF Held
  <2>2. x.pc = "failed" /\ x.job = worker[w].job /\ x.job \in cut'
    BY <1>1, <2>1, Resting, WorkerIs
  <2>3. record'[x.job] # None
    BY <2>1, <2>2, <1>1 DEF QueueInv, RecordsOK
  <2>4. QED BY <1>2, <2>2, <2>3 DEF Held
<1>5. \A k \in Jobs : (InList(k)' <=> InList(k)) /\ (Ended(k)' <=> Ended(k))
  BY DEF InList, Ended
<1>6. \A k \in Jobs : k = worker[w].job /\ Ended(k)' /\ record'[k].status = "failed" => k \in cut'
  OBVIOUS
<1>7. PlacesOK' /\ RecordsOK'
  BY <1>1, <1>3, <1>4, <1>6, RecordsKeep
<1>8. worker[w].pc \in {"insert", "allocate"} => worker[w].job \in cut'
  <2>1. worker[w].pc \in {"insert", "allocate"} => worker[w].job \in Jobs
    BY <1>1, WorkerIs DEF QueueInv, PlacesOK
  <2>2. QED BY <2>1
<1>9. \A r \in Rows : route[r].job = x.job /\ x.job \in Jobs => x.pc \in {"done", "failed", "dead"}
  BY <1>1, Resting, WorkerIs
<1>10. GroupsOK' /\ RoutesOK' /\ AllocationOK' /\ RivalsOK'
  BY <1>1, <1>3, <1>5, <1>8, <1>9, WorkerKeeps
<1>11. QueueTypes'
  BY <1>1, WorkerTypes DEF QueueTypes
<1>12. QED BY <1>1, <1>7, <1>10, <1>11, QueueStep DEF QueueInv, RowsKept, RouteTypes

LEMMA CrashStep ==
  ASSUME PlanningInv, NEW w \in Workers, Crash(w)
  PROVE  PlanningInv'
<1>1. /\ TypeOK /\ QueueTypes /\ RouteTypes /\ failures \in Nat
  BY TypeParts DEF PlanningInv
<1>2. /\ UNCHANGED <<order, record, list, request, wanted, route, rivals>> /\ CallsStay /\ failures' \in Nat
      /\ worker' = [worker EXCEPT ![w] = Idle]
      /\ cut' = cut \cup IF worker[w].job = None THEN {} ELSE {worker[w].job}
  BY <1>1 DEF Crash, Fails, routeVars, CallsStay
<1>3. cut \subseteq cut' /\ cut' \subseteq Jobs /\ (worker[w].job \in Jobs => worker[w].job \in cut')
  BY <1>1, <1>2, WorkerIs DEF QueueTypes
<1>4. QED BY <1>1, <1>2, <1>3, Resting, CutStep

\* The solver's answer is in hand: no row is of this job yet.
LEMMA SolveStep ==
  ASSUME PlanningInv, NEW w \in Workers, Solve(w)
  PROVE  PlanningInv'
<1>1. /\ TypeOK /\ QueueInv /\ LifeInv /\ QueueTypes /\ RouteTypes /\ failures \in Nat
  BY TypeParts DEF PlanningInv
<1>2. /\ worker[w].pc = "solve" /\ CallsStay
      /\ UNCHANGED <<order, record, list, request, wanted, route, rivals, cut, failures>>
  BY DEF Solve, At, Succeeds, routeVars, CallsStay
<1>3. PICK g \in IF worker[w].intact THEN Groupings(wanted[worker[w].job]) ELSE {{}} :
        worker' = [worker EXCEPT ![w].pc = CASE ~worker[w].intact -> "failed"
                                             [] worker[w].intact /\ g = {} -> "done"
                                             [] OTHER -> "insert",
                                 ![w].left = g, ![w].kept = UNION g]
  BY DEF Solve
<1>4. PICK j \in Jobs : j = worker[w].job
  BY <1>1, <1>2, WorkerIs DEF QueueInv, PlacesOK
<1>5. /\ g \in SUBSET SUBSET wanted[j] /\ \A a, b \in g : a # b => a \cap b = {}
      /\ ~worker[w].intact => g = {}
  BY <1>3, <1>4 DEF Groupings
<1>6. g \in SUBSET SUBSET Orders /\ UNION g \in SUBSET Orders /\ UNION g \subseteq wanted[j]
  <2>1. wanted[j] \subseteq Orders
    BY <1>1 DEF QueueTypes
  <2>2. QED BY <1>5, <2>1
<1>7. PICK p \in {"failed", "done", "insert"} :
        /\ p = CASE ~worker[w].intact -> "failed"
                 [] worker[w].intact /\ g = {} -> "done"
                 [] OTHER -> "insert"
        /\ p = "failed" <=> ~worker[w].intact
  <2>1. worker[w].intact \in BOOLEAN
    BY <1>1, WorkerIs
  <2>2. CASE ~worker[w].intact
    BY <2>2
  <2>3. CASE worker[w].intact /\ g = {}
    BY <2>3
  <2>4. CASE worker[w].intact /\ g # {}
    BY <2>4
  <2>5. QED BY <2>1, <2>2, <2>3, <2>4
<1>8. PICK x \in WorkerState : /\ worker' = [worker EXCEPT ![w] = x]
                               /\ x.pc = p /\ x.job = j /\ x.intact = worker[w].intact
                               /\ x.left = g /\ x.kept = UNION g
  <2>1. PICK y \in WorkerState : y = worker[w]
    BY <1>1, WorkerIs
  <2>2. PICK x \in WorkerState : x = [y EXCEPT !.pc = p, !.left = g, !.kept = UNION g]
    BY <1>6 DEF WorkerState
  <2>3. worker' = [worker EXCEPT ![w] = x]
    BY <1>1, <1>3, <1>7, <2>1, <2>2, WorkerIs
  <2>4. x.pc = p /\ x.job = y.job /\ x.intact = y.intact /\ x.left = g /\ x.kept = UNION g
    BY <2>2 DEF WorkerState
  <2>5. QED BY <1>4, <2>1, <2>3, <2>4
<1>9. \A v \in Workers : worker'[v] = IF v = w THEN x ELSE worker[v]
  BY <1>1, <1>8, WorkerIs
<1>10. /\ record[j] # None /\ ~Ended(j)
       /\ ~worker[w].intact => j \in cut
  BY <1>1, <1>2, <1>4 DEF QueueInv, RecordsOK
<1>11. \A k \in Jobs : (InList(k)' <=> InList(k)) /\ (Ended(k)' <=> Ended(k))
  BY <1>2 DEF InList, Ended
<1>12. Held(w)'
  <2>1. ~Ended(j)'
    BY <1>10, <1>11
  <2>2. QED BY <1>2, <1>7, <1>8, <1>9, <1>10, <2>1 DEF Held, Ended
<1>13. PlacesOK' /\ RecordsOK'
  <2>1. x.pc = "pop" <=> x.job = None
    BY <1>1, <1>7, <1>8, WorkerIs
  <2>2. \A k \in Jobs : k = worker[w].job /\ Ended(k)' /\ record'[k].status = "failed" => k \in cut'
    BY <1>4, <1>10, <1>11
  <2>3. QED BY <1>1, <1>2, <1>4, <1>8, <1>12, <2>1, <2>2, RecordsKeep
<1>14. \A r \in Rows : route[r].job # j
  BY <1>1, <1>2, <1>4 DEF QueueInv, RoutesOK
<1>15. GroupsOK'
  <2>1. Rows' = Rows
    BY <1>2 DEF Rows
  <2>2. ASSUME NEW v \in Workers, worker'[v].pc \in {"insert", "allocate"}
        PROVE  /\ worker'[v].pc = "allocate" => worker'[v].left = {}
               /\ worker'[v].kept \subseteq wanted[worker'[v].job]
               /\ \A h \in worker'[v].left : h \subseteq worker'[v].kept
               /\ \A h, i \in worker'[v].left : h # i => h \cap i = {}
               /\ \A r \in Rows : route[r].job = worker'[v].job =>
                    route[r].orders \subseteq worker'[v].kept /\ \A h \in worker'[v].left : route[r].orders \cap h = {}
               /\ \A o \in worker'[v].kept : \/ \E h \in worker'[v].left : o \in h
                                             \/ \E r \in Rows : route[r].job = worker'[v].job /\ o \in route[r].orders
    <3>1. CASE v = w
      <4>1. worker'[v] = x
        BY <1>9, <3>1
      <4>2. QED BY <1>5, <1>6, <1>7, <1>8, <1>14, <4>1
    <3>2. CASE v # w
      <4>1. worker'[v] = worker[v]
        BY <1>9, <3>2
      <4>2. QED BY <1>1, <2>2, <4>1 DEF QueueInv, GroupsOK
    <3>3. QED BY <3>1, <3>2
  <2>3. QED BY <1>2, <2>1, <2>2 DEF GroupsOK
<1>16. RoutesOK' /\ AllocationOK' /\ RivalsOK'
  <2>1. Allocated(x.job)
    BY <1>8, <1>14 DEF Allocated
  <2>2. \A r \in Rows : route[r].job = x.job /\ x.job \in Jobs => x.pc \in {"done", "failed", "dead"}
    BY <1>8, <1>14
  <2>3. QED BY <1>1, <1>2, <1>8, <1>11, <1>15, <2>1, <2>2, WorkerKeeps
<1>17. QueueTypes'
  BY <1>1, <1>2, <1>8, WorkerTypes DEF QueueTypes
<1>18. QED BY <1>1, <1>2, <1>13, <1>15, <1>16, <1>17, QueueStep DEF QueueInv, RowsKept, RouteTypes

\* What an UPDATE of the status of some orders leaves in their rows.
LEMMA MarkedOrders ==
  ASSUME order \in [Orders -> OrderRow], NEW S, MarkAllocated(S)
  PROVE  /\ order' \in [Orders -> OrderRow]
         /\ \A o \in Orders : /\ order'[o].status = IF o \in S THEN "allocated" ELSE order[o].status
                              /\ order'[o].warehouse = order[o].warehouse
<1>1. \A o \in Orders : order[o] \in OrderRow
                        /\ order'[o] = IF o \in S THEN [order[o] EXCEPT !.status = "allocated"] ELSE order[o]
  BY DEF MarkAllocated
<1>2. ASSUME NEW o \in Orders
      PROVE  /\ order'[o] \in OrderRow
             /\ order'[o].status = IF o \in S THEN "allocated" ELSE order[o].status
             /\ order'[o].warehouse = order[o].warehouse
  BY <1>1 DEF OrderRow
<1>3. QED BY <1>2 DEF MarkAllocated

\* The UPDATE of the orders that were inserted, after which the worker says it is done or that it failed.
LEMMA AllocateStep ==
  ASSUME PlanningInv, NEW w \in Workers, NEW x \in WorkerState, worker' = [worker EXCEPT ![w] = x],
         worker[w].pc = "allocate", x.job = worker[w].job, x.intact = worker[w].intact,
         MarkAllocated(worker[w].kept),
         UNCHANGED <<record, list, request, wanted, route, rivals>>, CallsStay,
         cut \subseteq cut', cut' \subseteq Jobs, failures' \in Nat,
         x.pc = "done" \/ (x.pc = "failed" /\ worker[w].job \in cut')
  PROVE  PlanningInv'
<1>1. /\ TypeOK /\ QueueInv /\ LifeInv /\ QueueTypes /\ RouteTypes
  BY TypeParts DEF PlanningInv
<1>2. PICK j \in Jobs : j = worker[w].job
  BY <1>1, WorkerIs DEF QueueInv, PlacesOK
<1>3. \A v \in Workers : worker'[v] = IF v = w THEN x ELSE worker[v]
  BY <1>1, WorkerIs
<1>4. /\ Rows' = Rows
      /\ \A k \in Jobs : (InList(k)' <=> InList(k)) /\ (Ended(k)' <=> Ended(k))
  BY DEF Rows, InList, Ended
<1>5. record[j] # None /\ ~Ended(j) /\ worker[w].intact
  BY <1>1, <1>2 DEF QueueInv, RecordsOK
<1>6. /\ order' \in [Orders -> OrderRow]
      /\ \A o \in Orders : order[o].status = "allocated" => order'[o].status = "allocated"
      /\ \A o \in Orders : o \in worker[w].kept => order'[o].status = "allocated"
      /\ \A o \in Orders : order'[o].status = "allocated" => order[o].status = "allocated" \/ o \in worker[w].kept
      /\ \A o \in Orders : order'[o].warehouse = order[o].warehouse
  BY <1>1, MarkedOrders DEF QueueTypes
<1>7. /\ worker[w].kept \subseteq Orders
      /\ \A r \in Rows : route[r].orders \subseteq Orders
      /\ \A r \in Rows : route[r].job = j => route[r].orders \subseteq worker[w].kept
      /\ \A o \in worker[w].kept : \E r \in Rows : o \in route[r].orders
  <2>1. worker[w].left = {}
    BY <1>1 DEF QueueInv, GroupsOK
  <2>2. \A o \in worker[w].kept : \E r \in Rows : o \in route[r].orders
    BY <1>1, <2>1 DEF QueueInv, GroupsOK
  <2>3. \A r \in Rows : route[r].job = j => route[r].orders \subseteq worker[w].kept
    BY <1>1, <1>2 DEF QueueInv, GroupsOK
  <2>4. QED BY <1>1, <2>2, <2>3, WorkerIs, RowTypes
<1>8. Held(w)'
  <2>1. ~Ended(j)'
    BY <1>4, <1>5
  <2>2. QED BY <1>2, <1>3, <1>5, <2>1 DEF Held
<1>9. PlacesOK' /\ RecordsOK'
  <2>1. x.pc = "pop" <=> x.job = None
    BY <1>1, <1>2, WorkerIs
  <2>2. \A k \in Jobs : k = worker[w].job /\ Ended(k)' /\ record'[k].status = "failed" => k \in cut'
    BY <1>2, <1>4, <1>5
  <2>3. QED BY <1>1, <1>2, <1>8, <2>1, <2>2, RecordsKeep
<1>10. GroupsOK'
  BY <1>1, <1>3, <1>4 DEF QueueInv, GroupsOK
<1>11. RoutesOK'
  <2>1. ASSUME NEW r \in Rows, route[r].job \in Jobs, NEW v \in Workers, worker'[v].job = route[r].job
        PROVE  worker'[v].pc \in {"insert", "allocate", "done", "failed", "dead"}
    BY <1>1, <1>3, <2>1 DEF QueueInv, RoutesOK
  <2>2. QED BY <1>1, <1>4, <2>1 DEF QueueInv, RoutesOK
<1>12. \A k : Allocated(k) => Allocated(k)'
  <2>1. SUFFICES ASSUME NEW k, Allocated(k), NEW r \in Rows, route[r].job = k, NEW o \in route[r].orders
                 PROVE  order'[o].status = "allocated"
    BY <1>4 DEF Allocated
  <2>2. QED BY <1>6, <1>7, <2>1 DEF Allocated
<1>13. RoutedIsAllocated'
  <2>1. SUFFICES ASSUME NEW r \in Rows, NEW o \in route[r].orders, order'[o].status # "allocated", route[r].job \notin cut'
                 PROVE  \E v \in Workers : worker'[v].job = route[r].job /\ worker'[v].pc \in {"insert", "allocate"}
    BY <1>4 DEF RoutedIsAllocated
  <2>2. o \in Orders /\ order[o].status # "allocated" /\ route[r].job # j
    BY <1>6, <1>7, <2>1
  <2>3. PICK v \in Workers : worker[v].job = route[r].job /\ worker[v].pc \in {"insert", "allocate"}
    BY <1>1, <2>1, <2>2 DEF QueueInv, AllocationOK, RoutedIsAllocated
  <2>4. v # w
    BY <1>2, <2>2, <2>3
  <2>5. QED BY <1>3, <2>3, <2>4
<1>14. AllocatedIsRouted'
  <2>1. SUFFICES ASSUME NEW o \in Orders, order'[o].status = "allocated", ~order[o].warehouse
                 PROVE  \E r \in Rows : o \in route[r].orders
    BY <1>4, <1>6 DEF AllocatedIsRouted
  <2>2. QED BY <1>1, <1>6, <1>7, <2>1 DEF QueueInv, AllocationOK, AllocatedIsRouted
<1>15. DoneIsTrue'
  <2>1. SUFFICES ASSUME NEW k \in Jobs, record[k] # None, record[k].status = "done"
                 PROVE  record[k].intact /\ Allocated(k)'
    BY <1>4 DEF DoneIsTrue, Allocated
  <2>2. record[k].intact /\ Allocated(k)
    BY <1>1, <2>1 DEF QueueInv, AllocationOK, DoneIsTrue, Allocated
  <2>3. QED BY <1>12, <2>2
<1>16. \A v \in Workers : worker'[v].pc = "done" => Allocated(worker[v].job)'
  <2>1. ASSUME NEW v \in Workers, worker'[v].pc = "done"
        PROVE  \A r \in Rows : route[r].job = worker'[v].job => \A o \in route[r].orders : order'[o].status = "allocated"
    <3>1. CASE v = w
      BY <1>2, <1>3, <1>6, <1>7, <3>1
    <3>2. CASE v # w
      <4>1. worker'[v] = worker[v] /\ Allocated(worker[v].job)
        BY <1>1, <1>3, <2>1, <3>2 DEF QueueInv, AllocationOK
      <4>2. QED BY <1>6, <1>7, <4>1 DEF Allocated
    <3>3. QED BY <3>1, <3>2
  <2>2. QED BY <1>4, <2>1 DEF Allocated
<1>17. RivalsOK'
  <2>1. \A k, l \in Jobs : Clear(k, l) => Clear(k, l)'
    BY <1>4 DEF Clear
  <2>2. QED BY <1>1, <2>1 DEF QueueInv, RivalsOK
<1>18. AllocationOK'
  BY <1>13, <1>14, <1>15, <1>16 DEF AllocationOK
<1>19. QueueTypes'
  BY <1>1, <1>6, WorkerTypes DEF QueueTypes
<1>20. QED BY <1>1, <1>9, <1>10, <1>11, <1>17, <1>18, <1>19, QueueStep DEF QueueInv, RowsKept, RouteTypes

\* One INSERT: the row is the worker's, and the group it serves is no longer left.
LEMMA InsertStep ==
  ASSUME PlanningInv, NEW w \in Workers, NEW x \in WorkerState, worker' = [worker EXCEPT ![w] = x],
         worker[w].pc = "insert", x.job = worker[w].job, x.intact = worker[w].intact, x.kept = worker[w].kept,
         Free # {}, NEW g \in worker[w].left, route' = [route EXCEPT ![Min(Free)] = NewRow(g, worker[w].job)],
         UNCHANGED <<order, record, list, request, wanted, rivals>>, CallsStay,
         cut \subseteq cut', cut' \subseteq Jobs, failures' \in Nat,
         \/ x.left = worker[w].left \ {g} /\ x.pc = IF worker[w].left = {g} THEN "allocate" ELSE "insert"
         \/ x.pc = "failed" /\ worker[w].job \in cut'
  PROVE  PlanningInv'
<1>1. /\ TypeOK /\ QueueInv /\ LifeInv /\ QueueTypes /\ RouteTypes
  BY TypeParts DEF PlanningInv
<1>2. PICK j \in Jobs : j = worker[w].job
  BY <1>1, WorkerIs DEF QueueInv, PlacesOK
<1>3. PICK m \in Routes : m = Min(Free) /\ route[m] = None /\ m \notin Rows
  BY MinFree DEF Rows
<1>4. PICK row \in RouteRow : /\ row = NewRow(g, j) /\ row # None /\ row.status = "planned"
                              /\ row.orders = g /\ row.job = j
  <2>1. g \subseteq Orders
    BY <1>1, WorkerIs
  <2>2. NewRow(g, j) \in RouteRow
    BY <2>1 DEF NewRow, RouteRow
  <2>3. QED BY <2>2, NoneIsNoRow DEF NewRow
<1>5. /\ \A r \in Routes : route'[r] = IF r = m THEN row ELSE route[r]
      /\ route' \in [Routes -> RouteRow \cup {None}]
  BY <1>1, <1>2, <1>3, <1>4 DEF RouteTypes
<1>6. /\ Rows' = Rows \cup {m} /\ route'[m] = row
      /\ \A r \in Rows : route'[r] = route[r]
  BY <1>3, <1>4, <1>5 DEF Rows
<1>7. \A v \in Workers : worker'[v] = IF v = w THEN x ELSE worker[v]
  BY <1>1, WorkerIs
<1>8. \A k \in Jobs : (InList(k)' <=> InList(k)) /\ (Ended(k)' <=> Ended(k))
  BY DEF InList, Ended
<1>9. record[j] # None /\ ~Ended(j) /\ worker[w].intact
  BY <1>1, <1>2 DEF QueueInv, RecordsOK
<1>10. \A v \in Workers : worker[v].job = j => v = w
  BY <1>1, <1>2 DEF QueueInv, PlacesOK
<1>11. x.pc \in {"insert", "allocate", "failed"} /\ (x.pc = "failed" => j \in cut')
  BY <1>2
<1>12. Held(w)'
  <2>1. ~Ended(j)'
    BY <1>8, <1>9
  <2>2. QED BY <1>2, <1>7, <1>9, <1>11, <2>1 DEF Held
<1>13. PlacesOK' /\ RecordsOK'
  <2>1. x.pc = "pop" <=> x.job = None
    BY <1>1, <1>2, <1>11, WorkerIs
  <2>2. \A k \in Jobs : k = worker[w].job /\ Ended(k)' /\ record'[k].status = "failed" => k \in cut'
    BY <1>2, <1>8, <1>9
  <2>3. QED BY <1>1, <1>2, <1>12, <2>1, <2>2, RecordsKeep
<1>14. /\ worker[w].kept \subseteq wanted[j] /\ g \subseteq worker[w].kept
       /\ \A h \in worker[w].left : h \subseteq worker[w].kept /\ (h # g => g \cap h = {})
       /\ \A h, i \in worker[w].left : h # i => h \cap i = {}
       /\ \A r \in Rows : route[r].job = j =>
            route[r].orders \subseteq worker[w].kept /\ \A h \in worker[w].left : route[r].orders \cap h = {}
       /\ \A o \in worker[w].kept : \/ \E h \in worker[w].left : o \in h
                                    \/ \E r \in Rows : route[r].job = j /\ o \in route[r].orders
  BY <1>1, <1>2 DEF QueueInv, GroupsOK
<1>15. ASSUME NEW v \in Workers, worker'[v].pc \in {"insert", "allocate"}
       PROVE  /\ worker'[v].pc = "allocate" => worker'[v].left = {}
              /\ worker'[v].kept \subseteq wanted[worker'[v].job]
              /\ \A h \in worker'[v].left : h \subseteq worker'[v].kept
              /\ \A h, i \in worker'[v].left : h # i => h \cap i = {}
              /\ \A r \in Rows' : route'[r].job = worker'[v].job =>
                   route'[r].orders \subseteq worker'[v].kept /\ \A h \in worker'[v].left : route'[r].orders \cap h = {}
              /\ \A o \in worker'[v].kept : \/ \E h \in worker'[v].left : o \in h
                                            \/ \E r \in Rows' : route'[r].job = worker'[v].job /\ o \in route'[r].orders
  <2>1. CASE v = w
    <3>1. worker'[v] = x /\ x.left = worker[w].left \ {g} /\ x.kept = worker[w].kept /\ x.job = j
          /\ x.pc = IF worker[w].left = {g} THEN "allocate" ELSE "insert"
      BY <1>2, <1>7, <1>15, <2>1
    <3>2. x.pc = "allocate" => x.left = {}
      BY <3>1
    <3>3. /\ x.kept \subseteq wanted[j]
          /\ \A h \in x.left : h \subseteq x.kept
          /\ \A h, i \in x.left : h # i => h \cap i = {}
      BY <1>14, <3>1
    <3>4. ASSUME NEW r \in Rows', route'[r].job = j
          PROVE  route'[r].orders \subseteq x.kept /\ \A h \in x.left : route'[r].orders \cap h = {}
      <4>1. CASE r = m
        BY <1>4, <1>6, <1>14, <3>1, <4>1
      <4>2. CASE r # m
        BY <1>6, <1>14, <3>1, <3>4, <4>2
      <4>3. QED BY <4>1, <4>2
    <3>5. ASSUME NEW o \in x.kept
          PROVE  \/ \E h \in x.left : o \in h
                 \/ \E r \in Rows' : route'[r].job = j /\ o \in route'[r].orders
      <4>1. CASE o \in g
        BY <1>4, <1>6, <4>1
      <4>2. CASE o \notin g
        BY <1>6, <1>14, <3>1, <4>2
      <4>3. QED BY <4>1, <4>2
    <3>6. QED BY <3>1, <3>2, <3>3, <3>4, <3>5
  <2>2. CASE v # w
    <3>1. worker'[v] = worker[v] /\ worker[v].job # j
      BY <1>7, <1>10, <2>2
    <3>2. \A r \in Rows' : route'[r].job = worker[v].job => r \in Rows /\ route'[r] = route[r]
      BY <1>4, <1>6, <3>1
    <3>3. worker[v].pc \in {"insert", "allocate"}
      BY <1>15, <3>1
    <3>4. /\ worker[v].pc = "allocate" => worker[v].left = {}
          /\ worker[v].kept \subseteq wanted[worker[v].job]
          /\ \A h \in worker[v].left : h \subseteq worker[v].kept
          /\ \A h, i \in worker[v].left : h # i => h \cap i = {}
      BY <1>1, <3>3 DEF QueueInv, GroupsOK
    <3>5. \A r \in Rows' : route'[r].job = worker[v].job =>
            route'[r].orders \subseteq worker[v].kept /\ \A h \in worker[v].left : route'[r].orders \cap h = {}
      BY <1>1, <3>2, <3>3 DEF QueueInv, GroupsOK
    <3>6. \A o \in worker[v].kept : \/ \E h \in worker[v].left : o \in h
                                    \/ \E r \in Rows' : route'[r].job = worker[v].job /\ o \in route'[r].orders
      <4>1. \A o \in worker[v].kept : \/ \E h \in worker[v].left : o \in h
                                      \/ \E r \in Rows : route[r].job = worker[v].job /\ o \in route[r].orders
        BY <1>1, <3>3 DEF QueueInv, GroupsOK
      <4>2. QED BY <1>6, <4>1
    <3>7. QED BY <3>1, <3>4, <3>5, <3>6
  <2>3. QED BY <2>1, <2>2
<1>16. GroupsOK'
  BY <1>15 DEF GroupsOK
<1>17. RoutesOK'
  <2>1. ASSUME NEW r \in Rows', route'[r].job \in Jobs
        PROVE  /\ request[route'[r].job] = "answered" /\ ~InList(route'[r].job)
               /\ route'[r].orders \subseteq wanted[route'[r].job]
    <3>1. CASE r = m
      <4>1. request[j] = "answered" /\ ~InList(j)
        BY <1>1, <1>2 DEF QueueInv, PlacesOK
      <4>2. QED BY <1>4, <1>6, <1>14, <3>1, <4>1
    <3>2. CASE r # m
      BY <1>1, <1>6, <2>1, <3>2 DEF QueueInv, RoutesOK
    <3>3. QED BY <3>1, <3>2
  <2>2. ASSUME NEW r \in Rows', route'[r].job \in Jobs, NEW v \in Workers, worker'[v].job = route'[r].job
        PROVE  worker'[v].pc \in {"insert", "allocate", "done", "failed", "dead"}
    <3>1. CASE v = w
      BY <1>7, <1>11, <3>1
    <3>2. CASE v # w
      <4>1. worker'[v] = worker[v] /\ worker[v].job # j
        BY <1>7, <1>10, <3>2
      <4>2. r \in Rows /\ route'[r] = route[r]
        BY <1>4, <1>6, <2>2, <4>1
      <4>3. QED BY <1>1, <2>2, <4>1, <4>2 DEF QueueInv, RoutesOK
    <3>3. QED BY <3>1, <3>2
  <2>3. ASSUME NEW r \in Rows', route'[r].job \notin Jobs PROVE route'[r].orders = {}
    <3>1. r \in Rows /\ route'[r] = route[r]
      BY <1>4, <1>6, <2>3
    <3>2. QED BY <1>1, <2>3, <3>1 DEF QueueInv, RoutesOK
  <2>4. ASSUME NEW r \in Rows', NEW s \in Rows', r # s, route'[r].job = route'[s].job
        PROVE  route'[r].orders \cap route'[s].orders = {}
    <3>1. CASE r = m
      <4>1. s \in Rows /\ route'[s] = route[s] /\ route[s].job = j /\ route'[r].orders = g
        BY <1>4, <1>6, <2>4, <3>1
      <4>2. route[s].orders \cap g = {}
        BY <1>14, <4>1
      <4>3. QED BY <4>1, <4>2
    <3>2. CASE s = m
      <4>1. r \in Rows /\ route'[r] = route[r] /\ route[r].job = j /\ route'[s].orders = g
        BY <1>4, <1>6, <2>4, <3>2
      <4>2. route[r].orders \cap g = {}
        BY <1>14, <4>1
      <4>3. QED BY <4>1, <4>2
    <3>3. CASE r # m /\ s # m
      <4>1. r \in Rows /\ s \in Rows /\ route'[r] = route[r] /\ route'[s] = route[s]
        BY <1>6, <3>3
      <4>2. QED BY <1>1, <2>4, <4>1 DEF QueueInv, RoutesOK
    <3>4. QED BY <3>1, <3>2, <3>3
  <2>5. \A k \in Jobs : InList(k)' <=> InList(k)
    BY <1>8
  <2>6. QED BY <2>1, <2>2, <2>3, <2>4 DEF RoutesOK, InList
<1>18. ASSUME NEW k \in Jobs, k # j, Allocated(k) PROVE Allocated(k)'
  BY <1>4, <1>6, <1>18 DEF Allocated
<1>19. RoutedIsAllocated'
  <2>1. SUFFICES ASSUME NEW r \in Rows', NEW o \in route'[r].orders, order[o].status # "allocated", route'[r].job \notin cut'
                 PROVE  \E v \in Workers : worker'[v].job = route'[r].job /\ worker'[v].pc \in {"insert", "allocate"}
    BY DEF RoutedIsAllocated
  <2>2. CASE r = m
    <3>1. worker'[w].job = j /\ worker'[w].pc \in {"insert", "allocate"}
      BY <1>2, <1>4, <1>6, <1>7, <1>11, <2>1, <2>2
    <3>2. QED BY <1>4, <1>6, <2>2, <3>1
  <2>3. CASE r # m
    <3>1. r \in Rows /\ route'[r] = route[r]
      BY <1>6, <2>3
    <3>2. PICK v \in Workers : worker[v].job = route[r].job /\ worker[v].pc \in {"insert", "allocate"}
      BY <1>1, <2>1, <3>1 DEF QueueInv, AllocationOK, RoutedIsAllocated
    <3>3. worker'[v].job = route[r].job /\ worker'[v].pc \in {"insert", "allocate"}
      BY <1>2, <1>7, <1>11, <2>1, <3>1, <3>2
    <3>4. QED BY <3>1, <3>3
  <2>4. QED BY <2>2, <2>3
<1>20. AllocatedIsRouted'
  <2>1. SUFFICES ASSUME NEW o \in Orders, order[o].status = "allocated", ~order[o].warehouse
                 PROVE  \E r \in Rows' : o \in route'[r].orders
    BY DEF AllocatedIsRouted
  <2>2. PICK r \in Rows : o \in route[r].orders
    BY <1>1, <2>1 DEF QueueInv, AllocationOK, AllocatedIsRouted
  <2>3. QED BY <1>6, <2>2
<1>21. DoneIsTrue'
  <2>1. SUFFICES ASSUME NEW k \in Jobs, record[k] # None, record[k].status = "done"
                 PROVE  record[k].intact /\ Allocated(k)'
    BY DEF DoneIsTrue, Allocated
  <2>2. record[k].intact /\ Allocated(k)
    BY <1>1, <2>1 DEF QueueInv, AllocationOK, DoneIsTrue, Allocated
  <2>3. k # j
    BY <1>9, <2>1 DEF Ended
  <2>4. QED BY <1>18, <2>2, <2>3
<1>22. \A v \in Workers : worker'[v].pc = "done" => Allocated(worker[v].job)'
  <2>1. ASSUME NEW v \in Workers, worker'[v].pc = "done"
        PROVE  \A r \in Rows' : route'[r].job = worker'[v].job => \A o \in route'[r].orders : order'[o].status = "allocated"
    <3>1. v # w /\ worker'[v] = worker[v]
      BY <1>7, <1>11, <2>1
    <3>2. worker[v].job # j /\ worker[v].job \in Jobs /\ Allocated(worker[v].job)
      BY <1>1, <1>10, <2>1, <3>1, WorkerIs DEF QueueInv, AllocationOK, PlacesOK
    <3>3. QED BY <1>4, <1>6, <3>1, <3>2 DEF Allocated
  <2>2. QED BY <2>1 DEF Allocated
<1>23. AllocationOK'
  BY <1>19, <1>20, <1>21, <1>22 DEF AllocationOK
<1>24. RivalsOK'
  <2>1. ASSUME NEW k \in Jobs, NEW l \in Jobs, Clear(k, l) PROVE Clear(k, l)'
    <3>1. k # j /\ Ended(k)'
      BY <1>8, <1>9, <2>1 DEF Clear
    <3>2. QED BY <1>4, <1>6, <2>1, <3>1 DEF Clear
  <2>2. QED BY <1>1, <2>1 DEF QueueInv, RivalsOK
<1>25. QueueTypes'
  BY <1>1, WorkerTypes DEF QueueTypes
<1>26. RowsKept
  BY <1>3, <1>4, <1>5 DEF RowsKept
<1>27. QED BY <1>1, <1>5, <1>13, <1>16, <1>17, <1>23, <1>24, <1>25, <1>26, QueueStep DEF QueueInv

LEMMA InsertAllocateStep ==
  ASSUME PlanningInv, NEW w \in Workers, Insert(w) \/ Allocate(w)
  PROVE  PlanningInv'
<1>1. /\ TypeOK /\ QueueTypes /\ RouteTypes /\ failures \in Nat /\ cut \subseteq Jobs
  BY TypeParts DEF PlanningInv, QueueTypes
<1>2. CASE Insert(w)
  <2>1. /\ worker[w].pc = "insert" /\ Free # {} /\ CallsStay
        /\ UNCHANGED <<order, record, list, request, wanted, rivals, cut, failures>>
    BY <1>2 DEF Insert, At, Succeeds, routeVars, CallsStay
  <2>2. PICK g \in worker[w].left :
          /\ route' = [route EXCEPT ![Min(Free)] = NewRow(g, worker[w].job)]
          /\ worker' = [worker EXCEPT ![w].left = worker[w].left \ {g},
                          ![w].pc = IF worker[w].left = {g} THEN "allocate" ELSE "insert"]
    BY <1>2 DEF Insert
  <2>3. PICK p \in {"insert", "allocate"} : p = IF worker[w].left = {g} THEN "allocate" ELSE "insert"
    OBVIOUS
  <2>4. PICK x \in WorkerState : /\ worker' = [worker EXCEPT ![w] = x]
                                 /\ x.pc = p /\ x.job = worker[w].job /\ x.intact = worker[w].intact
                                 /\ x.left = worker[w].left \ {g} /\ x.kept = worker[w].kept
    <3>1. PICK y \in WorkerState : y = worker[w]
      BY <1>1, WorkerIs
    <3>2. y.left \ {g} \in SUBSET SUBSET Orders
      BY <1>1, <3>1, WorkerIs
    <3>3. PICK x \in WorkerState : x = [y EXCEPT !.left = y.left \ {g}, !.pc = p]
      BY <3>2 DEF WorkerState
    <3>4. worker' = [worker EXCEPT ![w] = x]
      BY <1>1, <2>2, <2>3, <3>1, <3>3, WorkerIs
    <3>5. QED BY <3>1, <3>3, <3>4 DEF WorkerState
  <2>5. cut \subseteq cut' /\ cut' \subseteq Jobs /\ failures' \in Nat
    BY <1>1, <2>1
  <2>6. x.left = worker[w].left \ {g} /\ x.pc = IF worker[w].left = {g} THEN "allocate" ELSE "insert"
    BY <2>3, <2>4
  <2>7. QED BY <2>1, <2>2, <2>4, <2>5, <2>6, InsertStep
<1>3. CASE Allocate(w)
  <2>1. /\ worker[w].pc = "allocate" /\ CallsStay
        /\ UNCHANGED <<record, list, request, wanted, route, rivals, cut, failures>>
        /\ MarkAllocated(worker[w].kept)
        /\ Goto(w, "done")
    BY <1>3 DEF Allocate, At, Succeeds, routeVars, CallsStay
  <2>2. PICK x \in WorkerState : Sent(w, "done", x)
    BY <1>1, Moved DEF PCs
  <2>3. worker' = [worker EXCEPT ![w] = x] /\ x.pc = "done" /\ x.job = worker[w].job /\ x.intact = worker[w].intact
    BY <2>1, <2>2 DEF Goto, Sent
  <2>4. cut \subseteq cut' /\ cut' \subseteq Jobs /\ failures' \in Nat
    BY <1>1, <2>1
  <2>5. QED BY <2>1, <2>3, <2>4, AllocateStep
<1>4. QED BY <1>2, <1>3

LEMMA HandlerFailsStep ==
  ASSUME PlanningInv, NEW w \in Workers, HandlerFails(w)
  PROVE  PlanningInv'
<1>1. /\ TypeOK /\ QueueInv /\ QueueTypes /\ RouteTypes /\ failures \in Nat /\ cut \subseteq Jobs
  BY TypeParts DEF PlanningInv, QueueTypes
<1>2. /\ worker[w].pc \in {"insert", "allocate"} /\ CallsStay /\ failures' \in Nat
      /\ UNCHANGED <<record, list, request, wanted, rivals>>
      /\ cut' = cut \cup {worker[w].job} /\ Goto(w, "failed")
  BY <1>1 DEF HandlerFails, Fails, routeVars, CallsStay
<1>3. worker[w].job \in Jobs
  BY <1>1, <1>2, WorkerIs DEF QueueInv, PlacesOK
<1>4. cut \subseteq cut' /\ cut' \subseteq Jobs /\ worker[w].job \in cut'
  BY <1>1, <1>2, <1>3
<1>5. PICK x \in WorkerState : Sent(w, "failed", x)
  BY <1>1, Moved DEF PCs
<1>6. /\ worker' = [worker EXCEPT ![w] = x] /\ x.pc = "failed" /\ x.job = worker[w].job
      /\ x.intact = worker[w].intact /\ x.kept = worker[w].kept
  BY <1>2, <1>5 DEF Goto, Sent
<1>7. CASE UNCHANGED <<route, order>>
  BY <1>2, <1>3, <1>4, <1>6, <1>7, CutStep
<1>8. CASE At(w, "insert") /\ Free # {} /\ UNCHANGED order
           /\ \E g \in worker[w].left : route' = [route EXCEPT ![Min(Free)] = NewRow(g, worker[w].job)]
  <2>1. PICK g \in worker[w].left : route' = [route EXCEPT ![Min(Free)] = NewRow(g, worker[w].job)]
    BY <1>8
  <2>2. worker[w].pc = "insert"
    BY <1>8 DEF At
  <2>3. QED BY <1>2, <1>4, <1>6, <1>8, <2>1, <2>2, InsertStep
<1>9. CASE At(w, "allocate") /\ MarkAllocated(worker[w].kept) /\ UNCHANGED route
  <2>1. worker[w].pc = "allocate"
    BY <1>9 DEF At
  <2>2. QED BY <1>2, <1>4, <1>6, <1>9, <2>1, AllocateStep
<1>10. QED BY <1>7, <1>8, <1>9 DEF HandlerFails

-----------------------------------------------------------------------------
(* The list *)

LEMMA Popped ==
  ASSUME TypeOK, PlacesOK, list # <<>>, list' = Tail(list)
  PROVE  /\ Head(list) \in Jobs /\ InList(Head(list)) /\ list' \in Seq(Jobs)
         /\ \A j : InList(j)' <=> InList(j) /\ j # Head(list)
         /\ \A i, k \in DOMAIN list' : list'[i] = list'[k] => i = k
<1>1. list \in Seq(Jobs) /\ Len(list) \in Nat /\ Len(list) >= 1 /\ DOMAIN list = 1..Len(list)
  BY DEF TypeOK
<1>2. Head(list) \in Jobs /\ Head(list) = list[1] /\ 1 \in DOMAIN list
  BY <1>1
<1>3. /\ list' \in Seq(Jobs) /\ DOMAIN list' = 1..(Len(list) - 1)
      /\ \A i \in 1..(Len(list) - 1) : list'[i] = list[i + 1]
  BY <1>1
<1>4. ASSUME NEW j, InList(j)' PROVE InList(j) /\ j # Head(list)
  <2>1. PICK i \in DOMAIN list' : list'[i] = j
    BY <1>4 DEF InList
  <2>2. i + 1 \in DOMAIN list /\ list[i + 1] = j /\ i + 1 # 1
    BY <1>1, <1>3, <2>1
  <2>3. QED BY <1>2, <2>2 DEF InList, PlacesOK
<1>5. ASSUME NEW j, InList(j), j # Head(list) PROVE InList(j)'
  <2>1. PICK i \in DOMAIN list : list[i] = j
    BY <1>5 DEF InList
  <2>2. i \in Nat /\ i # 1 /\ i - 1 \in 1..(Len(list) - 1) /\ i - 1 + 1 = i
    BY <1>1, <1>2, <1>5, <2>1
  <2>3. i - 1 \in DOMAIN list' /\ list'[i - 1] = j
    BY <1>3, <2>1, <2>2
  <2>4. QED BY <2>3 DEF InList
<1>6. \A i, k \in DOMAIN list' : list'[i] = list'[k] => i = k
  BY <1>1, <1>3 DEF PlacesOK
<1>7. InList(Head(list))
  BY <1>2 DEF InList
<1>8. QED BY <1>2, <1>3, <1>4, <1>5, <1>6, <1>7

LEMMA Pushed ==
  ASSUME TypeOK, PlacesOK, NEW j \in Jobs, ~InList(j), list' = Append(list, j)
  PROVE  /\ list' \in Seq(Jobs)
         /\ \A k : InList(k)' <=> InList(k) \/ k = j
         /\ \A i, k \in DOMAIN list' : list'[i] = list'[k] => i = k
<1>1. list \in Seq(Jobs) /\ Len(list) \in Nat /\ DOMAIN list = 1..Len(list)
  BY DEF TypeOK
<1>2. /\ list' \in Seq(Jobs) /\ DOMAIN list' = 1..(Len(list) + 1) /\ list'[Len(list) + 1] = j
      /\ \A i \in 1..Len(list) : list'[i] = list[i]
  BY <1>1
<1>3. \A i \in DOMAIN list' : i = Len(list) + 1 \/ i \in DOMAIN list
  BY <1>1, <1>2
<1>4. \A k : InList(k)' <=> InList(k) \/ k = j
  <2>1. \A k : InList(k)' => InList(k) \/ k = j
    BY <1>1, <1>2, <1>3 DEF InList
  <2>2. \A k : InList(k) => InList(k)'
    BY <1>1, <1>2 DEF InList
  <2>3. Len(list) + 1 \in DOMAIN list'
    BY <1>1, <1>2
  <2>4. InList(j)'
    BY <1>2, <2>3 DEF InList
  <2>5. QED BY <2>1, <2>2, <2>4
<1>5. \A i \in DOMAIN list : list[i] # j
  BY DEF InList
<1>6. \A i, k \in DOMAIN list' : list'[i] = list'[k] => i = k
  BY <1>1, <1>2, <1>3, <1>5 DEF PlacesOK
<1>7. QED BY <1>2, <1>4, <1>6

\* The head of the list is of a job that no worker and no row knows.
LEMMA HeadIsNew ==
  ASSUME TypeOK, QueueInv, InList(Head(list)), Head(list) \in Jobs
  PROVE  /\ request[Head(list)] = "answered" /\ record[Head(list)] = Fresh
         /\ \A w \in Workers : worker[w].job # Head(list)
         /\ \A r \in Rows : route[r].job # Head(list)
BY DEF QueueInv, PlacesOK, RecordsOK, RoutesOK

LEMMA PopStep ==
  ASSUME PlanningInv, NEW w \in Workers, Pop(w)
  PROVE  PlanningInv'
<1>1. /\ TypeOK /\ QueueInv /\ LifeInv /\ QueueTypes /\ RouteTypes /\ failures \in Nat /\ PlacesOK
  BY TypeParts DEF PlanningInv, QueueInv
<1>2. /\ worker[w].pc = "pop" /\ list # <<>> /\ list' = Tail(list) /\ CallsStay
      /\ worker' = [worker EXCEPT ![w].pc = "read", ![w].job = Head(list)]
      /\ UNCHANGED <<order, record, request, wanted, route, rivals, cut, failures>>
  BY DEF Pop, At, Succeeds, routeVars, CallsStay
<1>3. PICK h : h = Head(list)
  OBVIOUS
<1>4. /\ h \in Jobs /\ InList(h) /\ list' \in Seq(Jobs)
      /\ \A j : InList(j)' <=> InList(j) /\ j # h
      /\ \A i, k \in DOMAIN list' : list'[i] = list'[k] => i = k
  BY <1>1, <1>2, <1>3, Popped
<1>5. /\ request[h] = "answered" /\ record[h] = Fresh /\ Fresh # None
      /\ \A v \in Workers : worker[v].job # h
      /\ \A r \in Rows : route[r].job # h
  <2>1. Fresh \in JobHash
    BY DEF Fresh, JobHash
  <2>2. Fresh # None
    BY <2>1, NoneIsNoRow
  <2>3. QED BY <1>1, <1>3, <1>4, <2>2, HeadIsNew
<1>6. PICK x \in WorkerState : worker' = [worker EXCEPT ![w] = x] /\ x.pc = "read" /\ x.job = h
  <2>1. PICK y \in WorkerState : y = worker[w]
    BY <1>1, WorkerIs
  <2>2. PICK x \in WorkerState : x = [y EXCEPT !.pc = "read", !.job = h]
    BY <1>4 DEF WorkerState
  <2>3. worker' = [worker EXCEPT ![w] = x]
    BY <1>1, <1>2, <1>3, <2>1, <2>2, WorkerIs
  <2>4. QED BY <2>2, <2>3 DEF WorkerState
<1>7. \A v \in Workers : worker'[v] = IF v = w THEN x ELSE worker[v]
  BY <1>1, <1>6, WorkerIs
<1>8. \A k \in Jobs : Ended(k)' <=> Ended(k)
  BY <1>2 DEF Ended
<1>9. PlacesOK'
  <2>1. \A j \in Jobs : InList(j)' => request[j] = "answered"
    BY <1>1, <1>4 DEF PlacesOK
  <2>2. ASSUME NEW v \in Workers
        PROVE  /\ worker'[v].pc = "pop" <=> worker'[v].job = None
               /\ \A j \in Jobs : worker'[v].job = j => request[j] = "answered" /\ ~InList(j)'
    <3>1. CASE v = w
      BY <1>1, <1>4, <1>5, <1>6, <1>7, <3>1, WorkerIs
    <3>2. CASE v # w
      <4>1. worker'[v] = worker[v]
        BY <1>7, <3>2
      <4>2. QED BY <1>1, <1>4, <4>1 DEF PlacesOK
    <3>3. QED BY <3>1, <3>2
  <2>3. \A u, v \in Workers : worker'[u].job = worker'[v].job /\ worker'[u].job \in Jobs => u = v
    BY <1>1, <1>5, <1>6, <1>7 DEF PlacesOK
  <2>4. \A v \in Workers : worker'[v].job \in Jobs =>
          request[worker'[v].job] = "answered" /\ ~\E i \in DOMAIN list' : list'[i] = worker'[v].job
    BY <2>2 DEF InList
  <2>5. \A j \in Jobs : (\E i \in DOMAIN list' : list'[i] = j) => request'[j] = "answered"
    BY <1>2, <2>1 DEF InList
  <2>6. QED BY <1>2, <1>4, <2>2, <2>3, <2>4, <2>5 DEF PlacesOK, InList
<1>10. RecordsOK'
  <2>1. \A j \in Jobs : /\ request'[j] \in {"none", "save"} => record'[j] = None
                        /\ request'[j] = "push" \/ InList(j)' => record'[j] = Fresh
                        /\ Ended(j)' => ~InList(j)'
                        /\ Ended(j)' /\ record'[j].status = "failed" => j \in cut'
    BY <1>1, <1>2, <1>4, <1>8 DEF QueueInv, RecordsOK
  <2>2. ASSUME NEW v \in Workers PROVE Held(v)'
    <3>1. CASE v = w
      <4>1. worker'[v] = x
        BY <1>7, <3>1
      <4>2. ~Ended(h)'
        BY <1>2, <1>5 DEF Ended, Fresh
      <4>3. QED BY <1>2, <1>5, <1>6, <4>1, <4>2 DEF Held
    <3>2. CASE v # w
      <4>1. worker'[v] = worker[v]
        BY <1>7, <3>2
      <4>2. Held(v)
        BY <1>1 DEF QueueInv, RecordsOK, Held
      <4>3. record' = record /\ cut' = cut
        BY <1>2
      <4>4. QED BY <4>1, <4>2, <4>3 DEF Held, Ended
    <3>3. QED BY <3>1, <3>2
  <2>3. QED BY <2>1, <2>2 DEF RecordsOK, Held
<1>11. GroupsOK' /\ RoutesOK' /\ AllocationOK' /\ RivalsOK'
  <2>1. /\ x.pc \notin {"insert", "allocate"} /\ x.pc # "done"
        /\ \A r \in Rows : route[r].job = x.job /\ x.job \in Jobs => x.pc \in {"done", "failed", "dead"}
    BY <1>5, <1>6
  <2>2. QED BY <1>1, <1>2, <1>4, <1>6, <1>8, <2>1, WorkerKeeps
<1>12. QueueTypes'
  BY <1>1, <1>2, <1>4, <1>6, WorkerTypes DEF QueueTypes
<1>13. QED BY <1>1, <1>2, <1>9, <1>10, <1>11, <1>12, QueueStep DEF QueueInv, RowsKept, RouteTypes

\* A pop that fails loses the job it took.
LEMMA PopFailsStep ==
  ASSUME PlanningInv, NEW w \in Workers, PopFails(w)
  PROVE  PlanningInv'
<1>1. /\ TypeOK /\ QueueInv /\ LifeInv /\ QueueTypes /\ RouteTypes /\ failures \in Nat /\ PlacesOK
  BY TypeParts DEF PlanningInv, QueueInv
<1>2. /\ worker[w].pc = "pop" /\ list # <<>> /\ list' = Tail(list) /\ CallsStay /\ failures' \in Nat
      /\ cut' = cut \cup {Head(list)}
      /\ UNCHANGED <<order, record, request, wanted, worker, route, rivals>>
  BY <1>1 DEF PopFails, At, Fails, routeVars, CallsStay
<1>3. /\ Head(list) \in Jobs /\ list' \in Seq(Jobs)
      /\ \A j : InList(j)' <=> InList(j) /\ j # Head(list)
      /\ \A i, k \in DOMAIN list' : list'[i] = list'[k] => i = k
  BY <1>1, <1>2, Popped
<1>4. cut \subseteq cut' /\ cut' \subseteq Jobs
  BY <1>1, <1>2, <1>3 DEF QueueTypes
<1>5. \A k \in Jobs : Ended(k)' <=> Ended(k)
  BY <1>2 DEF Ended
<1>6. PlacesOK'
  <2>1. \A j \in Jobs : InList(j)' => request[j] = "answered"
    BY <1>1, <1>3 DEF PlacesOK
  <2>2. \A v \in Workers, j \in Jobs : worker[v].job = j => request[j] = "answered" /\ ~InList(j)'
    BY <1>1, <1>3 DEF PlacesOK
  <2>3. QED BY <1>1, <1>2, <1>3, <2>1, <2>2 DEF PlacesOK, InList
<1>7. RecordsOK'
  <2>1. \A j \in Jobs : /\ request'[j] \in {"none", "save"} => record'[j] = None
                        /\ request'[j] = "push" \/ InList(j)' => record'[j] = Fresh
                        /\ Ended(j)' => ~InList(j)'
                        /\ Ended(j)' /\ record'[j].status = "failed" => j \in cut'
    BY <1>1, <1>2, <1>3, <1>4, <1>5 DEF QueueInv, RecordsOK
  <2>2. \A v \in Workers : Held(v)'
    BY <1>1, <1>2, <1>4, <1>5 DEF QueueInv, RecordsOK, Held
  <2>3. QED BY <2>1, <2>2 DEF RecordsOK, Held
<1>8. PICK x \in WorkerState : /\ worker' = [worker EXCEPT ![w] = x] /\ x.pc = "pop" /\ x.job = None
  BY <1>1, <1>2, WorkerIs DEF PlacesOK
<1>9. GroupsOK' /\ RoutesOK' /\ AllocationOK' /\ RivalsOK'
  <2>1. /\ x.pc \notin {"insert", "allocate"} /\ x.pc # "done"
        /\ \A r \in Rows : route[r].job = x.job /\ x.job \in Jobs => x.pc \in {"done", "failed", "dead"}
    BY <1>8, PlanningConstants
  <2>2. QED BY <1>1, <1>2, <1>3, <1>4, <1>5, <1>8, <2>1, WorkerKeeps
<1>10. QueueTypes'
  BY <1>1, <1>2, <1>3, <1>4, <1>8, WorkerTypes DEF QueueTypes
<1>11. QED BY <1>1, <1>2, <1>6, <1>7, <1>9, <1>10, QueueStep DEF QueueInv, RowsKept, RouteTypes

-----------------------------------------------------------------------------
(* The request *)

\* A step of the request for job j, which nobody else has seen yet.
LEMMA RequestStep ==
  ASSUME PlanningInv, NEW j \in Jobs, request[j] # "answered",
         NEW p \in {"save", "push", "answered"}, request' = [request EXCEPT ![j] = p],
         UNCHANGED <<order, worker, route>>, CallsStay,
         wanted' \in [Jobs -> SUBSET Orders], \A k \in Jobs : k # j => wanted'[k] = wanted[k],
         record' \in [Jobs -> JobHash \cup {None}], \A k \in Jobs : k # j => record'[k] = record[k],
         list' \in Seq(Jobs), \A k \in Jobs : k # j => (InList(k)' <=> InList(k)),
         \A i, k \in DOMAIN list' : list'[i] = list'[k] => i = k,
         record'[j] \in {None, Fresh}, p = "save" => record'[j] = None,
         p = "push" \/ InList(j)' => record'[j] = Fresh, InList(j)' => p = "answered",
         rivals' \subseteq SUBSET Jobs, cut \subseteq cut', cut' \subseteq Jobs, failures' \in Nat,
         RivalsOK'
  PROVE  PlanningInv'
<1>1. /\ TypeOK /\ QueueInv /\ LifeInv /\ QueueTypes /\ RouteTypes
  BY TypeParts DEF PlanningInv
<1>2. \A k \in Jobs : request'[k] = IF k = j THEN p ELSE request[k]
  BY <1>1 DEF QueueTypes
<1>3. Rows' = Rows
  BY DEF Rows
<1>4. ~Ended(j)' /\ \A k \in Jobs : k # j => (Ended(k)' <=> Ended(k))
  BY DEF Ended, Fresh
<1>5. \A w \in Workers : worker[w].job # j
  BY <1>1 DEF QueueInv, PlacesOK
<1>6. \A r \in Rows : route[r].job # j
  BY <1>1 DEF QueueInv, RoutesOK
<1>7. PlacesOK'
  <2>1. \A k \in Jobs : InList(k)' => request'[k] = "answered"
    BY <1>1, <1>2 DEF QueueInv, PlacesOK
  <2>2. \A v \in Workers, k \in Jobs : worker[v].job = k => request'[k] = "answered" /\ ~InList(k)'
    BY <1>1, <1>2, <1>5 DEF QueueInv, PlacesOK
  <2>3. QED BY <1>1, <2>1, <2>2 DEF QueueInv, PlacesOK, InList
<1>8. RecordsOK'
  <2>1. ASSUME NEW k \in Jobs
        PROVE  /\ request'[k] \in {"none", "save"} => record'[k] = None
               /\ request'[k] = "push" \/ InList(k)' => record'[k] = Fresh
               /\ Ended(k)' => ~InList(k)'
               /\ Ended(k)' /\ record'[k].status = "failed" => k \in cut'
    <3>1. CASE k = j
      BY <1>2, <1>4, <3>1
    <3>2. CASE k # j
      BY <1>1, <1>2, <1>4, <3>2 DEF QueueInv, RecordsOK
    <3>3. QED BY <3>1, <3>2
  <2>2. \A v \in Workers : Held(v)'
    BY <1>1, <1>4, <1>5 DEF QueueInv, RecordsOK, Held
  <2>3. QED BY <2>1, <2>2 DEF RecordsOK, Held
<1>9. GroupsOK'
  <2>1. \A v \in Workers : worker[v].pc \in {"insert", "allocate"} => wanted'[worker[v].job] = wanted[worker[v].job]
    BY <1>1, <1>5, WorkerIs DEF QueueInv, PlacesOK
  <2>2. QED BY <1>1, <1>3, <2>1 DEF QueueInv, GroupsOK
<1>10. RoutesOK'
  <2>1. \A r \in Rows, k \in Jobs : route[r].job = k =>
          request'[k] = "answered" /\ ~InList(k)' /\ wanted'[k] = wanted[k]
    BY <1>1, <1>2, <1>6 DEF QueueInv, RoutesOK
  <2>2. QED BY <1>1, <1>3, <2>1 DEF QueueInv, RoutesOK, InList
<1>11. AllocationOK'
  <2>1. RoutedIsAllocated' /\ AllocatedIsRouted'
    BY <1>1, <1>3 DEF QueueInv, AllocationOK, RoutedIsAllocated, AllocatedIsRouted
  <2>2. DoneIsTrue'
    <3>1. SUFFICES ASSUME NEW k \in Jobs, record'[k] # None, record'[k].status = "done"
                   PROVE  record'[k].intact /\ Allocated(k)
      BY <1>3 DEF DoneIsTrue, Allocated
    <3>2. k # j
      BY <1>4, <3>1 DEF Ended
    <3>3. QED BY <1>1, <3>1, <3>2 DEF QueueInv, AllocationOK, DoneIsTrue, Allocated
  <2>3. \A v \in Workers : worker'[v].pc = "done" => Allocated(worker[v].job)'
    BY <1>1, <1>3 DEF QueueInv, AllocationOK, Allocated
  <2>4. QED BY <2>1, <2>2, <2>3 DEF AllocationOK
<1>12. QueueTypes'
  BY <1>1 DEF QueueTypes
<1>13. QED BY <1>1, <1>7, <1>8, <1>9, <1>10, <1>11, <1>12, QueueStep DEF QueueInv, RowsKept, RouteTypes

\* A job that ends leaves what its rivalries were.
LEMMA RivalsStay ==
  ASSUME TypeOK, RivalsOK, NEW j \in Jobs, request[j] # "none", NEW p \in {"save", "push", "answered"},
         request' = [request EXCEPT ![j] = p], UNCHANGED <<wanted, route, rivals>>, cut \subseteq cut',
         \A k \in Jobs : Ended(k) => Ended(k)'
  PROVE  RivalsOK'
<1>1. \A k \in Jobs : request'[k] # "none" <=> request[k] # "none"
  BY DEF TypeOK
<1>2. \A k, l \in Jobs : Clear(k, l) => Clear(k, l)'
  BY DEF Clear, Rows
<1>3. QED BY <1>1, <1>2 DEF RivalsOK

\* The check at the door: the orders are pending, so no job that ended has them on a route.
LEMMA AcceptStep ==
  ASSUME PlanningInv, NEW j \in Jobs, NEW orders \in SUBSET Orders, Accept(j, orders)
  PROVE  PlanningInv'
<1>1. /\ TypeOK /\ QueueInv /\ LifeInv /\ QueueTypes /\ RouteTypes /\ failures \in Nat
  BY TypeParts DEF PlanningInv
<1>2. /\ request[j] = "none" /\ CallsStay /\ \A o \in orders : order[o].status = "pending"
      /\ request' = [request EXCEPT ![j] = "save"] /\ wanted' = [wanted EXCEPT ![j] = orders]
      /\ rivals' = rivals \cup {{j, k} : k \in Open}
      /\ UNCHANGED <<order, record, list, worker, route, cut, failures>>
  BY DEF Accept, Succeeds, routeVars, CallsStay
<1>3. /\ \A k \in Jobs : request'[k] = IF k = j THEN "save" ELSE request[k]
      /\ \A k \in Jobs : wanted'[k] = IF k = j THEN orders ELSE wanted[k]
      /\ wanted' \in [Jobs -> SUBSET Orders] /\ Rows' = Rows
  BY <1>1, <1>2 DEF QueueTypes, Rows
<1>4. /\ record[j] = None /\ ~InList(j) /\ ~Ended(j)
      /\ \A i, k \in DOMAIN list : list[i] = list[k] => i = k
  BY <1>1, <1>2 DEF QueueInv, PlacesOK, RecordsOK, Ended
<1>5. \A k \in Jobs : (InList(k)' <=> InList(k)) /\ (Ended(k)' <=> Ended(k))
  BY <1>2 DEF InList, Ended
<1>6. ASSUME NEW k \in Jobs, k # j, request[k] # "none" PROVE {j, k} \in rivals' \/ k \in cut \/ Clear(k, j)'
  <2>1. CASE k \in Open
    BY <1>2, <2>1
  <2>2. CASE k \notin Open /\ k \notin cut
    <3>1. Ended(k) /\ record[k].status = "done" /\ record[k] # None
      BY <1>1, <1>6, <2>2 DEF Open, Ended, QueueInv, RecordsOK
    <3>2. Allocated(k)
      BY <1>1, <3>1 DEF QueueInv, AllocationOK, DoneIsTrue, Allocated
    <3>3. \A r \in Rows : route[r].job = k => route[r].orders \cap orders = {}
      BY <1>2, <3>2 DEF Allocated
    <3>4. QED BY <1>2, <1>3, <1>5, <3>1, <3>3 DEF Clear
  <2>3. QED BY <2>1, <2>2
<1>7. RivalsOK'
  <2>1. SUFFICES ASSUME NEW k \in Jobs, NEW l \in Jobs, k # l, request'[k] # "none", request'[l] # "none"
                 PROVE  {k, l} \in rivals' \/ k \in cut \/ l \in cut \/ Clear(k, l)' \/ Clear(l, k)'
    BY <1>2 DEF RivalsOK
  <2>2. CASE k = j
    <3>1. l # j /\ request[l] # "none"
      BY <1>3, <2>1, <2>2
    <3>2. QED BY <1>6, <2>2, <3>1
  <2>3. CASE l = j
    <3>1. k # j /\ request[k] # "none" /\ {k, l} = {j, k}
      BY <1>3, <2>1, <2>3
    <3>2. QED BY <1>6, <2>3, <3>1
  <2>4. CASE k # j /\ l # j
    <3>1. request[k] # "none" /\ request[l] # "none" /\ wanted'[k] = wanted[k] /\ wanted'[l] = wanted[l]
      BY <1>3, <2>1, <2>4
    <3>2. {k, l} \in rivals \/ k \in cut \/ l \in cut \/ Clear(k, l) \/ Clear(l, k)
      BY <1>1, <2>1, <3>1 DEF QueueInv, RivalsOK
    <3>3. (Clear(k, l) => Clear(k, l)') /\ (Clear(l, k) => Clear(l, k)')
      BY <1>2, <1>3, <1>5, <3>1 DEF Clear
    <3>4. QED BY <1>2, <3>2, <3>3
  <2>5. QED BY <2>2, <2>3, <2>4
<1>8. rivals' \subseteq SUBSET Jobs
  <2>1. \A k \in Open : {j, k} \in SUBSET Jobs
    BY DEF Open
  <2>2. QED BY <1>1, <1>2, <2>1 DEF QueueTypes
<1>9. /\ record' \in [Jobs -> JobHash \cup {None}] /\ list' \in Seq(Jobs)
      /\ cut \subseteq cut' /\ cut' \subseteq Jobs /\ failures' \in Nat
  BY <1>1, <1>2 DEF QueueTypes
<1>10. /\ \A k \in Jobs : k # j => wanted'[k] = wanted[k] /\ record'[k] = record[k] /\ (InList(k)' <=> InList(k))
       /\ \A i, k \in DOMAIN list' : list'[i] = list'[k] => i = k
       /\ record'[j] = None /\ ~InList(j)' /\ request[j] # "answered"
  BY <1>2, <1>3, <1>4, <1>5
<1>11. QED BY <1>2, <1>3, <1>7, <1>8, <1>9, <1>10, RequestStep

\* The hash, the list, or the answer, each with or without the statement before it.
LEMMA EnqueueStep ==
  ASSUME PlanningInv, NEW j \in Jobs, SaveJob(j) \/ PushJob(j) \/ EnqueueFails(j)
  PROVE  PlanningInv'
<1>1. /\ TypeOK /\ QueueInv /\ LifeInv /\ QueueTypes /\ RouteTypes /\ failures \in Nat /\ PlacesOK
  BY TypeParts DEF PlanningInv, QueueInv
<1>2. /\ request[j] \in {"save", "push"} /\ CallsStay
      /\ UNCHANGED <<order, wanted, worker, route, rivals>>
      /\ failures' \in Nat /\ cut \subseteq cut' /\ cut' \subseteq Jobs
  BY <1>1 DEF SaveJob, PushJob, EnqueueFails, Fails, Succeeds, routeVars, CallsStay, QueueTypes
<1>3. /\ ~InList(j) /\ (request[j] = "save" => record[j] = None) /\ (request[j] = "push" => record[j] = Fresh)
      /\ \A i, k \in DOMAIN list : list[i] = list[k] => i = k
  BY <1>1, <1>2 DEF QueueInv, PlacesOK, RecordsOK
<1>4. PICK p \in {"push", "answered"} :
        /\ request' = [request EXCEPT ![j] = p]
        /\ record' = record \/ (request[j] = "save" /\ record' = [record EXCEPT ![j] = Fresh])
        /\ list' = list \/ (request[j] = "push" /\ p = "answered" /\ list' = Append(list, j))
        /\ p = "push" => record' = [record EXCEPT ![j] = Fresh]
  <2>1. CASE SaveJob(j)
    BY <2>1 DEF SaveJob, Fresh
  <2>2. CASE PushJob(j)
    BY <2>2 DEF PushJob
  <2>3. CASE EnqueueFails(j)
    BY <2>3 DEF EnqueueFails, Fresh
  <2>4. QED BY <1>1, <2>1, <2>2, <2>3
<1>5. Fresh \in JobHash /\ Fresh # None
  <2>1. Fresh \in JobHash
    BY DEF Fresh, JobHash
  <2>2. QED BY <2>1, NoneIsNoRow
<1>6. /\ record' \in [Jobs -> JobHash \cup {None}] /\ \A k \in Jobs : k # j => record'[k] = record[k]
      /\ record'[j] \in {record[j], Fresh} /\ (request[j] = "push" => record'[j] = Fresh)
      /\ (p = "push" => record'[j] = Fresh) /\ record'[j] \in {None, Fresh}
  BY <1>1, <1>2, <1>3, <1>4, <1>5 DEF QueueTypes
<1>7. /\ list' \in Seq(Jobs) /\ \A k \in Jobs : k # j => (InList(k)' <=> InList(k))
      /\ \A i, k \in DOMAIN list' : list'[i] = list'[k] => i = k
      /\ InList(j)' => p = "answered" /\ request[j] = "push"
  <2>1. CASE list' = list
    <3>1. \A k : InList(k)' <=> InList(k)
      BY <2>1 DEF InList
    <3>2. QED BY <1>1, <1>3, <2>1, <3>1 DEF QueueTypes
  <2>2. CASE request[j] = "push" /\ p = "answered" /\ list' = Append(list, j)
    BY <1>1, <1>3, <2>2, Pushed
  <2>3. QED BY <1>4, <2>1, <2>2
<1>8. ASSUME NEW k \in Jobs, Ended(k) PROVE Ended(k)'
  <2>1. k # j
    BY <1>2, <1>3, <1>8 DEF Ended, Fresh
  <2>2. QED BY <1>6, <1>8, <2>1 DEF Ended
<1>9. RivalsOK'
  <2>1. RivalsOK
    BY <1>1 DEF QueueInv
  <2>2. QED BY <1>1, <1>2, <1>4, <1>8, <2>1, RivalsStay
<1>10. p = "push" \/ InList(j)' => record'[j] = Fresh
  BY <1>6, <1>7
<1>11. /\ wanted' \in [Jobs -> SUBSET Orders] /\ \A k \in Jobs : k # j => wanted'[k] = wanted[k]
       /\ rivals' \subseteq SUBSET Jobs /\ request[j] # "answered"
  BY <1>1, <1>2 DEF QueueTypes
<1>12. QED BY <1>2, <1>4, <1>6, <1>7, <1>9, <1>10, <1>11, RequestStep

\* A row that serves no order and is of no job.
LEMMA CreateStep ==
  ASSUME PlanningInv, CreateRoute
  PROVE  PlanningInv'
<1>1. /\ TypeOK /\ QueueInv /\ LifeInv /\ QueueTypes /\ RouteTypes /\ failures \in Nat
  BY TypeParts DEF PlanningInv
<1>2. /\ Free # {} /\ CallsStay /\ route' = [route EXCEPT ![Min(Free)] = NewRow({}, None)]
      /\ UNCHANGED <<order, record, list, request, wanted, worker, rivals, cut, failures>>
  BY DEF CreateRoute, Succeeds, queueVars, routeVars, CallsStay
<1>3. PICK m \in Routes : m = Min(Free) /\ route[m] = None /\ m \notin Rows
  BY <1>2, MinFree DEF Rows
<1>4. PICK row \in RouteRow : /\ row = NewRow({}, None) /\ row # None /\ row.status = "planned"
                              /\ row.orders = {} /\ row.job = None
  <2>1. NewRow({}, None) \in RouteRow
    BY DEF NewRow, RouteRow
  <2>2. QED BY <2>1, NoneIsNoRow DEF NewRow
<1>5. /\ \A r \in Routes : route'[r] = IF r = m THEN row ELSE route[r]
      /\ route' \in [Routes -> RouteRow \cup {None}]
  BY <1>1, <1>2, <1>3, <1>4 DEF RouteTypes
<1>6. /\ Rows' = Rows \cup {m} /\ route'[m] = row
      /\ \A r \in Rows : route'[r] = route[r]
  BY <1>3, <1>4, <1>5 DEF Rows
<1>7. \A k \in Jobs : \A r \in Rows' : route'[r].job = k => r \in Rows
  BY <1>4, <1>6, PlanningConstants
<1>8. PlacesOK'
  BY <1>1, <1>2 DEF QueueInv, PlacesOK, InList
<1>9. RecordsOK'
  BY <1>1, <1>2 DEF QueueInv, RecordsOK, InList, Ended
<1>10. GroupsOK'
  <2>1. ASSUME NEW w \in Workers, worker[w].pc \in {"insert", "allocate"}
        PROVE  /\ worker[w].pc = "allocate" => worker[w].left = {}
               /\ worker[w].kept \subseteq wanted[worker[w].job]
               /\ \A h \in worker[w].left : h \subseteq worker[w].kept
               /\ \A h, i \in worker[w].left : h # i => h \cap i = {}
               /\ \A r \in Rows' : route'[r].job = worker[w].job =>
                    route'[r].orders \subseteq worker[w].kept /\ \A h \in worker[w].left : route'[r].orders \cap h = {}
               /\ \A o \in worker[w].kept : \/ \E h \in worker[w].left : o \in h
                                            \/ \E r \in Rows' : route'[r].job = worker[w].job /\ o \in route'[r].orders
    <3>1. \A o \in worker[w].kept : \/ \E h \in worker[w].left : o \in h
                                    \/ \E r \in Rows : route[r].job = worker[w].job /\ o \in route[r].orders
      BY <1>1, <2>1 DEF QueueInv, GroupsOK
    <3>2. \A o \in worker[w].kept : \/ \E h \in worker[w].left : o \in h
                                    \/ \E r \in Rows' : route'[r].job = worker[w].job /\ o \in route'[r].orders
      BY <1>6, <3>1
    <3>3. \A r \in Rows' : route'[r].job = worker[w].job =>
                    route'[r].orders \subseteq worker[w].kept /\ \A h \in worker[w].left : route'[r].orders \cap h = {}
      BY <1>1, <1>4, <1>6, <2>1 DEF QueueInv, GroupsOK
    <3>4. QED BY <1>1, <2>1, <3>2, <3>3 DEF QueueInv, GroupsOK
  <2>2. QED BY <1>2, <2>1 DEF GroupsOK
<1>11. RoutesOK'
  <2>1. ASSUME NEW r \in Rows'
        PROVE  IF route'[r].job \in Jobs
               THEN /\ request[route'[r].job] = "answered" /\ ~InList(route'[r].job)
                    /\ route'[r].orders \subseteq wanted[route'[r].job]
                    /\ \A w \in Workers : worker[w].job = route'[r].job =>
                         worker[w].pc \in {"insert", "allocate", "done", "failed", "dead"}
               ELSE route'[r].orders = {}
    <3>1. CASE r = m
      BY <1>4, <1>6, <3>1, PlanningConstants
    <3>2. CASE r # m
      BY <1>1, <1>6, <3>2 DEF QueueInv, RoutesOK
    <3>3. QED BY <3>1, <3>2
  <2>2. \A r, s \in Rows' : r # s /\ route'[r].job = route'[s].job => route'[r].orders \cap route'[s].orders = {}
    BY <1>1, <1>4, <1>6 DEF QueueInv, RoutesOK
  <2>3. QED BY <1>2, <2>1, <2>2 DEF RoutesOK, InList
<1>12. \A k \in Jobs : Allocated(k) => Allocated(k)'
  BY <1>2, <1>6, <1>7 DEF Allocated
<1>13. AllocationOK'
  <2>1. RoutedIsAllocated'
    BY <1>1, <1>2, <1>4, <1>6 DEF QueueInv, AllocationOK, RoutedIsAllocated
  <2>2. AllocatedIsRouted'
    BY <1>1, <1>2, <1>6 DEF QueueInv, AllocationOK, AllocatedIsRouted
  <2>3. DoneIsTrue'
    <3>1. SUFFICES ASSUME NEW k \in Jobs, record[k] # None, record[k].status = "done"
                   PROVE  record[k].intact /\ Allocated(k)'
      BY <1>2 DEF DoneIsTrue, Allocated
    <3>2. QED BY <1>1, <1>12, <3>1 DEF QueueInv, AllocationOK, DoneIsTrue, Allocated
  <2>4. ASSUME NEW w \in Workers, worker[w].pc = "done" PROVE Allocated(worker[w].job)'
    <3>1. worker[w].job \in Jobs /\ Allocated(worker[w].job)
      BY <1>1, <2>4, WorkerIs DEF QueueInv, AllocationOK, PlacesOK
    <3>2. QED BY <1>2, <1>6, <1>7, <3>1 DEF Allocated
  <2>5. QED BY <1>2, <2>1, <2>2, <2>3, <2>4 DEF AllocationOK
<1>14. RivalsOK'
  <2>1. \A k, l \in Jobs : Clear(k, l) => Clear(k, l)'
    BY <1>2, <1>6, <1>7 DEF Clear, Ended
  <2>2. QED BY <1>1, <1>2, <2>1 DEF QueueInv, RivalsOK
<1>15. QueueTypes'
  BY <1>1, <1>2 DEF QueueTypes
<1>16. RowsKept
  BY <1>3, <1>4, <1>5 DEF RowsKept
<1>17. QED BY <1>1, <1>2, <1>5, <1>8, <1>9, <1>10, <1>11, <1>13, <1>14, <1>15, <1>16, QueueStep DEF QueueInv

-----------------------------------------------------------------------------
(* The other writer of orders *)

\* An order allocated to a warehouse may be on routes or on none: no route, job or call
\* is touched, and no order goes back to pending.
LEMMA WarehouseStep ==
  ASSUME PlanningInv, NEW o \in Orders, AllocateToWarehouse(o)
  PROVE  PlanningInv'
<1>1. /\ TypeOK /\ QueueInv /\ LifeInv /\ QueueTypes /\ RouteTypes /\ failures \in Nat
  BY TypeParts DEF PlanningInv
<1>2. /\ order' = [order EXCEPT ![o] = [status |-> "allocated", warehouse |-> TRUE]] /\ CallsStay
      /\ UNCHANGED <<record, list, request, wanted, worker, route, rivals, cut, failures>>
  BY DEF AllocateToWarehouse, Succeeds, queueVars, routeVars, CallsStay
<1>3. /\ [status |-> "allocated", warehouse |-> TRUE] \in OrderRow
      /\ \A p \in Orders : order'[p] = IF p = o THEN [status |-> "allocated", warehouse |-> TRUE] ELSE order[p]
  BY <1>1, <1>2 DEF QueueTypes, OrderRow
<1>4. \A p \in Orders : /\ order[p].status = "allocated" => order'[p].status = "allocated"
                        /\ order'[p].status = "allocated" /\ ~order'[p].warehouse =>
                             order[p].status = "allocated" /\ ~order[p].warehouse
  BY <1>3
<1>5. Rows' = Rows /\ \A r \in Rows : route[r].orders \subseteq Orders
  BY <1>1, <1>2, RowTypes DEF Rows
<1>6. PlacesOK' /\ RecordsOK'
  BY <1>1, <1>2 DEF QueueInv, PlacesOK, RecordsOK, InList, Ended
<1>7. GroupsOK' /\ RoutesOK'
  BY <1>1, <1>2, <1>5 DEF QueueInv, GroupsOK, RoutesOK, InList
<1>8. \A j : Allocated(j) => Allocated(j)'
  BY <1>2, <1>4, <1>5 DEF Allocated
<1>9. AllocationOK'
  <2>1. RoutedIsAllocated'
    BY <1>1, <1>2, <1>4, <1>5 DEF QueueInv, AllocationOK, RoutedIsAllocated
  <2>2. AllocatedIsRouted'
    BY <1>1, <1>2, <1>4, <1>5 DEF QueueInv, AllocationOK, AllocatedIsRouted
  <2>3. ASSUME NEW j \in Jobs, record[j] # None, record[j].status = "done"
        PROVE  record[j].intact /\ Allocated(j)'
    BY <1>1, <1>8, <2>3 DEF QueueInv, AllocationOK, DoneIsTrue, Allocated
  <2>4. DoneIsTrue'
    BY <1>2, <2>3 DEF DoneIsTrue, Allocated
  <2>5. ASSUME NEW w \in Workers, worker[w].pc = "done" PROVE Allocated(worker[w].job)'
    BY <1>1, <1>2, <1>4, <1>5, <2>5 DEF QueueInv, AllocationOK, Allocated
  <2>6. QED BY <1>2, <2>1, <2>2, <2>4, <2>5 DEF AllocationOK
<1>10. RivalsOK'
  <2>1. \A j, k \in Jobs : Clear(j, k) => Clear(j, k)'
    BY <1>2, <1>5 DEF Clear, Ended
  <2>2. QED BY <1>1, <1>2, <2>1 DEF QueueInv, RivalsOK
<1>11. QueueTypes'
  BY <1>1, <1>2, <1>3 DEF QueueTypes
<1>12. RowsKept
  BY <1>1, <1>2, <1>5 DEF RowsKept, RouteTypes
<1>13. QED BY <1>1, <1>2, <1>6, <1>7, <1>9, <1>10, <1>11, <1>12, QueueStep DEF QueueInv, RouteTypes

-----------------------------------------------------------------------------
(* The theorems *)

LEMMA InitPlanning == Init => PlanningInv
<1>1. SUFFICES ASSUME Init PROVE PlanningInv
  OBVIOUS
<1>2. /\ \A j \in Jobs : record[j] = None /\ request[j] = "none" /\ wanted[j] = {} /\ ~InList(j) /\ ~Ended(j)
      /\ \A w \in Workers : worker[w].pc = "pop" /\ worker[w].job = None
      /\ Rows = {} /\ None \notin Jobs /\ list = <<>>
      /\ \A o \in Orders : order[o].status = "pending"
  BY <1>1, PlanningConstants DEF Init, Idle, InList, Ended, Rows
<1>3. TypeOK
  <2>1. QueueTypes
    BY <1>1 DEF Init, QueueTypes, OrderRow, Idle, WorkerState
  <2>2. NoCall \in Asked
    BY DEF NoCall, Asked
  <2>3. RouteTypes
    BY <1>1, <2>2 DEF Init, RouteTypes
  <2>4. QED BY <1>1, <2>1, <2>3, TypeParts DEF Init
<1>4. PlacesOK /\ RecordsOK
  <2>1. PlacesOK
    BY <1>2 DEF PlacesOK
  <2>2. RecordsOK
    BY <1>2 DEF RecordsOK
  <2>3. QED BY <2>1, <2>2
<1>5. GroupsOK /\ RoutesOK /\ AllocationOK /\ RivalsOK
  BY <1>2 DEF GroupsOK, RoutesOK, AllocationOK, RoutedIsAllocated, AllocatedIsRouted, DoneIsTrue, RivalsOK
<1>6. \A c \in Calls : call[c].pc = "none"
  BY <1>1 DEF Init, NoCall
<1>7. CallsOK /\ FedOK /\ ToldDriverDrives
  <2>1. CallsOK
    BY <1>6 DEF CallsOK, On, Ready
  <2>2. FedOK
    BY <1>1, <1>2 DEF FedOK, Init
  <2>3. QED BY <1>6, <2>1, <2>2 DEF ToldDriverDrives
<1>8. QED BY <1>3, <1>4, <1>5, <1>7 DEF PlanningInv, QueueInv, LifeInv

LEMMA PlanningStep ==
  ASSUME PlanningInv, Next
  PROVE  PlanningInv'
<1>1. CASE Request
  <2>1. PICK j \in Jobs : (\E orders \in SUBSET Orders : Accept(j, orders)) \/ SaveJob(j) \/ PushJob(j)
    BY <1>1 DEF Request
  <2>2. QED BY <2>1, AcceptStep, EnqueueStep
<1>2. CASE RouteCall
  <2>1. PICK c \in Calls :
          \/ \E r \in Routes : (\E d \in Drivers : ReadToConfirm(c, r, d)) \/ ReadToComplete(c, r)
          \/ Confirm(c) \/ FeedLeg(c) \/ Complete(c)
    BY <1>2 DEF RouteCall
  <2>2. CASE \E r \in Routes : (\E d \in Drivers : ReadToConfirm(c, r, d)) \/ ReadToComplete(c, r)
    BY <2>2, BeginStep
  <2>3. CASE Confirm(c)
    BY <2>3, ConfirmStep
  <2>4. CASE FeedLeg(c)
    BY <2>4, FeedStep
  <2>5. CASE Complete(c)
    BY <2>5, CompleteStep
  <2>6. QED BY <2>1, <2>2, <2>3, <2>4, <2>5
<1>3. CASE Failure
  <2>1. CASE \E j \in Jobs : EnqueueFails(j)
    BY <2>1, EnqueueStep
  <2>2. CASE \E w \in Workers : PopFails(w) \/ ReadFails(w) \/ HandlerFails(w) \/ SaveFails(w) \/ Crash(w)
    BY <2>2, PopFailsStep, ReadStep, HandlerFailsStep, SaveFailsStep, CrashStep
  <2>3. CASE \E c \in Calls : CallFails(c)
    BY <2>3, UnsureStep
  <2>4. QED BY <1>3, <2>1, <2>2, <2>3 DEF Failure
<1>4. CASE \E w \in Workers : Loop(w)
  BY <1>4, PopStep, ReadStep, MarkStep, SolveStep, InsertAllocateStep, FinishStep DEF Loop
<1>5. CASE CreateRoute
  BY <1>5, CreateStep
<1>6. CASE \E r \in Routes, d \in Drivers : Reassign(r, d)
  BY <1>6, UnsureStep
<1>7. CASE \E o \in Orders : AllocateToWarehouse(o)
  BY <1>7, WarehouseStep
<1>8. QED BY <1>1, <1>2, <1>3, <1>4, <1>5, <1>6, <1>7 DEF Next

LEMMA PlanningStutters ==
  ASSUME PlanningInv, UNCHANGED vars
  PROVE  PlanningInv'
<1>1. /\ UNCHANGED <<order, record, list, request, wanted, worker, rivals, cut, failures>>
      /\ UNCHANGED <<route, call, profile, contested, unsure, fed>>
  BY DEF vars, queueVars, routeVars
<1>2. TypeOK /\ QueueInv /\ LifeInv /\ RouteTypes
  BY TypeParts DEF PlanningInv
<1>3. TypeOK'
  BY <1>1, <1>2 DEF TypeOK
<1>4. RoutesKept /\ RowsKept
  BY <1>1, <1>2 DEF RoutesKept, RowsKept, RouteTypes
<1>5. QueueInv'
  BY <1>1, <1>2, <1>4, CallsKeepQueue
<1>6. LifeInv'
  BY <1>1, <1>2, <1>4, QueueKeepsCalls
<1>7. QED BY <1>3, <1>5, <1>6 DEF PlanningInv

\* The queue, its workers, the routes and the calls on them are, in every state, as the
\* invariant above says: the whole of what the theorems below rest on.
THEOREM PlanningInvariant == Spec => []PlanningInv
<1>1. PlanningInv /\ [Next]_vars => PlanningInv'
  BY PlanningStep, PlanningStutters
<1>2. QED BY InitPlanning, <1>1, PTL DEF Spec

\* The state has its types, an order on a route is allocated unless its job is about to
\* say so or was cut short, and an allocated order has a warehouse or is on a route:
\* runOptimizationJob's inserts and its UPDATE of the orders agree at every step and every
\* failure, while order.service.ts allocates any of the same orders at any moment.
THEOREM RoutesAndOrdersAgree == Spec => []RoutedIffAllocated
<1>1. PlanningInv => RoutedIffAllocated
  BY DEF PlanningInv, QueueInv, AllocationOK, RoutedIffAllocated
<1>2. QED BY PlanningInvariant, <1>1, PTL

\* A job whose hash says done had its payload, and every order on its routes is allocated.
THEOREM DoneMeansDone == Spec => []DoneIsTrue
<1>1. PlanningInv => DoneIsTrue
  BY DEF PlanningInv, QueueInv, AllocationOK
<1>2. QED BY PlanningInvariant, <1>1, PTL

\* An order is on two routes only by two requests neither of which had ended when the
\* other was accepted, or after a job was cut short: for any number of requests and servers.
THEOREM OnlyRivalsPlanTwice == Spec => []PlannedTwiceOnlyByRivals
<1>1. ASSUME PlanningInv PROVE PlannedTwiceOnlyByRivals
  <2>1. SUFFICES ASSUME NEW r \in Rows, NEW s \in Rows, r < s, route[r].orders \cap route[s].orders # {}
                 PROVE  \/ {route[r].job, route[s].job} \in rivals
                        \/ {route[r].job, route[s].job} \cap cut # {}
    BY DEF PlannedTwiceOnlyByRivals
  <2>2. r \in Nat /\ s \in Nat /\ r # s
    BY <2>1, PlanningConstants DEF Rows, Routes
  <2>3. PICK j \in Jobs : j = route[r].job
    BY <1>1, <2>1 DEF PlanningInv, QueueInv, RoutesOK
  <2>4. PICK k \in Jobs : k = route[s].job
    BY <1>1, <2>1 DEF PlanningInv, QueueInv, RoutesOK
  <2>5. j # k /\ request[j] = "answered" /\ request[k] = "answered"
        /\ route[r].orders \subseteq wanted[j] /\ route[s].orders \subseteq wanted[k]
    BY <1>1, <2>1, <2>2, <2>3, <2>4 DEF PlanningInv, QueueInv, RoutesOK
  <2>6. ~Clear(j, k) /\ ~Clear(k, j)
    BY <2>1, <2>3, <2>4, <2>5 DEF Clear
  <2>7. {j, k} \in rivals \/ j \in cut \/ k \in cut
    BY <1>1, <2>5, <2>6 DEF PlanningInv, QueueInv, RivalsOK
  <2>8. QED BY <2>3, <2>4, <2>7
<1>2. QED BY PlanningInvariant, <1>1, PTL

\* The driver a caller of confirmRoute was told is the driver of the route, and a route
\* is counted once in the speed profile, unless two calls overlapped on it or one failed.
THEOREM CallersAreTold == Spec => []CallsAreTruthful
<1>1. ASSUME PlanningInv PROVE CallsAreTruthful
  <2>1. \A r \in Rows \ (contested \cup unsure) : fed[r] <= Legs(r) /\ (route[r].status = "planned" => fed[r] = 0)
    BY <1>1 DEF PlanningInv, LifeInv, FedOK
  <2>2. CountedOnce
    BY <2>1 DEF CountedOnce
  <2>3. QED BY <1>1, <2>2 DEF PlanningInv, LifeInv, CallsAreTruthful
<1>2. QED BY PlanningInvariant, <1>1, PTL

\* What a step does to the status of a route that no two calls have worked on.
LEMMA ForwardStep ==
  ASSUME PlanningInv, [Next]_vars
  PROVE  \A r \in Routes \ contested : Rank(r) <= Rank(r)'
<1>1. TypeOK /\ LifeInv /\ route \in [Routes -> RouteRow \cup {None}]
  BY TypeParts DEF PlanningInv, RouteTypes
<1>2. \A r \in Routes : Rank(r) \in 0..3 /\ (route[r] = None => Rank(r) = 0)
  BY <1>1 DEF Rank, RouteRow
<1>3. CASE UNCHANGED route
  <2>1. \A r \in Routes : Rank(r)' = Rank(r)
    BY <1>3 DEF Rank
  <2>2. QED BY <1>2, <2>1
<1>4. CASE Free # {} /\ \E row : route' = [route EXCEPT ![Min(Free)] = row]
  <2>1. PICK row : route' = [route EXCEPT ![Min(Free)] = row]
    BY <1>4
  <2>2. \A r \in Routes : route'[r] = route[r] \/ route[r] = None
    BY <1>1, <1>4, <2>1, MinFree
  <2>3. ASSUME NEW r \in Routes PROVE Rank(r) <= Rank(r)'
    <3>1. CASE route'[r] = route[r]
      BY <1>2, <3>1 DEF Rank
    <3>2. CASE route[r] = None
      <4>1. Rank(r) = 0
        BY <1>2, <3>2
      <4>2. Rank(r)' \in {0, 1, 2, 3}
        BY DEF Rank
      <4>3. QED BY <4>1, <4>2
    <3>3. QED BY <2>2, <3>1, <3>2
  <2>4. QED BY <2>3
<1>5. ASSUME NEW c \in Calls, Confirm(c) \/ Complete(c) PROVE \A r \in Routes \ contested : Rank(r) <= Rank(r)'
  <2>1. PICK r : r = call[c].route
    OBVIOUS
  <2>2. r \in Rows /\ r \in Routes
    BY <1>1, <1>5, <2>1, RowTypes DEF Confirm, Complete, LifeInv, CallsOK
  <2>3. PICK old \in RouteRow : old = route[r] /\ old # None
    BY <1>1, <2>2, RowTypes, NoneIsNoRow
  <2>4. \A s \in Routes : s # r => route'[s] = route[s]
    BY <1>1, <1>5, <2>1 DEF Confirm, Complete
  <2>5. ASSUME NEW s \in Routes \ contested, s # r PROVE Rank(s) <= Rank(s)'
    BY <1>2, <2>4, <2>5 DEF Rank
  <2>6. ASSUME r \notin contested PROVE Rank(r) <= Rank(r)'
    <3>1. CASE Confirm(c)
      <4>1. route[r].status = "planned"
        BY <1>1, <2>1, <2>6, <3>1 DEF Confirm, LifeInv, CallsOK
      <4>2. route'[r] = [old EXCEPT !.status = "confirmed", !.driver = call[c].driver]
        BY <1>1, <2>1, <2>2, <2>3, <3>1 DEF Confirm
      <4>3. route'[r].status = "confirmed"
        BY <4>2 DEF RouteRow
      <4>4. Rank(r) = 1
        BY <2>3, <4>1 DEF Rank
      <4>5. Rank(r)' \in {0, 2}
        BY <4>3 DEF Rank
      <4>6. route'[r] # None
        <5>1. PICK row \in RouteRow : row = [old EXCEPT !.status = "confirmed", !.driver = call[c].driver]
          <6>1. call[c].driver \in Drivers \cup {None}
            BY <1>1, CallRoute DEF Asked
          <6>2. QED BY <6>1 DEF RouteRow
        <5>2. QED BY <4>2, <5>1, NoneIsNoRow
      <4>7. QED BY <4>3, <4>4, <4>6 DEF Rank
    <3>2. CASE Complete(c)
      <4>1. route[r].status = "confirmed"
        BY <1>1, <2>1, <2>6, <3>2 DEF Complete, LifeInv, CallsOK
      <4>2. route'[r] = [old EXCEPT !.status = "completed"]
        BY <1>1, <2>1, <2>2, <2>3, <3>2 DEF Complete
      <4>3. route'[r].status = "completed" /\ route'[r] \in RouteRow
        BY <4>2 DEF RouteRow
      <4>4. Rank(r) = 2
        BY <2>3, <4>1 DEF Rank
      <4>5. Rank(r)' = 3
        BY <4>3, NoneIsNoRow DEF Rank
      <4>6. QED BY <4>4, <4>5
    <3>3. QED BY <1>5, <3>1, <3>2
  <2>7. QED BY <2>5, <2>6
<1>6. ASSUME NEW r \in Routes, NEW d \in Drivers, Reassign(r, d)
      PROVE  \A s \in Routes \ contested : Rank(s) <= Rank(s)'
  <2>1. route[r] # None /\ route' = [route EXCEPT ![r].driver = d]
    BY <1>6 DEF Reassign
  <2>2. PICK old \in RouteRow : old = route[r]
    BY <1>1, <2>1
  <2>3. /\ route'[r] = [old EXCEPT !.driver = d]
        /\ \A s \in Routes : s # r => route'[s] = route[s]
    BY <1>1, <2>1, <2>2
  <2>4. route'[r] \in RouteRow /\ route'[r].status = route[r].status
    BY <2>2, <2>3 DEF RouteRow
  <2>5. Rank(r)' = Rank(r)
    BY <2>1, <2>4, NoneIsNoRow DEF Rank
  <2>6. \A s \in Routes : s # r => Rank(s)' = Rank(s)
    BY <2>3 DEF Rank
  <2>7. QED BY <1>2, <2>5, <2>6
<1>7. CASE Request \/ UNCHANGED vars
  <2>1. UNCHANGED route
    BY <1>7 DEF Request, Accept, SaveJob, PushJob, vars
  <2>2. QED BY <1>3, <2>1
<1>8. CASE RouteCall
  <2>1. UNCHANGED route \/ \E c \in Calls : Confirm(c) \/ Complete(c)
    BY <1>8 DEF RouteCall, ReadToConfirm, ReadToComplete, FeedLeg
  <2>2. QED BY <1>3, <1>5, <2>1
<1>9. CASE Failure
  <2>1. UNCHANGED route \/ (Free # {} /\ \E row : route' = [route EXCEPT ![Min(Free)] = row])
    BY <1>9 DEF Failure, EnqueueFails, PopFails, ReadFails, HandlerFails, SaveFails, Crash, CallFails
  <2>2. QED BY <1>3, <1>4, <2>1
<1>10. CASE \E w \in Workers : Loop(w)
  <2>1. UNCHANGED route \/ (Free # {} /\ \E row : route' = [route EXCEPT ![Min(Free)] = row])
    BY <1>10 DEF Loop, Pop, Read, Mark, Solve, Insert, Allocate, Finish
  <2>2. QED BY <1>3, <1>4, <2>1
<1>11. CASE CreateRoute
  BY <1>4, <1>11 DEF CreateRoute
<1>12. CASE \E o \in Orders : AllocateToWarehouse(o)
  BY <1>3, <1>12 DEF AllocateToWarehouse
<1>13. QED BY <1>6, <1>7, <1>8, <1>9, <1>10, <1>11, <1>12 DEF Next

\* A route goes from planned to confirmed to completed and never back, unless two calls
\* have worked on it at once: whatever the order of the SELECTs and the UPDATEs.
THEOREM RoutesMoveForward == Spec => UncontestedMovesForward
<1>1. PlanningInv /\ [Next]_vars => [\A r \in Routes \ contested : Rank(r) <= Rank(r)']_vars
  BY ForwardStep
<1>2. QED BY PlanningInvariant, <1>1, PTL DEF Spec, UncontestedMovesForward
=============================================================================
