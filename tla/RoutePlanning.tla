---------------------------- MODULE RoutePlanning ----------------------------
(***************************************************************************)
(* From orders to driven routes (api/services/route.service.ts): a request *)
(* to optimise a set of pending orders becomes a job on the simple queue   *)
(* (core/queue/simple-queue.ts), whose worker, one in each server, runs    *)
(* the solver, inserts the routes it found and marks the orders allocated; *)
(* a route is then confirmed for a driver, perhaps reassigned, and         *)
(* completed, which feeds the speed profile.  order.service.ts writes the  *)
(* same column of the orders, when it allocates one to a warehouse.        *)
(*                                                                         *)
(* Each await on PostgreSQL or Redis that changes something is a step; the *)
(* look-ups that only validate an id are left out.  What the solver        *)
(* promises is RouteSolver's matter: here it returns any disjoint groups   *)
(* of the orders it was given.                                             *)
(***************************************************************************)
EXTENDS Integers, Sequences, FiniteSets, FiniteSetsExt

CONSTANTS
  Orders,       \* rows of orders
  Jobs,         \* ids drawn by optimizeRoutes
  Workers,      \* the servers, each with its startWorker loop
  MaxVehicles,  \* bound: vehicles in a request
  MaxRoutes,    \* bound: rows of routes
  MaxByHand,    \* bound: those of them created by hand
  Calls,        \* the requests to confirm or complete a route under way at once
  Drivers,
  MaxFailures,  \* bound: failed statements and crashed servers
  None

ASSUME PlanningConstants ==
  /\ IsFiniteSet(Orders) /\ MaxVehicles \in Nat /\ MaxRoutes \in Nat
  /\ MaxByHand \in Nat /\ MaxFailures \in Nat
  /\ None \notin Jobs \cup Drivers

Routes == 1..MaxRoutes

\* A row of orders: its status, and whether allocated_warehouse_id is set.
OrderRow == [status : {"pending", "allocated"}, warehouse : BOOLEAN]

\* A job's hash, with whether its payload is there; a row of routes.
JobHash == [status : {"pending", "running", "done", "failed"}, intact : BOOLEAN]
RouteRow == [status : {"planned", "confirmed", "completed"}, driver : Drivers \cup {None},
             orders : SUBSET Orders, job : Jobs \cup {None}]

ASSUME NoneIsNoRow == None \notin JobHash \cup RouteRow

VARIABLES
  order,      \* rows of orders
  record,     \* job hashes: status, and whether the payload is there
  list,       \* the Redis list of the queue
  request,    \* optimizeRoutes, by the job it enqueues
  wanted,     \* the orders of each request, once accepted
  worker,     \* the loop of each worker
  route,      \* rows of routes
  call,       \* confirmRoute and completeRoute in progress or answered
  profile,    \* the cell of speed_profiles: samples taken, and whether it is NaN
  rivals,     \* history: pairs of jobs accepted while neither had ended
  cut,        \* history: jobs some failed step has cut short
  contested,  \* history: routes two calls worked on at once
  unsure,     \* history: routes a failed call or a reassignment has touched
  fed,        \* history: samples taken from each route
  failures    \* history: failed statements and crashes so far

queueVars == <<record, list, request, wanted, worker>>
routeVars == <<call, profile, contested, unsure, fed>>
vars == <<order, queueVars, route, routeVars, rivals, cut, failures>>

Idle == [pc |-> "pop", job |-> None, intact |-> TRUE, left |-> {}, kept |-> {}]
NoCall == [pc |-> "none", route |-> 0, driver |-> None, leg |-> 0]

Init ==
  /\ order = [o \in Orders |-> [status |-> "pending", warehouse |-> FALSE]]
  /\ record = [j \in Jobs |-> None] /\ list = <<>>
  /\ request = [j \in Jobs |-> "none"] /\ wanted = [j \in Jobs |-> {}]
  /\ worker = [w \in Workers |-> Idle]
  /\ route = [r \in Routes |-> None]
  /\ call = [c \in Calls |-> NoCall]
  /\ profile = [samples |-> 0, nan |-> FALSE]
  /\ rivals = {} /\ cut = {} /\ contested = {} /\ unsure = {}
  /\ fed = [r \in Routes |-> 0]
  /\ failures = 0

Fails == failures < MaxFailures /\ failures' = failures + 1
Succeeds == UNCHANGED <<failures, cut>>

-----------------------------------------------------------------------------
(* optimizeRoutes *)

Ended(j) == record[j] # None /\ record[j].status \in {"done", "failed"}
Open == {j \in Jobs : request[j] # "none" /\ ~Ended(j)}

\* The check that every order is pending, the last one before the job is
\* enqueued; a request that fails it leaves nothing.
AcceptAny(j, orders) ==
  /\ request[j] = "none" /\ orders # {}
  /\ request' = [request EXCEPT ![j] = "save"]
  /\ wanted' = [wanted EXCEPT ![j] = orders]
  /\ rivals' = rivals \cup {{j, k} : k \in Open}
  /\ UNCHANGED <<order, record, list, worker, route, routeVars>> /\ Succeeds

Accept(j, orders) ==
  /\ request[j] = "none"
  /\ orders # {} /\ \A o \in orders : order[o].status = "pending"
  /\ request' = [request EXCEPT ![j] = "save"]
  /\ wanted' = [wanted EXCEPT ![j] = orders]
  /\ rivals' = rivals \cup {{j, k} : k \in Open}
  /\ UNCHANGED <<order, record, list, worker, route, routeVars>> /\ Succeeds

\* enqueue: the hash, then the list.
SaveJob(j) ==
  /\ request[j] = "save"
  /\ request' = [request EXCEPT ![j] = "push"]
  /\ record' = [record EXCEPT ![j] = [status |-> "pending", intact |-> TRUE]]
  /\ UNCHANGED <<order, list, wanted, worker, route, routeVars, rivals>> /\ Succeeds

PushJob(j) ==
  /\ request[j] = "push"
  /\ request' = [request EXCEPT ![j] = "answered"]
  /\ list' = Append(list, j)
  /\ UNCHANGED <<order, record, wanted, worker, route, routeVars, rivals>> /\ Succeeds

\* An error in either is swallowed: the caller is given the id all the same.
EnqueueFails(j) ==
  /\ request[j] \in {"save", "push"} /\ Fails
  /\ request' = [request EXCEPT ![j] = "answered"]
  /\ \/ /\ cut' = cut \cup {j} /\ UNCHANGED <<record, list>>
     \/ /\ request[j] = "save" /\ cut' = cut \cup {j} /\ UNCHANGED list
        /\ record' = [record EXCEPT ![j] = [status |-> "pending", intact |-> TRUE]]
     \/ /\ request[j] = "push" /\ list' = Append(list, j) /\ UNCHANGED <<record, cut>>
  /\ UNCHANGED <<order, wanted, worker, route, routeVars, rivals>>

-----------------------------------------------------------------------------
(* The worker's loop, with runOptimizationJob as its handler *)

At(w, pc) == worker[w].pc = pc
Goto(w, pc) == worker' = [worker EXCEPT ![w].pc = pc]
Save(w, status) ==
  record' = [record EXCEPT ![worker[w].job] =
               [status |-> status, intact |-> worker[w].intact]]

Pop(w) ==
  /\ At(w, "pop") /\ list # <<>>
  /\ worker' = [worker EXCEPT ![w].pc = "read", ![w].job = Head(list)]
  /\ list' = Tail(list)
  /\ UNCHANGED <<order, record, request, wanted, route, routeVars, rivals>> /\ Succeeds

\* BLPOP fails and the loop goes on after a pause; the id may have been taken.
PopFails(w) ==
  /\ At(w, "pop") /\ list # <<>> /\ Fails
  /\ list' = Tail(list) /\ cut' = cut \cup {Head(list)}
  /\ UNCHANGED <<order, record, request, wanted, worker, route, routeVars, rivals>>

\* getJob.
Read(w) ==
  /\ At(w, "read")
  /\ worker' = [worker EXCEPT ![w].pc = IF record[worker[w].job] = None THEN "pop" ELSE "mark",
                              ![w].intact = record[worker[w].job] # None
                                            /\ record[worker[w].job].intact]
  /\ UNCHANGED <<order, record, list, request, wanted, route, routeVars, rivals>>
  /\ Succeeds

\* An error in getJob reads as a job that is done and has no payload.
ReadFails(w) ==
  /\ At(w, "read") /\ Fails
  /\ worker' = [worker EXCEPT ![w].pc = "mark", ![w].intact = FALSE]
  /\ cut' = cut \cup {worker[w].job}
  /\ UNCHANGED <<order, record, list, request, wanted, route, routeVars, rivals>>

\* saveJob 'running'.
Mark(w) ==
  /\ At(w, "mark")
  /\ Save(w, "running")
  /\ Goto(w, "solve")
  /\ UNCHANGED <<order, list, request, wanted, route, routeVars, rivals>> /\ Succeeds

\* The routes a solver may return: disjoint groups of the orders, one for each
\* vehicle used, an order that fits nowhere left out.
Groupings(orders) ==
  {g \in SUBSET (SUBSET orders \ {{}}) :
     /\ Cardinality(g) <= MaxVehicles
     /\ \A a, b \in g : a # b => a \cap b = {}}

\* The handler starts.  A payload that is null makes it throw at once.
Solve(w) ==
  /\ At(w, "solve")
  /\ \E g \in IF worker[w].intact THEN Groupings(wanted[worker[w].job]) ELSE {{}} :
       worker' = [worker EXCEPT
                    ![w].pc = CASE ~worker[w].intact -> "failed"
                                [] worker[w].intact /\ g = {} -> "done"
                                [] OTHER -> "insert",
                    ![w].left = g, ![w].kept = UNION g]
  /\ UNCHANGED <<order, record, list, request, wanted, route, routeVars, rivals>>
  /\ Succeeds

Free == {r \in Routes : route[r] = None}
NewRow(orders, job) ==
  [status |-> "planned", driver |-> None, orders |-> orders, job |-> job]

InsertKeepingLast(w) ==
  /\ At(w, "insert") /\ Free # {}
  /\ \E g \in worker[w].left :
       /\ route' = [route EXCEPT ![Min(Free)] = NewRow(g, worker[w].job)]
       /\ worker' = [worker EXCEPT ![w].left = @ \ {g}, ![w].kept = g,
                       ![w].pc = IF worker[w].left = {g} THEN "allocate" ELSE "insert"]
  /\ UNCHANGED <<order, record, list, request, wanted, routeVars, rivals>> /\ Succeeds

\* One INSERT for each route.
Insert(w) ==
  /\ At(w, "insert") /\ Free # {}
  /\ \E g \in worker[w].left :
       /\ route' = [route EXCEPT ![Min(Free)] = NewRow(g, worker[w].job)]
       /\ worker' = [worker EXCEPT ![w].left = @ \ {g},
                       ![w].pc = IF worker[w].left = {g} THEN "allocate" ELSE "insert"]
  /\ UNCHANGED <<order, record, list, request, wanted, routeVars, rivals>> /\ Succeeds

\* The UPDATE of all the orders.
MarkAllocated(orders) ==
  order' = [o \in Orders |-> IF o \in orders THEN [order[o] EXCEPT !.status = "allocated"]
                                             ELSE order[o]]

Allocate(w) ==
  /\ At(w, "allocate")
  /\ MarkAllocated(worker[w].kept)
  /\ Goto(w, "done")
  /\ UNCHANGED <<record, list, request, wanted, route, routeVars, rivals>> /\ Succeeds

\* A statement of the handler fails, with or without effect: the catch block.
HandlerSwallows(w) ==
  /\ worker[w].pc \in {"insert", "allocate"} /\ Fails
  /\ cut' = cut \cup {worker[w].job}
  /\ \/ UNCHANGED <<route, order>>
     \/ /\ At(w, "insert") /\ Free # {} /\ UNCHANGED order
        /\ \E g \in worker[w].left :
             route' = [route EXCEPT ![Min(Free)] = NewRow(g, worker[w].job)]
     \/ At(w, "allocate") /\ MarkAllocated(worker[w].kept) /\ UNCHANGED route
  /\ Goto(w, "done")
  /\ UNCHANGED <<record, list, request, wanted, routeVars, rivals>>

HandlerFails(w) ==
  /\ worker[w].pc \in {"insert", "allocate"} /\ Fails
  /\ cut' = cut \cup {worker[w].job}
  /\ \/ UNCHANGED <<route, order>>
     \/ /\ At(w, "insert") /\ Free # {} /\ UNCHANGED order
        /\ \E g \in worker[w].left :
             route' = [route EXCEPT ![Min(Free)] = NewRow(g, worker[w].job)]
     \/ At(w, "allocate") /\ MarkAllocated(worker[w].kept) /\ UNCHANGED route
  /\ Goto(w, "failed")
  /\ UNCHANGED <<record, list, request, wanted, routeVars, rivals>>

\* saveJob 'done' after the handler, 'failed' in the catch block.
FinishUnsaved(w) ==
  /\ worker[w].pc \in {"done", "failed"}
  /\ worker' = [worker EXCEPT ![w] = Idle]
  /\ UNCHANGED <<record, order, list, request, wanted, route, routeVars, rivals>> /\ Succeeds

Finish(w) ==
  /\ worker[w].pc \in {"done", "failed"}
  /\ Save(w, worker[w].pc)
  /\ worker' = [worker EXCEPT ![w] = Idle]
  /\ UNCHANGED <<order, list, request, wanted, route, routeVars, rivals>> /\ Succeeds

\* saveJob fails, with or without effect.  Only the one after the handler is in
\* the try block: an error in one of the others ends the loop for good.
SaveFails(w) ==
  /\ worker[w].pc \in {"mark", "done", "failed"} /\ Fails
  /\ \/ UNCHANGED record
     \/ Save(w, IF At(w, "mark") THEN "running" ELSE worker[w].pc)
  /\ cut' = cut \cup {worker[w].job}
  /\ Goto(w, IF At(w, "done") THEN "failed" ELSE "dead")
  /\ UNCHANGED <<order, list, request, wanted, route, routeVars, rivals>>

\* The server dies and is started again; what its worker had popped is gone.
Crash(w) ==
  /\ Fails
  /\ worker' = [worker EXCEPT ![w] = Idle]
  /\ cut' = cut \cup IF worker[w].job = None THEN {} ELSE {worker[w].job}
  /\ UNCHANGED <<order, record, list, request, wanted, route, routeVars, rivals>>

-----------------------------------------------------------------------------
(* The other writer of orders *)

\* runAllocation (createOrder with coordinates, reallocateOrder): any order, in any
\* status and at any moment, on a route or not.  OrderAllocation has what leads to it.
AllocateToWarehouse(o) ==
  /\ order' = [order EXCEPT ![o] = [status |-> "allocated", warehouse |-> TRUE]]
  /\ UNCHANGED <<queueVars, route, routeVars, rivals>> /\ Succeeds

-----------------------------------------------------------------------------
(* The life of a route *)

\* createRoute: a route from a list of stops, which serves no order.
CreateRoute ==
  /\ Free # {}
  /\ Cardinality({r \in Routes \ Free : route[r].job = None}) < MaxByHand
  /\ route' = [route EXCEPT ![Min(Free)] = NewRow({}, None)]
  /\ UNCHANGED <<order, queueVars, routeVars, rivals>> /\ Succeeds

Ready(c) == call[c].pc \notin {"confirming", "feeding"}
Busy(r) == \E c \in Calls : call[c].route = r /\ ~Ready(c)
Contest(r) == contested' = IF Busy(r) THEN contested \cup {r} ELSE contested

\* confirmRoute up to its check, from a SELECT of the row.
ReadAnyToConfirm(c, r, d) ==
  /\ Ready(c)
  /\ route[r] # None
  /\ call' = [call EXCEPT ![c] = [pc |-> "confirming", route |-> r, driver |-> d, leg |-> 0]]
  /\ Contest(r)
  /\ UNCHANGED <<order, queueVars, route, profile, unsure, fed, rivals>> /\ Succeeds

ReadToConfirm(c, r, d) ==
  /\ Ready(c)
  /\ route[r] # None /\ route[r].status = "planned"
  /\ call' = [call EXCEPT ![c] = [pc |-> "confirming", route |-> r, driver |-> d, leg |-> 0]]
  /\ Contest(r)
  /\ UNCHANGED <<order, queueVars, route, profile, unsure, fed, rivals>> /\ Succeeds

\* Its UPDATE, whatever the row has become.
Confirm(c) ==
  /\ call[c].pc = "confirming"
  /\ route' = [route EXCEPT ![call[c].route].status = "confirmed",
                            ![call[c].route].driver = call[c].driver]
  /\ call' = [call EXCEPT ![c].pc = "confirmed"]
  /\ UNCHANGED <<order, queueVars, profile, contested, unsure, fed, rivals>> /\ Succeeds

\* reassignRoute: any route, in any status.
Reassign(r, d) ==
  /\ route[r] # None
  /\ route' = [route EXCEPT ![r].driver = d]
  /\ unsure' = unsure \cup {r}
  /\ UNCHANGED <<order, queueVars, call, profile, contested, fed, rivals>> /\ Succeeds

\* The legs of a route: one for each stop (one stands for those of a route
\* created by hand).
Legs(r) == IF route[r].orders = {} THEN 1 ELSE Cardinality(route[r].orders)

\* completeRoute up to its checks.
ReadToComplete(c, r) ==
  /\ Ready(c)
  /\ route[r] # None /\ route[r].status = "confirmed"
  /\ call' = [call EXCEPT ![c] = [pc |-> "feeding", route |-> r, driver |-> None, leg |-> 0]]
  /\ Contest(r)
  /\ UNCHANGED <<order, queueVars, route, profile, unsure, fed, rivals>> /\ Succeeds

\* A leg with no distance or no elapsed time is skipped.  The stops of a route created
\* by hand carry no distance, and undefined passes that test: their speed is
\* NaN, and the cell's average from then on.
FeedLeg(c) ==
  LET r == call[c].route IN
  /\ call[c].pc = "feeding" /\ call[c].leg < Legs(r)
  /\ call' = [call EXCEPT ![c].leg = @ + 1]
  /\ \/ UNCHANGED <<profile, fed>>
     \/ /\ profile' = [samples |-> profile.samples + 1,
                       nan |-> profile.nan \/ route[r].job = None]
        /\ fed' = [fed EXCEPT ![r] = @ + 1]
  /\ UNCHANGED <<order, queueVars, route, contested, unsure, rivals>> /\ Succeeds

\* The UPDATE that ends it.
Complete(c) ==
  LET r == call[c].route IN
  /\ call[c].pc = "feeding" /\ call[c].leg = Legs(r)
  /\ route' = [route EXCEPT ![r].status = "completed"]
  /\ call' = [call EXCEPT ![c].pc = "completed"]
  /\ UNCHANGED <<order, queueVars, profile, contested, unsure, fed, rivals>> /\ Succeeds

\* A statement fails (its effect, if any, is that of the step above), or the
\* server dies: the caller is told of an error.
CallFails(c) ==
  /\ ~Ready(c) /\ Fails
  /\ call' = [call EXCEPT ![c].pc = "error"]
  /\ unsure' = unsure \cup {call[c].route}
  /\ UNCHANGED <<order, queueVars, route, profile, contested, fed, rivals, cut>>

-----------------------------------------------------------------------------
Request == \E j \in Jobs :
  \/ \E orders \in SUBSET Orders : Accept(j, orders)
  \/ SaveJob(j) \/ PushJob(j)

Loop(w) ==
  \/ Pop(w) \/ Read(w) \/ Mark(w) \/ Solve(w) \/ Insert(w) \/ Allocate(w) \/ Finish(w)

RouteCall == \E c \in Calls :
  \/ \E r \in Routes : (\E d \in Drivers : ReadToConfirm(c, r, d)) \/ ReadToComplete(c, r)
  \/ Confirm(c) \/ FeedLeg(c) \/ Complete(c)

Failure ==
  \/ \E j \in Jobs : EnqueueFails(j)
  \/ \E w \in Workers : PopFails(w) \/ ReadFails(w) \/ HandlerFails(w)
                        \/ SaveFails(w) \/ Crash(w)
  \/ \E c \in Calls : CallFails(c)

Next ==
  \/ Request \/ RouteCall \/ Failure
  \/ \E w \in Workers : Loop(w)
  \/ \E o \in Orders : AllocateToWarehouse(o)
  \/ CreateRoute
  \/ \E r \in Routes, d \in Drivers : Reassign(r, d)

Spec == Init /\ [][Next]_vars

\* A worker's loop goes on while its server lives.
FairSpec == Spec /\ \A w \in Workers : WF_vars(Loop(w))

-----------------------------------------------------------------------------
(* Properties *)

TypeOK ==
  /\ order \in [Orders -> OrderRow]
  /\ record \in [Jobs -> JobHash \cup {None}]
  /\ list \in Seq(Jobs)
  /\ request \in [Jobs -> {"none", "save", "push", "answered"}]
  /\ wanted \in [Jobs -> SUBSET Orders]
  /\ worker \in [Workers ->
       [pc : {"pop", "read", "mark", "solve", "insert", "allocate", "done", "failed", "dead"},
        job : Jobs \cup {None}, intact : BOOLEAN,
        left : SUBSET SUBSET Orders, kept : SUBSET Orders]]
  /\ route \in [Routes -> RouteRow \cup {None}]
  /\ call \in [Calls ->
       [pc : {"none", "confirming", "confirmed", "feeding", "completed", "error"},
        route : Routes \cup {0}, driver : Drivers \cup {None}, leg : Nat]]
  /\ profile \in [samples : Nat, nan : BOOLEAN]
  /\ rivals \subseteq SUBSET Jobs /\ cut \subseteq Jobs
  /\ contested \subseteq Routes /\ unsure \subseteq Routes
  /\ fed \in [Routes -> Nat] /\ failures \in Nat

Rows == {r \in Routes : route[r] # None}

\* An order is put on a second route only by a request accepted while the first
\* job had not ended, or after a job was cut short between its statements.
PlannedTwiceOnlyByRivals ==
  \A r, s \in Rows : r < s /\ route[r].orders \cap route[s].orders # {} =>
    \/ {route[r].job, route[s].job} \in rivals
    \/ {route[r].job, route[s].job} \cap cut # {}

\* An order on a route is allocated, unless the job that put it there is about
\* to say so or was cut short.
RoutedIsAllocated ==
  \A r \in Rows : \A o \in route[r].orders :
    \/ order[o].status = "allocated"
    \/ route[r].job \in cut
    \/ \E w \in Workers : worker[w].job = route[r].job /\ worker[w].pc \in {"insert", "allocate"}

\* The converse: an order that no warehouse was allocated to is allocated only once
\* it is on a route, so one the solver left out stays as it was, and can be asked for
\* again unless order.service.ts takes it.
AllocatedIsRouted ==
  \A o \in Orders : order[o].status = "allocated" =>
    order[o].warehouse \/ \E r \in Rows : o \in route[r].orders

\* Routes and the rows of orders agree, whatever the two writers of the status do in
\* between; and the state has its types.
RoutedIffAllocated == TypeOK /\ RoutedIsAllocated /\ AllocatedIsRouted

\* A job reported done did its work, all of it: it had its payload, and the orders
\* of every route it inserted are allocated.
DoneIsTrue ==
  \A j \in Jobs : record[j] # None /\ record[j].status = "done" =>
    /\ record[j].intact
    /\ \A r \in Rows : route[r].job = j => \A o \in route[r].orders : order[o].status = "allocated"

\* A route only moves forward (planned, confirmed, completed), unless two calls
\* have worked on it at once.
Rank(r) == IF route[r] = None THEN 0
           ELSE CASE route[r].status = "planned" -> 1
                  [] route[r].status = "confirmed" -> 2
                  [] OTHER -> 3
UncontestedMovesForward == [][\A r \in Routes \ contested : Rank(r) <= Rank(r)']_vars

\* The driver a caller was told is confirmed is the driver of the route, unless
\* somebody else has been at it.
ToldDriverDrives ==
  \A c \in Calls : call[c].pc = "confirmed" /\ call[c].route \notin contested \cup unsure =>
    /\ route[call[c].route].driver = call[c].driver
    /\ route[call[c].route].status # "planned"

\* A route is counted once in the speed profile, unless two calls overlapped on
\* it or one failed.
CountedOnce ==
  \A r \in Rows \ (contested \cup unsure) :
    /\ fed[r] <= Legs(r)
    /\ fed[r] > 0 => route[r].status # "planned"

\* Both: what callers of confirmRoute and completeRoute were told, and what was counted.
CallsAreTruthful == ToldDriverDrives /\ CountedOnce

\* A job that is queued or taken ends, or was cut short, or has no worker left.
JobsEnd ==
  \A j \in Jobs :
    (\E i \in DOMAIN list : list[i] = j) ~>
      (Ended(j) \/ j \in cut \/ \A w \in Workers : At(w, "dead"))
=============================================================================
