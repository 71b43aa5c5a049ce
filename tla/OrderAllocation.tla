--------------------------- MODULE OrderAllocation ---------------------------
(***************************************************************************)
(* Orders and stock of one organisation (api/services/order.service.ts,    *)
(* warehouse.service.ts, engines/allocation): orders are created and       *)
(* allocated to a warehouse, inventory lines are set.  Each statement is a *)
(* step; requests overlap as they like.                                    *)
(*                                                                         *)
(* For the one row a request passes, hungarian returns a cheapest column   *)
(* (Hungarian).  No caller asks for SKUs, so no cost has a penalty for     *)
(* them.  Distances are data.                                              *)
(***************************************************************************)
EXTENDS Integers, Sequences, FiniteSets, Folds

CONSTANTS
  Orders, Warehouses, Skus,
  Allocations,  \* runs of createOrder and reallocateOrder
  Upserts,      \* runs of upsertInventory
  Quantities,   \* what a PATCH may set
  Distance,     \* of each warehouse from the orders, in km
  Capacity,     \* capacity_units of each warehouse
  MaxFailures,  \* bound: statements that fail
  None

OrdersOK ==
  /\ Distance \in [Warehouses -> Nat] /\ Capacity \in [Warehouses -> Nat]
  /\ Quantities \subseteq Nat /\ MaxFailures \in Nat /\ IsFiniteSet(Skus)
  /\ None \notin Warehouses /\ None \notin [status : {"pending", "allocated"}, warehouse : Warehouses \cup {None}]

VARIABLES
  orders,       \* the rows of orders; None until they are inserted
  decisions,    \* allocation_decisions, by created_at
  allocation,   \* what each run of runAllocation awaits, and what it has read
  inventory,    \* quantity of each line of warehouse_inventory
  currentUnits, \* warehouses.current_units
  upsert,       \* what each upsertInventory awaits, and for which warehouse
  crossed,      \* history: orders whose last UPDATE overlapped another run, or was not recorded
  unsynced,     \* history: warehouses whose second statement failed after the first
  orderFailures

allocVars == <<orders, decisions, allocation, crossed>>
stockVars == <<inventory, currentUnits, upsert, unsynced>>
orderVars == <<allocVars, stockVars, orderFailures>>

Unset == [at |-> "none", order |-> None, cost |-> <<>>, warehouse |-> None]

OrdersInit ==
  /\ orders = [o \in Orders |-> None]
  /\ decisions = <<>>
  /\ allocation = [a \in Allocations |-> Unset]
  /\ inventory = [w \in Warehouses |-> [s \in Skus |-> 0]]
  /\ currentUnits = [w \in Warehouses |-> 0]
  /\ upsert = [k \in Upserts |-> [at |-> "none", warehouse |-> None]]
  /\ crossed = {} /\ unsynced = {}
  /\ orderFailures = 0

StatementFails == orderFailures < MaxFailures /\ orderFailures' = orderFailures + 1

-----------------------------------------------------------------------------
(* Orders *)

\* buildCostMatrix for one order; exact where the capacity divides 200.
UnitsOf(w) == IF Capacity[w] > 0 THEN Capacity[w] ELSE 1
CapacityPenalty(w) ==
  IF 10 * currentUnits[w] > 8 * UnitsOf(w) THEN (200 * currentUnits[w]) \div UnitsOf(w) ELSE 0
Costs == [w \in Warehouses |-> Distance[w] + CapacityPenalty(w)]

\* Runs on the same order between their UPDATE and their INSERT.
Recording(o) == {a \in Allocations : allocation[a].order = o /\ allocation[a].at = "record"}

\* createOrder, with or without coordinates: the INSERT.
CreateOrder(a, o, located) ==
  /\ allocation[a].at = "none" /\ orders[o] = None
  /\ orders' = [orders EXCEPT ![o] = [status |-> "pending", warehouse |-> None]]
  /\ allocation' = [allocation EXCEPT ![a].order = o,
                                      ![a].at = IF located THEN "read" ELSE "done"]
  /\ UNCHANGED <<decisions, crossed, stockVars, orderFailures>>

\* reallocateOrder: the SELECT; the status it finds does not matter.
ReallocateOrder(a, o) ==
  /\ allocation[a].at = "none" /\ orders[o] # None
  /\ allocation' = [allocation EXCEPT ![a].order = o, ![a].at = "read"]
  /\ UNCHANGED <<orders, decisions, crossed, stockVars, orderFailures>>

\* runAllocation: the warehouses as they are now, and the cheapest of them.
ReadWarehouses(a) ==
  /\ allocation[a].at = "read"
  /\ \E w \in Warehouses :
       /\ \A x \in Warehouses : Costs[w] <= Costs[x]
       /\ allocation' = [allocation EXCEPT ![a].at = "update", ![a].cost = Costs,
                                           ![a].warehouse = w]
  /\ UNCHANGED <<orders, decisions, crossed, stockVars, orderFailures>>

\* ... the UPDATE of the order
UpdateOrder(a) ==
  /\ allocation[a].at = "update"
  /\ LET o == allocation[a].order
     IN /\ orders' = [orders EXCEPT ![o] = [status |-> "allocated",
                                            warehouse |-> allocation[a].warehouse]]
        /\ crossed' = IF Recording(o) = {} THEN crossed \ {o} ELSE crossed \cup {o}
  /\ allocation' = [allocation EXCEPT ![a].at = "record"]
  /\ UNCHANGED <<decisions, stockVars, orderFailures>>

\* explainAllocation: the alternatives by what they would have cost.
Alternatives(a) == {w \in Warehouses : w # allocation[a].warehouse}
RunnerUp(a) ==
  IF Alternatives(a) = {} THEN None
  ELSE CHOOSE w \in Alternatives(a) :
         \A x \in Alternatives(a) : allocation[a].cost[w] <= allocation[a].cost[x]

RecordRunnerUp(a) ==
  /\ allocation[a].at = "record"
  /\ decisions' = Append(decisions, [order |-> allocation[a].order, assigned |-> RunnerUp(a),
                                     runnerUp |-> allocation[a].warehouse])
  /\ allocation' = [allocation EXCEPT ![a].at = "done"]
  /\ UNCHANGED <<orders, crossed, stockVars, orderFailures>>

\* ... and the INSERT of the decision.
RecordDecision(a) ==
  /\ allocation[a].at = "record"
  /\ decisions' = Append(decisions, [order |-> allocation[a].order,
                                     assigned |-> allocation[a].warehouse,
                                     runnerUp |-> RunnerUp(a)])
  /\ allocation' = [allocation EXCEPT ![a].at = "done"]
  /\ UNCHANGED <<orders, crossed, stockVars, orderFailures>>

\* A statement of runAllocation fails, the UPDATE with or without effect: createOrder
\* logs it, reallocateOrder throws.
AllocationFails(a) ==
  /\ allocation[a].at \in {"read", "update", "record"}
  /\ StatementFails
  /\ LET o == allocation[a].order
         Updated == [status |-> "allocated", warehouse |-> allocation[a].warehouse]
     IN /\ orders' \in {orders} \cup (IF allocation[a].at = "update"
                                     THEN {[orders EXCEPT ![o] = Updated]} ELSE {})
        /\ crossed' = IF allocation[a].at = "record" \/ orders' # orders
                      THEN crossed \cup {o} ELSE crossed
  /\ allocation' = [allocation EXCEPT ![a].at = "done"]
  /\ UNCHANGED <<decisions, stockVars>>

\* A route takes the order in (RoutePlanning).
RouteOrder(o) ==
  /\ orders[o] # None /\ orders[o].status = "pending"
  /\ orders' = [orders EXCEPT ![o].status = "allocated"]
  /\ UNCHANGED <<decisions, allocation, crossed, stockVars, orderFailures>>

-----------------------------------------------------------------------------
(* Stock *)

TotalOf(lines) == MapThenFoldSet(+, 0, LAMBDA s : lines[s], LAMBDA S : CHOOSE x \in S : TRUE, Skus)

\* upsertInventory: the line is set.
SetLine(k, w, s, q) ==
  /\ upsert[k].at = "none"
  /\ inventory' = [inventory EXCEPT ![w][s] = q]
  /\ upsert' = [upsert EXCEPT ![k] = [at |-> "sum", warehouse |-> w]]
  /\ UNCHANGED <<allocVars, currentUnits, unsynced, orderFailures>>

\* ... and current_units becomes the sum of the lines.
SyncUnits(k) ==
  /\ upsert[k].at = "sum"
  /\ currentUnits' = [currentUnits EXCEPT ![upsert[k].warehouse] =
                        TotalOf(inventory[upsert[k].warehouse])]
  /\ upsert' = [upsert EXCEPT ![k].at = "done"]
  /\ unsynced' = unsynced \ {upsert[k].warehouse}
  /\ UNCHANGED <<allocVars, inventory, orderFailures>>

SyncFails(k) ==
  /\ upsert[k].at = "sum"
  /\ StatementFails
  /\ upsert' = [upsert EXCEPT ![k].at = "done"]
  /\ unsynced' = unsynced \cup {upsert[k].warehouse}
  /\ UNCHANGED <<allocVars, inventory, currentUnits>>

-----------------------------------------------------------------------------
OrdersNext ==
  \/ \E a \in Allocations :
       \/ \E o \in Orders : ReallocateOrder(a, o) \/ \E located \in BOOLEAN : CreateOrder(a, o, located)
       \/ ReadWarehouses(a) \/ UpdateOrder(a) \/ RecordDecision(a) \/ AllocationFails(a)
  \/ \E o \in Orders : RouteOrder(o)
  \/ \E k \in Upserts :
       \/ \E w \in Warehouses, s \in Skus, q \in Quantities : SetLine(k, w, s, q)
       \/ SyncUnits(k) \/ SyncFails(k)

-----------------------------------------------------------------------------
(* Properties *)

OrdersTypeOK ==
  /\ orders \in [Orders -> [status : {"pending", "allocated"},
                            warehouse : Warehouses \cup {None}] \cup {None}]
  /\ decisions \in Seq([order : Orders, assigned : Warehouses,
                        runnerUp : Warehouses \cup {None}])
  /\ \A a \in Allocations : allocation[a].at \in {"none", "read", "update", "record", "done"}
  /\ inventory \in [Warehouses -> [Skus -> Nat]]
  /\ currentUnits \in [Warehouses -> Nat]
  /\ \A k \in Upserts : upsert[k].at \in {"none", "sum", "done"}
  /\ crossed \subseteq Orders /\ unsynced \subseteq Warehouses

DecisionsOn(o) == {i \in DOMAIN decisions : decisions[i].order = o}
Latest(S) == CHOOSE i \in S : \A k \in S : k <= i

\* The audit trail explains the order's row: its latest decision assigned the warehouse the order
\* has, and an order without a decision has none; unless a run is at its INSERT,
\* could not do it, or two runs on the order came to it in another order
\* than to their UPDATEs.
LatestDecisionIsTheRow ==
  \A o \in Orders \ crossed :
    orders[o] # None /\ Recording(o) = {} =>
      orders[o].warehouse = IF DecisionsOn(o) = {} THEN None
                            ELSE decisions[Latest(DecisionsOn(o))].assigned

\* current_units is the sum of the warehouse's lines however the PATCHes of its lines
\* overlap, but for one that is between its statements or failed there: the
\* last of them to sum sees all lines.
UnitsAddUp ==
  \A w \in Warehouses \ unsynced :
    currentUnits[w] # TotalOf(inventory[w]) =>
      \E k \in Upserts : upsert[k].at = "sum" /\ upsert[k].warehouse = w
=============================================================================
