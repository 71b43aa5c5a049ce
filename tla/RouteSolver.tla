----------------------------- MODULE RouteSolver -----------------------------
(***************************************************************************)
(* The vehicle-routing solver: the nearest-neighbour heuristic             *)
(* (engines/route-optimizer/greedy-init.ts), the branch-and-bound search   *)
(* started from its result (branch-and-bound.ts), and solveVRP (vrp.ts),   *)
(* which picks one of the two and says how good it is.                     *)
(*                                                                         *)
(* Places are the points of an arbitrary metric; weight and volume, which  *)
(* the code treats alike, are one demand.  Arrival times, the node count   *)
(* and the seed are left out: nothing depends on them.                     *)
(***************************************************************************)
EXTENDS Integers, Sequences, FiniteSets, FiniteSetsExt, SequencesExt

CONSTANTS
  MaxStops, MaxVehicles,  \* bounds on the size of an input
  Places, Warehouse,      \* where a stop may be; the warehouse is a place too
  Distance,               \* haversineKm between two places
  Demands, Capacities,    \* what a stop may weigh, a vehicle carry
  ExactThreshold          \* BNB_EXACT_THRESHOLD

ASSUME SolverConstants ==
  /\ MaxStops \in Nat /\ MaxVehicles \in Nat /\ ExactThreshold \in Nat
  /\ Warehouse \in Places
  /\ Distance \in [Places \X Places -> Nat]
  /\ \A p, q \in Places : /\ Distance[p, p] = 0
                          /\ Distance[p, q] = Distance[q, p]
  /\ \A p, q, r \in Places : Distance[p, r] <= Distance[p, q] + Distance[q, r]
  /\ Demands \subseteq Nat /\ Capacities \subseteq Nat

VARIABLES
  place, demand,  \* the stops of the input, in its order
  capacity,       \* the vehicles of the input, in its order
  phase,          \* "greedy", "search" or "answered"
  tour,           \* greedy: the stops given to each vehicle so far
  stack,          \* branch-and-bound: partial solutions still to explore
  best,           \* branch-and-bound: the best solution so far
  late,           \* the time limit has passed
  claim           \* SolverMetadata.solverUsed of the answer

input == <<place, demand, capacity>>
vars == <<input, phase, tour, stack, best, late, claim>>

Stops == DOMAIN place
Vehicles == DOMAIN capacity

-----------------------------------------------------------------------------
(* Routes *)

\* Where the i-th leg of a list of stops starts from.
At(stops, i) == IF i = 0 THEN Warehouse ELSE place[stops[i]]
End(stops) == At(stops, Len(stops))

Length(stops) ==
  MapThenSumSet(LAMBDA i : Distance[At(stops, i - 1), At(stops, i)], DOMAIN stops)
Load(stops) == MapThenSumSet(LAMBDA i : demand[stops[i]], DOMAIN stops)

\* A solution: the routes that have stops, and their total length.
Solution(routes) ==
  [routes |-> routes,
   cost |-> MapThenSumSet(LAMBDA i : Length(routes[i].stops), DOMAIN routes)]

Served(routes) == UNION {ToSet(routes[i].stops) : i \in DOMAIN routes}

\* The elements of a finite set, in the order that a loop comes to them.
InOrder(S, Precedes(_, _)) ==
  CHOOSE s \in [1..Cardinality(S) -> S] :
    \A i, k \in DOMAIN s : i < k => s[i] # s[k] /\ Precedes(s[i], s[k])

-----------------------------------------------------------------------------
(* greedyInit *)

Unserved == Stops \ UNION {ToSet(tour[v]) : v \in Vehicles}

\* The (vehicle, stop) pairs that fit.
Fitting == {p \in Vehicles \X Unserved : Load(tour[p[1]]) + demand[p[2]] <= capacity[p[1]]}

Leg(p) == Distance[End(tour[p[1]]), place[p[2]]]
Before(p, q) == p[1] < q[1] \/ (p[1] = q[1] /\ p[2] <= q[2])

\* dist < bestCost: of the closest pairs, the first that the loops come to.
Cheapest ==
  LET closest == {p \in Fitting : \A q \in Fitting : Leg(p) <= Leg(q)}
  IN CHOOSE p \in closest : \A q \in closest : Before(p, q)

Assign ==
  /\ phase = "greedy" /\ Fitting # {}
  /\ tour' = [tour EXCEPT ![Cheapest[1]] = Append(@, Cheapest[2])]
  /\ UNCHANGED <<input, phase, stack, best, late, claim>>

\* Its result: the vehicles that received a stop, in the order of the input.
GreedySolution ==
  LET used == InOrder({v \in Vehicles : tour[v] # <<>>}, LAMBDA v, w : v < w)
  IN Solution([i \in DOMAIN used |->
                 [vehicle |-> used[i], stops |-> tour[used[i]],
                  room |-> capacity[used[i]] - Load(tour[used[i]])]])

\* A node of the search.  The stops before next are on routes, the others not.
Root == [routes |-> <<>>, cost |-> 0, next |-> 1]

\* No vehicle can take a remaining stop, or none remains: the search starts,
\* unless there is nothing to optimise.
StartSearch ==
  /\ phase = "greedy" /\ Fitting = {}
  /\ best' = GreedySolution
  /\ IF Stops = {} \/ Vehicles = {}
     THEN /\ phase' = "answered" /\ claim' = "greedy-approximation"
          /\ UNCHANGED stack
     ELSE /\ phase' = "search" /\ stack' = <<Root>>
          /\ UNCHANGED claim
  /\ UNCHANGED <<input, tour, late>>

-----------------------------------------------------------------------------
(* branchAndBound *)

\* nearestInsertionLowerBound.
Anchors(node) == IF node.routes = <<>> THEN {Warehouse}
                 ELSE {End(node.routes[i].stops) : i \in DOMAIN node.routes}
LowerBound(node) ==
  MapThenSumSet(LAMBDA s : Min({Distance[a, place[s]] : a \in Anchors(node)}),
                node.next..Len(place))

\* insertionCostDelta: the stop goes in after the first pos stops.
DeltaForgetful(stops, pos, s) ==
  IF pos = Len(stops) THEN Distance[At(stops, pos), place[s]]
  ELSE Distance[At(stops, pos), place[s]] + Distance[place[s], At(stops, pos + 1)]
Delta(stops, pos, s) ==
  IF pos = Len(stops) THEN Distance[At(stops, pos), place[s]]
  ELSE Distance[At(stops, pos), place[s]] + Distance[place[s], At(stops, pos + 1)]
         - Distance[At(stops, pos), At(stops, pos + 1)]

\* Branch A: the next stop inserted in an existing route with room for it.
Inserted(node, i, pos) ==
  LET route == node.routes[i]
  IN [routes |-> [node.routes EXCEPT ![i] =
                    [vehicle |-> route.vehicle,
                     stops |-> InsertAt(route.stops, pos + 1, node.next),
                     room |-> route.room - demand[node.next]]],
      cost |-> node.cost + Delta(route.stops, pos, node.next),
      next |-> node.next + 1]
InnerPositions(node, i) == 0..Len(node.routes[i].stops) - 1
Positions(node, i) == 0..Len(node.routes[i].stops)

HasRoomForLast(node, i) == node.routes[i].room > 0
HasRoom(node, i) == demand[node.next] <= node.routes[i].room

Insertions(node) ==
  UNION {{i} \X Positions(node, i) : i \in {r \in DOMAIN node.routes : HasRoom(node, r)}}

\* Branch B: a new route with the first unused vehicle that can take it.
AvailableTwice(node) == {v \in Vehicles : demand[node.next] <= capacity[v]}
Available(node) ==
  {v \in Vehicles : /\ \A i \in DOMAIN node.routes : node.routes[i].vehicle # v
                    /\ demand[node.next] <= capacity[v]}
NewRoute(node) ==
  LET v == Min(Available(node))
  IN [routes |-> Append(node.routes, [vehicle |-> v, stops |-> <<node.next>>,
                                      room |-> capacity[v] - demand[node.next]]),
      cost |-> node.cost + Distance[Warehouse, place[node.next]],
      next |-> node.next + 1]

\* Where the next stop can go, in the order of the loops: <<i, pos>> is a place on
\* a route, and the last is the new route.
Placements(node) ==
  Insertions(node) \cup (IF Available(node) = {} THEN {} ELSE {<<Len(node.routes) + 1, 0>>})
Child(node, p) ==
  IF p[1] \in DOMAIN node.routes THEN Inserted(node, p[1], p[2]) ELSE NewRoute(node)

\* The children that are pushed: those not already as long as the best.
Pushed(node) == {p \in Placements(node) : Child(node, p).cost < best.cost}
Children(node) ==
  LET placements == InOrder(Pushed(node), Before)
  IN [k \in DOMAIN placements |-> Child(node, placements[k])]

Top == Last(stack)
CompleteButOne(node) == node.next >= Len(place)
Complete(node) == node.next > Len(place)
Pop == stack' = Front(stack)

\* An iteration of the loop, which checks the time limit first.
Explore ==
  /\ phase = "search" /\ stack # <<>> /\ ~late
  /\ UNCHANGED <<input, phase, tour, late, claim>>

Solve ==
  /\ Explore /\ Complete(Top)
  /\ Pop
  /\ best' = IF Top.cost < best.cost THEN [routes |-> Top.routes, cost |-> Top.cost]
             ELSE best

Pruned(node) == node.cost + LowerBound(node) >= best.cost

Prune ==
  /\ Explore /\ ~Complete(Top) /\ Pruned(Top)
  /\ Pop
  /\ UNCHANGED best

Branch ==
  /\ Explore /\ ~Complete(Top) /\ ~Pruned(Top)
  /\ stack' = Front(stack) \o Children(Top)
  /\ UNCHANGED best

TimePasses ==
  /\ phase = "search" /\ ~late /\ late' = TRUE
  /\ UNCHANGED <<input, phase, tour, stack, best, claim>>

-----------------------------------------------------------------------------
(* solveVRP *)

Improved == best.cost < GreedySolution.cost

\* The loop has ended: the better solution is returned and classified, by the
\* number of stops and not by how the loop ended.
Answer ==
  /\ phase = "search" /\ (stack = <<>> \/ late)
  /\ phase' = "answered"
  /\ best' = IF Improved THEN best ELSE GreedySolution
  /\ claim' = CASE Len(place) <= ExactThreshold -> "exact-bnb"
                [] Len(place) > ExactThreshold /\ Improved -> "hybrid"
                [] OTHER -> "greedy-approximation"
  /\ UNCHANGED <<input, tour, stack, late>>

-----------------------------------------------------------------------------
Inputs ==
  /\ \E n \in 0..MaxStops : place \in [1..n -> Places]
  /\ demand \in [DOMAIN place -> Demands]
  /\ \E n \in 0..MaxVehicles : capacity \in [1..n -> Capacities]

Init ==
  /\ Inputs
  /\ phase = "greedy" /\ tour = [v \in Vehicles |-> <<>>]
  /\ stack = <<>> /\ best = [routes |-> <<>>, cost |-> 0]
  /\ late = FALSE /\ claim = "none"

Next ==
  \/ Assign \/ StartSearch
  \/ Solve \/ Prune \/ Branch \/ TimePasses
  \/ Answer

Spec == Init /\ [][Next]_vars

-----------------------------------------------------------------------------
(* Properties *)

Route == [vehicle : Vehicles, stops : Seq(Stops), room : Nat]

\* Types; a vehicle is never filled beyond its capacity (room is a natural
\* number).
TypeOK ==
  /\ place \in Seq(Places) /\ Len(place) <= MaxStops
  /\ demand \in [Stops -> Demands]
  /\ capacity \in Seq(Capacities)
  /\ phase \in {"greedy", "search", "answered"}
  /\ tour \in [Vehicles -> Seq(Stops)]
  /\ stack \in Seq([routes : Seq(Route), cost : Nat, next : 1..Len(place) + 1])
  /\ best \in [routes : Seq(Route), cost : Nat]
  /\ late \in BOOLEAN
  /\ claim \in {"none", "exact-bnb", "hybrid", "greedy-approximation"}

\* What can be driven: no vehicle has two routes, no stop is visited twice, and
\* the capacity that is left is what the stops on the route leave.
Drivable(routes) ==
  /\ \A i, k \in DOMAIN routes : i # k =>
       /\ routes[i].vehicle # routes[k].vehicle
       /\ ToSet(routes[i].stops) \cap ToSet(routes[k].stops) = {}
  /\ \A i \in DOMAIN routes :
       /\ IsInjective(routes[i].stops)
       /\ routes[i].room = capacity[routes[i].vehicle] - Load(routes[i].stops)

\* Every solution the search holds, partial or best, can be driven, and a
\* partial one has exactly the stops it is said to have.
SolutionsDrivable ==
  /\ Drivable(best.routes)
  /\ \A i \in DOMAIN stack : /\ Drivable(stack[i].routes)
                             /\ Served(stack[i].routes) = 1..stack[i].next - 1

\* The cost carried along by increments is the length of the routes.
CostsAddUp ==
  /\ best.cost = Solution(best.routes).cost
  /\ \A i \in DOMAIN stack : stack[i].cost = Solution(stack[i].routes).cost

\* The search's bookkeeping is sound: types, solutions that can be driven, and their costs.
SearchIsSound == TypeOK /\ SolutionsDrivable /\ CostsAddUp

\* The answer is the heuristic's, or serves every stop with a shorter distance.
NeverWorseThanGreedy ==
  phase # "greedy" =>
    \/ best = GreedySolution
    \/ best.cost < GreedySolution.cost /\ Served(best.routes) = Stops

\* All ways to serve the first n stops: sets of disjoint non-empty lists.
Partitions(n) ==
  LET orders == {<<>>} \cup UNION {SetToSeqs(s) : s \in SUBSET (1..n)}
  IN {f \in [Vehicles -> orders] :
        /\ UNION {ToSet(f[v]) : v \in Vehicles} = 1..n
        /\ \A v, w \in Vehicles : v # w => ToSet(f[v]) \cap ToSet(f[w]) = {}}
Within(f) == \A v \in Vehicles : Load(f[v]) <= capacity[v]
CostOf(f) == MapThenSumSet(LAMBDA v : Length(f[v]), Vehicles)
Plans == {f \in Partitions(Len(place)) : Within(f)}

\* The list has both stops, a not after b.
InTurn(list, a, b) == \E i, k \in DOMAIN list : i <= k /\ list[i] = a /\ list[k] = b
SomeInTurn(lists, a, b) == \E i \in DOMAIN lists : InTurn(lists[i], a, b)

\* Of the stops the node has come to, the plan has the same ones on a vehicle, and in
\* the same order, as the node has on a route (of equal vehicles, any will do).
StopsOf(node) == [i \in DOMAIN node.routes |-> node.routes[i].stops]
Leads(node, f) ==
  \A a, b \in 1..node.next - 1 : SomeInTurn(StopsOf(node), a, b) <=> SomeInTurn(f, a, b)

EqualFleet == \A v, w \in Vehicles : capacity[v] = capacity[w]

\* With vehicles all alike, the search loses a plan better than its best only
\* where it judges by the lower bound: branching covers every insertion.
LosesNoPlan ==
  phase = "search" /\ ~late' /\ EqualFleet /\ stack # <<>> /\ ~Pruned(Top) =>
    \A f \in Plans :
      (\E i \in DOMAIN stack : Leads(stack[i], f)) =>
         \/ CostOf(f) >= best'.cost
         \/ \E i \in DOMAIN stack' : Leads(stack'[i], f)
OnlyBoundLosesPlans == [][LosesNoPlan]_vars

\* The certificate of vrp.ts: a solution called exact, found in time for a fleet
\* of equal vehicles that can carry everything, is a shortest one.
ProvenOptimal ==
  phase = "answered" /\ claim = "exact-bnb" /\ ~late /\ EqualFleet /\ Plans # {}
     => \A f \in Plans : best.cost <= CostOf(f)
=============================================================================
