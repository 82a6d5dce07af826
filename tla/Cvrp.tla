---------------------------------- MODULE Cvrp ----------------------------------
(***************************************************************************)
(* The capacitated vehicle routing benchmark.  An adapter turns the         *)
(* instance into a model of its own, and what comes back is a list of       *)
(* routes and a cost that one validator grades.  HiGHS works on arcs and a  *)
(* load that flows along them, so its answer is walked arc by arc back into *)
(* routes; the others answer with routes.  Weights are the integers every   *)
(* adapter and the validator round edge_weight to.                          *)
(***************************************************************************)
EXTENDS Integers, Sequences, FiniteSets, SequencesExt

CONSTANTS
    N,          \* number of customers: the nodes are 0, the depot, to N
    Instances   \* records demand, capacity, edge_weight

VARIABLES
    adapter, instance,
    phase,
    x,          \* HiGHS: the arcs whose column is 1
    optimal,    \* HiGHS: the status is kOptimal
    first, node, route, visited,   \* _extract_routes, line by line
    routes, cost,                  \* the solution
    verdict     \* evaluate: no error, or the name of the validator's

walk == <<first, node, route, visited>>
vars == <<adapter, instance, phase, x, optimal, walk, routes, cost, verdict>>

Customers == 1 .. N
Nodes == 0 .. N

(* Every customer asks for something.  The flow rows rest on it: customers  *)
(* who ask for nothing could close a cycle of their own.                    *)
ASSUME NAssumption == N \in Nat \ {0}
ASSUME InstancesAssumption ==
    \A i \in Instances :
        /\ i.demand \in [Customers -> Nat \ {0}]
        /\ i.capacity \in Nat
        /\ i.edge_weight \in [Nodes \X Nodes -> Nat]

Adapters == {"pyvrp", "ortools", "vroom", "timefold", "rustvrp", "pyhygese",
             "highs", "solverforge", "solverforge-py"}

-----------------------------------------------------------------------------
(* HiGHS: columns and rows.                                                 *)

Arcs == {a \in Nodes \X Nodes : a[1] # a[2]}

DegreeRows(s) ==
    \A j \in Customers : /\ \E i \in Nodes : s \cap (Nodes \X {j}) = {<<i, j>>}
                         /\ \E k \in Nodes : s \cap ({j} \X Nodes) = {<<j, k>>}
(* f_ij - Q x_ij <= 0 keeps the flow of an arc off the route at zero and    *)
(* one on it within the capacity.                                           *)
(* Mutant: the link row is strict.                                          *)
FlowsStrict(i, s) == [s -> 0 .. i.capacity - 1]
Flows(i, s) == [s -> 0 .. i.capacity]
FlowOver(f, s) == SumFunctionOnSet(f, s)

TotalDemand(i) == SumFunctionOnSet(i.demand, Customers)
DepotRow(i, s, f) == FlowOver(f, s \cap ({0} \X Customers)) = TotalDemand(i)

(* With one arc in and one arc out, each sum is one column.                 *)
(* Mutant: the row only keeps the load from growing on the way.             *)
ConservationRowsSlack(i, s, f) ==
    \A j \in Customers :
        \A into \in s \cap (Nodes \X {j}), out \in s \cap ({j} \X Nodes) :
            f[into] - f[out] >= 0
ConservationRows(i, s, f) ==
    \A j \in Customers :
        \A into \in s \cap (Nodes \X {j}), out \in s \cap ({j} \X Nodes) :
            f[into] - f[out] = i.demand[j]

HighsAdmits(i, s) ==
    /\ s \in SUBSET Arcs /\ DegreeRows(s)
    /\ \E f \in Flows(i, s) : ConservationRows(i, s, f) /\ DepotRow(i, s, f)
HighsSolutions(i) == {s \in SUBSET Arcs : HighsAdmits(i, s)}

Objective(i, s) == SumFunctionOnSet(i.edge_weight, s)

(* HiGHS stops with kOptimal as soon as no answer is cheaper by more than a *)
(* ten-thousandth, its default mip_rel_gap, which the adapter leaves alone. *)
WithinGap(i, s) ==
    \A t \in HighsSolutions(i) :
        10000 * (Objective(i, s) - Objective(i, t)) <= Objective(i, s)

-----------------------------------------------------------------------------
(* Routes: lists of customers, cut out of an order of those who are served. *)

Orders(S) == {p \in [1 .. Cardinality(S) -> S] : IsInjective(p)}
Ends(n, m) ==
    {e \in [0 .. m -> 0 .. n] :
        /\ e[0] = 0 /\ e[m] = n
        /\ \A r \in 1 .. m : e[r - 1] < e[r]}
Cut(p, e, m) == [r \in 1 .. m |-> SubSeq(p, e[r - 1] + 1, e[r])]
RouteLists(S) ==
    UNION {{Cut(p, e, m) : p \in Orders(S), e \in Ends(Cardinality(S), m)} :
               m \in 0 .. Cardinality(S)}

GetDistance(i, r) ==
    SumFunction([k \in DOMAIN r |->
                i.edge_weight[<<IF k = 1 THEN 0 ELSE r[k - 1], r[k]>>]])
    + i.edge_weight[<<IF r = <<>> THEN 0 ELSE r[Len(r)], 0>>]
CalculateCost(i, rs) == SumFunction([k \in DOMAIN rs |-> GetDistance(i, rs[k])])
GetLoad(i, r) == SumFunction([k \in DOMAIN r |-> i.demand[r[k]]])

Overloaded(i, rs) == \E k \in DOMAIN rs : GetLoad(i, rs[k]) > i.capacity

Stops(rs) == FlattenSeq(rs)
Incomplete(rs) == Customers \ Range(Stops(rs)) # {}

-----------------------------------------------------------------------------
(* The other models: how many vehicles they are given, which soft or        *)
(* missing constraints leave room for what the validator will refuse, and   *)
(* how the answer is written back.                                          *)

(* Mutant: hygese is given a vehicle less than there are customers.         *)
FleetShort(a) ==
    IF a \in {"pyvrp", "ortools", "vroom", "rustvrp"} THEN N + 1
    ELSE IF a = "pyhygese" THEN N - 1 ELSE N
Fleet(a) == IF a \in {"pyvrp", "ortools", "vroom", "rustvrp"} THEN N + 1 ELSE N

(* Scored as hard, not forbidden: a solver cut short may return it.         *)
CapacityIsScored == {"timefold", "solverforge", "solverforge-py", "pyvrp"}
(* VROOM's and vrp-pragmatic's lists of unassigned jobs are not looked at,  *)
(* and HGS without a feasible individual hands back no routes at all.       *)
MayLeaveOut == {"timefold", "vroom", "rustvrp", "solverforge", "solverforge-py"}
MayComeEmpty == {"pyhygese"}

Model(a, i) ==
    {rs \in UNION {RouteLists(S) : S \in SUBSET Customers} :
        /\ Len(rs) <= Fleet(a)
        /\ Incomplete(rs) => a \in MayLeaveOut \/ (a \in MayComeEmpty /\ rs = <<>>)
        /\ Overloaded(i, rs) => a \in CapacityIsScored}

(* PyVRP counts its clients from zero, in the order they were added.        *)
ClientOf(c) == c - 1
NodeOf(client) == client + 1
Reported(a, rs) ==
    IF a = "pyvrp"
    THEN [r \in DOMAIN rs |-> [k \in DOMAIN rs[r] |-> NodeOf(ClientOf(rs[r][k]))]]
    ELSE rs

(* Refused before it reaches the harness: the completeness checks of the    *)
(* two SolverForge adapters, and an infeasible PyVRP result, whose cost is  *)
(* no integer.                                                              *)
PyRefuses(a, rs) == a = "solverforge-py" /\ Incomplete(rs)
RustRefuses(a, rs) == a = "solverforge" /\ Incomplete(rs)
PyVrpRefuses(a, i, rs) == a = "pyvrp" /\ Overloaded(i, rs)
Outcome(a, i, rs) ==
    CASE PyRefuses(a, rs) -> "no_solution"
      [] RustRefuses(a, rs) \/ PyVrpRefuses(a, i, rs) -> "failed"
      [] OTHER -> "returned"

-----------------------------------------------------------------------------
(* validate: the first error it raises, or "None".                          *)

WrongVisit(rs) ==
    \/ ~ IsInjective(Stops(rs))
    \/ \E k \in DOMAIN Stops(rs) : Stops(rs)[k] \notin Customers

(* Mutant: only the whole fleet's load is compared.                         *)
ValidateFleet(i, rs, c) ==
    CASE WrongVisit(rs)              -> "RouteVisitError"
      [] Incomplete(rs)              -> "OrderMissingError"
      [] GetLoad(i, Stops(rs)) > i.capacity * Len(rs) -> "OverloadError"
      [] CalculateCost(i, rs) # c    -> "WrongCostError"
      [] OTHER                       -> "None"
Validate(i, rs, c) ==
    CASE WrongVisit(rs)              -> "RouteVisitError"
      [] Incomplete(rs)              -> "OrderMissingError"
      [] Overloaded(i, rs)           -> "OverloadError"
      [] CalculateCost(i, rs) # c    -> "WrongCostError"
      [] OTHER                       -> "None"

-----------------------------------------------------------------------------
Init ==
    /\ adapter \in Adapters /\ instance \in Instances
    /\ phase = "model"
    /\ x = {} /\ optimal = FALSE
    /\ first = 1 /\ node = 0 /\ route = <<>> /\ visited = {}
    /\ routes = <<>> /\ cost = 0 /\ verdict = "pending"

(* An incumbent, or with kOptimal one that is within the gap of a cheapest. *)
(* The row will not tell: the status is put on errors only.  More than one  *)
(* successor of a customer ends the extraction before the walk.             *)
Ambiguous(s) == \E i \in Customers : Cardinality(s \cap ({i} \X Nodes)) > 1
HighsSolves ==
    /\ phase = "model" /\ adapter = "highs"
    /\ x' \in HighsSolutions(instance)
    /\ optimal' \in BOOLEAN
    /\ optimal' => WithinGap(instance, x')
    /\ phase' = IF Ambiguous(x') THEN "ambiguous" ELSE "walk"
    /\ UNCHANGED <<adapter, instance, walk, routes, cost, verdict>>

HighsProvesInfeasible ==
    /\ phase = "model" /\ adapter = "highs"
    /\ HighsSolutions(instance) = {}
    /\ phase' = "infeasible"
    /\ UNCHANGED <<adapter, instance, x, optimal, walk, routes, cost, verdict>>

(* No incumbent before the time limit; OR-Tools' null assignment; a         *)
(* SolverForge construction that did not finish.                            *)
FindsNothing ==
    /\ phase = "model"
    /\ adapter \in {"highs", "ortools", "solverforge", "solverforge-py"}
    /\ phase' = "no_solution"
    /\ UNCHANGED <<adapter, instance, x, optimal, walk, routes, cost, verdict>>

NoRouteFrom == <<0, first>> \notin x
(* Mutant: the loop runs one past the last customer.                        *)
SkipFirstPast ==
    /\ phase = "walk" /\ node = 0 /\ route = <<>> /\ first <= N + 1
    /\ NoRouteFrom
    /\ first' = first + 1
    /\ UNCHANGED <<adapter, instance, phase, x, optimal, node, route, visited,
                   routes, cost, verdict>>
SkipFirst ==
    /\ phase = "walk" /\ node = 0 /\ route = <<>> /\ first <= N
    /\ NoRouteFrom
    /\ first' = first + 1
    /\ UNCHANGED <<adapter, instance, phase, x, optimal, node, route, visited,
                   routes, cost, verdict>>

StartRoute ==
    /\ phase = "walk" /\ node = 0 /\ route = <<>> /\ first <= N
    /\ ~ NoRouteFrom
    /\ node' = first
    /\ UNCHANGED <<adapter, instance, phase, x, optimal, first, route, visited,
                   routes, cost, verdict>>

Successors(s, n) == {k \in Nodes : <<n, k>> \in s}
Visit ==
    /\ phase = "walk" /\ node # 0
    /\ IF node \in visited \/ Successors(x, node) = {}
       THEN phase' = "cycle" /\ UNCHANGED <<node, route, visited>>
       ELSE /\ visited' = visited \union {node}
            /\ route' = Append(route, node)
            /\ node' \in Successors(x, node)
            /\ UNCHANGED phase
    /\ UNCHANGED <<adapter, instance, x, optimal, first, routes, cost, verdict>>

CloseRoute ==
    /\ phase = "walk" /\ node = 0 /\ route # <<>>
    /\ routes' = Append(routes, route)
    /\ route' = <<>> /\ first' = first + 1
    /\ UNCHANGED <<adapter, instance, phase, x, optimal, node, visited, cost,
                   verdict>>

(* The end of _extract_routes, then the cost from the routes against the    *)
(* objective from the arcs.                                                 *)
HighsReturns ==
    /\ phase = "walk" /\ node = 0 /\ route = <<>> /\ first = N + 1
    /\ cost' = CalculateCost(instance, routes)
    /\ phase' = IF Cardinality(visited) # N THEN "unserved"
                ELSE IF cost' # Objective(instance, x) THEN "mismatch"
                ELSE "returned"
    /\ UNCHANGED <<adapter, instance, x, optimal, walk, routes, verdict>>

OtherReturns ==
    /\ phase = "model" /\ adapter # "highs"
    /\ \E rs \in Model(adapter, instance) :
        /\ phase' = Outcome(adapter, instance, rs)
        /\ routes' = Reported(adapter, rs)
        /\ cost' = CalculateCost(instance, rs)
    /\ UNCHANGED <<adapter, instance, x, optimal, walk, verdict>>

Evaluate ==
    /\ phase = "returned"
    /\ verdict' = Validate(instance, routes, cost)
    /\ phase' = "evaluated"
    /\ UNCHANGED <<adapter, instance, x, optimal, walk, routes, cost>>

Next ==
    \/ HighsSolves \/ HighsProvesInfeasible \/ FindsNothing
    \/ SkipFirst \/ StartRoute \/ Visit \/ CloseRoute \/ HighsReturns
    \/ OtherReturns \/ Evaluate

Spec == Init /\ [][Next]_vars

-----------------------------------------------------------------------------
(* The walk stays on the nodes, and every outcome is one the code has.      *)
TypeInv ==
    /\ adapter \in Adapters /\ instance \in Instances
    /\ phase \in {"model", "walk", "ambiguous", "cycle", "unserved", "mismatch",
                  "infeasible", "no_solution", "failed", "returned", "evaluated"}
    /\ x \subseteq Arcs /\ optimal \in BOOLEAN
    /\ first \in 1 .. N + 1 /\ node \in Nodes
    /\ route \in Seq(Customers) /\ visited \subseteq Customers

(* The flow formulation makes the guards of _extract_routes idle: whatever  *)
(* arcs the rows admit, no walk from the depot meets a customer twice or    *)
(* stops at one, and no cycle of customers is left beside the walks.        *)
ExtractionServesEveryone == phase \notin {"ambiguous", "cycle", "unserved"}

(* What a valid answer is, without loops: a partition of the customers into *)
(* routes of bearable demand, and the weight of the arcs they use.          *)
Places(rs) == UNION {{r} \X DOMAIN rs[r] : r \in DOMAIN rs}
VisitsOf(rs, c) == {rk \in Places(rs) : rs[rk[1]][rk[2]] = c}
Serves(i, rs) ==
    /\ \A r \in DOMAIN rs : Range(rs[r]) \subseteq Customers
    /\ \A c \in Customers : Cardinality(VisitsOf(rs, c)) = 1
    /\ \A r \in DOMAIN rs :
          SumFunctionOnSet(i.demand, Range(rs[r])) <= i.capacity
ArcsOf(rs) ==
    UNION {{<<0, rs[r][1]>>, <<rs[r][Len(rs[r])], 0>>}
           \union {<<rs[r][k], rs[r][k + 1]>> : k \in 1 .. Len(rs[r]) - 1} :
               r \in DOMAIN rs}
Plans(i) == {rs \in RouteLists(Customers) : Serves(i, rs)}

(* A graded row is hard feasible exactly when its routes serve everyone,    *)
(* and its cost is then that of the arcs.  The rows of HiGHS, OR-Tools and  *)
(* PyVRP always are, and HiGHS's recomputed cost is never at odds with the  *)
(* objective; those of VROOM and the Rust heuristic fail only by leaving    *)
(* someone out, those of HGS only by having no routes.                      *)
RowIsService ==
    /\ phase # "mismatch"
    /\ phase = "evaluated" =>
          /\ verdict = "None" <=> Serves(instance, routes)
          /\ verdict = "None" => cost = Objective(instance, ArcsOf(routes))
          /\ adapter \in {"highs", "ortools", "pyvrp"} => verdict = "None"
          /\ adapter \in {"vroom", "rustvrp"} =>
                verdict \in {"None", "OrderMissingError"}
          /\ adapter = "pyhygese" => verdict = "None" \/ routes = <<>>

(* No adapter's model rules out an answer the validator accepts, nor does   *)
(* HiGHS call an instance infeasible that has one.                          *)
EveryModelAllowsIt ==
    /\ phase = "model" =>
          \A rs \in Plans(instance) :
              IF adapter = "highs" THEN HighsAdmits(instance, ArcsOf(rs))
                                   ELSE rs \in Model(adapter, instance)
    /\ phase = "infeasible" => Plans(instance) = {}

(* The row of a run that HiGHS ended with kOptimal is beaten by no feasible *)
(* row by more than the gap, through the walk and the recomputed cost; and  *)
(* by none at all when it costs less than 10000.                            *)
OptimalIsWithinGap ==
    (phase = "evaluated" /\ optimal) =>
        \A rs \in Plans(instance) :
            /\ 10000 * (cost - CalculateCost(instance, rs)) <= cost
            /\ cost < 10000 => cost <= CalculateCost(instance, rs)

=============================================================================
