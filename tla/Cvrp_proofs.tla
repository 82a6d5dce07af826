------------------------------- MODULE Cvrp_proofs -------------------------------
(* For every number of customers and every instance whose customers ask for *)
(* something: whatever arcs HiGHS's rows admit, the walk that turns them    *)
(* into routes serves everyone and never meets its own guards; a row with a *)
(* cost is a service at that cost, whoever answered; and no adapter's model *)
(* rules out a service.                                                     *)
EXTENDS Cvrp, FoldTheorems, FiniteSetTheorems, TLAPS

Last1 == route[Len(route)]

(* Where the walk stands.  A customer behind it was entered from the depot, *)
(* or from a customer behind it other than the last one; it leads on to the *)
(* depot, to another behind it, or it is the last and leads to node.        *)
Entered ==
    \A v \in visited :
        \/ /\ <<0, v>> \in x
           /\ v < first \/ (v = first /\ route # <<>>)
        \/ \E u \in visited : <<u, v>> \in x /\ ~ (route # <<>> /\ u = Last1)
Closed ==
    \A v \in visited :
        \E k \in Nodes : /\ <<v, k>> \in x
                         /\ \/ k = 0 \/ k \in visited
                            \/ k = node /\ route # <<>> /\ v = Last1
Begun == \A h \in Customers : h < first /\ <<0, h>> \in x => h \in visited
Here ==
    /\ node # 0 /\ route = <<>> => node = first /\ <<0, node>> \in x
    /\ route # <<>> => /\ Last1 \in visited /\ <<Last1, node>> \in x
                       /\ first \in visited
WalkInv == /\ HighsAdmits(instance, x)
           /\ Entered /\ Closed /\ Begun /\ Here

IInv == /\ TypeInv
        /\ phase = "model" => /\ first = 1 /\ node = 0
                              /\ route = <<>> /\ visited = {}
        /\ phase \notin {"ambiguous", "cycle", "unserved"}
        /\ phase = "walk" => WalkInv

-----------------------------------------------------------------------------
(* The degree rows, arc by arc.                                             *)
LEMMA Degrees ==
    ASSUME NEW s, s \in SUBSET Arcs, DegreeRows(s), NEW j \in Customers
    PROVE  /\ \E i \in Nodes : <<i, j>> \in s /\ i # j
           /\ \E k \in Nodes : <<j, k>> \in s /\ k # j
           /\ \A i, k \in Nodes : <<i, j>> \in s /\ <<k, j>> \in s => i = k
           /\ \A i, k \in Nodes : <<j, i>> \in s /\ <<j, k>> \in s => i = k
<1>1. j \in Nodes
  BY NAssumption, SMT DEF Customers, Nodes
<1>2. PICK i \in Nodes : s \cap (Nodes \X {j}) = {<<i, j>>}
  BY DEF DegreeRows
<1>3. PICK k \in Nodes : s \cap ({j} \X Nodes) = {<<j, k>>}
  BY DEF DegreeRows
<1>4. \A h \in Nodes : <<h, j>> \in s => h = i
  <2> SUFFICES ASSUME NEW h \in Nodes, <<h, j>> \in s PROVE h = i
    OBVIOUS
  <2>1. <<h, j>> \in s \cap (Nodes \X {j})
    OBVIOUS
  <2> QED BY <2>1, <1>2
<1>5. \A h \in Nodes : <<j, h>> \in s => h = k
  <2> SUFFICES ASSUME NEW h \in Nodes, <<j, h>> \in s PROVE h = k
    OBVIOUS
  <2>1. <<j, h>> \in s \cap ({j} \X Nodes)
    OBVIOUS
  <2> QED BY <2>1, <1>3
<1>6. <<i, j>> \in s /\ <<j, k>> \in s
  BY <1>2, <1>3
<1>7. i # j /\ k # j
  BY <1>6 DEF Arcs
<1> QED
  BY <1>4, <1>5, <1>6, <1>7

LEMMA NotAmbiguous ==
    ASSUME NEW s, DegreeRows(s) PROVE ~ Ambiguous(s)
<1> SUFFICES ASSUME NEW i \in Customers,
                    Cardinality(s \cap ({i} \X Nodes)) > 1
             PROVE  FALSE
  BY DEF Ambiguous
<1>1. PICK k \in Nodes : s \cap ({i} \X Nodes) = {<<i, k>>}
  BY DEF DegreeRows
<1>2. Cardinality({<<i, k>>}) = 1
  BY FS_Singleton
<1> QED
  BY <1>1, <1>2, SMT

(* No customers entered only from one another: going against the arcs the   *)
(* load grows with every demand, and the capacity bounds it.                *)
LEMMA NoCycleAside ==
    ASSUME NEW i \in Instances, NEW s, HighsAdmits(i, s),
           NEW U, U \subseteq Customers,
           \A j \in U : \A p \in Nodes : <<p, j>> \in s => p \in U
    PROVE  U = {}
<1> SUFFICES ASSUME U # {} PROVE FALSE
  OBVIOUS
<1>1. /\ i.demand \in [Customers -> Nat \ {0}] /\ i.capacity \in Nat
  BY InstancesAssumption
<1>2. s \in SUBSET Arcs /\ DegreeRows(s)
  BY DEF HighsAdmits
<1>3. PICK f \in [s -> 0 .. i.capacity] : ConservationRows(i, s, f)
  BY DEF HighsAdmits, Flows
<1> DEFINE T == {n \in 0 .. i.capacity :
                   \E j \in U, p \in Nodes :
                      <<p, j>> \in s /\ n = i.capacity - f[<<p, j>>]}
<1>4. \A j \in U, p \in Nodes : <<p, j>> \in s => i.capacity - f[<<p, j>>] \in T
  <2> SUFFICES ASSUME NEW j \in U, NEW p \in Nodes, <<p, j>> \in s
               PROVE  i.capacity - f[<<p, j>>] \in T
    OBVIOUS
  <2>1. f[<<p, j>>] \in 0 .. i.capacity
    BY <1>3
  <2>2. i.capacity - f[<<p, j>>] \in 0 .. i.capacity
    BY <1>1, <2>1, SMT
  <2> QED BY <2>2
<1>5. T # {}
  <2>1. PICK j \in U : TRUE
    OBVIOUS
  <2>2. \E p \in Nodes : <<p, j>> \in s
    BY <1>2, Degrees
  <2> QED BY <1>4, <2>2
<1>6. T \subseteq Nat
  BY <1>1, SMT
<1>7. PICK m \in T : \A k \in T : m <= k
  BY <1>5, <1>6, LeastNatural
<1>8. PICK j \in U, p \in Nodes : <<p, j>> \in s /\ m = i.capacity - f[<<p, j>>]
  BY <1>7
<1>9. p \in U /\ p \in Customers
  BY <1>8
<1>10. PICK q \in Nodes : <<q, p>> \in s
  BY <1>2, <1>9, Degrees
<1>11. f[<<q, p>>] - f[<<p, j>>] = i.demand[p]
  <2>1. p \in Nodes /\ j \in Nodes
    BY <1>9, NAssumption, SMT DEF Customers, Nodes
  <2>2. /\ <<q, p>> \in s \cap (Nodes \X {p})
        /\ <<p, j>> \in s \cap ({p} \X Nodes)
    BY <1>8, <1>10, <2>1
  <2> QED BY <1>3, <1>9, <2>2 DEF ConservationRows
<1>12. i.capacity - f[<<q, p>>] \in T
  BY <1>4, <1>9, <1>10
<1>13. /\ f[<<q, p>>] \in 0 .. i.capacity /\ f[<<p, j>>] \in 0 .. i.capacity
       /\ i.demand[p] \in Nat \ {0}
  BY <1>1, <1>3, <1>8, <1>9, <1>10
<1>14. m <= i.capacity - f[<<q, p>>]
  BY <1>7, <1>12
<1> HIDE DEF T
<1> QED
  BY <1>1, <1>8, <1>11, <1>13, <1>14, SMT

-----------------------------------------------------------------------------
(* The walk.                                                                *)

(* The customer ahead is new, and there is a way on from it.                *)
LEMMA WayOn ==
    ASSUME TypeInv, WalkInv, node # 0
    PROVE  node \in Customers /\ node \notin visited /\ Successors(x, node) # {}
<1>1. node \in Customers /\ visited \subseteq Customers /\ first \in 1 .. N + 1
  BY NAssumption, SMT DEF TypeInv, Nodes, Customers
<1>2. x \in SUBSET Arcs /\ DegreeRows(x)
  BY DEF WalkInv, HighsAdmits
<1>3. /\ visited \subseteq Nodes /\ 0 \in Nodes /\ 0 \notin visited
  BY <1>1, NAssumption, SMT DEF Customers, Nodes
<1>4. Successors(x, node) # {}
  BY <1>1, <1>2, Degrees DEF Successors
<1>5. ASSUME node \in visited PROVE FALSE
  <2>1. \A i, k \in Nodes : <<i, node>> \in x /\ <<k, node>> \in x => i = k
    BY <1>1, <1>2, Degrees
  <2>2. \/ <<0, node>> \in x /\ (node < first \/ (node = first /\ route # <<>>))
        \/ \E u \in visited : <<u, node>> \in x /\ ~ (route # <<>> /\ u = Last1)
    BY <1>5 DEF WalkInv, Entered
  <2>3. CASE route = <<>>
    <3>1. node = first /\ <<0, node>> \in x
      BY <2>3 DEF WalkInv, Here
    <3>2. ~ (node < first)
      BY <3>1, <1>1, SMT
    <3>3. PICK u \in visited : <<u, node>> \in x
      BY <2>2, <2>3, <3>2
    <3> QED BY <1>3, <2>1, <3>1, <3>3
  <2>4. CASE route # <<>>
    <3>1. Last1 \in visited /\ <<Last1, node>> \in x
      BY <2>4 DEF WalkInv, Here
    <3> QED BY <1>3, <2>1, <2>2, <2>4, <3>1
  <2> QED BY <2>3, <2>4
<1> QED
  BY <1>1, <1>4, <1>5

(* At the end of the loop nobody is left.                                   *)
LEMMA EveryoneServed ==
    ASSUME TypeInv, WalkInv, node = 0, route = <<>>, first = N + 1
    PROVE  visited = Customers /\ Cardinality(visited) = N
<1> DEFINE U == Customers \ visited
<1>1. visited \subseteq Customers /\ x \in SUBSET Arcs /\ DegreeRows(x)
  BY DEF TypeInv, WalkInv, HighsAdmits
<1>2. \A j \in U : \A p \in Nodes : <<p, j>> \in x => p \in U
  <2> SUFFICES ASSUME NEW j \in U, NEW p \in Nodes, <<p, j>> \in x
               PROVE  p \in U
    OBVIOUS
  <2>1. j \in Customers /\ j < first /\ j \in Nodes /\ j # 0
    BY NAssumption, SMT DEF Customers, Nodes
  <2>2. p # 0
    BY <2>1 DEF WalkInv, Begun
  <2>3. p \notin visited
    <3> SUFFICES ASSUME p \in visited PROVE FALSE
      OBVIOUS
    <3>1. PICK k \in Nodes : <<p, k>> \in x /\ (k = 0 \/ k \in visited)
      BY DEF WalkInv, Closed
    <3>2. k = j
      BY <1>1, <2>1, <3>1, Degrees
    <3> QED BY <2>1, <3>1, <3>2
  <2>4. p \in Customers
    BY <2>2, NAssumption, SMT DEF Customers, Nodes
  <2> QED BY <2>3, <2>4
<1>3. U = {}
  <2>1. instance \in Instances /\ HighsAdmits(instance, x)
    BY DEF TypeInv, WalkInv
  <2>2. U \subseteq Customers
    OBVIOUS
  <2> HIDE DEF U
  <2> QED BY <1>2, <2>1, <2>2, NoCycleAside
<1>4. Cardinality(Customers) = N
  <2>1. Cardinality(1 .. N) = IF 1 > N THEN 0 ELSE N - 1 + 1
    BY NAssumption, FS_Interval
  <2> QED BY <2>1, NAssumption, SMT DEF Customers
<1>5. visited = Customers
  BY <1>1, <1>3
<1> QED
  BY <1>4, <1>5

-----------------------------------------------------------------------------
LEMMA InitHolds == Init => IInv
<1> SUFFICES ASSUME Init PROVE IInv
  OBVIOUS
<1>1. first \in 1 .. N + 1 /\ node \in Nodes
  BY NAssumption, SMT DEF Init, Nodes
<1>2. route \in Seq(Customers) /\ visited \subseteq Customers
  BY DEF Init
<1> QED
  BY <1>1, <1>2 DEF Init, IInv, TypeInv

(* A step outside the walk leaves it where it is, or ends it.               *)
LEMMA OffTheWalk ==
    ASSUME IInv, UNCHANGED <<adapter, instance, x, optimal, walk>>,
           phase' \in {"infeasible", "no_solution", "failed", "returned",
                       "evaluated"}
    PROVE  IInv'
  BY DEF IInv, TypeInv, walk

LEMMA HighsSolvesHolds == IInv /\ HighsSolves => IInv'
<1> SUFFICES ASSUME IInv, HighsSolves PROVE IInv'
  OBVIOUS
<1>1. HighsAdmits(instance, x') /\ x' \in SUBSET Arcs /\ DegreeRows(x')
  BY DEF HighsSolves, HighsSolutions, HighsAdmits
<1>2. phase' = "walk"
  BY <1>1, NotAmbiguous DEF HighsSolves
<1>3. /\ first' = 1 /\ node' = 0 /\ route' = <<>> /\ visited' = {}
      /\ instance' = instance /\ adapter' = adapter
  BY DEF IInv, HighsSolves, walk
<1>4. TypeInv'
  BY <1>1, <1>2, <1>3 DEF IInv, TypeInv, HighsSolves
<1>5. \A h \in Customers : ~ (h < 1)
  BY SMT DEF Customers
<1>6. WalkInv'
  BY <1>1, <1>3, <1>5 DEF WalkInv, Entered, Closed, Begun, Here
<1> QED
  BY <1>2, <1>4, <1>6 DEF IInv

LEMMA SkipFirstHolds == IInv /\ SkipFirst => IInv'
<1> SUFFICES ASSUME IInv, SkipFirst PROVE IInv'
  OBVIOUS
<1>1. /\ phase = "walk" /\ node = 0 /\ route = <<>> /\ first \in 1 .. N
      /\ <<0, first>> \notin x /\ first' = first + 1
      /\ UNCHANGED <<adapter, instance, phase, x, optimal, node, route, visited>>
  BY NAssumption, SMT DEF IInv, TypeInv, SkipFirst, NoRouteFrom
<1>2. TypeInv'
  <2>1. first' \in 1 .. N + 1
    BY <1>1, NAssumption, SMT
  <2> QED BY <1>1, <2>1 DEF IInv, TypeInv
<1>3. WalkInv
  BY <1>1 DEF IInv
<1>4. Entered' /\ Closed'
  <2>1. \A v \in visited : v < first => v < first'
    BY <1>1, NAssumption, SMT DEF IInv, TypeInv, Customers
  <2> QED BY <1>1, <1>3, <2>1 DEF WalkInv, Entered, Closed, Last1
<1>5. Begun'
  <2>1. \A h \in Customers : h < first' => h < first \/ h = first
    BY <1>1, NAssumption, SMT DEF Customers
  <2> QED BY <1>1, <1>3, <2>1 DEF WalkInv, Begun
<1>6. Here' /\ HighsAdmits(instance, x)'
  BY <1>1, <1>3 DEF WalkInv, Here
<1> QED
  BY <1>1, <1>2, <1>4, <1>5, <1>6 DEF IInv, WalkInv

LEMMA StartRouteHolds == IInv /\ StartRoute => IInv'
<1> SUFFICES ASSUME IInv, StartRoute PROVE IInv'
  OBVIOUS
<1>1. /\ phase = "walk" /\ node = 0 /\ route = <<>>
      /\ <<0, first>> \in x /\ node' = first
      /\ UNCHANGED <<adapter, instance, phase, x, optimal, first, route, visited>>
  BY DEF StartRoute, NoRouteFrom
<1>2. TypeInv'
  <2>1. node' \in Nodes
    BY <1>1, NAssumption, SMT DEF IInv, TypeInv, StartRoute, Nodes
  <2> QED BY <1>1, <2>1 DEF IInv, TypeInv
<1>3. WalkInv
  BY <1>1 DEF IInv
<1>4. WalkInv'
  BY <1>1, <1>3 DEF WalkInv, Entered, Closed, Begun, Here
<1> QED
  BY <1>1, <1>2, <1>4 DEF IInv

LEMMA VisitHolds == IInv /\ Visit => IInv'
<1> SUFFICES ASSUME IInv, Visit PROVE IInv'
  OBVIOUS
<1>1. phase = "walk" /\ node # 0 /\ TypeInv /\ WalkInv
  BY DEF IInv, Visit
<1>2. /\ node \in Customers /\ node \notin visited
      /\ Successors(x, node) # {}
  BY <1>1, WayOn
<1>3. /\ visited' = visited \union {node} /\ route' = Append(route, node)
      /\ node' \in Nodes /\ <<node, node'>> \in x
      /\ UNCHANGED <<adapter, instance, phase, x, optimal, first>>
  BY <1>2 DEF Visit, Successors
<1>4. route \in Seq(Customers)
  BY <1>1 DEF TypeInv
<1>5. route' # <<>> /\ Last1' = node /\ route' \in Seq(Customers)
  BY <1>2, <1>3, <1>4, SMT DEF Last1
<1>6. TypeInv'
  BY <1>1, <1>2, <1>3, <1>5 DEF TypeInv
<1>7. Entered'
  <2>1. SUFFICES ASSUME NEW v \in visited'
        PROVE  \/ /\ <<0, v>> \in x
                  /\ v < first \/ v = first
               \/ \E u \in visited' : <<u, v>> \in x /\ u # node
    BY <1>3, <1>5 DEF Entered
  <2>2. CASE v \in visited
    <3>1. \/ <<0, v>> \in x /\ (v < first \/ v = first)
          \/ \E u \in visited : <<u, v>> \in x
      BY <1>1, <2>2 DEF WalkInv, Entered
    <3> QED BY <1>2, <1>3, <3>1
  <2>3. CASE v = node
    <3>1. CASE route = <<>>
      BY <1>1, <2>3, <3>1 DEF WalkInv, Here
    <3>2. CASE route # <<>>
      <4>1. Last1 \in visited /\ <<Last1, node>> \in x
        BY <1>1, <3>2 DEF WalkInv, Here
      <4> QED BY <1>2, <1>3, <2>3, <4>1
    <3> QED BY <3>1, <3>2
  <2> QED BY <1>3, <2>2, <2>3
<1>8. Closed'
  <2>1. SUFFICES ASSUME NEW v \in visited'
        PROVE  \E k \in Nodes : /\ <<v, k>> \in x
                                /\ k = 0 \/ k \in visited'
                                   \/ (k = node' /\ v = node)
    BY <1>3, <1>5 DEF Closed
  <2>2. CASE v \in visited
    <3>1. \E k \in Nodes : /\ <<v, k>> \in x
                           /\ k = 0 \/ k \in visited \/ k = node
      BY <1>1, <2>2 DEF WalkInv, Closed
    <3> QED BY <1>3, <3>1
  <2>3. CASE v = node
    BY <1>3, <2>3
  <2> QED BY <1>3, <2>2, <2>3
<1>9. Begun'
  BY <1>1, <1>3 DEF WalkInv, Begun
<1>10. Here'
  <2>1. first \in visited'
    BY <1>1, <1>3 DEF WalkInv, Here
  <2> QED BY <1>3, <1>5, <2>1 DEF Here
<1>11. HighsAdmits(instance, x)'
  BY <1>1, <1>3 DEF WalkInv
<1> QED
  BY <1>1, <1>3, <1>6, <1>7, <1>8, <1>9, <1>10, <1>11 DEF IInv, WalkInv

LEMMA CloseRouteHolds == IInv /\ CloseRoute => IInv'
<1> SUFFICES ASSUME IInv, CloseRoute PROVE IInv'
  OBVIOUS
<1>1. /\ phase = "walk" /\ node = 0 /\ route # <<>> /\ TypeInv /\ WalkInv
      /\ route' = <<>> /\ first' = first + 1
      /\ UNCHANGED <<adapter, instance, phase, x, optimal, node, visited>>
  BY DEF IInv, CloseRoute
<1>2. first \in visited /\ visited \subseteq Customers /\ first \in 1 .. N
  BY <1>1, NAssumption, SMT DEF WalkInv, Here, TypeInv, Customers
<1>3. TypeInv'
  <2>1. first' \in 1 .. N + 1 /\ route' \in Seq(Customers)
    BY <1>1, <1>2, NAssumption, SMT
  <2> QED BY <1>1, <2>1 DEF TypeInv
<1>4. Entered' /\ Closed'
  <2>1. \A v \in visited : v < first \/ v = first => v < first'
    BY <1>1, <1>2, NAssumption, SMT DEF Customers
  <2> QED BY <1>1, <2>1 DEF WalkInv, Entered, Closed
<1>5. Begun'
  <2>1. \A h \in Customers : h < first' => h < first \/ h = first
    BY <1>1, <1>2, NAssumption, SMT DEF Customers
  <2> QED BY <1>1, <1>2, <2>1 DEF WalkInv, Begun
<1>6. Here' /\ HighsAdmits(instance, x)'
  BY <1>1 DEF WalkInv, Here
<1> QED
  BY <1>1, <1>3, <1>4, <1>5, <1>6 DEF IInv, WalkInv

LEMMA HighsReturnsHolds == IInv /\ HighsReturns => IInv'
<1> SUFFICES ASSUME IInv, HighsReturns PROVE IInv'
  OBVIOUS
<1>1. TypeInv /\ WalkInv /\ node = 0 /\ route = <<>> /\ first = N + 1
  BY DEF IInv, HighsReturns
<1>2. Cardinality(visited) = N
  BY <1>1, EveryoneServed
<1>3. phase' \in {"mismatch", "returned"}
  BY <1>2 DEF HighsReturns
<1> QED
  BY <1>1, <1>3 DEF IInv, TypeInv, HighsReturns, walk

LEMMA NextHolds == IInv /\ [Next]_vars => IInv'
<1> SUFFICES ASSUME IInv, [Next]_vars PROVE IInv'
  OBVIOUS
<1>1. CASE HighsSolves
  BY <1>1, HighsSolvesHolds
<1>2. CASE HighsProvesInfeasible
  BY <1>2, OffTheWalk DEF HighsProvesInfeasible
<1>3. CASE FindsNothing
  BY <1>3, OffTheWalk DEF FindsNothing
<1>4. CASE SkipFirst
  BY <1>4, SkipFirstHolds
<1>5. CASE StartRoute
  BY <1>5, StartRouteHolds
<1>6. CASE Visit
  BY <1>6, VisitHolds
<1>7. CASE CloseRoute
  BY <1>7, CloseRouteHolds
<1>8. CASE HighsReturns
  BY <1>8, HighsReturnsHolds
<1>9. CASE OtherReturns
  <2>1. phase' \in {"no_solution", "failed", "returned"}
    BY <1>9 DEF OtherReturns, Outcome
  <2> QED BY <1>9, <2>1, OffTheWalk DEF OtherReturns
<1>10. CASE Evaluate
  BY <1>10, OffTheWalk DEF Evaluate
<1>11. CASE UNCHANGED vars
  BY <1>11 DEF vars, walk, IInv, TypeInv, WalkInv, Entered, Closed, Begun, Here,
               Last1, HighsAdmits
<1> QED
  BY <1>1, <1>2, <1>3, <1>4, <1>5, <1>6, <1>7, <1>8, <1>9, <1>10, <1>11 DEF Next

(* The walk stays on the nodes and every outcome is one the code has.       *)
THEOREM CvrpTypes == Spec => []TypeInv
<1>1. IInv => TypeInv
  BY DEF IInv
<1> QED
  BY <1>1, InitHolds, NextHolds, PTL DEF Spec

(* Neither guard of _extract_routes, nor the count at its end, ever raises. *)
THEOREM ExtractionIsTotal == Spec => []ExtractionServesEveryone
<1>1. IInv => ExtractionServesEveryone
  BY DEF IInv, ExtractionServesEveryone
<1> QED
  BY <1>1, InitHolds, NextHolds, PTL DEF Spec
-----------------------------------------------------------------------------
(* The arcs of a route, one leg after another: from the depot to its first  *)
(* stop, from stop to stop, and back.                                       *)
Leg(r, k) == <<IF k = 1 THEN 0 ELSE r[k - 1], IF k = Len(r) + 1 THEN 0 ELSE r[k]>>
Legs(r) == 1 .. Len(r) + 1
RouteArcs(r) == {Leg(r, k) : k \in Legs(r)}
Trip(r) == r \in Seq(Customers) /\ r # <<>> /\ Distinct(r)
Routed(rs) ==
    /\ rs \in Seq(Seq(Customers)) /\ NoneTwice(rs)
    /\ \A k \in DOMAIN rs : rs[k] # <<>>

LEMMA CustomersAreNodes ==
    /\ Customers \subseteq Nodes /\ 0 \in Nodes /\ 0 \notin Customers
    /\ Customers \subseteq Nat /\ Nodes = Customers \cup {0}
    /\ IsFiniteSet(Customers) /\ IsFiniteSet(Nodes) /\ Cardinality(Customers) = N
<1>1. IsFiniteSet(1 .. N) /\ IsFiniteSet(0 .. N) /\ Cardinality(1 .. N) = N
  BY NAssumption, FS_Interval, SMT
<1> QED
  BY <1>1, NAssumption, SMT DEF Customers, Nodes

LEMMA TripFacts ==
    ASSUME NEW r, Trip(r)
    PROVE  /\ Len(r) \in Nat \ {0} /\ DOMAIN r = 1 .. Len(r)
           /\ \A k \in 1 .. Len(r) : r[k] \in Customers /\ r[k] \in Nodes /\ r[k] # 0
           /\ \A k, l \in 1 .. Len(r) : r[k] = r[l] => k = l
           /\ 1 \in 1 .. Len(r) /\ Len(r) \in 1 .. Len(r)
<1>1. /\ Len(r) \in Nat \ {0} /\ DOMAIN r = 1 .. Len(r)
      /\ \A k \in 1 .. Len(r) : r[k] \in Customers
  BY DEF Trip
<1>2. 1 \in 1 .. Len(r) /\ Len(r) \in 1 .. Len(r)
  BY <1>1, SMT
<1> QED
  BY <1>1, <1>2, CustomersAreNodes DEF Trip, Distinct

LEMMA RoutesAreTrips ==
    ASSUME NEW rs, Routed(rs)
    PROVE  /\ \A k \in DOMAIN rs : Trip(rs[k])
           /\ IsFiniteSet(DOMAIN rs) /\ Len(rs) \in Nat /\ DOMAIN rs = 1 .. Len(rs)
           /\ \A i, j \in DOMAIN rs : i # j =>
                 \A k \in DOMAIN rs[i] : \A l \in DOMAIN rs[j] : rs[i][k] # rs[j][l]
<1>1. Len(rs) \in Nat /\ DOMAIN rs = 1 .. Len(rs)
  BY DEF Routed
<1>2. IsFiniteSet(DOMAIN rs)
  BY <1>1, FS_Interval
<1>3. ASSUME NEW k \in DOMAIN rs PROVE Trip(rs[k])
  <2>1. rs[k] \in Seq(Customers) /\ rs[k] # <<>>
    BY DEF Routed
  <2>2. Distinct(rs[k])
    BY Zenon DEF Routed, NoneTwice, Distinct
  <2> QED BY <2>1, <2>2 DEF Trip
<1>4. \A i, j \in DOMAIN rs : i # j =>
         \A k \in DOMAIN rs[i] : \A l \in DOMAIN rs[j] : rs[i][k] # rs[j][l]
  BY Zenon DEF Routed, NoneTwice
<1> QED
  BY <1>1, <1>2, <1>3, <1>4

(* Each leg is an arc, no two legs are the same, and each has a stop at one *)
(* end or the other.                                                        *)
LEMMA LegFacts ==
    ASSUME NEW r, Trip(r), NEW k \in Legs(r)
    PROVE  /\ Leg(r, k) \in Arcs
           /\ k # 1 => k - 1 \in 1 .. Len(r) /\ Leg(r, k)[1] = r[k - 1]
           /\ k # Len(r) + 1 => k \in 1 .. Len(r) /\ Leg(r, k)[2] = r[k]
           /\ k = 1 => Leg(r, k)[1] = 0
           /\ k = Len(r) + 1 => Leg(r, k)[2] = 0
           /\ k # 1 \/ k # Len(r) + 1
<1>1. /\ k # 1 => k - 1 \in 1 .. Len(r)
      /\ k # Len(r) + 1 => k \in 1 .. Len(r)
      /\ k # 1 \/ k # Len(r) + 1
      /\ k - 1 # k
  BY TripFacts, SMT DEF Legs
<1>2. /\ k # 1 => k - 1 \in 1 .. Len(r) /\ Leg(r, k)[1] = r[k - 1]
      /\ k # Len(r) + 1 => k \in 1 .. Len(r) /\ Leg(r, k)[2] = r[k]
      /\ k = 1 => Leg(r, k)[1] = 0
      /\ k = Len(r) + 1 => Leg(r, k)[2] = 0
      /\ Leg(r, k) = <<Leg(r, k)[1], Leg(r, k)[2]>>
  BY <1>1 DEF Leg
<1>3. Leg(r, k)[1] \in Nodes /\ Leg(r, k)[2] \in Nodes /\ Leg(r, k)[1] # Leg(r, k)[2]
  BY <1>1, <1>2, TripFacts, CustomersAreNodes
<1> QED
  BY <1>1, <1>2, <1>3 DEF Arcs

LEMMA LegsApart ==
    ASSUME NEW r, Trip(r), NEW k \in Legs(r), NEW l \in Legs(r), Leg(r, k) = Leg(r, l)
    PROVE  k = l
<1>1. CASE k # 1
  <2>1. k - 1 \in 1 .. Len(r) /\ Leg(r, k)[1] = r[k - 1]
    BY <1>1, LegFacts
  <2>2. l # 1
    BY <2>1, LegFacts, TripFacts
  <2>3. l - 1 \in 1 .. Len(r) /\ Leg(r, l)[1] = r[l - 1]
    BY <2>2, LegFacts
  <2>4. k - 1 = l - 1
    BY <2>1, <2>3, TripFacts
  <2> QED BY <2>4, TripFacts, SMT DEF Legs
<1>2. CASE k = 1 /\ l # 1
  <2>1. l - 1 \in 1 .. Len(r) /\ Leg(r, l)[1] = r[l - 1] /\ Leg(r, k)[1] = 0
    BY <1>2, LegFacts
  <2> QED BY <2>1, TripFacts
<1> QED
  BY <1>1, <1>2

LEMMA RouteArcsFacts ==
    ASSUME NEW r, Trip(r)
    PROVE  /\ IsFiniteSet(RouteArcs(r)) /\ IsFiniteSet(Legs(r))
           /\ RouteArcs(r) \subseteq Arcs
           /\ [k \in Legs(r) |-> Leg(r, k)] \in Bijection(Legs(r), RouteArcs(r))
<1> DEFINE h == [k \in Legs(r) |-> Leg(r, k)]
<1>1. IsFiniteSet(Legs(r))
  BY TripFacts, FS_Interval DEF Legs
<1>2. h \in [Legs(r) -> RouteArcs(r)]
  BY DEF RouteArcs
<1>3. \A k, l \in Legs(r) : h[k] = h[l] => k = l
  BY LegsApart
<1>4. \A a \in RouteArcs(r) : \E k \in Legs(r) : h[k] = a
  BY DEF RouteArcs
<1> HIDE DEF h
<1>5. h \in Bijection(Legs(r), RouteArcs(r))
  BY <1>2, <1>3, <1>4 DEF Bijection, Injection, Surjection, IsInjective
<1>6. IsFiniteSet(RouteArcs(r))
  BY <1>1, <1>5, FS_Surjection DEF Bijection
<1>7. RouteArcs(r) \subseteq Arcs
  BY LegFacts DEF RouteArcs
<1> QED
  BY <1>1, <1>5, <1>6, <1>7 DEF h

(* get_distance is the weight of the arcs of a route.                       *)
LEMMA DistanceIsArcs ==
    ASSUME NEW i \in Instances, NEW r, Trip(r)
    PROVE  /\ GetDistance(i, r) = SumFunctionOnSet(i.edge_weight, RouteArcs(r))
           /\ \A a \in Arcs : i.edge_weight[a] \in Nat
<1> DEFINE w == i.edge_weight
           n == Len(r)
           d == [k \in DOMAIN r |-> w[<<IF k = 1 THEN 0 ELSE r[k - 1], r[k]>>]]
           e == [k \in Legs(r) |-> w[Leg(r, k)]]
<1>1. \A a \in Arcs : w[a] \in Nat
  BY InstancesAssumption DEF Arcs
<1>2. n \in Nat \ {0} /\ DOMAIN r = 1 .. n /\ r # <<>>
  BY TripFacts DEF Trip
<1>3. /\ GetDistance(i, r) = SumFunctionOnSet(d, 1 .. n) + w[<<r[n], 0>>]
  BY <1>2 DEF GetDistance, SumFunction
<1>4. \A k \in Legs(r) : e[k] \in Nat /\ e[k] = w[Leg(r, k)]
  BY <1>1, LegFacts
<1>5. \A k \in 1 .. n : k \in Legs(r) /\ k # n + 1
  BY <1>2, SMT DEF Legs
<1>6. n + 1 \in Legs(r) /\ n + 1 # 1 /\ (n + 1) - 1 = n /\ n + 1 \notin 1 .. n
      /\ Legs(r) = (1 .. n) \cup {n + 1}
  BY <1>2, SMT DEF Legs
<1>7. \A k \in 1 .. n : d[k] = e[k]
  BY <1>2, <1>5 DEF Leg
<1>8. e[n + 1] = w[<<r[n], 0>>]
  <2>1. Leg(r, n + 1) = <<r[(n + 1) - 1], 0>>
    BY <1>6 DEF Leg
  <2> QED BY <1>4, <1>6, <2>1
<1>9. IsFiniteSet(1 .. n)
  BY <1>2, FS_Interval
<1> HIDE DEF d, e, w, n
<1>10. SumFunctionOnSet(e, Legs(r)) = SumFunctionOnSet(e, 1 .. n) + e[n + 1]
  <2>1. \A y \in (1 .. n) \cup {n + 1} : e[y] \in Nat
    BY <1>4, <1>6
  <2>2. SumFunctionOnSet(e, (1 .. n) \cup {n + 1}) = SumFunctionOnSet(e, 1 .. n) + e[n + 1]
    BY <1>6, <1>9, <2>1, SumWithOneMore
  <2> QED BY <1>6, <2>2
<1>11. SumFunctionOnSet(e, 1 .. n) = SumFunctionOnSet(d, 1 .. n)
  BY <1>4, <1>5, <1>7, <1>9, SumOfSame
<1>12. SumFunctionOnSet(e, Legs(r)) = SumFunctionOnSet(w, RouteArcs(r))
  <2> DEFINE h == [k \in Legs(r) |-> Leg(r, k)]
  <2>1. h \in Bijection(Legs(r), RouteArcs(r)) /\ IsFiniteSet(Legs(r))
    BY RouteArcsFacts
  <2>2. \A k \in Legs(r) : w[h[k]] = e[k]
    BY <1>4
  <2>3. \A k \in Legs(r) : e[k] \in Nat
    BY <1>4
  <2> HIDE DEF h
  <2> QED BY <2>1, <2>2, <2>3, SumRenamed
<1> QED
  BY <1>1, <1>3, <1>8, <1>10, <1>11, <1>12 DEF w

LEMMA ArcsOfRoutes ==
    ASSUME NEW rs, Routed(rs)
    PROVE  ArcsOf(rs) = Blocks([k \in DOMAIN rs |-> RouteArcs(rs[k])], DOMAIN rs)
<1>1. ASSUME NEW r, Trip(r)
      PROVE  RouteArcs(r) = {<<0, r[1]>>, <<r[Len(r)], 0>>}
                \cup {<<r[k], r[k + 1]>> : k \in 1 .. Len(r) - 1}
  <2> DEFINE n == Len(r)
             A == {<<0, r[1]>>, <<r[n], 0>>} \cup {<<r[k], r[k + 1]>> : k \in 1 .. n - 1}
  <2>1. n \in Nat \ {0}
    BY <1>1, TripFacts
  <2> HIDE DEF n
  <2>2. Leg(r, 1) = <<0, r[1]>> /\ 1 \in Legs(r)
    BY <2>1 DEF Leg, Legs, n
  <2>3. Leg(r, n + 1) = <<r[n], 0>> /\ n + 1 \in Legs(r)
    <3>1. n + 1 # 1 /\ (n + 1) - 1 = n
      BY <2>1, SMT
    <3> QED BY <2>1, <3>1 DEF Leg, Legs, n
  <2>4. \A k \in 1 .. n - 1 : Leg(r, k + 1) = <<r[k], r[k + 1]>> /\ k + 1 \in Legs(r)
    <3> SUFFICES ASSUME NEW k \in 1 .. n - 1
                 PROVE  Leg(r, k + 1) = <<r[k], r[k + 1]>> /\ k + 1 \in Legs(r)
      OBVIOUS
    <3>1. k + 1 # 1 /\ k + 1 # n + 1 /\ (k + 1) - 1 = k /\ k + 1 \in 1 .. n + 1
      BY <2>1, SMT
    <3> QED BY <3>1 DEF Leg, Legs, n
  <2>5. \A k \in Legs(r) : k = 1 \/ k = n + 1 \/ \E l \in 1 .. n - 1 : k = l + 1
    <3> SUFFICES ASSUME NEW k \in Legs(r), k # 1, k # n + 1
                 PROVE  \E l \in 1 .. n - 1 : k = l + 1
      OBVIOUS
    <3>1. k - 1 \in 1 .. n - 1 /\ k = (k - 1) + 1
      BY <2>1, SMT DEF Legs, n
    <3> QED BY <3>1
  <2>6. RouteArcs(r) \subseteq A
    <3> SUFFICES ASSUME NEW k \in Legs(r) PROVE Leg(r, k) \in A
      BY DEF RouteArcs
    <3> QED BY <2>2, <2>3, <2>4, <2>5
  <2>7. A \subseteq RouteArcs(r)
    BY <2>2, <2>3, <2>4 DEF RouteArcs
  <2> QED BY <2>6, <2>7 DEF n
<1>2. ArcsOf(rs) = UNION {RouteArcs(rs[k]) : k \in DOMAIN rs}
  <2>1. \A k \in DOMAIN rs :
           RouteArcs(rs[k]) = {<<0, rs[k][1]>>, <<rs[k][Len(rs[k])], 0>>}
              \cup {<<rs[k][l], rs[k][l + 1]>> : l \in 1 .. Len(rs[k]) - 1}
    BY <1>1, RoutesAreTrips
  <2> QED BY <2>1 DEF ArcsOf
<1> QED
  BY <1>2 DEF Blocks

LEMMA RoutesShareNoArc ==
    ASSUME NEW rs, Routed(rs), NEW i \in DOMAIN rs, NEW j \in DOMAIN rs, i # j
    PROVE  RouteArcs(rs[i]) \cap RouteArcs(rs[j]) = {}
<1> SUFFICES ASSUME NEW k \in Legs(rs[i]), NEW l \in Legs(rs[j]),
                    Leg(rs[i], k) = Leg(rs[j], l)
             PROVE  FALSE
  BY DEF RouteArcs
<1>1. Trip(rs[i]) /\ Trip(rs[j])
  BY RoutesAreTrips
<1>2. \A m \in 1 .. Len(rs[i]) : \A n \in 1 .. Len(rs[j]) : rs[i][m] # rs[j][n]
  BY <1>1, RoutesAreTrips, TripFacts
<1>3. CASE k # 1
  <2>1. k - 1 \in 1 .. Len(rs[i]) /\ Leg(rs[i], k)[1] = rs[i][k - 1]
    BY <1>1, <1>3, LegFacts
  <2>2. l # 1
    BY <1>1, <2>1, LegFacts, TripFacts
  <2>3. l - 1 \in 1 .. Len(rs[j]) /\ Leg(rs[j], l)[1] = rs[j][l - 1]
    BY <1>1, <2>2, LegFacts
  <2> QED BY <1>2, <2>1, <2>3
<1>4. CASE k # Len(rs[i]) + 1
  <2>1. k \in 1 .. Len(rs[i]) /\ Leg(rs[i], k)[2] = rs[i][k]
    BY <1>1, <1>4, LegFacts
  <2>2. l # Len(rs[j]) + 1
    BY <1>1, <2>1, LegFacts, TripFacts
  <2>3. l \in 1 .. Len(rs[j]) /\ Leg(rs[j], l)[2] = rs[j][l]
    BY <1>1, <2>2, LegFacts
  <2> QED BY <1>2, <2>1, <2>3
<1> QED
  BY <1>1, <1>3, <1>4, LegFacts

(* calculate_cost is HiGHS's objective over the arcs of the routes.         *)
LEMMA CostIsArcs ==
    ASSUME NEW i \in Instances, NEW rs, Routed(rs)
    PROVE  /\ CalculateCost(i, rs) = Objective(i, ArcsOf(rs))
           /\ IsFiniteSet(ArcsOf(rs)) /\ ArcsOf(rs) \subseteq Arcs
<1> DEFINE B == [k \in DOMAIN rs |-> RouteArcs(rs[k])]
           F == [k \in DOMAIN rs |-> GetDistance(i, rs[k])]
           I == DOMAIN rs
<1>1. IsFiniteSet(I) /\ \A k \in I : Trip(rs[k])
  BY RoutesAreTrips
<1>2. \A k \in I : B[k] = RouteArcs(rs[k]) /\ IsFiniteSet(B[k]) /\ B[k] \subseteq Arcs
  BY <1>1, RouteArcsFacts
<1>3. \A k, l \in I : k # l => B[k] \cap B[l] = {}
  BY <1>2, RoutesShareNoArc
<1>4. \A k \in I : \A a \in B[k] : i.edge_weight[a] \in Nat
  BY <1>1, <1>2, DistanceIsArcs
<1>5. \A k \in I : F[k] = SumFunctionOnSet(i.edge_weight, B[k])
  BY <1>1, DistanceIsArcs
<1>6. ArcsOf(rs) = Blocks(B, I)
  BY ArcsOfRoutes
<1>7. CalculateCost(i, rs) = SumFunctionOnSet(F, I)
  BY DEF CalculateCost, SumFunction
<1> HIDE DEF B, F, I
<1>8. /\ IsFiniteSet(Blocks(B, I))
      /\ SumFunctionOnSet(F, I) = SumFunctionOnSet(i.edge_weight, Blocks(B, I))
  BY <1>1, <1>2, <1>3, <1>4, <1>5, SumOfBlocks
<1>9. Blocks(B, I) \subseteq Arcs
  BY <1>2 DEF Blocks
<1> QED
  BY <1>6, <1>7, <1>8, <1>9 DEF Objective

LEMMA CostIsNatural ==
    ASSUME NEW i \in Instances, NEW rs, Routed(rs)
    PROVE  CalculateCost(i, rs) \in Nat
<1>1. \A a \in ArcsOf(rs) : i.edge_weight[a] \in Nat
  BY CostIsArcs, InstancesAssumption DEF Arcs
<1> QED
  BY <1>1, CostIsArcs, SumType DEF Objective

-----------------------------------------------------------------------------
(* What the validator looks at, for routes that stop at customers, each     *)
(* somewhere and none of them twice.                                        *)
StopsAt(rs, c) == \E r \in DOMAIN rs : \E k \in DOMAIN rs[r] : rs[r][k] = c

LEMMA StopsFacts ==
    ASSUME NEW rs, Routed(rs)
    PROVE  /\ ~ WrongVisit(rs)
           /\ Incomplete(rs) <=> \E c \in Customers : ~ StopsAt(rs, c)
<1>1. rs \in Seq(Seq(Customers)) /\ NoneTwice(rs)
  BY DEF Routed
<1>2. /\ IsInjective(Stops(rs)) /\ \A p \in DOMAIN Stops(rs) : Stops(rs)[p] \in Customers
      /\ \A c : StopsAt(rs, c) <=> \E p \in DOMAIN Stops(rs) : Stops(rs)[p] = c
  <2>1. CASE Len(rs) = 0
    <3>1. rs = <<>> /\ Stops(rs) = rs
      BY <1>1, <2>1 DEF Stops, FlattenSeq
    <3>2. DOMAIN rs = {}
      BY <3>1
    <3> QED BY <3>1, <3>2 DEF IsInjective, StopsAt
  <2>2. CASE Len(rs) # 0
    <3>1. Stops(rs) \in Seq(Customers) /\ Distinct(Stops(rs))
      BY <1>1, <2>2, FlattenFacts, FlattenHolds DEF Stops
    <3>2. \A i \in DOMAIN rs : \A k \in DOMAIN rs[i] :
             \E p \in DOMAIN Stops(rs) : Stops(rs)[p] = rs[i][k]
      BY <1>1, <2>2, FlattenHolds DEF Stops
    <3>3. \A p \in DOMAIN Stops(rs) : \E i \in DOMAIN rs : \E k \in DOMAIN rs[i] :
             Stops(rs)[p] = rs[i][k]
      BY <1>1, <2>2, FlattenHolds DEF Stops
    <3>4. \A c : StopsAt(rs, c) <=> \E p \in DOMAIN Stops(rs) : Stops(rs)[p] = c
      <4> SUFFICES ASSUME NEW c
                   PROVE  StopsAt(rs, c) <=> \E p \in DOMAIN Stops(rs) : Stops(rs)[p] = c
        OBVIOUS
      <4>1. ASSUME StopsAt(rs, c) PROVE \E p \in DOMAIN Stops(rs) : Stops(rs)[p] = c
        <5>1. PICK i \in DOMAIN rs : \E k \in DOMAIN rs[i] : rs[i][k] = c
          BY <4>1 DEF StopsAt
        <5>2. PICK k \in DOMAIN rs[i] : rs[i][k] = c
          BY <5>1
        <5> QED BY <3>2, <5>2
      <4>2. ASSUME NEW p \in DOMAIN Stops(rs), Stops(rs)[p] = c PROVE StopsAt(rs, c)
        <5>1. PICK i \in DOMAIN rs : \E k \in DOMAIN rs[i] : Stops(rs)[p] = rs[i][k]
          BY <3>3
        <5> QED BY <4>2, <5>1 DEF StopsAt
      <4> QED BY <4>1, <4>2
    <3>5. IsInjective(Stops(rs))
      BY <3>1, Zenon DEF IsInjective, Distinct
    <3> QED BY <3>1, <3>4, <3>5
  <2> QED BY <2>1, <2>2
<1>3. \A c : c \in Range(Stops(rs)) <=> StopsAt(rs, c)
  BY <1>2 DEF Range
<1> QED
  BY <1>2, <1>3 DEF WrongVisit, Incomplete

LEMMA VisitsFacts ==
    ASSUME NEW rs, Routed(rs), NEW c
    PROVE  Cardinality(VisitsOf(rs, c)) = 1 <=> StopsAt(rs, c)
<1>1. \A p : p \in VisitsOf(rs, c)
         <=> \E r \in DOMAIN rs : \E k \in DOMAIN rs[r] : p = <<r, k>> /\ rs[r][k] = c
  BY DEF VisitsOf, Places
<1>2. ASSUME StopsAt(rs, c) PROVE Cardinality(VisitsOf(rs, c)) = 1
  <2>1. PICK r \in DOMAIN rs : \E k \in DOMAIN rs[r] : rs[r][k] = c
    BY <1>2 DEF StopsAt
  <2>2. PICK k \in DOMAIN rs[r] : rs[r][k] = c
    BY <2>1
  <2>3. ASSUME NEW q \in DOMAIN rs, NEW l \in DOMAIN rs[q], rs[q][l] = c
        PROVE  q = r /\ l = k
    <3>1. rs[q][l] = rs[r][k]
      BY <2>2, <2>3
    <3> QED BY <3>1, Zenon DEF Routed, NoneTwice
  <2>4. VisitsOf(rs, c) = {<<r, k>>}
    BY <1>1, <2>2, <2>3
  <2> QED BY <2>4, FS_Singleton
<1>3. ASSUME ~ StopsAt(rs, c) PROVE Cardinality(VisitsOf(rs, c)) # 1
  <2>1. VisitsOf(rs, c) = {}
    BY <1>1, <1>3 DEF StopsAt
  <2> QED BY <2>1, FS_EmptySet
<1> QED
  BY <1>2, <1>3

LEMMA LoadIsStops ==
    ASSUME NEW i \in Instances, NEW r, Trip(r)
    PROVE  /\ GetLoad(i, r) = SumFunctionOnSet(i.demand, Range(r))
           /\ GetLoad(i, r) \in Nat
           /\ Range(r) \subseteq Customers /\ IsFiniteSet(Range(r))
           /\ \A c \in Customers : i.demand[c] \in Nat
<1> DEFINE d == [k \in DOMAIN r |-> i.demand[r[k]]]
<1>1. /\ DOMAIN r = 1 .. Len(r) /\ Len(r) \in Nat
      /\ \A k \in DOMAIN r : r[k] \in Customers
      /\ \A k, l \in DOMAIN r : r[k] = r[l] => k = l
  BY TripFacts
<1>2. \A c \in Customers : i.demand[c] \in Nat
  BY InstancesAssumption
<1>3. IsFiniteSet(DOMAIN r)
  BY <1>1, FS_Interval
<1>4. \A k \in DOMAIN r : d[k] \in Nat /\ i.demand[r[k]] = d[k]
  BY <1>1, <1>2
<1>5. r \in Bijection(DOMAIN r, Range(r))
  <2>1. r \in [DOMAIN r -> Range(r)]
    <3>1. r \in Seq(Customers)
      BY DEF Trip
    <3>2. r = [k \in DOMAIN r |-> r[k]]
      BY <3>1
    <3> QED BY <3>2 DEF Range
  <2>2. \A y \in Range(r) : \E k \in DOMAIN r : r[k] = y
    BY DEF Range
  <2> QED BY <1>1, <2>1, <2>2 DEF Bijection, Injection, Surjection, IsInjective
<1>6. GetLoad(i, r) = SumFunctionOnSet(d, DOMAIN r)
  BY DEF GetLoad, SumFunction
<1> HIDE DEF d
<1>7. SumFunctionOnSet(d, DOMAIN r) = SumFunctionOnSet(i.demand, Range(r))
  BY <1>3, <1>4, <1>5, SumRenamed
<1>8. SumFunctionOnSet(d, DOMAIN r) \in Nat
  BY <1>3, <1>4, SumType
<1>9. Range(r) \subseteq Customers
  BY <1>1 DEF Range
<1> QED
  BY <1>2, <1>6, <1>7, <1>8, <1>9, CustomersAreNodes, FS_Subset

LEMMA ServesIs ==
    ASSUME NEW i \in Instances, NEW rs, Routed(rs)
    PROVE  Serves(i, rs) <=> ~ Incomplete(rs) /\ ~ Overloaded(i, rs)
<1>1. \A r \in DOMAIN rs : /\ Range(rs[r]) \subseteq Customers
                           /\ GetLoad(i, rs[r]) = SumFunctionOnSet(i.demand, Range(rs[r]))
                           /\ GetLoad(i, rs[r]) \in Nat
  BY RoutesAreTrips, LoadIsStops
<1>2. (\A c \in Customers : Cardinality(VisitsOf(rs, c)) = 1) <=> ~ Incomplete(rs)
  BY VisitsFacts, StopsFacts
<1>3. i.capacity \in Nat
  BY InstancesAssumption
<1>4. (\A r \in DOMAIN rs : SumFunctionOnSet(i.demand, Range(rs[r])) <= i.capacity)
         <=> ~ Overloaded(i, rs)
  BY <1>1, <1>3 DEF Overloaded
<1> QED
  BY <1>1, <1>2, <1>4 DEF Serves

(* With the cost it recomputes, validate accepts exactly a service.         *)
LEMMA ValidateIsService ==
    ASSUME NEW i \in Instances, NEW rs, Routed(rs)
    PROVE  Validate(i, rs, CalculateCost(i, rs)) = "None" <=> Serves(i, rs)
<1>1. ~ WrongVisit(rs)
  BY StopsFacts
<1>2. Validate(i, rs, CalculateCost(i, rs)) = "None"
         <=> ~ Incomplete(rs) /\ ~ Overloaded(i, rs)
  BY <1>1 DEF Validate
<1> QED
  BY <1>2, ServesIs

-----------------------------------------------------------------------------
(* Routes cut out of an order.                                              *)
LEMMA EndsGrow ==
    ASSUME NEW n \in Nat, NEW m \in Nat, NEW e \in Ends(n, m),
           NEW a \in 0 .. m, NEW b \in 0 .. m, a <= b
    PROVE  e[a] <= e[b]
<1> DEFINE Bad == {c \in Nat : c \in 0 .. m /\ a <= c /\ ~ (e[a] <= e[c])}
<1> SUFFICES ASSUME Bad # {} PROVE FALSE
  BY SMT
<1>1. PICK c \in Bad : \A d \in Bad : c <= d
  BY LeastNatural
<1>2. /\ e \in [0 .. m -> 0 .. n] /\ \A r \in 1 .. m : e[r - 1] < e[r]
  BY DEF Ends
<1>3. e[a] \in Nat /\ e[c] \in Nat /\ c # a
  BY <1>2, SMT
<1>4. c \in 1 .. m /\ c - 1 \in 0 .. m /\ a <= c - 1 /\ c - 1 \in Nat /\ ~ (c <= c - 1)
  BY <1>3, SMT
<1>5. e[c - 1] \in Nat /\ e[c - 1] < e[c]
  BY <1>2, <1>4, SMT
<1>6. c - 1 \notin Bad
  <2> HIDE DEF Bad
  <2> QED BY <1>1, <1>4
<1>7. e[a] <= e[c - 1]
  BY <1>4, <1>6
<1> QED
  BY <1>3, <1>5, <1>7, SMT

LEMMA CutIsRouted ==
    ASSUME NEW S \in SUBSET Customers, NEW rs \in RouteLists(S)
    PROVE  Routed(rs) /\ Len(rs) <= N
<1> DEFINE n == Cardinality(S)
<1>1. PICK m \in 0 .. n : rs \in {Cut(p, e, m) : p \in Orders(S), e \in Ends(n, m)}
  BY DEF RouteLists
<1>2. PICK p \in Orders(S), e \in Ends(n, m) : rs = Cut(p, e, m)
  BY <1>1
<1>3. n \in Nat /\ n <= N
  BY CustomersAreNodes, FS_Subset, FS_CardinalityType
<1> HIDE DEF n
<1>4. m \in Nat /\ m <= n
  BY <1>3, SMT
<1>5. /\ p \in [1 .. n -> S] /\ \A a, b \in 1 .. n : p[a] = p[b] => a = b
  BY Zenon DEF Orders, IsInjective, n
<1>6. /\ e \in [0 .. m -> 0 .. n] /\ \A r \in 1 .. m : e[r - 1] < e[r]
  BY DEF Ends
<1>7. /\ rs = [r \in 1 .. m |-> SubSeq(p, e[r - 1] + 1, e[r])]
  BY <1>2 DEF Cut
<1>8. p \in Seq(Customers) /\ Len(p) = n
  <2>1. p \in Seq(S) /\ Len(p) = n
    BY <1>3, <1>5
  <2> QED BY <2>1
<1>9. ASSUME NEW r \in 1 .. m
      PROVE  /\ e[r - 1] \in 0 .. n /\ e[r] \in 0 .. n /\ e[r - 1] < e[r]
             /\ rs[r] \in Seq(Customers)
             /\ DOMAIN rs[r] = 1 .. e[r] - e[r - 1]
             /\ \A k \in DOMAIN rs[r] : /\ rs[r][k] = p[e[r - 1] + k]
                                        /\ e[r - 1] + k \in 1 .. n
  <2>1. r - 1 \in 0 .. m /\ r \in 0 .. m
    BY <1>4, SMT
  <2>2. e[r - 1] \in 0 .. n /\ e[r] \in 0 .. n /\ e[r - 1] < e[r]
    BY <1>6, <2>1
  <2> DEFINE a == e[r - 1]
             b == e[r]
  <2>3. rs[r] = SubSeq(p, a + 1, b)
    BY <1>7
  <2> HIDE DEF a, b
  <2>4. a \in Nat /\ b \in Nat /\ a < b /\ b <= n
    BY <1>3, <2>2, SMT DEF a, b
  <2>5. SubSeq(p, a + 1, b) = [k \in 1 .. b - a |-> p[k + a]]
    <3>1. b - (a + 1) + 1 = b - a
      BY <2>4, SMT
    <3>2. \A k \in 1 .. b - a : k + (a + 1) - 1 = k + a
      BY <2>4, SMT
    <3> QED BY <1>8, <2>4, <3>1, <3>2
  <2>6. \A k \in 1 .. b - a : k + a \in 1 .. n /\ a + k = k + a /\ p[k + a] \in Customers
    <3>1. \A k \in 1 .. b - a : k + a \in 1 .. n /\ a + k = k + a
      BY <1>3, <2>4, SMT
    <3> QED BY <1>5, <3>1
  <2>7. b - a \in Nat
    BY <2>4, SMT
  <2> DEFINE s == [k \in 1 .. b - a |-> p[k + a]]
  <2>8. s \in Seq(Customers) /\ DOMAIN s = 1 .. b - a
        /\ \A k \in 1 .. b - a : s[k] = p[a + k]
    BY <2>6, <2>7
  <2> HIDE DEF s
  <2>9. rs[r] = s
    BY <2>3, <2>5 DEF s
  <2> QED BY <2>2, <2>6, <2>8, <2>9 DEF a, b
<1>10. rs \in Seq(Seq(Customers)) /\ DOMAIN rs = 1 .. m /\ Len(rs) = m
  <2>1. DOMAIN rs = 1 .. m
    BY <1>7
  <2>2. rs = [r \in 1 .. m |-> rs[r]]
    BY <1>7
  <2>3. \A r \in 1 .. m : rs[r] \in Seq(Customers)
    BY <1>9
  <2> QED BY <1>4, <2>1, <2>2, <2>3
<1>11. ASSUME NEW r \in 1 .. m PROVE rs[r] # <<>>
  <2>1. 1 \in DOMAIN rs[r]
    <3>1. 1 \in 1 .. e[r] - e[r - 1]
      BY <1>3, <1>9, SMT
    <3> QED BY <1>9, <3>1
  <2> QED BY <2>1
<1>12. ASSUME NEW q \in 1 .. m, NEW r \in 1 .. m, q < r
       PROVE  e[q] <= e[r - 1]
  <2>1. q \in 0 .. m /\ r - 1 \in 0 .. m /\ q <= r - 1
    BY <1>4, <1>12, SMT
  <2> QED BY <1>3, <1>4, <2>1, EndsGrow
<1>13. NoneTwice(rs)
  <2> SUFFICES ASSUME NEW q \in 1 .. m, NEW r \in 1 .. m,
                      NEW k \in DOMAIN rs[q], NEW l \in DOMAIN rs[r],
                      rs[q][k] = rs[r][l]
               PROVE  q = r /\ k = l
    BY <1>10 DEF NoneTwice
  <2>1. e[q - 1] + k = e[r - 1] + l
    <3>1. /\ rs[q][k] = p[e[q - 1] + k] /\ rs[r][l] = p[e[r - 1] + l]
          /\ e[q - 1] + k \in 1 .. n /\ e[r - 1] + l \in 1 .. n
      BY <1>9
    <3> QED BY <1>5, <3>1
  <2>2. /\ e[q - 1] \in 0 .. n /\ e[q] \in 0 .. n /\ e[r - 1] \in 0 .. n /\ e[r] \in 0 .. n
        /\ k \in 1 .. e[q] - e[q - 1] /\ l \in 1 .. e[r] - e[r - 1]
    BY <1>9
  <2>3. ~ (q < r)
    BY <1>3, <1>12, <2>1, <2>2, SMT
  <2>4. ~ (r < q)
    BY <1>3, <1>12, <2>1, <2>2, SMT
  <2>5. q = r
    BY <1>4, <2>3, <2>4, SMT
  <2> QED BY <1>3, <2>1, <2>2, <2>5, SMT
<1>14. Len(rs) <= N
  BY <1>3, <1>4, <1>10, NAssumption, SMT
<1> QED
  BY <1>10, <1>11, <1>13, <1>14 DEF Routed
-----------------------------------------------------------------------------
(* The arcs HiGHS may choose are those of the services, and no others.      *)
Asked(i, r) == [k \in DOMAIN r |-> i.demand[r[k]]]

LEMMA AskedFacts ==
    ASSUME NEW i \in Instances, NEW r, Trip(r)
    PROVE  /\ \A k \in 1 .. Len(r) : /\ Asked(i, r)[k] = i.demand[r[k]]
                                     /\ Asked(i, r)[k] \in Nat
           /\ GetLoad(i, r) = SumFunctionOnSet(Asked(i, r), 1 .. Len(r))
<1>1. DOMAIN r = 1 .. Len(r) /\ \A k \in 1 .. Len(r) : r[k] \in Customers
  BY TripFacts
<1>2. \A k \in 1 .. Len(r) : /\ Asked(i, r)[k] = i.demand[r[k]]
                             /\ Asked(i, r)[k] \in Nat
  BY <1>1, InstancesAssumption DEF Asked
<1>3. GetLoad(i, r) = SumFunctionOnSet(Asked(i, r), 1 .. Len(r))
  BY <1>1 DEF GetLoad, SumFunction, Asked
<1> QED
  BY <1>2, <1>3

LEMMA NextLeg ==
    ASSUME NEW r, Trip(r), NEW k \in 1 .. Len(r)
    PROVE  /\ k \in Legs(r) /\ k + 1 \in Legs(r)
           /\ Leg(r, k) \in Nodes \X {r[k]} /\ Leg(r, k + 1) \in {r[k]} \X Nodes
<1>1. /\ k \in Legs(r) /\ k + 1 \in Legs(r) /\ k # Len(r) + 1 /\ k + 1 # 1
      /\ (k + 1) - 1 = k
  BY TripFacts, SMT DEF Legs
<1>2. Leg(r, k) \in Arcs /\ Leg(r, k)[2] = r[k]
  BY <1>1, LegFacts
<1>3. Leg(r, k + 1) \in Arcs /\ Leg(r, k + 1)[1] = r[k]
  BY <1>1, LegFacts
<1> QED
  BY <1>1, <1>2, <1>3 DEF Arcs

(* The load that leaves the depot is that of the stops, and what is left.   *)
LEMMA LoadFits ==
    ASSUME NEW i \in Instances, NEW s, HighsAdmits(i, s), NEW r, Trip(r),
           RouteArcs(r) \subseteq s
    PROVE  GetLoad(i, r) <= i.capacity
<1> DEFINE n == Len(r)
           d == Asked(i, r)
           L(k) == SumFunctionOnSet(d, 1 .. k)
<1>1. PICK f \in [s -> 0 .. i.capacity] : ConservationRows(i, s, f)
  BY DEF HighsAdmits, Flows
<1>2. n \in Nat \ {0} /\ i.capacity \in Nat
  BY TripFacts, InstancesAssumption
<1>3. \A k \in 1 .. n : d[k] \in Nat /\ d[k] = i.demand[r[k]]
  BY AskedFacts
<1>4. \A k \in Legs(r) : Leg(r, k) \in s /\ f[Leg(r, k)] \in 0 .. i.capacity
  BY <1>1 DEF RouteArcs
<1>5. ASSUME NEW k \in 1 .. n
      PROVE  f[Leg(r, k)] = d[k] + f[Leg(r, k + 1)]
  <2>1. /\ Leg(r, k) \in s \cap (Nodes \X {r[k]})
        /\ Leg(r, k + 1) \in s \cap ({r[k]} \X Nodes)
        /\ f[Leg(r, k)] \in 0 .. i.capacity /\ f[Leg(r, k + 1)] \in 0 .. i.capacity
    BY <1>4, NextLeg
  <2>2. r[k] \in Customers
    BY TripFacts
  <2>3. f[Leg(r, k)] - f[Leg(r, k + 1)] = i.demand[r[k]]
    BY <1>1, <2>1, <2>2 DEF ConservationRows
  <2>4. d[k] \in Nat /\ d[k] = i.demand[r[k]]
    BY <1>3
  <2> HIDE DEF d, n
  <2> QED BY <1>2, <2>1, <2>3, <2>4, SMT
<1>6. \A k \in 0 .. n : IsFiniteSet(1 .. k) /\ \A l \in 1 .. k : l \in 1 .. n
  BY <1>2, FS_Interval, SMT
<1> HIDE DEF d, n
<1>7. \A k \in 0 .. n : L(k) \in Nat
  BY <1>3, <1>6, SumType
<1> DEFINE Bad == {k \in Nat : k \in 0 .. n /\ f[Leg(r, 1)] # L(k) + f[Leg(r, k + 1)]}
<1>8. Bad = {}
  <2> SUFFICES ASSUME Bad # {} PROVE FALSE
    OBVIOUS
  <2>1. PICK k \in Bad : \A l \in Bad : k <= l
    BY LeastNatural
  <2>2. k \in 0 .. n /\ f[Leg(r, 1)] # L(k) + f[Leg(r, k + 1)]
    OBVIOUS
  <2>3. k # 0
    <3> SUFFICES ASSUME k = 0 PROVE FALSE
      OBVIOUS
    <3>1. 1 .. 0 = {} /\ 0 + 1 = 1 /\ 1 \in Legs(r)
      BY <1>2, SMT DEF Legs, n
    <3>2. L(0) = 0
      BY <3>1, SumOfNone
    <3>3. f[Leg(r, 1)] \in 0 .. i.capacity
      BY <1>4, <3>1
    <3> HIDE DEF L
    <3>4. f[Leg(r, 1)] # 0 + f[Leg(r, 0 + 1)]
      BY <2>2, <3>2
    <3> QED BY <1>2, <3>1, <3>3, <3>4, SMT
  <2>4. /\ k \in 1 .. n /\ k - 1 \in 0 .. n /\ k - 1 \in Nat /\ ~ (k <= k - 1)
        /\ (k - 1) + 1 = k /\ k \notin 1 .. k - 1 /\ 1 .. k = (1 .. k - 1) \cup {k}
    BY <1>2, <2>2, <2>3, SMT
  <2>5. f[Leg(r, 1)] = L(k - 1) + f[Leg(r, k)]
    <3>1. k - 1 \notin Bad
      BY <2>1, <2>4
    <3> QED BY <2>4, <3>1
  <2>6. L(k) = L(k - 1) + d[k]
    <3>1. \A y \in (1 .. k - 1) \cup {k} : d[y] \in Nat
      BY <1>3, <1>6, <2>2, <2>4
    <3>2. SumFunctionOnSet(d, (1 .. k - 1) \cup {k}) = SumFunctionOnSet(d, 1 .. k - 1) + d[k]
      BY <1>6, <2>4, <3>1, SumWithOneMore
    <3> QED BY <2>4, <3>2
  <2>7. f[Leg(r, k)] = d[k] + f[Leg(r, k + 1)] /\ d[k] \in Nat
    BY <1>3, <1>5, <2>4
  <2>8. k \in Legs(r) /\ k + 1 \in Legs(r)
    BY <1>2, <2>4, SMT DEF Legs, n
  <2>9. f[Leg(r, k + 1)] \in Nat /\ L(k - 1) \in Nat
    BY <1>4, <1>7, <2>4, <2>8
  <2> HIDE DEF L
  <2> QED BY <2>2, <2>5, <2>6, <2>7, <2>9, SMT
<1>9. f[Leg(r, 1)] = L(n) + f[Leg(r, n + 1)]
  BY <1>2, <1>8, SMT
<1>10. 1 \in Legs(r) /\ n + 1 \in Legs(r) /\ n \in 0 .. n
  BY <1>2, SMT DEF Legs, n
<1>11. f[Leg(r, 1)] \in 0 .. i.capacity /\ f[Leg(r, n + 1)] \in 0 .. i.capacity
       /\ L(n) \in Nat
  BY <1>4, <1>7, <1>10
<1>12. GetLoad(i, r) = L(n)
  BY AskedFacts DEF d, n
<1> HIDE DEF L
<1> QED
  BY <1>2, <1>9, <1>11, <1>12, SMT

LEMMA LegOfRoutes ==
    ASSUME NEW rs, Routed(rs)
    PROVE  \A a : a \in ArcsOf(rs)
              <=> \E r \in DOMAIN rs : \E k \in Legs(rs[r]) : a = Leg(rs[r], k)
<1>1. \A a : a \in ArcsOf(rs) <=> \E r \in DOMAIN rs : a \in RouteArcs(rs[r])
  BY ArcsOfRoutes DEF Blocks
<1> QED
  BY <1>1 DEF RouteArcs

(* The one leg that ends, and the one that begins, at a stop.               *)
LEMMA LegsAtStop ==
    ASSUME NEW rs, Routed(rs), NEW r \in DOMAIN rs, NEW k \in DOMAIN rs[r],
           NEW q \in DOMAIN rs, NEW l \in Legs(rs[q])
    PROVE  /\ Leg(rs[q], l)[2] = rs[r][k] => q = r /\ l = k
           /\ Leg(rs[q], l)[1] = rs[r][k] => q = r /\ l = k + 1
<1>1. Trip(rs[r]) /\ Trip(rs[q])
  BY RoutesAreTrips
<1>2. /\ k \in 1 .. Len(rs[r]) /\ rs[r][k] # 0 /\ k \in Int
      /\ DOMAIN rs[q] = 1 .. Len(rs[q]) /\ l \in Int
  BY <1>1, TripFacts, SMT DEF Legs
<1>3. \A m \in DOMAIN rs[q] : rs[q][m] = rs[r][k] => q = r /\ m = k
  <2> SUFFICES ASSUME NEW m \in DOMAIN rs[q], rs[q][m] = rs[r][k]
               PROVE  q = r /\ m = k
    OBVIOUS
  <2> QED BY Zenon DEF Routed, NoneTwice
<1>4. ASSUME Leg(rs[q], l)[2] = rs[r][k] PROVE q = r /\ l = k
  <2>1. l # Len(rs[q]) + 1
    BY <1>1, <1>2, <1>4, LegFacts
  <2>2. l \in 1 .. Len(rs[q]) /\ Leg(rs[q], l)[2] = rs[q][l]
    BY <1>1, <2>1, LegFacts
  <2> QED BY <1>2, <1>3, <1>4, <2>2
<1>5. ASSUME Leg(rs[q], l)[1] = rs[r][k] PROVE q = r /\ l = k + 1
  <2>1. l # 1
    BY <1>1, <1>2, <1>5, LegFacts
  <2>2. l - 1 \in 1 .. Len(rs[q]) /\ Leg(rs[q], l)[1] = rs[q][l - 1]
    BY <1>1, <2>1, LegFacts
  <2>3. q = r /\ l - 1 = k
    BY <1>2, <1>3, <1>5, <2>2
  <2> QED BY <1>2, <2>3, SMT
<1> QED
  BY <1>4, <1>5

(* Routes that serve everyone along arcs HiGHS chose use all of them.       *)
LEMMA RoutesUseAllArcs ==
    ASSUME NEW s, s \in SUBSET Arcs, DegreeRows(s), NEW rs, Routed(rs),
           \A c \in Customers : StopsAt(rs, c), ArcsOf(rs) \subseteq s
    PROVE  ArcsOf(rs) = s
<1> SUFFICES ASSUME NEW a \in s PROVE a \in ArcsOf(rs)
  OBVIOUS
<1>1. /\ a = <<a[1], a[2]>> /\ a[1] \in Nodes /\ a[2] \in Nodes /\ a[1] # a[2]
  BY DEF Arcs
<1>2. ASSUME NEW c \in Customers
      PROVE  /\ \E h \in Nodes : <<h, c>> \in ArcsOf(rs)
             /\ \E h \in Nodes : <<c, h>> \in ArcsOf(rs)
  <2>1. PICK r \in DOMAIN rs : \E k \in DOMAIN rs[r] : rs[r][k] = c
    BY DEF StopsAt
  <2>2. PICK k \in DOMAIN rs[r] : rs[r][k] = c
    BY <2>1
  <2>3. Trip(rs[r]) /\ k \in 1 .. Len(rs[r])
    BY RoutesAreTrips, TripFacts
  <2>4. /\ k \in Legs(rs[r]) /\ k + 1 \in Legs(rs[r])
        /\ Leg(rs[r], k) \in Nodes \X {c} /\ Leg(rs[r], k + 1) \in {c} \X Nodes
    BY <2>2, <2>3, NextLeg
  <2>5. Leg(rs[r], k) \in ArcsOf(rs) /\ Leg(rs[r], k + 1) \in ArcsOf(rs)
    BY <2>4, LegOfRoutes
  <2>6. PICK h \in Nodes : Leg(rs[r], k) = <<h, c>>
    BY <2>4
  <2>7. PICK g \in Nodes : Leg(rs[r], k + 1) = <<c, g>>
    BY <2>4
  <2> QED BY <2>5, <2>6, <2>7
<1>3. CASE a[2] \in Customers
  <2>1. PICK h \in Nodes : <<h, a[2]>> \in ArcsOf(rs)
    BY <1>2, <1>3
  <2>2. h = a[1]
    BY <1>1, <1>3, <2>1, Degrees
  <2> QED BY <1>1, <2>1, <2>2
<1>4. CASE a[1] \in Customers
  <2>1. PICK h \in Nodes : <<a[1], h>> \in ArcsOf(rs)
    BY <1>2, <1>4
  <2>2. h = a[2]
    <3>1. \A i, k \in Nodes : <<a[1], i>> \in s /\ <<a[1], k>> \in s => i = k
      BY <1>4, Degrees
    <3> QED BY <1>1, <2>1, <3>1
  <2> QED BY <1>1, <2>1, <2>2
<1> QED
  BY <1>1, <1>3, <1>4, CustomersAreNodes
-----------------------------------------------------------------------------
(* A service is a point of HiGHS's model: let each arc carry what the stops *)
(* ahead of it on its route ask for.                                        *)
Left(i, r, k) == SumFunctionOnSet(Asked(i, r), k .. Len(r))

LEMMA LeftFacts ==
    ASSUME NEW i \in Instances, NEW r, Trip(r)
    PROVE  /\ \A k \in Legs(r) : Left(i, r, k) \in Nat /\ Left(i, r, k) <= GetLoad(i, r)
           /\ \A k \in 1 .. Len(r) :
                 Left(i, r, k) = i.demand[r[k]] + Left(i, r, k + 1)
           /\ Left(i, r, 1) = GetLoad(i, r)
<1> DEFINE n == Len(r)
           d == Asked(i, r)
<1>1. n \in Nat \ {0} /\ IsFiniteSet(1 .. n)
  BY TripFacts, FS_Interval
<1>2. \A k \in 1 .. n : d[k] \in Nat /\ d[k] = i.demand[r[k]]
  BY AskedFacts
<1>3. GetLoad(i, r) = SumFunctionOnSet(d, 1 .. n)
  BY AskedFacts
<1> HIDE DEF n, d
<1>4. ASSUME NEW k \in Legs(r)
      PROVE  k .. n \subseteq 1 .. n /\ IsFiniteSet(k .. n) /\ \A l \in k .. n : d[l] \in Nat
  <2>1. k .. n \subseteq 1 .. n
    BY <1>1, SMT DEF Legs, n
  <2> QED BY <1>1, <1>2, <2>1, FS_Subset
<1>5. ASSUME NEW k \in Legs(r)
      PROVE  Left(i, r, k) \in Nat /\ Left(i, r, k) <= GetLoad(i, r)
  <2>1. SumFunctionOnSet(d, k .. n) \in Nat
    BY <1>4, SumType
  <2>2. SumFunctionOnSet(d, k .. n) <= SumFunctionOnSet(d, 1 .. n)
    BY <1>1, <1>2, <1>4, SumOverPart
  <2> QED BY <1>3, <2>1, <2>2 DEF Left, n, d
<1>6. ASSUME NEW k \in 1 .. n
      PROVE  Left(i, r, k) = i.demand[r[k]] + Left(i, r, k + 1)
  <2>1. /\ k + 1 \in Legs(r) /\ k \in Legs(r) /\ k \notin k + 1 .. n
        /\ k .. n = (k + 1 .. n) \cup {k}
    BY <1>1, SMT DEF Legs, n
  <2>2. \A y \in (k + 1 .. n) \cup {k} : d[y] \in Nat
    BY <1>4, <2>1
  <2>3. SumFunctionOnSet(d, (k + 1 .. n) \cup {k}) = SumFunctionOnSet(d, k + 1 .. n) + d[k]
    BY <1>4, <2>1, <2>2, SumWithOneMore
  <2>4. Left(i, r, k) = Left(i, r, k + 1) + d[k]
    BY <2>1, <2>3 DEF Left, n, d
  <2>5. Left(i, r, k + 1) \in Nat /\ d[k] \in Nat /\ d[k] = i.demand[r[k]]
    BY <1>2, <1>5, <2>1
  <2> QED BY <2>4, <2>5, SMT
<1> QED
  BY <1>3, <1>5, <1>6 DEF Left, n, d

LEMMA FlowExists ==
    ASSUME NEW i \in Instances, NEW rs, Routed(rs)
    PROVE  \E f \in [ArcsOf(rs) -> Nat] :
              \A r \in DOMAIN rs : \A k \in Legs(rs[r]) :
                 f[Leg(rs[r], k)] = Left(i, rs[r], k)
<1> DEFINE At(a, c) == /\ c[1] \in DOMAIN rs /\ c[2] \in Legs(rs[c[1]])
                       /\ a = Leg(rs[c[1]], c[2])
           f == [a \in ArcsOf(rs) |->
                   LET c == CHOOSE c : At(a, c) IN Left(i, rs[c[1]], c[2])]
<1>1. ASSUME NEW a \in ArcsOf(rs) PROVE \E c : At(a, c)
  <2>1. PICK r \in DOMAIN rs : \E k \in Legs(rs[r]) : a = Leg(rs[r], k)
    BY LegOfRoutes
  <2>2. PICK k \in Legs(rs[r]) : a = Leg(rs[r], k)
    BY <2>1
  <2>3. At(a, <<r, k>>)
    BY <2>2
  <2> QED BY <2>3
<1>2. ASSUME NEW a \in ArcsOf(rs) PROVE At(a, CHOOSE c : At(a, c))
  <2> HIDE DEF At
  <2> QED BY <1>1, Zenon
<1>3. ASSUME NEW a \in ArcsOf(rs) PROVE f[a] \in Nat
  <2> DEFINE c == CHOOSE c : At(a, c)
  <2>1. At(a, c)
    BY <1>2
  <2>2. f[a] = Left(i, rs[c[1]], c[2])
    OBVIOUS
  <2> HIDE DEF c, f
  <2>3. Trip(rs[c[1]])
    BY <2>1, RoutesAreTrips
  <2> QED BY <2>1, <2>2, <2>3, LeftFacts
<1>4. ASSUME NEW r \in DOMAIN rs, NEW k \in Legs(rs[r])
      PROVE  f[Leg(rs[r], k)] = Left(i, rs[r], k)
  <2> DEFINE a == Leg(rs[r], k)
             c == CHOOSE c : At(a, c)
  <2>1. a \in ArcsOf(rs)
    BY LegOfRoutes
  <2>2. At(a, c)
    BY <1>2, <2>1
  <2>3. f[a] = Left(i, rs[c[1]], c[2])
    BY <2>1
  <2> HIDE DEF c
  <2>4. c[1] \in DOMAIN rs /\ c[2] \in Legs(rs[c[1]]) /\ Leg(rs[r], k) = Leg(rs[c[1]], c[2])
    BY <2>2
  <2>5. c[1] = r
    <3>1. Leg(rs[r], k) \in RouteArcs(rs[r]) /\ Leg(rs[r], k) \in RouteArcs(rs[c[1]])
      BY <2>4 DEF RouteArcs
    <3> QED BY <2>4, <3>1, RoutesShareNoArc
  <2>6. c[2] = k
    BY <2>4, <2>5, RoutesAreTrips, LegsApart
  <2> QED BY <2>3, <2>5, <2>6
<1>5. f \in [ArcsOf(rs) -> Nat]
  <2>1. f = [a \in ArcsOf(rs) |-> f[a]]
    OBVIOUS
  <2> HIDE DEF f
  <2> QED BY <1>3, <2>1
<1> HIDE DEF f
<1> QED
  BY <1>4, <1>5

LEMMA ServiceDegrees ==
    ASSUME NEW rs, Routed(rs), \A c \in Customers : StopsAt(rs, c)
    PROVE  DegreeRows(ArcsOf(rs))
<1> SUFFICES ASSUME NEW j \in Customers
             PROVE  /\ \E i \in Nodes : ArcsOf(rs) \cap (Nodes \X {j}) = {<<i, j>>}
                    /\ \E k \in Nodes : ArcsOf(rs) \cap ({j} \X Nodes) = {<<j, k>>}
  BY DEF DegreeRows
<1>1. PICK r \in DOMAIN rs : \E k \in DOMAIN rs[r] : rs[r][k] = j
  BY DEF StopsAt
<1>2. PICK k \in DOMAIN rs[r] : rs[r][k] = j
  BY <1>1
<1>3. Trip(rs[r]) /\ k \in 1 .. Len(rs[r])
  BY RoutesAreTrips, TripFacts
<1>4. /\ k \in Legs(rs[r]) /\ k + 1 \in Legs(rs[r])
      /\ Leg(rs[r], k) \in Nodes \X {j} /\ Leg(rs[r], k + 1) \in {j} \X Nodes
  BY <1>2, <1>3, NextLeg
<1>5. Leg(rs[r], k) \in ArcsOf(rs) /\ Leg(rs[r], k + 1) \in ArcsOf(rs)
  BY <1>4, LegOfRoutes
<1>6. ASSUME NEW a \in ArcsOf(rs)
      PROVE  /\ a \in Nodes \X {j} => a = Leg(rs[r], k)
             /\ a \in {j} \X Nodes => a = Leg(rs[r], k + 1)
  <2>1. PICK q \in DOMAIN rs : \E l \in Legs(rs[q]) : a = Leg(rs[q], l)
    BY LegOfRoutes
  <2>2. PICK l \in Legs(rs[q]) : a = Leg(rs[q], l)
    BY <2>1
  <2>3. a[2] = j => q = r /\ l = k
    BY <1>2, <2>2, LegsAtStop
  <2>4. a[1] = j => q = r /\ l = k + 1
    BY <1>2, <2>2, LegsAtStop
  <2> QED BY <2>2, <2>3, <2>4
<1>7. PICK h \in Nodes : Leg(rs[r], k) = <<h, j>>
  BY <1>4
<1>8. PICK g \in Nodes : Leg(rs[r], k + 1) = <<j, g>>
  BY <1>4
<1>9. ArcsOf(rs) \cap (Nodes \X {j}) = {<<h, j>>}
  BY <1>4, <1>5, <1>6, <1>7
<1>10. ArcsOf(rs) \cap ({j} \X Nodes) = {<<j, g>>}
  BY <1>4, <1>5, <1>6, <1>8
<1> QED
  BY <1>9, <1>10

(* The loads that leave the depot add up to all demand.                     *)
LEMMA DepotSends ==
    ASSUME NEW i \in Instances, NEW rs, Routed(rs),
           \A c \in Customers : StopsAt(rs, c),
           NEW f \in [ArcsOf(rs) -> Nat],
           \A r \in DOMAIN rs : f[Leg(rs[r], 1)] = GetLoad(i, rs[r])
    PROVE  DepotRow(i, ArcsOf(rs), f)
<1> DEFINE I == DOMAIN rs
           F == [r \in I |-> GetLoad(i, rs[r])]
           B == [r \in I |-> Range(rs[r])]
           T == ArcsOf(rs) \cap ({0} \X Customers)
           h == [r \in I |-> Leg(rs[r], 1)]
<1>1. IsFiniteSet(I) /\ \A r \in I : Trip(rs[r])
  BY RoutesAreTrips
<1>2. \A r \in I : /\ F[r] = GetLoad(i, rs[r]) /\ F[r] \in Nat /\ B[r] = Range(rs[r])
                   /\ F[r] = SumFunctionOnSet(i.demand, B[r])
                   /\ IsFiniteSet(B[r]) /\ \A c \in B[r] : i.demand[c] \in Nat
  BY <1>1, LoadIsStops
<1>3. \A q, r \in I : q # r => B[q] \cap B[r] = {}
  BY RoutesAreTrips DEF Range
<1>4. Blocks(B, I) = Customers
  <2>1. \A c : c \in Blocks(B, I) <=> \E r \in I : c \in Range(rs[r])
    BY <1>2 DEF Blocks
  <2>2. \A c : c \in Blocks(B, I) <=> StopsAt(rs, c)
    BY <2>1 DEF Range, StopsAt
  <2>3. \A c : c \in Blocks(B, I) => c \in Customers
    BY <1>1, <2>1, LoadIsStops
  <2> QED BY <2>2, <2>3
<1>5. ASSUME NEW r \in I
      PROVE  /\ Leg(rs[r], 1) \in T /\ h[r] = Leg(rs[r], 1)
             /\ 1 \in DOMAIN rs[r] /\ Leg(rs[r], 1) = <<0, rs[r][1]>>
  <2>1. 1 \in 1 .. Len(rs[r]) /\ DOMAIN rs[r] = 1 .. Len(rs[r])
        /\ rs[r][1] \in Customers /\ 1 # Len(rs[r]) + 1 /\ 1 \in Legs(rs[r])
    BY <1>1, TripFacts, SMT DEF Legs
  <2>2. Leg(rs[r], 1) = <<0, rs[r][1]>>
    BY <2>1 DEF Leg
  <2>3. Leg(rs[r], 1) \in ArcsOf(rs)
    BY <2>1, LegOfRoutes
  <2> QED BY <2>1, <2>2, <2>3
<1>6. \A a \in T : \E r \in I : a = Leg(rs[r], 1)
  <2> SUFFICES ASSUME NEW a \in T PROVE \E r \in I : a = Leg(rs[r], 1)
    OBVIOUS
  <2>1. PICK r \in DOMAIN rs : \E k \in Legs(rs[r]) : a = Leg(rs[r], k)
    BY LegOfRoutes
  <2>2. PICK k \in Legs(rs[r]) : a = Leg(rs[r], k)
    BY <2>1
  <2>3. a[1] = 0
    OBVIOUS
  <2>4. k = 1
    <3> SUFFICES ASSUME k # 1 PROVE FALSE
      OBVIOUS
    <3>1. k - 1 \in 1 .. Len(rs[r]) /\ Leg(rs[r], k)[1] = rs[r][k - 1]
      BY <1>1, LegFacts
    <3> QED BY <1>1, <2>2, <2>3, <3>1, TripFacts
  <2> QED BY <2>2, <2>4
<1>7. \A q, r \in I : h[q] = h[r] => q = r
  <2> SUFFICES ASSUME NEW q \in I, NEW r \in I, h[q] = h[r] PROVE q = r
    OBVIOUS
  <2>1. rs[q][1] = rs[r][1]
    BY <1>5
  <2> QED BY <1>5, <2>1, RoutesAreTrips
<1>8. h \in Bijection(I, T)
  <2>1. h \in [I -> T] /\ \A a \in T : \E r \in I : h[r] = a
    BY <1>5, <1>6
  <2> HIDE DEF h, T, I
  <2> QED BY <1>7, <2>1 DEF Bijection, Injection, Surjection, IsInjective
<1>9. \A r \in I : f[h[r]] = F[r]
  BY <1>2, <1>5
<1> HIDE DEF I, F, B, T, h
<1>10. SumFunctionOnSet(F, I) = SumFunctionOnSet(f, T)
  BY <1>1, <1>2, <1>8, <1>9, SumRenamed
<1>11. SumFunctionOnSet(F, I) = SumFunctionOnSet(i.demand, Blocks(B, I))
  BY <1>1, <1>2, <1>3, SumOfBlocks
<1> QED
  BY <1>4, <1>10, <1>11 DEF DepotRow, FlowOver, TotalDemand, T

LEMMA ServiceIsAdmitted ==
    ASSUME NEW i \in Instances, NEW rs, Routed(rs), Serves(i, rs)
    PROVE  HighsAdmits(i, ArcsOf(rs)) /\ ArcsOf(rs) \in HighsSolutions(i)
<1> DEFINE s == ArcsOf(rs)
<1>1. (\A c \in Customers : StopsAt(rs, c)) /\ ~ Overloaded(i, rs)
  BY ServesIs, StopsFacts
<1>2. s \in SUBSET Arcs /\ DegreeRows(s)
  BY <1>1, CostIsArcs, ServiceDegrees
<1>3. PICK f \in [s -> Nat] :
         \A r \in DOMAIN rs : \A k \in Legs(rs[r]) :
            f[Leg(rs[r], k)] = Left(i, rs[r], k)
  BY FlowExists
<1>4. f \in Flows(i, s)
  <2> SUFFICES ASSUME NEW a \in s PROVE f[a] \in 0 .. i.capacity
    BY DEF Flows
  <2>1. PICK r \in DOMAIN rs : \E k \in Legs(rs[r]) : a = Leg(rs[r], k)
    BY LegOfRoutes
  <2>2. PICK k \in Legs(rs[r]) : a = Leg(rs[r], k)
    BY <2>1
  <2>3. Trip(rs[r])
    BY RoutesAreTrips
  <2>4. /\ f[a] = Left(i, rs[r], k) /\ f[a] \in Nat
        /\ f[a] <= GetLoad(i, rs[r])
    BY <1>3, <2>2, <2>3, LeftFacts
  <2>5. GetLoad(i, rs[r]) \in Nat /\ i.capacity \in Nat /\ GetLoad(i, rs[r]) <= i.capacity
    <3>1. GetLoad(i, rs[r]) \in Nat /\ i.capacity \in Nat
      BY <2>3, LoadIsStops, InstancesAssumption
    <3>2. ~ (GetLoad(i, rs[r]) > i.capacity)
      BY <1>1 DEF Overloaded
    <3> QED BY <3>1, <3>2, SMT
  <2> QED BY <2>4, <2>5, SMT
<1>5. ConservationRows(i, s, f)
  <2> SUFFICES ASSUME NEW j \in Customers,
                      NEW into \in s \cap (Nodes \X {j}),
                      NEW out \in s \cap ({j} \X Nodes)
               PROVE  f[into] - f[out] = i.demand[j]
    BY DEF ConservationRows
  <2>1. PICK r \in DOMAIN rs : \E k \in DOMAIN rs[r] : rs[r][k] = j
    BY <1>1 DEF StopsAt
  <2>2. PICK k \in DOMAIN rs[r] : rs[r][k] = j
    BY <2>1
  <2>3. Trip(rs[r]) /\ k \in 1 .. Len(rs[r])
    BY RoutesAreTrips, TripFacts
  <2>4. into = Leg(rs[r], k)
    <3>1. PICK q \in DOMAIN rs : \E l \in Legs(rs[q]) : into = Leg(rs[q], l)
      BY LegOfRoutes
    <3>2. PICK l \in Legs(rs[q]) : into = Leg(rs[q], l)
      BY <3>1
    <3>3. into[2] = j
      OBVIOUS
    <3> QED BY <2>2, <3>2, <3>3, LegsAtStop
  <2>5. out = Leg(rs[r], k + 1)
    <3>1. PICK q \in DOMAIN rs : \E l \in Legs(rs[q]) : out = Leg(rs[q], l)
      BY LegOfRoutes
    <3>2. PICK l \in Legs(rs[q]) : out = Leg(rs[q], l)
      BY <3>1
    <3>3. out[1] = j
      OBVIOUS
    <3> QED BY <2>2, <3>2, <3>3, LegsAtStop
  <2>6. k \in Legs(rs[r]) /\ k + 1 \in Legs(rs[r])
    BY <2>3, NextLeg
  <2>7. f[into] = Left(i, rs[r], k) /\ f[out] = Left(i, rs[r], k + 1)
    BY <1>3, <2>4, <2>5, <2>6
  <2>8. Left(i, rs[r], k) = i.demand[j] + Left(i, rs[r], k + 1)
    BY <2>2, <2>3, LeftFacts
  <2>9. i.demand[j] \in Nat /\ Left(i, rs[r], k + 1) \in Nat
    BY <2>3, <2>6, LeftFacts, InstancesAssumption
  <2> QED BY <2>7, <2>8, <2>9, SMT
<1>6. DepotRow(i, s, f)
  <2>1. \A r \in DOMAIN rs : f[Leg(rs[r], 1)] = GetLoad(i, rs[r])
    <3> SUFFICES ASSUME NEW r \in DOMAIN rs PROVE f[Leg(rs[r], 1)] = GetLoad(i, rs[r])
      OBVIOUS
    <3>1. Trip(rs[r])
      BY RoutesAreTrips
    <3>2. 1 \in Legs(rs[r])
      BY <3>1, TripFacts, NextLeg
    <3> QED BY <1>3, <3>1, <3>2, LeftFacts
  <2> QED BY <1>1, <2>1, DepotSends
<1>7. HighsAdmits(i, s)
  BY <1>2, <1>4, <1>5, <1>6 DEF HighsAdmits
<1> QED
  BY <1>2, <1>7 DEF HighsSolutions
-----------------------------------------------------------------------------
(* The routes the walk has closed, and the one it is on, are strung along   *)
(* HiGHS's arcs; who is behind the walk is on exactly one of them.          *)
Woven ==
    /\ Routed(routes)
    /\ \A k \in DOMAIN routes : RouteArcs(routes[k]) \subseteq x
    /\ \A c : c \in visited <=> StopsAt(routes, c) \/ c \in Range(route)
    /\ \A c \in Range(route) : ~ StopsAt(routes, c)
    /\ Distinct(route)
    /\ route # <<>> => <<0, route[1]>> \in x
    /\ \A k \in 1 .. Len(route) - 1 : <<route[k], route[k + 1]>> \in x

(* What every answer is that reaches the harness.                           *)
Capacitated == {"highs", "ortools", "pyvrp", "pyhygese", "vroom", "rustvrp"}
Answered ==
    /\ Routed(routes) /\ cost = CalculateCost(instance, routes)
    /\ adapter \in Capacitated => ~ Overloaded(instance, routes)
    /\ Incomplete(routes) => adapter \in MayLeaveOut \/ routes = <<>>
    /\ adapter \in {"highs", "ortools", "pyvrp"} => ~ Incomplete(routes)
    /\ adapter = "highs" => ArcsOf(routes) = x

RowInv ==
    /\ phase = "model" => routes = <<>> /\ ~ optimal
    /\ adapter # "highs" => ~ optimal
    /\ phase = "walk" => adapter = "highs" /\ Woven
    /\ phase \in {"walk", "returned", "evaluated"} /\ optimal =>
          WithinGap(instance, x)
    /\ phase = "infeasible" => HighsSolutions(instance) = {}
    /\ phase # "mismatch"
    /\ phase \in {"returned", "evaluated"} => Answered
    /\ phase = "evaluated" => verdict = Validate(instance, routes, cost)

LEMMA NoRoutesYet ==
    Routed(<<>>) /\ \A c : ~ StopsAt(<<>>, c)
<1>1. DOMAIN <<>> = {} /\ <<>> \in Seq(Seq(Customers))
  OBVIOUS
<1> QED
  BY <1>1 DEF Routed, NoneTwice, StopsAt

LEMMA SolvesRow == IInv /\ RowInv /\ HighsSolves => RowInv'
<1> SUFFICES ASSUME IInv, RowInv, HighsSolves PROVE RowInv'
  OBVIOUS
<1>1. HighsAdmits(instance, x') /\ DegreeRows(x')
  BY DEF HighsSolves, HighsSolutions, HighsAdmits
<1>2. phase' = "walk"
  BY <1>1, NotAmbiguous DEF HighsSolves
<1>3. /\ routes' = <<>> /\ route' = <<>> /\ visited' = {} /\ adapter' = "highs"
      /\ adapter = "highs" /\ instance' = instance
  BY DEF IInv, RowInv, HighsSolves, walk
<1>4. DOMAIN <<>> = {} /\ \A k : ~ (k \in 1 .. Len(<<>>) - 1)
  BY SMT
<1>5. Woven'
  BY <1>3, <1>4, NoRoutesYet DEF Woven, Range, Distinct
<1>6. optimal' => WithinGap(instance, x)'
  BY <1>3 DEF HighsSolves
<1> QED
  BY <1>2, <1>3, <1>5, <1>6 DEF RowInv

LEMMA StartRow == IInv /\ RowInv /\ (SkipFirst \/ StartRoute) => RowInv'
<1> SUFFICES ASSUME IInv, RowInv, SkipFirst \/ StartRoute PROVE RowInv'
  OBVIOUS
<1>1. /\ phase = "walk"
      /\ UNCHANGED <<adapter, instance, phase, x, optimal, route, visited, routes>>
  BY DEF SkipFirst, StartRoute
<1>2. Woven' /\ WithinGap(instance, x)' = WithinGap(instance, x)
  BY <1>1 DEF RowInv, Woven
<1> QED
  BY <1>1, <1>2 DEF RowInv

LEMMA VisitRow == IInv /\ RowInv /\ Visit => RowInv'
<1> SUFFICES ASSUME IInv, RowInv, Visit PROVE RowInv'
  OBVIOUS
<1>1. phase = "walk" /\ node # 0 /\ TypeInv /\ WalkInv /\ Woven
  BY DEF IInv, RowInv, Visit
<1>2. node \in Customers /\ node \notin visited /\ Successors(x, node) # {}
  BY <1>1, WayOn
<1>3. /\ visited' = visited \union {node} /\ route' = Append(route, node)
      /\ UNCHANGED <<adapter, instance, phase, x, optimal, first, routes>>
  BY <1>2 DEF Visit
<1> DEFINE n == Len(route)
<1>4. /\ n \in Nat /\ DOMAIN route = 1 .. n /\ DOMAIN route' = 1 .. n + 1
      /\ Len(route') = n + 1
      /\ \A k \in 1 .. n : route'[k] = route[k]
      /\ route'[n + 1] = node
      /\ route # <<>> <=> n # 0
  <2>1. route \in Seq(Customers)
    BY <1>1 DEF TypeInv
  <2> QED BY <1>2, <1>3, <2>1
<1> HIDE DEF n
<1>5. \A k \in 1 .. n + 1 : k \in 1 .. n \/ k = n + 1
  BY <1>4, SMT
<1>6. n + 1 \in 1 .. n + 1 /\ \A k \in 1 .. n : k \in 1 .. n + 1
  BY <1>4, SMT
<1>7. Range(route') = Range(route) \cup {node}
  <2>1. \A c : c \in Range(route') <=> \E k \in 1 .. n + 1 : route'[k] = c
    BY <1>4 DEF Range
  <2>2. \A c : c \in Range(route) <=> \E k \in 1 .. n : route[k] = c
    BY <1>4 DEF Range
  <2> QED BY <1>4, <1>5, <1>6, <2>1, <2>2
<1>8. \A k \in 1 .. n : route[k] # node
  <2>1. \A k \in 1 .. n : route[k] \in Range(route)
    BY <1>4 DEF Range
  <2> QED BY <1>1, <1>2, <2>1 DEF Woven
<1>9. Distinct(route')
  <2> SUFFICES ASSUME NEW k \in 1 .. n + 1, NEW l \in 1 .. n + 1, route'[k] = route'[l]
               PROVE  k = l
    BY <1>4 DEF Distinct
  <2>1. CASE k \in 1 .. n /\ l \in 1 .. n
    <3>1. route[k] = route[l]
      BY <1>4, <2>1
    <3> QED BY <1>1, <1>4, <2>1, <3>1 DEF Woven, Distinct
  <2> QED BY <1>4, <1>5, <1>8, <2>1
<1>10. <<0, route'[1]>> \in x
  <2>1. CASE n = 0
    <3>1. route = <<>> /\ route'[1] = node
      BY <1>4, <2>1
    <3> QED BY <1>1, <3>1 DEF WalkInv, Here
  <2>2. CASE n # 0
    <3>1. 1 \in 1 .. n
      BY <1>4, <2>2, SMT
    <3> QED BY <1>1, <1>4, <2>2, <3>1 DEF Woven
  <2> QED BY <2>1, <2>2
<1>11. ASSUME NEW k \in 1 .. Len(route') - 1
       PROVE  <<route'[k], route'[k + 1]>> \in x
  <2>1. k \in 1 .. n /\ (k = n \/ (k \in 1 .. n - 1 /\ k + 1 \in 1 .. n))
    BY <1>4, SMT
  <2>2. CASE k = n
    <3>1. route # <<>> /\ Last1 = route[n]
      BY <1>4, <2>1, <2>2, SMT DEF Last1, n
    <3>2. <<route[n], node>> \in x
      BY <1>1, <3>1 DEF WalkInv, Here
    <3> QED BY <1>4, <2>1, <2>2, <3>2
  <2>3. CASE k \in 1 .. n - 1 /\ k + 1 \in 1 .. n
    <3>1. <<route[k], route[k + 1]>> \in x
      BY <1>1, <2>3 DEF Woven, n
    <3> QED BY <1>4, <2>1, <2>3, <3>1
  <2> QED BY <2>1, <2>2, <2>3
<1>12. ~ StopsAt(routes, node)
  BY <1>1, <1>2 DEF Woven
<1>13. \A c : c \in visited' <=> StopsAt(routes', c) \/ c \in Range(route')
  BY <1>1, <1>3, <1>7 DEF Woven
<1>14. \A c \in Range(route') : ~ StopsAt(routes', c)
  BY <1>1, <1>3, <1>7, <1>12 DEF Woven
<1>15. Woven'
  BY <1>1, <1>3, <1>9, <1>10, <1>11, <1>13, <1>14 DEF Woven
<1>16. WithinGap(instance, x)' = WithinGap(instance, x)
  BY <1>3
<1> QED
  BY <1>1, <1>3, <1>15, <1>16 DEF RowInv

LEMMA CloseRow == IInv /\ RowInv /\ CloseRoute => RowInv'
<1> SUFFICES ASSUME IInv, RowInv, CloseRoute PROVE RowInv'
  OBVIOUS
<1>1. /\ phase = "walk" /\ node = 0 /\ route # <<>> /\ TypeInv /\ WalkInv /\ Woven
      /\ routes' = Append(routes, route) /\ route' = <<>>
      /\ UNCHANGED <<adapter, instance, phase, x, optimal, visited>>
  BY DEF IInv, RowInv, CloseRoute
<1> DEFINE n == Len(route)
           m == Len(routes)
<1>2. Trip(route)
  BY <1>1 DEF TypeInv, Woven, Trip
<1>3. /\ n \in Nat \ {0} /\ DOMAIN route = 1 .. n
  BY <1>2, TripFacts
<1>4. RouteArcs(route) \subseteq x
  <2> SUFFICES ASSUME NEW k \in Legs(route) PROVE Leg(route, k) \in x
    BY DEF RouteArcs
  <2>1. Leg(route, k) \in Arcs
    BY <1>2, LegFacts
  <2>2. Leg(route, k) = <<Leg(route, k)[1], Leg(route, k)[2]>>
    BY DEF Leg
  <2>3. CASE k = 1
    <3>1. 1 # n + 1
      BY <1>3, SMT
    <3>2. Leg(route, k) = <<0, route[1]>>
      BY <2>3, <3>1 DEF Leg
    <3> QED BY <1>1, <3>2 DEF Woven
  <2>4. CASE k = n + 1
    <3>1. n + 1 # 1 /\ (n + 1) - 1 = n
      BY <1>3, SMT
    <3>2. Leg(route, k) = <<route[n], 0>>
      BY <2>4, <3>1 DEF Leg
    <3> QED BY <1>1, <3>2 DEF WalkInv, Here, Last1
  <2>5. CASE k # 1 /\ k # n + 1
    <3>1. k - 1 \in 1 .. n - 1 /\ (k - 1) + 1 = k
      BY <1>3, <2>5, SMT DEF Legs
    <3>2. <<route[k - 1], route[(k - 1) + 1]>> \in x
      BY <1>1, <3>1 DEF Woven
    <3>3. Leg(route, k) = <<route[k - 1], route[k]>>
      BY <2>5 DEF Leg
    <3> QED BY <3>1, <3>2, <3>3
  <2> QED BY <2>3, <2>4, <2>5
<1>5. /\ routes \in Seq(Seq(Customers)) /\ route \in Seq(Customers)
  BY <1>1, <1>2 DEF Woven, Routed, Trip
<1>6. /\ m \in Nat /\ DOMAIN routes = 1 .. m /\ DOMAIN routes' = 1 .. m + 1
      /\ \A k \in 1 .. m : routes'[k] = routes[k]
      /\ routes'[m + 1] = route /\ routes' \in Seq(Seq(Customers))
  BY <1>1, <1>5
<1> HIDE DEF n, m
<1>7. \A k \in 1 .. m + 1 : k \in 1 .. m \/ k = m + 1
  BY <1>6, SMT
<1>8. m + 1 \in 1 .. m + 1 /\ m + 1 \notin 1 .. m /\ \A k \in 1 .. m : k \in 1 .. m + 1
  BY <1>6, SMT
<1>9. \A c : StopsAt(routes', c) <=> StopsAt(routes, c) \/ c \in Range(route)
  <2> SUFFICES ASSUME NEW c
               PROVE  StopsAt(routes', c) <=> StopsAt(routes, c) \/ c \in Range(route)
    OBVIOUS
  <2>1. c \in Range(route) <=> \E k \in DOMAIN route : route[k] = c
    BY DEF Range
  <2>2. ASSUME StopsAt(routes', c) PROVE StopsAt(routes, c) \/ c \in Range(route)
    <3>1. PICK i \in 1 .. m + 1 : \E k \in DOMAIN routes'[i] : routes'[i][k] = c
      BY <1>6, <2>2 DEF StopsAt
    <3>2. CASE i = m + 1
      BY <1>6, <2>1, <3>1, <3>2
    <3>3. CASE i \in 1 .. m
      <4>1. i \in DOMAIN routes /\ \E k \in DOMAIN routes[i] : routes[i][k] = c
        BY <1>6, <3>1, <3>3
      <4> QED BY <4>1 DEF StopsAt
    <3> QED BY <1>7, <3>2, <3>3
  <2>3. ASSUME StopsAt(routes, c) PROVE StopsAt(routes', c)
    <3>1. PICK i \in 1 .. m : \E k \in DOMAIN routes[i] : routes[i][k] = c
      BY <1>6, <2>3 DEF StopsAt
    <3>2. i \in DOMAIN routes' /\ \E k \in DOMAIN routes'[i] : routes'[i][k] = c
      BY <1>6, <1>8, <3>1
    <3> QED BY <3>2 DEF StopsAt
  <2>4. ASSUME c \in Range(route) PROVE StopsAt(routes', c)
    <3>1. m + 1 \in DOMAIN routes' /\ \E k \in DOMAIN routes'[m + 1] : routes'[m + 1][k] = c
      BY <1>6, <1>8, <2>1, <2>4
    <3> QED BY <3>1 DEF StopsAt
  <2> QED BY <2>2, <2>3, <2>4
<1>10. \A i \in 1 .. m : \A k \in DOMAIN routes[i] : \A l \in DOMAIN route :
          routes[i][k] # route[l]
  <2> SUFFICES ASSUME NEW i \in 1 .. m, NEW k \in DOMAIN routes[i],
                      NEW l \in DOMAIN route, routes[i][k] = route[l]
               PROVE  FALSE
    OBVIOUS
  <2>1. route[l] \in Range(route)
    BY DEF Range
  <2>2. StopsAt(routes, route[l])
    BY <1>6 DEF StopsAt
  <2> QED BY <1>1, <2>1, <2>2 DEF Woven
<1>11. NoneTwice(routes')
  <2> SUFFICES ASSUME NEW i \in 1 .. m + 1, NEW j \in 1 .. m + 1,
                      NEW k \in DOMAIN routes'[i], NEW l \in DOMAIN routes'[j],
                      routes'[i][k] = routes'[j][l]
               PROVE  i = j /\ k = l
    BY <1>6 DEF NoneTwice
  <2>1. CASE i \in 1 .. m /\ j \in 1 .. m
    <3>1. /\ i \in DOMAIN routes /\ j \in DOMAIN routes
          /\ k \in DOMAIN routes[i] /\ l \in DOMAIN routes[j]
          /\ routes[i][k] = routes[j][l]
      BY <1>6, <2>1
    <3>2. NoneTwice(routes)
      BY <1>1 DEF Woven, Routed
    <3> QED BY <3>1, <3>2, Zenon DEF NoneTwice
  <2>2. CASE i = m + 1 /\ j = m + 1
    <3>1. k \in DOMAIN route /\ l \in DOMAIN route /\ route[k] = route[l]
      BY <1>6, <2>2
    <3> QED BY <1>2, <2>2, <3>1 DEF Trip, Distinct
  <2>3. CASE i \in 1 .. m /\ j = m + 1
    <3>1. k \in DOMAIN routes[i] /\ l \in DOMAIN route /\ routes[i][k] = route[l]
      BY <1>6, <2>3
    <3> QED BY <1>10, <2>3, <3>1
  <2>4. CASE i = m + 1 /\ j \in 1 .. m
    <3>1. l \in DOMAIN routes[j] /\ k \in DOMAIN route /\ routes[j][l] = route[k]
      BY <1>6, <2>4
    <3> QED BY <1>10, <2>4, <3>1
  <2> QED BY <1>7, <2>1, <2>2, <2>3, <2>4
<1>12. \A k \in DOMAIN routes' : routes'[k] # <<>> /\ RouteArcs(routes'[k]) \subseteq x'
  <2> SUFFICES ASSUME NEW k \in 1 .. m + 1
               PROVE  routes'[k] # <<>> /\ RouteArcs(routes'[k]) \subseteq x
    BY <1>1, <1>6
  <2>1. CASE k = m + 1
    BY <1>1, <1>4, <1>6, <2>1
  <2>2. CASE k \in 1 .. m
    BY <1>1, <1>6, <2>2 DEF Woven, Routed
  <2> QED BY <1>7, <2>1, <2>2
<1>13. Routed(routes')
  BY <1>6, <1>11, <1>12 DEF Routed
<1>14. DOMAIN route' = {} /\ \A k : ~ (k \in 1 .. Len(route') - 1)
  BY <1>1, SMT
<1>15. Woven'
  <2>1. Range(route') = {} /\ Distinct(route')
    BY <1>14 DEF Range, Distinct
  <2>2. \A c : c \in visited' <=> StopsAt(routes', c) \/ c \in Range(route')
    BY <1>1, <1>9, <2>1 DEF Woven
  <2> QED BY <1>1, <1>12, <1>13, <1>14, <2>1, <2>2 DEF Woven
<1>16. WithinGap(instance, x)' = WithinGap(instance, x)
  BY <1>1
<1> QED
  BY <1>1, <1>15, <1>16 DEF RowInv

LEMMA HighsReturnsRow == IInv /\ RowInv /\ HighsReturns => RowInv'
<1> SUFFICES ASSUME IInv, RowInv, HighsReturns PROVE RowInv'
  OBVIOUS
<1>1. /\ phase = "walk" /\ node = 0 /\ route = <<>> /\ first = N + 1
      /\ TypeInv /\ WalkInv /\ Woven /\ adapter = "highs"
      /\ cost' = CalculateCost(instance, routes)
      /\ UNCHANGED <<adapter, instance, x, optimal, routes>>
  BY DEF IInv, RowInv, HighsReturns
<1>2. visited = Customers /\ Cardinality(visited) = N
  BY <1>1, EveryoneServed
<1>3. Range(route) = {}
  <2>1. DOMAIN route = {}
    BY <1>1
  <2> QED BY <2>1 DEF Range
<1>4. Routed(routes) /\ instance \in Instances /\ HighsAdmits(instance, x)
      /\ x \in SUBSET Arcs /\ DegreeRows(x)
  BY <1>1 DEF Woven, TypeInv, WalkInv, HighsAdmits
<1>5. \A c \in Customers : StopsAt(routes, c)
  BY <1>1, <1>2, <1>3 DEF Woven
<1>6. ArcsOf(routes) \subseteq x
  <2> SUFFICES ASSUME NEW a \in ArcsOf(routes) PROVE a \in x
    OBVIOUS
  <2>1. PICK r \in DOMAIN routes : \E k \in Legs(routes[r]) : a = Leg(routes[r], k)
    BY <1>4, LegOfRoutes
  <2>2. a \in RouteArcs(routes[r])
    BY <2>1 DEF RouteArcs
  <2> QED BY <1>1, <2>2 DEF Woven
<1>7. ArcsOf(routes) = x
  BY <1>4, <1>5, <1>6, RoutesUseAllArcs
<1>8. cost' = Objective(instance, x)
  BY <1>1, <1>4, <1>7, CostIsArcs
<1>9. phase' = "returned"
  BY <1>1, <1>2, <1>8 DEF HighsReturns
<1>10. ~ Incomplete(routes)
  BY <1>4, <1>5, StopsFacts
<1>11. ~ Overloaded(instance, routes)
  <2> SUFFICES ASSUME NEW r \in DOMAIN routes
               PROVE  ~ (GetLoad(instance, routes[r]) > instance.capacity)
    BY DEF Overloaded
  <2>1. Trip(routes[r]) /\ RouteArcs(routes[r]) \subseteq x
    BY <1>1, <1>4, RoutesAreTrips DEF Woven
  <2>2. GetLoad(instance, routes[r]) <= instance.capacity
    BY <1>4, <2>1, LoadFits
  <2>3. GetLoad(instance, routes[r]) \in Nat /\ instance.capacity \in Nat
    BY <1>4, <2>1, LoadIsStops, InstancesAssumption
  <2> QED BY <2>2, <2>3, SMT
<1>12. Answered'
  BY <1>1, <1>4, <1>7, <1>10, <1>11 DEF Answered
<1>13. WithinGap(instance, x)' = WithinGap(instance, x)
  BY <1>1
<1> QED
  BY <1>1, <1>9, <1>12, <1>13 DEF RowInv

LEMMA OtherReturnsRow == IInv /\ RowInv /\ OtherReturns => RowInv'
<1> SUFFICES ASSUME IInv, RowInv, OtherReturns PROVE RowInv'
  OBVIOUS
<1>1. PICK rs \in Model(adapter, instance) :
         /\ phase' = Outcome(adapter, instance, rs)
         /\ routes' = Reported(adapter, rs)
         /\ cost' = CalculateCost(instance, rs)
  BY DEF OtherReturns
<1>2. /\ phase = "model" /\ adapter # "highs" /\ ~ optimal
      /\ UNCHANGED <<adapter, instance, x, optimal>>
  BY DEF OtherReturns, RowInv
<1>3. /\ \E S \in SUBSET Customers : rs \in RouteLists(S)
      /\ Incomplete(rs) => \/ adapter \in MayLeaveOut
                           \/ adapter \in MayComeEmpty /\ rs = <<>>
      /\ Overloaded(instance, rs) => adapter \in CapacityIsScored
  BY DEF Model
<1>4. Routed(rs)
  BY <1>3, CutIsRouted
<1>5. Reported(adapter, rs) = rs
  <2>1. ASSUME NEW r \in DOMAIN rs
        PROVE  [k \in DOMAIN rs[r] |-> NodeOf(ClientOf(rs[r][k]))] = rs[r]
    <3>1. Trip(rs[r])
      BY <1>4, RoutesAreTrips
    <3>2. \A k \in DOMAIN rs[r] : NodeOf(ClientOf(rs[r][k])) = rs[r][k]
      <4>1. \A k \in DOMAIN rs[r] : rs[r][k] \in Nat
        BY <3>1, TripFacts, CustomersAreNodes
      <4> QED BY <4>1, SMT DEF NodeOf, ClientOf
    <3>3. rs[r] = [k \in DOMAIN rs[r] |-> rs[r][k]]
      BY <3>1 DEF Trip
    <3> QED BY <3>2, <3>3
  <2>2. rs = [r \in DOMAIN rs |-> rs[r]]
    BY <1>4 DEF Routed
  <2> QED BY <2>1, <2>2 DEF Reported
<1>6. phase' \in {"no_solution", "failed", "returned"}
  BY <1>1 DEF Outcome
<1>7. ASSUME phase' = "returned", adapter \in Capacitated
      PROVE  ~ Overloaded(instance, rs)
  <2>1. CASE adapter = "pyvrp"
    <3>1. ~ PyVrpRefuses(adapter, instance, rs)
      BY <1>1, <1>7 DEF Outcome
    <3> QED BY <2>1, <3>1 DEF PyVrpRefuses
  <2>2. CASE adapter # "pyvrp"
    BY <1>3, <1>7, <2>2 DEF CapacityIsScored, Capacitated
  <2> QED BY <2>1, <2>2
<1>9. adapter \in {"highs", "ortools", "pyvrp"} => ~ Incomplete(rs)
  BY <1>3 DEF MayLeaveOut, MayComeEmpty
<1>8. phase' = "returned" => Answered'
  BY <1>1, <1>2, <1>3, <1>4, <1>5, <1>7, <1>9 DEF Answered
<1> QED
  BY <1>2, <1>6, <1>8 DEF RowInv

LEMMA RowInvHolds == IInv /\ RowInv /\ [Next]_vars => RowInv'
<1> SUFFICES ASSUME IInv, RowInv, [Next]_vars PROVE RowInv'
  OBVIOUS
<1>1. CASE HighsSolves
  BY <1>1, SolvesRow
<1>2. CASE HighsProvesInfeasible
  BY <1>2 DEF HighsProvesInfeasible, RowInv, HighsSolutions
<1>3. CASE FindsNothing
  BY <1>3 DEF FindsNothing, RowInv
<1>4. CASE SkipFirst \/ StartRoute
  BY <1>4, StartRow
<1>5. CASE Visit
  BY <1>5, VisitRow
<1>6. CASE CloseRoute
  BY <1>6, CloseRow
<1>7. CASE HighsReturns
  BY <1>7, HighsReturnsRow
<1>8. CASE OtherReturns
  BY <1>8, OtherReturnsRow
<1>9. CASE Evaluate
  <2>1. /\ phase = "returned" /\ phase' = "evaluated"
        /\ verdict' = Validate(instance, routes, cost)
        /\ UNCHANGED <<adapter, instance, x, optimal, routes, cost>>
    BY <1>9 DEF Evaluate
  <2>2. Answered' = Answered /\ WithinGap(instance, x)' = WithinGap(instance, x)
    BY <2>1 DEF Answered
  <2> QED BY <2>1, <2>2 DEF RowInv
<1>10. CASE UNCHANGED vars
  <2>1. UNCHANGED <<adapter, instance, phase, x, optimal, first, node, route, visited,
                    routes, cost, verdict>>
    BY <1>10 DEF vars, walk
  <2>2. Answered' = Answered /\ WithinGap(instance, x)' = WithinGap(instance, x) /\ Woven' = Woven
    BY <2>1 DEF Answered, Woven
  <2> QED BY <2>1, <2>2 DEF RowInv
<1> QED
  BY <1>1, <1>2, <1>3, <1>4, <1>5, <1>6, <1>7, <1>8, <1>9, <1>10 DEF Next

LEMMA RowsInvariant == Spec => [](IInv /\ RowInv)
<1>1. Init => RowInv
  BY DEF Init, RowInv
<1> QED
  BY <1>1, InitHolds, NextHolds, RowInvHolds, PTL DEF Spec

-----------------------------------------------------------------------------
(* A graded row is hard feasible exactly when its routes serve everyone;    *)
(* then its cost is the weight of their arcs.  The rows of HiGHS, OR-Tools  *)
(* and PyVRP always are; those of VROOM and the Rust heuristic fail only by *)
(* leaving someone out, those of HGS only by having no routes.              *)
THEOREM RowsAreServices == Spec => []RowIsService
<1>1. IInv /\ RowInv => RowIsService
  <2> SUFFICES ASSUME IInv, RowInv, phase = "evaluated"
               PROVE  /\ verdict = "None" <=> Serves(instance, routes)
                      /\ verdict = "None" => cost = Objective(instance, ArcsOf(routes))
                      /\ adapter \in {"highs", "ortools", "pyvrp"} => verdict = "None"
                      /\ adapter \in {"vroom", "rustvrp"} =>
                            verdict \in {"None", "OrderMissingError"}
                      /\ adapter = "pyhygese" => verdict = "None" \/ routes = <<>>
    BY DEF RowIsService, RowInv
  <2>1. instance \in Instances /\ Routed(routes)
        /\ cost = CalculateCost(instance, routes)
        /\ verdict = Validate(instance, routes, cost)
    BY DEF IInv, TypeInv, RowInv, Answered
  <2>2. verdict = "None" <=> Serves(instance, routes)
    BY <2>1, ValidateIsService
  <2>3. cost = Objective(instance, ArcsOf(routes))
    BY <2>1, CostIsArcs
  <2>4. /\ adapter \in Capacitated => ~ Overloaded(instance, routes)
        /\ Incomplete(routes) => adapter \in MayLeaveOut \/ routes = <<>>
        /\ adapter \in {"highs", "ortools", "pyvrp"} => ~ Incomplete(routes)
    BY DEF RowInv, Answered
  <2>5. Serves(instance, routes)
           <=> ~ Incomplete(routes) /\ ~ Overloaded(instance, routes)
    BY <2>1, ServesIs
  <2>6. ~ Overloaded(instance, routes) => verdict \in {"None", "OrderMissingError"}
    BY <2>1, StopsFacts DEF Validate
  <2> QED BY <2>2, <2>3, <2>4, <2>5, <2>6 DEF Capacitated, MayLeaveOut
<1> QED
  BY <1>1, RowsInvariant, PTL

LEMMA PlansAreServices ==
    ASSUME NEW i \in Instances, NEW rs \in Plans(i)
    PROVE  /\ Routed(rs) /\ Serves(i, rs) /\ HighsAdmits(i, ArcsOf(rs))
           /\ ArcsOf(rs) \in HighsSolutions(i)
           /\ \A a \in Adapters : rs \in Model(a, i)
<1>1. rs \in RouteLists(Customers) /\ Serves(i, rs)
  BY DEF Plans
<1>2. Routed(rs) /\ Len(rs) <= N /\ Len(rs) \in Nat
  BY <1>1, CutIsRouted, RoutesAreTrips
<1>3. HighsAdmits(i, ArcsOf(rs)) /\ ArcsOf(rs) \in HighsSolutions(i)
  BY <1>1, <1>2, ServiceIsAdmitted
<1>4. ~ Incomplete(rs) /\ ~ Overloaded(i, rs)
  BY <1>1, <1>2, ServesIs
<1>5. \A a \in Adapters : Len(rs) <= Fleet(a)
  BY <1>2, NAssumption, SMT DEF Fleet
<1>6. \A a \in Adapters : rs \in Model(a, i)
  BY <1>1, <1>4, <1>5 DEF Model
<1> QED
  BY <1>1, <1>2, <1>3, <1>6

(* No adapter's model rules out an answer the validator accepts, and HiGHS  *)
(* calls no instance infeasible that has one.                               *)
THEOREM ModelsAllowServices == Spec => []EveryModelAllowsIt
<1>1. IInv /\ RowInv => EveryModelAllowsIt
  <2> SUFFICES ASSUME IInv, RowInv PROVE EveryModelAllowsIt
    OBVIOUS
  <2>1. instance \in Instances /\ adapter \in Adapters
    BY DEF IInv, TypeInv
  <2>2. \A rs \in Plans(instance) : IF adapter = "highs"
                                    THEN HighsAdmits(instance, ArcsOf(rs))
                                    ELSE rs \in Model(adapter, instance)
    BY <2>1, PlansAreServices
  <2>3. phase = "infeasible" => Plans(instance) = {}
    BY <2>1, PlansAreServices DEF RowInv
  <2> QED BY <2>2, <2>3 DEF EveryModelAllowsIt
<1> QED
  BY <1>1, RowsInvariant, PTL

(* The row of a run that HiGHS ended with kOptimal is beaten by no feasible *)
(* row by more than the gap, and by none at all below a cost of 10000.      *)
THEOREM OptimaAreWithinGap == Spec => []OptimalIsWithinGap
<1>1. IInv /\ RowInv => OptimalIsWithinGap
  <2> SUFFICES ASSUME IInv, RowInv, phase = "evaluated", optimal,
                      NEW rs \in Plans(instance)
               PROVE  /\ 10000 * (cost - CalculateCost(instance, rs)) <= cost
                      /\ cost < 10000 => cost <= CalculateCost(instance, rs)
    BY DEF OptimalIsWithinGap
  <2>1. /\ instance \in Instances /\ Routed(routes) /\ adapter = "highs"
        /\ WithinGap(instance, x)
        /\ cost = CalculateCost(instance, routes) /\ ArcsOf(routes) = x
    BY DEF IInv, TypeInv, RowInv, Answered
  <2>2. cost = Objective(instance, x)
    BY <2>1, CostIsArcs
  <2>3. Routed(rs) /\ ArcsOf(rs) \in HighsSolutions(instance)
    BY <2>1, PlansAreServices
  <2>4. CalculateCost(instance, rs) = Objective(instance, ArcsOf(rs))
    BY <2>1, <2>3, CostIsArcs
  <2>5. 10000 * (cost - CalculateCost(instance, rs)) <= cost
    BY <2>1, <2>2, <2>3, <2>4 DEF WithinGap
  <2>6. cost \in Int /\ CalculateCost(instance, rs) \in Int
    BY <2>1, <2>3, CostIsNatural
  <2> QED BY <2>5, <2>6, SMT
<1> QED
  BY <1>1, RowsInvariant, PTL
=============================================================================
