---------------------------- MODULE JobShop_proofs ----------------------------
(***************************************************************************)
(* Whatever an adapter of the job-shop benchmark publishes is feasible, for*)
(* every instance, every machine order and every order in which the pass   *)
(* takes ready operations from its queue.                                  *)
(***************************************************************************)
EXTENDS JobShop, FoldTheorems, FiniteSetTheorems, TLAPS

(* The answer the validator reads is a sequence of these.                   *)
Entry(inst) ==
    [key : Ops(inst) \cup {Stray}, machine : Int, start : Int, duration : Int]

Good(inst) ==
    /\ inst.machines \in Nat
    /\ inst.jobs \in Seq(Seq([machine : Machines(inst), duration : Nat]))
    /\ Ops(inst) # {} /\ Stray \notin Ops(inst)
    /\ Orders(inst) \subseteq [Machines(inst) -> Seq(Ops(inst) \cup {Stray})]
    /\ Outputs(inst) \subseteq Seq(Entry(inst))

Typed(inst, seqs) == seqs \in [Machines(inst) -> Seq(Ops(inst) \cup {Stray})]

(* The instance was loaded from a file.                                     *)
LEMMA LoadedIsGood ==
    ASSUME NEW file \in Files PROVE Good(LoadInstance(file))
BY FilesAssumption, Zenon DEF Good, Entry

LEMMA OpFacts ==
    ASSUME NEW inst, Good(inst), NEW x \in Ops(inst)
    PROVE /\ Duration(inst, x) \in Nat
          /\ Machine(inst, x) \in Machines(inst)
          /\ x = <<x[1], x[2]>>
          /\ x[1] \in DOMAIN inst.jobs
          /\ x[2] \in DOMAIN inst.jobs[x[1]]
          /\ x[1] \in Nat
          /\ x[2] \in Nat
<1> DEFINE Op == [machine : Machines(inst), duration : Nat]
<1>1. PICK j \in DOMAIN inst.jobs : x \in {j} \X DOMAIN inst.jobs[j]
  BY DEF Ops
<1>2. x = <<x[1], x[2]>> /\ x[1] = j /\ x[2] \in DOMAIN inst.jobs[j]
  BY <1>1
<1>3. inst.jobs \in Seq(Seq(Op))
  BY DEF Good
<1>4. inst.jobs[j] \in Seq(Op) /\ j \in Nat
  <2> HIDE DEF Op
  <2> QED BY <1>1, <1>3
<1>5. inst.jobs[j][x[2]] \in Op /\ x[2] \in Nat
  <2> HIDE DEF Op
  <2> QED BY <1>2, <1>4
<1>6. inst.jobs[x[1]][x[2]] \in Op
  BY <1>2, <1>5
<1>7. /\ inst.jobs[x[1]][x[2]].machine \in Machines(inst)
      /\ inst.jobs[x[1]][x[2]].duration \in Nat
  BY <1>6
<1> QED
  BY <1>1, <1>2, <1>4, <1>5, <1>7 DEF Duration, Machine

-----------------------------------------------------------------------------
(* There are finitely many edges, so their number is a number.              *)
LEMMA ImageFinite ==
    ASSUME NEW S, IsFiniteSet(S), NEW f, DOMAIN f = S
    PROVE IsFiniteSet({f[x] : x \in S})
<1> DEFINE T == {f[x] : x \in S}
           g == [x \in S |-> f[x]]
<1>1. g \in Surjection(S, T)
  BY DEF Surjection
<1> QED
  BY <1>1, FS_Surjection

LEMMA RowFinite ==
    ASSUME NEW S, NEW s \in Seq(S) PROVE IsFiniteSet(DOMAIN s)
<1>1. DOMAIN s = 1 .. Len(s) /\ Len(s) \in Int
  OBVIOUS
<1> QED
  BY <1>1, FS_Interval

LEMMA OpsFinite ==
    ASSUME NEW inst, Good(inst) PROVE IsFiniteSet(Ops(inst))
<1> DEFINE f == [j \in DOMAIN inst.jobs |-> {j} \X DOMAIN inst.jobs[j]]
           S == {f[j] : j \in DOMAIN inst.jobs}
           Op == [machine : Machines(inst), duration : Nat]
<1>1. inst.jobs \in Seq(Seq(Op))
  BY DEF Good
<1>2. IsFiniteSet(DOMAIN inst.jobs)
  BY <1>1, RowFinite
<1>3. IsFiniteSet(S)
  <2> HIDE DEF f
  <2>1. DOMAIN f = DOMAIN inst.jobs
    BY DEF f
  <2> QED
    BY <1>2, <2>1, ImageFinite
<1>4. ASSUME NEW T \in S PROVE IsFiniteSet(T)
  <2>1. PICK j \in DOMAIN inst.jobs : T = {j} \X DOMAIN inst.jobs[j]
    OBVIOUS
  <2>2. inst.jobs[j] \in Seq(Op)
    <3> HIDE DEF Op
    <3> QED BY <1>1
  <2>3. IsFiniteSet(DOMAIN inst.jobs[j])
    BY <2>2, RowFinite
  <2> QED
    BY <2>1, <2>3, FS_Product, FS_Singleton
<1>5. Ops(inst) = UNION S
  BY DEF Ops
<1> QED
  BY <1>3, <1>4, <1>5, FS_UNION

(* The bounds of the models: a horizon that holds every operation one after *)
(* another, and a big M that holds the longest operation on top of it.      *)
LEMMA DurationsAdd ==
    ASSUME NEW inst, Good(inst), NEW S \in SUBSET Ops(inst)
    PROVE  /\ TotalDuration(inst, S) \in Nat
           /\ TotalDuration(inst, S) <= TotalDuration(inst, Ops(inst))
           /\ \A x \in Ops(inst) \ S :
                 TotalDuration(inst, S \cup {x})
                    = TotalDuration(inst, S) + Duration(inst, x)
<1> DEFINE f == [x \in Ops(inst) |-> Duration(inst, x)]
<1>1. \A x \in Ops(inst) : f[x] \in Nat /\ f[x] = Duration(inst, x)
  BY OpFacts
<1>2. IsFiniteSet(Ops(inst)) /\ IsFiniteSet(S)
  BY OpsFinite, FS_Subset
<1>3. \A T : TotalDuration(inst, T) = SumFunctionOnSet(f, T)
  BY DEF TotalDuration
<1> HIDE DEF f
<1>4. SumFunctionOnSet(f, S) \in Nat
      /\ SumFunctionOnSet(f, S) <= SumFunctionOnSet(f, Ops(inst))
  BY <1>1, <1>2, SumType, SumOverPart
<1>5. ASSUME NEW x \in Ops(inst) \ S
      PROVE  SumFunctionOnSet(f, S \cup {x}) = SumFunctionOnSet(f, S) + f[x]
  BY <1>1, <1>2, SumWithOneMore
<1> QED
  BY <1>1, <1>3, <1>4, <1>5

LEMMA BoundFacts ==
    ASSUME NEW inst, Good(inst)
    PROVE  /\ Horizon(inst) \in Nat /\ BigM(inst) \in Nat
           /\ TotalDuration(inst, Ops(inst)) <= Horizon(inst)
           /\ \A x \in Ops(inst) : Horizon(inst) + Duration(inst, x) <= BigM(inst)
<1> DEFINE total == TotalDuration(inst, Ops(inst))
           D == {Duration(inst, x) : x \in Ops(inst)}
<1>1. total \in Nat
  BY DurationsAdd
<1> HIDE DEF total
<1>2. Max({1, total}) \in {1, total} /\ \A y \in {1, total} : Max({1, total}) >= y
  <2>1. \E m \in {1, total} : \A y \in {1, total} : m >= y
    BY <1>1
  <2> QED BY <2>1 DEF Max
<1>3. Horizon(inst) \in Nat /\ total <= Horizon(inst)
  <2>1. Horizon(inst) = Max({1, total})
    BY DEF Horizon, total
  <2> QED BY <1>1, <1>2, <2>1, SMT
<1>4. Max(D) \in D /\ \A y \in D : Max(D) >= y
  <2>1. IsFiniteSet(D)
    <3> DEFINE f == [x \in Ops(inst) |-> Duration(inst, x)]
    <3>1. DOMAIN f = Ops(inst) /\ D = {f[x] : x \in Ops(inst)}
      OBVIOUS
    <3> HIDE DEF f, D
    <3> QED BY <3>1, OpsFinite, ImageFinite
  <2>2. D \subseteq Nat /\ D # {}
    BY OpFacts DEF Good
  <2> HIDE DEF D
  <2>3. \E m \in D : \A y \in D : y <= m
    BY <2>1, <2>2, GreatestNatural
  <2>4. \E m \in D : \A y \in D : m >= y
    BY <2>2, <2>3, SMT
  <2> QED BY <2>4 DEF Max
<1>5. \A x \in Ops(inst) : Duration(inst, x) \in Nat /\ Max(D) >= Duration(inst, x)
  BY <1>4, OpFacts
<1>6. Max(D) \in Nat
  BY <1>4, OpFacts
<1>7. BigM(inst) = Horizon(inst) + Max(D)
  BY DEF BigM
<1> HIDE DEF D
<1> QED
  BY <1>3, <1>5, <1>6, <1>7, SMT DEF total

LEMMA PositionsFinite ==
    ASSUME NEW inst, Good(inst), NEW seqs, Typed(inst, seqs)
    PROVE IsFiniteSet(Positions(seqs))
<1> DEFINE f == [m \in DOMAIN seqs |-> {m} \X DOMAIN seqs[m]]
           S == {f[m] : m \in DOMAIN seqs}
<1>1. DOMAIN seqs = 0 .. inst.machines - 1 /\ inst.machines - 1 \in Int
  BY DEF Good, Typed, Machines
<1>2. IsFiniteSet(DOMAIN seqs)
  BY <1>1, FS_Interval
<1>3. IsFiniteSet(S)
  <2> HIDE DEF f
  <2>1. DOMAIN f = DOMAIN seqs
    BY DEF f
  <2> QED
    BY <1>2, <2>1, ImageFinite
<1>4. ASSUME NEW T \in S PROVE IsFiniteSet(T)
  <2>1. PICK m \in DOMAIN seqs : T = {m} \X DOMAIN seqs[m]
    OBVIOUS
  <2>2. seqs[m] \in Seq(Ops(inst) \cup {Stray})
    BY DEF Typed
  <2>3. IsFiniteSet(DOMAIN seqs[m])
    BY <2>2, RowFinite
  <2> QED
    BY <2>1, <2>3, FS_Product, FS_Singleton
<1>5. Positions(seqs) = UNION S
  BY DEF Positions
<1> QED
  BY <1>3, <1>4, <1>5, FS_UNION

LEMMA EdgesFinite ==
    ASSUME NEW inst, Good(inst), NEW seqs, Typed(inst, seqs), NEW a
    PROVE IsFiniteSet(Edges(a, inst, seqs))
<1> DEFINE j == [x \in JobPairs(inst) |->
                   [from |-> x, to |-> <<x[1], x[2] + 1>>,
                    kind |-> "job", at |-> x]]
           m == [p \in MachinePairs(inst, seqs) |->
                   [from |-> At(seqs, p), to |-> At(seqs, <<p[1], p[2] + 1>>),
                    kind |-> "machine", at |-> p]]
           all == JobEdges(inst) \cup MachineEdges(inst, seqs)
           apart == {d \in all : d.from # d.to}
           any == [e \in apart |->
                     [from |-> e.from, to |-> e.to,
                      kind |-> "any", at |-> e.from]]
<1>1. IsFiniteSet(JobPairs(inst)) /\ IsFiniteSet(MachinePairs(inst, seqs))
  BY OpsFinite, PositionsFinite, FS_Subset DEF JobPairs, MachinePairs
<1>2. IsFiniteSet({j[x] : x \in JobPairs(inst)})
  <2>1. DOMAIN j = JobPairs(inst)
    OBVIOUS
  <2> HIDE DEF j
  <2> QED BY <1>1, <2>1, ImageFinite
<1>3. IsFiniteSet({m[p] : p \in MachinePairs(inst, seqs)})
  <2>1. DOMAIN m = MachinePairs(inst, seqs)
    OBVIOUS
  <2> HIDE DEF m
  <2> QED BY <1>1, <2>1, ImageFinite
<1>4. JobEdges(inst) = {j[x] : x \in JobPairs(inst)}
  BY DEF JobEdges
<1>5. MachineEdges(inst, seqs) = {m[p] : p \in MachinePairs(inst, seqs)}
  BY DEF MachineEdges
<1>6. IsFiniteSet(all) /\ IsFiniteSet(apart)
  BY <1>2, <1>3, <1>4, <1>5, FS_Union, FS_Subset
<1>7. IsFiniteSet({any[e] : e \in apart})
  <2>1. DOMAIN any = apart
    OBVIOUS
  <2> HIDE DEF any, apart
  <2> QED BY <1>6, <2>1, ImageFinite
<1>8. Edges(a, inst, seqs) \in {all, {any[e] : e \in apart}}
  BY DEF Edges
<1> QED
  BY <1>6, <1>7, <1>8

-----------------------------------------------------------------------------
(* What the edges join.                                                     *)
LEMMA PairFacts ==
    ASSUME NEW inst, Good(inst), NEW seqs, Typed(inst, seqs)
    PROVE /\ \A p \in Positions(seqs) :
               /\ p = <<p[1], p[2]>>
               /\ p[1] \in Machines(inst) /\ p[1] \in Nat
               /\ p[2] \in Nat \ {0}
               /\ p[2] > 1 => <<p[1], p[2] - 1>> \in Positions(seqs)
               /\ At(seqs, p) \in Ops(inst) \cup {Stray}
<1> SUFFICES ASSUME NEW p \in Positions(seqs)
             PROVE /\ p = <<p[1], p[2]>>
                   /\ p[1] \in Machines(inst) /\ p[1] \in Nat
                   /\ p[2] \in Nat \ {0}
                   /\ p[2] > 1 => <<p[1], p[2] - 1>> \in Positions(seqs)
                   /\ At(seqs, p) \in Ops(inst) \cup {Stray}
  OBVIOUS
<1>1. PICK m \in DOMAIN seqs : p \in {m} \X DOMAIN seqs[m]
  BY DEF Positions
<1>2. p = <<p[1], p[2]>> /\ p[1] = m /\ p[2] \in DOMAIN seqs[m]
  BY <1>1
<1>3. m \in Machines(inst) /\ seqs[m] \in Seq(Ops(inst) \cup {Stray})
  BY DEF Typed
<1>4. m \in Nat
  BY <1>3 DEF Machines, Good
<1>5. p[2] \in 1 .. Len(seqs[m]) /\ Len(seqs[m]) \in Nat
  BY <1>2, <1>3
<1>6. ASSUME p[2] > 1 PROVE <<p[1], p[2] - 1>> \in Positions(seqs)
  <2>1. p[2] - 1 \in DOMAIN seqs[m]
    BY <1>3, <1>5, <1>6
  <2>2. <<m, p[2] - 1>> \in {m} \X DOMAIN seqs[m]
    BY <2>1
  <2> QED
    BY <1>2, <2>2 DEF Positions
<1>7. At(seqs, p) \in Ops(inst) \cup {Stray}
  BY <1>2, <1>3, <1>5 DEF At
<1> QED
  BY <1>2, <1>3, <1>4, <1>5, <1>6, <1>7

AllEdges(inst, seqs) == JobEdges(inst) \cup MachineEdges(inst, seqs)

LEMMA EdgesStandForAll ==
    ASSUME NEW inst, NEW seqs, NEW a
    PROVE /\ \A e \in Edges(a, inst, seqs) : \E d \in AllEdges(inst, seqs) :
                e.from = d.from /\ e.to = d.to
          /\ \A d \in AllEdges(inst, seqs) : d.from # d.to =>
                \E e \in Edges(a, inst, seqs) : e.from = d.from /\ e.to = d.to
<1> USE DEF AllEdges
<1>1. CASE a = "solverforge-py"
  <2> DEFINE plain(d) == [from |-> d.from, to |-> d.to,
                          kind |-> "any", at |-> d.from]
             apart == {d \in AllEdges(inst, seqs) : d.from # d.to}
  <2>1. Edges(a, inst, seqs) = {plain(e) : e \in apart}
    BY <1>1 DEF Edges
  <2>2. \A d : plain(d).from = d.from /\ plain(d).to = d.to
    OBVIOUS
  <2>3. \A e \in Edges(a, inst, seqs) : \E d \in apart : e = plain(d)
    BY <2>1
  <2>4. \A d \in apart : plain(d) \in Edges(a, inst, seqs)
    BY <2>1
  <2> HIDE DEF plain
  <2> QED
    BY <2>2, <2>3, <2>4
<1>2. CASE a # "solverforge-py"
  BY <1>2 DEF Edges
<1> QED
  BY <1>1, <1>2

LEMMA EdgeEnds ==
    ASSUME NEW inst, NEW seqs
    PROVE /\ \A d \in JobEdges(inst) : \E x \in JobPairs(inst) :
                d.from = x /\ d.to = <<x[1], x[2] + 1>>
          /\ \A d \in MachineEdges(inst, seqs) :
                \E p \in MachinePairs(inst, seqs) :
                   /\ d.from = At(seqs, p)
                   /\ d.to = At(seqs, <<p[1], p[2] + 1>>)
<1>1. ASSUME NEW d \in JobEdges(inst)
      PROVE \E x \in JobPairs(inst) : d.from = x /\ d.to = <<x[1], x[2] + 1>>
  <2>1. PICK x \in JobPairs(inst) :
            d = [from |-> x, to |-> <<x[1], x[2] + 1>>,
                 kind |-> "job", at |-> x]
    BY DEF JobEdges
  <2>2. d.from = x /\ d.to = <<x[1], x[2] + 1>>
    BY <2>1
  <2> QED BY <2>2
<1>2. ASSUME NEW d \in MachineEdges(inst, seqs)
      PROVE \E p \in MachinePairs(inst, seqs) :
                d.from = At(seqs, p) /\ d.to = At(seqs, <<p[1], p[2] + 1>>)
  <2>1. PICK p \in MachinePairs(inst, seqs) :
            d = [from |-> At(seqs, p), to |-> At(seqs, <<p[1], p[2] + 1>>),
                 kind |-> "machine", at |-> p]
    BY DEF MachineEdges
  <2>2. d.from = At(seqs, p) /\ d.to = At(seqs, <<p[1], p[2] + 1>>)
    BY <2>1
  <2> QED BY <2>2
<1> QED
  BY <1>1, <1>2

LEMMA EdgesJoinOps ==
    ASSUME NEW inst, NEW seqs, NEW a, NEW e \in Edges(a, inst, seqs)
    PROVE e.from \in Ops(inst) /\ e.to \in Ops(inst)
<1>1. PICK d \in AllEdges(inst, seqs) : e.from = d.from /\ e.to = d.to
  BY EdgesStandForAll
<1>2. CASE d \in JobEdges(inst)
  BY <1>1, <1>2, EdgeEnds DEF JobPairs
<1>3. CASE d \in MachineEdges(inst, seqs)
  <2>1. PICK p \in MachinePairs(inst, seqs) :
            /\ d.from = At(seqs, p)
            /\ d.to = At(seqs, <<p[1], p[2] + 1>>)
    BY <1>3, EdgeEnds
  <2>2. At(seqs, p) \in Ops(inst) /\ At(seqs, <<p[1], p[2] + 1>>) \in Ops(inst)
    BY DEF MachinePairs
  <2> QED
    BY <1>1, <2>1, <2>2
<1> QED
  BY <1>2, <1>3 DEF AllEdges

LEMMA EdgeOfJob ==
    ASSUME NEW inst, Good(inst), NEW seqs, NEW a, NEW x \in JobPairs(inst)
    PROVE \E e \in Edges(a, inst, seqs) :
              e.from = x /\ e.to = <<x[1], x[2] + 1>>
<1> DEFINE next == <<x[1], x[2] + 1>>
           d == [from |-> x, to |-> next, kind |-> "job", at |-> x]
<1>1. d \in AllEdges(inst, seqs)
  BY DEF JobEdges, AllEdges
<1>2. x # next
  <2>1. x[2] \in Nat /\ next[2] = x[2] + 1
    BY OpFacts DEF JobPairs
  <2> QED BY <2>1
<1>3. d.from = x /\ d.to = next
  OBVIOUS
<1>4. d.from # d.to
  BY <1>2, <1>3
<1> HIDE DEF d
<1>5. PICK e \in Edges(a, inst, seqs) : e.from = d.from /\ e.to = d.to
  BY <1>1, <1>4, EdgesStandForAll
<1> QED
  BY <1>3, <1>5

LEMMA EdgeOfMachine ==
    ASSUME NEW inst, NEW seqs, NEW a, NEW p \in MachinePairs(inst, seqs),
           At(seqs, p) # At(seqs, <<p[1], p[2] + 1>>)
    PROVE \E e \in Edges(a, inst, seqs) :
              e.from = At(seqs, p) /\ e.to = At(seqs, <<p[1], p[2] + 1>>)
<1> DEFINE d == [from |-> At(seqs, p), to |-> At(seqs, <<p[1], p[2] + 1>>),
                 kind |-> "machine", at |-> p]
<1>1. d \in AllEdges(inst, seqs)
  BY DEF MachineEdges, AllEdges
<1>2. d.from = At(seqs, p) /\ d.to = At(seqs, <<p[1], p[2] + 1>>)
  OBVIOUS
<1>3. d.from # d.to
  BY <1>2
<1> HIDE DEF d
<1>4. PICK e \in Edges(a, inst, seqs) : e.from = d.from /\ e.to = d.to
  BY <1>1, <1>3, EdgesStandForAll
<1> QED
  BY <1>2, <1>4

(* An edge is an operation waiting for another.                             *)
LEMMA EdgesWait ==
    ASSUME NEW inst, Good(inst), NEW seqs, Typed(inst, seqs), NEW a,
           NEW e \in Edges(a, inst, seqs)
    PROVE WaitsFor(inst, seqs, e.to, e.from)
<1>1. PICK d \in JobEdges(inst) \cup MachineEdges(inst, seqs) :
          e.from = d.from /\ e.to = d.to
  BY EdgesStandForAll DEF AllEdges
<1>2. CASE d \in JobEdges(inst)
  BY <1>1, <1>2, EdgeEnds DEF WaitsFor
<1>3. CASE d \in MachineEdges(inst, seqs)
  <2>1. PICK p \in MachinePairs(inst, seqs) :
            e.from = At(seqs, p) /\ e.to = At(seqs, <<p[1], p[2] + 1>>)
    BY <1>1, <1>3, EdgeEnds
  <2>2. p \in Positions(seqs) /\ <<p[1], p[2] + 1>> \in Positions(seqs)
    BY DEF MachinePairs
  <2>3. /\ p[1] \in DOMAIN seqs /\ p[2] \in Nat \ {0}
        /\ p[2] + 1 \in DOMAIN seqs[p[1]]
        /\ seqs[p[1]] \in Seq(Ops(inst) \cup {Stray})
    BY <2>2, PairFacts DEF Positions, Typed
  <2>4. p[2] \in 1 .. Len(seqs[p[1]]) - 1
    BY <2>3
  <2> QED
    BY <2>1, <2>3, <2>4 DEF WaitsFor, At
<1> QED
  BY <1>1, <1>2, <1>3

(* Without a penalty every operation is in one place, on its machine.       *)
LEMMA PenaltyFacts ==
    ASSUME NEW inst, Good(inst), NEW seqs, Typed(inst, seqs)
    PROVE /\ AssignmentPenalty(inst, seqs) \in Nat
          /\ AssignmentPenalty(inst, seqs) = 0 =>
               /\ Misplaced(inst, seqs) = {}
               /\ Repeated(inst, seqs) = {}
               /\ Unassigned(inst, seqs) = {}
<1>1. /\ IsFiniteSet(Misplaced(inst, seqs))
      /\ IsFiniteSet(Repeated(inst, seqs))
      /\ IsFiniteSet(Unassigned(inst, seqs))
  BY OpsFinite, PositionsFinite, FS_Subset DEF Misplaced, Repeated, Unassigned
<1>2. /\ Cardinality(Misplaced(inst, seqs)) \in Nat
      /\ Cardinality(Repeated(inst, seqs)) \in Nat
      /\ Cardinality(Unassigned(inst, seqs)) \in Nat
  BY <1>1, FS_CardinalityType
<1> QED
  BY <1>1, <1>2, FS_EmptySet DEF AssignmentPenalty

-----------------------------------------------------------------------------
(* The inductive invariant.  An edge is waiting until its source has been   *)
(* processed; in-degrees count waiting edges; what has been processed has   *)
(* none.  Adjacent operations on a machine are joined by edges, but the     *)
(* order of any two needs a part of its own (Chain): it is built up as the  *)
(* pass goes, one neighbour at a time.                                      *)
Waiting(y) == {e \in Into(edges, y) : e.from \notin DOMAIN starts}

Pass ==
    /\ edges = Edges(adapter, instance, sequences)
    /\ penalty = AssignmentPenalty(instance, sequences)
    /\ \A y \in Ops(instance) : indegree[y] = Cardinality(Waiting(y))
    /\ \A y \in ready : Waiting(y) = {} /\ y \notin DOMAIN starts
    /\ \A y \in DOMAIN starts : Waiting(y) = {} /\ starts[y] = earliest[y]
    /\ \A e \in edges : e.from \in DOMAIN starts =>
          Finish(instance, starts, e.from) <= earliest[e.to]
    /\ \A y \in Ops(instance) :
          \/ earliest[y] = 0
          \/ \E e \in Into(edges, y) :
                /\ e.from \in DOMAIN starts
                /\ Finish(instance, starts, e.from) = earliest[y]

Chain ==
    penalty = 0 =>
        \A p, q \in Positions(sequences) :
            p[1] = q[1] /\ p[2] < q[2] /\ At(sequences, q) \in DOMAIN starts =>
                /\ At(sequences, p) \in DOMAIN starts
                /\ Finish(instance, starts, At(sequences, p))
                      <= starts[At(sequences, q)]

Inv ==
    /\ TypeInv
    /\ Good(instance)
    /\ phase \in {"solving", "returned"} => starts = <<>> /\ penalty = 0
    /\ phase \in {"returned", "sorting"} =>
          adapter \in ListAdapters /\ Typed(instance, sequences)
    /\ phase = "sorting" => Pass /\ Chain
    /\ PublishedIsFeasible
    /\ NoIdleStart

-----------------------------------------------------------------------------
LEMMA InitInv == Init => Inv
<1> SUFFICES ASSUME Init PROVE Inv
  OBVIOUS
<1>1. Good(instance)
  BY LoadedIsGood DEF Init
<1>2. DOMAIN starts = {}
  BY DEF Init
<1> QED
  BY <1>1, <1>2 DEF Init, Inv, TypeInv, PublishedIsFeasible, NoIdleStart, Done

(* Starts that a model's rows allow are feasible.                           *)
LEMMA AllowedIsFeasible ==
    ASSUME NEW inst, Good(inst), NEW a \in ModelAdapters, NEW makespan,
           NEW s \in [Ops(inst) -> 0 .. Horizon(inst)],
           Allows(a, inst, s, makespan)
    PROVE /\ \A x \in JobPairs(inst) :
               Finish(inst, s, x) <= s[<<x[1], x[2] + 1>>]
          /\ \A x, y \in Ops(inst) :
               x # y /\ Machine(inst, x) = Machine(inst, y)
                  => Apart(inst, s, x, y)
<1>1. \A x \in Ops(inst) : s[x] \in Nat /\ Duration(inst, x) \in Nat
  <2>1. Horizon(inst) \in Nat
    BY BoundFacts
  <2>2. \A x \in Ops(inst) : s[x] \in 0 .. Horizon(inst)
    OBVIOUS
  <2>3. \A x \in Ops(inst) : s[x] \in Nat
    BY <2>1, <2>2
  <2> QED
    BY <2>3, OpFacts
<1>2. BigM(inst) \in Nat
  BY BoundFacts
<1>3. ASSUME NEW x \in JobPairs(inst)
      PROVE Finish(inst, s, x) <= s[<<x[1], x[2] + 1>>]
  <2>1. s[<<x[1], x[2] + 1>>] - s[x] >= Duration(inst, x)
    BY DEF Allows, HighsAllows, OrtoolsAllows, ChainsHold
  <2>2. x \in Ops(inst) /\ <<x[1], x[2] + 1>> \in Ops(inst)
    BY DEF JobPairs
  <2> QED
    BY <1>1, <2>1, <2>2 DEF Finish
<1>4. ASSUME NEW xy \in SharedPairs(inst) PROVE Apart(inst, s, xy[1], xy[2])
  <2>1. xy[1] \in Ops(inst) /\ xy[2] \in Ops(inst)
    BY DEF SharedPairs
  <2>2. CASE a = "highs"
    <3>1. PICK first \in 0 .. 1 : PairRows(inst, s, xy[1], xy[2], first)
      BY <2>2 DEF Allows, HighsAllows
    <3>2. CASE first = 0
      BY <1>1, <1>2, <2>1, <3>1, <3>2 DEF PairRows, Apart, Finish
    <3>3. CASE first = 1
      BY <1>1, <1>2, <2>1, <3>1, <3>3 DEF PairRows, Apart, Finish
    <3> QED
      BY <3>2, <3>3
  <2>3. CASE a # "highs"
    BY <2>3 DEF Allows, OrtoolsAllows, Apart
  <2> QED
    BY <2>2, <2>3
<1>5. ASSUME NEW x \in Ops(inst), NEW y \in Ops(inst), x # y,
             Machine(inst, x) = Machine(inst, y)
      PROVE Apart(inst, s, x, y)
  <2>1. Before(x, y) \/ Before(y, x)
    <3>1. /\ x = <<x[1], x[2]>> /\ x[1] \in Nat /\ x[2] \in Nat
          /\ y = <<y[1], y[2]>> /\ y[1] \in Nat /\ y[2] \in Nat
      BY OpFacts
    <3>2. x[1] # y[1] \/ x[2] # y[2]
      BY <1>5, <3>1
    <3>3. \/ x[1] < y[1] \/ (x[1] = y[1] /\ x[2] < y[2])
          \/ y[1] < x[1] \/ (y[1] = x[1] /\ y[2] < x[2])
      BY <3>1, <3>2, SMT
    <3> QED BY <3>3, Zenon DEF Before
  <2>2. Machine(inst, x) \in Machines(inst)
    BY OpFacts
  <2>3. CASE Before(x, y)
    <3>1. <<x, y>> \in SharedPairs(inst)
      BY <1>5, <2>2, <2>3 DEF SharedPairs
    <3> QED BY <3>1, <1>4
  <2>4. CASE Before(y, x)
    <3>1. <<y, x>> \in SharedPairs(inst)
      BY <1>5, <2>2, <2>4 DEF SharedPairs
    <3> QED BY <3>1, <1>4 DEF Apart
  <2> QED
    BY <2>1, <2>3, <2>4
<1> QED
  BY <1>3, <1>5

(* The graph as it is built.                                                *)
LEMMA BuildInv == ASSUME Inv, BuildGraph PROVE Inv'
<1> USE DEF BuildGraph
<1>1. /\ Good(instance) /\ Typed(instance, sequences)
      /\ adapter \in ListAdapters /\ starts = <<>> /\ TypeInv
  BY DEF Inv
<1>2. DOMAIN starts = {} /\ DOMAIN starts' = {}
  BY <1>1
<1>3. IsFiniteSet(edges')
  BY <1>1, EdgesFinite
<1>4. ASSUME NEW y \in Ops(instance)
      PROVE /\ Waiting(y)' = Into(edges', y)
            /\ indegree'[y] \in Nat
            /\ indegree'[y] = Cardinality(Waiting(y)')
            /\ indegree'[y] = 0 => Waiting(y)' = {}
  <2>1. Waiting(y)' = Into(edges', y)
    BY <1>2 DEF Waiting, Into
  <2>2. IsFiniteSet(Into(edges', y))
    BY <1>3, FS_Subset DEF Into
  <2> QED
    BY <2>1, <2>2, FS_CardinalityType, FS_EmptySet DEF InDegree
<1>5. penalty' \in Nat
  BY <1>1, PenaltyFacts
<1>6. TypeInv'
  <2>1. indegree' \in [Ops(instance) -> Nat]
    BY <1>4
  <2> QED
    BY <1>1, <1>2, <1>5, <2>1 DEF TypeInv
<1>7. Pass'
  BY <1>2, <1>4 DEF Pass
<1>8. Chain'
  BY <1>2 DEF Chain
<1> QED
  BY <1>1, <1>6, <1>7, <1>8 DEF Inv, PublishedIsFeasible, NoIdleStart, Done

(* One turn of the loop.  x leaves no edge waiting behind it: none goes to  *)
(* what has been processed, nor to x itself.                                *)
LEMMA ProcessInv ==
    ASSUME Inv, NEW x \in Ops(instance), Process(x) PROVE Inv'
<1> DEFINE D == DOMAIN starts
<1>1. /\ Good(instance) /\ Typed(instance, sequences)
      /\ adapter \in ListAdapters /\ TypeInv /\ Pass /\ Chain
      /\ phase = "sorting" /\ x \in ready
  BY DEF Inv, Process
<1>2. UNCHANGED <<adapter, instance, phase, sequences, edges, penalty>>
  BY DEF Process
<1>3. /\ edges = Edges(adapter, instance, sequences) /\ IsFiniteSet(edges)
      /\ \A e \in edges : e.from \in Ops(instance) /\ e.to \in Ops(instance)
  BY <1>1, EdgesFinite, EdgesJoinOps DEF Pass
<1>4. x \notin D /\ Waiting(x) = {}
  BY <1>1 DEF Pass
<1>5. /\ DOMAIN starts' = D \cup {x}
      /\ starts'[x] = earliest[x]
      /\ \A y \in D : starts'[y] = starts[y]
  BY <1>4 DEF Process
<1>6. ASSUME NEW y \in D \cup {x} PROVE Waiting(y) = {} /\ Between(edges, x, y) = {}
  <2>1. Waiting(y) = {}
    BY <1>1, <1>4 DEF Pass
  <2> QED
    BY <1>4, <2>1 DEF Waiting, Between, Into
<1>7. D \subseteq Ops(instance) /\ ready \subseteq Ops(instance)
  BY <1>1 DEF TypeInv
<1>8. /\ indegree \in [Ops(instance) -> Nat] /\ earliest \in [Ops(instance) -> Nat]
      /\ \A y \in Ops(instance) : Duration(instance, y) \in Nat
  BY <1>1, OpFacts DEF TypeInv
<1>9. ASSUME NEW y \in Ops(instance)
      PROVE /\ Waiting(y)' = Waiting(y) \ Between(edges, x, y)
            /\ indegree'[y] \in Nat
            /\ indegree'[y] = Cardinality(Waiting(y)')
            /\ indegree'[y] = 0 => Waiting(y)' = {}
  <2>1. Waiting(y)' = Waiting(y) \ Between(edges, x, y)
    BY <1>2, <1>5 DEF Waiting, Between, Into
  <2>2. Waiting(y) \cap Between(edges, x, y) = Between(edges, x, y)
    BY <1>4 DEF Waiting, Between, Into
  <2>3. IsFiniteSet(Waiting(y))
    BY <1>3, FS_Subset DEF Waiting, Into
  <2>4. /\ IsFiniteSet(Waiting(y)')
        /\ Cardinality(Waiting(y)') =
              Cardinality(Waiting(y)) - Cardinality(Between(edges, x, y))
    BY <2>1, <2>2, <2>3, FS_Difference
  <2>5. indegree'[y] = Cardinality(Waiting(y)) - Cardinality(Between(edges, x, y))
    BY <1>1 DEF Process, Pass
  <2> QED
    BY <2>1, <2>4, <2>5, FS_CardinalityType, FS_EmptySet
<1>10. ASSUME NEW y \in Ops(instance)
       PROVE /\ earliest'[y] \in Nat
             /\ earliest'[y] >= earliest[y]
             /\ Between(edges, x, y) = {} => earliest'[y] = earliest[y]
             /\ Between(edges, x, y) # {} =>
                  /\ earliest'[y] >= Finish(instance, starts', x)
                  /\ \/ earliest'[y] = earliest[y]
                     \/ earliest'[y] = Finish(instance, starts', x)
  <2>1. earliest'[y] = IF Between(edges, x, y) = {} THEN earliest[y]
                       ELSE Later(earliest[y], Finish(instance, earliest, x))
    BY DEF Process
  <2>2. Finish(instance, earliest, x) \in Nat
    BY <1>8 DEF Finish
  <2>3. Finish(instance, starts', x) = Finish(instance, earliest, x)
    BY <1>5 DEF Finish
  <2> QED
    BY <1>8, <2>1, <2>2, <2>3 DEF Later
<1>11. \A y \in D : Finish(instance, starts', y) = Finish(instance, starts, y)
  BY <1>5 DEF Finish
<1>12. TypeInv'
  <2>1. indegree' \in [Ops(instance) -> Nat]
    BY <1>9 DEF Process
  <2>2. earliest' \in [Ops(instance) -> Nat]
    BY <1>10 DEF Process
  <2>3. \A y \in DOMAIN starts' : starts'[y] \in Nat
    BY <1>1, <1>5, <1>8 DEF TypeInv
  <2>4. ready' \subseteq Ops(instance)
    BY <1>7 DEF Process
  <2> QED
    BY <1>1, <1>2, <1>5, <1>7, <2>1, <2>2, <2>3, <2>4 DEF TypeInv
<1>13. Pass'
  <2>1. \A y \in Ops(instance) : indegree'[y] = Cardinality(Waiting(y)')
    BY <1>9
  <2>2. ASSUME NEW y \in ready' PROVE Waiting(y)' = {} /\ y \notin DOMAIN starts'
    <3>1. CASE y \in ready \ {x}
      <4>1. Waiting(y) = {} /\ y \notin D
        BY <1>1, <3>1 DEF Pass
      <4> QED
        BY <1>5, <1>7, <1>9, <3>1, <4>1
    <3>2. CASE y \notin ready \ {x}
      <4>1. y \in Ops(instance) /\ Between(edges, x, y) # {} /\ indegree'[y] = 0
        BY <3>2 DEF Process
      <4> QED
        BY <1>5, <1>6, <1>9, <4>1
    <3> QED
      BY <3>1, <3>2
  <2>3. ASSUME NEW y \in DOMAIN starts'
        PROVE Waiting(y)' = {} /\ starts'[y] = earliest'[y]
    <3>1. y \in Ops(instance) /\ y \in D \cup {x}
      BY <1>5, <1>7
    <3>2. Waiting(y) = {} /\ Between(edges, x, y) = {}
      BY <1>6, <3>1
    <3>3. starts'[y] = earliest[y]
      BY <1>1, <1>5, <3>1 DEF Pass
    <3> QED
      BY <1>9, <1>10, <3>1, <3>2, <3>3
  <2>4. ASSUME NEW e \in edges, e.from \in DOMAIN starts'
        PROVE Finish(instance, starts', e.from) <= earliest'[e.to]
    <3>1. e.to \in Ops(instance)
      BY <1>3
    <3>2. CASE e.from = x
      <4>1. Between(edges, x, e.to) # {}
        BY <3>2 DEF Between
      <4>2. Finish(instance, starts', x) \in Nat /\ earliest'[e.to] \in Nat
        BY <1>5, <1>8, <1>10, <3>1 DEF Finish
      <4> QED
        BY <1>10, <3>1, <3>2, <4>1, <4>2
    <3>3. CASE e.from # x
      <4>1. e.from \in D
        BY <1>5, <2>4, <3>3
      <4>2. Finish(instance, starts, e.from) <= earliest[e.to]
        BY <1>1, <4>1 DEF Pass
      <4>3. starts[e.from] \in Nat /\ Duration(instance, e.from) \in Nat
        BY <1>1, <1>3, <1>8, <4>1 DEF TypeInv
      <4> QED
        BY <1>8, <1>10, <1>11, <3>1, <4>1, <4>2, <4>3 DEF Finish
    <3> QED
      BY <3>2, <3>3
  <2>5. ASSUME NEW y \in Ops(instance)
        PROVE \/ earliest'[y] = 0
              \/ \E e \in Into(edges, y) :
                    /\ e.from \in DOMAIN starts'
                    /\ Finish(instance, starts', e.from) = earliest'[y]
    <3>1. CASE earliest'[y] = earliest[y]
      <4>1. CASE earliest[y] = 0
        BY <3>1, <4>1
      <4>2. CASE earliest[y] # 0
        <5>1. PICK e \in Into(edges, y) :
                  /\ e.from \in D
                  /\ Finish(instance, starts, e.from) = earliest[y]
          BY <1>1, <4>2 DEF Pass
        <5> QED
          BY <1>5, <1>11, <3>1, <5>1
      <4> QED
        BY <4>1, <4>2
    <3>2. CASE earliest'[y] # earliest[y]
      <4>1. Between(edges, x, y) # {} /\ earliest'[y] = Finish(instance, starts', x)
        BY <1>10, <3>2
      <4>2. PICK e \in Into(edges, y) : e.from = x
        BY <4>1 DEF Between, Into
      <4> QED
        BY <1>5, <4>1, <4>2
    <3> QED
      BY <3>1, <3>2
  <2> QED
    BY <1>1, <1>2, <2>1, <2>2, <2>3, <2>4, <2>5 DEF Pass
<1>14. Chain'
  <2> DEFINE at(p) == At(sequences, p)
  <2> SUFFICES ASSUME penalty = 0,
                      NEW p \in Positions(sequences),
                      NEW q \in Positions(sequences),
                      p[1] = q[1], p[2] < q[2], at(q) \in D \cup {x}
               PROVE /\ at(p) \in D \cup {x}
                     /\ Finish(instance, starts', at(p)) <= starts'[at(q)]
    BY <1>2, <1>5 DEF Chain
  <2>1. CASE at(q) \in D
    BY <1>1, <1>5, <1>11, <2>1 DEF Chain
  <2>2. CASE at(q) = x
    <3> DEFINE r == <<q[1], q[2] - 1>>
    <3>1. /\ p = <<p[1], p[2]>> /\ q = <<q[1], q[2]>>
          /\ p[1] \in Nat /\ p[2] \in Nat \ {0} /\ q[2] \in Nat \ {0}
          /\ r \in Positions(sequences)
      <4>1. /\ p = <<p[1], p[2]>> /\ p[1] \in Nat /\ p[2] \in Nat \ {0}
            /\ q = <<q[1], q[2]>> /\ q[2] \in Nat \ {0}
        BY <1>1, PairFacts
      <4>2. q[2] > 1
        BY <4>1
      <4>3. r \in Positions(sequences)
        BY <1>1, <4>2, PairFacts
      <4> QED
        BY <4>1, <4>3
    <3>2. r[1] = q[1] /\ r[2] = q[2] - 1 /\ <<r[1], r[2] + 1>> = q
      BY <3>1
    <3>3. Misplaced(instance, sequences) = {} /\ Repeated(instance, sequences) = {}
      BY <1>1, PenaltyFacts DEF Pass
    <3>4. at(r) \in Ops(instance) /\ at(q) \in Ops(instance)
      BY <3>1, <3>3 DEF Misplaced
    <3>5. at(r) # at(q)
      <4>1. Before(r, q)
        BY <3>1, <3>2 DEF Before
      <4> QED
        BY <3>1, <3>3, <3>4, <4>1 DEF Repeated
    <3>6. r \in MachinePairs(instance, sequences)
      BY <3>1, <3>2, <3>4 DEF MachinePairs
    <3>7. PICK e \in edges : e.from = at(r) /\ e.to = x
      BY <1>3, <2>2, <3>2, <3>5, <3>6, EdgeOfMachine
    <3>8. at(r) \in D
      BY <1>4, <3>7 DEF Waiting, Into
    <3>9. Finish(instance, starts, at(r)) <= starts'[x]
      BY <1>1, <1>5, <3>7, <3>8 DEF Pass
    <3>10. CASE p[2] = q[2] - 1
      <4>1. p = r
        BY <3>1, <3>10
      <4> QED
        BY <1>11, <2>2, <3>8, <3>9, <4>1
    <3>11. CASE p[2] # q[2] - 1
      <4>1. p[1] = r[1] /\ p[2] < r[2]
        BY <3>1, <3>2, <3>11
      <4>2. at(p) \in D /\ Finish(instance, starts, at(p)) <= starts[at(r)]
        BY <1>1, <3>1, <3>8, <4>1 DEF Chain
      <4>3. /\ starts[at(r)] \in Nat /\ starts[at(p)] \in Nat
            /\ starts'[x] \in Nat
            /\ Duration(instance, at(r)) \in Nat /\ Duration(instance, at(p)) \in Nat
        BY <1>1, <1>5, <1>7, <1>8, <3>8, <4>2 DEF TypeInv
      <4>4. Finish(instance, starts, at(p)) <= starts'[x]
        BY <3>9, <4>2, <4>3 DEF Finish
      <4> QED
        BY <1>11, <2>2, <4>2, <4>4
    <3> QED
      BY <3>10, <3>11
  <2> QED
    BY <2>1, <2>2
<1> QED
  BY <1>1, <1>2, <1>12, <1>13, <1>14 DEF Inv, PublishedIsFeasible, NoIdleStart, Done

(* Nothing is left unprocessed and there is no penalty: the starts are      *)
(* feasible, and each is zero or the end of what was waited for.            *)
LEMMA PublishInv == ASSUME Inv, Publish PROVE Inv'
<1>1. /\ Good(instance) /\ Typed(instance, sequences)
      /\ adapter \in ListAdapters /\ TypeInv /\ Pass /\ Chain
  BY DEF Inv, Publish
<1>2. UNCHANGED <<adapter, instance, sequences, edges, indegree, earliest,
                  ready, penalty, starts>>
  BY DEF Publish
<1>3. penalty = 0 /\ DOMAIN starts = Ops(instance)
  <2>1. IsFiniteSet(Ops(instance) \ DOMAIN starts)
    BY <1>1, OpsFinite, FS_Difference
  <2>2. Cardinality(Ops(instance) \ DOMAIN starts) \in Nat /\ penalty \in Nat
    BY <1>1, <2>1, FS_CardinalityType DEF TypeInv
  <2>3. penalty = 0 /\ Cardinality(Ops(instance) \ DOMAIN starts) = 0
    BY <2>2 DEF Publish, TotalPenalty
  <2>4. Ops(instance) \ DOMAIN starts = {}
    BY <2>1, <2>3, FS_EmptySet
  <2> QED
    BY <1>1, <2>3, <2>4 DEF TypeInv
<1>4. edges = Edges(adapter, instance, sequences)
  BY <1>1 DEF Pass
<1>5. ASSUME NEW x \in JobPairs(instance)
      PROVE Finish(instance, starts, x) <= starts[<<x[1], x[2] + 1>>]
  <2>1. PICK e \in edges : e.from = x /\ e.to = <<x[1], x[2] + 1>>
    BY <1>1, <1>4, EdgeOfJob
  <2>2. x \in Ops(instance) /\ <<x[1], x[2] + 1>> \in Ops(instance)
    BY DEF JobPairs
  <2> QED
    BY <1>1, <1>3, <2>1, <2>2 DEF Pass
<1>6. ASSUME NEW x \in Ops(instance), NEW y \in Ops(instance), x # y,
             Machine(instance, x) = Machine(instance, y)
      PROVE Apart(instance, starts, x, y)
  <2>1. Misplaced(instance, sequences) = {} /\ Unassigned(instance, sequences) = {}
    BY <1>1, <1>3, PenaltyFacts DEF Pass
  <2>2. PICK p \in Positions(sequences) : At(sequences, p) = x
    BY <2>1 DEF Unassigned
  <2>3. PICK q \in Positions(sequences) : At(sequences, q) = y
    BY <2>1 DEF Unassigned
  <2>4. p[1] = Machine(instance, x) /\ q[1] = Machine(instance, y)
    BY <2>1, <2>2, <2>3 DEF Misplaced
  <2>5. /\ p = <<p[1], p[2]>> /\ p[2] \in Nat
        /\ q = <<q[1], q[2]>> /\ q[2] \in Nat
    BY <1>1, PairFacts
  <2>6. p[1] = q[1] /\ (p[2] < q[2] \/ q[2] < p[2])
    BY <1>6, <2>2, <2>3, <2>4, <2>5
  <2> QED
    BY <1>1, <1>3, <2>2, <2>3, <2>6 DEF Chain, Apart
<1>7. ASSUME NEW x \in Ops(instance)
      PROVE \/ starts[x] = 0
            \/ \E y \in Ops(instance) :
                  /\ WaitsFor(instance, sequences, x, y)
                  /\ Finish(instance, starts, y) = starts[x]
  <2>1. starts[x] = earliest[x]
    BY <1>1, <1>3 DEF Pass
  <2>2. CASE earliest[x] = 0
    BY <2>1, <2>2
  <2>3. CASE earliest[x] # 0
    <3>1. PICK e \in Into(edges, x) :
              Finish(instance, starts, e.from) = earliest[x]
      BY <1>1, <2>3 DEF Pass
    <3>2. e \in edges /\ e.to = x
      BY DEF Into
    <3>3. e.from \in Ops(instance) /\ WaitsFor(instance, sequences, x, e.from)
      BY <1>1, <1>4, <3>2, EdgesJoinOps, EdgesWait
    <3> QED
      BY <2>1, <3>1, <3>3
  <2> QED
    BY <2>2, <2>3
<1>8. TypeInv'
  BY <1>1, <1>2 DEF TypeInv, Publish
<1>9. phase' = "published"
  BY DEF Publish
<1> QED
  BY <1>1, <1>2, <1>3, <1>5, <1>6, <1>7, <1>8, <1>9
     DEF Inv, PublishedIsFeasible, NoIdleStart, Apart, Finish

LEMMA ReturnStartsInv == ASSUME Inv, ReturnStarts PROVE Inv'
<1>1. /\ Good(instance) /\ TypeInv /\ adapter \in ModelAdapters
      /\ phase' = "published"
      /\ UNCHANGED <<adapter, instance, ready, penalty>>
  BY DEF Inv, ReturnStarts
<1>2. /\ starts' \in [Ops(instance) -> 0 .. Horizon(instance)]
      /\ Allows(adapter, instance, starts', reported')
  BY DEF ReturnStarts
<1>3. adapter \notin ListAdapters
  BY <1>1 DEF ModelAdapters, ListAdapters
<1>4. \A x \in Ops(instance) : starts'[x] \in Nat
  BY <1>1, <1>2, BoundFacts
<1>5. TypeInv'
  BY <1>1, <1>2, <1>4 DEF TypeInv
<1>6. PublishedIsFeasible'
  BY <1>1, <1>2, AllowedIsFeasible DEF PublishedIsFeasible, Apart, Finish
<1> QED
  BY <1>1, <1>3, <1>5, <1>6 DEF Inv, NoIdleStart

LEMMA NextInv == Inv /\ [Next]_vars => Inv'
<1> SUFFICES ASSUME Inv, [Next]_vars PROVE Inv'
  OBVIOUS
<1>1. CASE ReturnOrders
  <2>1. Typed(instance, sequences)'
    BY <1>1 DEF ReturnOrders, Inv, Good, Typed
  <2> QED
    BY <1>1, <2>1 DEF ReturnOrders, Inv, TypeInv, PublishedIsFeasible,
                      NoIdleStart, Done
<1>2. CASE ReturnStarts
  BY <1>2, ReturnStartsInv
<1>3. CASE ReturnOther
  BY <1>3 DEF ReturnOther, Inv, TypeInv, PublishedIsFeasible, NoIdleStart,
              ListAdapters
<1>4. CASE FindNothing
  BY <1>4 DEF FindNothing, Inv, TypeInv, PublishedIsFeasible, NoIdleStart, Done
<1>5. CASE RefuseAssignment
  BY <1>5 DEF RefuseAssignment, Inv, TypeInv, PublishedIsFeasible, NoIdleStart,
              Done
<1>6. CASE BuildGraph
  BY <1>6, BuildInv
<1>7. CASE \E x \in Ops(instance) : Process(x)
  BY <1>7, ProcessInv
<1>8. CASE Publish
  BY <1>8, PublishInv
<1>9. CASE RefuseSchedule
  <2>1. TotalPenalty \in Nat
    <3>1. IsFiniteSet(Ops(instance) \ DOMAIN starts)
      BY OpsFinite, FS_Difference DEF Inv
    <3> QED
      BY <3>1, FS_CardinalityType DEF Inv, TypeInv, TotalPenalty
  <2> QED
    BY <1>9, <2>1 DEF RefuseSchedule, Inv, TypeInv, PublishedIsFeasible,
                      NoIdleStart, Done
<1>10. CASE Evaluate
  BY <1>10 DEF Evaluate, Inv, TypeInv, PublishedIsFeasible, NoIdleStart, Done,
               Apart, Finish, WaitsFor
<1>11. CASE UNCHANGED vars
  BY <1>11 DEF vars, Inv, TypeInv, Pass, Chain, Waiting, PublishedIsFeasible,
               NoIdleStart, Done
<1> QED
  BY <1>1, <1>2, <1>3, <1>4, <1>5, <1>6, <1>7, <1>8, <1>9, <1>10, <1>11
     DEF Next

LEMMA Invariance == Spec => []Inv
BY InitInv, NextInv, PTL DEF Spec

-----------------------------------------------------------------------------
(* The counters of the pass in Rust and Java stay natural numbers (they are *)
(* unsigned in Rust, where one below zero would panic) and all starts found *)
(* belong to the instance.                                                  *)
THEOREM TypeCorrect == Spec => []TypeInv
<1>1. Inv => TypeInv
  BY DEF Inv
<1> QED
  BY <1>1, Invariance, PTL

(* No adapter, for any instance and whatever its solver returned, publishes *)
(* a schedule with an operation missing, a job out of order or two          *)
(* operations on a machine at once.                                         *)
THEOREM OnlyFeasibleIsPublished == Spec => []PublishedIsFeasible
<1>1. Inv => PublishedIsFeasible
  BY DEF Inv
<1> QED
  BY <1>1, Invariance, PTL

(* A published schedule of the three list adapters lets no operation idle:  *)
(* each starts at zero or when one it waits for ends.                       *)
THEOREM NothingIdles == Spec => []NoIdleStart
<1>1. Inv => NoIdleStart
  BY DEF Inv
<1> QED
  BY <1>1, Invariance, PTL

-----------------------------------------------------------------------------
(* What the two models allow.  The pass never pushes a start beyond the     *)
(* durations of what it has started, so its makespan is within the horizon; *)
(* and a feasible schedule within the horizon satisfies the rows of both.   *)
Bounded ==
    phase = "sorting" =>
        /\ \A y \in Ops(instance) :
              earliest[y] <= TotalDuration(instance, DOMAIN starts)
        /\ \A x \in DOMAIN starts :
              Finish(instance, starts, x) <= TotalDuration(instance, DOMAIN starts)

WithinHorizon ==
    Done /\ adapter # "other" =>
        \A x \in Ops(instance) : Finish(instance, starts, x) <= Horizon(instance)

LEMMA FeasibleIsAllowed ==
    ASSUME NEW inst, Good(inst), NEW s, DOMAIN s = Ops(inst),
           \A x \in Ops(inst) : s[x] \in Nat,
           \A x \in JobPairs(inst) : Finish(inst, s, x) <= s[<<x[1], x[2] + 1>>],
           \A x, y \in Ops(inst) : x # y /\ Machine(inst, x) = Machine(inst, y)
                => Apart(inst, s, x, y),
           \A x \in Ops(inst) : Finish(inst, s, x) <= Horizon(inst),
           NEW a \in ModelAdapters
    PROVE  Allows(a, inst, s, Makespan(inst, s))
<1> DEFINE F == {Finish(inst, s, x) : x \in Ops(inst)}
           H == Horizon(inst)
<1>1. H \in Nat /\ BigM(inst) \in Nat
      /\ \A x \in Ops(inst) : H + Duration(inst, x) <= BigM(inst)
  BY BoundFacts
<1>2. \A x \in Ops(inst) : /\ s[x] \in Nat /\ Duration(inst, x) \in Nat
                           /\ Finish(inst, s, x) = s[x] + Duration(inst, x)
                           /\ Finish(inst, s, x) \in Nat
                           /\ Finish(inst, s, x) <= H
                           /\ s[x] \in 0 .. H
  <2> SUFFICES ASSUME NEW x \in Ops(inst)
               PROVE  /\ s[x] \in Nat /\ Duration(inst, x) \in Nat
                      /\ Finish(inst, s, x) = s[x] + Duration(inst, x)
                      /\ Finish(inst, s, x) \in Nat
                      /\ Finish(inst, s, x) <= H
                      /\ s[x] \in 0 .. H
    OBVIOUS
  <2>1. s[x] \in Nat /\ Duration(inst, x) \in Nat /\ Finish(inst, s, x) <= H
        /\ Finish(inst, s, x) = s[x] + Duration(inst, x)
    BY OpFacts DEF Finish
  <2> QED BY <1>1, <2>1, SMT
<1>3. Max(F) \in F /\ \A y \in F : Max(F) >= y
  <2>1. IsFiniteSet(F)
    <3> DEFINE f == [x \in Ops(inst) |-> Finish(inst, s, x)]
    <3>1. DOMAIN f = Ops(inst) /\ F = {f[x] : x \in Ops(inst)}
      OBVIOUS
    <3> HIDE DEF f, F
    <3> QED BY <3>1, OpsFinite, ImageFinite
  <2>2. F \subseteq Nat /\ F # {}
    BY <1>2 DEF Good
  <2> HIDE DEF F
  <2>3. \E m \in F : \A y \in F : y <= m
    BY <2>1, <2>2, GreatestNatural
  <2>4. \E m \in F : \A y \in F : m >= y
    BY <2>2, <2>3, SMT
  <2> QED BY <2>4 DEF Max
<1>4. Makespan(inst, s) = Max(F)
  BY DEF Makespan
<1>5. /\ Makespan(inst, s) \in Nat /\ Makespan(inst, s) <= H
      /\ \A x \in Ops(inst) : Makespan(inst, s) >= Finish(inst, s, x)
  BY <1>2, <1>3, <1>4
<1> HIDE DEF H, F
<1>6. ChainsHold(inst, s)
  <2> SUFFICES ASSUME NEW x \in JobPairs(inst)
               PROVE  s[<<x[1], x[2] + 1>>] - s[x] >= Duration(inst, x)
    BY Zenon DEF ChainsHold
  <2>1. x \in Ops(inst) /\ <<x[1], x[2] + 1>> \in Ops(inst)
    BY DEF JobPairs
  <2>2. Finish(inst, s, x) <= s[<<x[1], x[2] + 1>>]
    OBVIOUS
  <2> DEFINE y == <<x[1], x[2] + 1>>
  <2> HIDE DEF y
  <2>3. s[x] \in Nat /\ s[y] \in Nat /\ Duration(inst, x) \in Nat
        /\ s[x] + Duration(inst, x) <= s[y]
    BY <1>2, <2>1, <2>2 DEF y
  <2>4. s[y] - s[x] >= Duration(inst, x)
    BY <2>3, SMT
  <2> QED BY <2>4 DEF y
<1>7. ASSUME NEW xy \in SharedPairs(inst)
      PROVE  /\ xy[1] \in Ops(inst) /\ xy[2] \in Ops(inst)
             /\ Apart(inst, s, xy[1], xy[2])
  <2>1. xy[1] \in Ops(inst) /\ xy[2] \in Ops(inst) /\ Before(xy[1], xy[2])
        /\ Machine(inst, xy[1]) = Machine(inst, xy[2])
    BY DEF SharedPairs
  <2>2. xy[1] # xy[2]
    <3>1. \A x \in Ops(inst) : x[1] \in Nat /\ x[2] \in Nat
      BY OpFacts
    <3> QED BY <2>1, <3>1, SMT DEF Before
  <2> QED BY <2>1, <2>2
<1>8. HighsAllows(inst, s, Makespan(inst, s))
  <2>1. ASSUME NEW xy \in SharedPairs(inst)
        PROVE  \E first \in 0 .. 1 : PairRows(inst, s, xy[1], xy[2], first)
    <3> DEFINE x == xy[1]
               y == xy[2]
    <3>1. x \in Ops(inst) /\ y \in Ops(inst) /\ Apart(inst, s, x, y)
      BY <1>7
    <3> HIDE DEF x, y
    <3>2. /\ s[x] \in Nat /\ s[y] \in Nat
          /\ Duration(inst, x) \in Nat /\ Duration(inst, y) \in Nat
          /\ s[x] + Duration(inst, x) <= H /\ s[y] + Duration(inst, y) <= H
          /\ H + Duration(inst, x) <= BigM(inst)
          /\ H \in Nat /\ BigM(inst) \in Nat
          /\ \/ s[x] + Duration(inst, x) <= s[y]
             \/ s[y] + Duration(inst, y) <= s[x]
      BY <1>1, <1>2, <3>1 DEF Apart, H
    <3>3. CASE s[y] + Duration(inst, y) <= s[x]
      <4>1. PairRows(inst, s, x, y, 0)
        BY <3>2, <3>3, SMT DEF PairRows
      <4> QED BY <4>1 DEF x, y
    <3>4. CASE s[x] + Duration(inst, x) <= s[y]
      <4>1. PairRows(inst, s, x, y, 1)
        BY <3>2, <3>4, SMT DEF PairRows
      <4> QED BY <4>1 DEF x, y
    <3> QED BY <3>2, <3>3, <3>4
  <2>2. ASSUME NEW x \in Ops(inst)
        PROVE  Makespan(inst, s) - s[x] >= Duration(inst, x)
    BY <1>2, <1>5, SMT
  <2> QED BY <1>2, <1>5, <1>6, <2>1, <2>2 DEF HighsAllows, H
<1>9. OrtoolsAllows(inst, s, Makespan(inst, s))
  <2>1. Makespan(inst, s) = Max({Finish(inst, s, x) : x \in Ops(inst)})
    BY DEF Makespan
  <2> QED BY <1>2, <1>6, <1>7, <2>1, Zenon DEF OrtoolsAllows, Apart, H
<1> QED
  BY <1>8, <1>9 DEF Allows

(* One turn of the loop adds the duration of what it starts to the load.    *)
LEMMA ProcessBounded ==
    ASSUME Inv, Bounded, NEW x \in Ops(instance), Process(x) PROVE Bounded'
<1> DEFINE D == DOMAIN starts
           old == TotalDuration(instance, D)
           new == TotalDuration(instance, D \cup {x})
<1>1. /\ Good(instance) /\ TypeInv /\ Pass /\ phase = "sorting" /\ x \in ready
      /\ instance' = instance /\ phase' = phase
  BY DEF Inv, Process
<1>2. x \notin D /\ D \in SUBSET Ops(instance)
  BY <1>1 DEF Pass, TypeInv
<1>3. /\ old \in Nat /\ new = old + Duration(instance, x)
      /\ Duration(instance, x) \in Nat
  BY <1>1, <1>2, DurationsAdd, OpFacts
<1>4. /\ DOMAIN starts' = D \cup {x}
      /\ starts'[x] = earliest[x]
      /\ \A y \in D : starts'[y] = starts[y]
  BY <1>2 DEF Process
<1>5. /\ earliest \in [Ops(instance) -> Nat]
      /\ \A y \in Ops(instance) : earliest[y] <= old
      /\ \A y \in D : Finish(instance, starts, y) <= old
      /\ \A y \in D : starts[y] \in Nat /\ Duration(instance, y) \in Nat
  BY <1>1, <1>2, OpFacts DEF Bounded, TypeInv
<1>6. new = TotalDuration(instance, DOMAIN starts)'
  BY <1>1, <1>4, Zenon DEF TotalDuration, Ops, Duration
<1> HIDE DEF old, new, D
<1>7. old <= new /\ new \in Nat /\ earliest[x] + Duration(instance, x) <= new
      /\ earliest[x] \in Nat
  BY <1>3, <1>5, SMT
<1>8. ASSUME NEW y \in Ops(instance) PROVE earliest'[y] <= new
  <2>1. earliest'[y] = IF Between(edges, x, y) = {} THEN earliest[y]
                       ELSE Later(earliest[y], Finish(instance, earliest, x))
    BY DEF Process
  <2>2. earliest[y] \in Nat /\ earliest[y] <= old
    BY <1>5
  <2>3. Finish(instance, earliest, x) <= new
    BY <1>7 DEF Finish
  <2>4. earliest[y] <= new
    BY <1>3, <1>7, <2>2, SMT
  <2> QED BY <2>1, <2>3, <2>4 DEF Later
<1>9. ASSUME NEW y \in D \cup {x} PROVE starts'[y] + Duration(instance, y) <= new
  <2>1. CASE y = x
    BY <1>4, <1>7, <2>1
  <2>2. CASE y # x
    <3>1. y \in D /\ starts'[y] = starts[y]
      BY <1>4, <2>2
    <3>2. starts[y] \in Nat /\ Duration(instance, y) \in Nat
          /\ starts[y] + Duration(instance, y) <= old
      BY <1>5, <3>1 DEF Finish
    <3>3. starts[y] + Duration(instance, y) <= new
      BY <1>3, <1>7, <3>2, SMT
    <3> QED BY <3>1, <3>3
  <2> QED BY <2>1, <2>2
<1> QED
  BY <1>1, <1>4, <1>6, <1>8, <1>9 DEF Bounded, Finish, D

LEMMA PublishWithin ==
    ASSUME Inv, Bounded, Publish PROVE WithinHorizon'
<1>1. /\ Good(instance) /\ TypeInv /\ phase = "sorting"
      /\ UNCHANGED <<adapter, instance, starts>>
      /\ adapter \in ListAdapters /\ phase' = "published"
  BY DEF Inv, Publish
<1>2. DOMAIN starts = Ops(instance)
  <2>1. Inv'
    BY PublishInv
  <2> QED BY <1>1, <2>1 DEF Inv, PublishedIsFeasible, Done, ListAdapters
<1>3. \A x \in Ops(instance) :
         Finish(instance, starts, x) <= TotalDuration(instance, Ops(instance))
  BY <1>1, <1>2 DEF Bounded
<1>4. /\ TotalDuration(instance, Ops(instance)) <= Horizon(instance)
      /\ TotalDuration(instance, Ops(instance)) \in Nat /\ Horizon(instance) \in Nat
  BY <1>1, BoundFacts, DurationsAdd
<1>5. ASSUME NEW x \in Ops(instance)
      PROVE  Finish(instance, starts, x) <= Horizon(instance)
  <2>1. Finish(instance, starts, x) \in Nat
    BY <1>1, <1>2, OpFacts DEF TypeInv, Finish
  <2> QED BY <1>3, <1>4, <2>1, SMT
<1> QED
  BY <1>1, <1>5, Zenon DEF WithinHorizon, Finish, Ops, Duration

LEMMA ReturnStartsWithin ==
    ASSUME Inv, ReturnStarts PROVE WithinHorizon'
<1>1. /\ Good(instance) /\ adapter \in ModelAdapters /\ instance' = instance
      /\ starts' \in [Ops(instance) -> 0 .. Horizon(instance)]
      /\ reported' \in 0 .. Horizon(instance)
      /\ Allows(adapter, instance, starts', reported')
  BY DEF Inv, ReturnStarts
<1>2. Horizon(instance) \in Nat
  BY <1>1, BoundFacts
<1>3. ASSUME NEW x \in Ops(instance)
      PROVE  Finish(instance, starts', x) <= Horizon(instance)
  <2>1. starts'[x] \in Nat /\ Duration(instance, x) \in Nat /\ reported' \in Nat
        /\ reported' <= Horizon(instance)
    <3>1. starts'[x] \in 0 .. Horizon(instance)
      BY <1>1
    <3> QED BY <1>1, <1>2, <3>1, OpFacts
  <2>2. CASE adapter = "highs"
    <3>1. reported' - starts'[x] >= Duration(instance, x)
      BY <1>1, <2>2 DEF Allows, HighsAllows
    <3>2. starts'[x] + Duration(instance, x) <= Horizon(instance)
      BY <1>2, <2>1, <3>1, SMT
    <3> QED BY <3>2 DEF Finish
  <2>3. CASE adapter # "highs"
    BY <1>1, <2>3 DEF Allows, OrtoolsAllows
  <2> QED BY <2>2, <2>3
<1>4. Horizon(instance)' = Horizon(instance)
      /\ \A x : Finish(instance, starts, x)' = Finish(instance, starts', x)
  BY <1>1, Zenon DEF Finish, Duration, Horizon, TotalDuration, Ops
<1> QED
  BY <1>1, <1>3, <1>4, Zenon DEF WithinHorizon

LEMMA BoundsKept == Inv /\ Bounded /\ WithinHorizon /\ [Next]_vars
                       => Bounded' /\ WithinHorizon'
<1> SUFFICES ASSUME Inv, Bounded, WithinHorizon, [Next]_vars
             PROVE  Bounded' /\ WithinHorizon'
  OBVIOUS
<1> USE DEF Done
<1>1. CASE ReturnOrders \/ FindNothing \/ RefuseAssignment \/ RefuseSchedule
  <2>1. phase' \notin {"sorting", "published", "evaluated"}
    BY <1>1 DEF ReturnOrders, FindNothing, RefuseAssignment, RefuseSchedule
  <2> QED BY <2>1 DEF Bounded, WithinHorizon
<1>2. CASE ReturnStarts
  <2>1. phase' # "sorting"
    BY <1>2 DEF ReturnStarts
  <2> QED BY <1>2, <2>1, ReturnStartsWithin DEF Bounded
<1>3. CASE ReturnOther
  <2>1. phase' # "sorting" /\ adapter' = "other"
    BY <1>3 DEF ReturnOther
  <2> QED BY <2>1 DEF Bounded, WithinHorizon
<1>4. CASE BuildGraph
  <2>1. /\ phase' = "sorting" /\ starts' = <<>> /\ instance' = instance
        /\ \A x \in Ops(instance) : earliest'[x] = 0
    BY <1>4 DEF BuildGraph, Inv
  <2>2. DOMAIN starts' = {} /\ Good(instance)
    BY <2>1 DEF Inv
  <2>3. TotalDuration(instance, {}) \in Nat
    BY <2>2, DurationsAdd
  <2>4. TotalDuration(instance, DOMAIN starts)' = TotalDuration(instance, {})
    BY <2>1, <2>2, Zenon DEF TotalDuration, Ops, Duration
  <2> QED BY <2>1, <2>2, <2>3, <2>4, SMT DEF Bounded, WithinHorizon
<1>5. CASE \E x \in Ops(instance) : Process(x)
  <2>1. phase' = "sorting"
    BY <1>5 DEF Process
  <2> QED BY <1>5, <2>1, ProcessBounded DEF WithinHorizon
<1>6. CASE Publish
  <2>1. phase' # "sorting"
    BY <1>6 DEF Publish
  <2> QED BY <1>6, <2>1, PublishWithin DEF Bounded
<1>7. CASE Evaluate
  <2>1. phase = "published" /\ phase' = "evaluated"
        /\ UNCHANGED <<adapter, instance, starts>>
    BY <1>7 DEF Evaluate
  <2> QED BY <2>1, Zenon DEF Bounded, WithinHorizon, Finish, Duration, Horizon,
                         TotalDuration, Ops
<1>8. CASE UNCHANGED vars
  <2>1. UNCHANGED <<phase, adapter, instance, starts, earliest>>
    BY <1>8 DEF vars
  <2> QED BY <2>1, Zenon DEF Bounded, WithinHorizon, Finish, Duration, Horizon,
                         TotalDuration, Ops
<1> QED
  BY <1>1, <1>2, <1>3, <1>4, <1>5, <1>6, <1>7, <1>8 DEF Next

(* No model of a solver leaves out what another adapter finds: whatever one *)
(* of them publishes is within the horizon and the rows of HiGHS and of     *)
(* CP-SAT, for every instance and every machine order.                      *)
THEOREM ModelsAllowIt == Spec => []EveryModelAllowsIt
<1>1. Init => Bounded /\ WithinHorizon
  BY DEF Init, Bounded, WithinHorizon, Done
<1>2. Inv /\ WithinHorizon => EveryModelAllowsIt
  <2> SUFFICES ASSUME Inv, WithinHorizon, Done, adapter # "other",
                      NEW a \in ModelAdapters
               PROVE  Allows(a, instance, starts, Makespan(instance, starts))
    BY DEF EveryModelAllowsIt
  <2>1. /\ Good(instance) /\ DOMAIN starts = Ops(instance)
        /\ \A x \in Ops(instance) : starts[x] \in Nat
    BY DEF Inv, PublishedIsFeasible, TypeInv
  <2>2. /\ \A x \in JobPairs(instance) :
              Finish(instance, starts, x) <= starts[<<x[1], x[2] + 1>>]
        /\ \A x, y \in Ops(instance) :
              x # y /\ Machine(instance, x) = Machine(instance, y)
                 => Apart(instance, starts, x, y)
    BY DEF Inv, PublishedIsFeasible
  <2>3. \A x \in Ops(instance) : Finish(instance, starts, x) <= Horizon(instance)
    BY DEF WithinHorizon
  <2> QED BY <2>1, <2>2, <2>3, FeasibleIsAllowed, Zenon
<1> QED
  BY <1>1, <1>2, BoundsKept, Invariance, PTL DEF Spec
-----------------------------------------------------------------------------
(* The verdict of a list adapter.  Machine orders carry no assignment       *)
(* penalty when they place every operation once, on its machine, and        *)
(* nothing else; the pass gets through when nothing waits in a circle.      *)
LEMMA PositionIs ==
    ASSUME NEW inst, Good(inst), NEW seqs, Typed(inst, seqs)
    PROVE  /\ \A m, k : <<m, k>> \in Positions(seqs)
                           <=> m \in DOMAIN seqs /\ k \in DOMAIN seqs[m]
           /\ \A p \in Positions(seqs) : \E m, k :
                 m \in DOMAIN seqs /\ k \in DOMAIN seqs[m] /\ p = <<m, k>>
BY DEF Positions

LEMMA NoPenaltyIsInPlace ==
    ASSUME NEW inst, Good(inst), NEW seqs, Typed(inst, seqs)
    PROVE  AssignmentPenalty(inst, seqs) = 0 <=>
             /\ \A x \in Ops(inst) : OnceInPlace(inst, seqs, x)
             /\ \A m \in DOMAIN seqs : \A k \in DOMAIN seqs[m] : seqs[m][k] # Stray
<1> DEFINE K(x) == {k \in DOMAIN seqs[Machine(inst, x)] :
                       seqs[Machine(inst, x)][k] = x}
<1>1. \A x \in Ops(inst) : /\ Machine(inst, x) \in DOMAIN seqs
                           /\ IsFiniteSet(K(x))
  <2> SUFFICES ASSUME NEW x \in Ops(inst)
               PROVE  Machine(inst, x) \in DOMAIN seqs /\ IsFiniteSet(K(x))
    OBVIOUS
  <2>1. Machine(inst, x) \in DOMAIN seqs
        /\ seqs[Machine(inst, x)] \in Seq(Ops(inst) \cup {Stray})
    BY OpFacts DEF Typed
  <2>2. IsFiniteSet(DOMAIN seqs[Machine(inst, x)])
    BY <2>1, RowFinite
  <2> QED BY <2>1, <2>2, FS_Subset
<1>2. ASSUME NEW m \in DOMAIN seqs, NEW k \in DOMAIN seqs[m]
      PROVE  /\ <<m, k>> \in Positions(seqs) /\ At(seqs, <<m, k>>) = seqs[m][k]
             /\ k \in Nat /\ seqs[m][k] \in Ops(inst) \cup {Stray}
  <2>1. <<m, k>> \in Positions(seqs) /\ At(seqs, <<m, k>>) = seqs[m][k]
    BY PositionIs DEF At
  <2>2. /\ <<m, k>>[2] \in Nat \ {0}
        /\ At(seqs, <<m, k>>) \in Ops(inst) \cup {Stray}
    BY <2>1, PairFacts
  <2> QED BY <2>1, <2>2
<1>3. ASSUME AssignmentPenalty(inst, seqs) = 0
      PROVE  /\ \A x \in Ops(inst) : OnceInPlace(inst, seqs, x)
             /\ \A m \in DOMAIN seqs : \A k \in DOMAIN seqs[m] : seqs[m][k] # Stray
  <2>1. /\ Misplaced(inst, seqs) = {} /\ Repeated(inst, seqs) = {}
        /\ Unassigned(inst, seqs) = {}
    BY <1>3, PenaltyFacts
  <2>2. ASSUME NEW m \in DOMAIN seqs, NEW k \in DOMAIN seqs[m]
        PROVE  seqs[m][k] \in Ops(inst) /\ Machine(inst, seqs[m][k]) = m
    <3>1. <<m, k>> \in Positions(seqs) /\ At(seqs, <<m, k>>) = seqs[m][k]
          /\ <<m, k>>[1] = m
      BY <1>2
    <3> QED BY <2>1, <3>1 DEF Misplaced
  <2>3. ASSUME NEW x \in Ops(inst) PROVE OnceInPlace(inst, seqs, x)
    <3> DEFINE m == Machine(inst, x)
    <3>1. PICK p \in Positions(seqs) : At(seqs, p) = x
      BY <2>1 DEF Unassigned
    <3>2. PICK n, k : n \in DOMAIN seqs /\ k \in DOMAIN seqs[n] /\ p = <<n, k>>
      BY PositionIs
    <3>3. seqs[n][k] = x /\ n = m
      BY <1>2, <2>2, <3>1, <3>2
    <3>4. k \in K(x)
      BY <3>2, <3>3
    <3>5. ASSUME NEW l \in K(x), l # k PROVE FALSE
      <4>1. /\ <<m, l>> \in Positions(seqs) /\ <<m, k>> \in Positions(seqs)
            /\ At(seqs, <<m, l>>) = x /\ At(seqs, <<m, k>>) = x
            /\ l \in Nat /\ k \in Nat
        BY <1>1, <1>2, <3>2, <3>3
      <4>2. Before(<<m, l>>, <<m, k>>) \/ Before(<<m, k>>, <<m, l>>)
        <5>1. l < k \/ k < l
          BY <3>5, <4>1, SMT
        <5> QED BY <5>1 DEF Before
      <4> QED BY <2>1, <4>1, <4>2 DEF Repeated
    <3>6. K(x) = {k}
      <4> HIDE DEF K
      <4> QED BY <3>4, <3>5
    <3>7. Cardinality(K(x)) = 1
      BY <3>6, FS_Singleton
    <3>8. \A o \in DOMAIN seqs \ {m} : \A l \in DOMAIN seqs[o] : seqs[o][l] # x
      BY <2>2
    <3> QED BY <3>7, <3>8 DEF OnceInPlace
  <2> QED BY <2>2, <2>3 DEF Good
<1>4. ASSUME \A x \in Ops(inst) : OnceInPlace(inst, seqs, x),
             \A m \in DOMAIN seqs : \A k \in DOMAIN seqs[m] : seqs[m][k] # Stray
      PROVE  AssignmentPenalty(inst, seqs) = 0
  <2>1. ASSUME NEW m \in DOMAIN seqs, NEW k \in DOMAIN seqs[m]
        PROVE  seqs[m][k] \in Ops(inst) /\ Machine(inst, seqs[m][k]) = m
    <3>1. seqs[m][k] \in Ops(inst)
      BY <1>2, <1>4
    <3>2. OnceInPlace(inst, seqs, seqs[m][k])
      BY <1>4, <3>1
    <3> QED BY <3>1, <3>2 DEF OnceInPlace
  <2>2. \A x \in Ops(inst) : \E k : K(x) = {k}
    <3> SUFFICES ASSUME NEW x \in Ops(inst) PROVE \E k : K(x) = {k}
      OBVIOUS
    <3>1. Cardinality(K(x)) = 1 /\ IsFiniteSet(K(x))
      BY <1>1, <1>4 DEF OnceInPlace
    <3> HIDE DEF K
    <3> QED BY <3>1, FS_Singleton
  <2>3. Misplaced(inst, seqs) = {}
    <3> SUFFICES ASSUME NEW p \in Positions(seqs)
                 PROVE  At(seqs, p) \in Ops(inst)
                        /\ Machine(inst, At(seqs, p)) = p[1]
      BY DEF Misplaced
    <3>1. PICK m, k : m \in DOMAIN seqs /\ k \in DOMAIN seqs[m] /\ p = <<m, k>>
      BY PositionIs
    <3>2. At(seqs, p) = seqs[m][k] /\ p[1] = m
      BY <1>2, <3>1
    <3> QED BY <2>1, <3>1, <3>2
  <2>4. Repeated(inst, seqs) = {}
    <3> SUFFICES ASSUME NEW p \in Positions(seqs), NEW q \in Positions(seqs),
                        Before(q, p), At(seqs, q) = At(seqs, p)
                 PROVE  FALSE
      BY DEF Repeated
    <3>1. PICK m, k : m \in DOMAIN seqs /\ k \in DOMAIN seqs[m] /\ p = <<m, k>>
      BY PositionIs
    <3>2. PICK n, l : n \in DOMAIN seqs /\ l \in DOMAIN seqs[n] /\ q = <<n, l>>
      BY PositionIs
    <3> DEFINE x == seqs[m][k]
    <3>3. x \in Ops(inst) /\ seqs[n][l] = x /\ Machine(inst, x) = m
          /\ Machine(inst, x) = n
      BY <1>2, <2>1, <3>1, <3>2
    <3>4. k \in K(x) /\ l \in K(x)
      BY <3>1, <3>2, <3>3
    <3> HIDE DEF K
    <3>5. k = l /\ m = n
      BY <2>2, <3>3, <3>4
    <3>6. k \in Nat /\ m \in Nat
      BY <1>2, <3>1, PairFacts
    <3> QED BY <3>1, <3>2, <3>5, <3>6, SMT DEF Before
  <2>5. Unassigned(inst, seqs) = {}
    <3> SUFFICES ASSUME NEW x \in Ops(inst)
                 PROVE  \E p \in Positions(seqs) : At(seqs, p) = x
      BY DEF Unassigned
    <3>1. PICK k : K(x) = {k}
      BY <2>2
    <3>2. k \in K(x)
      BY <3>1
    <3>3. k \in DOMAIN seqs[Machine(inst, x)] /\ seqs[Machine(inst, x)][k] = x
      BY <3>2
    <3> QED BY <1>1, <1>2, <3>3
  <2> QED BY <2>3, <2>4, <2>5, FS_EmptySet, SMT DEF AssignmentPenalty
<1> QED BY <1>3, <1>4

(* What the pass leaves out waits for something, and what it has processed  *)
(* never waits in a circle: the last one in would have to be first out.     *)
InOrder ==
    phase = "sorting" =>
        /\ \A y \in Ops(instance) \ DOMAIN starts : Waiting(y) = {} => y \in ready
        /\ \A C \in SUBSET DOMAIN starts : C # {} =>
              \E y \in C : \A e \in edges : e.to = y => e.from \notin C

LEMMA ProcessInOrder ==
    ASSUME Inv, InOrder, NEW x \in Ops(instance), Process(x) PROVE InOrder'
<1> DEFINE D == DOMAIN starts
<1>1. /\ Good(instance) /\ Typed(instance, sequences) /\ TypeInv /\ Pass
      /\ phase = "sorting" /\ x \in ready
      /\ UNCHANGED <<adapter, instance, phase, sequences, edges>>
  BY DEF Inv, Process
<1>2. /\ x \notin D /\ Waiting(x) = {} /\ \A y \in D : Waiting(y) = {}
      /\ DOMAIN starts' = D \cup {x}
  BY <1>1 DEF Pass, Process
<1>3. \A y : Waiting(y)' = {e \in Waiting(y) : e.from # x}
  BY <1>1, <1>2 DEF Waiting, Into
<1>4. ASSUME NEW y \in Ops(instance) \ (D \cup {x}), Waiting(y)' = {}
      PROVE  y \in ready'
  <2>1. CASE Between(edges, x, y) = {}
    <3>1. Waiting(y) = {}
      BY <1>3, <1>4, <2>1 DEF Between, Waiting, Into
    <3>2. y \in ready /\ y # x
      BY <1>1, <1>4, <3>1 DEF InOrder
    <3> QED BY <3>2 DEF Process
  <2>2. CASE Between(edges, x, y) # {}
    <3>1. Pass' /\ Inv'
      <4>1. Inv'
        BY ProcessInv
      <4> QED BY <1>1, <4>1 DEF Inv
    <3>2. indegree'[y] = Cardinality(Waiting(y)')
      BY <1>1, <3>1 DEF Pass
    <3>3. indegree'[y] = 0
      BY <1>4, <3>2, FS_EmptySet
    <3> QED BY <2>2, <3>3 DEF Process
  <2> QED BY <2>1, <2>2
<1>5. ASSUME NEW C \in SUBSET (D \cup {x}), C # {}
      PROVE  \E y \in C : \A e \in edges : e.to = y => e.from \notin C
  <2>1. \A y \in D \cup {x} : \A e \in edges : e.to = y => e.from \in D
    BY <1>2 DEF Waiting, Into
  <2>2. CASE C \subseteq {x}
    BY <1>2, <1>5, <2>1, <2>2
  <2>3. CASE ~ (C \subseteq {x})
    <3>1. C \ {x} \in SUBSET D /\ C \ {x} # {}
      BY <2>3
    <3>2. PICK y \in C \ {x} : \A e \in edges : e.to = y => e.from \notin C \ {x}
      BY <1>1, <3>1 DEF InOrder
    <3> QED BY <1>2, <2>1, <3>2
  <2> QED BY <2>2, <2>3
<1> QED
  BY <1>1, <1>2, <1>4, <1>5 DEF InOrder

LEMMA BuildInOrder ==
    ASSUME Inv, BuildGraph PROVE InOrder'
<1>1. /\ Inv' /\ DOMAIN starts' = {} /\ phase' = "sorting" /\ instance' = instance
  BY BuildInv DEF BuildGraph, Inv
<1>2. Pass' /\ ready' = {x \in Ops(instance) : indegree'[x] = 0}
  BY <1>1 DEF Inv, BuildGraph
<1>3. ASSUME NEW y \in Ops(instance), Waiting(y)' = {} PROVE y \in ready'
  <2>1. indegree'[y] = Cardinality(Waiting(y)')
    BY <1>1, <1>2 DEF Pass
  <2>2. indegree'[y] = 0
    BY <1>3, <2>1, FS_EmptySet
  <2> QED BY <1>2, <2>2
<1> QED
  BY <1>1, <1>3 DEF InOrder

(* An adapter publishes sound orders only.                                  *)
LEMMA PublishedIsSound ==
    ASSUME Inv, InOrder, Publish PROVE SoundOrders(instance, sequences)
<1>1. /\ Good(instance) /\ Typed(instance, sequences) /\ TypeInv /\ Pass
      /\ phase = "sorting"
  BY DEF Inv, Publish
<1>2. penalty = 0 /\ DOMAIN starts = Ops(instance)
  <2>1. IsFiniteSet(Ops(instance) \ DOMAIN starts)
    BY <1>1, OpsFinite, FS_Difference
  <2>2. Cardinality(Ops(instance) \ DOMAIN starts) \in Nat /\ penalty \in Nat
    BY <1>1, <2>1, FS_CardinalityType DEF TypeInv
  <2>3. penalty = 0 /\ Cardinality(Ops(instance) \ DOMAIN starts) = 0
    BY <2>2 DEF Publish, TotalPenalty
  <2>4. Ops(instance) \ DOMAIN starts = {}
    BY <2>1, <2>3, FS_EmptySet
  <2> QED
    BY <1>1, <2>3, <2>4 DEF TypeInv
<1>3. AssignmentPenalty(instance, sequences) = 0
  BY <1>1, <1>2 DEF Pass
<1>4. ASSUME NEW x \in Ops(instance), NEW y \in Ops(instance),
             WaitsFor(instance, sequences, y, x)
      PROVE  \E e \in edges : e.from = x /\ e.to = y
  <2>1. edges = Edges(adapter, instance, sequences)
    BY <1>1 DEF Pass
  <2>2. CASE y[1] = x[1] /\ y[2] = x[2] + 1
    <3>1. y = <<x[1], x[2] + 1>>
      BY <1>1, <2>2, OpFacts
    <3>2. x \in JobPairs(instance)
      BY <3>1 DEF JobPairs
    <3> QED BY <1>1, <2>1, <3>1, <3>2, EdgeOfJob
  <2>3. CASE \E m \in DOMAIN sequences : \E k \in 1 .. Len(sequences[m]) - 1 :
                sequences[m][k] = x /\ sequences[m][k + 1] = y
    <3>1. PICK m, k :
             /\ m \in DOMAIN sequences /\ k \in 1 .. Len(sequences[m]) - 1
             /\ sequences[m][k] = x /\ sequences[m][k + 1] = y
      BY <2>3
    <3>2. sequences[m] \in Seq(Ops(instance) \cup {Stray})
      BY <1>1, <3>1 DEF Typed
    <3>3. k \in DOMAIN sequences[m] /\ k + 1 \in DOMAIN sequences[m]
          /\ k \in Nat /\ m \in Nat
      <4>1. m \in Nat
        BY <1>1, <3>1 DEF Typed, Machines, Good
      <4> QED BY <3>1, <3>2, <4>1
    <3> DEFINE p == <<m, k>>
               q == <<m, k + 1>>
    <3>4. p \in Positions(sequences) /\ q \in Positions(sequences)
          /\ At(sequences, p) = x /\ At(sequences, q) = y
          /\ q = <<p[1], p[2] + 1>>
      BY <1>1, <3>1, <3>3, PositionIs DEF At
    <3>5. Before(p, q)
      BY <3>3 DEF Before
    <3> HIDE DEF p, q
    <3>6. x # y
      <4>1. Repeated(instance, sequences) = {}
        BY <1>1, <1>3, PenaltyFacts
      <4> QED BY <3>4, <3>5, <4>1 DEF Repeated
    <3>7. p \in MachinePairs(instance, sequences)
      BY <3>4, Zenon DEF MachinePairs
    <3> QED BY <2>1, <3>4, <3>6, <3>7, EdgeOfMachine
  <2> QED BY <1>4, <2>2, <2>3 DEF WaitsFor
<1>5. ~ Circular(instance, sequences)
  <2> SUFFICES ASSUME NEW C \in SUBSET Ops(instance), C # {},
                      \A y \in C : \E x \in C : WaitsFor(instance, sequences, y, x)
               PROVE  FALSE
    BY DEF Circular
  <2>1. PICK y \in C : \A e \in edges : e.to = y => e.from \notin C
    BY <1>1, <1>2 DEF InOrder
  <2>2. PICK x \in C : WaitsFor(instance, sequences, y, x)
    OBVIOUS
  <2> QED BY <1>4, <2>1, <2>2
<1> QED
  BY <1>1, <1>3, <1>5, NoPenaltyIsInPlace DEF SoundOrders

(* An adapter refuses unsound orders only.                                  *)
LEMMA RefusedIsUnsound ==
    ASSUME Inv, InOrder, RefuseAssignment \/ RefuseSchedule
    PROVE  ~ SoundOrders(instance, sequences)
<1>1. /\ Good(instance) /\ Typed(instance, sequences) /\ TypeInv
      /\ phase \in {"returned", "sorting"}
  BY DEF Inv, RefuseAssignment, RefuseSchedule
<1>2. ASSUME AssignmentPenalty(instance, sequences) > 0
      PROVE  ~ SoundOrders(instance, sequences)
  <2>1. AssignmentPenalty(instance, sequences) # 0
    BY <1>1, <1>2, PenaltyFacts, SMT
  <2> QED BY <1>1, <2>1, NoPenaltyIsInPlace DEF SoundOrders
<1>3. CASE RefuseAssignment
  BY <1>2, <1>3 DEF RefuseAssignment
<1>4. CASE RefuseSchedule
  <2> DEFINE C == Ops(instance) \ DOMAIN starts
  <2>1. Pass /\ ready = {} /\ TotalPenalty > 0 /\ phase = "sorting"
    BY <1>4 DEF RefuseSchedule, Inv
  <2>2. CASE penalty > 0
    BY <1>2, <2>1, <2>2 DEF Pass
  <2>3. CASE ~ (penalty > 0)
    <3>1. C # {}
      <4> SUFFICES ASSUME C = {} PROVE FALSE
        OBVIOUS
      <4>1. Cardinality(C) = 0
        BY FS_EmptySet
      <4>2. penalty \in Nat
        BY <1>1 DEF TypeInv
      <4> HIDE DEF C
      <4> QED BY <2>1, <2>3, <4>1, <4>2, SMT DEF TotalPenalty, C
    <3>2. ASSUME NEW y \in C PROVE \E x \in C : WaitsFor(instance, sequences, y, x)
      <4>1. Waiting(y) # {}
        BY <2>1 DEF InOrder
      <4>2. PICK e \in Waiting(y) : TRUE
        BY <4>1
      <4>3. /\ e \in Edges(adapter, instance, sequences) /\ e.to = y
            /\ e.from \notin DOMAIN starts
        BY <2>1 DEF Waiting, Into, Pass
      <4>4. e.from \in C
        BY <4>3, EdgesJoinOps
      <4> QED BY <1>1, <4>3, <4>4, EdgesWait
    <3>3. Circular(instance, sequences)
      BY <3>1, <3>2 DEF Circular
    <3> QED BY <3>3 DEF SoundOrders
  <2> QED BY <2>2, <2>3
<1> QED
  BY <1>3, <1>4
-----------------------------------------------------------------------------
(* The verdict of validate.  It sorts the windows of a machine.             *)
LEMMA SortsFirstOrders ==
    ASSUME NEW a, NEW b, NEW c, a.start \in Int, b.start \in Int, c.start \in Int,
           a.duration \in Int, b.duration \in Int, c.duration \in Int
    PROVE  /\ SortsFirst(a, a)
           /\ SortsFirst(a, b) \/ SortsFirst(b, a)
           /\ SortsFirst(a, b) /\ SortsFirst(b, c) => SortsFirst(a, c)
<1> DEFINE A == a.start  B == b.start  C == c.start
           D == End(a)   E == End(b)   F == End(c)
<1>1. A \in Int /\ B \in Int /\ C \in Int /\ D \in Int /\ E \in Int /\ F \in Int
  BY SMT DEF End
<1>2. /\ SortsFirst(a, a) <=> (A < A \/ (A = A /\ D <= D))
      /\ SortsFirst(a, b) <=> (A < B \/ (A = B /\ D <= E))
      /\ SortsFirst(b, a) <=> (B < A \/ (B = A /\ E <= D))
      /\ SortsFirst(b, c) <=> (B < C \/ (B = C /\ E <= F))
      /\ SortsFirst(a, c) <=> (A < C \/ (A = C /\ D <= F))
  BY Zenon DEF SortsFirst
<1> HIDE DEF A, B, C, D, E, F
<1> QED BY <1>1, <1>2, SMT

LEMMA LastEntry ==
    ASSUME NEW ans, NEW P, IsFiniteSet(P), P # {},
           \A k \in P : ans[k].start \in Int /\ ans[k].duration \in Int
    PROVE  \E x \in P : \A y \in P : SortsFirst(ans[y], ans[x])
<1> DEFINE F == {T \in SUBSET P : T # {} /\ ~ \E x \in T : \A y \in T :
                                     SortsFirst(ans[y], ans[x])}
<1> SUFFICES ASSUME F # {} PROVE FALSE
  OBVIOUS
<1>1. \A T \in F : IsFiniteSet(T)
  BY FS_Subset
<1>2. PICK T \in F : \A U \in F : Cardinality(T) <= Cardinality(U)
  <2> HIDE DEF F
  <2> QED BY <1>1, SmallestSet
<1>3. PICK x \in T : TRUE
  OBVIOUS
<1>4. T \ {x} \notin F
  <2>1. Cardinality(T \ {x}) = Cardinality(T) - 1 /\ Cardinality(T) \in Nat
    BY <1>1, <1>3, FS_RemoveElement, FS_CardinalityType
  <2> HIDE DEF F
  <2> QED BY <1>2, <2>1, SMT
<1>5. CASE T = {x}
  BY <1>5, SortsFirstOrders
<1>6. CASE T # {x}
  <2>1. T \ {x} # {} /\ T \ {x} \in SUBSET P
    BY <1>3, <1>6
  <2>2. PICK z \in T \ {x} : \A y \in T \ {x} : SortsFirst(ans[y], ans[z])
    BY <1>4, <2>1
  <2>3. CASE SortsFirst(ans[x], ans[z])
    BY <2>2, <2>3
  <2>4. CASE SortsFirst(ans[z], ans[x])
    <3>1. \A y \in T : SortsFirst(ans[y], ans[x])
      <4> SUFFICES ASSUME NEW y \in T PROVE SortsFirst(ans[y], ans[x])
        OBVIOUS
      <4>1. CASE y = x
        BY <4>1, SortsFirstOrders
      <4>2. CASE y # x
        <5>1. SortsFirst(ans[y], ans[z])
          BY <2>2, <4>2
        <5>2. x \in P /\ y \in P /\ z \in P
          OBVIOUS
        <5> QED BY <2>4, <5>1, <5>2, SortsFirstOrders
      <4> QED BY <4>1, <4>2
    <3> QED BY <3>1
  <2>5. SortsFirst(ans[x], ans[z]) \/ SortsFirst(ans[z], ans[x])
    <3>1. x \in P /\ z \in P
      OBVIOUS
    <3> QED BY <3>1, SortsFirstOrders
  <2> QED BY <2>3, <2>4, <2>5
<1> QED BY <1>5, <1>6

(* There is an order for sort to leave the windows in.                      *)
LEMMA SortedExists ==
    ASSUME NEW ans, NEW P, IsFiniteSet(P),
           \A k \in P : ans[k].start \in Int /\ ans[k].duration \in Int
    PROVE  Sorted(ans, P) # {}
<1> DEFINE F == {T \in SUBSET P : Sorted(ans, T) = {}}
<1> SUFFICES ASSUME F # {} PROVE FALSE
  OBVIOUS
<1>1. \A T \in F : IsFiniteSet(T)
  BY FS_Subset
<1>2. PICK T \in F : \A U \in F : Cardinality(T) <= Cardinality(U)
  <2> HIDE DEF F
  <2> QED BY <1>1, SmallestSet
<1>3. IsFiniteSet(T) /\ T \subseteq P
  BY <1>1
<1>4. CASE T = {}
  <2>1. Cardinality(T) = 0
    BY <1>4, FS_EmptySet
  <2> DEFINE w == [i \in 1 .. 0 |-> i]
  <2>2. w \in [1 .. Cardinality(T) -> T] /\ DOMAIN w = {}
    BY <2>1
  <2>3. w \in Sorted(ans, T)
    BY <2>2 DEF Sorted, IsInjective
  <2> QED BY <2>3
<1>5. CASE T # {}
  <2>1. PICK x \in T : \A y \in T : SortsFirst(ans[y], ans[x])
    BY <1>3, <1>5, LastEntry
  <2> DEFINE n == Cardinality(T \ {x})
  <2>2. n \in Nat /\ Cardinality(T) = n + 1
    <3>1. IsFiniteSet(T \ {x}) /\ n = Cardinality(T) - 1
      BY <1>3, FS_RemoveElement
    <3>2. n \in Nat /\ Cardinality(T) \in Nat
      BY <1>3, <3>1, FS_CardinalityType
    <3> HIDE DEF n
    <3> QED BY <3>1, <3>2, SMT
  <2>3. Sorted(ans, T \ {x}) # {}
    <3>1. T \ {x} \notin F
      <4> HIDE DEF F
      <4> QED BY <1>2, <2>2, SMT
    <3> QED BY <3>1
  <2>4. PICK v : v \in Sorted(ans, T \ {x})
    BY <2>3
  <2>5. /\ v \in [1 .. n -> T \ {x}]
        /\ \A i, j \in 1 .. n : v[i] = v[j] => i = j
        /\ \A i, j \in 1 .. n : i < j => SortsFirst(ans[v[i]], ans[v[j]])
    BY <2>4 DEF Sorted, IsInjective
  <2> HIDE DEF n
  <2> DEFINE w == [i \in 1 .. n + 1 |-> IF i = n + 1 THEN x ELSE v[i]]
  <2>6. \A i \in 1 .. n + 1 : i = n + 1 \/ i \in 1 .. n
    BY <2>2, SMT
  <2>7. w \in [1 .. n + 1 -> T] /\ DOMAIN w = 1 .. n + 1
    BY <2>5, <2>6
  <2>8. \A i, j \in 1 .. n + 1 : w[i] = w[j] => i = j
    BY <2>2, <2>5, <2>6
  <2>9. \A i, j \in 1 .. n + 1 : i < j => SortsFirst(ans[w[i]], ans[w[j]])
    <3> SUFFICES ASSUME NEW i \in 1 .. n + 1, NEW j \in 1 .. n + 1, i < j
                 PROVE  SortsFirst(ans[w[i]], ans[w[j]])
      OBVIOUS
    <3>1. i \in 1 .. n
      BY <2>2, SMT
    <3>2. i # n + 1
      BY <2>2, SMT
    <3>3. w[i] = v[i] /\ w[i] \in T
      BY <2>5, <3>1, <3>2
    <3>4. CASE j = n + 1
      BY <2>1, <3>3, <3>4
    <3>5. CASE j # n + 1
      <4>1. j \in 1 .. n /\ w[j] = v[j]
        BY <2>6, <3>5
      <4> QED BY <2>5, <3>1, <3>3, <4>1
    <3> QED BY <3>4, <3>5
  <2> HIDE DEF w
  <2>10. w \in Sorted(ans, T)
    BY <2>2, <2>7, <2>8, <2>9 DEF Sorted, IsInjective
  <2> QED BY <2>10
<1> QED BY <1>4, <1>5

LEMMA WindowFacts ==
    ASSUME NEW inst, NEW ans \in Seq(Entry(inst)), NEW m
    PROVE  LET w == Windows(ans, m)
               P == OnMachine(ans, m)
               n == Cardinality(P)
           IN  /\ n \in Nat /\ Len(w) = n
               /\ w \in [1 .. n -> P]
               /\ \A k \in P : \E i \in 1 .. n : w[i] = k
               /\ \A i, j \in 1 .. n : w[i] = w[j] => i = j
               /\ \A i, j \in 1 .. n : i < j => SortsFirst(ans[w[i]], ans[w[j]])
<1> DEFINE w == Windows(ans, m)
           P == OnMachine(ans, m)
           n == Cardinality(P)
<1>1. IsFiniteSet(DOMAIN ans)
  BY RowFinite
<1>2. IsFiniteSet(P) /\ n \in Nat
  BY <1>1, FS_Subset, FS_CardinalityType DEF OnMachine
<1>3. \A k \in P : ans[k].start \in Int /\ ans[k].duration \in Int
  <2> SUFFICES ASSUME NEW k \in P
               PROVE  ans[k].start \in Int /\ ans[k].duration \in Int
    OBVIOUS
  <2>1. ans[k] \in Entry(inst)
    <3>1. k \in DOMAIN ans
      BY DEF OnMachine
    <3> QED BY <3>1
  <2> QED BY <2>1 DEF Entry
<1>4. w \in Sorted(ans, P)
  <2>1. Sorted(ans, P) # {}
    BY <1>2, <1>3, SortedExists
  <2> QED BY <2>1 DEF Windows
<1> HIDE DEF w, P
<1>5. /\ w \in [1 .. n -> P]
      /\ \A i, j \in 1 .. n : w[i] = w[j] => i = j
      /\ \A i, j \in 1 .. n : i < j => SortsFirst(ans[w[i]], ans[w[j]])
  BY <1>4 DEF Sorted, IsInjective
<1>6. w \in Injection(1 .. n, P)
  BY <1>5 DEF Injection, IsInjective
<1>7. w \in Surjection(1 .. n, P)
  <2>1. IsFiniteSet(1 .. n) /\ Cardinality(1 .. n) = n
    <3> HIDE DEF n
    <3>1. IsFiniteSet(1 .. n) /\ Cardinality(1 .. n) = IF 1 > n THEN 0 ELSE n - 1 + 1
      BY <1>2, FS_Interval
    <3> QED BY <1>2, <3>1, SMT
  <2> QED BY <1>2, <1>6, <2>1, FS_Injection
<1>8. \A k \in P : \E i \in 1 .. n : w[i] = k
  BY <1>7 DEF Surjection
<1>9. Len(w) = n
  <2> HIDE DEF n
  <2> QED BY <1>2, <1>5
<1> QED
  BY <1>2, <1>5, <1>8, <1>9 DEF w, P

(* Comparing neighbours is enough: sorted, no window that is not empty fits *)
(* between two others.                                                      *)
LEMMA NeighboursDecide ==
    ASSUME NEW inst, NEW ans \in Seq(Entry(inst)), NEW m,
           \A k \in DOMAIN ans : ans[k].duration \in Nat
    PROVE  WindowsApart(ans, m) <=>
             \A k, l \in OnMachine(ans, m) : k # l =>
                \/ End(ans[k]) <= ans[l].start \/ End(ans[l]) <= ans[k].start
<1> DEFINE w == Windows(ans, m)
           P == OnMachine(ans, m)
           n == Cardinality(P)
<1>1. /\ n \in Nat /\ Len(w) = n
      /\ w \in [1 .. n -> P]
      /\ \A k \in P : \E i \in 1 .. n : w[i] = k
      /\ \A i, j \in 1 .. n : w[i] = w[j] => i = j
      /\ \A i, j \in 1 .. n : i < j => SortsFirst(ans[w[i]], ans[w[j]])
  BY WindowFacts
<1>2. \A k \in P : /\ ans[k].start \in Int /\ ans[k].duration \in Nat
                   /\ End(ans[k]) = ans[k].start + ans[k].duration
                   /\ End(ans[k]) \in Int /\ ans[k].start <= End(ans[k])
  <2> SUFFICES ASSUME NEW k \in P
               PROVE  /\ ans[k].start \in Int /\ ans[k].duration \in Nat
                      /\ End(ans[k]) = ans[k].start + ans[k].duration
                      /\ End(ans[k]) \in Int /\ ans[k].start <= End(ans[k])
    OBVIOUS
  <2>1. k \in DOMAIN ans
    BY DEF OnMachine
  <2>2. ans[k] \in Entry(inst) /\ ans[k].duration \in Nat
    BY <2>1
  <2>3. ans[k].start \in Int /\ ans[k].duration \in Nat
    BY <2>2 DEF Entry
  <2> QED BY <2>3, SMT DEF End
<1>3. WindowsApart(ans, m) <=>
         \A k \in 1 .. n - 1 : ans[w[k + 1]].start >= End(ans[w[k]])
  BY <1>1, Zenon DEF WindowsApart
<1> HIDE DEF w, P, n
<1>4. ASSUME \A k \in 1 .. n - 1 : ans[w[k + 1]].start >= End(ans[w[k]]),
             NEW i \in 1 .. n, NEW j \in 1 .. n, i < j
      PROVE  End(ans[w[i]]) <= ans[w[j]].start
  <2>1. i \in 1 .. n - 1 /\ i + 1 \in 1 .. n
    BY <1>1, <1>4, SMT
  <2>2. w[i] \in P /\ w[j] \in P /\ w[i + 1] \in P
    BY <1>1, <2>1
  <2>3. ans[w[i + 1]].start >= End(ans[w[i]])
    BY <1>4, <2>1
  <2>4. ans[w[i + 1]].start <= ans[w[j]].start
    <3>1. CASE i + 1 = j
      BY <1>2, <2>2, <3>1, SMT
    <3>2. CASE i + 1 # j
      <4>1. i + 1 < j
        BY <1>1, <1>4, <3>2, SMT
      <4>2. SortsFirst(ans[w[i + 1]], ans[w[j]])
        BY <1>1, <2>1, <4>1
      <4> QED BY <1>2, <2>2, <4>2, SMT DEF SortsFirst
    <3> QED BY <3>1, <3>2
  <2> QED BY <1>2, <2>2, <2>3, <2>4, SMT
<1>5. ASSUME WindowsApart(ans, m), NEW k \in P, NEW l \in P, k # l
      PROVE  End(ans[k]) <= ans[l].start \/ End(ans[l]) <= ans[k].start
  <2>1. PICK i \in 1 .. n : w[i] = k
    BY <1>1
  <2>2. PICK j \in 1 .. n : w[j] = l
    BY <1>1
  <2>3. i < j \/ j < i
    BY <1>1, <1>5, <2>1, <2>2, SMT
  <2> QED BY <1>3, <1>4, <1>5, <2>1, <2>2, <2>3
<1>6. ASSUME \A k, l \in P : k # l =>
                \/ End(ans[k]) <= ans[l].start \/ End(ans[l]) <= ans[k].start
      PROVE  WindowsApart(ans, m)
  <2> SUFFICES ASSUME NEW i \in 1 .. n - 1
               PROVE  ans[w[i + 1]].start >= End(ans[w[i]])
    BY <1>3
  <2>1. i \in 1 .. n /\ i + 1 \in 1 .. n /\ i < i + 1 /\ i # i + 1
    BY <1>1, SMT
  <2>2. w[i] \in P /\ w[i + 1] \in P /\ w[i] # w[i + 1]
        /\ SortsFirst(ans[w[i]], ans[w[i + 1]])
    BY <1>1, <2>1
  <2>3. \/ End(ans[w[i]]) <= ans[w[i + 1]].start
        \/ End(ans[w[i + 1]]) <= ans[w[i]].start
    BY <1>6, <2>2
  <2> QED BY <1>2, <2>2, <2>3, SMT DEF SortsFirst
<1> QED
  BY <1>5, <1>6 DEF P
-----------------------------------------------------------------------------
(* The answer an adapter hands over lists every operation once.             *)
EntryOf(inst, s, x) ==
    [key |-> x, machine |-> Machine(inst, x), start |-> s[x],
     duration |-> Duration(inst, x)]
Entries(inst, s) == {EntryOf(inst, s, x) : x \in Ops(inst)}
KeysApart(ans) == \A k, l \in DOMAIN ans : ans[k].key = ans[l].key => k = l

LEMMA ScheduleFacts ==
    ASSUME NEW inst, Good(inst), NEW s
    PROVE  LET ans == Schedule(inst, s)
           IN  /\ ans \in Seq(Entries(inst, s))
               /\ KeysApart(ans)
               /\ {ans[k].key : k \in DOMAIN ans} = Ops(inst)
<1> DEFINE jobs == inst.jobs
           Es == Entries(inst, s)
           rows == [j \in DOMAIN jobs |->
                      [i \in DOMAIN jobs[j] |-> EntryOf(inst, s, <<j, i>>)]]
           ans == Schedule(inst, s)
           Op == [machine : Machines(inst), duration : Nat]
<1>1. ans = FlattenSeq(rows)
  BY DEF Schedule, EntryOf
<1>2. jobs \in Seq(Seq(Op))
  BY DEF Good
<1>3. \A j, i : <<j, i>> \in Ops(inst) <=> j \in DOMAIN jobs /\ i \in DOMAIN jobs[j]
  BY DEF Ops
<1>4. \A x : EntryOf(inst, s, x).key = x
  BY DEF EntryOf
<1>5. \A e \in Es : e.key \in Ops(inst) /\ e = EntryOf(inst, s, e.key)
  BY <1>4 DEF Entries
<1>6. \A x \in Ops(inst) : EntryOf(inst, s, x) \in Es
  BY DEF Entries
<1>7. rows \in Seq(Seq(Es)) /\ Len(rows) = Len(jobs) /\ DOMAIN rows = DOMAIN jobs
  <2> HIDE DEF Op, Es
  <2>1. ASSUME NEW j \in DOMAIN jobs PROVE rows[j] \in Seq(Es)
    <3>1. jobs[j] \in Seq(Op)
      BY <1>2
    <3>2. rows[j] = [i \in DOMAIN jobs[j] |-> EntryOf(inst, s, <<j, i>>)]
      OBVIOUS
    <3>3. DOMAIN jobs[j] = 1 .. Len(jobs[j]) /\ Len(jobs[j]) \in Nat
      BY <3>1
    <3>4. \A i \in DOMAIN jobs[j] : EntryOf(inst, s, <<j, i>>) \in Es
      BY <1>3, <1>6
    <3> HIDE DEF rows
    <3> QED BY <3>2, <3>3, <3>4
  <2>2. DOMAIN jobs = 1 .. Len(jobs) /\ Len(jobs) \in Nat
    BY <1>2
  <2>3. rows = [j \in 1 .. Len(jobs) |-> rows[j]]
    BY <2>2
  <2>4. DOMAIN rows = DOMAIN jobs
    OBVIOUS
  <2> HIDE DEF rows, jobs
  <2> QED BY <2>1, <2>2, <2>3, <2>4
<1>8. Len(rows) # 0
  <2>1. DOMAIN jobs # {}
    <3>1. PICK x \in Ops(inst) : TRUE
      BY DEF Good
    <3> QED BY OpFacts
  <2> HIDE DEF rows, Op
  <2> QED BY <1>2, <1>7, <2>1
<1>9. ASSUME NEW j \in DOMAIN rows, NEW i \in DOMAIN rows[j]
      PROVE  rows[j][i] = EntryOf(inst, s, <<j, i>>) /\ <<j, i>> \in Ops(inst)
             /\ rows[j][i].key = <<j, i>>
  BY <1>3, <1>4
<1>10. \A j \in DOMAIN jobs : \A i \in DOMAIN jobs[j] : i \in DOMAIN rows[j]
  OBVIOUS
<1> HIDE DEF rows
<1>11. NoneTwice(rows)
  <2> SUFFICES ASSUME NEW i \in DOMAIN rows, NEW j \in DOMAIN rows,
                      NEW k \in DOMAIN rows[i], NEW l \in DOMAIN rows[j],
                      rows[i][k] = rows[j][l]
               PROVE  i = j /\ k = l
    BY DEF NoneTwice
  <2>1. <<i, k>> = <<j, l>>
    BY <1>9
  <2> QED BY <2>1
<1> HIDE DEF Es, jobs, Op
<1>12. /\ ans \in Seq(Es) /\ Distinct(ans)
       /\ \A i \in DOMAIN rows : \A k \in DOMAIN rows[i] :
             \E p \in DOMAIN ans : ans[p] = rows[i][k]
  <2> HIDE DEF ans
  <2>1. FlattenSeq(rows) \in Seq(Es)
    BY <1>7, <1>8, FlattenFacts
  <2>2. Distinct(FlattenSeq(rows))
    BY <1>7, <1>8, <1>11, FlattenHolds
  <2>3. \A i \in DOMAIN rows : \A k \in DOMAIN rows[i] :
           \E p \in DOMAIN FlattenSeq(rows) : FlattenSeq(rows)[p] = rows[i][k]
    BY <1>7, <1>8, FlattenHolds
  <2> QED BY <1>1, <2>1, <2>2, <2>3
<1> HIDE DEF ans
<1>13. \A k \in DOMAIN ans : ans[k] \in Es
  BY <1>12
<1>14. ASSUME NEW k \in DOMAIN ans, NEW l \in DOMAIN ans, ans[k].key = ans[l].key
       PROVE  k = l
  <2>1. ans[k] = ans[l]
    BY <1>5, <1>13, <1>14
  <2> QED BY <1>12, <2>1 DEF Distinct
<1>15. ASSUME NEW x \in Ops(inst) PROVE \E k \in DOMAIN ans : ans[k].key = x
  <2>1. x = <<x[1], x[2]>> /\ x[1] \in DOMAIN jobs /\ x[2] \in DOMAIN jobs[x[1]]
    BY OpFacts DEF jobs
  <2>2. x[1] \in DOMAIN rows /\ x[2] \in DOMAIN rows[x[1]]
    BY <1>7, <1>10, <2>1
  <2>3. rows[x[1]][x[2]].key = x
    BY <1>9, <2>1, <2>2
  <2>4. PICK k \in DOMAIN ans : ans[k] = rows[x[1]][x[2]]
    BY <1>12, <2>2
  <2> QED BY <2>3, <2>4
<1>16. {ans[k].key : k \in DOMAIN ans} = Ops(inst)
  BY <1>5, <1>13, <1>15
<1> QED
  BY <1>12, <1>14, <1>16, Zenon DEF Es, ans, KeysApart

(* What validate looks at, entry by entry.                                  *)
LEMMA StartsOfFacts ==
    ASSUME NEW ans, \A k, l \in DOMAIN ans : ans[k].key = ans[l].key => k = l,
           NEW k \in DOMAIN ans
    PROVE  StartsOf(ans)[ans[k].key] = ans[k].start
<1> DEFINE x == ans[k].key
           c == CHOOSE l \in DOMAIN ans : ans[l].key = x
<1>1. c \in DOMAIN ans /\ ans[c].key = x
  OBVIOUS
<1>2. c = k
  BY <1>1
<1>3. StartsOf(ans)[x] = ans[c].start
  BY DEF StartsOf
<1> QED BY <1>2, <1>3

OwnEntries(inst, ans) ==
    \A k \in DOMAIN ans :
        /\ ans[k].key \in Ops(inst)
        /\ ans[k].start >= 0
        /\ ans[k].machine = Machine(inst, ans[k].key)
        /\ ans[k].duration = Duration(inst, ans[k].key)

LEMMA EntriesMatchMeans ==
    ASSUME NEW inst, NEW ans \in Seq(Entry(inst))
    PROVE  EntriesMatch(inst, ans) <=> OwnEntries(inst, ans) /\ KeysApart(ans)
<1>1. DOMAIN ans = 1 .. Len(ans) /\ Len(ans) \in Nat
  OBVIOUS
<1>2. ASSUME EntriesMatch(inst, ans), NEW k \in DOMAIN ans, NEW l \in DOMAIN ans,
             ans[k].key = ans[l].key
      PROVE  k = l
  <2>1. k \in 1 .. l - 1 \/ l \in 1 .. k - 1 \/ k = l
    BY <1>1, SMT
  <2> QED BY <1>2, <2>1 DEF EntriesMatch
<1>3. ASSUME KeysApart(ans), NEW k \in DOMAIN ans, NEW l \in 1 .. k - 1
      PROVE  ans[l].key # ans[k].key
  <2>1. l \in DOMAIN ans /\ l # k
    BY <1>1, SMT
  <2> QED BY <1>3, <2>1 DEF KeysApart
<1> QED
  BY <1>2, <1>3 DEF EntriesMatch, OwnEntries, KeysApart

(* As many entries as operations, and every operation among them.           *)
LEMMA AsManyIsApart ==
    ASSUME NEW inst, Good(inst), NEW ans \in Seq(Entry(inst)),
           {ans[k].key : k \in DOMAIN ans} = Ops(inst)
    PROVE  Len(ans) = Cardinality(Ops(inst)) <=> KeysApart(ans)
<1> DEFINE f == [k \in DOMAIN ans |-> ans[k].key]
<1>1. f \in Surjection(DOMAIN ans, Ops(inst))
  BY DEF Surjection
<1>2. IsFiniteSet(DOMAIN ans) /\ Cardinality(DOMAIN ans) = Len(ans)
  <2>1. DOMAIN ans = 1 .. Len(ans) /\ Len(ans) \in Nat
    OBVIOUS
  <2>2. IsFiniteSet(1 .. Len(ans))
        /\ Cardinality(1 .. Len(ans)) = IF 1 > Len(ans) THEN 0 ELSE Len(ans) - 1 + 1
    BY <2>1, FS_Interval
  <2> QED BY <2>1, <2>2, SMT
<1>3. Cardinality(Ops(inst)) = Len(ans) <=> f \in Injection(DOMAIN ans, Ops(inst))
  BY <1>1, <1>2, FS_Surjection
<1>4. f \in [DOMAIN ans -> Ops(inst)] /\ \A k \in DOMAIN ans : f[k] = ans[k].key
  BY <1>1 DEF Surjection
<1> HIDE DEF f
<1>5. f \in Injection(DOMAIN ans, Ops(inst)) <=> KeysApart(ans)
  BY <1>4 DEF Injection, IsInjective, KeysApart
<1> QED BY <1>3, <1>5

(* Neighbours in order put the whole job in order.                          *)
LEMMA JobInOrder ==
    ASSUME NEW inst, Good(inst), NEW s, \A x \in Ops(inst) : s[x] \in Int,
           \A x \in JobPairs(inst) : Finish(inst, s, x) <= s[<<x[1], x[2] + 1>>],
           NEW x \in Ops(inst), NEW y \in Ops(inst), x[1] = y[1], x[2] < y[2]
    PROVE  Finish(inst, s, x) <= s[y]
<1> DEFINE Nth(b) == <<x[1], b>>
           Bad == {b \in Nat : /\ x[2] < b /\ Nth(b) \in Ops(inst)
                               /\ ~ (Finish(inst, s, x) <= s[Nth(b)])}
<1>1. y = Nth(y[2]) /\ y[2] \in Nat /\ x[2] \in Nat /\ x = <<x[1], x[2]>>
  BY OpFacts
<1> SUFFICES ASSUME Bad # {} PROVE FALSE
  BY <1>1
<1>2. PICK b \in Bad : \A c \in Bad : b <= c
  BY LeastNatural
<1>3. \A z \in Ops(inst) : /\ s[z] \in Int /\ Duration(inst, z) \in Nat
                           /\ Finish(inst, s, z) = s[z] + Duration(inst, z)
  BY OpFacts DEF Finish
<1>4. CASE b = x[2] + 1
  <2>1. x \in JobPairs(inst)
    BY <1>4 DEF JobPairs
  <2> QED BY <1>4, <2>1
<1>5. CASE b # x[2] + 1
  <2>1. b \in Nat /\ b - 1 \in Nat /\ x[2] < b - 1 /\ ~ (b <= b - 1)
        /\ (b - 1) + 1 = b
    BY <1>1, <1>5, SMT
  <2>2. Nth(b - 1) \in Ops(inst)
    <3>1. x[1] \in DOMAIN inst.jobs /\ b \in DOMAIN inst.jobs[x[1]]
      BY DEF Ops
    <3>2. inst.jobs[x[1]] \in Seq([machine : Machines(inst), duration : Nat])
      BY <3>1 DEF Good
    <3>3. DOMAIN inst.jobs[x[1]] = 1 .. Len(inst.jobs[x[1]])
          /\ Len(inst.jobs[x[1]]) \in Nat
      BY <3>2
    <3>4. b - 1 \in DOMAIN inst.jobs[x[1]]
      BY <1>1, <2>1, <3>1, <3>3, SMT
    <3> QED BY <3>1, <3>4 DEF Ops
  <2>3. Finish(inst, s, x) <= s[Nth(b - 1)]
    <3>1. b - 1 \notin Bad
      <4> HIDE DEF Bad
      <4> QED BY <1>2, <2>1
    <3> QED BY <2>1, <2>2, <3>1
  <2>4. Nth(b - 1) \in JobPairs(inst)
    BY <2>1, <2>2 DEF JobPairs
  <2>5. Finish(inst, s, Nth(b - 1)) <= s[Nth(b)]
    BY <2>1, <2>4
  <2>6. Nth(b) \in Ops(inst) /\ ~ (Finish(inst, s, x) <= s[Nth(b)])
    OBVIOUS
  <2> HIDE DEF Nth
  <2> QED BY <1>3, <2>2, <2>3, <2>5, <2>6, SMT
<1> QED BY <1>4, <1>5

LEMMA ValidatesIsFeasible ==
    ASSUME NEW inst, Good(inst), NEW ans \in Seq(Entry(inst))
    PROVE  Validates(inst, ans) <=> Feasible(inst, ans)
<1> DEFINE Keys == {ans[k].key : k \in DOMAIN ans} = Ops(inst)
           Jobs == \A x \in JobPairs(inst) :
                      ~ StartsOf(ans)[<<x[1], x[2] + 1>>]
                           < Finish(inst, StartsOf(ans), x)
           Places == \A m \in {ans[k].machine : k \in DOMAIN ans} : WindowsApart(ans, m)
           JobsF == \A k, l \in DOMAIN ans : k # l =>
                       (ans[k].key[1] = ans[l].key[1] /\ ans[k].key[2] < ans[l].key[2]
                          => End(ans[k]) <= ans[l].start)
           PlacesF == \A k, l \in DOMAIN ans : k # l =>
                       (ans[k].machine = ans[l].machine
                          => \/ End(ans[k]) <= ans[l].start
                             \/ End(ans[l]) <= ans[k].start)
<1>1. Validates(inst, ans) <=>
         OwnEntries(inst, ans) /\ KeysApart(ans) /\ Keys /\ Jobs /\ Places
  BY EntriesMatchMeans DEF Validates
<1>2. Feasible(inst, ans) <=>
         OwnEntries(inst, ans) /\ KeysApart(ans) /\ Keys /\ JobsF /\ PlacesF
  <2>1. Keys => (Len(ans) = Cardinality(Ops(inst)) <=> KeysApart(ans))
    BY AsManyIsApart
  <2>2. Keys => \A k \in DOMAIN ans : ans[k].key \in Ops(inst)
    OBVIOUS
  <2>3. Feasible(inst, ans) <=>
           /\ Len(ans) = Cardinality(Ops(inst)) /\ Keys
           /\ \A k \in DOMAIN ans : /\ ans[k].start >= 0
                                    /\ ans[k].machine = Machine(inst, ans[k].key)
                                    /\ ans[k].duration = Duration(inst, ans[k].key)
           /\ JobsF /\ PlacesF
    BY Zenon DEF Feasible
  <2>4. OwnEntries(inst, ans) /\ Keys <=>
           /\ Keys
           /\ \A k \in DOMAIN ans : /\ ans[k].start >= 0
                                    /\ ans[k].machine = Machine(inst, ans[k].key)
                                    /\ ans[k].duration = Duration(inst, ans[k].key)
    BY <2>2, Zenon DEF OwnEntries
  <2> HIDE DEF Keys, JobsF, PlacesF
  <2> QED BY <2>1, <2>3, <2>4
<1> SUFFICES ASSUME OwnEntries(inst, ans), KeysApart(ans), Keys
             PROVE  (Jobs <=> JobsF) /\ (Places <=> PlacesF)
  <2> HIDE DEF Keys, Jobs, Places, JobsF, PlacesF
  <2> QED BY <1>1, <1>2
<1> DEFINE s == StartsOf(ans)
<1>3. ASSUME NEW k \in DOMAIN ans
      PROVE  /\ ans[k].key \in Ops(inst) /\ ans[k].start \in Int
             /\ s[ans[k].key] = ans[k].start
             /\ ans[k].duration \in Nat
             /\ End(ans[k]) = Finish(inst, s, ans[k].key)
  <2>1. s[ans[k].key] = ans[k].start
    BY StartsOfFacts DEF KeysApart
  <2>2. ans[k].key \in Ops(inst) /\ ans[k].duration = Duration(inst, ans[k].key)
    BY DEF OwnEntries
  <2>3. ans[k] \in Entry(inst)
    OBVIOUS
  <2>4. ans[k].start \in Int
    BY <2>3 DEF Entry
  <2> HIDE DEF s
  <2> QED BY <2>1, <2>2, <2>4, OpFacts DEF End, Finish
<1>4. ASSUME NEW x \in Ops(inst) PROVE \E k \in DOMAIN ans : ans[k].key = x
  OBVIOUS
<1>5. \A x \in Ops(inst) : s[x] \in Int /\ Finish(inst, s, x) \in Int
  <2> SUFFICES ASSUME NEW x \in Ops(inst)
               PROVE  s[x] \in Int /\ Finish(inst, s, x) \in Int
    OBVIOUS
  <2>1. PICK k \in DOMAIN ans : ans[k].key = x
    BY <1>4
  <2>2. s[x] \in Int /\ Duration(inst, x) \in Nat
    <3> HIDE DEF s
    <3> QED BY <1>3, <2>1, OpFacts
  <2> HIDE DEF s
  <2> QED BY <2>2 DEF Finish
<1>6. Jobs <=> \A x \in JobPairs(inst) : Finish(inst, s, x) <= s[<<x[1], x[2] + 1>>]
  <2> SUFFICES ASSUME NEW x \in JobPairs(inst)
               PROVE  ~ s[<<x[1], x[2] + 1>>] < Finish(inst, s, x)
                         <=> Finish(inst, s, x) <= s[<<x[1], x[2] + 1>>]
    OBVIOUS
  <2>1. x \in Ops(inst) /\ <<x[1], x[2] + 1>> \in Ops(inst)
    BY DEF JobPairs
  <2> HIDE DEF s
  <2> QED BY <1>5, <2>1, SMT
<1> HIDE DEF s
<1>7. Jobs <=> JobsF
  <2>1. ASSUME Jobs, NEW k \in DOMAIN ans, NEW l \in DOMAIN ans,
               ans[k].key[1] = ans[l].key[1], ans[k].key[2] < ans[l].key[2]
        PROVE  End(ans[k]) <= ans[l].start
    <3>1. Finish(inst, s, ans[k].key) <= s[ans[l].key]
      <4> HIDE DEF Jobs
      <4> QED BY <1>3, <1>5, <1>6, <2>1, JobInOrder
    <3> QED BY <1>3, <3>1
  <2>2. ASSUME JobsF, NEW x \in JobPairs(inst)
        PROVE  Finish(inst, s, x) <= s[<<x[1], x[2] + 1>>]
    <3> DEFINE y == <<x[1], x[2] + 1>>
    <3>1. x \in Ops(inst) /\ y \in Ops(inst) /\ y[1] = x[1] /\ y[2] = x[2] + 1
      BY DEF JobPairs
    <3>2. x[2] \in Nat
      BY <3>1, OpFacts
    <3> HIDE DEF y
    <3>3. x[2] < y[2] /\ x # y
      BY <3>1, <3>2, SMT
    <3>4. PICK k \in DOMAIN ans : ans[k].key = x
      BY <1>4, <3>1
    <3>5. PICK l \in DOMAIN ans : ans[l].key = y
      BY <1>4, <3>1
    <3>6. End(ans[k]) <= ans[l].start
      BY <2>2, <3>1, <3>3, <3>4, <3>5
    <3>7. Finish(inst, s, x) <= s[y]
      BY <1>3, <3>4, <3>5, <3>6
    <3> QED BY <3>7 DEF y
  <2> HIDE DEF Jobs
  <2> QED BY <1>6, <2>1, <2>2
<1>8. Places <=> PlacesF
  <2>1. \A m : WindowsApart(ans, m) <=>
             \A k, l \in OnMachine(ans, m) : k # l =>
                \/ End(ans[k]) <= ans[l].start \/ End(ans[l]) <= ans[k].start
    BY <1>3, NeighboursDecide
  <2>2. \A m : \A k \in DOMAIN ans : k \in OnMachine(ans, m) <=> ans[k].machine = m
    BY DEF OnMachine
  <2>3. \A m : OnMachine(ans, m) \subseteq DOMAIN ans
    BY DEF OnMachine
  <2>4. ASSUME Places, NEW k \in DOMAIN ans, NEW l \in DOMAIN ans, k # l,
               ans[k].machine = ans[l].machine
        PROVE  End(ans[k]) <= ans[l].start \/ End(ans[l]) <= ans[k].start
    <3>1. WindowsApart(ans, ans[k].machine)
      BY <2>4
    <3>2. k \in OnMachine(ans, ans[k].machine) /\ l \in OnMachine(ans, ans[k].machine)
      BY <2>2, <2>4
    <3> QED BY <2>1, <2>4, <3>1, <3>2
  <2>5. ASSUME PlacesF, NEW m PROVE WindowsApart(ans, m)
    <3>1. \A k, l \in OnMachine(ans, m) : k # l =>
             \/ End(ans[k]) <= ans[l].start \/ End(ans[l]) <= ans[k].start
      BY <2>2, <2>3, <2>5
    <3> QED BY <2>1, <3>1
  <2> QED BY <2>4, <2>5
<1> QED BY <1>7, <1>8

(* The makespan is a finish, and no finish is later.                        *)
LEMMA MakespanFacts ==
    ASSUME NEW inst, Good(inst), NEW s, DOMAIN s = Ops(inst),
           \A x \in Ops(inst) : s[x] \in Nat
    PROVE  /\ Makespan(inst, s) \in Nat
           /\ \A x \in Ops(inst) : Finish(inst, s, x) <= Makespan(inst, s)
           /\ \E x \in Ops(inst) : Finish(inst, s, x) = Makespan(inst, s)
<1> DEFINE F == {Finish(inst, s, x) : x \in Ops(inst)}
<1>1. \A x \in Ops(inst) : Finish(inst, s, x) \in Nat
  BY OpFacts DEF Finish
<1>2. IsFiniteSet(F)
  <2> DEFINE f == [x \in Ops(inst) |-> Finish(inst, s, x)]
  <2>1. DOMAIN f = Ops(inst) /\ F = {f[x] : x \in Ops(inst)}
    OBVIOUS
  <2> HIDE DEF f, F
  <2> QED BY <2>1, OpsFinite, ImageFinite
<1>3. F \subseteq Nat /\ F # {}
  BY <1>1 DEF Good
<1>4. Max(F) \in F /\ \A y \in F : Max(F) >= y
  <2> HIDE DEF F
  <2>1. \E m \in F : \A y \in F : y <= m
    BY <1>2, <1>3, GreatestNatural
  <2>2. \E m \in F : \A y \in F : m >= y
    BY <1>3, <2>1, SMT
  <2> QED BY <2>2 DEF Max
<1>5. Makespan(inst, s) = Max(F)
  BY DEF Makespan
<1>6. Max(F) \in Nat
  BY <1>3, <1>4
<1>7. ASSUME NEW x \in Ops(inst) PROVE Finish(inst, s, x) <= Max(F)
  <2>1. Finish(inst, s, x) \in F
    OBVIOUS
  <2> HIDE DEF F
  <2> QED BY <1>1, <1>4, <1>6, <2>1
<1>8. \E x \in Ops(inst) : Finish(inst, s, x) = Max(F)
  BY <1>4
<1> QED BY <1>5, <1>6, <1>7, <1>8

LEMMA CostOfAnswer ==
    ASSUME NEW inst, Good(inst), NEW ans \in Seq(Entry(inst)), Validates(inst, ans)
    PROVE  LET cost == Makespan(inst, StartsOf(ans))
           IN  /\ \A k \in DOMAIN ans : End(ans[k]) <= cost
               /\ \E k \in DOMAIN ans : End(ans[k]) = cost
<1> DEFINE s == StartsOf(ans)
<1>1. OwnEntries(inst, ans) /\ KeysApart(ans)
      /\ {ans[k].key : k \in DOMAIN ans} = Ops(inst)
  BY EntriesMatchMeans DEF Validates
<1>2. DOMAIN s = Ops(inst)
  BY <1>1 DEF StartsOf
<1>3. ASSUME NEW k \in DOMAIN ans
      PROVE  /\ ans[k].key \in Ops(inst) /\ s[ans[k].key] = ans[k].start
             /\ ans[k].start \in Nat
             /\ End(ans[k]) = Finish(inst, s, ans[k].key)
  <2>1. s[ans[k].key] = ans[k].start
    BY <1>1, StartsOfFacts DEF KeysApart
  <2>2. ans[k].key \in Ops(inst) /\ ans[k].duration = Duration(inst, ans[k].key)
        /\ ans[k].start >= 0
    BY <1>1 DEF OwnEntries
  <2>3. ans[k] \in Entry(inst)
    OBVIOUS
  <2>4. ans[k].start \in Int
    BY <2>3 DEF Entry
  <2> HIDE DEF s
  <2> QED BY <2>1, <2>2, <2>4, OpFacts DEF End, Finish
<1>4. \A x \in Ops(inst) : \E k \in DOMAIN ans : ans[k].key = x
  BY <1>1
<1> HIDE DEF s
<1>5. \A x \in Ops(inst) : s[x] \in Nat
  BY <1>3, <1>4
<1>6. /\ \A x \in Ops(inst) : Finish(inst, s, x) <= Makespan(inst, s)
      /\ \E x \in Ops(inst) : Finish(inst, s, x) = Makespan(inst, s)
  BY <1>2, <1>5, MakespanFacts
<1>7. \E k \in DOMAIN ans : End(ans[k]) = Makespan(inst, s)
  <2>1. PICK x \in Ops(inst) : Finish(inst, s, x) = Makespan(inst, s)
    BY <1>6
  <2>2. PICK k \in DOMAIN ans : ans[k].key = x
    BY <1>4
  <2> QED BY <1>3, <2>1, <2>2
<1>8. \A k \in DOMAIN ans : End(ans[k]) <= Makespan(inst, s)
  BY <1>3, <1>6
<1> QED BY <1>7, <1>8 DEF s

(* A feasible schedule, listed, passes validate at its own makespan.        *)
LEMMA ListedSchedule ==
    ASSUME NEW inst, Good(inst), NEW s, \A x \in Ops(inst) : s[x] \in Nat
    PROVE  /\ Schedule(inst, s) \in Seq(Entry(inst))
           /\ OwnEntries(inst, Schedule(inst, s)) /\ KeysApart(Schedule(inst, s))
           /\ \A k \in DOMAIN Schedule(inst, s) :
                 Schedule(inst, s)[k].start = s[Schedule(inst, s)[k].key]
<1> DEFINE ans == Schedule(inst, s)
           Es == Entries(inst, s)
<1>1. ans \in Seq(Es) /\ KeysApart(ans)
  BY ScheduleFacts
<1>2. ASSUME NEW x \in Ops(inst)
      PROVE  LET e == EntryOf(inst, s, x)
             IN  /\ e \in Entry(inst) /\ e.key = x /\ e.start = s[x]
                 /\ e.machine = Machine(inst, x) /\ e.duration = Duration(inst, x)
                 /\ e.start >= 0
  <2>1. Machine(inst, x) \in Machines(inst) /\ Duration(inst, x) \in Nat
    BY OpFacts
  <2>2. Machines(inst) \subseteq Int
    BY DEF Good, Machines
  <2>3. s[x] \in Nat /\ Machine(inst, x) \in Int /\ Duration(inst, x) \in Int
    BY <2>1, <2>2
  <2> QED BY <2>3 DEF EntryOf, Entry
<1>3. Es \subseteq Entry(inst)
  BY <1>2 DEF Entries
<1> HIDE DEF ans
<1>4. ans \in Seq(Entry(inst))
  <2> HIDE DEF Es
  <2>1. \A k \in 1 .. Len(ans) : ans[k] \in Entry(inst)
    BY <1>1, <1>3
  <2> QED BY <1>1, <2>1
<1>5. ASSUME NEW k \in DOMAIN ans
      PROVE  /\ ans[k].key \in Ops(inst)
             /\ ans[k].start >= 0 /\ ans[k].start = s[ans[k].key]
             /\ ans[k].machine = Machine(inst, ans[k].key)
             /\ ans[k].duration = Duration(inst, ans[k].key)
  <2>1. ans[k] \in Es
    <3> HIDE DEF Es
    <3> QED BY <1>1
  <2>2. PICK x \in Ops(inst) : ans[k] = EntryOf(inst, s, x)
    BY <2>1 DEF Entries
  <2> QED BY <1>2, <2>2
<1>6. OwnEntries(inst, ans)
  BY <1>5 DEF OwnEntries
<1> QED BY <1>1, <1>4, <1>5, <1>6 DEF ans

LEMMA PublishedPasses ==
    ASSUME NEW inst, Good(inst), NEW s, DOMAIN s = Ops(inst),
           \A x \in Ops(inst) : s[x] \in Nat,
           \A x \in JobPairs(inst) : Finish(inst, s, x) <= s[<<x[1], x[2] + 1>>],
           \A x, y \in Ops(inst) :
              x # y /\ Machine(inst, x) = Machine(inst, y) => Apart(inst, s, x, y)
    PROVE  /\ Validates(inst, Schedule(inst, s))
           /\ Makespan(inst, StartsOf(Schedule(inst, s))) = Makespan(inst, s)
<1> DEFINE ans == Schedule(inst, s)
<1>1. /\ ans \in Seq(Entry(inst)) /\ OwnEntries(inst, ans) /\ KeysApart(ans)
      /\ \A k \in DOMAIN ans : ans[k].start = s[ans[k].key]
  BY ListedSchedule
<1>2. {ans[k].key : k \in DOMAIN ans} = Ops(inst)
  BY ScheduleFacts
<1> HIDE DEF ans
<1>3. ASSUME NEW k \in DOMAIN ans
      PROVE  /\ ans[k].key \in Ops(inst) /\ ans[k].start >= 0
             /\ ans[k].start = s[ans[k].key]
             /\ ans[k].machine = Machine(inst, ans[k].key)
             /\ ans[k].duration = Duration(inst, ans[k].key)
             /\ End(ans[k]) = Finish(inst, s, ans[k].key)
  BY <1>1 DEF OwnEntries, End, Finish
<1>4. Len(ans) = Cardinality(Ops(inst))
  BY <1>1, <1>2, AsManyIsApart
<1>5. ASSUME NEW k \in DOMAIN ans, NEW l \in DOMAIN ans, k # l
      PROVE  /\ ans[k].key[1] = ans[l].key[1] /\ ans[k].key[2] < ans[l].key[2]
                   => End(ans[k]) <= ans[l].start
             /\ ans[k].machine = ans[l].machine
                   => End(ans[k]) <= ans[l].start \/ End(ans[l]) <= ans[k].start
  <2>1. ans[k].key # ans[l].key
    BY <1>1, <1>5 DEF KeysApart
  <2>2. \A x \in Ops(inst) : s[x] \in Int
    OBVIOUS
  <2>3. ans[k].key \in Ops(inst) /\ ans[l].key \in Ops(inst)
    BY <1>3
  <2>4. ASSUME ans[k].key[1] = ans[l].key[1], ans[k].key[2] < ans[l].key[2]
        PROVE  End(ans[k]) <= ans[l].start
    <3>1. Finish(inst, s, ans[k].key) <= s[ans[l].key]
      BY <2>2, <2>3, <2>4, JobInOrder
    <3> QED BY <1>3, <3>1
  <2>5. ASSUME ans[k].machine = ans[l].machine
        PROVE  End(ans[k]) <= ans[l].start \/ End(ans[l]) <= ans[k].start
    <3>1. Apart(inst, s, ans[k].key, ans[l].key)
      BY <1>3, <2>1, <2>3, <2>5
    <3> QED BY <1>3, <3>1 DEF Apart
  <2> QED BY <2>4, <2>5
<1>6. Feasible(inst, ans)
  BY <1>2, <1>3, <1>4, <1>5 DEF Feasible
<1>7. Validates(inst, ans)
  BY <1>1, <1>6, ValidatesIsFeasible
<1>8. DOMAIN StartsOf(ans) = Ops(inst)
  BY <1>2 DEF StartsOf
<1>9. \A x \in Ops(inst) : Finish(inst, StartsOf(ans), x) = Finish(inst, s, x)
  <2> SUFFICES ASSUME NEW x \in Ops(inst)
               PROVE  Finish(inst, StartsOf(ans), x) = Finish(inst, s, x)
    OBVIOUS
  <2>1. PICK k \in DOMAIN ans : ans[k].key = x
    BY <1>2
  <2>2. StartsOf(ans)[x] = s[x]
    BY <1>1, <1>3, <2>1, StartsOfFacts DEF KeysApart
  <2> QED BY <2>2 DEF Finish
<1>10. Makespan(inst, StartsOf(ans)) = Makespan(inst, s)
  <2>1. {Finish(inst, StartsOf(ans), x) : x \in DOMAIN StartsOf(ans)}
           = {Finish(inst, s, x) : x \in DOMAIN s}
    BY <1>8, <1>9
  <2> QED BY <2>1, Zenon DEF Makespan
<1> QED BY <1>7, <1>10 DEF ans

-----------------------------------------------------------------------------
(* What is handed over, what is reported with it and what is recorded.      *)
Answered ==
    /\ adapter \in ListAdapters \cup ModelAdapters \cup {"other"}
    /\ Done => answer \in Seq(Entry(instance))
    /\ Done /\ adapter # "other" =>
          /\ answer = Schedule(instance, starts)
          /\ reported \in Int /\ reported >= Makespan(instance, starts)
          /\ adapter # "highs" => reported = Makespan(instance, starts)
    /\ phase = "evaluated" =>
          evaluation = IF Validates(instance, answer)
                       THEN [hard_feasible |-> TRUE,
                             cost |-> Makespan(instance, StartsOf(answer))]
                       ELSE None

Judged ==
    adapter \in ListAdapters /\ phase \in {"published", "evaluated", "refused"}
        => (phase = "refused" <=> ~ SoundOrders(instance, sequences))

LEMMA ReturnStartsAnswered ==
    ASSUME Inv, Answered, ReturnStarts PROVE Answered'
<1> DEFINE s == starts'
<1>1. /\ Good(instance) /\ phase' = "published" /\ adapter \in ModelAdapters
      /\ s \in [Ops(instance) -> 0 .. Horizon(instance)]
      /\ reported' \in 0 .. Horizon(instance)
      /\ Allows(adapter, instance, s, reported')
      /\ answer' = Schedule(instance, s)
      /\ UNCHANGED <<adapter, instance>>
  BY DEF ReturnStarts, Inv
<1>2. Horizon(instance) \in Nat
  BY <1>1, BoundFacts
<1> HIDE DEF s
<1>3. DOMAIN s = Ops(instance) /\ \A x \in Ops(instance) : s[x] \in Nat
  BY <1>1, <1>2
<1>4. answer' \in Seq(Entry(instance))
  BY <1>1, <1>3, ListedSchedule
<1>5. reported' \in Int
  BY <1>1, <1>2
<1>6. Makespan(instance, s) \in Nat
      /\ \E x \in Ops(instance) : Finish(instance, s, x) = Makespan(instance, s)
  BY <1>1, <1>3, MakespanFacts
<1>7. CASE adapter = "highs"
  <2>1. \A x \in Ops(instance) : reported' - s[x] >= Duration(instance, x)
    BY <1>1, <1>7 DEF Allows, HighsAllows
  <2>2. PICK x \in Ops(instance) : Finish(instance, s, x) = Makespan(instance, s)
    BY <1>6
  <2>3. reported' - s[x] >= Duration(instance, x) /\ s[x] \in Nat
        /\ Duration(instance, x) \in Nat
        /\ s[x] + Duration(instance, x) = Makespan(instance, s)
    BY <1>1, <1>3, <2>1, <2>2, OpFacts DEF Finish
  <2>4. reported' >= Makespan(instance, s)
    BY <1>5, <1>6, <2>3, SMT
  <2> QED BY <1>1, <1>4, <1>5, <1>7, <2>4 DEF Answered, s
<1>8. CASE adapter # "highs"
  <2>1. reported' = Max({Finish(instance, s, x) : x \in Ops(instance)})
    BY <1>1, <1>8, Zenon DEF Allows, OrtoolsAllows
  <2>2. reported' = Makespan(instance, s)
    BY <1>3, <2>1, Zenon DEF Makespan
  <2>3. reported' >= Makespan(instance, s)
    BY <1>6, <2>2, SMT
  <2> QED BY <1>1, <1>4, <1>5, <2>2, <2>3 DEF Answered, s
<1> QED BY <1>7, <1>8

LEMMA PublishAnswered ==
    ASSUME Inv, Answered, Publish PROVE Answered'
<1>1. /\ Good(instance) /\ phase' = "published" /\ adapter \in ListAdapters
      /\ answer' = Schedule(instance, starts)
      /\ reported' = Makespan(instance, starts)
      /\ UNCHANGED <<adapter, instance, starts>>
  BY DEF Publish, Inv
<1>2. Inv'
  BY NextInv DEF Next
<1>3. adapter' # "other"
  BY <1>1 DEF ListAdapters
<1>4. DOMAIN starts = Ops(instance) /\ \A x \in Ops(instance) : starts[x] \in Nat
  BY <1>1, <1>2, <1>3 DEF Inv, PublishedIsFeasible, TypeInv, Done
<1>5. answer' \in Seq(Entry(instance))
  BY <1>1, <1>4, ListedSchedule
<1>6. reported' \in Int /\ reported' >= Makespan(instance, starts)
  <2>1. Makespan(instance, starts) \in Nat
    BY <1>1, <1>4, MakespanFacts
  <2> QED BY <1>1, <2>1, SMT
<1> QED
  BY <1>1, <1>5, <1>6 DEF Answered

LEMMA VerdictKept ==
    Inv /\ InOrder /\ Answered /\ Judged /\ [Next]_vars
        => InOrder' /\ Answered' /\ Judged'
<1> SUFFICES ASSUME Inv, InOrder, Answered, Judged, [Next]_vars
             PROVE  InOrder' /\ Answered' /\ Judged'
  OBVIOUS
<1> DEFINE Silent == phase' \notin {"published", "evaluated", "refused"}
<1>1. adapter' = adapter /\ instance' = instance
  BY DEF Next, vars, ReturnOrders, ReturnStarts, ReturnOther, FindNothing,
         RefuseAssignment, BuildGraph, Process, Publish, RefuseSchedule, Evaluate
<1>2. sequences' = sequences =>
         (SoundOrders(instance, sequences)' <=> SoundOrders(instance, sequences))
  BY <1>1
<1>3. ASSUME phase' \notin {"published", "evaluated"} PROVE Answered'
  BY <1>1, <1>3 DEF Answered, Done
<1>4. CASE ReturnOrders \/ FindNothing
  <2>1. phase' \in {"returned", "nothing"}
    BY <1>4 DEF ReturnOrders, FindNothing
  <2> QED BY <1>3, <2>1 DEF InOrder, Judged
<1>5. CASE ReturnStarts \/ ReturnOther
  <2>1. phase' = "published" /\ adapter' \notin ListAdapters
    BY <1>5 DEF ReturnStarts, ReturnOther, ListAdapters, ModelAdapters
  <2>2. CASE ReturnStarts
    BY <2>1, <2>2, ReturnStartsAnswered DEF InOrder, Judged
  <2>3. CASE ReturnOther
    <3>1. adapter' = "other" /\ answer' \in Seq(Entry(instance))
      BY <2>3 DEF ReturnOther, Inv, Good
    <3> QED BY <1>1, <2>1, <3>1 DEF InOrder, Judged, Answered
  <2> QED BY <1>5, <2>2, <2>3
<1>6. CASE RefuseAssignment \/ RefuseSchedule
  <2>1. phase' = "refused" /\ sequences' = sequences
    BY <1>6 DEF RefuseAssignment, RefuseSchedule
  <2>2. ~ SoundOrders(instance, sequences)
    BY <1>6, RefusedIsUnsound
  <2> QED BY <1>2, <1>3, <2>1, <2>2 DEF InOrder, Judged
<1>7. CASE BuildGraph
  <2>1. phase' = "sorting"
    BY <1>7 DEF BuildGraph
  <2> QED BY <1>3, <1>7, <2>1, BuildInOrder DEF Judged
<1>8. CASE \E x \in Ops(instance) : Process(x)
  <2>1. phase' = "sorting"
    BY <1>8 DEF Process
  <2> QED BY <1>3, <1>8, <2>1, ProcessInOrder DEF Judged
<1>9. CASE Publish
  <2>1. phase' = "published" /\ sequences' = sequences
    BY <1>9 DEF Publish
  <2>2. SoundOrders(instance, sequences)
    BY <1>9, PublishedIsSound
  <2> QED BY <1>2, <1>9, <2>1, <2>2, PublishAnswered DEF InOrder, Judged
<1>10. CASE Evaluate
  <2>1. /\ phase = "published" /\ phase' = "evaluated"
        /\ UNCHANGED <<adapter, instance, sequences, starts, answer, reported>>
    BY <1>10 DEF Evaluate
  <2>2. Judged' /\ InOrder'
    BY <1>2, <2>1 DEF Judged, InOrder
  <2>3. /\ Entry(instance)' = Entry(instance)
        /\ Schedule(instance, starts)' = Schedule(instance, starts)
        /\ Makespan(instance, starts)' = Makespan(instance, starts)
    BY <2>1
  <2>4. /\ Makespan(instance, StartsOf(answer))' = Makespan(instance, StartsOf(answer))
        /\ Validates(instance, answer)' <=> Validates(instance, answer)
    BY <2>1
  <2>5. Answered'
    BY <1>10, <2>1, <2>3, <2>4 DEF Answered, Done, Evaluate
  <2> QED BY <2>2, <2>5
<1>11. CASE UNCHANGED vars
  <2>1. UNCHANGED <<phase, adapter, instance, sequences, edges, starts, ready,
                    answer, reported, evaluation>>
    BY <1>11 DEF vars
  <2>2. Judged'
    BY <1>2, <2>1 DEF Judged
  <2>3. InOrder'
    <3>1. \A y : Waiting(y)' = Waiting(y)
      BY <2>1 DEF Waiting, Into
    <3> QED BY <2>1, <3>1 DEF InOrder
  <2>4. /\ Entry(instance)' = Entry(instance)
        /\ Schedule(instance, starts)' = Schedule(instance, starts)
        /\ Makespan(instance, starts)' = Makespan(instance, starts)
    BY <2>1
  <2>5. /\ Makespan(instance, StartsOf(answer))' = Makespan(instance, StartsOf(answer))
        /\ Validates(instance, answer)' <=> Validates(instance, answer)
    BY <2>1
  <2>6. Answered'
    BY <2>1, <2>4, <2>5 DEF Answered, Done
  <2> QED BY <2>2, <2>3, <2>6
<1> QED
  BY <1>4, <1>5, <1>6, <1>7, <1>8, <1>9, <1>10, <1>11 DEF Next

(* Nobody refuses a good answer or lets a bad one pass, for every instance, *)
(* every machine order and every answer: a list adapter refuses exactly the *)
(* orders that are not sound, validate accepts exactly the feasible answers,*)
(* and the cost of a row is the latest end, which is what the adapter       *)
(* reported, or less where HiGHS stops with an incumbent.                   *)
THEOREM VerdictsAreRight == Spec => []VerdictIsFeasibility
<1>1. Init => InOrder /\ Answered /\ Judged
  BY DEF Init, InOrder, Answered, Judged, Done
<1>2. Inv /\ Answered /\ Judged => VerdictIsFeasibility
  <2> SUFFICES ASSUME Inv, Answered, Judged, phase = "evaluated"
               PROVE
        /\ evaluation.hard_feasible <=> Feasible(instance, answer)
        /\ evaluation.hard_feasible =>
              /\ \A k \in DOMAIN answer : End(answer[k]) <= evaluation.cost
              /\ \E k \in DOMAIN answer : End(answer[k]) = evaluation.cost
        /\ adapter # "other" => reported >= evaluation.cost
        /\ adapter \notin {"other", "highs"} => reported = evaluation.cost
    BY Zenon DEF VerdictIsFeasibility, Judged
  <2>1. Good(instance) /\ Done /\ answer \in Seq(Entry(instance))
    BY DEF Inv, Answered, Done
  <2>2. Validates(instance, answer) <=> Feasible(instance, answer)
    BY <2>1, ValidatesIsFeasible
  <2>3. ASSUME adapter # "other"
        PROVE  Validates(instance, answer)
               /\ Makespan(instance, StartsOf(answer)) = Makespan(instance, starts)
    <3>1. answer = Schedule(instance, starts)
      BY <2>1, <2>3 DEF Answered
    <3>2. DOMAIN starts = Ops(instance) /\ \A x \in Ops(instance) : starts[x] \in Nat
      BY <2>1, <2>3 DEF Inv, PublishedIsFeasible, TypeInv
    <3>3. /\ \A x \in JobPairs(instance) :
                Finish(instance, starts, x) <= starts[<<x[1], x[2] + 1>>]
          /\ \A x, y \in Ops(instance) :
                x # y /\ Machine(instance, x) = Machine(instance, y)
                   => Apart(instance, starts, x, y)
      BY <2>1, <2>3 DEF Inv, PublishedIsFeasible
    <3> QED BY <2>1, <3>1, <3>2, <3>3, PublishedPasses
  <2>4. CASE Validates(instance, answer)
    <3>1. evaluation.hard_feasible = TRUE
          /\ evaluation.cost = Makespan(instance, StartsOf(answer))
      BY <2>4 DEF Answered
    <3>2. /\ \A k \in DOMAIN answer : End(answer[k]) <= evaluation.cost
          /\ \E k \in DOMAIN answer : End(answer[k]) = evaluation.cost
      BY <2>1, <2>4, <3>1, CostOfAnswer
    <3>3. /\ adapter # "other" => reported >= evaluation.cost
          /\ adapter \notin {"other", "highs"} => reported = evaluation.cost
      BY <2>1, <2>3, <3>1 DEF Answered
    <3> QED BY <2>2, <2>4, <3>1, <3>2, <3>3
  <2>5. CASE ~ Validates(instance, answer)
    <3>1. evaluation.hard_feasible = FALSE /\ adapter = "other"
      BY <2>3, <2>5 DEF Answered, None
    <3> QED BY <2>2, <2>5, <3>1
  <2> QED BY <2>4, <2>5
<1> QED
  BY <1>1, <1>2, VerdictKept, Invariance, PTL DEF Spec
=============================================================================
