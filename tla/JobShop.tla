------------------------------- MODULE JobShop -------------------------------
(***************************************************************************)
(* One job-shop row: the instance file is loaded, an adapter turns what    *)
(* its solver returns into start times or refuses it, and the harness      *)
(* validates the schedule again on its own.                                *)
(*                                                                         *)
(* Three adapters get machine orders from their solver and compute the     *)
(* starts with a topological pass (evaluate_schedule in Rust, the same     *)
(* class in Java, _schedule_metrics in Python).  They take ready           *)
(* operations from a queue in three different orders; here any ready       *)
(* operation may be next, so what is checked holds for each of the three.  *)
(* Two adapters hand a mathematical model to their solver and read starts  *)
(* from it.  An operation is named by its place <<job, index>>.            *)
(***************************************************************************)
EXTENDS Integers, Sequences, FiniteSets, FiniteSetsExt, Functions, SequencesExt

CONSTANTS
    Files,          \* instance files: the header's two numbers and the rows
    Stray,          \* an operation id outside of the instance
    Orders(_),      \* machine orders a list solver may return
    Outputs(_)      \* other schedules the validator may be handed

VARIABLES
    adapter,        \* the registered method, or "other" for any output
    instance,       \* machines: their number; jobs: rows of operations
    phase,
    sequences,      \* machine orders the solver returned
    edges,          \* precedence edges of the pass, one per occurrence
    indegree,       \* unprocessed edges into each operation
    earliest,       \* start each operation has been pushed to so far
    ready,          \* operations whose predecessors are all processed
    penalty,        \* hard_penalty counted so far
    starts,         \* start times found so far
    answer,         \* Solution.operations
    reported,       \* Solution.reported_makespan
    evaluation      \* what spec.evaluate records

vars == <<adapter, instance, phase, sequences, edges, indegree, earliest,
          ready, penalty, starts, answer, reported, evaluation>>

ListAdapters == {"solverforge", "timefold", "solverforge-py"}
ModelAdapters == {"ortools", "highs"}

-----------------------------------------------------------------------------
(* The instance.  A row lists machine and duration of each operation; rows  *)
(* beyond the announced number of jobs are not read.                        *)

LoadInstance(file) ==
    [machines |-> file.machines,
     jobs |-> [j \in 1 .. Min({file.jobs, Len(file.rows)}) |->
                 [i \in 1 .. Len(file.rows[j]) \div 2 |->
                    [machine |-> file.rows[j][2 * i - 1],
                     duration |-> file.rows[j][2 * i]]]]]

Machines(inst) == 0 .. inst.machines - 1
Ops(inst) == UNION {{j} \X DOMAIN inst.jobs[j] : j \in DOMAIN inst.jobs}
Machine(inst, x) == inst.jobs[x[1]][x[2]].machine
Duration(inst, x) == inst.jobs[x[1]][x[2]].duration

(* Every machine id is below the number of machines and there is something  *)
(* to schedule, as in the bundled JSPLIB files; a solver's list may hold any*)
(* id, an answer any integers.                                              *)
ASSUME FilesAssumption ==
    \A file \in Files : LET inst == LoadInstance(file) IN
        /\ inst.machines \in Nat
        /\ inst.jobs \in Seq(Seq([machine : Machines(inst), duration : Nat]))
        /\ Ops(inst) # {} /\ Stray \notin Ops(inst)
        /\ Orders(inst) \subseteq
              [Machines(inst) -> Seq(Ops(inst) \cup {Stray})]
        /\ Outputs(inst) \subseteq
              Seq([key : Ops(inst) \cup {Stray}, machine : Int, start : Int,
                   duration : Int])

-----------------------------------------------------------------------------
(* Counting what is wrong with the assignment, and the precedence graph.    *)

Positions(seqs) == UNION {{m} \X DOMAIN seqs[m] : m \in DOMAIN seqs}
At(seqs, p) == seqs[p[1]][p[2]]
Before(p, q) == p[1] < q[1] \/ (p[1] = q[1] /\ p[2] < q[2])

Misplaced(inst, seqs) ==
    {p \in Positions(seqs) : \/ At(seqs, p) \notin Ops(inst)
                             \/ Machine(inst, At(seqs, p)) # p[1]}
Repeated(inst, seqs) ==
    {p \in Positions(seqs) : /\ At(seqs, p) \in Ops(inst)
                             /\ \E q \in Positions(seqs) :
                                   Before(q, p) /\ At(seqs, q) = At(seqs, p)}
Unassigned(inst, seqs) ==
    {x \in Ops(inst) : \A p \in Positions(seqs) : At(seqs, p) # x}

AssignmentPenalty(inst, seqs) ==
    Cardinality(Misplaced(inst, seqs)) + Cardinality(Repeated(inst, seqs))
    + Cardinality(Unassigned(inst, seqs))

JobPairs(inst) == {x \in Ops(inst) : <<x[1], x[2] + 1>> \in Ops(inst)}
(* Mutant: the last window of two is left out.                              *)
MachinePairsButLast(inst, seqs) ==
    {p \in Positions(seqs) : /\ <<p[1], p[2] + 2>> \in Positions(seqs)
                             /\ At(seqs, p) \in Ops(inst)
                             /\ At(seqs, <<p[1], p[2] + 1>>) \in Ops(inst)}
MachinePairs(inst, seqs) ==
    {p \in Positions(seqs) : /\ <<p[1], p[2] + 1>> \in Positions(seqs)
                             /\ At(seqs, p) \in Ops(inst)
                             /\ At(seqs, <<p[1], p[2] + 1>>) \in Ops(inst)}

JobEdges(inst) ==
    {[from |-> x, to |-> <<x[1], x[2] + 1>>, kind |-> "job", at |-> x] :
        x \in JobPairs(inst)}
MachineEdges(inst, seqs) ==
    {[from |-> At(seqs, p), to |-> At(seqs, <<p[1], p[2] + 1>>),
      kind |-> "machine", at |-> p] : p \in MachinePairs(inst, seqs)}

(* Rust and Java keep an edge for every occurrence; Python keeps a set per  *)
(* operation and leaves out edges from an operation to itself.              *)
Edges(a, inst, seqs) ==
    LET all == JobEdges(inst) \cup MachineEdges(inst, seqs)
    IN IF a = "solverforge-py"
       THEN {[from |-> e.from, to |-> e.to, kind |-> "any", at |-> e.from] :
                e \in {d \in all : d.from # d.to}}
       ELSE all

Into(E, x) == {e \in E : e.to = x}
Between(E, x, y) == {e \in E : e.from = x /\ e.to = y}
(* Mutant: counts predecessors where the loop counts edges down.            *)
InDegreeOfDistinct(E, x) == Cardinality({e.from : e \in Into(E, x)})
InDegree(E, x) == Cardinality(Into(E, x))

Finish(inst, s, x) == s[x] + Duration(inst, x)

Schedule(inst, s) ==
    FlattenSeq([j \in DOMAIN inst.jobs |->
        [i \in DOMAIN inst.jobs[j] |->
            [key |-> <<j, i>>, machine |-> Machine(inst, <<j, i>>),
             start |-> s[<<j, i>>], duration |-> Duration(inst, <<j, i>>)]]])

-----------------------------------------------------------------------------
(* The models handed to HiGHS and CP-SAT: which starts and makespan their   *)
(* rows allow.  The solvers themselves return anything their rows allow:    *)
(* HiGHS also its incumbent at the time limit.                              *)

(* Mutant: the longest job, as if machines never made a job wait.           *)
HorizonOfLongestJob(inst) ==
    Max({1} \cup {MapThenSumSet(LAMBDA i : inst.jobs[j][i].duration,
                                DOMAIN inst.jobs[j]) : j \in DOMAIN inst.jobs})
TotalDuration(inst, S) ==
    SumFunctionOnSet([x \in Ops(inst) |-> Duration(inst, x)], S)
Horizon(inst) == Max({1, TotalDuration(inst, Ops(inst))})
BigM(inst) == Horizon(inst) + Max({Duration(inst, x) : x \in Ops(inst)})

SharedPairs(inst) ==
    {xy \in Ops(inst) \X Ops(inst) :
        /\ Before(xy[1], xy[2])
        /\ Machine(inst, xy[1]) = Machine(inst, xy[2])
        /\ Machine(inst, xy[1]) \in Machines(inst)}

ChainsHold(inst, s) ==
    \A x \in JobPairs(inst) :
        s[<<x[1], x[2] + 1>>] - s[x] >= Duration(inst, x)

(* One binary per pair: 0 puts the first after the second, 1 the reverse.   *)
PairRows(inst, s, x, y, first) ==
    /\ s[x] - s[y] + first * BigM(inst) >= Duration(inst, y)
    /\ s[y] - s[x] - first * BigM(inst) >= Duration(inst, x) - BigM(inst)

HighsAllows(inst, s, makespan) ==
    /\ makespan <= Horizon(inst)
    /\ \A x \in Ops(inst) : s[x] \in 0 .. Horizon(inst)
    /\ \A xy \in SharedPairs(inst) :
          \E first \in 0 .. 1 : PairRows(inst, s, xy[1], xy[2], first)
    /\ ChainsHold(inst, s)
    /\ \A x \in Ops(inst) : makespan - s[x] >= Duration(inst, x)

(* AddNoOverlap keeps the intervals of a machine apart, empty ones too.     *)
OrtoolsAllows(inst, s, makespan) ==
    /\ \A x \in Ops(inst) : /\ s[x] \in 0 .. Horizon(inst)
                            /\ Finish(inst, s, x) <= Horizon(inst)
    /\ ChainsHold(inst, s)
    /\ \A xy \in SharedPairs(inst) :
          \/ Finish(inst, s, xy[1]) <= s[xy[2]]
          \/ Finish(inst, s, xy[2]) <= s[xy[1]]
    /\ makespan = Max({Finish(inst, s, x) : x \in Ops(inst)})

Allows(a, inst, s, makespan) ==
    IF a = "highs" THEN HighsAllows(inst, s, makespan)
                   ELSE OrtoolsAllows(inst, s, makespan)

-----------------------------------------------------------------------------
(* validate: every operation once, with its own machine and duration, jobs  *)
(* in order, and on each machine, sorted by start and end, no window before *)
(* the end of the one in front of it.                                       *)

EntriesMatch(inst, ans) ==
    \A k \in DOMAIN ans :
        /\ ans[k].key \in Ops(inst)
        /\ \A l \in 1 .. k - 1 : ans[l].key # ans[k].key
        /\ ans[k].start >= 0
        /\ ans[k].machine = Machine(inst, ans[k].key)
        /\ ans[k].duration = Duration(inst, ans[k].key)

StartsOf(ans) ==
    [x \in {ans[k].key : k \in DOMAIN ans} |->
        ans[CHOOSE k \in DOMAIN ans : ans[k].key = x].start]

End(entry) == entry.start + entry.duration
(* Mutant: windows that start together stay in the order of the answer.     *)
SortsByStart(a, b) == a.start <= b.start
SortsFirst(a, b) == \/ a.start < b.start
                    \/ a.start = b.start /\ End(a) <= End(b)
OnMachine(ans, m) == {k \in DOMAIN ans : ans[k].machine = m}
(* The places of a machine's entries in the answer, in the order sort leaves*)
(* them: any that has no entry in front of one that sorts before it.        *)
Sorted(ans, P) ==
    {w \in [1 .. Cardinality(P) -> P] :
        /\ IsInjective(w)
        /\ \A i, j \in DOMAIN w : i < j => SortsFirst(ans[w[i]], ans[w[j]])}
Windows(ans, m) == CHOOSE w \in Sorted(ans, OnMachine(ans, m)) : TRUE
WindowsApart(ans, m) ==
    LET w == Windows(ans, m)
    IN \A k \in 1 .. Len(w) - 1 : ans[w[k + 1]].start >= End(ans[w[k]])

Validates(inst, ans) ==
    /\ EntriesMatch(inst, ans)
    /\ {ans[k].key : k \in DOMAIN ans} = Ops(inst)
    /\ \A x \in JobPairs(inst) :
          ~ StartsOf(ans)[<<x[1], x[2] + 1>>] < Finish(inst, StartsOf(ans), x)
    /\ \A m \in {ans[k].machine : k \in DOMAIN ans} : WindowsApart(ans, m)

Makespan(inst, s) == Max({Finish(inst, s, x) : x \in DOMAIN s})

-----------------------------------------------------------------------------
None == [hard_feasible |-> FALSE, cost |-> -1]

Init ==
    /\ adapter \in ListAdapters \cup ModelAdapters \cup {"other"}
    /\ \E file \in Files : instance = LoadInstance(file)
    /\ phase = "solving"
    /\ sequences = <<>> /\ edges = {} /\ indegree = <<>> /\ earliest = <<>>
    /\ ready = {} /\ penalty = 0 /\ starts = <<>>
    /\ answer = <<>> /\ reported = -1 /\ evaluation = None

(* The list solver stops with some machine orders, good or bad.             *)
ReturnOrders ==
    /\ phase = "solving" /\ adapter \in ListAdapters
    /\ sequences' \in Orders(instance)
    /\ phase' = "returned"
    /\ UNCHANGED <<adapter, instance, edges, indegree, earliest, ready,
                   penalty, starts, answer, reported, evaluation>>

(* The solver of a model stops with starts its rows allow.                  *)
ReturnStarts ==
    /\ phase = "solving" /\ adapter \in ModelAdapters
    /\ starts' \in [Ops(instance) -> 0 .. Horizon(instance)]
    /\ reported' \in 0 .. Horizon(instance)
    /\ Allows(adapter, instance, starts', reported')
    /\ answer' = Schedule(instance, starts')
    /\ phase' = "published"
    /\ UNCHANGED <<adapter, instance, sequences, edges, indegree, earliest,
                   ready, penalty, evaluation>>

ReturnOther ==
    /\ phase = "solving" /\ adapter = "other"
    /\ answer' \in Outputs(instance)
    /\ phase' = "published"
    /\ UNCHANGED <<adapter, instance, sequences, edges, indegree, earliest,
                   ready, penalty, starts, reported, evaluation>>

(* No solution: cancelled, failed, infeasible, or no incumbent in time.     *)
FindNothing ==
    /\ phase = "solving" /\ adapter # "other"
    /\ phase' = "nothing"
    /\ UNCHANGED <<adapter, instance, sequences, edges, indegree, earliest,
                   ready, penalty, starts, answer, reported, evaluation>>

(* _scheduled_operations looks at the assignment before it builds a graph;  *)
(* Rust and Java build it in any case and only add to the penalty.          *)
RefuseAssignment ==
    /\ phase = "returned" /\ adapter = "solverforge-py"
    /\ AssignmentPenalty(instance, sequences) > 0
    /\ phase' = "refused"
    /\ UNCHANGED <<adapter, instance, sequences, edges, indegree, earliest,
                   ready, penalty, starts, answer, reported, evaluation>>

BuildGraph ==
    /\ phase = "returned"
    /\ adapter = "solverforge-py" => AssignmentPenalty(instance, sequences) = 0
    /\ penalty' = AssignmentPenalty(instance, sequences)
    /\ edges' = Edges(adapter, instance, sequences)
    /\ indegree' = [x \in Ops(instance) |-> InDegree(edges', x)]
    /\ ready' = {x \in Ops(instance) : indegree'[x] = 0}
    /\ earliest' = [x \in Ops(instance) |-> 0]
    /\ phase' = "sorting"
    /\ UNCHANGED <<adapter, instance, sequences, starts, answer, reported,
                   evaluation>>

Later(a, b) == IF a < b THEN b ELSE a

(* One turn of the loop over the queue: x starts, every edge out of it      *)
(* pushes its target back and counts its in-degree down.                    *)
Process(x) ==
    /\ phase = "sorting" /\ x \in ready
    /\ starts' = [y \in DOMAIN starts \cup {x} |->
                     IF y = x THEN earliest[x] ELSE starts[y]]
    /\ earliest' = [y \in Ops(instance) |->
                       IF Between(edges, x, y) = {} THEN earliest[y]
                       ELSE Later(earliest[y], Finish(instance, earliest, x))]
    /\ indegree' = [y \in Ops(instance) |->
                       indegree[y] - Cardinality(Between(edges, x, y))]
    /\ ready' = (ready \ {x}) \cup
                {y \in Ops(instance) : /\ Between(edges, x, y) # {}
                                       /\ indegree'[y] = 0}
    /\ UNCHANGED <<adapter, instance, phase, sequences, edges, penalty, answer,
                   reported, evaluation>>

TotalPenalty == penalty + Cardinality(Ops(instance) \ DOMAIN starts)

Publish ==
    /\ phase = "sorting" /\ ready = {} /\ TotalPenalty = 0
    /\ answer' = Schedule(instance, starts)
    /\ reported' = Makespan(instance, starts)
    /\ phase' = "published"
    /\ UNCHANGED <<adapter, instance, sequences, edges, indegree, earliest,
                   ready, penalty, starts, evaluation>>

RefuseSchedule ==
    /\ phase = "sorting" /\ ready = {} /\ TotalPenalty > 0
    /\ penalty' = TotalPenalty
    /\ phase' = "refused"
    /\ UNCHANGED <<adapter, instance, sequences, edges, indegree, earliest,
                   ready, starts, answer, reported, evaluation>>

Evaluate ==
    /\ phase = "published"
    /\ evaluation' = IF Validates(instance, answer)
                     THEN [hard_feasible |-> TRUE,
                           cost |-> Makespan(instance, StartsOf(answer))]
                     ELSE None
    /\ phase' = "evaluated"
    /\ UNCHANGED <<adapter, instance, sequences, edges, indegree, earliest,
                   ready, penalty, starts, answer, reported>>

Next ==
    \/ ReturnOrders \/ ReturnStarts \/ ReturnOther \/ FindNothing
    \/ RefuseAssignment \/ BuildGraph
    \/ \E x \in Ops(instance) : Process(x)
    \/ Publish \/ RefuseSchedule \/ Evaluate

Spec == Init /\ [][Next]_vars

-----------------------------------------------------------------------------
(* The counters of the pass never go below zero, and what it has started is *)
(* a part of the instance.                                                  *)
TypeInv ==
    /\ phase \in {"solving", "returned", "sorting", "published", "refused",
                  "nothing", "evaluated"}
    /\ penalty \in Nat
    /\ DOMAIN starts \subseteq Ops(instance)
    /\ \A x \in DOMAIN starts : starts[x] \in Nat
    /\ ready \subseteq Ops(instance)
    /\ phase = "sorting" =>
          /\ indegree \in [Ops(instance) -> Nat]
          /\ earliest \in [Ops(instance) -> Nat]

Done == phase \in {"published", "evaluated"}

(* What an adapter publishes, whichever it is, starts every operation, keeps*)
(* each job in order and never has two operations on a machine at once:     *)
(* evaluate_schedule, _scheduled_operations and the rows of the models.     *)
Apart(inst, s, x, y) ==
    Finish(inst, s, x) <= s[y] \/ Finish(inst, s, y) <= s[x]
PublishedIsFeasible ==
    Done /\ adapter # "other" =>
        /\ DOMAIN starts = Ops(instance)
        /\ \A x \in JobPairs(instance) :
              Finish(instance, starts, x) <= starts[<<x[1], x[2] + 1>>]
        /\ \A x, y \in Ops(instance) :
              x # y /\ Machine(instance, x) = Machine(instance, y)
                 => Apart(instance, starts, x, y)

(* What a feasible answer is, pair by pair and without sorting.             *)
Feasible(inst, ans) ==
    /\ Len(ans) = Cardinality(Ops(inst))
    /\ {ans[k].key : k \in DOMAIN ans} = Ops(inst)
    /\ \A k \in DOMAIN ans :
          /\ ans[k].start >= 0
          /\ ans[k].machine = Machine(inst, ans[k].key)
          /\ ans[k].duration = Duration(inst, ans[k].key)
    /\ \A k, l \in DOMAIN ans : k # l =>
          /\ ans[k].key[1] = ans[l].key[1] /\ ans[k].key[2] < ans[l].key[2]
                => End(ans[k]) <= ans[l].start
          /\ ans[k].machine = ans[l].machine
                => End(ans[k]) <= ans[l].start \/ End(ans[l]) <= ans[k].start

(* The adapters solve one problem: a schedule any of them publishes is      *)
(* within the horizon and the rows of both models, so none of them searches *)
(* a smaller space than another.                                            *)
EveryModelAllowsIt ==
    Done /\ adapter # "other" =>
        \A a \in ModelAdapters :
            Allows(a, instance, starts, Makespan(instance, starts))

(* y follows x in its job or on the machine x is placed on.                 *)
WaitsFor(inst, seqs, y, x) ==
    \/ y[1] = x[1] /\ y[2] = x[2] + 1
    \/ \E m \in DOMAIN seqs : \E k \in 1 .. Len(seqs[m]) - 1 :
          seqs[m][k] = x /\ seqs[m][k + 1] = y

(* A list adapter starts every operation at zero or the moment one it waits *)
(* for ends: no machine order could be scheduled earlier.                   *)
NoIdleStart ==
    Done /\ adapter \in ListAdapters =>
        \A x \in Ops(instance) :
            \/ starts[x] = 0
            \/ \E y \in Ops(instance) :
                  /\ WaitsFor(instance, sequences, x, y)
                  /\ Finish(instance, starts, y) = starts[x]

(* Orders that place every operation once, on its machine, and in which no  *)
(* operations wait for each other in a circle.                              *)
OnceInPlace(inst, seqs, x) ==
    LET m == Machine(inst, x)
    IN /\ Cardinality({k \in DOMAIN seqs[m] : seqs[m][k] = x}) = 1
       /\ \A n \in DOMAIN seqs \ {m} : \A k \in DOMAIN seqs[n] : seqs[n][k] # x
Circular(inst, seqs) ==
    \E C \in (SUBSET Ops(inst)) \ {{}} :
        \A y \in C : \E x \in C : WaitsFor(inst, seqs, y, x)
SoundOrders(inst, seqs) ==
    /\ \A x \in Ops(inst) : OnceInPlace(inst, seqs, x)
    /\ \A m \in DOMAIN seqs : \A k \in DOMAIN seqs[m] : seqs[m][k] # Stray
    /\ ~ Circular(inst, seqs)

(* Nobody refuses a good answer or lets a bad one pass.  A list adapter     *)
(* refuses exactly the machine orders that place an operation twice, not at *)
(* all or on another machine, or wait in a circle; validate, which sorts    *)
(* the windows and compares neighbours only, accepts exactly the feasible   *)
(* answers; a feasible row costs its latest end, which is the makespan the  *)
(* solver reported, except that an incumbent HiGHS stops with may claim     *)
(* more; none claims less.                                                  *)
VerdictIsFeasibility ==
    /\ adapter \in ListAdapters /\ phase \in {"published", "evaluated", "refused"}
        => (phase = "refused" <=> ~ SoundOrders(instance, sequences))
    /\ phase = "evaluated" =>
        /\ evaluation.hard_feasible <=> Feasible(instance, answer)
        /\ evaluation.hard_feasible =>
              /\ \A k \in DOMAIN answer : End(answer[k]) <= evaluation.cost
              /\ \E k \in DOMAIN answer : End(answer[k]) = evaluation.cost
        /\ adapter # "other" => reported >= evaluation.cost
        /\ adapter \notin {"other", "highs"} => reported = evaluation.cost
=============================================================================
