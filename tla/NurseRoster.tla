------------------------------ MODULE NurseRoster ------------------------------
(***************************************************************************)
(* One row of the employee-scheduling benchmark: an instance is turned     *)
(* into shift slots, an engine fills them or a model over columns is       *)
(* solved, the adapter hands back a roster with the costs it claims, and   *)
(* the validator decides what the row says.  The rules of the problem are  *)
(* written down three times, for the validator, as constraints on slots    *)
(* and as rows over columns; this module keeps the three apart.  The costs *)
(* of runs are those of NurseRuns, where the three are shown to agree.     *)
(* The rules are operators on an instance, the state machine comes last.   *)
(***************************************************************************)
EXTENDS Integers, Sequences, FiniteSets, FiniteSetsExt, Functions

CONSTANTS
    Weeks,      \* number of week files
    Instances,  \* loaded instances, names for indices
    AnyShift,   \* the shift type of a request for a whole day off
    NoNurse,    \* nurse_idx None
    NoShift,    \* last assigned shift type "None"
    Drifts      \* how far an engine's incremental score may be off

VARIABLES
    instance, method,
    step,       \* "search", "returned" or "row"
    plan,       \* the nurse of each slot
    outcome     \* what the adapter returned, then the row

rosterVars == <<instance, method, step, plan, outcome>>

Engines == {"solverforge", "solverforge-py", "timefold"}
Models == {"ortools", "highs"}

TotalDays == 7 * Weeks
Days == 1 .. TotalDays
Saturday(week) == 7 * week - 1
Sunday(week) == 7 * week

(* What the files of the competition satisfy and the code presumes without  *)
(* a check: days within the horizon, counts and bounds that are numbers, no *)
(* requirement that asks for more nurses than are optimal, no contract      *)
(* whose minimum exceeds its maximum.  A minimum of assignments is within   *)
(* reach of the column HiGHS bounds by history and horizon.                 *)
ASSUME WeeksAssumption == Weeks \in Nat
ASSUME DriftsAssumption == Drifts \subseteq Nat
WellFormed(i) ==
    /\ IsFiniteSet(i.nurses) /\ NoNurse \notin i.nurses
    /\ IsFiniteSet(DOMAIN i.types) /\ IsFiniteSet(DOMAIN i.requests)
    /\ \A t \in DOMAIN i.types : i.types[t] \in Nat \X Nat
    /\ IsFiniteSet(DOMAIN i.requirements)
    /\ \A k \in DOMAIN i.requirements :
          /\ k[3] \in Days
          /\ i.requirements[k].minimum \in Nat /\ i.requirements[k].optimal \in Nat
          /\ i.requirements[k].minimum <= i.requirements[k].optimal
    /\ \A n \in i.nurses :
          LET c == i.contract[n]
              h == i.history[n]
          IN  /\ c.work \in Nat \X Nat /\ c.off \in Nat \X Nat
              /\ {c.minimum, c.maximum, c.weekends} \subseteq Nat
              /\ {h.assignments, h.weekends, h.shifts, h.working, h.off} \subseteq Nat
              /\ c.minimum <= c.maximum
              /\ c.minimum <= 2 * h.assignments + TotalDays
ASSUME InstancesAssumption == \A i \in Instances : WellFormed(i)

Nurses(i) == i.nurses
Covers(i) == DOMAIN i.requirements      \* <<shift type, skill, day>>
Positive(x) == IF x > 0 THEN x ELSE 0
Forbidden(i, preceding, succeeding) ==
    preceding # NoShift /\ succeeding \in i.successors[preceding]

-----------------------------------------------------------------------------
(* instance_json: as many slots as are optimal, the first ones required.    *)

Slots(i) ==
    UNION {{[cover |-> k, slot |-> j] :
               j \in 0 .. i.requirements[k].optimal - 1} : k \in Covers(i)}
IsMinimum(i, s) == s.slot < i.requirements[s.cover].minimum

(* A nurse the engines may try for a slot, a column of the models.          *)
Candidate(i, cover, n) ==
    /\ cover[2] \in i.skills[n]
    /\ cover[3] = 1 => ~ Forbidden(i, i.history[n].last, cover[1])

(* An assignment: nurse, cover and, as a list may repeat it, a copy.        *)
(* Mutant: slots without a nurse are not skipped.                           *)
RosterOfAll(i, p) == {<<p[s], s.cover, s.slot>> : s \in Slots(i)}
Roster(i, p) == {<<p[s], s.cover, s.slot>> : s \in {t \in Slots(i) : p[t] # NoNurse}}
OfColumns(x) == {<<c[2], c[1], 0>> : c \in x}
Columns(roster) == {<<a[2], a[1]>> : a \in roster}

Entries(roster, n, d) == {a \in roster : a[1] = n /\ a[2][3] = d}
Works(roster, n, d) == Entries(roster, n, d) # {}
WorksType(roster, n, d, t) == \E a \in Entries(roster, n, d) : a[2][1] = t
Covered(roster, k) == Cardinality({a \in roster : a[2] = k})

-----------------------------------------------------------------------------
(* The validator.                                                           *)

SingleAssignment(i, roster) ==
    \A n \in Nurses(i), d \in Days : Cardinality(Entries(roster, n, d)) <= 1
Skilled(i, roster) == \A a \in roster : a[2][2] \in i.skills[a[1]]
(* Mutant: the optimal number of nurses is demanded.                        *)
MinCoverageOfOptimal(i, roster) ==
    \A k \in Covers(i) : Covered(roster, k) >= i.requirements[k].optimal
MinCoverage(i, roster) ==
    \A k \in Covers(i) : Covered(roster, k) >= i.requirements[k].minimum
NoForbiddenSuccession(i, roster) ==
    \A a \in roster :
        IF a[2][3] = 1
        THEN ~ Forbidden(i, i.history[a[1]].last, a[2][1])
        ELSE \A b \in Entries(roster, a[1], a[2][3] - 1) :
                 ~ Forbidden(i, b[2][1], a[2][1])
Validates(i, roster) ==
    /\ SingleAssignment(i, roster) /\ Skilled(i, roster)
    /\ MinCoverage(i, roster) /\ NoForbiddenSuccession(i, roster)

Asked(request, n, cover) ==
    /\ request.nurse = n /\ request.day = cover[3]
    /\ request.type \in {AnyShift, cover[1]}

OptimalCoverage(i, roster) ==
    SumFunction([k \in Covers(i) |->
            30 * Positive(i.requirements[k].optimal - Covered(roster, k))])
ShiftOffRequests(i, roster) ==
    10 * Cardinality({r \in DOMAIN i.requests :
                         \E a \in roster : Asked(i.requests[r], a[1], a[2])})

TotalAssignmentBounds(i, roster, n) ==
    LET total == Cardinality({d \in Days : Works(roster, n, d)})
                 + i.history[n].assignments
    IN 20 * (Positive(i.contract[n].minimum - total)
             + Positive(total - i.contract[n].maximum))

Weekends(roster, n) ==
    {w \in 1 .. Weeks : \E d \in {Saturday(w), Sunday(w)} : Works(roster, n, d)}
WorkingWeekends(i, roster, n) ==
    30 * Positive(i.history[n].weekends + Cardinality(Weekends(roster, n))
                  - i.contract[n].weekends)
CompleteWeekends(i, roster, n) ==
    IF i.contract[n].complete
    THEN 30 * Cardinality({w \in 1 .. Weeks : Works(roster, n, Saturday(w))
                                              # Works(roster, n, Sunday(w))})
    ELSE 0

Runs(c, d) == INSTANCE NurseRuns WITH
    Horizon <- TotalDays, Cases <- {}, case <- c, days <- d, phase <- "done",
    count <- 0, cost <- 0, run <- 0, objective <- 0, start <- -1,
    consumed <- FALSE, scored <- 0
Counter(bounds, weight, active, length) ==
    [weight |-> weight, minimum |-> bounds[1], maximum |-> bounds[2],
     active |-> active, length |-> length]
(* Work, days off and every shift type: bounds with the history's run.      *)
RunBounds(i, roster, n) ==
    LET h == i.history[n]
        c == i.contract[n]
    IN Runs(Counter(c.work, 30, h.last # NoShift, h.working),
            [d \in Days |-> Works(roster, n, d)])!CostOverRuns
       + Runs(Counter(c.off, 30, h.last = NoShift, h.off),
              [d \in Days |-> ~ Works(roster, n, d)])!CostOverRuns
       + SumFunction([t \in DOMAIN i.types |->
                 Runs(Counter(i.types[t], 15, h.last = t, h.shifts),
                      [d \in Days |-> WorksType(roster, n, d, t)])!CostOverRuns])

Breakdown(i, roster) ==
    OptimalCoverage(i, roster) + ShiftOffRequests(i, roster)
    + SumFunction([n \in Nurses(i) |->
          TotalAssignmentBounds(i, roster, n) + RunBounds(i, roster, n)
          + WorkingWeekends(i, roster, n) + CompleteWeekends(i, roster, n)])

-----------------------------------------------------------------------------
(* Constraints on slots, as the engines are given them.                     *)

Required(i, p) == {s \in Slots(i) : IsMinimum(i, s) /\ p[s] = NoNurse}
SameNurse(i, p) == {st \in kSubset(2, {s \in Slots(i) : p[s] # NoNurse}) :
                       \A s, t \in st : p[s] = p[t]}
SameNurseDay(i, p) ==
    {st \in SameNurse(i, p) : \A s, t \in st : s.cover[3] = t.cover[3]}
ForbiddenPair(i, p) ==
    {st \in SameNurse(i, p) :
        \E s, t \in st : /\ s.cover[3] + 1 = t.cover[3]
                        /\ Forbidden(i, s.cover[1], t.cover[1])}
LacksSkill(i, p) ==
    {s \in Slots(i) : p[s] # NoNurse /\ s.cover[2] \notin i.skills[p[s]]}
HistoryBlocks(i, p) ==
    {s \in Slots(i) : /\ p[s] # NoNurse /\ s.cover[3] = 1
                      /\ Forbidden(i, i.history[p[s]].last, s.cover[1])}
HardScore(i, p) ==
    1000 * Cardinality(Required(i, p)) + Cardinality(SameNurseDay(i, p))
    + Cardinality(LacksSkill(i, p)) + Cardinality(HistoryBlocks(i, p))
    + Cardinality(ForbiddenPair(i, p))

(* What a nurse costs with no shift at all, and what the shifts change.     *)
Presence(i, p, n) == {s \in Slots(i) : p[s] = n}
TotalCost(i, n, items) ==
    LET total == items + i.history[n].assignments
    IN IF total < i.contract[n].minimum
       THEN 20 * (i.contract[n].minimum - total)
       ELSE 20 * Positive(total - i.contract[n].maximum)
WeekendCost(i, n, weekends) ==
    30 * Positive(i.history[n].weekends + weekends
                  - i.contract[n].weekends)
UnassignedCost(i, n) == TotalCost(i, n, 0) + WeekendCost(i, n, 0)
NurseDelta(i, p, n) ==
    TotalCost(i, n, Cardinality(Presence(i, p, n)))
    + WeekendCost(i, n, Cardinality(Weekends(Roster(i, p), n))) - UnassignedCost(i, n)
    + CompleteWeekends(i, Roster(i, p), n)

(* Mutant: an empty slot costs whether or not it is required.               *)
OptimalSlotsOfAll(i, p) == {s \in Slots(i) : p[s] = NoNurse \/ IsMinimum(i, s)}
OptimalSlots(i, p) == {s \in Slots(i) : p[s] = NoNurse /\ ~ IsMinimum(i, s)}
ShiftOffCost(i, p, s) ==
    10 * Cardinality({r \in DOMAIN i.requests :
                         Asked(i.requests[r], p[s], s.cover)})
SoftScore(i, p) ==
    30 * Cardinality(OptimalSlots(i, p))
    + SumFunction([s \in {t \in Slots(i) : p[t] # NoNurse} |-> ShiftOffCost(i, p, s)])
    + SumFunction([n \in Nurses(i) |->
          UnassignedCost(i, n) + RunBounds(i, Roster(i, p), n)
          + (IF Presence(i, p, n) = {} THEN 0 ELSE NurseDelta(i, p, n))])

-----------------------------------------------------------------------------
(* Rows over columns, as CP-SAT and HiGHS are given them.  A column that is *)
(* minimised takes the least value its rows allow.                          *)

Coverable(i, k) == {n \in Nurses(i) : Candidate(i, k, n)}
AllColumns(i) == {c \in Covers(i) \X Nurses(i) : Candidate(i, c[1], c[2])}
At(x, n, d) == {c \in x : c[2] = n /\ c[1][3] = d}
Mine(x, n) == {c \in x : c[2] = n}
Assigned(x, k) == {c \in x : c[1] = k}

CoverageRows(i, x) ==
    \A k \in Covers(i) : Cardinality(Assigned(x, k))
        \in Cardinality({s \in Slots(i) : s.cover = k /\ IsMinimum(i, s)})
            .. Cardinality({s \in Slots(i) : s.cover = k})
WorkRows(i, x) == \A n \in Nurses(i), d \in Days : Cardinality(At(x, n, d)) <= 1
(* Mutant: successions are looked for within a day.                         *)
SuccessionRowsWithinDay(i, x) ==
    \A n \in Nurses(i), d \in 1 .. TotalDays - 1 :
        \A b \in At(x, n, d), a \in At(x, n, d) : ~ Forbidden(i, b[1][1], a[1][1])
SuccessionRows(i, x) ==
    \A n \in Nurses(i), d \in 1 .. TotalDays - 1 :
        \A b \in At(x, n, d), a \in At(x, n, d + 1) : ~ Forbidden(i, b[1][1], a[1][1])
Admits(i, x) == CoverageRows(i, x) /\ WorkRows(i, x) /\ SuccessionRows(i, x)

Uncovered(i, x, k) ==
    Cardinality({s \in Slots(i) : s.cover = k}) - Cardinality(Assigned(x, k))
RequestCount(i, c) ==
    Cardinality({r \in DOMAIN i.requests :
                    Asked(i.requests[r], c[2], c[1])})
Under(i, x, n) == Positive(i.contract[n].minimum
                        - i.history[n].assignments - Cardinality(Mine(x, n)))
Over(i, x, n) == Positive(Cardinality(Mine(x, n))
                       - (i.contract[n].maximum
                          - i.history[n].assignments))
(* Mutant: without its release rows the column collapses to zero.           *)
IncompleteReleased(i, x, n) == {}
Incomplete(i, x, n) ==
    IF i.contract[n].complete
    THEN {w \in 1 .. Weeks : (At(x, n, Saturday(w)) = {}) # (At(x, n, Sunday(w)) = {})}
    ELSE {}
OverWeekends(i, x, n) ==
    Positive(Cardinality({w \in 1 .. Weeks :
                             At(x, n, Saturday(w)) \cup At(x, n, Sunday(w)) # {}})
             - (i.contract[n].weekends - i.history[n].weekends))
Objective(i, x) ==
    SumFunction([k \in Covers(i) |-> 30 * Uncovered(i, x, k)])
    + SumFunction([c \in x |-> 10 * RequestCount(i, c)])
    + SumFunction([n \in Nurses(i) |->
          20 * (Under(i, x, n) + Over(i, x, n)) + RunBounds(i, OfColumns(x), n)
          + 30 * (OverWeekends(i, x, n) + Cardinality(Incomplete(i, x, n)))])

-----------------------------------------------------------------------------
(* The run of one solver on one instance.                                   *)

Result(roster, reported, fresh, status) ==
    [kind |-> "solution", roster |-> roster, reported |-> reported,
     fresh |-> fresh, status |-> status]
NoResult(kind, status) ==
    [kind |-> kind, roster |-> {}, reported |-> 0, fresh |-> 0, status |-> status]
Unanswered == NoResult("none", "none")

RosterInit ==
    /\ instance \in Instances /\ method \in Engines \cup Models
    /\ step = "search"
    /\ plan = [s \in Slots(instance) |-> NoNurse]
    /\ outcome = Unanswered

(* An engine's move.  Timefold constructs in the order of the slots and has *)
(* no way back for a required one.                                          *)
Assign ==
    /\ step = "search" /\ method \in Engines
    /\ \E s \in Slots(instance), n \in Nurses(instance) :
           /\ Candidate(instance, s.cover, n)
           /\ method = "timefold" => \A t \in Required(instance, plan) :
                                        t.cover = s.cover => IsMinimum(instance, s)
           /\ plan' = [plan EXCEPT ![s] = n]
    /\ UNCHANGED <<instance, method, step, outcome>>
Unassign ==
    /\ step = "search" /\ method \in Engines
    /\ \E s \in Slots(instance) :
           /\ method = "timefold" => ~ IsMinimum(instance, s)
           /\ plan[s] # NoNurse
           /\ plan' = [plan EXCEPT ![s] = NoNurse]
    /\ UNCHANGED <<instance, method, step, outcome>>

Return(result) ==
    /\ step' = "returned" /\ outcome' = result
    /\ UNCHANGED <<instance, method, plan>>

(* The engine's score is recomputed, and refused with a required slot open. *)
ReturnPlan ==
    /\ step = "search" /\ method \in {"solverforge", "solverforge-py"}
    /\ \E drift \in Drifts :
           Return(IF Required(instance, plan) = {}
                  THEN Result(Roster(instance, plan), SoftScore(instance, plan) + drift,
                              SoftScore(instance, plan), "none")
                  ELSE NoResult(IF method = "solverforge-py" THEN "no_solution"
                                ELSE "error", "none"))
(* Timefold's own score is all there is, whatever the plan.                 *)
ReturnTimefold ==
    /\ step = "search" /\ method = "timefold"
    /\ LET score == SoftScore(instance, plan)
       IN Return(Result(Roster(instance, plan), score, score, "none"))

(* CP-SAT and HiGHS: an incumbent is validated by the adapter; at the time  *)
(* limit its penalties need not be down to their least.  Optimal is least:  *)
(* HiGHS's default gap, a ten-thousandth, is less than a unit below 10000.  *)
(* A requirement that asks for nobody has no slot, and no row of the MILP.  *)
ModelPosed ==
    method = "highs" =>
        \A k \in Covers(instance) :
            instance.requirements[k].optimal > 0 => Coverable(instance, k) # {}
Admitted(i) == {x \in SUBSET AllColumns(i) : Admits(i, x)}
ReturnColumns ==
    /\ step = "search" /\ method \in Models /\ ModelPosed
    /\ LET least == Min({Objective(instance, y) : y \in Admitted(instance)})
       IN \E x \in Admitted(instance), slack \in Drifts, optimal \in BOOLEAN :
              /\ optimal => slack = 0 /\ Objective(instance, x) = least
              /\ Return(IF Validates(instance, OfColumns(x))
                        THEN Result(OfColumns(x), Objective(instance, x) + slack,
                                    Breakdown(instance, OfColumns(x)),
                                    IF optimal THEN "OPTIMAL" ELSE "FEASIBLE")
                        ELSE NoResult("error", "FEASIBLE"))
FindNothing ==
    /\ step = "search" /\ method \in Models /\ ModelPosed
    /\ \/ Return(NoResult("no_solution", "no_incumbent"))
       \/ /\ Admitted(instance) = {}
          /\ Return(NoResult("no_solution", "proved_infeasible"))
(* HiGHS refuses a requirement nobody can cover, even one with minimum 0.   *)
RefuseModel ==
    /\ step = "search" /\ method = "highs" /\ ~ ModelPosed
    /\ Return(NoResult("error", "none"))

(* EmployeeSchedulingSpec.evaluate.                                         *)
Evaluate ==
    /\ step = "returned" /\ outcome.kind = "solution"
    /\ step' = "row"
    /\ LET feasible == Validates(instance, outcome.roster)
           cost == Breakdown(instance, outcome.roster)
       IN outcome' =
              [kind |-> outcome.kind, roster |-> outcome.roster,
               reported |-> outcome.reported, fresh |-> outcome.fresh,
               status |-> outcome.status,
               hard_feasible |-> feasible,
               cost |-> IF feasible THEN cost ELSE -1,
               model_delta |-> IF feasible THEN cost - outcome.fresh ELSE 0,
               score_drift |-> outcome.reported # outcome.fresh]
    /\ UNCHANGED <<instance, method, plan>>

Graded ==
    /\ step = "row" \/ (step = "returned" /\ outcome.kind # "solution")
    /\ UNCHANGED rosterVars

RosterNext ==
    \/ Assign \/ Unassign \/ ReturnPlan \/ ReturnTimefold
    \/ ReturnColumns \/ FindNothing \/ RefuseModel \/ Evaluate \/ Graded

RosterSpec == RosterInit /\ [][RosterNext]_rosterVars

-----------------------------------------------------------------------------
(* Every slot has a nurse or none, every row a cost or none.                *)
RosterTypeInv ==
    /\ instance \in Instances /\ method \in Engines \cup Models
    /\ step \in {"search", "returned", "row"}
    /\ plan \in [Slots(instance) -> Nurses(instance) \cup {NoNurse}]
    /\ outcome.kind \in {"none", "solution", "no_solution", "error"}
    /\ \A a \in outcome.roster : a[1] \in Nurses(instance) /\ a[2] \in Covers(instance)
    /\ outcome.reported \in Nat /\ outcome.fresh \in Nat
    /\ step = "row" => outcome.cost \in Nat \cup {-1}

(* A feasible row costs what the solver minimised: the slots' constraints   *)
(* and the rows over columns add up to the validator's breakdown, so        *)
(* validator_model_delta is zero, and an optimal model does not drift.      *)
ModelIsValidator ==
    step = "row" /\ outcome.hard_feasible =>
        /\ outcome.model_delta = 0
        /\ outcome.status = "OPTIMAL" => ~ outcome.score_drift

(* A plan without hard penalty is what the validator accepts, once the      *)
(* required slots are filled: neither may refuse what the other lets pass.  *)
HardScoreIsVerdict ==
    HardScore(instance, plan) = 0
        <=> Required(instance, plan) = {} /\ Validates(instance, Roster(instance, plan))

(* The rows rule out no roster that is valid and admit none that is not.    *)
RowsAdmitTheValid ==
    LET roster == Roster(instance, plan)
        x == Columns(roster)
    IN /\ Validates(instance, roster)
              => x \subseteq AllColumns(instance) /\ Admits(instance, x)
       /\ Admits(instance, x) => Validates(instance, OfColumns(x))

(* No roster an engine could come up with is cheaper, by the validator,     *)
(* than the one a model's solver proved to be optimal.                      *)
OptimalIsBest ==
    step = "row" /\ outcome.status = "OPTIMAL" =>
        \A p \in [Slots(instance) -> Nurses(instance) \cup {NoNurse}] :
            Validates(instance, Roster(instance, p))
                => outcome.cost <= Breakdown(instance, Roster(instance, p))
=============================================================================
