------------------------------- MODULE NurseRuns -------------------------------
(***************************************************************************)
(* The length of the runs of a nurse: days at work, days off, days on one  *)
(* shift type.  A run shorter than its minimum or longer than its maximum  *)
(* costs weight for each day; the run the history left open goes on into   *)
(* the first day, and one still open on the last day is only charged for   *)
(* being too long.  Three pieces of code charge it: the validator's loop   *)
(* over the days, the rows HiGHS minimises, and the presence runs of the   *)
(* Python adapter.  Here they read the same days side by side, one day at  *)
(* a time; a day is TRUE when it belongs to a run of the counter.          *)
(***************************************************************************)
EXTENDS Integers, Sequences, FiniteSets, FiniteSetsExt, Functions

CONSTANTS
    Horizon,    \* total_days: seven for every week
    Cases       \* a counter, its bounds and what the history says of it

VARIABLES
    case,       \* complement: days off are counted; weight, minimum, maximum;
                \* active, length: the history's last run and whether it is one
    days,       \* the nurse's days so far
    phase,
    count,      \* validator: cons_work, cons_off or cons_shift
    cost,       \* validator: its share of the breakdown
    run,        \* HiGHS: the run-length column of the last day
    objective,  \* HiGHS: penalty columns and the history's closure
    start,      \* Python: first day of the open presence run, or -1
    consumed,   \* Python: initial_consumed
    scored      \* Python: cost

vars == <<case, days, phase, count, cost, run, objective, start, consumed,
          scored>>

(* min <= max and a minimum the horizon can reach, as in every INRC-II      *)
(* scenario; without the first, HiGHS charges the larger of two penalties   *)
(* the other two add up, without the second its release constant is too     *)
(* small for the row of the minimum.                                        *)
ASSUME HorizonAssumption == Horizon \in Nat \ {0}
ASSUME CasesAssumption ==
    \A c \in Cases :
        /\ c \in [complement : BOOLEAN, weight : {15, 30}, minimum : Nat,
                  maximum : Nat, active : BOOLEAN, length : Nat]
        /\ c.minimum <= c.maximum
        /\ c.minimum <= Horizon + c.length

Initial(c) == IF c.active THEN c.length ELSE 0

(* Mutant: the excess is charged without a test for its sign.               *)
ClosedBoundsCostSigned(c, length) ==
    IF length = 0 THEN 0
    ELSE (IF length < c.minimum THEN c.weight * (c.minimum - length) ELSE 0)
         + c.weight * (length - c.maximum)
ClosedBoundsCost(c, length) ==
    IF length = 0 THEN 0
    ELSE (IF length < c.minimum THEN c.weight * (c.minimum - length) ELSE 0)
         + (IF length > c.maximum THEN c.weight * (length - c.maximum) ELSE 0)

MaxBoundCost(c, length) ==
    IF length > c.maximum THEN c.weight * (length - c.maximum) ELSE 0

-----------------------------------------------------------------------------
(* The validator: add a day to the run, or close the run and start over.    *)

ValidatorDay(a) ==
    /\ count' = IF a THEN count + 1 ELSE 0
    /\ cost' = IF ~ a /\ count > 0 THEN cost + ClosedBoundsCost(case, count)
                                   ELSE cost
(* Mutant: the run still open on the last day is closed.                    *)
ValidatorEndClosing ==
    /\ cost' = cost + ClosedBoundsCost(case, count)
    /\ UNCHANGED count
ValidatorEnd ==
    /\ cost' = cost + MaxBoundCost(case, count)
    /\ UNCHANGED count

-----------------------------------------------------------------------------
(* HiGHS.  Binary columns are 0 or 1; the rows of a day pin its run length, *)
(* and a penalty, being minimised, is the least its rows allow.             *)

Bit(b) == IF b THEN 1 ELSE 0

MaxPossibleLength(c) == Horizon + c.length
BigM(c) == MaxPossibleLength(c) + 1
ReleaseM(c) == c.weight * MaxPossibleLength(c)

Larger(x, y) == IF x < y THEN y ELSE x
(* The costs are piecewise linear, so a largest one is at an end of the     *)
(* range of lengths the code walks through.                                 *)
MaxClosedCost(c) ==
    Larger(c.weight * c.minimum,
           Larger(0, c.weight * (MaxPossibleLength(c) - c.maximum)))
MaxEndCost(c) == MaxBoundCost(c, MaxPossibleLength(c))

FirstRows(c, a, r) == -r + (Initial(c) + 1) * Bit(a) = 0

(* Mutant: without the cap a run may start at any length.                   *)
RunRowsUncapped(c, previous, r, b, a) ==
    /\ r - MaxPossibleLength(c) * a <= 0
    /\ r - previous + BigM(c) * a + BigM(c) * b <= 1 + 2 * BigM(c)
    /\ r - previous - BigM(c) * a - BigM(c) * b >= 1 - 2 * BigM(c)
    /\ r - BigM(c) * a + BigM(c) * b >= 1 - BigM(c)
RunRows(c, previous, r, b, a) ==
    /\ r - MaxPossibleLength(c) * a <= 0
    /\ r - previous + BigM(c) * a + BigM(c) * b <= 1 + 2 * BigM(c)
    /\ r - previous - BigM(c) * a - BigM(c) * b >= 1 - 2 * BigM(c)
    /\ r - BigM(c) * a + BigM(c) * b >= 1 - BigM(c)
    /\ r + BigM(c) * a - BigM(c) * b <= 1 + BigM(c)

CloseRows(close, b, a) ==
    /\ close - b <= 0
    /\ close + a <= 1
    /\ close - b + a >= 0
PenaltyRows(c, p, r, close) ==
    /\ p - c.weight * r - ReleaseM(c) * close
          >= - c.weight * c.maximum - ReleaseM(c)
    /\ p + c.weight * r - ReleaseM(c) * close
          >= c.weight * c.minimum - ReleaseM(c)
EndRows(c, p, r, last) ==
    /\ p - c.weight * r - ReleaseM(c) * last
          >= - c.weight * c.maximum - ReleaseM(c)
    /\ p - MaxEndCost(c) * last <= 0

Penalties(c, r, b, a) ==
    {p \in 0 .. MaxClosedCost(c) :
        \E close \in 0 .. 1 : CloseRows(close, b, a) /\ PenaltyRows(c, p, r, close)}
EndPenalties(c, r, last) == {p \in 0 .. MaxEndCost(c) : EndRows(c, p, r, last)}

HighsFirstDay(a) ==
    /\ run' \in 0 .. MaxPossibleLength(case) /\ FirstRows(case, a, run')
    /\ objective' = objective
                    + ClosedBoundsCost(case, Initial(case)) * Bit(~ a)
HighsDay(a) ==
    IF days = <<>> THEN HighsFirstDay(a)
    ELSE LET b == Bit(days[Len(days)])
         IN /\ run' \in 0 .. MaxPossibleLength(case)
            /\ RunRows(case, run, run', b, Bit(a))
            /\ Penalties(case, run, b, Bit(a)) # {}
            /\ objective' = objective + Min(Penalties(case, run, b, Bit(a)))
HighsEnd ==
    /\ EndPenalties(case, run, Bit(days[Horizon])) # {}
    /\ objective' = objective + Min(EndPenalties(case, run, Bit(days[Horizon])))
    /\ UNCHANGED run

-----------------------------------------------------------------------------
(* Python: the presence runs in the order of their days.  The first one     *)
(* takes in the history's run or closes it; with no run left to do either,  *)
(* it is closed at the end.                                                 *)

Pending == ~ consumed /\ Initial(case) > 0

RunCost(last) ==
    LET length == last + 1 - start
                  + (IF Pending /\ start = 0 THEN Initial(case) ELSE 0)
    IN (IF Pending /\ start # 0 THEN ClosedBoundsCost(case, Initial(case)) ELSE 0)
       + (IF last + 1 >= Horizon THEN MaxBoundCost(case, length)
                                 ELSE ClosedBoundsCost(case, length))

PresenceDay(a) ==
    /\ start' = IF ~ a THEN -1 ELSE IF start = -1 THEN Len(days) ELSE start
    /\ IF ~ a /\ start # -1
       THEN /\ scored' = scored + RunCost(Len(days) - 1)
            /\ consumed' = (consumed \/ Initial(case) > 0)
       ELSE UNCHANGED <<scored, consumed>>

(* The cost functions called with no presence: nothing assigned at all.     *)
EmptyCost(c) == IF c.complement THEN MaxBoundCost(c, Initial(c) + Horizon)
                                ELSE ClosedBoundsCost(c, Initial(c))
NothingPresent == \A d \in 1 .. Horizon : days[d] = case.complement

PresenceEnd ==
    /\ scored' = IF NothingPresent THEN EmptyCost(case)
                 ELSE IF start # -1 THEN scored + RunCost(Horizon - 1)
                 ELSE IF Pending THEN scored + ClosedBoundsCost(case, Initial(case))
                 ELSE scored
    /\ UNCHANGED <<start, consumed>>

-----------------------------------------------------------------------------
Init ==
    /\ case \in Cases
    /\ days = <<>> /\ phase = "days"
    /\ count = Initial(case) /\ cost = 0
    /\ run = 0 /\ objective = 0
    /\ start = -1 /\ consumed = FALSE /\ scored = 0

Day(a) ==
    /\ phase = "days" /\ Len(days) < Horizon
    /\ days' = Append(days, a)
    /\ ValidatorDay(a) /\ HighsDay(a) /\ PresenceDay(a)
    /\ UNCHANGED <<case, phase>>

End ==
    /\ phase = "days" /\ Len(days) = Horizon
    /\ phase' = "done"
    /\ ValidatorEnd /\ HighsEnd /\ PresenceEnd
    /\ UNCHANGED <<case, days>>

(* Nothing is left to read.  A day HiGHS has no columns for would be a      *)
(* deadlock: its rows would forbid a roster the others only charge.         *)
Rest == phase = "done" /\ UNCHANGED vars

Next == (\E a \in BOOLEAN : Day(a)) \/ End \/ Rest

Spec == Init /\ [][Next]_vars

-----------------------------------------------------------------------------
(* Every cost is a natural number and every column within its bounds.       *)
TypeInv ==
    /\ case \in Cases
    /\ days \in Seq(BOOLEAN) /\ Len(days) <= Horizon
    /\ phase \in {"days", "done"}
    /\ count \in Nat /\ cost \in Nat
    /\ run \in 0 .. MaxPossibleLength(case) /\ objective \in Nat
    /\ start \in -1 .. Horizon - 1
    /\ consumed \in BOOLEAN /\ scored \in Nat

(* The rows HiGHS minimises never charge a roster anything but what the     *)
(* validator has charged so far, and when all days are read the presence    *)
(* runs have too, whether or not the history's run went on.                 *)
CostsAgree ==
    /\ objective = cost
    /\ phase = "done" => scored = cost

(* What the three compute, without a loop: every maximal run of days once,  *)
(* the first with the history's run in front of it, the last without its    *)
(* minimum, and the history's run by itself when day one broke it.          *)
MaximalRuns ==
    {ij \in (DOMAIN days) \X (DOMAIN days) :
        /\ ij[1] <= ij[2] /\ \A d \in ij[1] .. ij[2] : days[d]
        /\ ij[1] = 1 \/ ~ days[ij[1] - 1]
        /\ ij[2] = Horizon \/ ~ days[ij[2] + 1]}
RunLength(ij) ==
    ij[2] - ij[1] + 1 + (IF ij[1] = 1 THEN Initial(case) ELSE 0)
RunCharge(ij) ==
    IF ij[2] = Horizon THEN MaxBoundCost(case, RunLength(ij))
                       ELSE ClosedBoundsCost(case, RunLength(ij))
CostOfRuns(S) == SumFunctionOnSet([ij \in S |-> RunCharge(ij)], S)
CostOverRuns ==
    CostOfRuns(MaximalRuns)
    + (IF days[1] THEN 0 ELSE ClosedBoundsCost(case, Initial(case)))
CostIsOverRuns == phase = "done" => cost = CostOverRuns
=============================================================================
