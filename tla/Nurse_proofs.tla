------------------------------ MODULE Nurse_proofs ------------------------------
(* The costs of employee scheduling.  First the three ways of charging for  *)
(* runs, which agree for every number of weeks and every bounds and history *)
(* an instance may state; then the roster, for every instance: constraints  *)
(* on slots, rows over columns and the validator accept the same rosters    *)
(* and charge them the same.                                                *)
EXTENDS NurseRuns, NurseRoster, FoldTheorems, TLAPS

(* What a row of the penalties may be: the least of a set with a least one. *)
LEMMA LeastIsMin ==
    ASSUME NEW S, NEW m \in S, S \subseteq Int, \A x \in S : m <= x
    PROVE  Min(S) = m
<1>1. \A x \in S : (\A y \in S : x <= y) => x = m
  BY SMT
<1> QED
  BY <1>1 DEF Min

LEMMA CaseFacts ==
    ASSUME NEW c \in Cases
    PROVE  /\ c.complement \in BOOLEAN /\ c.active \in BOOLEAN
           /\ c.weight \in {15, 30}
           /\ c.minimum \in Nat /\ c.maximum \in Nat /\ c.length \in Nat
           /\ c.minimum <= c.maximum /\ c.minimum <= Horizon + c.length
           /\ Initial(c) \in 0 .. c.length
           /\ MaxPossibleLength(c) \in Nat /\ Horizon \in Nat \ {0}
  BY HorizonAssumption, CasesAssumption, SMT DEF Initial, MaxPossibleLength

LEMMA CostTypes ==
    ASSUME NEW c \in Cases, NEW length \in Nat
    PROVE  /\ ClosedBoundsCost(c, length) \in Nat
           /\ MaxBoundCost(c, length) \in Nat
           /\ ClosedBoundsCost(c, 0) = 0 /\ MaxBoundCost(c, 0) = 0
<1> USE CaseFacts
<1>1. CASE c.weight = 15
  BY <1>1, SMT DEF ClosedBoundsCost, MaxBoundCost
<1>2. CASE c.weight = 30
  BY <1>2, SMT DEF ClosedBoundsCost, MaxBoundCost
<1> QED
  BY <1>1, <1>2

-----------------------------------------------------------------------------
(* The transition rows leave one run length, the one the loop counts.       *)
LEMMA RowsPinTheRun ==
    ASSUME NEW c \in Cases, NEW a \in BOOLEAN, NEW b \in BOOLEAN,
           NEW previous \in 0 .. MaxPossibleLength(c),
           NEW r \in 0 .. MaxPossibleLength(c),
           b <=> previous > 0,
           RunRows(c, previous, r, Bit(b), Bit(a))
    PROVE  r = IF a THEN previous + 1 ELSE 0
<1> DEFINE L == MaxPossibleLength(c)
<1>1. L \in Nat /\ BigM(c) = L + 1
  BY CaseFacts DEF BigM
<1>2. CASE a /\ b
  <2>1. Bit(a) = 1 /\ Bit(b) = 1
    BY <1>2 DEF Bit
  <2>2. /\ r - previous + BigM(c) * 1 + BigM(c) * 1 <= 1 + 2 * BigM(c)
        /\ r - previous - BigM(c) * 1 - BigM(c) * 1 >= 1 - 2 * BigM(c)
    BY <2>1, Zenon DEF RunRows
  <2> QED BY <1>1, <1>2, <2>2, SMT
<1>3. CASE a /\ ~ b
  <2>1. Bit(a) = 1 /\ Bit(b) = 0
    BY <1>3 DEF Bit
  <2>2. /\ r - BigM(c) * 1 + BigM(c) * 0 >= 1 - BigM(c)
        /\ r + BigM(c) * 1 - BigM(c) * 0 <= 1 + BigM(c)
    BY <2>1, Zenon DEF RunRows
  <2>3. previous = 0
    BY <1>1, <1>3, SMT
  <2> QED BY <1>1, <1>3, <2>2, <2>3, SMT
<1>4. CASE ~ a
  <2>1. Bit(a) = 0
    BY <1>4 DEF Bit
  <2>2. r - MaxPossibleLength(c) * 0 <= 0
    BY <2>1 DEF RunRows
  <2> QED BY <1>1, <1>4, <2>2, SMT
<1> QED
  BY <1>2, <1>3, <1>4

(* The release constant lets go of both rows of a day that closes no run,   *)
(* and a run that closes is charged once: it is not both short and long.    *)
Charged(w, low, high, r, close) ==
    IF close = 0 THEN 0
    ELSE (IF r < low THEN w * (low - r) ELSE 0)
         + (IF r > high THEN w * (r - high) ELSE 0)
Released(w, L, low, high, r, close, p) ==
    /\ p - w * r - w * L * close >= - w * high - w * L
    /\ p + w * r - w * L * close >= w * low - w * L

LEMMA ReleaseArithmetic ==
    ASSUME NEW w \in {15, 30}, NEW L \in Nat, NEW r \in 0 .. L,
           NEW low \in 0 .. L, NEW high \in Nat, low <= high,
           NEW close \in 0 .. 1, close = 1 => r > 0
    PROVE  /\ Charged(w, low, high, r, close)
                 \in 0 .. Larger(w * low, Larger(0, w * (L - high)))
           /\ Released(w, L, low, high, r, close,
                       Charged(w, low, high, r, close))
           /\ \A p \in Nat : Released(w, L, low, high, r, close, p)
                 => Charged(w, low, high, r, close) <= p
<1> USE DEF Charged, Released
<1>1. CASE w = 15 /\ close = 0
  BY <1>1, SMTT(30) DEF Larger
<1>2. CASE w = 15 /\ close = 1
  BY <1>2, SMTT(30) DEF Larger
<1>3. CASE w = 30 /\ close = 0
  BY <1>3, SMTT(30) DEF Larger
<1>4. CASE w = 30 /\ close = 1
  BY <1>4, SMTT(30) DEF Larger
<1> QED
  BY <1>1, <1>2, <1>3, <1>4, SMT

(* Minimised, the penalty of a day is what closing the run costs.           *)
LEMMA PenaltyIsClosedCost ==
    ASSUME NEW c \in Cases, NEW a \in BOOLEAN, NEW b \in BOOLEAN,
           NEW r \in 0 .. MaxPossibleLength(c), b <=> r > 0
    PROVE  Min(Penalties(c, r, Bit(b), Bit(a)))
              = IF b /\ ~ a THEN ClosedBoundsCost(c, r) ELSE 0
<1> DEFINE L == MaxPossibleLength(c)
           m == IF b /\ ~ a THEN ClosedBoundsCost(c, r) ELSE 0
           S == Penalties(c, r, Bit(b), Bit(a))
           close == IF b /\ ~ a THEN 1 ELSE 0
<1>1. L \in Nat /\ r \in Nat /\ r <= L /\ c.minimum <= L
      /\ c.minimum \in Nat /\ c.maximum \in Nat /\ c.minimum <= c.maximum
  BY CaseFacts DEF MaxPossibleLength
<1>2. \A x \in 0 .. 1 : CloseRows(x, Bit(b), Bit(a)) <=> x = close
  BY SMT DEF CloseRows, Bit
<1>3. S = {p \in 0 .. MaxClosedCost(c) : PenaltyRows(c, p, r, close)}
  BY <1>2, SMT DEF Penalties
<1>4. /\ m \in 0 .. MaxClosedCost(c) /\ PenaltyRows(c, m, r, close)
      /\ \A p \in Nat : PenaltyRows(c, p, r, close) => m <= p
  <2>1. close \in 0 .. 1 /\ (close = 1 => r > 0) /\ c.weight \in {15, 30}
    BY CaseFacts, <1>1
  <2>2. m = Charged(c.weight, c.minimum, c.maximum, r, close)
    BY <1>1, SMT DEF ClosedBoundsCost, Charged
  <2>3. \A p : PenaltyRows(c, p, r, close)
                <=> Released(c.weight, L, c.minimum, c.maximum, r, close, p)
    BY Zenon DEF PenaltyRows, Released, ReleaseM
  <2>4. MaxClosedCost(c) = Larger(c.weight * c.minimum,
                                  Larger(0, c.weight * (L - c.maximum)))
    BY DEF MaxClosedCost
  <2>5. c.minimum \in 0 .. L /\ r \in 0 .. L
    BY <1>1
  <2> HIDE DEF m, close, L
  <2> DEFINE k == Charged(c.weight, c.minimum, c.maximum, r, close)
  <2>6. /\ k \in 0 .. Larger(c.weight * c.minimum,
                             Larger(0, c.weight * (L - c.maximum)))
        /\ Released(c.weight, L, c.minimum, c.maximum, r, close, k)
        /\ \A p \in Nat :
              Released(c.weight, L, c.minimum, c.maximum, r, close, p) => k <= p
    BY <1>1, <2>1, <2>5, ReleaseArithmetic, Zenon
  <2> HIDE DEF k
  <2>7. /\ m \in 0 .. MaxClosedCost(c)
        /\ Released(c.weight, L, c.minimum, c.maximum, r, close, m)
        /\ \A p \in Nat :
              Released(c.weight, L, c.minimum, c.maximum, r, close, p) => m <= p
    BY <2>2, <2>4, <2>6, Zenon DEF k
  <2> QED BY <2>3, <2>7
<1>5. m \in S /\ \A p \in S : m <= p
  BY <1>3, <1>4, CaseFacts
<1>6. S \subseteq Int
  BY <1>3, SMT
<1> HIDE DEF m, S
<1>7. Min(S) = m
  BY <1>5, <1>6, LeastIsMin
<1> QED BY <1>7 DEF m, S

(* On the last day only the maximum is charged.                             *)
LEMMA EndPenaltyIsMaxCost ==
    ASSUME NEW c \in Cases, NEW b \in BOOLEAN,
           NEW r \in 0 .. MaxPossibleLength(c), b <=> r > 0
    PROVE  Min(EndPenalties(c, r, Bit(b))) = MaxBoundCost(c, r)
<1> DEFINE L == MaxPossibleLength(c)
           m == MaxBoundCost(c, r)
           S == EndPenalties(c, r, Bit(b))
<1>1. L \in Nat /\ r \in Nat /\ r <= L /\ c.maximum \in Nat
  BY CaseFacts DEF MaxPossibleLength
<1>2. ASSUME NEW w \in {15, 30}, c.weight = w
      PROVE  /\ m \in 0 .. MaxEndCost(c) /\ EndRows(c, m, r, Bit(b))
             /\ \A p \in 0 .. MaxEndCost(c) : EndRows(c, p, r, Bit(b)) => m <= p
  <2>1. CASE w = 15 /\ b
    BY <1>1, <1>2, <2>1, SMTT(30) DEF MaxEndCost, MaxBoundCost, EndRows, ReleaseM, Bit
  <2>2. CASE w = 15 /\ ~ b
    BY <1>1, <1>2, <2>2, SMTT(30) DEF MaxEndCost, MaxBoundCost, EndRows, ReleaseM, Bit
  <2>3. CASE w = 30 /\ b
    BY <1>1, <1>2, <2>3, SMTT(30) DEF MaxEndCost, MaxBoundCost, EndRows, ReleaseM, Bit
  <2>4. CASE w = 30 /\ ~ b
    BY <1>1, <1>2, <2>4, SMTT(30) DEF MaxEndCost, MaxBoundCost, EndRows, ReleaseM, Bit
  <2> QED BY <2>1, <2>2, <2>3, <2>4
<1>3. m \in S /\ \A p \in S : m <= p
  BY <1>2, CaseFacts DEF EndPenalties
<1>4. S \subseteq Int
  BY SMT DEF EndPenalties
<1> HIDE DEF m, S
<1>5. Min(S) = m
  BY <1>3, <1>4, LeastIsMin
<1> QED BY <1>5 DEF m, S
-----------------------------------------------------------------------------
(* The history's run is charged when a day breaks it by the validator and   *)
(* HiGHS, by Python only with the first presence run or at the end: until   *)
(* then the books differ by this much.                                      *)
Outstanding ==
    IF Pending /\ start # 0 THEN ClosedBoundsCost(case, Initial(case)) ELSE 0

Blank ==
    /\ count = Initial(case) /\ cost = 0 /\ objective = 0 /\ scored = 0
    /\ run = 0 /\ start = -1 /\ ~ consumed

OpenRun ==
    /\ count = run /\ (days[Len(days)] <=> run > 0)
    /\ start = -1 <=> ~ days[Len(days)]
    /\ start # -1 => /\ start < Len(days)
                     /\ run = Len(days) - start
                              + (IF start = 0 THEN Initial(case) ELSE 0)
    /\ start = 0 => ~ consumed /\ cost = 0 /\ scored = 0
    /\ (\A d \in 1 .. Len(days) : days[d]) => start = 0
    /\ (\A d \in 1 .. Len(days) : ~ days[d]) => ~ consumed /\ scored = 0

Books ==
    /\ phase = "days" =>
          /\ days = <<>> => Blank
          /\ days # <<>> => /\ OpenRun
                            /\ objective = cost /\ scored + Outstanding = cost
    /\ phase = "done" => objective = cost /\ scored = cost

IInv == TypeInv /\ Books

(* A charge for a run is a natural number.                                  *)
LEMMA RunCostType ==
    ASSUME TypeInv, start # -1, NEW last \in Nat, start <= last
    PROVE  RunCost(last) \in Nat
<1> DEFINE length == last + 1 - start
                     + (IF Pending /\ start = 0 THEN Initial(case) ELSE 0)
<1>1. case \in Cases /\ Initial(case) \in Nat /\ start \in Nat
  BY CaseFacts DEF TypeInv
<1>2. length \in Nat
  BY <1>1, SMT
<1> HIDE DEF length
<1>3. /\ ClosedBoundsCost(case, length) \in Nat /\ MaxBoundCost(case, length) \in Nat
      /\ ClosedBoundsCost(case, Initial(case)) \in Nat
  BY <1>1, <1>2, CostTypes
<1>4. RunCost(last)
        = (IF Pending /\ start # 0 THEN ClosedBoundsCost(case, Initial(case)) ELSE 0)
          + (IF last + 1 >= Horizon THEN MaxBoundCost(case, length)
                                    ELSE ClosedBoundsCost(case, length))
  BY DEF RunCost, length
<1> QED BY <1>3, <1>4, SMT

(* The first day: the history's run goes on in all three, or is closed.     *)
LEMMA FirstDayKeeps ==
    ASSUME IInv, NEW a \in BOOLEAN, Day(a), days = <<>>
    PROVE  IInv'
<1>1. /\ case \in Cases /\ phase = "days" /\ Blank /\ days' = <<a>>
      /\ case' = case /\ phase' = phase
  BY DEF IInv, TypeInv, Books, Day
<1>2. Len(days) = 0 /\ Len(days') = 1 /\ days'[1] = a /\ days' \in Seq(BOOLEAN)
      /\ days' # <<>> /\ Horizon \in Nat /\ Horizon >= 1
  BY <1>1, HorizonAssumption
<1>3. Initial(case) \in Nat
  BY <1>1, CaseFacts
<1>4. /\ ClosedBoundsCost(case, Initial(case)) \in Nat
      /\ ClosedBoundsCost(case, 0) = 0
  BY <1>1, <1>3, CostTypes
<1>5. /\ count' = IF a THEN Initial(case) + 1 ELSE 0
      /\ cost' = IF a THEN 0 ELSE ClosedBoundsCost(case, Initial(case))
  BY <1>1, <1>3, <1>4, SMT DEF Day, ValidatorDay, Blank
<1>6. /\ run' \in 0 .. MaxPossibleLength(case) /\ run' = count'
      /\ objective' = cost'
  <2>1. HighsFirstDay(a)
    BY DEF Day, HighsDay
  <2>2. CASE a
    BY <1>1, <1>3, <1>4, <1>5, <2>1, <2>2, CaseFacts, SMT
       DEF HighsFirstDay, FirstRows, Bit, Blank
  <2>3. CASE ~ a
    BY <1>1, <1>3, <1>4, <1>5, <2>1, <2>3, CaseFacts, SMT
       DEF HighsFirstDay, FirstRows, Bit, Blank
  <2> QED BY <2>2, <2>3
<1>7. start' = (IF a THEN 0 ELSE -1) /\ scored' = 0 /\ consumed' = FALSE
  BY <1>1, <1>2, SMT DEF Day, PresenceDay, Blank
<1>8. TypeInv'
  <2>1. MaxPossibleLength(case)' = MaxPossibleLength(case)
    BY <1>1, Zenon DEF MaxPossibleLength
  <2>2. count' \in Nat /\ cost' \in Nat
    BY <1>3, <1>4, <1>5, SMT
  <2>3. start' \in -1 .. Horizon - 1 /\ Len(days') <= Horizon
    BY <1>2, <1>7, SMT
  <2> QED BY <1>1, <1>2, <1>6, <1>7, <2>1, <2>2, <2>3 DEF TypeInv
<1>9. OpenRun'
  <2>1. CASE a
    BY <1>1, <1>2, <1>3, <1>5, <1>6, <1>7, <2>1, SMT DEF OpenRun, Initial
  <2>2. CASE ~ a
    BY <1>1, <1>2, <1>3, <1>5, <1>6, <1>7, <2>2, SMT DEF OpenRun, Initial
  <2> QED BY <2>1, <2>2
<1>10. (scored + Outstanding)' = cost'
  BY <1>1, <1>3, <1>4, <1>5, <1>7, SMT
     DEF Outstanding, Pending, Initial, ClosedBoundsCost
<1> QED BY <1>1, <1>2, <1>6, <1>8, <1>9, <1>10 DEF IInv, Books

(* A later day: HiGHS's rows pin the run and its penalty, Python settles    *)
(* what is outstanding with the run it closes.                              *)
LEMMA DayKeeps ==
    ASSUME IInv, NEW a \in BOOLEAN, Day(a), days # <<>>
    PROVE  IInv'
<1> DEFINE n == Len(days)
           b == days[n]
<1>1. /\ case \in Cases /\ phase = "days" /\ OpenRun
      /\ objective = cost /\ scored + Outstanding = cost
      /\ days' = Append(days, a) /\ case' = case /\ phase' = phase
  BY DEF IInv, TypeInv, Books, Day
<1>2. /\ n \in Nat \ {0} /\ n < Horizon /\ Horizon \in Nat
      /\ days \in Seq(BOOLEAN) /\ b \in BOOLEAN
  BY HorizonAssumption DEF IInv, TypeInv, Day
<1>3. /\ Len(days') = n + 1 /\ days'[n + 1] = a /\ days' \in Seq(BOOLEAN)
      /\ days' # <<>> /\ \A d \in 1 .. n : days'[d] = days[d]
  BY <1>1, <1>2
<1>4. /\ count \in Nat /\ cost \in Nat /\ run \in 0 .. MaxPossibleLength(case)
      /\ objective \in Nat /\ start \in -1 .. Horizon - 1
      /\ consumed \in BOOLEAN /\ scored \in Nat /\ Initial(case) \in Nat
      /\ Initial(case) <= case.length /\ case.length \in Nat
      /\ count = run /\ (b <=> run > 0)
  BY <1>1, CaseFacts DEF IInv, TypeInv, OpenRun
<1>5. /\ ClosedBoundsCost(case, run) \in Nat
      /\ ClosedBoundsCost(case, Initial(case)) \in Nat
  BY <1>1, <1>4, CaseFacts, CostTypes
<1>6. /\ count' = IF a THEN run + 1 ELSE 0
      /\ cost' = IF b /\ ~ a THEN cost + ClosedBoundsCost(case, run) ELSE cost
  BY <1>4, SMT DEF Day, ValidatorDay
<1>7. /\ run' \in 0 .. MaxPossibleLength(case)
      /\ run' = IF a THEN run + 1 ELSE 0
      /\ objective' = cost'
  <2>1. /\ run' \in 0 .. MaxPossibleLength(case)
        /\ RunRows(case, run, run', Bit(b), Bit(a))
        /\ objective' = objective + Min(Penalties(case, run, Bit(b), Bit(a)))
    BY DEF Day, HighsDay
  <2>2. run' = IF a THEN run + 1 ELSE 0
    BY <1>1, <1>2, <1>4, <2>1, RowsPinTheRun
  <2>3. Min(Penalties(case, run, Bit(b), Bit(a)))
           = IF b /\ ~ a THEN ClosedBoundsCost(case, run) ELSE 0
    BY <1>1, <1>2, <1>4, PenaltyIsClosedCost
  <2> QED BY <1>1, <1>4, <1>5, <1>6, <2>1, <2>2, <2>3, SMT
<1>8. CASE a
  <2>1. start' = (IF start = -1 THEN n ELSE start)
        /\ scored' = scored /\ consumed' = consumed /\ cost' = cost
    BY <1>6, <1>8 DEF Day, PresenceDay
  <2>2. TypeInv'
    BY <1>1, <1>2, <1>3, <1>4, <1>6, <1>7, <2>1, SMT DEF TypeInv, MaxPossibleLength
  <2>3. OpenRun'
    <3>1. /\ start' # 0 => start # 0
          /\ (\A d \in 1 .. Len(days') : days'[d]) => start' = 0
          /\ ~ (\A d \in 1 .. Len(days') : ~ days'[d])
      BY <1>1, <1>2, <1>3, <1>4, <1>8, <2>1, SMT DEF OpenRun
    <3>2. start' # -1 /\ start' < Len(days') /\ days'[Len(days')]
      BY <1>1, <1>2, <1>3, <1>4, <1>8, <2>1, SMT DEF OpenRun
    <3>3. run' = Len(days') - start' + (IF start' = 0 THEN Initial(case) ELSE 0)
      <4>1. CASE start = -1
        BY <1>1, <1>2, <1>3, <1>4, <1>7, <1>8, <2>1, <4>1, SMT DEF OpenRun
      <4>2. CASE start # -1
        BY <1>1, <1>2, <1>3, <1>4, <1>7, <1>8, <2>1, <4>2, SMT DEF OpenRun
      <4> QED BY <4>1, <4>2
    <3>4. start' = 0 => ~ consumed' /\ cost' = 0 /\ scored' = 0
      BY <1>1, <1>2, <2>1, SMT DEF OpenRun
    <3>5. count' = run' /\ run' > 0
      BY <1>4, <1>6, <1>7, <1>8, SMT
    <3> QED BY <1>1, <3>1, <3>2, <3>3, <3>4, <3>5 DEF OpenRun, Initial
  <2>4. (scored + Outstanding)' = cost'
    <3>1. start' = 0 <=> start = 0
      BY <1>2, <1>4, <2>1, SMT
    <3> QED BY <1>1, <2>1, <3>1 DEF Outstanding, Pending, Initial, ClosedBoundsCost
  <2> QED BY <1>1, <1>3, <1>7, <2>2, <2>3, <2>4 DEF IInv, Books
<1>9. CASE ~ a /\ start = -1
  <2>1. start' = -1 /\ scored' = scored /\ consumed' = consumed /\ cost' = cost
        /\ run' = 0 /\ count' = 0 /\ ~ b
    BY <1>1, <1>2, <1>6, <1>7, <1>9 DEF Day, PresenceDay, OpenRun
  <2>2. TypeInv'
    BY <1>1, <1>2, <1>3, <1>4, <1>7, <2>1, SMT DEF TypeInv, MaxPossibleLength
  <2>3. OpenRun'
    <3>1. /\ ~ (\A d \in 1 .. Len(days') : days'[d])
          /\ (\A d \in 1 .. Len(days') : ~ days'[d]) => ~ consumed' /\ scored' = 0
      BY <1>1, <1>2, <1>3, <1>9, <2>1, SMT DEF OpenRun
    <3> QED BY <1>3, <1>9, <2>1, <3>1, SMT DEF OpenRun
  <2>4. (scored + Outstanding)' = cost'
    BY <1>1, <1>9, <2>1 DEF Outstanding, Pending, Initial, ClosedBoundsCost
  <2> QED BY <1>1, <1>3, <1>7, <2>2, <2>3, <2>4 DEF IInv, Books
<1>10. CASE ~ a /\ start # -1
  <2>1. /\ start' = -1 /\ scored' = scored + RunCost(n - 1)
        /\ consumed' = (consumed \/ Initial(case) > 0)
        /\ run' = 0 /\ count' = 0 /\ b
        /\ cost' = cost + ClosedBoundsCost(case, run)
    BY <1>1, <1>2, <1>6, <1>7, <1>10 DEF Day, PresenceDay, OpenRun
  <2>2. start \in Nat /\ start < n /\ run = n - start
           + (IF start = 0 THEN Initial(case) ELSE 0)
    BY <1>1, <1>2, <1>4, <1>10, SMT DEF OpenRun
  <2>3. RunCost(n - 1) = Outstanding + ClosedBoundsCost(case, run)
    <3>1. n - 1 + 1 - start + (IF Pending /\ start = 0 THEN Initial(case) ELSE 0)
             = run
      BY <1>1, <1>2, <1>4, <2>2, SMT DEF OpenRun, Pending
    <3>2. ~ (n - 1 + 1 >= Horizon)
      BY <1>2, SMT
    <3> QED BY <3>1, <3>2 DEF RunCost, Outstanding
  <2>4. Outstanding \in Nat
    BY <1>5 DEF Outstanding
  <2>5. scored' = cost'
    BY <1>1, <1>4, <1>5, <2>1, <2>3, <2>4, SMT
  <2>6. TypeInv'
    BY <1>1, <1>2, <1>3, <1>4, <1>5, <1>7, <2>1, <2>5, SMT
       DEF TypeInv, MaxPossibleLength
  <2>7. OpenRun'
    <3>1. /\ ~ (\A d \in 1 .. Len(days') : days'[d])
          /\ ~ (\A d \in 1 .. Len(days') : ~ days'[d])
      BY <1>2, <1>3, <1>10, <2>1, SMT
    <3> QED BY <1>3, <1>10, <2>1, <3>1, SMT DEF OpenRun
  <2>8. Outstanding' = 0
    <3>1. Initial(case)' = Initial(case)
      BY <1>1, Zenon DEF Initial
    <3>2. ~ Pending'
      BY <2>1, <3>1, Zenon DEF Pending
    <3> QED BY <3>2, Zenon DEF Outstanding
  <2> QED BY <1>1, <1>3, <1>4, <1>5, <1>7, <2>1, <2>5, <2>6, <2>7, <2>8, SMT
          DEF IInv, Books
<1> QED BY <1>8, <1>9, <1>10

(* After the last day the open run is charged once by each, and a roster    *)
(* with nothing in it costs what its facts say.                             *)
LEMMA EndKeeps ==
    ASSUME IInv, End
    PROVE  IInv'
<1> DEFINE b == days[Horizon]
<1>1. /\ case \in Cases /\ Horizon \in Nat \ {0} /\ Len(days) = Horizon
      /\ days \in Seq(BOOLEAN) /\ b \in BOOLEAN /\ days # <<>>
      /\ case' = case /\ days' = days /\ phase' = "done"
  BY HorizonAssumption DEF IInv, TypeInv, End
<1>2. OpenRun /\ objective = cost /\ scored + Outstanding = cost
  BY <1>1 DEF IInv, Books, End
<1>3. /\ count = run /\ cost \in Nat /\ run \in 0 .. MaxPossibleLength(case)
      /\ start \in -1 .. Horizon - 1 /\ scored \in Nat /\ Initial(case) \in Nat
      /\ (b <=> run > 0) /\ consumed \in BOOLEAN
      /\ case.complement \in BOOLEAN
  BY <1>1, <1>2, CaseFacts DEF IInv, TypeInv, OpenRun
<1>4. run \in Nat
  BY <1>1, <1>3, CaseFacts
<1>5. /\ MaxBoundCost(case, run) \in Nat
      /\ ClosedBoundsCost(case, Initial(case)) \in Nat
      /\ MaxBoundCost(case, 0) = 0 /\ ClosedBoundsCost(case, 0) = 0
  BY <1>1, <1>3, <1>4, CostTypes
<1>6. /\ cost' = cost + MaxBoundCost(case, run) /\ count' = count
      /\ run' = run /\ start' = start /\ consumed' = consumed
  BY <1>3 DEF End, ValidatorEnd, HighsEnd, PresenceEnd
<1>7. objective' = cost'
  <2>1. objective' = objective + Min(EndPenalties(case, run, Bit(b)))
    BY DEF End, HighsEnd
  <2>2. Min(EndPenalties(case, run, Bit(b))) = MaxBoundCost(case, run)
    BY <1>1, <1>3, EndPenaltyIsMaxCost
  <2> QED BY <1>2, <1>6, <2>1, <2>2
<1>8. scored' = cost'
  <2>1. PresenceEnd
    BY DEF End
  <2>2. CASE NothingPresent /\ case.complement
    <3>1. start = 0
      BY <1>1, <1>2, <2>2 DEF NothingPresent, OpenRun
    <3>2. cost = 0 /\ run = Horizon + Initial(case)
      BY <1>1, <1>2, <1>3, <3>1, SMT DEF OpenRun
    <3>3. scored' = MaxBoundCost(case, Initial(case) + Horizon)
      BY <2>1, <2>2 DEF PresenceEnd, EmptyCost
    <3>4. Initial(case) + Horizon = run
      BY <1>1, <1>3, <3>2, SMT
    <3> QED BY <1>5, <1>6, <3>2, <3>3, <3>4, SMT
  <2>3. CASE NothingPresent /\ ~ case.complement
    <3>1. \A d \in 1 .. Len(days) : ~ days[d]
      BY <1>1, <2>3 DEF NothingPresent
    <3>2. ~ consumed /\ scored = 0 /\ ~ b /\ start = -1
      BY <1>1, <1>2, <3>1, SMT DEF OpenRun
    <3>3. run = 0
      BY <1>3, <1>4, <3>2, SMT
    <3>4. cost = ClosedBoundsCost(case, Initial(case))
      BY <1>2, <1>3, <1>5, <3>2, SMT DEF Outstanding, Pending
    <3>5. scored' = ClosedBoundsCost(case, Initial(case))
      BY <2>1, <2>3 DEF PresenceEnd, EmptyCost
    <3> QED BY <1>5, <1>6, <3>3, <3>4, <3>5, SMT
  <2>4. CASE ~ NothingPresent /\ start # -1
    <3>1. scored' = scored + RunCost(Horizon - 1)
      BY <2>1, <2>4 DEF PresenceEnd
    <3>2. Horizon - 1 + 1 - start
             + (IF Pending /\ start = 0 THEN Initial(case) ELSE 0) = run
      BY <1>1, <1>2, <1>3, <2>4, SMT DEF OpenRun, Pending
    <3>3. Horizon - 1 + 1 >= Horizon
      BY <1>1, SMT
    <3>4. RunCost(Horizon - 1) = Outstanding + MaxBoundCost(case, run)
      BY <3>2, <3>3 DEF RunCost, Outstanding
    <3>5. Outstanding \in Nat
      BY <1>5 DEF Outstanding
    <3> QED BY <1>2, <1>3, <1>5, <1>6, <3>1, <3>4, <3>5, SMT
  <2>5. CASE ~ NothingPresent /\ start = -1
    <3>1. scored' = scored + Outstanding
      BY <1>3, <2>1, <2>5, SMT DEF PresenceEnd, Outstanding
    <3>2. run = 0
      BY <1>1, <1>2, <1>3, <1>4, <2>5, SMT DEF OpenRun
    <3> QED BY <1>2, <1>3, <1>5, <1>6, <3>1, <3>2, SMT
  <2> QED BY <1>3, <2>2, <2>3, <2>4, <2>5
<1>9. TypeInv'
  BY <1>1, <1>3, <1>4, <1>5, <1>6, <1>7, <1>8, SMT DEF TypeInv, MaxPossibleLength
<1> QED BY <1>1, <1>7, <1>8, <1>9 DEF IInv, Books

(* Every reachable state keeps the three books together.                    *)
THEOREM RunBooks == Spec => []IInv
<1>1. Init => IInv
  <2> SUFFICES ASSUME Init PROVE IInv
    OBVIOUS
  <2>1. case \in Cases /\ Initial(case) \in Nat /\ MaxPossibleLength(case) \in Nat
        /\ Horizon \in Nat \ {0}
    BY CaseFacts DEF Init
  <2>2. days = <<>> /\ phase = "days" /\ Blank
    BY DEF Init, Blank
  <2>3. <<>> \in Seq(BOOLEAN) /\ Len(<<>>) = 0
    OBVIOUS
  <2>4. TypeInv
    <3>1. -1 \in -1 .. Horizon - 1 /\ 0 \in 0 .. MaxPossibleLength(case)
          /\ Len(days) <= Horizon
      BY <2>1, <2>2, <2>3, SMT
    <3>2. consumed \in BOOLEAN
      BY DEF Init
    <3> QED BY <2>1, <2>2, <2>3, <3>1, <3>2, Zenon DEF TypeInv, Blank
  <2> QED BY <2>2, <2>4, Zenon DEF IInv, Books
<1>2. IInv /\ [Next]_vars => IInv'
  <2> SUFFICES ASSUME IInv, [Next]_vars PROVE IInv'
    OBVIOUS
  <2>1. ASSUME NEW a \in BOOLEAN, Day(a) PROVE IInv'
    BY <2>1, FirstDayKeeps, DayKeeps
  <2>2. CASE End
    BY <2>2, EndKeeps
  <2>3. CASE UNCHANGED vars
    BY <2>3 DEF vars, IInv, TypeInv, Books, Blank, OpenRun, Outstanding, Pending,
               Initial, ClosedBoundsCost, MaxPossibleLength
  <2> QED BY <2>1, <2>2, <2>3 DEF Next, Rest
<1> QED BY <1>1, <1>2, PTL DEF Spec

(* Costs are natural numbers and columns stay within their bounds.          *)
THEOREM RunTypes == Spec => []TypeInv
BY RunBooks, PTL DEF IInv

(* HiGHS's rows and the presence runs charge exactly what the validator     *)
(* does, for every horizon, bounds and history.                             *)
THEOREM RunCostsAgree == Spec => []CostsAgree
<1>1. IInv => CostsAgree
  BY DEF IInv, TypeInv, Books, CostsAgree, Blank
<1> QED BY <1>1, RunBooks, PTL

-----------------------------------------------------------------------------
(* The cost is that of the runs, whoever adds them up.  So far it is that   *)
(* of the runs a day off has closed, and of the history's if day one did.   *)
Settled ==
    {ij \in (DOMAIN days) \X (DOMAIN days) :
        /\ ij[1] <= ij[2] /\ \A d \in ij[1] .. ij[2] : days[d]
        /\ ij[1] = 1 \/ ~ days[ij[1] - 1]
        /\ ij[2] < Len(days) /\ ~ days[ij[2] + 1]}
OpenStart ==
    start # -1 => /\ \A d \in start + 1 .. Len(days) : days[d]
                  /\ start = 0 \/ ~ days[start]
Broken ==
    IF days # <<>> /\ ~ days[1] THEN ClosedBoundsCost(case, Initial(case)) ELSE 0
Account ==
    /\ phase = "days" => OpenStart /\ cost = CostOfRuns(Settled) + Broken
    /\ phase = "done" => cost = CostOverRuns

LEMMA RunChargeType ==
    ASSUME TypeInv, NEW ij \in (DOMAIN days) \X (DOMAIN days), ij[1] <= ij[2]
    PROVE  RunCharge(ij) \in Nat
<1>1. ij[1] \in Nat /\ ij[2] \in Nat /\ Initial(case) \in Nat /\ case \in Cases
  BY CaseFacts DEF TypeInv
<1>2. RunLength(ij) \in Nat
  BY <1>1, SMT DEF RunLength
<1> QED
  BY <1>1, <1>2, CostTypes DEF RunCharge

LEMMA SettledIsFinite ==
    ASSUME TypeInv
    PROVE  IsFiniteSet(Settled) /\ IsFiniteSet(MaximalRuns)
<1>1. IsFiniteSet(DOMAIN days)
  <2>1. DOMAIN days = 1 .. Len(days) /\ Len(days) \in Nat
    BY DEF TypeInv
  <2> QED BY <2>1, FS_Interval
<1>2. IsFiniteSet((DOMAIN days) \X (DOMAIN days))
  BY <1>1, FS_Product
<1>3. Settled \subseteq (DOMAIN days) \X (DOMAIN days)
      /\ MaximalRuns \subseteq (DOMAIN days) \X (DOMAIN days)
  BY DEF Settled, MaximalRuns
<1> QED
  BY <1>2, <1>3, FS_Subset

LEMMA CostOfOneMore ==
    ASSUME NEW S, NEW x, IsFiniteSet(S), x \notin S,
           \A ij \in S \cup {x} : RunCharge(ij) \in Nat
    PROVE  CostOfRuns(S \cup {x}) = CostOfRuns(S) + RunCharge(x)
<1> DEFINE f == [ij \in S \cup {x} |-> RunCharge(ij)]
           g == [ij \in S |-> RunCharge(ij)]
<1>1. /\ \A ij \in S \cup {x} : f[ij] \in Nat
      /\ \A ij \in S : f[ij] = g[ij] /\ f[ij] \in Nat
      /\ f[x] = RunCharge(x)
  OBVIOUS
<1> HIDE DEF f, g
<1>2. SumFunctionOnSet(f, S \cup {x}) = SumFunctionOnSet(f, S) + f[x]
  BY <1>1, SumWithOneMore
<1>3. SumFunctionOnSet(f, S) = SumFunctionOnSet(g, S)
  BY <1>1, SumOfSame
<1>4. CostOfRuns(S \cup {x}) = SumFunctionOnSet(f, S \cup {x})
  BY DEF CostOfRuns, f
<1>5. CostOfRuns(S) = SumFunctionOnSet(g, S)
  BY DEF CostOfRuns, g
<1> QED
  BY <1>1, <1>2, <1>3, <1>4, <1>5, Zenon

(* One day settles at most one run, the open one.                           *)
LEMMA DaySettles ==
    ASSUME IInv, OpenStart, NEW a \in BOOLEAN, Day(a), days # <<>>
    PROVE  Settled' = Settled \cup
              (IF ~ a /\ days[Len(days)] THEN {<<start + 1, Len(days)>>} ELSE {})
<1> DEFINE n == Len(days)
           New == IF ~ a /\ days[n] THEN {<<start + 1, n>>} ELSE {}
<1>1. /\ n \in Nat \ {0} /\ days \in Seq(BOOLEAN) /\ DOMAIN days = 1 .. n
      /\ OpenRun /\ days' = Append(days, a) /\ start \in -1 .. Horizon - 1
      /\ Horizon \in Nat
  BY HorizonAssumption DEF IInv, TypeInv, Books, Day
<1>2. /\ DOMAIN days' = 1 .. n + 1 /\ Len(days') = n + 1 /\ days'[n + 1] = a
      /\ \A d \in 1 .. n : days'[d] = days[d]
  BY <1>1
<1>3. \A i \in 1 .. n, j \in 1 .. n - 1 :
         <<i, j>> \in Settled' <=> <<i, j>> \in Settled
  BY <1>1, <1>2, SMT DEF Settled
<1>4. \A i \in 1 .. n + 1 : <<i, n + 1>> \notin Settled'
  BY <1>1, <1>2, SMT DEF Settled
<1>5. \A i, j : <<i, j>> \in Settled' => /\ i \in 1 .. n /\ j \in 1 .. n
  BY <1>1, <1>2, SMT DEF Settled
<1>6. \A i, j : <<i, j>> \in Settled => /\ i \in 1 .. n /\ j \in 1 .. n - 1
  BY <1>1, SMT DEF Settled
<1>7. \A i \in 1 .. n : <<i, n>> \in Settled' <=> <<i, n>> \in New
  <2>1. CASE ~ a /\ days[n]
    <3>1. start \in 0 .. n - 1 /\ (\A d \in start + 1 .. n : days[d])
          /\ (start = 0 \/ ~ days[start])
      BY <1>1, <2>1, SMT DEF OpenRun, OpenStart
    <3>2. \A i \in 1 .. n : <<i, n>> \in Settled' <=>
             (\A d \in i .. n : days[d]) /\ (i = 1 \/ ~ days[i - 1])
      BY <1>1, <1>2, <2>1, SMT DEF Settled
    <3>3. ASSUME NEW i \in 1 .. n, \A d \in i .. n : days[d], i = 1 \/ ~ days[i - 1]
          PROVE  i = start + 1
      <4>1. i - 1 \in start + 1 .. n => i = 1
        BY <3>1, <3>3, SMT
      <4>2. start \in i .. n => start = 0
        BY <3>1, <3>3, SMT
      <4> QED BY <3>1, <4>1, <4>2, SMT
    <3>4. (\A d \in start + 1 .. n : days[d])
          /\ (start + 1 = 1 \/ ~ days[start + 1 - 1])
      BY <3>1, SMT
    <3> QED BY <2>1, <3>1, <3>2, <3>3, <3>4, SMT
  <2>2. CASE a \/ ~ days[n]
    BY <1>1, <1>2, <2>2, SMT DEF Settled
  <2> QED BY <2>1, <2>2
<1>8. \A i, j : <<i, j>> \in New => i \in 1 .. n /\ j = n
  BY <1>1, SMT DEF OpenRun
<1>9. \A x \in Settled \cup Settled' \cup New : \E i, j : x = <<i, j>>
  BY DEF Settled
<1> HIDE DEF New
<1> HIDE DEF n
<1>10. ASSUME NEW i, NEW j
       PROVE  <<i, j>> \in Settled' <=> <<i, j>> \in Settled \cup New
  <2>1. n \notin 1 .. n - 1 /\ n \in 1 .. n
    BY <1>1, SMT
  <2>2. \A k : k \in 1 .. n <=> k \in 1 .. n - 1 \/ k = n
    BY <1>1, SMT
  <2>3. CASE i \in 1 .. n /\ j \in 1 .. n - 1
    <3>1. <<i, j>> \notin New
      BY <1>8, <2>1, <2>3
    <3>2. <<i, j>> \in Settled' <=> <<i, j>> \in Settled
      BY <1>3, <2>3
    <3> QED BY <3>1, <3>2
  <2>4. CASE i \in 1 .. n /\ j = n
    <3>1. <<i, n>> \notin Settled
      BY <1>6, <2>1
    <3>2. <<i, n>> \in Settled' <=> <<i, n>> \in New
      BY <1>7, <2>4
    <3>3. <<i, n>> \in Settled' <=> <<i, n>> \in Settled \cup New
      BY <3>1, <3>2
    <3> QED BY <2>4, <3>3
  <2>5. CASE ~ (i \in 1 .. n /\ j \in 1 .. n)
    BY <1>5, <1>6, <1>8, <2>1, <2>2, <2>5, Zenon
  <2> QED BY <2>2, <2>3, <2>4, <2>5, Zenon
<1>11. Settled' = Settled \cup New
  <2>1. ASSUME NEW x PROVE x \in Settled' <=> x \in Settled \cup New
    <3>1. CASE x \in Settled \cup Settled' \cup New
      BY <1>9, <1>10, <3>1
    <3>2. CASE x \notin Settled \cup Settled' \cup New
      BY <3>2
    <3> QED BY <3>1, <3>2
  <2> QED BY <2>1
<1> QED
  BY <1>11 DEF New, n

(* What a settled or the last run costs, by its length.                     *)
LEMMA OpenRunCharge ==
    ASSUME IInv, OpenRun, Len(days) \in Nat \ {0}, days[Len(days)],
           Len(days) <= Horizon
    PROVE  RunCharge(<<start + 1, Len(days)>>)
              = IF Len(days) = Horizon THEN MaxBoundCost(case, count)
                                       ELSE ClosedBoundsCost(case, count)
<1>1. start \in Nat /\ run \in Int /\ Initial(case) \in Nat /\ count = run
      /\ run = Len(days) - start + (IF start = 0 THEN Initial(case) ELSE 0)
  BY HorizonAssumption, CaseFacts DEF OpenRun, IInv, TypeInv
<1>2. RunLength(<<start + 1, Len(days)>>) = count
  BY <1>1, SMT DEF RunLength
<1> QED
  BY <1>2 DEF RunCharge

LEMMA DayAccounts ==
    ASSUME IInv, Account, NEW a \in BOOLEAN, Day(a)
    PROVE  Account'
<1> DEFINE n == Len(days)
<1>1. /\ phase = "days" /\ phase' = phase /\ case' = case /\ days' = Append(days, a)
      /\ n \in Nat /\ days \in Seq(BOOLEAN) /\ case \in Cases
      /\ OpenStart /\ cost = CostOfRuns(Settled) + Broken
      /\ n < Horizon /\ Horizon \in Nat
  BY HorizonAssumption DEF IInv, TypeInv, Account, Day
<1>2. /\ Len(days') = n + 1 /\ days'[n + 1] = a /\ days' # <<>>
      /\ \A d \in 1 .. n : days'[d] = days[d]
  BY <1>1
<1>3. /\ count' = IF a THEN count + 1 ELSE 0
      /\ cost' = IF ~ a /\ count > 0 THEN cost + ClosedBoundsCost(case, count)
                                     ELSE cost
      /\ start' = IF ~ a THEN -1 ELSE IF start = -1 THEN n ELSE start
  BY DEF Day, ValidatorDay, PresenceDay
<1>4. Initial(case)' = Initial(case)
      /\ ClosedBoundsCost(case, Initial(case))' = ClosedBoundsCost(case, Initial(case))
  BY <1>1, Zenon DEF Initial, ClosedBoundsCost
<1>5. CASE days = <<>>
  <2>1. Blank /\ n = 0
    BY <1>1, <1>5 DEF IInv, Books
  <2>2. Settled' = {}
    <3>1. DOMAIN days' = 1 .. 1 /\ Len(days') = 1
      BY <1>1, <1>5
    <3> QED BY <3>1, SMT DEF Settled
  <2>3. CostOfRuns(Settled)' = 0
    BY <2>2, SumOfNone, Zenon DEF CostOfRuns
  <2>4. days'[1] = a
    BY <1>2, <2>1
  <2>5. /\ ClosedBoundsCost(case, Initial(case)) \in Nat
        /\ ClosedBoundsCost(case, 0) = 0 /\ Initial(case) \in Nat
    BY <1>1, CaseFacts, CostTypes
  <2>6. Broken' = IF ~ a THEN ClosedBoundsCost(case, Initial(case)) ELSE 0
    BY <1>2, <1>4, <2>4 DEF Broken
  <2>7. cost' = Broken'
    BY <1>3, <2>1, <2>5, <2>6, SMT DEF Blank
  <2>8. cost' = CostOfRuns(Settled)' + Broken'
    BY <2>3, <2>5, <2>6, <2>7, SMT
  <2>9. OpenStart'
    BY <1>2, <1>3, <2>1, <2>4, SMT DEF OpenStart, Blank
  <2> QED BY <1>1, <2>8, <2>9 DEF Account
<1>6. CASE days # <<>>
  <2>1. OpenRun /\ n # 0 /\ n \in 1 .. n /\ 1 \in 1 .. n /\ days[n] \in BOOLEAN
        /\ count \in Nat /\ start \in Int
    BY <1>1, <1>6 DEF IInv, TypeInv, Books
  <2>2. Broken' = Broken
    BY <1>2, <1>4, <1>6, <2>1 DEF Broken
  <2>3. OpenStart'
    <3>1. CASE ~ a
      BY <1>3, <3>1 DEF OpenStart
    <3>2. CASE a /\ start = -1
      <4>1. ~ days[n] /\ start' = n /\ ~ days'[n]
        BY <1>2, <1>3, <2>1, <3>2 DEF OpenRun
      <4>2. \A d \in start' + 1 .. Len(days') : d = n + 1
        BY <1>1, <1>2, <4>1, SMT
      <4> QED BY <1>2, <3>2, <4>1, <4>2 DEF OpenStart
    <3>3. CASE a /\ start # -1
      <4>1. start' = start /\ start < n /\ start \in Nat
        BY <1>3, <2>1, <3>3, HorizonAssumption DEF OpenRun, IInv, TypeInv
      <4>2. /\ \A d \in start + 1 .. n : days[d]
            /\ start = 0 \/ ~ days[start]
        BY <1>1, <3>3 DEF OpenStart
      <4>3. \A d \in start + 1 .. n + 1 : days'[d]
        BY <1>1, <1>2, <3>3, <4>1, <4>2, SMT
      <4>4. start = 0 \/ ~ days'[start]
        BY <1>1, <1>2, <4>1, <4>2, SMT
      <4> QED BY <1>2, <4>1, <4>3, <4>4, Zenon DEF OpenStart
    <3> QED BY <3>1, <3>2, <3>3
  <2>4. cost' = CostOfRuns(Settled)' + Broken'
    <3>1. CostOfRuns(Settled)' = CostOfRuns(Settled')
      BY <1>1, <1>4, Zenon DEF CostOfRuns, RunCharge, RunLength, Initial,
                         MaxBoundCost, ClosedBoundsCost
    <3>2. CASE ~ a /\ days[n]
      <4> DEFINE x == <<start + 1, n>>
      <4>1. Settled' = Settled \cup {x}
        BY <1>1, <1>6, <3>2, DaySettles
      <4>2. count > 0 /\ start \in Nat /\ start < n
        BY <2>1, <3>2, HorizonAssumption, SMT DEF OpenRun, IInv, TypeInv
      <4>3. x \notin Settled
        BY SMT DEF Settled
      <4>4. \A ij \in Settled \cup {x} : RunCharge(ij) \in Nat
        <5>1. x \in (DOMAIN days) \X (DOMAIN days) /\ x[1] <= x[2]
          BY <1>1, <2>1, <4>2
        <5>2. \A ij \in Settled : ij \in (DOMAIN days) \X (DOMAIN days)
                                  /\ ij[1] <= ij[2]
          BY DEF Settled
        <5> QED BY <5>1, <5>2, RunChargeType DEF IInv
      <4>5. CostOfRuns(Settled \cup {x}) = CostOfRuns(Settled) + RunCharge(x)
        BY <4>3, <4>4, SettledIsFinite, CostOfOneMore DEF IInv
      <4>6. RunCharge(x) = ClosedBoundsCost(case, count)
        BY <1>1, <2>1, <3>2, OpenRunCharge, SMT
      <4>7. cost' = cost + ClosedBoundsCost(case, count)
        BY <1>3, <3>2, <4>2
      <4>8. CostOfRuns(Settled) \in Nat /\ Broken \in Nat
            /\ ClosedBoundsCost(case, count) \in Nat
        <5>1. Broken \in Nat /\ ClosedBoundsCost(case, count) \in Nat
          <6>1. Initial(case) \in Nat
            BY <1>1, CaseFacts
          <6>2. /\ ClosedBoundsCost(case, Initial(case)) \in Nat
                /\ ClosedBoundsCost(case, count) \in Nat
            BY <1>1, <2>1, <6>1, CostTypes
          <6> QED BY <6>2, Zenon DEF Broken
        <5>2. CostOfRuns(Settled) \in Nat
          <6>1. \A ij \in Settled :
                   [kl \in Settled |-> RunCharge(kl)][ij] \in Nat
            BY <4>4
          <6> QED BY <6>1, SettledIsFinite, SumType DEF CostOfRuns, IInv
        <5> QED BY <5>1, <5>2
      <4> HIDE DEF x
      <4> QED BY <1>1, <2>2, <3>1, <4>1, <4>5, <4>6, <4>7, <4>8, SMT
    <3>3. CASE ~ (~ a /\ days[n])
      <4>1. Settled' = Settled
        BY <1>1, <1>6, <3>3, DaySettles
      <4>2. ~ (~ a /\ count > 0)
        BY <2>1, <3>3 DEF OpenRun
      <4> QED BY <1>1, <1>3, <2>2, <3>1, <4>1, <4>2, Zenon
    <3> QED BY <3>2, <3>3
  <2> QED BY <1>1, <2>3, <2>4 DEF Account
<1> QED BY <1>5, <1>6

(* The last day leaves the open run to be charged, and only that one.       *)
LEMMA EndAccounts ==
    ASSUME IInv, Account, End
    PROVE  Account'
<1> DEFINE n == Len(days)
           b == days[n]
           New == IF b THEN {<<start + 1, n>>} ELSE {}
           x == <<start + 1, n>>
<1>1. /\ phase = "days" /\ phase' = "done" /\ case' = case /\ days' = days
      /\ days \in Seq(BOOLEAN) /\ case \in Cases /\ n = Horizon
      /\ n \in Nat \ {0} /\ DOMAIN days = 1 .. n /\ b \in BOOLEAN /\ days # <<>>
      /\ OpenStart /\ OpenRun /\ cost = CostOfRuns(Settled) + Broken
      /\ count \in Nat /\ start \in -1 .. n - 1
  BY HorizonAssumption DEF IInv, TypeInv, Account, Books, End
<1>2. cost' = cost + MaxBoundCost(case, count)
  BY DEF End, ValidatorEnd
<1>3. MaximalRuns = Settled \cup New
  <2>1. \A i \in 1 .. n, j \in 1 .. n - 1 :
           <<i, j>> \in MaximalRuns <=> <<i, j>> \in Settled
    BY <1>1, SMT DEF Settled, MaximalRuns
  <2>2. \A i, j : <<i, j>> \in MaximalRuns => i \in 1 .. n /\ j \in 1 .. n
    BY <1>1, SMT DEF MaximalRuns
  <2>3. \A i, j : <<i, j>> \in Settled => i \in 1 .. n /\ j \in 1 .. n - 1
    BY <1>1, SMT DEF Settled
  <2>4. \A i \in 1 .. n : <<i, n>> \in MaximalRuns <=> <<i, n>> \in New
    <3>1. CASE b
      <4>1. start \in 0 .. n - 1 /\ (\A d \in start + 1 .. n : days[d])
            /\ (start = 0 \/ ~ days[start])
        BY <1>1, <3>1, SMT DEF OpenRun, OpenStart
      <4>2. \A i \in 1 .. n : <<i, n>> \in MaximalRuns <=>
               (\A d \in i .. n : days[d]) /\ (i = 1 \/ ~ days[i - 1])
        BY <1>1, SMT DEF MaximalRuns
      <4>3. ASSUME NEW i \in 1 .. n, \A d \in i .. n : days[d], i = 1 \/ ~ days[i - 1]
            PROVE  i = start + 1
        <5>1. i - 1 \in start + 1 .. n => i = 1
          BY <4>1, <4>3, SMT
        <5>2. start \in i .. n => start = 0
          BY <4>1, <4>3, SMT
        <5> QED BY <4>1, <5>1, <5>2, SMT
      <4>4. (\A d \in start + 1 .. n : days[d])
            /\ (start + 1 = 1 \/ ~ days[start + 1 - 1])
        BY <4>1, SMT
      <4> QED BY <3>1, <4>1, <4>2, <4>3, <4>4, SMT
    <3>2. CASE ~ b
      BY <1>1, <3>2, SMT DEF MaximalRuns
    <3> QED BY <3>1, <3>2
  <2>5. \A i, j : <<i, j>> \in New => i \in 1 .. n /\ j = n
    BY <1>1, SMT DEF OpenRun
  <2>6. \A y \in MaximalRuns \cup Settled \cup New : \E i, j : y = <<i, j>>
    BY DEF MaximalRuns, Settled
  <2>7. n \notin 1 .. n - 1 /\ n \in 1 .. n
        /\ \A k : k \in 1 .. n <=> k \in 1 .. n - 1 \/ k = n
    BY <1>1, SMT
  <2> HIDE DEF New, n
  <2>8. ASSUME NEW i, NEW j
        PROVE  <<i, j>> \in MaximalRuns <=> <<i, j>> \in Settled \cup New
    <3>1. CASE i \in 1 .. n /\ j \in 1 .. n - 1
      <4>1. <<i, j>> \notin New
        BY <2>5, <2>7, <3>1
      <4>2. <<i, j>> \in MaximalRuns <=> <<i, j>> \in Settled
        BY <2>1, <3>1
      <4> QED BY <4>1, <4>2
    <3>2. CASE i \in 1 .. n /\ j = n
      <4>1. <<i, n>> \notin Settled
        BY <2>3, <2>7
      <4>2. <<i, n>> \in MaximalRuns <=> <<i, n>> \in New
        BY <2>4, <3>2
      <4>3. <<i, n>> \in MaximalRuns <=> <<i, n>> \in Settled \cup New
        BY <4>1, <4>2
      <4> QED BY <3>2, <4>3
    <3>3. CASE ~ (i \in 1 .. n /\ j \in 1 .. n)
      BY <2>2, <2>3, <2>5, <2>7, <3>3, Zenon
    <3> QED BY <2>7, <3>1, <3>2, <3>3, Zenon
  <2>9. ASSUME NEW y PROVE y \in MaximalRuns <=> y \in Settled \cup New
    <3>1. CASE y \in MaximalRuns \cup Settled \cup New
      BY <2>6, <2>8, <3>1
    <3>2. CASE y \notin MaximalRuns \cup Settled \cup New
      BY <3>2
    <3> QED BY <3>1, <3>2
  <2> QED BY <2>9
<1>4. \A ij \in Settled : ij \in (DOMAIN days) \X (DOMAIN days) /\ ij[1] <= ij[2]
  BY DEF Settled
<1>5. \A ij \in Settled : RunCharge(ij) \in Nat
  BY <1>4, RunChargeType DEF IInv
<1>6. CostOfRuns(Settled) \in Nat /\ Broken \in Nat /\ MaxBoundCost(case, count) \in Nat
  <2>1. Initial(case) \in Nat
    BY <1>1, CaseFacts
  <2>2. /\ ClosedBoundsCost(case, Initial(case)) \in Nat
        /\ MaxBoundCost(case, count) \in Nat
    BY <1>1, <2>1, CostTypes
  <2>3. \A ij \in Settled : [kl \in Settled |-> RunCharge(kl)][ij] \in Nat
    BY <1>5
  <2>4. CostOfRuns(Settled) \in Nat
    BY <2>3, SettledIsFinite, SumType DEF CostOfRuns, IInv
  <2> QED BY <2>2, <2>4, Zenon DEF Broken
<1>7. cost' = CostOfRuns(MaximalRuns) + Broken
  <2>1. CASE b
    <3>1. MaximalRuns = Settled \cup {x}
      BY <1>3, <2>1
    <3>2. x \notin Settled
      BY SMT DEF Settled
    <3>3. start \in 0 .. n - 1
      BY <1>1, <2>1, SMT DEF OpenRun
    <3>4. x \in (DOMAIN days) \X (DOMAIN days) /\ x[1] <= x[2]
      BY <1>1, <3>3
    <3>5. \A ij \in Settled \cup {x} : RunCharge(ij) \in Nat
      BY <1>5, <3>4, RunChargeType DEF IInv
    <3>6. CostOfRuns(Settled \cup {x}) = CostOfRuns(Settled) + RunCharge(x)
      BY <3>2, <3>5, SettledIsFinite, CostOfOneMore DEF IInv
    <3>7. RunCharge(x) = MaxBoundCost(case, count)
      BY <1>1, <2>1, OpenRunCharge, SMT
    <3> HIDE DEF x
    <3> QED BY <1>1, <1>2, <1>6, <3>1, <3>6, <3>7, SMT
  <2>2. CASE ~ b
    <3>1. MaximalRuns = Settled
      BY <1>3, <2>2
    <3>2. count = 0
      BY <1>1, <2>2, SMT DEF OpenRun
    <3>3. MaxBoundCost(case, count) = 0
      BY <1>1, <3>2, CostTypes, Zenon
    <3> QED BY <1>1, <1>2, <1>6, <3>1, <3>3, SMT
  <2> QED BY <1>1, <2>1, <2>2
<1>8. CostOverRuns' = CostOfRuns(MaximalRuns) + Broken
  <2>1. CostOverRuns = CostOfRuns(MaximalRuns) + Broken
    BY <1>1, Zenon DEF CostOverRuns, Broken
  <2>2. CostOverRuns' = CostOverRuns
    BY <1>1, Zenon DEF CostOverRuns, CostOfRuns, MaximalRuns, RunCharge, RunLength,
                       Initial, MaxBoundCost, ClosedBoundsCost
  <2> QED BY <2>1, <2>2
<1> QED BY <1>1, <1>7, <1>8 DEF Account

(* The validator's loop charges every maximal run of days once and the      *)
(* history's where day one breaks it, for every horizon and every case.     *)
THEOREM RunCostIsOverRuns == Spec => []CostIsOverRuns
<1>1. Init /\ IInv => Account
  <2> SUFFICES ASSUME Init, IInv PROVE Account
    OBVIOUS
  <2>1. days = <<>> /\ phase = "days" /\ start = -1 /\ cost = 0
    BY DEF Init
  <2>2. Settled = {}
    BY <2>1 DEF Settled
  <2>3. CostOfRuns(Settled) = 0
    BY <2>2, SumOfNone, Zenon DEF CostOfRuns
  <2> QED BY <2>1, <2>3, SMT DEF Account, OpenStart, Broken
<1>2. IInv /\ Account /\ [Next]_vars => Account'
  <2> SUFFICES ASSUME IInv, Account, [Next]_vars PROVE Account'
    OBVIOUS
  <2>1. ASSUME NEW a \in BOOLEAN, Day(a) PROVE Account'
    BY <2>1, DayAccounts
  <2>2. CASE End
    BY <2>2, EndAccounts
  <2>3. CASE UNCHANGED vars
    <3>1. /\ case' = case /\ days' = days /\ phase' = phase /\ cost' = cost
          /\ start' = start
      BY <2>3 DEF vars
    <3>2. OpenStart' = OpenStart /\ Broken' = Broken
      BY <3>1, Zenon DEF OpenStart, Broken, Initial, ClosedBoundsCost
    <3>3. CostOfRuns(Settled)' = CostOfRuns(Settled)
      BY <3>1, Zenon DEF CostOfRuns, Settled, RunCharge, RunLength, Initial,
                         MaxBoundCost, ClosedBoundsCost
    <3>4. CostOverRuns' = CostOverRuns
      BY <3>1, Zenon DEF CostOverRuns, CostOfRuns, MaximalRuns, RunCharge,
                         RunLength, Initial, MaxBoundCost, ClosedBoundsCost
    <3> QED BY <3>1, <3>2, <3>3, <3>4 DEF Account
  <2> QED BY <2>1, <2>2, <2>3 DEF Next, Rest
<1>3. Account => CostIsOverRuns
  BY DEF Account, CostIsOverRuns
<1> QED BY <1>1, <1>2, <1>3, RunBooks, PTL DEF Spec

-----------------------------------------------------------------------------
(* NurseRoster.                                                             *)

(* Counting.                                                                *)
Places(h, S, T) ==
    /\ h \in [S -> T]
    /\ \A x, y \in S : h[x] = h[y] => x = y
Matches(h, S, T) ==
    /\ Places(h, S, T)
    /\ \A t \in T : \E x \in S : h[x] = t

LEMMA SameCount ==
    ASSUME NEW S, NEW T, NEW h, IsFiniteSet(S), Matches(h, S, T)
    PROVE  IsFiniteSet(T) /\ Cardinality(T) = Cardinality(S)
<1>1. h \in Bijection(S, T)
  BY DEF Matches, Places, Bijection, Injection, Surjection, IsInjective
<1>2. ExistsBijection(S, T)
  BY <1>1, Zenon DEF ExistsBijection
<1> QED
  BY <1>2, FS_Bijection

LEMMA OneAtMost ==
    ASSUME NEW S, IsFiniteSet(S)
    PROVE  Cardinality(S) <= 1 <=> \A x, y \in S : x = y
<1>1. ASSUME Cardinality(S) <= 1, NEW x \in S, NEW y \in S PROVE x = y
  <2>1. S # {} /\ Cardinality(S) \in Nat
    BY FS_CardinalityType
  <2>2. Cardinality(S) = 1
    BY <1>1, <2>1, FS_EmptySet
  <2>3. PICK z : S = {z}
    BY <2>2, FS_Singleton
  <2> QED BY <2>3
<1>2. ASSUME \A x, y \in S : x = y PROVE Cardinality(S) <= 1
  <2>1. CASE S = {}
    BY <2>1, FS_EmptySet
  <2>2. CASE S # {}
    <3>1. PICK z : z \in S
      BY <2>2
    <3>2. S = {z}
      BY <1>2, <3>1
    <3> QED BY <3>2, FS_Singleton
  <2> QED BY <2>1, <2>2
<1> QED BY <1>1, <1>2

(* The two-element subsets.                                                 *)
LEMMA PairsOf ==
    ASSUME NEW S, IsFiniteSet(S), NEW st
    PROVE  st \in kSubset(2, S)
              <=> \E s, t \in S : s # t /\ st = {s, t}
<1>1. \A s, t : s # t => IsFiniteSet({s, t}) /\ Cardinality({s, t}) = 2
  <2> SUFFICES ASSUME NEW s, NEW t, s # t
               PROVE  IsFiniteSet({s, t}) /\ Cardinality({s, t}) = 2
    OBVIOUS
  <2>1. IsFiniteSet({s}) /\ Cardinality({s}) = 1 /\ t \notin {s} /\ {s} \cup {t} = {s, t}
    BY FS_Singleton
  <2>2. IsFiniteSet({s} \cup {t}) /\ Cardinality({s} \cup {t}) = 1 + 1
    BY <2>1, FS_AddElement
  <2> QED BY <2>1, <2>2
<1>2. ASSUME st \in SUBSET S, Cardinality(st) = 2
      PROVE  \E s, t \in S : s # t /\ st = {s, t}
  <2>0. IsFiniteSet(st)
    BY <1>2, FS_Subset
  <2>1. PICK s \in st : TRUE
    BY <1>2, FS_EmptySet
  <2>2. IsFiniteSet(st \ {s}) /\ Cardinality(st \ {s}) = 1
    BY <1>2, <2>0, <2>1, FS_RemoveElement
  <2>3. PICK t : st \ {s} = {t}
    BY <2>2, FS_Singleton
  <2>4. st = {s, t} /\ s # t /\ t \in st
    BY <2>1, <2>3
  <2> QED BY <1>2, <2>1, <2>4
<1> QED BY <1>1, <1>2 DEF kSubset

-----------------------------------------------------------------------------
(* The slots of an instance.                                                *)
SlotsOf(i, k) == {s \in Slots(i) : s.cover = k}
Minimum(i, k) == i.requirements[k].minimum
Optimal(i, k) == i.requirements[k].optimal

LEMMA InstanceFacts ==
    ASSUME NEW i \in Instances
    PROVE  /\ IsFiniteSet(Nurses(i)) /\ NoNurse \notin Nurses(i)
           /\ IsFiniteSet(Covers(i)) /\ IsFiniteSet(DOMAIN i.requests)
           /\ \A k \in Covers(i) : /\ k[3] \in Days /\ k[3] \in Nat
                               /\ Minimum(i, k) \in Nat /\ Optimal(i, k) \in Nat
                               /\ Minimum(i, k) <= Optimal(i, k)
           /\ IsFiniteSet(Days) /\ TotalDays \in Nat
<1>1. WellFormed(i)
  BY InstancesAssumption, Zenon
<1>2. TotalDays \in Nat /\ Days = 1 .. TotalDays
  BY WeeksAssumption DEF TotalDays, Days
<1>3. IsFiniteSet(Days)
  BY <1>2, FS_Interval
<1>4. \A k \in Covers(i) : /\ k[3] \in Days
                        /\ Minimum(i, k) \in Nat /\ Optimal(i, k) \in Nat
                        /\ Minimum(i, k) <= Optimal(i, k)
  BY <1>1, Zenon DEF WellFormed, Covers, Minimum, Optimal
<1>5. \A d \in Days : d \in Nat
  BY <1>2
<1> QED BY <1>1, <1>2, <1>3, <1>4, <1>5 DEF WellFormed, Nurses, Covers

SlotAt(k, j) == [cover |-> k, slot |-> j]

LEMMA SlotIs ==
    ASSUME NEW i, NEW s \in Slots(i)
    PROVE  /\ s.cover \in Covers(i) /\ s.slot \in 0 .. Optimal(i, s.cover) - 1
           /\ s = SlotAt(s.cover, s.slot)
           /\ IsMinimum(i, s) <=> s.slot < Minimum(i, s.cover)
<1>0. PICK k \in Covers(i) : \E j \in 0 .. Optimal(i, k) - 1 : s = SlotAt(k, j)
  BY DEF Slots, Optimal, SlotAt
<1>1. PICK j \in 0 .. Optimal(i, k) - 1 : s = SlotAt(k, j)
  BY <1>0
<1>2. SlotAt(k, j).cover = k /\ SlotAt(k, j).slot = j
  BY DEF SlotAt
<1>3. IsMinimum(i, s) <=> s.slot < Minimum(i, s.cover)
  BY DEF IsMinimum, Minimum
<1> QED BY <1>1, <1>2, <1>3

LEMMA SlotExists ==
    ASSUME NEW i, NEW k \in Covers(i), NEW j \in 0 .. Optimal(i, k) - 1
    PROVE  /\ SlotAt(k, j) \in Slots(i)
           /\ SlotAt(k, j).cover = k /\ SlotAt(k, j).slot = j
BY DEF Slots, Optimal, SlotAt

LEMMA SlotCounts ==
    ASSUME NEW i \in Instances, NEW k \in Covers(i)
    PROVE  /\ IsFiniteSet(SlotsOf(i, k)) /\ Cardinality(SlotsOf(i, k)) = Optimal(i, k)
           /\ Cardinality({s \in SlotsOf(i, k) : IsMinimum(i, s)}) = Minimum(i, k)
<1>1. Minimum(i, k) \in Nat /\ Optimal(i, k) \in Nat /\ Minimum(i, k) <= Optimal(i, k)
  BY InstanceFacts
<1>2. ASSUME NEW m \in Nat, m <= Optimal(i, k), NEW S,
             S = {s \in SlotsOf(i, k) : s.slot < m}
      PROVE  IsFiniteSet(S) /\ Cardinality(S) = m
  <2> DEFINE h == [j \in 0 .. m - 1 |-> SlotAt(k, j)]
  <2>1. \A j \in 0 .. m - 1 : j \in 0 .. Optimal(i, k) - 1 /\ j < m
    BY <1>1, <1>2
  <2>2. \A j \in 0 .. m - 1 : h[j] \in Slots(i) /\ h[j].cover = k /\ h[j].slot = j
    BY <2>1, SlotExists
  <2>3. h = [j \in 0 .. m - 1 |-> h[j]]
    OBVIOUS
  <2> HIDE DEF h
  <2>4. h \in [0 .. m - 1 -> S]
    BY <1>2, <2>1, <2>2, <2>3 DEF SlotsOf
  <2>5. ASSUME NEW s \in S PROVE \E j \in 0 .. m - 1 : h[j] = s
    <3>1. s \in Slots(i) /\ s.cover = k /\ s.slot < m
      BY <1>2 DEF SlotsOf
    <3>2. s.slot \in 0 .. Optimal(i, k) - 1
      BY <3>1, SlotIs
    <3>3. s.slot \in 0 .. m - 1
      BY <1>1, <1>2, <3>1, <3>2
    <3> QED BY <2>2, <3>1, <3>3, SlotIs
  <2>6. IsFiniteSet(0 .. m - 1) /\ Cardinality(0 .. m - 1) = m
    BY <1>2, FS_Interval
  <2>7. \A j, l \in 0 .. m - 1 : h[j] = h[l] => j = l
    BY <2>2
  <2>8. Matches(h, 0 .. m - 1, S)
    BY <2>4, <2>5, <2>7 DEF Matches, Places
  <2>9. IsFiniteSet(S) /\ Cardinality(S) = Cardinality(0 .. m - 1)
    BY <2>6, <2>8, SameCount
  <2> QED BY <2>6, <2>9
<1>3. SlotsOf(i, k) = {s \in SlotsOf(i, k) : s.slot < Optimal(i, k)}
  <2>1. \A s \in SlotsOf(i, k) : s.slot \in 0 .. Optimal(i, k) - 1
    BY SlotIs DEF SlotsOf
  <2> QED BY <1>1, <2>1
<1>4. {s \in SlotsOf(i, k) : IsMinimum(i, s)} = {s \in SlotsOf(i, k) : s.slot < Minimum(i, k)}
  <2>1. \A s \in SlotsOf(i, k) : IsMinimum(i, s) <=> s.slot < Minimum(i, k)
    BY SlotIs DEF SlotsOf
  <2> QED BY <2>1, Zenon
<1>5. IsFiniteSet(SlotsOf(i, k)) /\ Cardinality(SlotsOf(i, k)) = Optimal(i, k)
  BY <1>1, <1>2, <1>3
<1>6. Cardinality({s \in SlotsOf(i, k) : s.slot < Minimum(i, k)}) = Minimum(i, k)
  BY <1>1, <1>2
<1> QED BY <1>4, <1>5, <1>6

LEMMA SlotsFinite == ASSUME NEW i \in Instances PROVE IsFiniteSet(Slots(i))
<1> DEFINE f == [k \in Covers(i) |-> SlotsOf(i, k)]
           S == {f[k] : k \in Covers(i)}
<1>1. f \in Surjection(Covers(i), S)
  BY DEF Surjection
<1>2. IsFiniteSet(S)
  BY <1>1, InstanceFacts, FS_Surjection
<1>3. \A T \in S : IsFiniteSet(T)
  BY SlotCounts
<1>4. Slots(i) = UNION S
  <2>1. \A s : s \in UNION S <=> \E k \in Covers(i) : s \in SlotsOf(i, k)
    OBVIOUS
  <2>2. \A s : s \in Slots(i) <=> \E k \in Covers(i) : s \in SlotsOf(i, k)
    BY SlotIs DEF SlotsOf
  <2> HIDE DEF S
  <2> QED BY <2>1, <2>2
<1> QED BY <1>2, <1>3, <1>4, FS_UNION

-----------------------------------------------------------------------------
(* The roster of a plan.                                                    *)
IsPlan(i, p) == p \in [Slots(i) -> Nurses(i) \cup {NoNurse}]
Filled(i, p) == {s \in Slots(i) : p[s] # NoNurse}
EntryOf(p, s) == <<p[s], s.cover, s.slot>>
IsRoster(i, R) ==
    /\ IsFiniteSet(R)
    /\ \A a \in R : a = <<a[1], a[2], a[3]>> /\ a[1] \in Nurses(i) /\ a[2] \in Covers(i)
OncePerDay(R) ==
    \A a, b \in R : a[1] = b[1] /\ a[2][3] = b[2][3] => a = b

LEMMA EntryIs ==
    ASSUME NEW p, NEW s
    PROVE  EntryOf(p, s)[1] = p[s] /\ EntryOf(p, s)[2] = s.cover /\ EntryOf(p, s)[3] = s.slot
BY DEF EntryOf

LEMMA EntryTells ==
    ASSUME NEW i, NEW p, NEW s \in Slots(i), NEW t \in Slots(i), EntryOf(p, s) = EntryOf(p, t)
    PROVE  s = t
<1>1. s.cover = t.cover /\ s.slot = t.slot
  BY EntryIs
<1> QED BY <1>1, SlotIs

LEMMA RosterHas ==
    ASSUME NEW i, NEW p, NEW a
    PROVE  a \in Roster(i, p) <=> \E s \in Filled(i, p) : a = EntryOf(p, s)
BY DEF Roster, Filled, EntryOf

LEMMA EntryCount ==
    ASSUME NEW i \in Instances, NEW p, NEW S \in SUBSET Slots(i), NEW T,
           \A a : a \in T <=> \E s \in S : a = EntryOf(p, s)
    PROVE  IsFiniteSet(S) /\ IsFiniteSet(T) /\ Cardinality(T) = Cardinality(S)
<1> DEFINE h == [s \in S |-> EntryOf(p, s)]
<1>1. IsFiniteSet(S)
  BY SlotsFinite, FS_Subset
<1>2. \A s \in S : h[s] = EntryOf(p, s) /\ s \in Slots(i)
  OBVIOUS
<1>3. h = [s \in S |-> h[s]]
  OBVIOUS
<1> HIDE DEF h
<1>4. \A x, y \in S : h[x] = h[y] => x = y
  BY <1>2, EntryTells
<1>5. \A a \in T : \E s \in S : h[s] = a
  BY <1>2
<1>6. \A s \in S : h[s] \in T
  BY <1>2
<1>7. Matches(h, S, T)
  BY <1>3, <1>4, <1>5, <1>6 DEF Matches, Places
<1> QED BY <1>1, <1>7, SameCount

LEMMA PlanFacts ==
    ASSUME NEW i \in Instances, NEW p, IsPlan(i, p)
    PROVE  /\ \A s \in Filled(i, p) : s \in Slots(i) /\ p[s] \in Nurses(i) /\ s.cover \in Covers(i)
           /\ IsRoster(i, Roster(i, p))
           /\ IsFiniteSet(Filled(i, p))
<1>1. \A s \in Filled(i, p) : s \in Slots(i) /\ p[s] \in Nurses(i) /\ s.cover \in Covers(i)
  BY SlotIs DEF IsPlan, Filled
<1>2. IsFiniteSet(Roster(i, p)) /\ IsFiniteSet(Filled(i, p))
  <2>1. Filled(i, p) \in SUBSET Slots(i)
    BY DEF Filled
  <2>2. \A a : a \in Roster(i, p) <=> \E s \in Filled(i, p) : a = EntryOf(p, s)
    BY RosterHas
  <2> QED BY <2>1, <2>2, EntryCount
<1>3. ASSUME NEW a \in Roster(i, p)
      PROVE  a = <<a[1], a[2], a[3]>> /\ a[1] \in Nurses(i) /\ a[2] \in Covers(i)
  <2>1. PICK s \in Filled(i, p) : a = EntryOf(p, s)
    BY RosterHas
  <2>2. a[1] = p[s] /\ a[2] = s.cover /\ a[3] = s.slot
    BY <2>1, EntryIs
  <2>3. a = <<a[1], a[2], a[3]>>
    BY <2>1, <2>2 DEF EntryOf
  <2> QED BY <1>1, <2>2, <2>3
<1> QED BY <1>1, <1>2, <1>3 DEF IsRoster

(* What holds of every filled slot holds of every entry, and of two.        *)
LEMMA EntriesAreSlots ==
    ASSUME NEW i, NEW p
    PROVE  /\ \A s \in Filled(i, p) : EntryOf(p, s) \in Roster(i, p)
           /\ \A a \in Roster(i, p) : \E s \in Filled(i, p) :
                  /\ a = EntryOf(p, s)
                  /\ a[1] = p[s] /\ a[2] = s.cover /\ a[3] = s.slot
<1>1. ASSUME NEW a \in Roster(i, p)
      PROVE  \E s \in Filled(i, p) : /\ a = EntryOf(p, s)
                                  /\ a[1] = p[s] /\ a[2] = s.cover /\ a[3] = s.slot
  <2>1. PICK s \in Filled(i, p) : a = EntryOf(p, s)
    BY RosterHas
  <2> QED BY <2>1, EntryIs
<1> QED BY <1>1, RosterHas

-----------------------------------------------------------------------------
(* Constraints on slots and the validator.                                  *)
LEMMA SingleIs ==
    ASSUME NEW i \in Instances, NEW R, IsRoster(i, R)
    PROVE  SingleAssignment(i, R) <=> OncePerDay(R)
<1>1. \A n, d : IsFiniteSet(Entries(R, n, d))
  BY FS_Subset DEF IsRoster, Entries
<1>2. ASSUME SingleAssignment(i, R), NEW a \in R, NEW b \in R, a[1] = b[1], a[2][3] = b[2][3]
      PROVE  a = b
  <2>1. a[1] \in Nurses(i) /\ a[2][3] \in Days
    BY InstanceFacts DEF IsRoster
  <2>2. a \in Entries(R, a[1], a[2][3]) /\ b \in Entries(R, a[1], a[2][3])
    BY <1>2 DEF Entries
  <2>3. Cardinality(Entries(R, a[1], a[2][3])) <= 1
    BY <1>2, <2>1 DEF SingleAssignment
  <2> QED BY <1>1, <2>2, <2>3, OneAtMost
<1>3. ASSUME OncePerDay(R), NEW n \in Nurses(i), NEW d \in Days
      PROVE  Cardinality(Entries(R, n, d)) <= 1
  <2>1. \A a, b \in Entries(R, n, d) : a = b
    BY <1>3 DEF Entries, OncePerDay
  <2> QED BY <1>1, <2>1, OneAtMost
<1> QED BY <1>2, <1>3 DEF SingleAssignment, OncePerDay

LEMMA PairIs ==
    ASSUME NEW i \in Instances, NEW p, IsPlan(i, p), NEW st
    PROVE  st \in SameNurse(i, p) <=> \E s, t \in Filled(i, p) : /\ s # t /\ st = {s, t}
                                                          /\ p[s] = p[t]
<1>1. st \in SameNurse(i, p) <=> st \in kSubset(2, Filled(i, p)) /\ \A s, t \in st : p[s] = p[t]
  BY DEF SameNurse, Filled
<1>2. st \in kSubset(2, Filled(i, p)) <=> \E s, t \in Filled(i, p) : s # t /\ st = {s, t}
  BY PlanFacts, PairsOf
<1> QED BY <1>1, <1>2

LEMMA SameNurseDayIs ==
    ASSUME NEW i \in Instances, NEW p, IsPlan(i, p)
    PROVE  SameNurseDay(i, p) = {} <=> OncePerDay(Roster(i, p))
<1>1. ASSUME SameNurseDay(i, p) = {}, NEW s \in Filled(i, p), NEW t \in Filled(i, p),
             p[s] = p[t], s.cover[3] = t.cover[3]
      PROVE  s = t
  <2> SUFFICES ASSUME s # t PROVE FALSE
    OBVIOUS
  <2>1. {s, t} \in SameNurse(i, p)
    BY <1>1, PairIs
  <2>2. {s, t} \in SameNurseDay(i, p)
    BY <1>1, <2>1 DEF SameNurseDay
  <2> QED BY <1>1, <2>2
<1>2. ASSUME SameNurseDay(i, p) = {} PROVE OncePerDay(Roster(i, p))
  <2> SUFFICES ASSUME NEW a \in Roster(i, p), NEW b \in Roster(i, p),
                      a[1] = b[1], a[2][3] = b[2][3]
               PROVE  a = b
    BY DEF OncePerDay
  <2>1. PICK s \in Filled(i, p) : /\ a = EntryOf(p, s)
                               /\ a[1] = p[s] /\ a[2] = s.cover /\ a[3] = s.slot
    BY EntriesAreSlots
  <2>2. PICK t \in Filled(i, p) : /\ b = EntryOf(p, t)
                               /\ b[1] = p[t] /\ b[2] = t.cover /\ b[3] = t.slot
    BY EntriesAreSlots
  <2>3. s = t
    BY <1>1, <1>2, <2>1, <2>2
  <2> QED BY <2>1, <2>2, <2>3
<1>3. ASSUME OncePerDay(Roster(i, p)), NEW st \in SameNurseDay(i, p) PROVE FALSE
  <2>1. st \in SameNurse(i, p) /\ \A s, t \in st : s.cover[3] = t.cover[3]
    BY <1>3 DEF SameNurseDay
  <2>2. PICK s \in Filled(i, p) : \E t \in Filled(i, p) : s # t /\ st = {s, t} /\ p[s] = p[t]
    BY <2>1, PairIs
  <2>3. PICK t \in Filled(i, p) : s # t /\ st = {s, t} /\ p[s] = p[t]
    BY <2>2
  <2>4. s.cover[3] = t.cover[3]
    BY <2>1, <2>3
  <2>5. /\ EntryOf(p, s) \in Roster(i, p) /\ EntryOf(p, t) \in Roster(i, p)
        /\ EntryOf(p, s)[1] = EntryOf(p, t)[1]
        /\ EntryOf(p, s)[2][3] = EntryOf(p, t)[2][3]
    BY <2>3, <2>4, EntriesAreSlots, EntryIs
  <2>6. EntryOf(p, s) = EntryOf(p, t)
    BY <1>3, <2>5 DEF OncePerDay
  <2> QED BY <2>3, <2>6, EntryTells DEF Filled
<1> QED BY <1>2, <1>3

LEMMA SuccessionIs ==
    ASSUME NEW i \in Instances, NEW p, IsPlan(i, p)
    PROVE  NoForbiddenSuccession(i, Roster(i, p))
              <=> HistoryBlocks(i, p) = {} /\ ForbiddenPair(i, p) = {}
<1>1. ASSUME NoForbiddenSuccession(i, Roster(i, p)) PROVE HistoryBlocks(i, p) = {}
  <2> SUFFICES ASSUME NEW s \in HistoryBlocks(i, p) PROVE FALSE
    OBVIOUS
  <2>1. /\ s \in Filled(i, p) /\ s.cover[3] = 1
        /\ Forbidden(i, i.history[p[s]].last, s.cover[1])
    BY DEF HistoryBlocks, Filled
  <2>2. EntryOf(p, s) \in Roster(i, p) /\ EntryOf(p, s)[1] = p[s] /\ EntryOf(p, s)[2] = s.cover
    BY <2>1, EntriesAreSlots, EntryIs
  <2> QED BY <1>1, <2>1, <2>2 DEF NoForbiddenSuccession
<1>2. ASSUME NoForbiddenSuccession(i, Roster(i, p)) PROVE ForbiddenPair(i, p) = {}
  <2> SUFFICES ASSUME NEW st \in ForbiddenPair(i, p) PROVE FALSE
    OBVIOUS
  <2>1. /\ st \in SameNurse(i, p)
        /\ \E s, t \in st : s.cover[3] + 1 = t.cover[3] /\ Forbidden(i, s.cover[1], t.cover[1])
    BY DEF ForbiddenPair
  <2>2. /\ \A s, t \in st : p[s] = p[t]
        /\ \A s \in st : s \in Filled(i, p)
    BY <2>1 DEF SameNurse, Filled, kSubset
  <2>3. PICK s \in st, t \in st : s.cover[3] + 1 = t.cover[3] /\ Forbidden(i, s.cover[1], t.cover[1])
    BY <2>1
  <2> DEFINE a == EntryOf(p, t)
             b == EntryOf(p, s)
  <2>4. /\ a \in Roster(i, p) /\ b \in Roster(i, p) /\ a[1] = p[t] /\ b[1] = p[t]
        /\ a[2] = t.cover /\ b[2] = s.cover
    BY <2>2, EntriesAreSlots, EntryIs
  <2> HIDE DEF a, b
  <2>5. s.cover[3] \in Days /\ s.cover[3] \in Nat
    BY <2>2, PlanFacts, InstanceFacts
  <2>6. t.cover[3] # 1 /\ t.cover[3] - 1 = s.cover[3]
    BY <2>3, <2>5, InstanceFacts DEF Days
  <2>7. b \in Entries(Roster(i, p), a[1], a[2][3] - 1)
    BY <2>4, <2>6 DEF Entries
  <2>8. ~ Forbidden(i, b[2][1], a[2][1])
    BY <1>2, <2>4, <2>6, <2>7 DEF NoForbiddenSuccession
  <2> QED BY <2>3, <2>4, <2>8
<1>3. ASSUME HistoryBlocks(i, p) = {}, ForbiddenPair(i, p) = {}
      PROVE  NoForbiddenSuccession(i, Roster(i, p))
  <2>1. ASSUME NEW a \in Roster(i, p), a[2][3] = 1
        PROVE  ~ Forbidden(i, i.history[a[1]].last, a[2][1])
    <3>1. PICK s \in Filled(i, p) : a[1] = p[s] /\ a[2] = s.cover
      BY EntriesAreSlots
    <3> QED BY <1>3, <2>1, <3>1 DEF HistoryBlocks, Filled
  <2>2. ASSUME NEW a \in Roster(i, p), NEW b \in Entries(Roster(i, p), a[1], a[2][3] - 1)
        PROVE  ~ Forbidden(i, b[2][1], a[2][1])
    <3> SUFFICES ASSUME Forbidden(i, b[2][1], a[2][1]) PROVE FALSE
      OBVIOUS
    <3>1. b \in Roster(i, p) /\ b[1] = a[1] /\ b[2][3] = a[2][3] - 1
      BY DEF Entries
    <3>2. PICK t \in Filled(i, p) : a[1] = p[t] /\ a[2] = t.cover
      BY EntriesAreSlots
    <3>3. PICK s \in Filled(i, p) : b[1] = p[s] /\ b[2] = s.cover
      BY <3>1, EntriesAreSlots
    <3>4. t.cover[3] \in Nat
      BY PlanFacts, InstanceFacts
    <3>5. s.cover[3] + 1 = t.cover[3]
      BY <3>1, <3>2, <3>3, <3>4
    <3>6. s.cover[3] # t.cover[3] /\ p[s] = p[t]
      BY <3>1, <3>2, <3>3, <3>4
    <3>7. {s, t} \in SameNurse(i, p)
      BY <3>6, PairIs
    <3>8. {s, t} \in ForbiddenPair(i, p)
      BY <3>2, <3>3, <3>5, <3>7 DEF ForbiddenPair
    <3> QED BY <1>3, <3>8
  <2> QED BY <2>1, <2>2 DEF NoForbiddenSuccession
<1> QED BY <1>1, <1>2, <1>3

LEMMA SkilledIs ==
    ASSUME NEW i \in Instances, NEW p, IsPlan(i, p)
    PROVE  Skilled(i, Roster(i, p)) <=> LacksSkill(i, p) = {}
<1>1. ASSUME Skilled(i, Roster(i, p)), NEW s \in LacksSkill(i, p) PROVE FALSE
  <2>1. s \in Filled(i, p) /\ s.cover[2] \notin i.skills[p[s]]
    BY DEF LacksSkill, Filled
  <2>2. EntryOf(p, s) \in Roster(i, p) /\ EntryOf(p, s)[1] = p[s] /\ EntryOf(p, s)[2] = s.cover
    BY <2>1, EntriesAreSlots, EntryIs
  <2> QED BY <1>1, <2>1, <2>2 DEF Skilled
<1>2. ASSUME LacksSkill(i, p) = {}, NEW a \in Roster(i, p)
      PROVE  a[2][2] \in i.skills[a[1]]
  <2>1. PICK s \in Filled(i, p) : a[1] = p[s] /\ a[2] = s.cover
    BY EntriesAreSlots
  <2> QED BY <1>2, <2>1 DEF LacksSkill, Filled
<1> QED BY <1>1, <1>2 DEF Skilled

(* As many nurses cover a requirement as slots of it are filled.            *)
LEMMA CoveredIs ==
    ASSUME NEW i \in Instances, NEW p, IsPlan(i, p), NEW k \in Covers(i)
    PROVE  /\ IsFiniteSet({s \in SlotsOf(i, k) : p[s] # NoNurse})
           /\ Covered(Roster(i, p), k) = Cardinality({s \in SlotsOf(i, k) : p[s] # NoNurse})
           /\ Covered(Roster(i, p), k) \in 0 .. Optimal(i, k)
<1> DEFINE S == {s \in SlotsOf(i, k) : p[s] # NoNurse}
           T == {a \in Roster(i, p) : a[2] = k}
<1>1. S \in SUBSET Slots(i) /\ S \in SUBSET SlotsOf(i, k)
  BY DEF SlotsOf
<1>2. ASSUME NEW a, a \in T PROVE \E s \in S : a = EntryOf(p, s)
  <2>1. PICK s \in Filled(i, p) : a = EntryOf(p, s) /\ a[2] = s.cover
    BY <1>2, EntriesAreSlots
  <2>2. s \in S
    BY <1>2, <2>1 DEF Filled, SlotsOf
  <2> QED BY <2>1, <2>2
<1>3. ASSUME NEW s \in S PROVE EntryOf(p, s) \in T
  <2>1. s \in Filled(i, p) /\ s.cover = k
    BY DEF Filled, SlotsOf
  <2> QED BY <2>1, EntriesAreSlots, EntryIs
<1> HIDE DEF S, T
<1>4. \A a : a \in T <=> \E s \in S : a = EntryOf(p, s)
  BY <1>2, <1>3
<1>5. IsFiniteSet(S) /\ Cardinality(T) = Cardinality(S)
  BY <1>1, <1>4, EntryCount
<1>6. Cardinality(S) \in Nat /\ Cardinality(S) <= Optimal(i, k)
  <2>1. IsFiniteSet(SlotsOf(i, k)) /\ Cardinality(SlotsOf(i, k)) = Optimal(i, k)
    BY SlotCounts
  <2>2. Cardinality(S) <= Cardinality(SlotsOf(i, k))
    BY <1>1, <2>1, FS_Subset
  <2>3. Cardinality(S) \in Nat
    BY <1>5, FS_CardinalityType
  <2> QED BY <2>1, <2>2, <2>3
<1>7. Covered(Roster(i, p), k) = Cardinality(T)
  BY DEF Covered, T
<1> QED BY <1>5, <1>6, <1>7, InstanceFacts DEF S

LEMMA RequiredCover ==
    ASSUME NEW i \in Instances, NEW p, IsPlan(i, p), Required(i, p) = {}
    PROVE  MinCoverage(i, Roster(i, p))
<1> SUFFICES ASSUME NEW k \in Covers(i) PROVE Covered(Roster(i, p), k) >= Minimum(i, k)
  BY DEF MinCoverage, Minimum
<1> DEFINE S == {s \in SlotsOf(i, k) : p[s] # NoNurse}
           M == {s \in SlotsOf(i, k) : IsMinimum(i, s)}
<1>1. M \in SUBSET S
  BY DEF Required, SlotsOf
<1>2. Covered(Roster(i, p), k) = Cardinality(S) /\ IsFiniteSet(S)
  BY CoveredIs
<1>3. Cardinality(M) = Minimum(i, k) /\ Minimum(i, k) \in Nat
  BY SlotCounts, InstanceFacts
<1> HIDE DEF S, M
<1>4. Cardinality(M) <= Cardinality(S) /\ Cardinality(S) \in Nat
  BY <1>1, <1>2, FS_Subset, FS_CardinalityType
<1> QED BY <1>2, <1>3, <1>4

LEMMA HardScoreIsNone ==
    ASSUME NEW i \in Instances, NEW p, IsPlan(i, p)
    PROVE  /\ HardScore(i, p) \in Nat
           /\ HardScore(i, p) = 0 <=> /\ Required(i, p) = {} /\ SameNurseDay(i, p) = {}
                                   /\ LacksSkill(i, p) = {} /\ HistoryBlocks(i, p) = {}
                                   /\ ForbiddenPair(i, p) = {}
<1>1. IsFiniteSet(Slots(i)) /\ IsFiniteSet(SUBSET Slots(i))
  BY SlotsFinite, FS_SUBSET
<1>2. /\ Required(i, p) \in SUBSET Slots(i) /\ LacksSkill(i, p) \in SUBSET Slots(i)
      /\ HistoryBlocks(i, p) \in SUBSET Slots(i)
  BY DEF Required, LacksSkill, HistoryBlocks
<1>3. \A st \in SameNurse(i, p) : st \in SUBSET Slots(i)
  BY DEF SameNurse, kSubset
<1>4. SameNurseDay(i, p) \in SUBSET SUBSET Slots(i) /\ ForbiddenPair(i, p) \in SUBSET SUBSET Slots(i)
  BY <1>3 DEF SameNurseDay, ForbiddenPair
<1>5. \A S : IsFiniteSet(S) => /\ Cardinality(S) \in Nat
                               /\ Cardinality(S) = 0 <=> S = {}
  BY FS_CardinalityType, FS_EmptySet
<1>6. /\ IsFiniteSet(Required(i, p)) /\ IsFiniteSet(LacksSkill(i, p))
      /\ IsFiniteSet(HistoryBlocks(i, p)) /\ IsFiniteSet(SameNurseDay(i, p))
      /\ IsFiniteSet(ForbiddenPair(i, p))
  BY <1>1, <1>2, <1>4, FS_Subset
<1> DEFINE A == Required(i, p)
           B == SameNurseDay(i, p)
           C == LacksSkill(i, p)
           D == HistoryBlocks(i, p)
           E == ForbiddenPair(i, p)
<1>7. HardScore(i, p) = 1000 * Cardinality(A) + Cardinality(B) + Cardinality(C)
                     + Cardinality(D) + Cardinality(E)
  BY DEF HardScore
<1> HIDE DEF A, B, C, D, E
<1>8. /\ Cardinality(A) \in Nat /\ Cardinality(B) \in Nat /\ Cardinality(C) \in Nat
      /\ Cardinality(D) \in Nat /\ Cardinality(E) \in Nat
  BY <1>5, <1>6 DEF A, B, C, D, E
<1>9. /\ Cardinality(A) = 0 <=> A = {}
      /\ Cardinality(B) = 0 <=> B = {}
      /\ Cardinality(C) = 0 <=> C = {}
      /\ Cardinality(D) = 0 <=> D = {}
      /\ Cardinality(E) = 0 <=> E = {}
  BY <1>5, <1>6 DEF A, B, C, D, E
<1>10. /\ HardScore(i, p) \in Nat
       /\ HardScore(i, p) = 0 <=> /\ Cardinality(A) = 0 /\ Cardinality(B) = 0
                               /\ Cardinality(C) = 0 /\ Cardinality(D) = 0
                               /\ Cardinality(E) = 0
  <2> DEFINE score == HardScore(i, p)
             a == Cardinality(A)
             b == Cardinality(B)
             c == Cardinality(C)
             d == Cardinality(D)
             e == Cardinality(E)
  <2>1. /\ a \in Nat /\ b \in Nat /\ c \in Nat /\ d \in Nat /\ e \in Nat
        /\ score = 1000 * a + b + c + d + e
    BY <1>7, <1>8
  <2> HIDE DEF score, a, b, c, d, e
  <2>2. /\ score \in Nat
        /\ score = 0 <=> /\ a = 0 /\ b = 0 /\ c = 0 /\ d = 0 /\ e = 0
    BY <2>1
  <2> QED BY <2>2 DEF score, a, b, c, d, e
<1> QED BY <1>9, <1>10 DEF A, B, C, D, E

LEMMA HardScoreIs ==
    ASSUME NEW i \in Instances, NEW p, IsPlan(i, p)
    PROVE  HardScore(i, p) = 0 <=> Required(i, p) = {} /\ Validates(i, Roster(i, p))
<1>1. SingleAssignment(i, Roster(i, p)) <=> SameNurseDay(i, p) = {}
  BY PlanFacts, SingleIs, SameNurseDayIs
<1> QED
  BY <1>1, SkilledIs, SuccessionIs, RequiredCover, HardScoreIsNone DEF Validates

-----------------------------------------------------------------------------
(* A roster and its columns.                                                *)
ColumnOf(a) == <<a[2], a[1]>>
AllCandidates(i, R) == \A a \in R : Candidate(i, a[2], a[1])
AreColumns(i, x) == x \subseteq AllColumns(i)

LEMMA ColumnIs ==
    ASSUME NEW a
    PROVE  ColumnOf(a)[1] = a[2] /\ ColumnOf(a)[2] = a[1]
BY DEF ColumnOf

LEMMA ColumnsHave ==
    ASSUME NEW R
    PROVE  /\ \A a \in R : ColumnOf(a) \in Columns(R)
           /\ \A c \in Columns(R) : \E a \in R : c = ColumnOf(a) /\ c[1] = a[2] /\ c[2] = a[1]
BY DEF Columns, ColumnOf

(* A nurse works at most once a day, so a column stands for one entry.      *)
LEMMA ColumnTells ==
    ASSUME NEW R, OncePerDay(R), NEW a \in R, NEW b \in R, ColumnOf(a) = ColumnOf(b)
    PROVE  a = b
<1>1. a[1] = b[1] /\ a[2] = b[2]
  BY ColumnIs
<1> QED BY <1>1 DEF OncePerDay

LEMMA ColumnsAreEntries ==
    ASSUME NEW R, OncePerDay(R), IsFiniteSet(R), NEW S \in SUBSET R, NEW T,
           \A c : c \in T <=> \E a \in S : c = ColumnOf(a)
    PROVE  IsFiniteSet(S) /\ IsFiniteSet(T) /\ Cardinality(T) = Cardinality(S)
<1> DEFINE h == [a \in S |-> ColumnOf(a)]
<1>1. IsFiniteSet(S)
  BY FS_Subset
<1>2. \A a \in S : h[a] = ColumnOf(a) /\ a \in R
  OBVIOUS
<1>3. h = [a \in S |-> h[a]]
  OBVIOUS
<1> HIDE DEF h
<1>4. \A a, b \in S : h[a] = h[b] => a = b
  BY <1>2, ColumnTells
<1>5. \A c \in T : \E a \in S : h[a] = c
  BY <1>2
<1>6. \A a \in S : h[a] \in T
  BY <1>2
<1>7. Matches(h, S, T)
  BY <1>3, <1>4, <1>5, <1>6 DEF Matches, Places
<1> QED BY <1>1, <1>7, SameCount

LEMMA AssignedIs ==
    ASSUME NEW i, NEW R, IsRoster(i, R), OncePerDay(R), NEW k
    PROVE  /\ IsFiniteSet(Assigned(Columns(R), k))
           /\ Cardinality(Assigned(Columns(R), k)) = Covered(R, k)
<1> DEFINE S == {a \in R : a[2] = k}
           T == Assigned(Columns(R), k)
<1>1. S \in SUBSET R /\ IsFiniteSet(R)
  BY DEF IsRoster
<1>2. ASSUME NEW c, c \in T PROVE \E a \in S : c = ColumnOf(a)
  <2>1. c \in Columns(R) /\ c[1] = k
    BY <1>2 DEF Assigned
  <2>2. PICK a \in R : c = ColumnOf(a) /\ c[1] = a[2]
    BY <2>1, ColumnsHave
  <2> QED BY <2>1, <2>2
<1>3. ASSUME NEW a \in S PROVE ColumnOf(a) \in T
  BY ColumnsHave, ColumnIs DEF Assigned
<1>4. \A c : c \in T <=> \E a \in S : c = ColumnOf(a)
  BY <1>2, <1>3
<1> HIDE DEF S, T
<1>5. IsFiniteSet(T) /\ Cardinality(T) = Cardinality(S)
  BY <1>1, <1>4, ColumnsAreEntries
<1> QED BY <1>5 DEF S, T, Covered

LEMMA AtIs ==
    ASSUME NEW R, NEW n, NEW d
    PROVE  /\ \A a \in Entries(R, n, d) : ColumnOf(a) \in At(Columns(R), n, d)
           /\ \A c \in At(Columns(R), n, d) : \E a \in Entries(R, n, d) :
                  c = ColumnOf(a) /\ c[1] = a[2] /\ c[2] = a[1]
           /\ At(Columns(R), n, d) # {} <=> Works(R, n, d)
<1>1. ASSUME NEW a \in Entries(R, n, d) PROVE ColumnOf(a) \in At(Columns(R), n, d)
  BY ColumnsHave, ColumnIs DEF Entries, At
<1>2. ASSUME NEW c \in At(Columns(R), n, d)
      PROVE  \E a \in Entries(R, n, d) : c = ColumnOf(a) /\ c[1] = a[2] /\ c[2] = a[1]
  <2>1. c \in Columns(R) /\ c[2] = n /\ c[1][3] = d
    BY DEF At
  <2>2. PICK a \in R : c = ColumnOf(a) /\ c[1] = a[2] /\ c[2] = a[1]
    BY <2>1, ColumnsHave
  <2> QED BY <2>1, <2>2 DEF Entries
<1> QED BY <1>1, <1>2 DEF Works

LEMMA WorkRowsAre ==
    ASSUME NEW i, NEW R, IsRoster(i, R), OncePerDay(R)
    PROVE  WorkRows(i, Columns(R))
<1> SUFFICES ASSUME NEW n \in Nurses(i), NEW d \in Days
             PROVE  Cardinality(At(Columns(R), n, d)) <= 1
  BY DEF WorkRows
<1>1. \A b, c \in At(Columns(R), n, d) : b = c
  <2> SUFFICES ASSUME NEW b \in At(Columns(R), n, d), NEW c \in At(Columns(R), n, d)
               PROVE  b = c
    OBVIOUS
  <2>1. PICK a \in Entries(R, n, d) : b = ColumnOf(a)
    BY AtIs
  <2>2. PICK e \in Entries(R, n, d) : c = ColumnOf(e)
    BY AtIs
  <2>3. a = e
    BY DEF Entries, OncePerDay
  <2> QED BY <2>1, <2>2, <2>3
<1>2. IsFiniteSet(At(Columns(R), n, d))
  <2>1. PICK z : At(Columns(R), n, d) \subseteq {z}
    BY <1>1
  <2> QED BY <2>1, FS_Singleton, FS_Subset
<1> QED BY <1>1, <1>2, OneAtMost

(* The validator looks back from an entry, the rows look ahead.             *)
LEMMA SuccessionRowsAre ==
    ASSUME NEW i \in Instances, NEW R, IsRoster(i, R), AllCandidates(i, R)
    PROVE  SuccessionRows(i, Columns(R)) <=> NoForbiddenSuccession(i, R)
<1>1. \A a \in R : a[1] \in Nurses(i) /\ a[2][3] \in Nat /\ a[2][3] \in 1 .. TotalDays
  BY InstanceFacts DEF IsRoster, Days
<1>2. ASSUME SuccessionRows(i, Columns(R)), NEW a \in R, a[2][3] # 1,
             NEW b \in Entries(R, a[1], a[2][3] - 1)
      PROVE  ~ Forbidden(i, b[2][1], a[2][1])
  <2> DEFINE d == a[2][3] - 1
  <2>1. /\ a[1] \in Nurses(i) /\ d \in 1 .. TotalDays - 1 /\ d + 1 = a[2][3]
    BY <1>1, <1>2, InstanceFacts
  <2>2. a \in Entries(R, a[1], d + 1)
    BY <2>1 DEF Entries
  <2> HIDE DEF d
  <2>3. ColumnOf(a) \in At(Columns(R), a[1], d + 1)
    BY <2>2, AtIs
  <2>4. ColumnOf(b) \in At(Columns(R), a[1], d)
    BY AtIs DEF d
  <2>5. ~ Forbidden(i, ColumnOf(b)[1][1], ColumnOf(a)[1][1])
    BY <1>2, <2>1, <2>3, <2>4 DEF SuccessionRows
  <2> QED BY <2>5, ColumnIs
<1>3. ASSUME NEW a \in R, a[2][3] = 1
      PROVE  ~ Forbidden(i, i.history[a[1]].last, a[2][1])
  BY <1>3 DEF AllCandidates, Candidate
<1>4. ASSUME NoForbiddenSuccession(i, R), NEW n \in Nurses(i), NEW d \in 1 .. TotalDays - 1,
             NEW b \in At(Columns(R), n, d), NEW a \in At(Columns(R), n, d + 1)
      PROVE  ~ Forbidden(i, b[1][1], a[1][1])
  <2>1. PICK f \in Entries(R, n, d) : b[1] = f[2]
    BY AtIs
  <2>2. PICK e \in Entries(R, n, d + 1) : a[1] = e[2]
    BY AtIs
  <2>3. e \in R /\ e[1] = n /\ e[2][3] = d + 1
    BY DEF Entries
  <2>4. e[2][3] # 1 /\ e[2][3] - 1 = d
    BY <2>3
  <2>5. f \in Entries(R, e[1], e[2][3] - 1)
    BY <2>3, <2>4
  <2>6. ~ Forbidden(i, f[2][1], e[2][1])
    BY <1>4, <2>3, <2>4, <2>5 DEF NoForbiddenSuccession
  <2> QED BY <2>1, <2>2, <2>6
<1>5. SuccessionRows(i, Columns(R)) => NoForbiddenSuccession(i, R)
  BY <1>2, <1>3 DEF NoForbiddenSuccession
<1>6. NoForbiddenSuccession(i, R) => SuccessionRows(i, Columns(R))
  BY <1>4 DEF SuccessionRows
<1> QED BY <1>5, <1>6

(* A set of columns is the columns of its roster.                           *)
LEMMA OfColumnsIs ==
    ASSUME NEW i \in Instances, NEW x, AreColumns(i, x)
    PROVE  /\ Columns(OfColumns(x)) = x
           /\ IsRoster(i, OfColumns(x)) /\ AllCandidates(i, OfColumns(x))
           /\ WorkRows(i, x) => OncePerDay(OfColumns(x))
<1> DEFINE R == OfColumns(x)
<1>1. \A c \in x : /\ c = <<c[1], c[2]>> /\ c[1] \in Covers(i) /\ c[2] \in Nurses(i)
                   /\ Candidate(i, c[1], c[2])
  BY DEF AreColumns, AllColumns
<1>2. /\ \A a \in R : \E c \in x : a = <<c[2], c[1], 0>>
      /\ \A c \in x : <<c[2], c[1], 0>> \in R
  BY DEF OfColumns
<1> HIDE DEF R
<1>3. \A a \in R : \E c \in x : /\ a = <<c[2], c[1], 0>> /\ a = <<a[1], a[2], a[3]>>
                                /\ a[1] = c[2] /\ a[2] = c[1] /\ a[3] = 0
  BY <1>2
<1>4. \A a \in R : /\ a = <<a[1], a[2], 0>> /\ a = <<a[1], a[2], a[3]>>
                   /\ a[1] \in Nurses(i) /\ a[2] \in Covers(i)
                   /\ Candidate(i, a[2], a[1]) /\ ColumnOf(a) \in x
  BY <1>1, <1>3 DEF ColumnOf
<1>5. IsFiniteSet(R)
  <2> DEFINE g == [c \in x |-> <<c[2], c[1], 0>>]
  <2>1. IsFiniteSet(Covers(i)) /\ IsFiniteSet(Nurses(i))
    BY InstanceFacts
  <2>2. IsFiniteSet(Covers(i) \X Nurses(i))
    BY <2>1, FS_Product
  <2>3. IsFiniteSet(x)
    BY <2>2, FS_Subset DEF AreColumns, AllColumns
  <2>4. g \in Surjection(x, R)
    BY DEF Surjection, R, OfColumns
  <2> QED BY <2>3, <2>4, FS_Surjection
<1>6. Columns(R) = x
  <2>1. ASSUME NEW c \in x PROVE c \in Columns(R)
    <3> DEFINE a == <<c[2], c[1], 0>>
    <3>1. a \in R /\ ColumnOf(a) = c
      BY <1>1, <1>2 DEF ColumnOf
    <3> QED BY <3>1, ColumnsHave
  <2>2. ASSUME NEW c \in Columns(R) PROVE c \in x
    BY <1>4, ColumnsHave
  <2> QED BY <2>1, <2>2
<1>7. ASSUME WorkRows(i, x) PROVE OncePerDay(R)
  <2> SUFFICES ASSUME NEW a \in R, NEW b \in R, a[1] = b[1], a[2][3] = b[2][3]
               PROVE  a = b
    BY DEF OncePerDay
  <2>1. a \in Entries(R, a[1], a[2][3]) /\ b \in Entries(R, a[1], a[2][3])
    BY DEF Entries
  <2>2. /\ ColumnOf(a) \in At(x, a[1], a[2][3])
        /\ ColumnOf(b) \in At(x, a[1], a[2][3])
    BY <1>6, <2>1, AtIs
  <2>3. IsFiniteSet(At(x, a[1], a[2][3]))
    <3>1. IsFiniteSet(Covers(i) \X Nurses(i))
      BY InstanceFacts, FS_Product
    <3> QED BY <3>1, FS_Subset DEF At, AreColumns, AllColumns
  <2>4. Cardinality(At(x, a[1], a[2][3])) <= 1
    BY <1>4, <1>7, InstanceFacts DEF WorkRows
  <2>5. ColumnOf(a) = ColumnOf(b)
    BY <2>2, <2>3, <2>4, OneAtMost
  <2> QED BY <1>4, <2>5, ColumnIs
<1> QED BY <1>4, <1>5, <1>6, <1>7 DEF R, IsRoster, AllCandidates

LEMMA CandidatesAreColumns ==
    ASSUME NEW i, NEW R, IsRoster(i, R), AllCandidates(i, R)
    PROVE  AreColumns(i, Columns(R))
<1> SUFFICES ASSUME NEW c \in Columns(R) PROVE c \in AllColumns(i)
  BY DEF AreColumns
<1>1. PICK a \in R : c = ColumnOf(a) /\ c[1] = a[2] /\ c[2] = a[1]
  BY ColumnsHave
<1>2. a[2] \in Covers(i) /\ a[1] \in Nurses(i) /\ Candidate(i, a[2], a[1])
  BY DEF IsRoster, AllCandidates
<1> QED BY <1>1, <1>2 DEF ColumnOf, AllColumns

(* What the validator accepts are candidates.                               *)
LEMMA ValidAreCandidates ==
    ASSUME NEW i, NEW R, Validates(i, R)
    PROVE  AllCandidates(i, R)
BY DEF Validates, Skilled, NoForbiddenSuccession, AllCandidates, Candidate

LEMMA ValidFacts ==
    ASSUME NEW i \in Instances, NEW R, IsRoster(i, R), Validates(i, R)
    PROVE  OncePerDay(R) /\ AllCandidates(i, R) /\ MinCoverage(i, R) /\ AreColumns(i, Columns(R))
BY SingleIs, ValidAreCandidates, CandidatesAreColumns DEF Validates

LEMMA ValidIsAdmitted ==
    ASSUME NEW i \in Instances, NEW p, IsPlan(i, p), Validates(i, Roster(i, p))
    PROVE  AreColumns(i, Columns(Roster(i, p))) /\ Admits(i, Columns(Roster(i, p)))
<1> DEFINE R == Roster(i, p)
<1>1. IsRoster(i, R)
  BY PlanFacts
<1>2. OncePerDay(R) /\ AllCandidates(i, R) /\ MinCoverage(i, R) /\ AreColumns(i, Columns(R))
  BY <1>1, ValidFacts
<1>3. SuccessionRows(i, Columns(R))
  BY <1>1, <1>2, SuccessionRowsAre DEF Validates
<1>4. CoverageRows(i, Columns(R))
  <2> SUFFICES ASSUME NEW k \in Covers(i)
               PROVE  Cardinality(Assigned(Columns(R), k))
                         \in Cardinality({s \in Slots(i) : s.cover = k /\ IsMinimum(i, s)})
                             .. Cardinality({s \in Slots(i) : s.cover = k})
    BY DEF CoverageRows
  <2>1. Cardinality(Assigned(Columns(R), k)) = Covered(R, k)
    BY <1>1, <1>2, AssignedIs
  <2>2. Covered(R, k) \in 0 .. Optimal(i, k) /\ Covered(R, k) >= Minimum(i, k)
    BY <1>2, CoveredIs DEF MinCoverage, Minimum
  <2>3. {s \in Slots(i) : s.cover = k /\ IsMinimum(i, s)} = {s \in SlotsOf(i, k) : IsMinimum(i, s)}
    BY DEF SlotsOf
  <2>4. /\ Cardinality({s \in Slots(i) : s.cover = k /\ IsMinimum(i, s)}) = Minimum(i, k)
        /\ Cardinality({s \in Slots(i) : s.cover = k}) = Optimal(i, k)
    BY <2>3, SlotCounts DEF SlotsOf
  <2>5. Minimum(i, k) \in Nat /\ Optimal(i, k) \in Nat
    BY InstanceFacts
  <2> QED BY <2>1, <2>2, <2>4, <2>5
<1> QED BY <1>1, <1>2, <1>3, <1>4, WorkRowsAre DEF Admits

LEMMA AdmittedIsValid ==
    ASSUME NEW i \in Instances, NEW x, AreColumns(i, x), Admits(i, x)
    PROVE  /\ Validates(i, OfColumns(x)) /\ IsRoster(i, OfColumns(x))
           /\ OncePerDay(OfColumns(x)) /\ Columns(OfColumns(x)) = x
<1> DEFINE R == OfColumns(x)
<1>1. /\ Columns(R) = x /\ IsRoster(i, R) /\ AllCandidates(i, R) /\ OncePerDay(R)
  BY OfColumnsIs DEF Admits
<1> HIDE DEF R
<1>2. NoForbiddenSuccession(i, R)
  BY <1>1, SuccessionRowsAre DEF Admits
<1>3. MinCoverage(i, R)
  <2> SUFFICES ASSUME NEW k \in Covers(i) PROVE Covered(R, k) >= Minimum(i, k)
    BY DEF MinCoverage, Minimum
  <2>1. Cardinality(Assigned(x, k)) = Covered(R, k)
    BY <1>1, AssignedIs
  <2>2. {s \in Slots(i) : s.cover = k /\ IsMinimum(i, s)} = {s \in SlotsOf(i, k) : IsMinimum(i, s)}
    BY DEF SlotsOf
  <2>3. /\ Cardinality({s \in Slots(i) : s.cover = k /\ IsMinimum(i, s)}) = Minimum(i, k)
        /\ Cardinality({s \in Slots(i) : s.cover = k}) = Optimal(i, k)
    BY <2>2, SlotCounts DEF SlotsOf
  <2>4. Cardinality(Assigned(x, k)) \in Minimum(i, k) .. Optimal(i, k)
    BY <2>3 DEF Admits, CoverageRows
  <2>5. Minimum(i, k) \in Nat /\ Optimal(i, k) \in Nat
    BY InstanceFacts
  <2> QED BY <2>1, <2>4, <2>5
<1>4. SingleAssignment(i, R)
  BY <1>1, SingleIs
<1>5. Skilled(i, R)
  BY <1>1 DEF AllCandidates, Candidate, Skilled
<1>6. Validates(i, R)
  BY <1>2, <1>3, <1>4, <1>5 DEF Validates
<1> QED BY <1>1, <1>6 DEF R

-----------------------------------------------------------------------------
(* Costs are numbers.                                                       *)
IsCounter(c) ==
    /\ c.weight \in Nat /\ c.minimum \in Nat /\ c.maximum \in Nat /\ c.length \in Nat

LEMMA ClosedType ==
    ASSUME NEW c, IsCounter(c), NEW d, NEW length \in Nat
    PROVE  /\ Runs(c, d)!ClosedBoundsCost(c, length) \in Nat
           /\ Runs(c, d)!MaxBoundCost(c, length) \in Nat
           /\ Runs(c, d)!Initial(c) \in Nat
<1>1. ASSUME NEW w \in Nat, NEW a \in Nat, NEW b \in Nat, a < b
      PROVE  w * (b - a) \in Nat
  <2>1. b - a \in Nat
    BY <1>1
  <2> QED BY <2>1
<1> USE DEF IsCounter
<1>2. Runs(c, d)!MaxBoundCost(c, length) \in Nat
  BY <1>1 DEF Runs!MaxBoundCost
<1>3. Runs(c, d)!Initial(c) \in Nat
  BY DEF Runs!Initial
<1>4. Runs(c, d)!ClosedBoundsCost(c, length) \in Nat
  <2> DEFINE u == IF length < c.minimum THEN c.weight * (c.minimum - length) ELSE 0
             v == IF length > c.maximum THEN c.weight * (length - c.maximum) ELSE 0
  <2>1. u \in Nat /\ v \in Nat
    BY <1>1
  <2>2. Runs(c, d)!ClosedBoundsCost(c, length) = IF length = 0 THEN 0 ELSE u + v
    BY DEF Runs!ClosedBoundsCost
  <2> HIDE DEF u, v
  <2> QED BY <2>1, <2>2
<1> QED BY <1>2, <1>3, <1>4

LEMMA CounterType ==
    ASSUME NEW i, NEW c, IsCounter(c), NEW d, DOMAIN d = Days
    PROVE  Runs(c, d)!CostOverRuns \in Nat
<1> DEFINE M == Runs(c, d)!MaximalRuns
           f == [ij \in M |-> Runs(c, d)!RunCharge(ij)]
<1>1. IsFiniteSet(Days) /\ Days = 1 .. TotalDays /\ TotalDays \in Nat
  <2>1. TotalDays \in Nat /\ Days = 1 .. TotalDays
    BY WeeksAssumption DEF TotalDays, Days
  <2> QED BY <2>1, FS_Interval
<1>2. M \in SUBSET (Days \X Days) /\ \A ij \in M : ij[1] <= ij[2]
  BY DEF Runs!MaximalRuns
<1>3. IsFiniteSet(M)
  <2>1. IsFiniteSet(Days \X Days)
    BY <1>1, FS_Product
  <2> HIDE DEF M
  <2> QED BY <1>2, <2>1, FS_Subset
<1>4. ASSUME NEW ij \in M PROVE f[ij] \in Nat
  <2>1. ij[1] \in Nat /\ ij[2] \in Nat /\ ij[1] <= ij[2]
    <3> HIDE DEF M
    <3> QED BY <1>1, <1>2
  <2>2. ij[2] - ij[1] + 1 \in Nat
    BY <2>1
  <2> DEFINE l == Runs(c, d)!RunLength(ij)
  <2>3. Runs(c, d)!Initial(c) \in Nat
    BY ClosedType
  <2>4. l \in Nat
    BY <2>2, <2>3 DEF Runs!RunLength
  <2> HIDE DEF l
  <2>5. Runs(c, d)!ClosedBoundsCost(c, l) \in Nat /\ Runs(c, d)!MaxBoundCost(c, l) \in Nat
    BY <2>4, ClosedType
  <2>6. Runs(c, d)!RunCharge(ij) \in Nat
    BY <2>5 DEF l, Runs!RunCharge
  <2> QED BY <2>6
<1>5. SumFunctionOnSet(f, M) \in Nat
  <2> HIDE DEF f, M
  <2> QED BY <1>3, <1>4, SumType
<1>6. Runs(c, d)!ClosedBoundsCost(c, Runs(c, d)!Initial(c)) \in Nat
  BY ClosedType
<1>7. Runs(c, d)!CostOfRuns(M) = SumFunctionOnSet(f, M)
  BY Zenon DEF f, Runs!CostOfRuns, Runs!SumFunctionOnSet, Runs!FoldFunctionOnSet,
         Runs!MapThenFoldSet, SumFunctionOnSet, FoldFunctionOnSet, MapThenFoldSet
<1> HIDE DEF f, M
<1>8. Runs(c, d)!CostOverRuns
         = Runs(c, d)!CostOfRuns(M)
           + (IF d[1] THEN 0 ELSE Runs(c, d)!ClosedBoundsCost(c, Runs(c, d)!Initial(c)))
  BY DEF M, Runs!CostOverRuns
<1> QED BY <1>5, <1>6, <1>7, <1>8

WorkDays(R, n) == [d \in Days |-> Works(R, n, d)]
OffDays(R, n) == [d \in Days |-> ~ Works(R, n, d)]
TypeDays(R, n, t) == [d \in Days |-> WorksType(R, n, d, t)]
WorkCounter(i, n) ==
    Counter(i.contract[n].work, 30, i.history[n].last # NoShift,
            i.history[n].working)
OffCounter(i, n) ==
    Counter(i.contract[n].off, 30, i.history[n].last = NoShift,
            i.history[n].off)
TypeCounter(i, n, t) ==
    Counter(i.types[t], 15, i.history[n].last = t,
            i.history[n].shifts)
TypeCosts(i, R, n) ==
    [t \in DOMAIN i.types |-> Runs(TypeCounter(i, n, t), TypeDays(R, n, t))!CostOverRuns]

LEMMA RunBoundsAre ==
    ASSUME NEW i, NEW R, NEW n
    PROVE  RunBounds(i, R, n)
              = Runs(WorkCounter(i, n), WorkDays(R, n))!CostOverRuns
                + Runs(OffCounter(i, n), OffDays(R, n))!CostOverRuns
                + SumFunctionOnSet(TypeCosts(i, R, n), DOMAIN i.types)
<1>1. DOMAIN TypeCosts(i, R, n) = DOMAIN i.types
  BY DEF TypeCosts
<1>2. RunBounds(i, R, n)
         = Runs(WorkCounter(i, n), WorkDays(R, n))!CostOverRuns
           + Runs(OffCounter(i, n), OffDays(R, n))!CostOverRuns
           + SumFunction(TypeCosts(i, R, n))
  BY Zenon DEF RunBounds, WorkDays, OffDays, TypeDays, WorkCounter, OffCounter,
               TypeCounter, TypeCosts
<1>3. SumFunction(TypeCosts(i, R, n)) = SumFunctionOnSet(TypeCosts(i, R, n), DOMAIN TypeCosts(i, R, n))
  BY Zenon DEF SumFunction
<1> QED BY <1>1, <1>2, <1>3

LEMMA NurseFacts ==
    ASSUME NEW i \in Instances, NEW n \in Nurses(i)
    PROVE  /\ i.contract[n].work \in Nat \X Nat
           /\ i.contract[n].off \in Nat \X Nat
           /\ i.contract[n].minimum \in Nat /\ i.contract[n].maximum \in Nat
           /\ i.contract[n].weekends \in Nat
           /\ i.contract[n].minimum <= i.contract[n].maximum
           /\ i.history[n].assignments \in Nat /\ i.history[n].weekends \in Nat
           /\ i.history[n].shifts \in Nat /\ i.history[n].working \in Nat
           /\ i.history[n].off \in Nat
           /\ IsFiniteSet(DOMAIN i.types)
           /\ \A t \in DOMAIN i.types : i.types[t] \in Nat \X Nat
<1>1. WellFormed(i)
  BY InstancesAssumption, Zenon
<1> QED BY <1>1 DEF WellFormed, Nurses

LEMMA RunBoundsType ==
    ASSUME NEW i \in Instances, NEW R, NEW n \in Nurses(i)
    PROVE  RunBounds(i, R, n) \in Nat
<1>1. IsCounter(WorkCounter(i, n)) /\ IsCounter(OffCounter(i, n))
  BY NurseFacts DEF IsCounter, WorkCounter, OffCounter, Counter
<1>2. \A t \in DOMAIN i.types : IsCounter(TypeCounter(i, n, t))
  BY NurseFacts DEF IsCounter, TypeCounter, Counter
<1>3. /\ DOMAIN WorkDays(R, n) = Days /\ DOMAIN OffDays(R, n) = Days
      /\ \A t : DOMAIN TypeDays(R, n, t) = Days
  BY DEF WorkDays, OffDays, TypeDays
<1>4. Runs(WorkCounter(i, n), WorkDays(R, n))!CostOverRuns \in Nat
  BY <1>1, <1>3, CounterType
<1>5. Runs(OffCounter(i, n), OffDays(R, n))!CostOverRuns \in Nat
  BY <1>1, <1>3, CounterType
<1>6. \A t \in DOMAIN i.types :
         Runs(TypeCounter(i, n, t), TypeDays(R, n, t))!CostOverRuns \in Nat
  BY <1>2, <1>3, CounterType
<1>7. \A t \in DOMAIN i.types : TypeCosts(i, R, n)[t] \in Nat
  BY <1>6 DEF TypeCosts
<1>8. SumFunctionOnSet(TypeCosts(i, R, n), DOMAIN i.types) \in Nat
  BY <1>7, NurseFacts, SumType
<1> QED BY <1>4, <1>5, <1>8, RunBoundsAre

(* Only the days a nurse works count, and which type of shift.              *)
LEMMA RunBoundsSame ==
    ASSUME NEW i, NEW R, NEW Q, NEW n,
           \A d : Works(R, n, d) <=> Works(Q, n, d),
           \A d, t : WorksType(R, n, d, t) <=> WorksType(Q, n, d, t)
    PROVE  RunBounds(i, R, n) = RunBounds(i, Q, n)
<1>1. WorkDays(R, n) = WorkDays(Q, n) /\ OffDays(R, n) = OffDays(Q, n)
  BY DEF WorkDays, OffDays, Works
<1>2. \A t : TypeDays(R, n, t) = TypeDays(Q, n, t)
  BY DEF TypeDays, WorksType
<1>3. TypeCosts(i, R, n) = TypeCosts(i, Q, n)
  BY <1>2 DEF TypeCosts
<1> QED BY <1>1, <1>3, RunBoundsAre

-----------------------------------------------------------------------------
(* The days a nurse works are her entries, her columns and her slots.       *)
Own(R, n) == {a \in R : a[1] = n}
WorkedDays(R, n) == {d \in Days : Works(R, n, d)}

LEMMA DaysAreEntries ==
    ASSUME NEW i \in Instances, NEW R, IsRoster(i, R), OncePerDay(R), NEW n
    PROVE  /\ IsFiniteSet(Own(R, n))
           /\ Cardinality(WorkedDays(R, n)) = Cardinality(Own(R, n))
           /\ Cardinality(Mine(Columns(R), n)) = Cardinality(Own(R, n))
           /\ Cardinality(Own(R, n)) \in Nat
<1> DEFINE S == Own(R, n)
<1>1. IsFiniteSet(S) /\ S \in SUBSET R
  BY FS_Subset DEF IsRoster, Own
<1>2. Cardinality(S) \in Nat
  BY <1>1, FS_CardinalityType
<1>3. Cardinality(WorkedDays(R, n)) = Cardinality(S)
  <2> DEFINE h == [a \in S |-> a[2][3]]
             T == WorkedDays(R, n)
  <2>1. \A a \in S : h[a] = a[2][3] /\ a \in R /\ a[1] = n
    BY DEF Own
  <2>2. \A a \in S : h[a] \in T
    <3> SUFFICES ASSUME NEW a \in S PROVE a[2][3] \in T
      BY <2>1
    <3>1. a[2][3] \in Days
      BY <2>1, InstanceFacts DEF IsRoster
    <3>2. Works(R, n, a[2][3])
      BY <2>1 DEF Works, Entries
    <3> QED BY <3>1, <3>2 DEF WorkedDays
  <2>3. h = [a \in S |-> h[a]]
    OBVIOUS
  <2> HIDE DEF h
  <2>4. \A a, b \in S : h[a] = h[b] => a = b
    BY <2>1 DEF OncePerDay
  <2>5. \A d \in T : \E a \in S : h[a] = d
    <3> SUFFICES ASSUME NEW d \in T PROVE \E a \in S : h[a] = d
      OBVIOUS
    <3>1. PICK a \in R : a[1] = n /\ a[2][3] = d
      BY DEF WorkedDays, Works, Entries
    <3>2. a \in S
      BY <3>1 DEF Own
    <3> QED BY <2>1, <3>1, <3>2
  <2> HIDE DEF S, T
  <2>6. Matches(h, S, T)
    BY <2>2, <2>3, <2>4, <2>5 DEF Matches, Places
  <2> QED BY <1>1, <2>6, SameCount DEF T
<1>4. Cardinality(Mine(Columns(R), n)) = Cardinality(S)
  <2> DEFINE T == Mine(Columns(R), n)
  <2>1. ASSUME NEW c, c \in T PROVE \E a \in S : c = ColumnOf(a)
    <3>1. c \in Columns(R) /\ c[2] = n
      BY <2>1 DEF Mine
    <3>2. PICK a \in R : c = ColumnOf(a) /\ c[2] = a[1]
      BY <3>1, ColumnsHave
    <3>3. a \in S
      BY <3>1, <3>2 DEF Own
    <3> QED BY <3>2, <3>3
  <2>2. ASSUME NEW a \in S PROVE ColumnOf(a) \in T
    <3>1. a \in R /\ a[1] = n
      BY DEF Own
    <3> QED BY <3>1, ColumnsHave, ColumnIs DEF Mine
  <2>3. \A c : c \in T <=> \E a \in S : c = ColumnOf(a)
    BY <2>1, <2>2
  <2>4. IsFiniteSet(R)
    BY DEF IsRoster
  <2> HIDE DEF S, T
  <2> QED BY <1>1, <2>3, <2>4, ColumnsAreEntries DEF T
<1> QED BY <1>1, <1>2, <1>3, <1>4

LEMMA PositiveType == ASSUME NEW i, NEW z \in Int PROVE Positive(z) \in Nat
BY DEF Positive

(* The terms of the validator's breakdown.                                  *)
CoverCosts(i, R) == [k \in Covers(i) |-> 30 * Positive(Optimal(i, k) - Covered(R, k))]
NurseCosts(i, R) ==
    [n \in Nurses(i) |-> TotalAssignmentBounds(i, R, n) + RunBounds(i, R, n)
                      + WorkingWeekends(i, R, n) + CompleteWeekends(i, R, n)]
AskedOff(i, R) ==
    {r \in DOMAIN i.requests :
        \E a \in R : Asked(i.requests[r], a[1], a[2])}

LEMMA BreakdownIs ==
    ASSUME NEW i, NEW R
    PROVE  Breakdown(i, R) = SumFunctionOnSet(CoverCosts(i, R), Covers(i))
                          + 10 * Cardinality(AskedOff(i, R))
                          + SumFunctionOnSet(NurseCosts(i, R), Nurses(i))
<1>1. DOMAIN CoverCosts(i, R) = Covers(i) /\ DOMAIN NurseCosts(i, R) = Nurses(i)
  BY DEF CoverCosts, NurseCosts
<1>2. Breakdown(i, R) = SumFunction(CoverCosts(i, R)) + 10 * Cardinality(AskedOff(i, R))
                     + SumFunction(NurseCosts(i, R))
  BY Zenon DEF Breakdown, OptimalCoverage, ShiftOffRequests, CoverCosts, NurseCosts,
               AskedOff, Optimal
<1>3. /\ SumFunction(CoverCosts(i, R)) = SumFunctionOnSet(CoverCosts(i, R), DOMAIN CoverCosts(i, R))
      /\ SumFunction(NurseCosts(i, R)) = SumFunctionOnSet(NurseCosts(i, R), DOMAIN NurseCosts(i, R))
  BY Zenon DEF SumFunction
<1> QED BY <1>1, <1>2, <1>3

LEMMA WeekendFacts ==
    ASSUME NEW R, NEW n
    PROVE  /\ IsFiniteSet(Weekends(R, n)) /\ Cardinality(Weekends(R, n)) \in Nat
           /\ Cardinality({w \in 1 .. Weeks : Works(R, n, Saturday(w))
                                              # Works(R, n, Sunday(w))}) \in Nat
<1>1. IsFiniteSet(1 .. Weeks)
  BY WeeksAssumption, FS_Interval
<1>2. IsFiniteSet(Weekends(R, n))
  BY <1>1, FS_Subset DEF Weekends
<1>3. IsFiniteSet({w \in 1 .. Weeks : Works(R, n, Saturday(w)) # Works(R, n, Sunday(w))})
  BY <1>1, FS_Subset
<1> QED BY <1>2, <1>3, FS_CardinalityType

LEMMA BreakdownTerms ==
    ASSUME NEW i \in Instances, NEW R, IsRoster(i, R)
    PROVE  /\ \A k \in Covers(i) : Covered(R, k) \in Nat /\ CoverCosts(i, R)[k] \in Nat
           /\ \A n \in Nurses(i) : NurseCosts(i, R)[n] \in Nat
           /\ IsFiniteSet(AskedOff(i, R)) /\ Cardinality(AskedOff(i, R)) \in Nat
           /\ Breakdown(i, R) \in Nat
<1>1. ASSUME NEW k \in Covers(i) PROVE Covered(R, k) \in Nat /\ CoverCosts(i, R)[k] \in Nat
  <2>1. IsFiniteSet({a \in R : a[2] = k})
    BY FS_Subset DEF IsRoster
  <2>2. Covered(R, k) \in Nat
    BY <2>1, FS_CardinalityType DEF Covered
  <2>3. Positive(Optimal(i, k) - Covered(R, k)) \in Nat
    BY <2>2, InstanceFacts, PositiveType
  <2> QED BY <2>2, <2>3 DEF CoverCosts
<1>2. ASSUME NEW n \in Nurses(i) PROVE NurseCosts(i, R)[n] \in Nat
  <2>1. TotalAssignmentBounds(i, R, n) \in Nat
    <3> DEFINE total == Cardinality(WorkedDays(R, n)) + i.history[n].assignments
               u == Positive(i.contract[n].minimum - total)
               v == Positive(total - i.contract[n].maximum)
    <3>1. Cardinality(WorkedDays(R, n)) \in Nat
      BY InstanceFacts, FS_Subset, FS_CardinalityType DEF WorkedDays
    <3>2. total \in Nat
      BY <3>1, NurseFacts
    <3> HIDE DEF total
    <3>3. u \in Nat /\ v \in Nat
      BY <3>2, NurseFacts, PositiveType
    <3>4. TotalAssignmentBounds(i, R, n) = 20 * (u + v)
      BY DEF TotalAssignmentBounds, total, WorkedDays
    <3> HIDE DEF u, v
    <3> QED BY <3>3, <3>4
  <2>2. WorkingWeekends(i, R, n) \in Nat
    <3> DEFINE over == i.history[n].weekends + Cardinality(Weekends(R, n))
                       - i.contract[n].weekends
    <3>1. over \in Int
      <4>1. Cardinality(Weekends(R, n)) \in Nat
        BY WeekendFacts
      <4>2. i.history[n].weekends \in Nat /\ i.contract[n].weekends \in Nat
        BY NurseFacts
      <4> QED BY <4>1, <4>2
    <3>2. Positive(over) \in Nat
      BY <3>1, PositiveType
    <3> QED BY <3>2 DEF WorkingWeekends
  <2>3. CompleteWeekends(i, R, n) \in Nat
    BY WeekendFacts DEF CompleteWeekends
  <2>4. RunBounds(i, R, n) \in Nat
    BY RunBoundsType
  <2> QED BY <2>1, <2>2, <2>3, <2>4 DEF NurseCosts
<1>3. IsFiniteSet(AskedOff(i, R))
  BY InstanceFacts, FS_Subset DEF AskedOff
<1>4. Cardinality(AskedOff(i, R)) \in Nat
  BY <1>3, FS_CardinalityType
<1>5. /\ SumFunctionOnSet(CoverCosts(i, R), Covers(i)) \in Nat
      /\ SumFunctionOnSet(NurseCosts(i, R), Nurses(i)) \in Nat
  BY <1>1, <1>2, InstanceFacts, SumType
<1>6. Breakdown(i, R) \in Nat
  BY <1>4, <1>5, BreakdownIs
<1> QED BY <1>1, <1>2, <1>3, <1>4, <1>6

-----------------------------------------------------------------------------
(* A request names a nurse and a day, so one entry at most goes against it. *)
AskedBy(i, n, k) == {r \in DOMAIN i.requests : Asked(i.requests[r], n, k)}

LEMMA AskedOnce ==
    ASSUME NEW i, NEW R, OncePerDay(R), NEW a \in R, NEW b \in R,
           NEW r, r \in AskedBy(i, a[1], a[2]), r \in AskedBy(i, b[1], b[2])
    PROVE  a = b
<1>1. a[1] = b[1] /\ a[2][3] = b[2][3]
  BY DEF AskedBy, Asked
<1> QED BY <1>1 DEF OncePerDay

LEMMA AskedByType ==
    ASSUME NEW i \in Instances, NEW n, NEW k
    PROVE  IsFiniteSet(AskedBy(i, n, k)) /\ Cardinality(AskedBy(i, n, k)) \in Nat
<1>1. IsFiniteSet(AskedBy(i, n, k))
  BY InstanceFacts, FS_Subset DEF AskedBy
<1> QED BY <1>1, FS_CardinalityType

LEMMA ColumnRequests ==
    ASSUME NEW i \in Instances, NEW R, IsRoster(i, R), OncePerDay(R), NEW x, x = Columns(R)
    PROVE  /\ IsFiniteSet(x)
           /\ SumFunction([c \in x |-> 10 * RequestCount(i, c)]) = 10 * Cardinality(AskedOff(i, R))
<1> DEFINE F == [c \in x |-> 10 * RequestCount(i, c)]
           B == [c \in x |-> AskedBy(i, c[2], c[1])]
<1>1. \A c \in x : F[c] = 10 * Cardinality(AskedBy(i, c[2], c[1])) /\ B[c] = AskedBy(i, c[2], c[1])
  BY DEF RequestCount, AskedBy
<1>2. DOMAIN F = x
  OBVIOUS
<1> HIDE DEF F, B
<1>3. IsFiniteSet(x)
  <2>1. \A c : c \in x <=> \E a \in R : c = ColumnOf(a)
    BY ColumnsHave
  <2> QED BY <2>1, ColumnsAreEntries DEF IsRoster
<1>4. \A c \in x : IsFiniteSet(B[c]) /\ F[c] = 10 * Cardinality(B[c])
  BY <1>1, AskedByType
<1>5. ASSUME NEW c \in x, NEW e \in x, NEW r \in B[c], r \in B[e] PROVE c = e
  <2>1. PICK a \in R : c = ColumnOf(a) /\ c[1] = a[2] /\ c[2] = a[1]
    BY ColumnsHave
  <2>2. PICK b \in R : e = ColumnOf(b) /\ e[1] = b[2] /\ e[2] = b[1]
    BY ColumnsHave
  <2>3. r \in AskedBy(i, a[1], a[2]) /\ r \in AskedBy(i, b[1], b[2])
    BY <1>1, <1>5, <2>1, <2>2
  <2>4. a = b
    BY <2>3, AskedOnce
  <2> QED BY <2>1, <2>2, <2>4
<1>6. \A c, e \in x : c # e => B[c] \cap B[e] = {}
  BY <1>5
<1>7. Blocks(B, x) = AskedOff(i, R)
  <2>1. ASSUME NEW c \in x, NEW r \in B[c] PROVE r \in AskedOff(i, R)
    <3>1. PICK a \in R : c[1] = a[2] /\ c[2] = a[1]
      BY ColumnsHave
    <3> QED BY <1>1, <3>1 DEF AskedBy, AskedOff
  <2>2. ASSUME NEW r \in AskedOff(i, R) PROVE \E c \in x : r \in B[c]
    <3>1. PICK a \in R : r \in AskedBy(i, a[1], a[2])
      BY DEF AskedOff, AskedBy
    <3>2. ColumnOf(a) \in x /\ ColumnOf(a)[1] = a[2] /\ ColumnOf(a)[2] = a[1]
      BY ColumnsHave, ColumnIs
    <3> QED BY <1>1, <3>1, <3>2
  <2> QED BY <2>1, <2>2 DEF Blocks
<1>8. SumFunctionOnSet(F, x) = 10 * Cardinality(Blocks(B, x))
  BY <1>3, <1>4, <1>6, WeighedBlocks
<1>9. SumFunction(F) = SumFunctionOnSet(F, DOMAIN F)
  BY Zenon DEF SumFunction
<1> QED BY <1>2, <1>3, <1>7, <1>8, <1>9 DEF F

LEMMA SlotRequests ==
    ASSUME NEW i \in Instances, NEW p, IsPlan(i, p), OncePerDay(Roster(i, p))
    PROVE  SumFunction([s \in Filled(i, p) |-> ShiftOffCost(i, p, s)])
              = 10 * Cardinality(AskedOff(i, Roster(i, p)))
<1> DEFINE S == Filled(i, p)
           R == Roster(i, p)
           F == [s \in S |-> ShiftOffCost(i, p, s)]
           B == [s \in S |-> AskedBy(i, p[s], s.cover)]
<1>1. \A s \in S : /\ F[s] = 10 * Cardinality(AskedBy(i, p[s], s.cover))
                   /\ B[s] = AskedBy(i, p[s], s.cover)
  BY DEF ShiftOffCost, AskedBy
<1>2. DOMAIN F = S /\ IsFiniteSet(S)
  BY PlanFacts
<1>3. /\ \A s \in S : EntryOf(p, s) \in R
      /\ \A s \in S : EntryOf(p, s)[1] = p[s] /\ EntryOf(p, s)[2] = s.cover
      /\ \A a \in R : \E s \in S : a[1] = p[s] /\ a[2] = s.cover
  BY EntriesAreSlots, EntryIs
<1>4. \A s, t \in S : EntryOf(p, s) = EntryOf(p, t) => s = t
  BY EntryTells DEF Filled
<1> HIDE DEF F, B, S, R
<1>5. \A s \in S : IsFiniteSet(B[s]) /\ F[s] = 10 * Cardinality(B[s])
  BY <1>1, AskedByType
<1>6. ASSUME NEW s \in S, NEW t \in S, NEW r \in B[s], r \in B[t] PROVE s = t
  <2> DEFINE a == EntryOf(p, s)
             b == EntryOf(p, t)
  <2>1. a \in R /\ b \in R /\ r \in AskedBy(i, a[1], a[2]) /\ r \in AskedBy(i, b[1], b[2])
    BY <1>1, <1>3, <1>6
  <2> HIDE DEF a, b
  <2>2. a = b
    BY <2>1, AskedOnce DEF R
  <2> QED BY <1>4, <2>2 DEF a, b
<1>7. \A s, t \in S : s # t => B[s] \cap B[t] = {}
  BY <1>6
<1>8. Blocks(B, S) = AskedOff(i, R)
  <2>1. ASSUME NEW s \in S, NEW r \in B[s] PROVE r \in AskedOff(i, R)
    BY <1>1, <1>3 DEF AskedBy, AskedOff
  <2>2. ASSUME NEW r \in AskedOff(i, R) PROVE \E s \in S : r \in B[s]
    <3>1. PICK a \in R : r \in AskedBy(i, a[1], a[2])
      BY DEF AskedOff, AskedBy
    <3>2. PICK s \in S : a[1] = p[s] /\ a[2] = s.cover
      BY <1>3
    <3> QED BY <1>1, <3>1, <3>2
  <2> QED BY <2>1, <2>2 DEF Blocks
<1>9. SumFunctionOnSet(F, S) = 10 * Cardinality(Blocks(B, S))
  BY <1>2, <1>5, <1>7, WeighedBlocks
<1>10. SumFunction(F) = SumFunctionOnSet(F, DOMAIN F)
  BY Zenon DEF SumFunction
<1> QED BY <1>2, <1>8, <1>9, <1>10 DEF F, R, S

-----------------------------------------------------------------------------
(* The terms of the models' objective are the validator's.                  *)
RowCosts(i, x) ==
    [n \in Nurses(i) |-> 20 * (Under(i, x, n) + Over(i, x, n)) + RunBounds(i, OfColumns(x), n)
                      + 30 * (OverWeekends(i, x, n) + Cardinality(Incomplete(i, x, n)))]
UncoveredCosts(i, x) == [k \in Covers(i) |-> 30 * Uncovered(i, x, k)]

LEMMA ObjectiveIs ==
    ASSUME NEW i, NEW x
    PROVE  Objective(i, x) = SumFunctionOnSet(UncoveredCosts(i, x), Covers(i))
                          + SumFunction([c \in x |-> 10 * RequestCount(i, c)])
                          + SumFunctionOnSet(RowCosts(i, x), Nurses(i))
<1>1. DOMAIN UncoveredCosts(i, x) = Covers(i) /\ DOMAIN RowCosts(i, x) = Nurses(i)
  BY DEF UncoveredCosts, RowCosts
<1>2. Objective(i, x) = SumFunction(UncoveredCosts(i, x))
                     + SumFunction([c \in x |-> 10 * RequestCount(i, c)])
                     + SumFunction(RowCosts(i, x))
  BY Zenon DEF Objective, UncoveredCosts, RowCosts
<1>3. /\ SumFunction(UncoveredCosts(i, x))
            = SumFunctionOnSet(UncoveredCosts(i, x), DOMAIN UncoveredCosts(i, x))
      /\ SumFunction(RowCosts(i, x)) = SumFunctionOnSet(RowCosts(i, x), DOMAIN RowCosts(i, x))
  BY Zenon DEF SumFunction
<1> QED BY <1>1, <1>2, <1>3

(* The columns keep the days worked and the shift types.                    *)
LEMMA ColumnsKeepDays ==
    ASSUME NEW i, NEW R, NEW n
    PROVE  RunBounds(i, OfColumns(Columns(R)), n) = RunBounds(i, R, n)
<1> DEFINE Q == OfColumns(Columns(R))
<1>1. \A c \in Columns(R) : <<c[2], c[1], 0>> \in Q
  BY DEF OfColumns
<1>2. \A a \in Q : \E c \in Columns(R) : a[1] = c[2] /\ a[2] = c[1]
  BY DEF OfColumns
<1> HIDE DEF Q
<1>3. \A a \in Q : \E b \in R : a[1] = b[1] /\ a[2] = b[2]
  BY <1>2, ColumnsHave
<1>4. \A b \in R : \E a \in Q : a[1] = b[1] /\ a[2] = b[2]
  <2> SUFFICES ASSUME NEW b \in R PROVE \E a \in Q : a[1] = b[1] /\ a[2] = b[2]
    OBVIOUS
  <2>1. /\ ColumnOf(b) \in Columns(R)
        /\ ColumnOf(b)[1] = b[2] /\ ColumnOf(b)[2] = b[1]
    BY ColumnsHave, ColumnIs
  <2> QED BY <1>1, <2>1
<1>5. \A d : Works(Q, n, d) <=> Works(R, n, d)
  BY <1>3, <1>4 DEF Works, Entries
<1>6. \A d, t : WorksType(Q, n, d, t) <=> WorksType(R, n, d, t)
  BY <1>3, <1>4 DEF WorksType, Entries
<1> QED BY <1>5, <1>6, RunBoundsSame DEF Q

LEMMA BoundsAgree ==
    ASSUME NEW i \in Instances, NEW R, IsRoster(i, R), OncePerDay(R), NEW n \in Nurses(i)
    PROVE  TotalAssignmentBounds(i, R, n)
              = 20 * (Under(i, Columns(R), n) + Over(i, Columns(R), n))
<1> DEFINE w == Cardinality(Own(R, n))
           lo == i.contract[n].minimum
           hi == i.contract[n].maximum
           h == i.history[n].assignments
<1>1. w \in Nat /\ lo \in Nat /\ hi \in Nat /\ h \in Nat
  BY DaysAreEntries, NurseFacts
<1>2. TotalAssignmentBounds(i, R, n)
         = 20 * (Positive(lo - (w + h)) + Positive((w + h) - hi))
  BY DaysAreEntries DEF TotalAssignmentBounds, WorkedDays
<1>3. /\ Under(i, Columns(R), n) = Positive(lo - h - w)
      /\ Over(i, Columns(R), n) = Positive(w - (hi - h))
  BY DaysAreEntries DEF Under, Over
<1> HIDE DEF w, lo, hi, h
<1>4. lo - (w + h) = lo - h - w /\ (w + h) - hi = w - (hi - h)
  BY <1>1
<1> QED BY <1>2, <1>3, <1>4, Zenon

LEMMA WeekendsAgree ==
    ASSUME NEW i \in Instances, NEW R, NEW n \in Nurses(i)
    PROVE  /\ WorkingWeekends(i, R, n) = 30 * OverWeekends(i, Columns(R), n)
           /\ CompleteWeekends(i, R, n) = 30 * Cardinality(Incomplete(i, Columns(R), n))
           /\ OverWeekends(i, Columns(R), n) \in Nat
           /\ Cardinality(Incomplete(i, Columns(R), n)) \in Nat
<1> DEFINE x == Columns(R)
           v == Cardinality(Weekends(R, n))
           most == i.contract[n].weekends
           h == i.history[n].weekends
<1>0. \A d : At(x, n, d) = {} <=> ~ Works(R, n, d)
  BY AtIs
<1>1. v \in Nat /\ most \in Nat /\ h \in Nat
  BY WeekendFacts, NurseFacts
<1>2. {w \in 1 .. Weeks : At(x, n, Saturday(w)) \cup At(x, n, Sunday(w)) # {}}
         = Weekends(R, n)
  BY <1>0 DEF Weekends
<1>3. {w \in 1 .. Weeks : (At(x, n, Saturday(w)) = {}) # (At(x, n, Sunday(w)) = {})}
         = {w \in 1 .. Weeks : Works(R, n, Saturday(w)) # Works(R, n, Sunday(w))}
  BY <1>0 DEF Works
<1>4. WorkingWeekends(i, R, n) = 30 * Positive(h + v - most)
  BY DEF WorkingWeekends
<1>5. OverWeekends(i, x, n) = Positive(v - (most - h))
  BY <1>2 DEF OverWeekends
<1>6. CompleteWeekends(i, R, n) = 30 * Cardinality(Incomplete(i, x, n))
      /\ Cardinality(Incomplete(i, x, n)) \in Nat
  <2>1. CASE i.contract[n].complete
    <3>1. Incomplete(i, x, n)
             = {w \in 1 .. Weeks : Works(R, n, Saturday(w)) # Works(R, n, Sunday(w))}
      BY <1>3, <2>1 DEF Incomplete
    <3>2. Cardinality(Incomplete(i, x, n)) \in Nat
      BY <3>1, WeekendFacts
    <3> QED BY <2>1, <3>1, <3>2 DEF CompleteWeekends
  <2>2. CASE ~ i.contract[n].complete
    <3>1. Cardinality(Incomplete(i, x, n)) = 0
      BY <2>2, FS_EmptySet DEF Incomplete
    <3> QED BY <2>2, <3>1 DEF CompleteWeekends
  <2> QED BY <2>1, <2>2
<1> HIDE DEF v, most, h, x
<1>7. h + v - most = v - (most - h) /\ v - (most - h) \in Int
  BY <1>1
<1>8. OverWeekends(i, x, n) \in Nat
  BY <1>5, <1>7, PositiveType
<1> QED BY <1>4, <1>5, <1>6, <1>7, <1>8 DEF x

LEMMA RowCostsAre ==
    ASSUME NEW i \in Instances, NEW R, IsRoster(i, R), OncePerDay(R), NEW n \in Nurses(i)
    PROVE  RowCosts(i, Columns(R))[n] = NurseCosts(i, R)[n]
<1> DEFINE x == Columns(R)
           a == TotalAssignmentBounds(i, R, n)
           b == RunBounds(i, R, n)
           c == OverWeekends(i, x, n)
           d == Cardinality(Incomplete(i, x, n))
<1>1. a = 20 * (Under(i, x, n) + Over(i, x, n)) /\ RunBounds(i, OfColumns(x), n) = b
  BY BoundsAgree, ColumnsKeepDays
<1>2. /\ WorkingWeekends(i, R, n) = 30 * c /\ CompleteWeekends(i, R, n) = 30 * d
      /\ c \in Nat /\ d \in Nat
  BY WeekendsAgree
<1>3. NurseCosts(i, R)[n] = a + b + 30 * c + 30 * d
  BY <1>2 DEF NurseCosts
<1>4. RowCosts(i, x)[n] = a + b + 30 * (c + d)
  BY <1>1 DEF RowCosts
<1>5. a \in Nat /\ b \in Nat
  <2>1. b \in Nat
    BY RunBoundsType
  <2>2. a \in Nat
    <3>1. Cardinality(Mine(x, n)) \in Nat
      BY DaysAreEntries
    <3> DEFINE u == i.contract[n].minimum - i.history[n].assignments
                    - Cardinality(Mine(x, n))
               o == Cardinality(Mine(x, n)) - (i.contract[n].maximum
                                               - i.history[n].assignments)
    <3>2. u \in Int /\ o \in Int
      BY <3>1, NurseFacts
    <3>3. Under(i, x, n) = Positive(u) /\ Over(i, x, n) = Positive(o)
      BY DEF Under, Over
    <3> HIDE DEF u, o
    <3>4. Under(i, x, n) \in Nat /\ Over(i, x, n) \in Nat
      BY <3>2, <3>3, PositiveType
    <3> QED BY <1>1, <3>4
  <2> QED BY <2>1, <2>2
<1> HIDE DEF a, b, c, d
<1>6. a + b + 30 * (c + d) = a + b + 30 * c + 30 * d
  BY <1>2, <1>5
<1> QED BY <1>3, <1>4, <1>6 DEF x

LEMMA ObjectiveIsBreakdown ==
    ASSUME NEW i \in Instances, NEW R, IsRoster(i, R), OncePerDay(R),
           \A k \in Covers(i) : Covered(R, k) <= Optimal(i, k)
    PROVE  Objective(i, Columns(R)) = Breakdown(i, R)
<1> DEFINE x == Columns(R)
<1>1. ASSUME NEW k \in Covers(i) PROVE UncoveredCosts(i, x)[k] = CoverCosts(i, R)[k]
  <2> DEFINE o == Optimal(i, k)
             c == Covered(R, k)
  <2>1. o \in Nat /\ c \in Nat /\ c <= o
    BY InstanceFacts, BreakdownTerms
  <2>2. Uncovered(i, x, k) = o - c
    BY SlotCounts, AssignedIs DEF Uncovered, SlotsOf
  <2>3. /\ UncoveredCosts(i, x)[k] = 30 * Uncovered(i, x, k)
        /\ CoverCosts(i, R)[k] = 30 * Positive(o - c)
    BY DEF UncoveredCosts, CoverCosts
  <2> HIDE DEF o, c
  <2>4. Positive(o - c) = o - c
    BY <2>1 DEF Positive
  <2> QED BY <2>2, <2>3, <2>4
<1>2. SumFunctionOnSet(CoverCosts(i, R), Covers(i)) = SumFunctionOnSet(UncoveredCosts(i, x), Covers(i))
  <2>1. \A k \in Covers(i) : CoverCosts(i, R)[k] \in Nat /\ CoverCosts(i, R)[k] = UncoveredCosts(i, x)[k]
    BY <1>1, BreakdownTerms
  <2> HIDE DEF x
  <2> QED BY <2>1, InstanceFacts, SumOfSame
<1>3. SumFunctionOnSet(NurseCosts(i, R), Nurses(i)) = SumFunctionOnSet(RowCosts(i, x), Nurses(i))
  <2>1. \A n \in Nurses(i) : NurseCosts(i, R)[n] \in Nat /\ NurseCosts(i, R)[n] = RowCosts(i, x)[n]
    BY RowCostsAre, BreakdownTerms
  <2> HIDE DEF x
  <2> QED BY <2>1, InstanceFacts, SumOfSame
<1>4. SumFunction([c \in x |-> 10 * RequestCount(i, c)]) = 10 * Cardinality(AskedOff(i, R))
  BY ColumnRequests
<1> HIDE DEF x
<1> QED BY <1>2, <1>3, <1>4, ObjectiveIs, BreakdownIs DEF x

-----------------------------------------------------------------------------
(* The engine's score on slots is the validator's breakdown.                *)
SlotCosts(i, p) ==
    [n \in Nurses(i) |-> UnassignedCost(i, n) + RunBounds(i, Roster(i, p), n)
                      + (IF Presence(i, p, n) = {} THEN 0 ELSE NurseDelta(i, p, n))]
Open(i, p, k) == {s \in SlotsOf(i, k) : p[s] = NoNurse}

LEMMA SoftScoreSum ==
    ASSUME NEW i, NEW p
    PROVE  SoftScore(i, p) = 30 * Cardinality(OptimalSlots(i, p))
                          + SumFunction([s \in Filled(i, p) |-> ShiftOffCost(i, p, s)])
                          + SumFunctionOnSet(SlotCosts(i, p), Nurses(i))
<1>1. DOMAIN SlotCosts(i, p) = Nurses(i)
  BY DEF SlotCosts
<1>2. SoftScore(i, p) = 30 * Cardinality(OptimalSlots(i, p))
                     + SumFunction([s \in Filled(i, p) |-> ShiftOffCost(i, p, s)])
                     + SumFunction(SlotCosts(i, p))
  BY Zenon DEF SoftScore, SlotCosts, Filled
<1>3. SumFunction(SlotCosts(i, p)) = SumFunctionOnSet(SlotCosts(i, p), DOMAIN SlotCosts(i, p))
  BY Zenon DEF SumFunction
<1> QED BY <1>1, <1>2, <1>3

LEMMA OpenCount ==
    ASSUME NEW i \in Instances, NEW p, IsPlan(i, p), NEW k \in Covers(i)
    PROVE  /\ IsFiniteSet(Open(i, p, k))
           /\ Cardinality(Open(i, p, k)) = Optimal(i, k) - Covered(Roster(i, p), k)
<1> DEFINE S == SlotsOf(i, k)
           F == {s \in SlotsOf(i, k) : p[s] # NoNurse}
           O == Open(i, p, k)
<1>1. IsFiniteSet(S) /\ Cardinality(S) = Optimal(i, k)
  BY SlotCounts
<1>2. IsFiniteSet(F) /\ Covered(Roster(i, p), k) = Cardinality(F)
  BY CoveredIs
<1>3. O \subseteq S /\ F \cup O = S /\ F \cap O = {}
  BY DEF Open
<1> HIDE DEF S, F, O
<1>4. IsFiniteSet(O)
  BY <1>1, <1>3, FS_Subset
<1>5. Cardinality(F \cup O) = Cardinality(F) + Cardinality(O) - Cardinality(F \cap O)
  BY <1>2, <1>4, FS_Union
<1>6. Cardinality(F \cap O) = 0
  BY <1>3, FS_EmptySet
<1>7. Cardinality(F) \in Nat /\ Cardinality(O) \in Nat
  BY <1>2, <1>4, FS_CardinalityType
<1>8. Optimal(i, k) = Cardinality(F) + Cardinality(O)
  <2>1. Cardinality(F \cup O) = Cardinality(F) + Cardinality(O)
    BY <1>5, <1>6, <1>7
  <2> QED BY <1>1, <1>3, <2>1, Zenon
<1>9. Cardinality(O) = Optimal(i, k) - Cardinality(F)
  BY <1>7, <1>8
<1> QED BY <1>2, <1>4, <1>9 DEF O

LEMMA OpenSlotsCost ==
    ASSUME NEW i \in Instances, NEW p, IsPlan(i, p), Required(i, p) = {}
    PROVE  SumFunctionOnSet(CoverCosts(i, Roster(i, p)), Covers(i))
              = 30 * Cardinality(OptimalSlots(i, p))
<1> DEFINE F == CoverCosts(i, Roster(i, p))
           B == [k \in Covers(i) |-> Open(i, p, k)]
<1>1. ASSUME NEW k \in Covers(i)
      PROVE  IsFiniteSet(B[k]) /\ F[k] = 30 * Cardinality(B[k])
  <2> DEFINE o == Optimal(i, k)
             c == Covered(Roster(i, p), k)
  <2>1. B[k] = Open(i, p, k)
    OBVIOUS
  <2>2. IsFiniteSet(Open(i, p, k)) /\ Cardinality(Open(i, p, k)) = o - c
    BY OpenCount
  <2>3. o \in Nat /\ c \in 0 .. o
    BY InstanceFacts, CoveredIs
  <2>4. F[k] = 30 * Positive(o - c)
    BY DEF CoverCosts
  <2> HIDE DEF o, c, F, B
  <2>5. Positive(o - c) = o - c
    BY <2>3 DEF Positive
  <2> QED BY <2>1, <2>2, <2>4, <2>5
<1>2. \A k, l \in Covers(i) : k # l => B[k] \cap B[l] = {}
  BY DEF Open, SlotsOf
<1>3. Blocks(B, Covers(i)) = OptimalSlots(i, p)
  <2>1. \A s : s \in Blocks(B, Covers(i)) <=> \E k \in Covers(i) : s \in Open(i, p, k)
    BY DEF Blocks
  <2>2. \A s : (\E k \in Covers(i) : s \in Open(i, p, k)) <=> s \in Slots(i) /\ p[s] = NoNurse
    BY SlotIs DEF Open, SlotsOf
  <2>3. \A s : s \in OptimalSlots(i, p) <=> s \in Slots(i) /\ p[s] = NoNurse
    BY DEF OptimalSlots, Required
  <2> HIDE DEF B
  <2> QED BY <2>1, <2>2, <2>3
<1> HIDE DEF F, B
<1>4. SumFunctionOnSet(F, Covers(i)) = 30 * Cardinality(Blocks(B, Covers(i)))
  BY <1>1, <1>2, InstanceFacts, WeighedBlocks
<1> QED BY <1>3, <1>4 DEF F

LEMMA PresenceCount ==
    ASSUME NEW i \in Instances, NEW p, IsPlan(i, p), NEW n \in Nurses(i)
    PROVE  /\ Cardinality(Presence(i, p, n)) = Cardinality(Own(Roster(i, p), n))
           /\ Presence(i, p, n) = {} => Own(Roster(i, p), n) = {}
<1>0. n # NoNurse
  BY InstanceFacts
<1>1. Presence(i, p, n) \in SUBSET Slots(i)
  BY DEF Presence
<1>2. ASSUME NEW a, a \in Own(Roster(i, p), n)
      PROVE  \E s \in Presence(i, p, n) : a = EntryOf(p, s)
  <2>1. PICK s \in Filled(i, p) : a = EntryOf(p, s) /\ a[1] = p[s]
    BY <1>2, EntriesAreSlots DEF Own
  <2>2. s \in Presence(i, p, n)
    BY <1>2, <2>1 DEF Own, Presence, Filled
  <2> QED BY <2>1, <2>2
<1>3. ASSUME NEW s \in Presence(i, p, n) PROVE EntryOf(p, s) \in Own(Roster(i, p), n)
  <2>1. s \in Filled(i, p) /\ p[s] = n
    BY <1>0 DEF Presence, Filled
  <2> QED BY <2>1, EntriesAreSlots, EntryIs DEF Own
<1>4. \A a : a \in Own(Roster(i, p), n) <=> \E s \in Presence(i, p, n) : a = EntryOf(p, s)
  BY <1>2, <1>3
<1> DEFINE S == Presence(i, p, n)
           T == Own(Roster(i, p), n)
<1>5. S \in SUBSET Slots(i) /\ \A a : a \in T <=> \E s \in S : a = EntryOf(p, s)
  BY <1>1, <1>4
<1> HIDE DEF S, T
<1>6. Cardinality(T) = Cardinality(S)
  BY <1>5, EntryCount
<1> QED BY <1>4, <1>6 DEF S, T

LEMMA TotalCostIs ==
    ASSUME NEW i \in Instances, NEW R, IsRoster(i, R), OncePerDay(R), NEW n \in Nurses(i)
    PROVE  TotalCost(i, n, Cardinality(Own(R, n))) = TotalAssignmentBounds(i, R, n)
<1> DEFINE t == Cardinality(Own(R, n)) + i.history[n].assignments
           lo == i.contract[n].minimum
           hi == i.contract[n].maximum
<1>1. t \in Nat /\ lo \in Nat /\ hi \in Nat /\ lo <= hi
  <2>1. Cardinality(Own(R, n)) \in Nat
    BY DaysAreEntries
  <2> QED BY <2>1, NurseFacts
<1>2. TotalAssignmentBounds(i, R, n) = 20 * (Positive(lo - t) + Positive(t - hi))
  BY DaysAreEntries DEF TotalAssignmentBounds, WorkedDays
<1>3. TotalCost(i, n, Cardinality(Own(R, n)))
         = IF t < lo THEN 20 * (lo - t) ELSE 20 * Positive(t - hi)
  BY DEF TotalCost
<1> HIDE DEF t, lo, hi
<1>4. CASE t < lo
  <2>1. Positive(lo - t) = lo - t /\ Positive(t - hi) = 0
    BY <1>1, <1>4 DEF Positive
  <2>2. 20 * (lo - t + 0) = 20 * (lo - t)
    BY <1>1
  <2> QED BY <1>2, <1>3, <1>4, <2>1, <2>2
<1>5. CASE ~ (t < lo)
  <2>1. Positive(lo - t) = 0
    BY <1>1, <1>5 DEF Positive
  <2>2. Positive(t - hi) \in Nat
    BY <1>1, PositiveType
  <2>3. 0 + Positive(t - hi) = Positive(t - hi)
    BY <2>2
  <2> QED BY <1>2, <1>3, <1>5, <2>1, <2>3
<1> QED BY <1>4, <1>5

LEMMA CostTypesOf ==
    ASSUME NEW i \in Instances, NEW n \in Nurses(i), NEW w \in Nat
    PROVE  TotalCost(i, n, w) \in Nat /\ WeekendCost(i, n, w) \in Nat
<1> DEFINE t == w + i.history[n].assignments
           lo == i.contract[n].minimum
           hi == i.contract[n].maximum
           over == i.history[n].weekends + w - i.contract[n].weekends
<1>1. t \in Nat /\ lo \in Nat /\ hi \in Nat /\ over \in Int
  BY NurseFacts
<1>2. TotalCost(i, n, w) = IF t < lo THEN 20 * (lo - t) ELSE 20 * Positive(t - hi)
  BY DEF TotalCost
<1>3. WeekendCost(i, n, w) = 30 * Positive(over)
  BY DEF WeekendCost
<1> HIDE DEF t, lo, hi, over
<1>4. Positive(over) \in Nat /\ Positive(t - hi) \in Nat
  BY <1>1, PositiveType
<1>5. t < lo => 20 * (lo - t) \in Nat
  BY <1>1
<1> QED BY <1>1, <1>2, <1>3, <1>4, <1>5

LEMMA UnassignedType ==
    ASSUME NEW i \in Instances, NEW n \in Nurses(i)
    PROVE  UnassignedCost(i, n) \in Nat
BY CostTypesOf DEF UnassignedCost

LEMMA IdleNurse ==
    ASSUME NEW i \in Instances, NEW R, NEW n, Own(R, n) = {}
    PROVE  /\ Cardinality(Own(R, n)) = 0 /\ Cardinality(Weekends(R, n)) = 0
           /\ CompleteWeekends(i, R, n) = 0
<1>1. \A d : ~ Works(R, n, d)
  BY DEF Own, Works, Entries
<1>2. Weekends(R, n) = {}
  BY <1>1 DEF Weekends
<1>3. {w \in 1 .. Weeks : Works(R, n, Saturday(w)) # Works(R, n, Sunday(w))} = {}
  BY <1>1 DEF Works
<1>4. Cardinality({}) = 0
  BY FS_EmptySet
<1>5. CompleteWeekends(i, R, n) = 0
  BY <1>3, <1>4 DEF CompleteWeekends
<1> QED BY <1>2, <1>4, <1>5

LEMMA SlotCostsAre ==
    ASSUME NEW i \in Instances, NEW p, IsPlan(i, p), OncePerDay(Roster(i, p)), NEW n \in Nurses(i)
    PROVE  SlotCosts(i, p)[n] = NurseCosts(i, Roster(i, p))[n]
<1> DEFINE R == Roster(i, p)
           a == TotalAssignmentBounds(i, R, n)
           b == RunBounds(i, R, n)
           c == WorkingWeekends(i, R, n)
           d == CompleteWeekends(i, R, n)
           u == UnassignedCost(i, n)
<1>1. IsRoster(i, R)
  BY PlanFacts
<1>2. NurseCosts(i, R)[n] = a + b + c + d
  BY DEF NurseCosts
<1>3. TotalCost(i, n, Cardinality(Own(R, n))) = a
  BY <1>1, TotalCostIs
<1>4. WeekendCost(i, n, Cardinality(Weekends(R, n))) = c
  BY DEF WeekendCost, WorkingWeekends
<1>5. a \in Nat /\ b \in Nat /\ c \in Nat /\ d \in Nat
  <2>1. b \in Nat
    BY RunBoundsType
  <2>2. c \in Nat /\ d \in Nat
    BY WeekendsAgree
  <2>3. a \in Nat
    <3> DEFINE t == Cardinality(Own(R, n)) + i.history[n].assignments
               lo == i.contract[n].minimum
               hi == i.contract[n].maximum
    <3>1. t \in Nat /\ lo \in Nat /\ hi \in Nat
      <4>1. Cardinality(Own(R, n)) \in Nat
        BY <1>1, DaysAreEntries
      <4> QED BY <4>1, NurseFacts
    <3>2. a = 20 * (Positive(lo - t) + Positive(t - hi))
      BY <1>1, DaysAreEntries DEF TotalAssignmentBounds, WorkedDays
    <3> HIDE DEF a, t, lo, hi
    <3>3. Positive(lo - t) \in Nat /\ Positive(t - hi) \in Nat
      BY <3>1, PositiveType
    <3> QED BY <3>2, <3>3
  <2> QED BY <2>1, <2>2, <2>3
<1>6. CASE Presence(i, p, n) = {}
  <2>1. Own(R, n) = {}
    BY <1>6, PresenceCount
  <2>2. /\ Cardinality(Own(R, n)) = 0 /\ Cardinality(Weekends(R, n)) = 0 /\ d = 0
    BY <2>1, IdleNurse
  <2>3. u = a + c
    BY <1>3, <1>4, <2>2 DEF UnassignedCost
  <2>4. SlotCosts(i, p)[n] = u + b + 0
    BY <1>6 DEF SlotCosts
  <2> HIDE DEF a, b, c, d, u, R
  <2> QED BY <1>2, <1>5, <2>2, <2>3, <2>4 DEF R
<1>7. CASE Presence(i, p, n) # {}
  <2>1. NurseDelta(i, p, n) = a + c - u + d
    BY <1>3, <1>4, PresenceCount DEF NurseDelta
  <2>2. SlotCosts(i, p)[n] = u + b + NurseDelta(i, p, n)
    BY <1>7 DEF SlotCosts
  <2>3. u \in Nat
    BY UnassignedType
  <2> HIDE DEF a, b, c, d, u, R
  <2>4. u + b + (a + c - u + d) = a + b + c + d
    BY <1>5, <2>3
  <2> QED BY <1>2, <2>1, <2>2, <2>4 DEF R
<1> QED BY <1>6, <1>7

LEMMA SoftScoreIs ==
    ASSUME NEW i \in Instances, NEW p, IsPlan(i, p), OncePerDay(Roster(i, p)),
           Required(i, p) = {}
    PROVE  SoftScore(i, p) = Breakdown(i, Roster(i, p))
<1>1. \A n \in Nurses(i) : /\ NurseCosts(i, Roster(i, p))[n] \in Nat
                        /\ NurseCosts(i, Roster(i, p))[n] = SlotCosts(i, p)[n]
  BY SlotCostsAre, BreakdownTerms, PlanFacts
<1>2. SumFunctionOnSet(NurseCosts(i, Roster(i, p)), Nurses(i)) = SumFunctionOnSet(SlotCosts(i, p), Nurses(i))
  BY <1>1, InstanceFacts, SumOfSame
<1> QED
  BY <1>2, OpenSlotsCost, SlotRequests, SoftScoreSum, BreakdownIs

LEMMA SoftScoreType ==
    ASSUME NEW i \in Instances, NEW p, IsPlan(i, p)
    PROVE  SoftScore(i, p) \in Nat
<1>1. Cardinality(OptimalSlots(i, p)) \in Nat
  <2>1. OptimalSlots(i, p) \subseteq Slots(i)
    BY DEF OptimalSlots
  <2> QED BY <2>1, SlotsFinite, FS_Subset, FS_CardinalityType
<1>2. SumFunction([s \in Filled(i, p) |-> ShiftOffCost(i, p, s)]) \in Nat
  <2> DEFINE F == [s \in Filled(i, p) |-> ShiftOffCost(i, p, s)]
  <2>1. \A s \in Filled(i, p) : F[s] = 10 * Cardinality(AskedBy(i, p[s], s.cover))
    BY DEF ShiftOffCost, AskedBy
  <2>2. DOMAIN F = Filled(i, p) /\ IsFiniteSet(Filled(i, p))
    BY PlanFacts
  <2> HIDE DEF F
  <2>3. \A s \in Filled(i, p) : F[s] \in Nat
    BY <2>1, AskedByType
  <2>4. SumFunctionOnSet(F, Filled(i, p)) \in Nat
    BY <2>2, <2>3, SumType
  <2>5. SumFunction(F) = SumFunctionOnSet(F, DOMAIN F)
    BY Zenon DEF SumFunction
  <2> QED BY <2>2, <2>4, <2>5 DEF F
<1>3. ASSUME NEW n \in Nurses(i) PROVE SlotCosts(i, p)[n] \in Nat
  <2> DEFINE R == Roster(i, p)
             u == UnassignedCost(i, n)
             b == RunBounds(i, R, n)
             t == TotalCost(i, n, Cardinality(Presence(i, p, n)))
             w == WeekendCost(i, n, Cardinality(Weekends(R, n)))
             c == CompleteWeekends(i, R, n)
  <2>1. u \in Nat /\ b \in Nat
    BY UnassignedType, RunBoundsType
  <2>2. Cardinality(Presence(i, p, n)) \in Nat
    <3>1. Presence(i, p, n) \subseteq Slots(i)
      BY DEF Presence
    <3> QED BY <3>1, SlotsFinite, FS_Subset, FS_CardinalityType
  <2>3. Cardinality(Weekends(R, n)) \in Nat
    BY WeekendFacts
  <2>4. t \in Nat /\ w \in Nat
    BY <2>2, <2>3, CostTypesOf
  <2>5. c \in Nat
    BY WeekendsAgree
  <2>6. SlotCosts(i, p)[n]
           = u + b + (IF Presence(i, p, n) = {} THEN 0 ELSE NurseDelta(i, p, n))
    BY DEF SlotCosts
  <2>7. NurseDelta(i, p, n) = t + w - u + c
    BY DEF NurseDelta
  <2> HIDE DEF R, u, b, t, w, c
  <2>8. u + b + 0 \in Nat /\ u + b + (t + w - u + c) \in Nat
    BY <2>1, <2>4, <2>5
  <2> QED BY <2>6, <2>7, <2>8
<1>4. SumFunctionOnSet(SlotCosts(i, p), Nurses(i)) \in Nat
  BY <1>3, InstanceFacts, SumType
<1> QED BY <1>1, <1>2, <1>4, SoftScoreSum

(* Timefold fills the required slots of a cover first: a roster that covers *)
(* the minimum then leaves none of them open.                               *)
MinimumFirst(i, p) ==
    \A s, t \in Slots(i) :
        s.cover = t.cover /\ IsMinimum(i, t) /\ p[t] = NoNurse /\ ~ IsMinimum(i, s)
            => p[s] = NoNurse

LEMMA MinimumIsFilled ==
    ASSUME NEW i \in Instances, NEW p, IsPlan(i, p), MinimumFirst(i, p),
           MinCoverage(i, Roster(i, p))
    PROVE  Required(i, p) = {}
<1> SUFFICES ASSUME NEW t \in Required(i, p) PROVE FALSE
  OBVIOUS
<1>1. t \in Slots(i) /\ IsMinimum(i, t) /\ p[t] = NoNurse
  BY DEF Required
<1> DEFINE k == t.cover
           S == {s \in SlotsOf(i, k) : p[s] # NoNurse}
           M == {s \in SlotsOf(i, k) : IsMinimum(i, s)}
<1>2. k \in Covers(i)
  BY <1>1, SlotIs
<1>3. /\ Covered(Roster(i, p), k) = Cardinality(S)
      /\ Covered(Roster(i, p), k) >= Minimum(i, k)
  BY <1>2, CoveredIs DEF MinCoverage, Minimum
<1>4. IsFiniteSet(SlotsOf(i, k)) /\ Cardinality(M) = Minimum(i, k) /\ Minimum(i, k) \in Nat
  BY <1>2, SlotCounts, InstanceFacts
<1>5. t \in M /\ S \subseteq M \ {t}
  <2>1. t \in M
    BY <1>1 DEF SlotsOf
  <2>2. ASSUME NEW s \in S PROVE IsMinimum(i, s)
    BY <1>1, <2>2 DEF SlotsOf, MinimumFirst
  <2> QED BY <1>1, <2>1, <2>2
<1>6. IsFiniteSet(M)
  BY <1>4, FS_Subset
<1> HIDE DEF S, M
<1>7. IsFiniteSet(M \ {t}) /\ Cardinality(M \ {t}) = Cardinality(M) - 1
  BY <1>5, <1>6, FS_RemoveElement
<1>8. Cardinality(S) <= Cardinality(M \ {t}) /\ IsFiniteSet(S)
  BY <1>5, <1>7, FS_Subset
<1>9. Cardinality(S) \in Nat
  BY <1>8, FS_CardinalityType
<1> QED BY <1>3, <1>4, <1>7, <1>8, <1>9

LEMMA AdmittedFacts ==
    ASSUME NEW i \in Instances, NEW x \in Admitted(i)
    PROVE  /\ AreColumns(i, x) /\ Admits(i, x)
           /\ Validates(i, OfColumns(x)) /\ IsRoster(i, OfColumns(x))
           /\ Objective(i, x) = Breakdown(i, OfColumns(x))
           /\ Objective(i, x) \in Nat
<1> DEFINE R == OfColumns(x)
<1>1. AreColumns(i, x) /\ Admits(i, x)
  BY DEF Admitted, AreColumns
<1>2. Validates(i, R) /\ IsRoster(i, R) /\ OncePerDay(R) /\ Columns(R) = x
  BY <1>1, AdmittedIsValid
<1> HIDE DEF R
<1>3. ASSUME NEW k \in Covers(i) PROVE Covered(R, k) <= Optimal(i, k)
  <2>1. Cardinality(Assigned(x, k)) = Covered(R, k)
    BY <1>2, AssignedIs
  <2>2. Cardinality(Assigned(x, k))
           \in Cardinality({s \in Slots(i) : s.cover = k /\ IsMinimum(i, s)})
               .. Cardinality(SlotsOf(i, k))
    BY <1>1 DEF Admits, CoverageRows, SlotsOf
  <2>3. Cardinality(SlotsOf(i, k)) = Optimal(i, k)
    BY SlotCounts
  <2> QED BY <2>1, <2>2, <2>3
<1>4. Objective(i, x) = Breakdown(i, R)
  BY <1>2, <1>3, ObjectiveIsBreakdown
<1>5. Breakdown(i, R) \in Nat
  BY <1>2, BreakdownTerms
<1> QED BY <1>1, <1>2, <1>4, <1>5 DEF R

(* A valid roster of slots is worth what its columns are.                   *)
LEMMA ValidIsWorth ==
    ASSUME NEW i \in Instances, NEW p, IsPlan(i, p), Validates(i, Roster(i, p))
    PROVE  \E x \in Admitted(i) : Objective(i, x) = Breakdown(i, Roster(i, p))
<1> DEFINE R == Roster(i, p)
<1>1. IsRoster(i, R) /\ OncePerDay(R)
  BY PlanFacts, ValidFacts
<1>2. AreColumns(i, Columns(R)) /\ Admits(i, Columns(R))
  BY ValidIsAdmitted
<1>3. Columns(R) \in Admitted(i)
  BY <1>2 DEF Admitted, AreColumns
<1>4. ASSUME NEW k \in Covers(i) PROVE Covered(R, k) <= Optimal(i, k)
  <2>1. Covered(R, k) \in 0 .. Optimal(i, k) /\ Optimal(i, k) \in Nat
    BY CoveredIs, InstanceFacts
  <2> QED BY <2>1
<1> HIDE DEF R
<1>5. Objective(i, Columns(R)) = Breakdown(i, R)
  BY <1>1, <1>4, ObjectiveIsBreakdown
<1> QED BY <1>3, <1>5 DEF R

-----------------------------------------------------------------------------
(* What a row comes from: the engine's plan as it stands, or an admitted    *)
(* set of columns, and one that is no dearer than any other when the solver *)
(* says optimal.                                                            *)
SoundPlan(i, p) ==
    IsPlan(i, p) /\ \A s \in Filled(i, p) : Candidate(i, s.cover, p[s])
FromPlan(i, m, p, o) ==
    /\ o.roster = Roster(i, p) /\ o.fresh = SoftScore(i, p) /\ o.status = "none"
    /\ m # "timefold" => Required(i, p) = {}
Cheapest(i, x) == \A y \in Admitted(i) : Objective(i, x) <= Objective(i, y)
FromColumns(i, o) ==
    \E x \in Admitted(i) :
        /\ o.roster = OfColumns(x) /\ o.fresh = Breakdown(i, o.roster)
        /\ o.status = "OPTIMAL" => o.reported = Objective(i, x) /\ Cheapest(i, x)
RowFits(i, o) ==
    /\ Validates(i, o.roster) => /\ o.cost = Breakdown(i, o.roster)
                                 /\ o.model_delta = Breakdown(i, o.roster) - o.fresh
    /\ ~ Validates(i, o.roster) => o.cost = -1 /\ o.model_delta = 0
    /\ o.score_drift => o.reported # o.fresh

Provenance(i, m, p, o) ==
    /\ m \in Engines => FromPlan(i, m, p, o)
    /\ m \in Models => FromColumns(i, o)
OutcomeFits(i, o) ==
    /\ o.kind \in {"none", "solution", "no_solution", "error"}
    /\ IsRoster(i, o.roster) /\ o.reported \in Nat /\ o.fresh \in Nat
RosterIInv ==
    /\ instance \in Instances /\ method \in Engines \cup Models
    /\ step \in {"search", "returned", "row"}
    /\ SoundPlan(instance, plan)
    /\ method = "timefold" => MinimumFirst(instance, plan)
    /\ OutcomeFits(instance, outcome)
    /\ step = "search" => outcome.kind = "none"
    /\ outcome.kind = "solution" => Provenance(instance, method, plan, outcome)
    /\ step = "row" => outcome.kind = "solution" /\ RowFits(instance, outcome)

LEMMA ResultIs ==
    ASSUME NEW roster, NEW reported, NEW fresh, NEW status
    PROVE  LET o == Result(roster, reported, fresh, status)
           IN /\ o.kind = "solution" /\ o.roster = roster /\ o.reported = reported
              /\ o.fresh = fresh /\ o.status = status
BY DEF Result

LEMMA NoResultFits ==
    ASSUME NEW i, NEW kind \in {"none", "no_solution", "error"}, NEW status
    PROVE  /\ OutcomeFits(i, NoResult(kind, status))
           /\ NoResult(kind, status).kind = kind /\ kind # "solution"
<1> DEFINE o == NoResult(kind, status)
<1>1. o.kind = kind /\ o.roster = {} /\ o.reported = 0 /\ o.fresh = 0
  BY DEF NoResult
<1> HIDE DEF o
<1>2. IsRoster(i, o.roster)
  BY <1>1, FS_EmptySet DEF IsRoster
<1> QED BY <1>1, <1>2 DEF OutcomeFits, o

LEMMA RosterInitHolds == RosterInit => RosterIInv
<1> SUFFICES ASSUME RosterInit PROVE RosterIInv
  OBVIOUS
<1>1. /\ instance \in Instances /\ method \in Engines \cup Models /\ step = "search"
      /\ plan = [s \in Slots(instance) |-> NoNurse] /\ outcome = NoResult("none", "none")
  BY DEF RosterInit, Unanswered
<1>2. SoundPlan(instance, plan)
  BY <1>1 DEF SoundPlan, IsPlan, Filled
<1>3. MinimumFirst(instance, plan)
  BY <1>1 DEF MinimumFirst
<1>4. OutcomeFits(instance, outcome) /\ outcome.kind = "none"
  BY <1>1, NoResultFits
<1> QED BY <1>1, <1>2, <1>3, <1>4 DEF RosterIInv

(* Moves of the engines.                                                    *)
LEMMA AssignKeeps == RosterIInv /\ Assign => RosterIInv'
<1> SUFFICES ASSUME RosterIInv, Assign PROVE RosterIInv'
  OBVIOUS
<1> DEFINE i == instance
<1>1. /\ step = "search" /\ outcome.kind = "none" /\ i \in Instances
      /\ UNCHANGED <<instance, method, step, outcome>>
  BY DEF Assign, RosterIInv
<1>2. PICK s \in Slots(i) : \E n \in Nurses(i) :
           /\ Candidate(i, s.cover, n)
           /\ method = "timefold" => \A t \in Required(i, plan) :
                                        t.cover = s.cover => IsMinimum(i, t) /\ IsMinimum(i, s)
           /\ plan' = [plan EXCEPT ![s] = n]
  BY DEF Assign, Required
<1>3. PICK n \in Nurses(i) :
           /\ Candidate(i, s.cover, n)
           /\ method = "timefold" => \A t \in Required(i, plan) :
                                        t.cover = s.cover => IsMinimum(i, t) /\ IsMinimum(i, s)
           /\ plan' = [plan EXCEPT ![s] = n]
  BY <1>2
<1>4. IsPlan(i, plan) /\ \A t \in Filled(i, plan) : Candidate(i, t.cover, plan[t])
  BY DEF RosterIInv, SoundPlan
<1>5. n # NoNurse
  BY <1>1, InstanceFacts
<1>6. /\ \A t \in Slots(i) : plan'[t] = IF t = s THEN n ELSE plan[t]
      /\ IsPlan(i, plan')
  BY <1>3, <1>4 DEF IsPlan
<1> HIDE DEF i
<1>7. SoundPlan(i, plan')
  <2>1. ASSUME NEW t \in Filled(i, plan') PROVE Candidate(i, t.cover, plan'[t])
    <3>1. t \in Slots(i) /\ plan'[t] # NoNurse
      BY DEF Filled
    <3> QED BY <1>3, <1>4, <1>6, <3>1 DEF Filled
  <2> QED BY <1>6, <2>1 DEF SoundPlan
<1>8. ASSUME method = "timefold" PROVE MinimumFirst(i, plan')
  <2>1. MinimumFirst(i, plan)
    BY <1>8 DEF RosterIInv, i
  <2> SUFFICES ASSUME NEW r \in Slots(i), NEW t \in Slots(i), r.cover = t.cover,
                      IsMinimum(i, t), plan'[t] = NoNurse, ~ IsMinimum(i, r)
               PROVE  plan'[r] = NoNurse
    BY Zenon DEF MinimumFirst
  <2>2. t # s /\ plan[t] = NoNurse
    BY <1>5, <1>6
  <2>3. t \in Required(i, plan)
    BY <2>2 DEF Required
  <2>4. r # s
    BY <1>3, <1>8, <2>3
  <2>5. plan[r] = NoNurse
    BY <2>1, <2>2, Zenon DEF MinimumFirst
  <2> QED BY <1>6, <2>4, <2>5
<1>9. outcome.kind # "solution" /\ OutcomeFits(i, outcome)
  BY <1>1 DEF RosterIInv, i
<1> QED BY <1>1, <1>7, <1>8, <1>9 DEF RosterIInv, i

LEMMA UnassignKeeps == RosterIInv /\ Unassign => RosterIInv'
<1> SUFFICES ASSUME RosterIInv, Unassign PROVE RosterIInv'
  OBVIOUS
<1> DEFINE i == instance
<1>1. /\ step = "search" /\ outcome.kind = "none" /\ i \in Instances
      /\ UNCHANGED <<instance, method, step, outcome>>
  BY DEF Unassign, RosterIInv
<1>2. PICK s \in Slots(i) : /\ method = "timefold" => ~ IsMinimum(i, s)
                            /\ plan' = [plan EXCEPT ![s] = NoNurse]
  BY DEF Unassign
<1>3. IsPlan(i, plan) /\ \A t \in Filled(i, plan) : Candidate(i, t.cover, plan[t])
  BY DEF RosterIInv, SoundPlan
<1>4. /\ \A t \in Slots(i) : plan'[t] = IF t = s THEN NoNurse ELSE plan[t]
      /\ IsPlan(i, plan')
  BY <1>2, <1>3 DEF IsPlan
<1> HIDE DEF i
<1>5. SoundPlan(i, plan')
  <2>1. ASSUME NEW t \in Filled(i, plan') PROVE Candidate(i, t.cover, plan'[t])
    <3>1. t \in Slots(i) /\ plan'[t] # NoNurse
      BY DEF Filled
    <3> QED BY <1>3, <1>4, <3>1 DEF Filled
  <2> QED BY <1>4, <2>1 DEF SoundPlan
<1>6. ASSUME method = "timefold" PROVE MinimumFirst(i, plan')
  <2>1. MinimumFirst(i, plan)
    BY <1>6 DEF RosterIInv, i
  <2> SUFFICES ASSUME NEW r \in Slots(i), NEW t \in Slots(i), r.cover = t.cover,
                      IsMinimum(i, t), plan'[t] = NoNurse, ~ IsMinimum(i, r)
               PROVE  plan'[r] = NoNurse
    BY Zenon DEF MinimumFirst
  <2>2. t # s /\ plan[t] = NoNurse
    BY <1>2, <1>4, <1>6
  <2>3. plan[r] = NoNurse
    BY <2>1, <2>2, Zenon DEF MinimumFirst
  <2> QED BY <1>4, <2>3
<1>7. outcome.kind # "solution" /\ OutcomeFits(i, outcome)
  BY <1>1 DEF RosterIInv, i
<1> QED BY <1>1, <1>5, <1>6, <1>7 DEF RosterIInv, i

(* A run that returns keeps its plan.                                       *)
LEMMA ReturnIs ==
    ASSUME RosterIInv, NEW result, Return(result), step = "search"
    PROVE  /\ UNCHANGED <<instance, method, plan>> /\ step' = "returned" /\ outcome' = result
           /\ OutcomeFits(instance, result)
              /\ (result.kind = "solution" => Provenance(instance, method, plan, result))
                 => RosterIInv'
BY DEF Return, RosterIInv

LEMMA NothingKeeps ==
    ASSUME RosterIInv, NEW kind \in {"no_solution", "error"}, NEW status,
           Return(NoResult(kind, status)), step = "search"
    PROVE  RosterIInv'
<1>1. /\ OutcomeFits(instance, NoResult(kind, status))
      /\ NoResult(kind, status).kind # "solution"
  BY NoResultFits
<1> QED BY <1>1, ReturnIs

LEMMA PlanReturns ==
    ASSUME RosterIInv, step = "search", method \in Engines,
           method # "timefold" => Required(instance, plan) = {},
           NEW drift \in Nat,
           Return(Result(Roster(instance, plan), SoftScore(instance, plan) + drift,
                         SoftScore(instance, plan), "none"))
    PROVE  RosterIInv'
<1> DEFINE i == instance
           R == Roster(i, plan)
           o == Result(R, SoftScore(i, plan) + drift, SoftScore(i, plan), "none")
<1>1. i \in Instances /\ IsPlan(i, plan)
  BY DEF RosterIInv, SoundPlan
<1>2. /\ o.kind = "solution" /\ o.roster = R /\ o.reported = SoftScore(i, plan) + drift
      /\ o.fresh = SoftScore(i, plan) /\ o.status = "none"
  BY ResultIs
<1>3. SoftScore(i, plan) \in Nat /\ IsRoster(i, R)
  BY <1>1, SoftScoreType, PlanFacts
<1>4. SoftScore(i, plan) + drift \in Nat
  BY <1>3
<1> HIDE DEF o
<1>5. OutcomeFits(i, o)
  BY <1>2, <1>3, <1>4 DEF OutcomeFits
<1>6. Provenance(i, method, plan, o)
  BY <1>2 DEF Provenance, FromPlan, Engines, Models
<1> QED BY <1>5, <1>6, ReturnIs DEF o

LEMMA ReturnPlanKeeps == RosterIInv /\ ReturnPlan => RosterIInv'
<1> SUFFICES ASSUME RosterIInv, ReturnPlan PROVE RosterIInv'
  OBVIOUS
<1>1. step = "search" /\ method \in {"solverforge", "solverforge-py"} /\ method \in Engines
  BY DEF ReturnPlan, Engines
<1>2. PICK drift \in Drifts :
         Return(IF Required(instance, plan) = {}
                THEN Result(Roster(instance, plan), SoftScore(instance, plan) + drift,
                            SoftScore(instance, plan), "none")
                ELSE NoResult(IF method = "solverforge-py" THEN "no_solution"
                              ELSE "error", "none"))
  BY DEF ReturnPlan
<1>3. drift \in Nat
  BY DriftsAssumption
<1>4. CASE Required(instance, plan) = {}
  <2>1. Return(Result(Roster(instance, plan), SoftScore(instance, plan) + drift,
                      SoftScore(instance, plan), "none"))
    BY <1>2, <1>4, Zenon
  <2> QED BY <1>1, <1>3, <1>4, <2>1, PlanReturns
<1>5. CASE Required(instance, plan) # {}
  <2> DEFINE kind == IF method = "solverforge-py" THEN "no_solution" ELSE "error"
  <2>1. Return(NoResult(kind, "none"))
    BY <1>2, <1>5, Zenon
  <2>2. kind \in {"no_solution", "error"}
    OBVIOUS
  <2> HIDE DEF kind
  <2> QED BY <1>1, <2>1, <2>2, NothingKeeps
<1> QED BY <1>4, <1>5

LEMMA ReturnTimefoldKeeps == RosterIInv /\ ReturnTimefold => RosterIInv'
<1> SUFFICES ASSUME RosterIInv, ReturnTimefold PROVE RosterIInv'
  OBVIOUS
<1> DEFINE soft == SoftScore(instance, plan)
<1>1. /\ step = "search" /\ method = "timefold" /\ method \in Engines
      /\ Return(Result(Roster(instance, plan), soft, soft, "none"))
  BY DEF ReturnTimefold, Engines
<1>2. soft \in Nat
  BY SoftScoreType DEF RosterIInv, SoundPlan
<1>3. soft = soft + 0 /\ 0 \in Nat
  <2> HIDE DEF soft
  <2> QED BY <1>2
<1>4. Return(Result(Roster(instance, plan), soft + 0, soft, "none"))
  <2> HIDE DEF soft
  <2> QED BY <1>1, <1>3, Zenon
<1> QED BY <1>1, <1>3, <1>4, PlanReturns

LEMMA ReturnColumnsKeeps == RosterIInv /\ ReturnColumns => RosterIInv'
<1> SUFFICES ASSUME RosterIInv, ReturnColumns PROVE RosterIInv'
  OBVIOUS
<1> DEFINE i == instance
           T == {Objective(i, y) : y \in Admitted(i)}
<1>1. step = "search" /\ method \in Models /\ method \notin Engines /\ i \in Instances
  BY DEF ReturnColumns, Models, Engines, RosterIInv
<1>2. PICK x \in Admitted(i) : \E slack \in Drifts, optimal \in BOOLEAN :
              /\ optimal => slack = 0 /\ Objective(i, x) = Min(T)
              /\ Return(IF Validates(i, OfColumns(x))
                        THEN Result(OfColumns(x), Objective(i, x) + slack,
                                    Breakdown(i, OfColumns(x)),
                                    IF optimal THEN "OPTIMAL" ELSE "FEASIBLE")
                        ELSE NoResult("error", "FEASIBLE"))
  BY Zenon DEF ReturnColumns
<1>3. PICK slack \in Drifts, optimal \in BOOLEAN :
              /\ optimal => slack = 0 /\ Objective(i, x) = Min(T)
              /\ Return(IF Validates(i, OfColumns(x))
                        THEN Result(OfColumns(x), Objective(i, x) + slack,
                                    Breakdown(i, OfColumns(x)),
                                    IF optimal THEN "OPTIMAL" ELSE "FEASIBLE")
                        ELSE NoResult("error", "FEASIBLE"))
  BY <1>2, Zenon
<1> DEFINE R == OfColumns(x)
           reported == Objective(i, x) + slack
           status == IF optimal THEN "OPTIMAL" ELSE "FEASIBLE"
           o == Result(R, reported, Breakdown(i, R), status)
<1>4. /\ Validates(i, R) /\ IsRoster(i, R) /\ Objective(i, x) = Breakdown(i, R)
      /\ Objective(i, x) \in Nat /\ \A y \in Admitted(i) : Objective(i, y) \in Nat
  BY <1>1, AdmittedFacts
<1>5. Return(o)
  BY <1>3, <1>4, Zenon
<1>6. slack \in Nat
  BY DriftsAssumption
<1>7. reported \in Nat
  BY <1>4, <1>6
<1>8. ASSUME status = "OPTIMAL" PROVE reported = Objective(i, x) /\ Cheapest(i, x)
  <2>1. slack = 0 /\ Objective(i, x) = Min(T)
    BY <1>3, <1>8
  <2>2. T \subseteq Nat /\ T # {}
    BY <1>4
  <2>3. PICK m \in T : \A n \in T : m <= n
    <3> HIDE DEF T
    <3> QED BY <2>2, LeastNatural
  <2>4. Min(T) = m
    <3> HIDE DEF T
    <3>1. T \subseteq Int
      BY <2>2
    <3> QED BY <2>3, <3>1, LeastIsMin
  <2>5. \A y \in Admitted(i) : Objective(i, x) <= Objective(i, y)
    BY <2>1, <2>3, <2>4
  <2>6. reported = Objective(i, x)
    BY <1>4, <2>1
  <2> QED BY <2>5, <2>6 DEF Cheapest
<1>9. /\ o.kind = "solution" /\ o.roster = R /\ o.reported = reported
      /\ o.fresh = Breakdown(i, R) /\ o.status = status
  BY ResultIs
<1> HIDE DEF o, reported, status, R, T
<1>10. Breakdown(i, R) \in Nat
  BY <1>4
<1>11. OutcomeFits(i, o)
  BY <1>4, <1>7, <1>9, <1>10 DEF OutcomeFits
<1>12. FromColumns(i, o)
  BY <1>8, <1>9 DEF FromColumns, R
<1>13. Provenance(i, method, plan, o)
  BY <1>1, <1>12 DEF Provenance
<1> QED BY <1>1, <1>5, <1>11, <1>13, ReturnIs

LEMMA FindNothingKeeps == RosterIInv /\ FindNothing => RosterIInv'
<1> SUFFICES ASSUME RosterIInv, FindNothing PROVE RosterIInv'
  OBVIOUS
<1>1. step = "search"
  BY DEF FindNothing
<1>2. CASE Return(NoResult("no_solution", "no_incumbent"))
  BY <1>1, <1>2, NothingKeeps
<1>3. CASE Return(NoResult("no_solution", "proved_infeasible"))
  BY <1>1, <1>3, NothingKeeps
<1> QED BY <1>2, <1>3 DEF FindNothing

LEMMA RefuseModelKeeps == RosterIInv /\ RefuseModel => RosterIInv'
BY NothingKeeps DEF RefuseModel

(* The validator's row.                                                     *)
LEMMA EvaluateKeeps == RosterIInv /\ Evaluate => RosterIInv'
<1> SUFFICES ASSUME RosterIInv, Evaluate PROVE RosterIInv'
  OBVIOUS
<1> DEFINE i == instance
           R == outcome.roster
           feasible == Validates(i, R)
           charge == Breakdown(i, R)
           o == [kind |-> outcome.kind, roster |-> outcome.roster,
                 reported |-> outcome.reported, fresh |-> outcome.fresh,
                 status |-> outcome.status,
                 hard_feasible |-> feasible,
                 cost |-> IF feasible THEN charge ELSE -1,
                 model_delta |-> IF feasible THEN charge - outcome.fresh ELSE 0,
                 score_drift |-> outcome.reported # outcome.fresh]
<1>1. /\ outcome.kind = "solution" /\ step' = "row"
      /\ UNCHANGED <<instance, method, plan>>
  BY DEF Evaluate
<1>2. outcome' = o
  BY Zenon DEF Evaluate
<1>3. /\ o.kind = outcome.kind /\ o.roster = outcome.roster
      /\ o.reported = outcome.reported /\ o.fresh = outcome.fresh
      /\ o.status = outcome.status
      /\ o.cost = IF feasible THEN charge ELSE -1
      /\ o.model_delta = IF feasible THEN charge - outcome.fresh ELSE 0
  <2> HIDE DEF feasible, charge
  <2> QED OBVIOUS
<1>4. o.score_drift => outcome.reported # outcome.fresh
  <2> HIDE DEF feasible, charge
  <2> QED OBVIOUS
<1> HIDE DEF o
<1>5. RowFits(i, o)
  BY <1>3, <1>4 DEF RowFits
<1>6. OutcomeFits(i, o)
  BY <1>3 DEF RosterIInv, OutcomeFits
<1>7. Provenance(i, method, plan, o)
  <2>1. Provenance(i, method, plan, outcome)
    BY <1>1 DEF RosterIInv
  <2> QED BY <1>3, <2>1 DEF Provenance, FromPlan, FromColumns
<1> HIDE DEF feasible, charge
<1> QED BY <1>1, <1>2, <1>3, <1>5, <1>6, <1>7 DEF RosterIInv

-----------------------------------------------------------------------------
(* The books of a run in order, whatever the instance, the engine's moves   *)
(* or the solver's incumbent.                                               *)
THEOREM RosterBooks == RosterSpec => []RosterIInv
<1>1. RosterInit => RosterIInv
  BY RosterInitHolds
<1>2. RosterIInv /\ [RosterNext]_rosterVars => RosterIInv'
  <2> SUFFICES ASSUME RosterIInv, [RosterNext]_rosterVars PROVE RosterIInv'
    OBVIOUS
  <2>1. CASE Assign
    BY <2>1, AssignKeeps
  <2>2. CASE Unassign
    BY <2>2, UnassignKeeps
  <2>3. CASE ReturnPlan
    BY <2>3, ReturnPlanKeeps
  <2>4. CASE ReturnTimefold
    BY <2>4, ReturnTimefoldKeeps
  <2>5. CASE ReturnColumns
    BY <2>5, ReturnColumnsKeeps
  <2>6. CASE FindNothing
    BY <2>6, FindNothingKeeps
  <2>7. CASE RefuseModel
    BY <2>7, RefuseModelKeeps
  <2>8. CASE Evaluate
    BY <2>8, EvaluateKeeps
  <2>9. CASE UNCHANGED rosterVars
    BY <2>9 DEF rosterVars, RosterIInv
  <2>10. CASE Graded
    BY <2>9, <2>10 DEF Graded
  <2> QED
    BY <2>1, <2>2, <2>3, <2>4, <2>5, <2>6, <2>7, <2>8, <2>9, <2>10 DEF RosterNext
<1> QED
  BY <1>1, <1>2, PTL DEF RosterSpec

(* Every slot has a nurse or none, every row a cost or none.                *)
THEOREM RosterTypes == RosterSpec => []RosterTypeInv
<1>1. RosterIInv => RosterTypeInv
  <2> SUFFICES ASSUME RosterIInv PROVE RosterTypeInv
    OBVIOUS
  <2>1. /\ instance \in Instances /\ method \in Engines \cup Models
        /\ step \in {"search", "returned", "row"}
        /\ IsPlan(instance, plan)
        /\ OutcomeFits(instance, outcome)
        /\ step = "row" => RowFits(instance, outcome)
    BY DEF RosterIInv, SoundPlan
  <2>2. \A a \in outcome.roster : a[1] \in Nurses(instance) /\ a[2] \in Covers(instance)
    BY <2>1 DEF OutcomeFits, IsRoster
  <2>3. step = "row" => outcome.cost \in Nat \cup {-1}
    <3>1. Breakdown(instance, outcome.roster) \in Nat
      BY <2>1, BreakdownTerms DEF OutcomeFits
    <3> QED BY <2>1, <3>1 DEF RowFits
  <2> QED BY <2>1, <2>2, <2>3 DEF RosterTypeInv, IsPlan, OutcomeFits
<1> QED
  BY <1>1, RosterBooks, PTL

(* A feasible row costs what was minimised, whether slot by slot or row by  *)
(* row, and an optimal model's own number is that cost.                     *)
THEOREM RowsAreCostedAlike == RosterSpec => []ModelIsValidator
<1>1. RosterIInv => ModelIsValidator
  <2> SUFFICES ASSUME RosterIInv, step = "row"
               PROVE  /\ outcome.model_delta = 0
                      /\ outcome.status = "OPTIMAL" => ~ outcome.score_drift
    BY DEF ModelIsValidator
  <2> DEFINE i == instance
             R == outcome.roster
  <2>1. /\ i \in Instances /\ IsPlan(i, plan) /\ method \in Engines \cup Models
        /\ Provenance(i, method, plan, outcome) /\ RowFits(i, outcome)
        /\ IsRoster(i, R)
    BY DEF RosterIInv, SoundPlan, OutcomeFits
  <2>2. Breakdown(i, R) \in Nat
    BY <2>1, BreakdownTerms
  <2>3. CASE method \in Engines
    <3>1. /\ R = Roster(i, plan) /\ outcome.fresh = SoftScore(i, plan)
          /\ outcome.status = "none" /\ (method # "timefold" => Required(i, plan) = {})
      BY <2>1, <2>3 DEF Provenance, FromPlan
    <3>2. CASE Validates(i, R)
      <4>1. OncePerDay(R) /\ MinCoverage(i, R)
        BY <2>1, <3>2, ValidFacts
      <4>2. Required(i, plan) = {}
        <5>1. CASE method = "timefold"
          <6>1. MinimumFirst(i, plan)
            BY <5>1 DEF RosterIInv
          <6> QED BY <2>1, <3>1, <4>1, <6>1, MinimumIsFilled
        <5> QED BY <3>1, <5>1
      <4>3. outcome.fresh = Breakdown(i, R)
        BY <2>1, <3>1, <4>1, <4>2, SoftScoreIs
      <4>4. outcome.model_delta = Breakdown(i, R) - outcome.fresh
        BY <2>1, <3>2 DEF RowFits
      <4> HIDE DEF i, R
      <4>5. outcome.model_delta = 0
        BY <2>2, <4>3, <4>4
      <4> QED BY <3>1, <4>5
    <3>3. CASE ~ Validates(i, R)
      BY <2>1, <3>1, <3>3 DEF RowFits
    <3> QED BY <3>2, <3>3
  <2>4. CASE method \in Models
    <3>1. PICK x \in Admitted(i) :
             /\ R = OfColumns(x) /\ outcome.fresh = Breakdown(i, R)
             /\ outcome.status = "OPTIMAL" => outcome.reported = Objective(i, x)
      BY <2>1, <2>4 DEF Provenance, FromColumns
    <3>2. Validates(i, R) /\ Objective(i, x) = Breakdown(i, R)
      BY <2>1, <3>1, AdmittedFacts
    <3>3. /\ outcome.model_delta = Breakdown(i, R) - outcome.fresh
          /\ outcome.score_drift => outcome.reported # outcome.fresh
      BY <2>1, <3>2 DEF RowFits
    <3> HIDE DEF i, R
    <3>4. outcome.model_delta = 0
      BY <2>2, <3>1, <3>3
    <3> QED BY <3>1, <3>2, <3>3, <3>4
  <2> QED BY <2>1, <2>3, <2>4
<1> QED
  BY <1>1, RosterBooks, PTL

(* The engines' hard penalties are the validator's verdict.                 *)
THEOREM HardScoresAreVerdicts == RosterSpec => []HardScoreIsVerdict
<1>1. RosterIInv => HardScoreIsVerdict
  BY HardScoreIs DEF RosterIInv, SoundPlan, HardScoreIsVerdict
<1> QED
  BY <1>1, RosterBooks, PTL

(* The rows admit a roster of candidates if it is valid, and only then.     *)
THEOREM RowsAdmitExactly == RosterSpec => []RowsAdmitTheValid
<1>1. RosterIInv => RowsAdmitTheValid
  <2> SUFFICES ASSUME RosterIInv PROVE RowsAdmitTheValid
    OBVIOUS
  <2> DEFINE i == instance
             R == Roster(i, plan)
             x == Columns(R)
  <2>1. /\ i \in Instances /\ IsPlan(i, plan)
        /\ \A s \in Filled(i, plan) : Candidate(i, s.cover, plan[s])
    BY DEF RosterIInv, SoundPlan
  <2>2. AllCandidates(i, R)
    <3> SUFFICES ASSUME NEW a \in R PROVE Candidate(i, a[2], a[1])
      BY DEF AllCandidates
    <3>1. PICK s \in Filled(i, plan) : a[1] = plan[s] /\ a[2] = s.cover
      BY EntriesAreSlots
    <3> QED BY <2>1, <3>1
  <2>3. AreColumns(i, x)
    BY <2>1, <2>2, PlanFacts, CandidatesAreColumns
  <2>4. Validates(i, R) => AreColumns(i, x) /\ Admits(i, x)
    BY <2>1, ValidIsAdmitted
  <2>5. Admits(i, x) => Validates(i, OfColumns(x))
    BY <2>1, <2>3, AdmittedIsValid
  <2> QED BY <2>4, <2>5 DEF RowsAdmitTheValid, AreColumns
<1> QED
  BY <1>1, RosterBooks, PTL

(* What a model's solver proved optimal costs no more than any roster       *)
(* whatever that the validator accepts.                                     *)
THEOREM OptimaCostLeast == RosterSpec => []OptimalIsBest
<1>1. RosterIInv => OptimalIsBest
  <2> SUFFICES ASSUME RosterIInv, step = "row", outcome.status = "OPTIMAL",
                      NEW p \in [Slots(instance) -> Nurses(instance) \cup {NoNurse}],
                      Validates(instance, Roster(instance, p))
               PROVE  outcome.cost <= Breakdown(instance, Roster(instance, p))
    BY DEF OptimalIsBest
  <2> DEFINE i == instance
             R == outcome.roster
  <2>1. /\ i \in Instances /\ method \in Engines \cup Models
        /\ Provenance(i, method, plan, outcome) /\ RowFits(i, outcome)
    BY DEF RosterIInv
  <2>2. method \in Models
    BY <2>1 DEF Provenance, FromPlan
  <2>3. PICK x \in Admitted(i) : R = OfColumns(x) /\ Cheapest(i, x)
    BY <2>1, <2>2 DEF Provenance, FromColumns
  <2>4. Validates(i, R) /\ Objective(i, x) = Breakdown(i, R)
    BY <2>1, <2>3, AdmittedFacts
  <2>5. outcome.cost = Objective(i, x)
    BY <2>1, <2>4 DEF RowFits
  <2>6. PICK y \in Admitted(i) : Objective(i, y) = Breakdown(i, Roster(i, p))
    BY <2>1, ValidIsWorth DEF IsPlan
  <2> QED BY <2>3, <2>5, <2>6 DEF Cheapest
<1> QED
  BY <1>1, RosterBooks, PTL
=============================================================================
