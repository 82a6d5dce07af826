--------------------------- MODULE MCRunLifecycle ----------------------------
(* Small selections for RunLifecycle: accepted ones with each loop longer  *)
(* than one somewhere, ones whose watchdog options the loops refuse, and   *)
(* every kind of selection that build rejects.                             *)
EXTENDS RunLifecycle

CONSTANTS c1, c2, s1, s2

MCCaseIds == {c1, c2}
MCSolverIds == {s1, s2}

Selection(cases, solvers, limits, save) ==
    [cases |-> cases, solvers |-> solvers, limits |-> limits, save |-> save,
     multiplier |-> 125, grace |-> 5]

Accepted ==
    {Selection(<<c1, c2>>, <<s1>>, <<1>>, TRUE),
     Selection(<<c1>>, <<s1, s2>>, <<1>>, TRUE),
     Selection(<<c1>>, <<s1>>, <<10, 1>>, TRUE),
     Selection(<<c1, c2>>, <<s1>>, <<1, 2>>, TRUE),
     Selection(<<c1>>, <<s1, s2>>, <<1, 2>>, FALSE)}

Rejected ==
    {Selection(<<>>, <<s1>>, <<1>>, TRUE),
     Selection(<<c1>>, <<>>, <<1>>, TRUE),
     Selection(<<c1>>, <<s1>>, <<>>, FALSE),
     Selection(<<c1, c1>>, <<s1>>, <<1>>, TRUE),
     Selection(<<c1>>, <<s2, s2>>, <<1>>, TRUE),
     Selection(<<c1>>, <<s1>>, <<1, 1>>, TRUE),
     Selection(<<c1>>, <<s1>>, <<0>>, TRUE)}

TwoByTwo(save) == Selection(<<c1, c2>>, <<s1, s2>>, <<1>>, save)

(* One boundary value that is still allowed, and the ones beyond it. *)
Watchdogs ==
    {[Selection(<<c1>>, <<s1>>, <<1>>, TRUE) EXCEPT !.multiplier = 100, !.grace = 0],
     [TwoByTwo(TRUE) EXCEPT !.multiplier = 99],
     [TwoByTwo(TRUE) EXCEPT !.grace = -1],
     [TwoByTwo(FALSE) EXCEPT !.grace = -1]}

MCSelections == Accepted \cup Watchdogs \cup Rejected
=============================================================================
