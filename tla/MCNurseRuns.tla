------------------------------ MODULE MCNurseRuns ------------------------------
(* One week.  The bounds leave room for runs below, between and above them, *)
(* the history for a run that is short, long, or none.                      *)
EXTENDS NurseRuns

MCHorizon == 7
MCBounds == {<<0, 0>>, <<1, 1>>, <<1, 3>>, <<2, 2>>, <<2, 4>>, <<3, 5>>, <<5, 7>>}
MCCases ==
    {[complement |-> k, weight |-> 15, minimum |-> b[1], maximum |-> b[2],
      active |-> a, length |-> n] :
        k \in BOOLEAN, a \in BOOLEAN, b \in MCBounds, n \in {0, 1, 2, 6}}
=============================================================================
