------------------------------ MODULE RunLedger ------------------------------
(***************************************************************************)
(* What the warehouse promises its readers about one benchmark run: the    *)
(* matrix is fixed, rows of it are added one at a time while the run is    *)
(* running, the run is closed once, as completed only with every expected  *)
(* row, and a closed run does not change any more.                         *)
(***************************************************************************)
VARIABLES
    expected,           \* the keys of the run's matrix
    status,             \* benchmark_runs.status, "none" before the run exists
    keys                \* the matrix keys of its benchmark_results

ledger == <<expected, status, keys>>

Init == status = "none" /\ keys = {}

Open == status = "none" /\ status' = "running" /\ UNCHANGED keys

AddRow ==
    /\ status = "running"
    /\ \E k \in expected \ keys : keys' = keys \cup {k}
    /\ UNCHANGED status

Complete ==
    /\ status = "running" /\ keys = expected
    /\ status' = "completed" /\ UNCHANGED keys

Fail == status = "running" /\ status' = "failed" /\ UNCHANGED keys

Next == (Open \/ AddRow \/ Complete \/ Fail) /\ UNCHANGED expected

Spec == Init /\ [][Next]_ledger
=============================================================================
