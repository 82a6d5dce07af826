----------------------------- MODULE Invocation ------------------------------
(***************************************************************************)
(* What the runner relies on when it calls run_solver once: at most one    *)
(* report, out of the set Reports, and never a second one.  The report     *)
(* abstracts the SolverRun record (and the FairStartViolationError that    *)
(* replaces it) to the fields publication depends on.                      *)
(***************************************************************************)

VARIABLE report

Statuses == {"solution_returned", "no_solution", "adapter_error",
             "no_result", "watchdog_timeout", "abort"}

(* A row is marked fair exactly when it carries a witness, a solution is   *)
(* always fair, and so is every failure the child could still report       *)
(* itself: only a child that went silent leaves a row without a witness.   *)
Reports ==
    {r \in [status : Statuses, solution : BOOLEAN,
            hasWitness : BOOLEAN, fairStartValid : BOOLEAN] :
        /\ r.fairStartValid = r.hasWitness
        /\ r.solution = (r.status = "solution_returned")
        /\ r.status \in {"solution_returned", "no_solution", "adapter_error"}
               => r.hasWitness
        /\ r.status = "abort" => ~r.hasWitness}

Pending == [status |-> "none", solution |-> FALSE,
            hasWitness |-> FALSE, fairStartValid |-> FALSE]

Init == report = Pending

Next ==
    /\ report = Pending
    /\ report' \in Reports

Spec == Init /\ [][Next]_report
=============================================================================
