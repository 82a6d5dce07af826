---------------------------- MODULE RunLifecycle -----------------------------
(***************************************************************************)
(* One call of run_benchmark (src/src/solverforge_bench/runner.py): it     *)
(* builds the matrix, opens a CSV file and, when asked, a run in the       *)
(* PostgreSQL warehouse, runs every solver of the matrix and records each  *)
(* row in both stores, one after the other, and closes them again.         *)
(*                                                                         *)
(* The stores fail independently and the two are never one transaction:    *)
(* a statement may be refused, its connection may be lost before or after  *)
(* the commit, the disk may fill up in the middle of a CSV line, Ctrl-C    *)
(* raises KeyboardInterrupt between any two steps, and the process may be  *)
(* killed.  A fault raises, and raising runs the exit handlers.  So does   *)
(* the harness's own check of the watchdog options, which it makes in the  *)
(* loops, when both stores are open.                                       *)
(***************************************************************************)
EXTENDS BenchmarkMatrix, Integers, FiniteSets

CONSTANTS
    CaseIds,        \* identities (dataset, dataset_set, instance) of cases
    SolverIds,      \* solver names
    Selections      \* the selections a command line may ask for

ASSUME SelectionsAssumption ==
    Selections \subseteq [cases : Seq(CaseIds), solvers : Seq(SolverIds),
                          limits : Seq(Nat), save : BOOLEAN,
                          multiplier : Int, grace : Int]

VARIABLES
    sel,            \* the selection: sel.save is args.save_postgres, and
                    \* sel.multiplier and sel.grace are the watchdog options,
                    \* in hundredths and in seconds
    pc,             \* where run_benchmark stands
    raising,        \* an exception is in flight
    at,             \* the place in the loops
    report,         \* what run_solver reported at this place
    observed,       \* matrix_tracker._observed of run_benchmark
    recorded,       \* _matrix_tracker._observed of the PostgreSQL writer
    rowIndex,       \* PostgresResultWriter._row_index
    runInserted,    \* the local run_inserted of __enter__
    conn,           \* the connection: "none", "open" or "lost"
    csv,            \* keys of the complete lines of the CSV file
    pending,        \* a line is in the file's buffer, maybe partly on disk
    status,         \* benchmark_runs.status, "none" while there is no run
    entries,        \* benchmark_run_matrix_entries of the run
    versions,       \* how many of the solvers are in benchmark_solver_versions
    rows,           \* benchmark_results: matrix key -> row_index and fairness
    resultCount,    \* benchmark_runs.result_count
    observedHash,   \* benchmark_runs.observed_matrix_sha256
    faults          \* the kinds of outside faults that hit this call

harnessVars == <<sel, pc, raising, at, report, observed>>
writerVars  == <<recorded, rowIndex, runInserted, conn>>
csvVars     == <<csv, pending>>
dbVars      == <<status, entries, versions, rows, resultCount, observedHash>>
vars        == <<harnessVars, writerVars, csvVars, dbVars, faults>>

Run == INSTANCE Invocation

Key == KeyAt(sel, at)
Expected == ExpectedKeys(sel)
CsvKeys == {csv[i] : i \in 1 .. Len(csv)}

Opening == {"insertRun", "noteRun", "insertMatrix", "insertVersions"}
Looping == {"solve", "evaluate", "observe", "csvWrite", "csvFlush", "pgWrite", "mark",
            "index", "complete"}
Terminal == {"returned", "raised", "crashed"}
PCs == {"build", "csvOpen", "connect", "pushExit", "openFailed", "finish",
        "closeCsv"} \cup Opening \cup Looping \cup Terminal

FaultKinds == {"solver", "csv", "warehouse", "interrupt", "crash"}

NoRows == [k \in {} |-> [index |-> 0, fair |-> TRUE]]

Init ==
    /\ sel \in Selections
    /\ pc = "build" /\ raising = FALSE /\ at = FirstPlace
    /\ report = Run!Pending /\ observed = {}
    /\ recorded = {} /\ rowIndex = 0 /\ runInserted = FALSE /\ conn = "none"
    /\ csv = <<>> /\ pending = FALSE
    /\ status = "none" /\ entries = {} /\ versions = 0 /\ rows = NoRows
    /\ resultCount = 0 /\ observedHash = NoHash
    /\ faults = {}

-----------------------------------------------------------------------------
(* Control flow.                                                           *)

(* Mutant: a failing close runs the writer's exit once more. *)
HandlerFinishesTwice ==
    CASE pc \in {"build", "csvOpen"}              -> "raised"
      [] pc \in Opening                          -> "openFailed"
      [] pc \in Looping \cup {"closeCsv"} /\ sel.save -> "finish"
      [] OTHER                                   -> "closeCsv"

(* Where an exception raised at pc goes: the handler of __enter__, or the  *)
(* exits the stack holds at that moment.  At "pushExit" __enter__ has      *)
(* returned and the stack does not hold the writer's exit yet.             *)
Handler ==
    CASE pc \in {"build", "csvOpen", "closeCsv"} -> "raised"
      [] pc \in Opening                          -> "openFailed"
      [] pc \in Looping /\ sel.save              -> "finish"
      [] OTHER                                   -> "closeCsv"

Raise == pc' = Handler /\ raising' = TRUE
Goto(next) == pc' = next /\ UNCHANGED raising

(* A fault of the world outside raises. *)
Fault(kind) == Raise /\ faults' = faults \cup {kind}

(* An autocommit statement or a transaction: it commits, it is refused and *)
(* changes nothing, or it commits and the connection is lost before the    *)
(* answer arrives.  A lost connection refuses everything.                  *)
Statement(effect, next) ==
    \/ /\ conn = "open" /\ effect /\ Goto(next)
       /\ UNCHANGED <<conn, faults>>
    \/ /\ conn' \in {conn, "lost"} /\ Fault("warehouse")
       /\ UNCHANGED dbVars
    \/ /\ conn = "open" /\ effect /\ conn' = "lost" /\ Fault("warehouse")

-----------------------------------------------------------------------------
(* Setup.                                                                  *)

BuildMatrix ==
    /\ pc = "build"
    /\ IF Accepts(sel) THEN Goto("csvOpen") ELSE Raise
    /\ UNCHANGED <<sel, at, report, observed, writerVars, csvVars, dbVars,
                   faults>>

(* IncrementalCsvWriter.__init__ *)
OpenCsv ==
    /\ pc = "csvOpen"
    /\ \/ Goto(IF sel.save THEN "connect" ELSE "solve") /\ UNCHANGED faults
       \/ Fault("csv")
    /\ UNCHANGED <<sel, at, report, observed, writerVars, csvVars, dbVars>>

Connect ==
    /\ pc = "connect"
    /\ \/ conn' = "open" /\ Goto("insertRun") /\ UNCHANGED faults
       \/ Fault("warehouse") /\ UNCHANGED conn
    /\ UNCHANGED <<sel, at, report, observed, recorded, rowIndex,
                   runInserted, csvVars, dbVars>>

InsertRun ==
    /\ pc = "insertRun"
    /\ Statement(/\ status' = "running"
                 /\ UNCHANGED <<entries, versions, rows, resultCount,
                                observedHash>>,
                 "noteRun")
    /\ UNCHANGED <<sel, at, report, observed, recorded, rowIndex,
                   runInserted, csvVars>>

NoteRun ==
    /\ pc = "noteRun"
    /\ runInserted' = TRUE
    /\ Goto("insertMatrix")
    /\ UNCHANGED <<sel, at, report, observed, recorded, rowIndex, conn,
                   csvVars, dbVars, faults>>

(* One transaction for the whole catalogue. *)
InsertExpectedMatrix ==
    /\ pc = "insertMatrix"
    /\ Statement(/\ entries' = Expected
                 /\ UNCHANGED <<status, versions, rows, resultCount,
                                observedHash>>,
                 "insertVersions")
    /\ UNCHANGED <<sel, at, report, observed, recorded, rowIndex,
                   runInserted, csvVars>>

(* One statement, and one commit, per solver. *)
InsertSolverVersion ==
    /\ pc = "insertVersions"
    /\ Statement(/\ versions' = versions + 1
                 /\ UNCHANGED <<status, entries, rows, resultCount,
                                observedHash>>,
                 IF versions + 1 < Len(sel.solvers) THEN "insertVersions"
                                                    ELSE "pushExit")
    /\ UNCHANGED <<sel, at, report, observed, recorded, rowIndex,
                   runInserted, csvVars>>

(* enter_context registers __exit__. *)
PushExit ==
    /\ pc = "pushExit"
    /\ Goto("solve")
    /\ UNCHANGED <<sel, at, report, observed, writerVars, csvVars, dbVars,
                   faults>>

-----------------------------------------------------------------------------
(* The loops.                                                              *)

(* watchdog_limit_seconds raises ValueError.  Start-up looks at the type   *)
(* of the two options only, and build has refused limits below a second.   *)
WatchdogRaises(s) == s.multiplier < 100 \/ s.grace < 0

(* It is called once per case and limit, before the first solver.          *)
RefuseWatchdog ==
    /\ pc = "solve" /\ at.s = 1 /\ WatchdogRaises(sel)
    /\ Raise
    /\ UNCHANGED <<sel, at, report, observed, writerVars, csvVars, dbVars,
                   faults>>

(* run_solver; an abort is its FairStartViolationError. *)
RunSolver ==
    /\ pc = "solve"
    /\ at.s = 1 => ~WatchdogRaises(sel)
    /\ Run!Next
    /\ IF report'.status = "abort" THEN Fault("solver")
       ELSE Goto("evaluate") /\ UNCHANGED faults
    /\ UNCHANGED <<sel, at, observed, writerVars, csvVars, dbVars>>

(* The benchmark's own evaluation runs only on a solution, and may raise. *)
Evaluate ==
    /\ pc = "evaluate"
    /\ \/ Goto("observe") /\ UNCHANGED faults
       \/ report.solution /\ Fault("solver")
    /\ UNCHANGED <<sel, at, report, observed, writerVars, csvVars, dbVars>>

(* matrix_tracker.observe_row *)
ObserveRow ==
    /\ pc = "observe"
    /\ IF Key \in Expected \ observed
       THEN observed' = observed \cup {Key} /\ Goto("csvWrite")
       ELSE Raise /\ UNCHANGED observed
    /\ UNCHANGED <<sel, at, report, writerVars, csvVars, dbVars, faults>>

(* After the row the loops move on. *)
Advance ==
    /\ report' = Run!Pending
    /\ IF IsLast(sel, at) THEN Goto("complete") /\ UNCHANGED at
       ELSE at' = Following(sel, at) /\ Goto("solve")

(* IncrementalCsvWriter.write_row: writerow fills the file's buffer ...    *)
BufferCsvRow ==
    /\ pc = "csvWrite"
    /\ \/ pending' = TRUE /\ Goto("csvFlush") /\ UNCHANGED faults
       \/ Fault("csv") /\ UNCHANGED pending
    /\ UNCHANGED <<sel, at, report, observed, writerVars, csv, dbVars>>

(* Mutant: the line stays in the buffer while the warehouse row is sent. *)
SkipFlush ==
    /\ pc = "csvFlush" /\ sel.save
    /\ Goto("pgWrite")
    /\ UNCHANGED <<sel, at, report, observed, writerVars, csvVars, dbVars,
                   faults>>

(* ... and flush puts it on disk; what a failing flush could not write     *)
(* stays in the buffer.                                                    *)
FlushCsvRow ==
    /\ pc = "csvFlush"
    /\ \/ /\ csv' = Append(csv, Key) /\ pending' = FALSE /\ UNCHANGED faults
          /\ IF sel.save THEN Goto("pgWrite") /\ UNCHANGED <<at, report>>
                         ELSE Advance
       \/ /\ Fault("csv") /\ UNCHANGED <<csvVars, at, report>>
    /\ UNCHANGED <<sel, observed, writerVars, dbVars>>

(* What the schema's unique keys and foreign keys admit. *)
RowAdmissible ==
    /\ status # "none"
    /\ Key \in entries /\ Key \notin DOMAIN rows
    /\ at.s <= versions
    /\ \A k \in DOMAIN rows : rows[k].index # rowIndex

(* Mutant: a row replaces the rows before it. *)
WithOnlyRow ==
    [k \in {Key} |-> [index |-> rowIndex, fair |-> report.fairStartValid]]

WithRow ==
    [k \in DOMAIN rows \cup {Key} |->
        IF k = Key THEN [index |-> rowIndex, fair |-> report.fairStartValid]
                   ELSE rows[k]]

(* PostgresResultWriter.write_row: the row and the count in one            *)
(* transaction.                                                            *)
WriteWarehouseRow ==
    /\ pc = "pgWrite"
    /\ IF Key \in Expected \ recorded /\ RowAdmissible
       THEN Statement(/\ rows' = WithRow
                      /\ resultCount' = rowIndex + 1
                      /\ UNCHANGED <<status, entries, versions, observedHash>>,
                      "mark")
       ELSE Raise /\ UNCHANGED <<conn, dbVars, faults>>
    /\ UNCHANGED <<sel, at, report, observed, recorded, rowIndex,
                   runInserted, csvVars>>

(* The end of write_row: the tracker first, then the index. *)
MarkObserved ==
    /\ pc = "mark"
    /\ recorded' = recorded \cup {Key}
    /\ Goto("index")
    /\ UNCHANGED <<sel, at, report, observed, rowIndex, runInserted, conn,
                   csvVars, dbVars, faults>>

CountRow ==
    /\ pc = "index"
    /\ rowIndex' = rowIndex + 1
    /\ Advance
    /\ UNCHANGED <<sel, observed, recorded, runInserted, conn, csvVars,
                   dbVars, faults>>

(* matrix_tracker.assert_complete, still inside the with block. *)
AssertComplete ==
    /\ pc = "complete"
    /\ IF Expected \subseteq observed
       THEN Goto(IF sel.save THEN "finish" ELSE "closeCsv")
       ELSE Raise
    /\ UNCHANGED <<sel, at, report, observed, writerVars, csvVars, dbVars,
                   faults>>

-----------------------------------------------------------------------------
(* Exit.                                                                   *)

(* Mutant: an exception in flight is overlooked and the matrix unchecked. *)
FinalStatusUnchecked == "completed"

FinalStatus ==
    IF ~raising /\ Expected \subseteq recorded THEN "completed" ELSE "failed"

(* Mutant: the index of the last row is taken for the number of rows. *)
CloseRunByLastIndex(newStatus) ==
    /\ status' = newStatus
    /\ resultCount' = rowIndex - 1
    /\ observedHash' = HashKeys(recorded)
    /\ UNCHANGED <<entries, versions, rows>>

(* _finish_run: one UPDATE that writes what the writer believes. *)
CloseRun(newStatus) ==
    /\ status' = newStatus
    /\ resultCount' = rowIndex
    /\ observedHash' = HashKeys(recorded)
    /\ UNCHANGED <<entries, versions, rows>>

(* PostgresResultWriter.__exit__ *)
FinishRun ==
    /\ pc = "finish"
    /\ Statement(CloseRun(FinalStatus), "closeCsv")
    /\ UNCHANGED <<sel, at, report, observed, recorded, rowIndex,
                   runInserted, csvVars>>

(* The handler of __enter__: an error of _finish_run itself is swallowed. *)
FinishAfterOpenFailure ==
    /\ pc = "openFailed"
    /\ IF runInserted THEN Statement(CloseRun("failed"), "closeCsv")
       ELSE Goto("closeCsv") /\ UNCHANGED <<conn, dbVars, faults>>
    /\ UNCHANGED <<sel, at, report, observed, recorded, rowIndex,
                   runInserted, csvVars>>

(* Mutant: the exits swallow the exception. *)
CloseCsvSwallowing ==
    /\ pc = "closeCsv"
    /\ Goto("returned")
    /\ UNCHANGED <<sel, at, report, observed, writerVars, csvVars, dbVars,
                   faults>>

(* close writes what is left in the buffer, and may fail; the lock is      *)
(* released either way.                                                    *)
CloseCsv ==
    /\ pc = "closeCsv"
    /\ \/ /\ Goto(IF raising THEN "raised" ELSE "returned")
          /\ csv' = IF pending THEN Append(csv, Key) ELSE csv
          /\ pending' = FALSE
          /\ UNCHANGED faults
       \/ Fault("csv") /\ UNCHANGED csvVars
    /\ UNCHANGED <<sel, at, report, observed, writerVars, dbVars>>

-----------------------------------------------------------------------------
(* KeyboardInterrupt between any two steps. *)
Interrupt ==
    /\ pc \notin Terminal
    /\ Fault("interrupt")
    /\ UNCHANGED <<sel, at, report, observed, writerVars, csvVars, dbVars>>

(* The process is killed: an open transaction is rolled back. *)
CrashHarness ==
    /\ pc \notin Terminal
    /\ pc' = "crashed" /\ faults' = faults \cup {"crash"}
    /\ UNCHANGED <<sel, raising, at, report, observed, writerVars, csvVars,
                   dbVars>>

Step ==
    \/ BuildMatrix \/ OpenCsv \/ Connect \/ InsertRun \/ NoteRun
    \/ InsertExpectedMatrix \/ InsertSolverVersion \/ PushExit
    \/ RefuseWatchdog \/ RunSolver \/ Evaluate \/ ObserveRow
    \/ BufferCsvRow \/ FlushCsvRow \/ WriteWarehouseRow
    \/ MarkObserved \/ CountRow \/ AssertComplete
    \/ FinishRun \/ FinishAfterOpenFailure \/ CloseCsv

Next == Step \/ Interrupt \/ CrashHarness

(* The harness is one thread that never waits for anything but run_solver, *)
(* which returns or raises.                                                *)
Spec == Init /\ [][Next]_vars /\ WF_vars(Step)

-----------------------------------------------------------------------------
(* Properties.                                                             *)

TypeInv ==
    /\ sel \in Selections /\ pc \in PCs /\ raising \in BOOLEAN
    /\ at \in [c : Nat, l : Nat, s : Nat]
    /\ report \in Run!Reports \cup {Run!Pending}
    /\ observed \subseteq Expected /\ recorded \subseteq Expected
    /\ rowIndex \in Nat /\ runInserted \in BOOLEAN
    /\ conn \in {"none", "open", "lost"}
    /\ csv \in Seq(Expected) /\ pending \in BOOLEAN
    /\ status \in {"none", "running", "completed", "failed"}
    /\ entries \subseteq Expected /\ versions \in Nat
    /\ DOMAIN rows \subseteq Expected
    /\ rows \in [DOMAIN rows -> [index : Nat, fair : BOOLEAN]]
    /\ resultCount \in Nat
    /\ observedHash \in {HashKeys(keys) : keys \in SUBSET Expected}
                            \cup {NoHash}
    /\ faults \subseteq FaultKinds

(* A completed run is the exact matrix in every table, in the CSV file and *)
(* in the two trackers' digest, with row indices without a gap, whatever   *)
(* failed on the way.                                                      *)
CompletedIsExact ==
    status = "completed" =>
        /\ DOMAIN rows = Expected /\ entries = Expected
        /\ CsvKeys = Expected /\ ~pending
        /\ resultCount = Cardinality(Expected)
        /\ {rows[k].index : k \in DOMAIN rows} = 0 .. resultCount - 1
        /\ observedHash = HashKeys(Expected)
        /\ versions = Len(sel.solvers)

(* The CSV file holds a line for every warehouse row, none of them twice,  *)
(* although the two are written one after the other without a transaction. *)
CsvCoversWarehouse ==
    /\ DOMAIN rows \subseteq CsvKeys
    /\ HasNoDuplicates(csv)

(* result_count never promises a row that is not there, and lags behind by *)
(* the one row whose write was interrupted at most.                        *)
CountLagsByOne ==
    /\ resultCount \in {Cardinality(DOMAIN rows),
                        Cardinality(DOMAIN rows) - 1}
    /\ status # "failed" => resultCount = Cardinality(DOMAIN rows)

(* README: benchmark_run_matrix_entries stores every expected key before   *)
(* the first solver starts; and so are the versions the rows refer to.     *)
CatalogueBeforeSolvers ==
    sel.save /\ (report # Run!Pending \/ observed # {}) =>
        entries = Expected /\ versions = Len(sel.solvers)

(* A run goes wrong for a reason: an accepted selection runs to its end    *)
(* without a fault from outside (no check of the trackers or the schema    *)
(* fires) unless its watchdog options are out of range, and then it fails  *)
(* before the first solver, with both stores open and empty; no solver,    *)
(* evaluation, CSV or watchdog failure leaves a run "running"; and         *)
(* run_benchmark returns normally only with both stores complete.          *)
BadEndsHaveCauses ==
    /\ raising /\ Accepts(sel) => faults # {} \/ WatchdogRaises(sel)
    /\ WatchdogRaises(sel) =>
            report = Run!Pending /\ observed = {} /\ csv = <<>>
                                /\ status # "completed"
    /\ status = "running" /\ pc \in Terminal =>
            faults \cap {"warehouse", "interrupt", "crash"} # {}
    /\ pc = "returned" =>
            /\ CsvKeys = Expected /\ ~pending
            /\ sel.save => status = "completed"

Closed == status \in {"completed", "failed"}

(* A closed run is final: nothing that run_benchmark still does reaches    *)
(* the rows, the counters or the status of a completed or failed run.      *)
ClosedIsFinal == [][Closed => UNCHANGED dbVars]_vars

(* run_benchmark ends, on every path through the handlers.                 *)
Ends == <>(pc \in Terminal)

(* Every run implements the ledger its readers rely on.                    *)
Ledger == INSTANCE RunLedger WITH expected <- Expected, keys <- DOMAIN rows
ImplementsLedger == Ledger!Spec
=============================================================================
