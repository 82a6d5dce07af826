# A TLA+ verification project for solverforge-bench

`solverforge-bench` runs optimisation solvers (SolverForge, Timefold, OR-Tools, HiGHS, PyVRP,
VROOM and others) on three problems (CVRP, INRC-II employee scheduling, job shop) and publishes
the results: it forks one process per invocation, kills it when its watchdog fires, records
every row in a CSV file and in a PostgreSQL warehouse, decides in SQL which runs may be
published, and shows them on a Rails dashboard. A wrong row there is a public, wrong claim about
somebody's solver. This project models the parts of the program that decide which rows exist,
what the numbers in them mean and which are public, checks them with TLC and proves the most
important of their properties with TLAPS. Paths below are relative to the repository.

Contents: 1 the system · 2 modules and how they follow the code · 3 runs · 4 bounds · 5 fairness ·
6 proofs · 7 where code and documentation disagree · 8 what is not modelled · 9 plan.

## 1. The system

| Component | State it keeps | Operations | Talks to |
|---|---|---|---|
| Solver execution, `src/solverforge_bench/execution.py` | result message and last witness received, deadline, the child process | `run_solver`; in the child `_run_solver_child`, `record_witness`; `_collect_child_messages`; `_terminate_process_tree` | forks a child; `multiprocessing.Queue`; signals |
| Fair-start contract, `fair_start.py` | the witness | validation of a witness's fields | adapters, execution |
| Benchmark runner, `runner.py` | tracker of observed keys, exit stack, lock file | `run_benchmark`, `_evaluate`, `_row`, lock helpers | all of the above and below |
| Exact run matrix, `matrix.py` | expected keys, observed keys | `build`, `observe_row`, `assert_complete`, `hash_keys` | runner, PostgreSQL writer |
| PostgreSQL writer, `postgres.py` | own tracker, row index, connection | `__enter__` (run, catalogue, versions), `write_row`, `__exit__`/`_finish_run`, `worktree_provenance` | warehouse, git |
| CSV writer, `csv.py` | file and its buffer | open, `write_row`, `close` | file system |
| Warehouse, `migrations/*.sql` | runs, matrix entries, versions, results, references | schema constraints, latest views, publication audit, retraction migrations | writers, dashboard |
| Dashboard, `dash/` | one request's snapshot object | filter options, then panels | warehouse views |
| Solver versions, `solver_versions.py` | cached digests | resolve package, binary, JAR | make targets' builds |
| Configuration, `cli.py`, `config.py`, `registry.py` | namespace of options | two passes over argv, TOML file, defaults, tag rules | runner |
| Case selection, `spec.py` of each problem, employee `loader.py`, `references.py` | none | enumerate a corpus, apply the options, resolve references | runner, matrix |
| CPU lock, `Makefile`, `runner.py` | flock per core | build, lock, taskset, unlock | concurrent runs |
| Log capture, redaction, failure text | bounded tail of text | capture, redact | execution |
| Problem definitions (`spec.py`, `loader.py`, `validation.py` of each problem) | none | parse, evaluate, validate | runner |
| Solver adapters (Rust/PyO3, Java, C++, Python) | the model | build the model, solve, convert the answer | child process |
| References, thread study, guardrails, re-audit | files, reference tables | generate, load, compare, report | warehouse |

What is hard about it, and hence what the models contain:

* **Concurrency.** In one invocation four parties interleave: the parent, the child's main thread,
  the feeder thread of the child's queue, and the helper (JVM, native binary) the child may run.
  A PyO3 adapter keeps the interpreter lock and with it the feeder still. Several runs share a
  core through `flock`, and a warehouse through transactions, with the dashboard reading in
  between.
* **Failure.** A child crashes, unwinds without a result or is killed inside a pipe write; a
  statement is refused, or commits and the answer is lost; the disk fills up in the middle of a
  CSV line; Ctrl-C raises between any two steps; the harness is killed.
* **Ordering.** The result passes through a buffer, a thread and a pipe, and is polled in three
  places; the CSV row precedes the warehouse row, the commit precedes the tracker, the tracker
  precedes the counter; builds and digests precede the lock.
* **Three-valued logic.** The audit is a conjunction over nullable columns.
* **One problem, written down many times.** A solver minimises what its adapter gives it: columns
  and rows, constraints on slots, vehicles and arcs. Another piece of code grades the answer. A
  term missing from one of them, a big-M one too small or a border day treated differently gives
  a solver another problem than its competitors, and no row looks wrong.
* **Options with several origins.** A value may come from the command line, two levels of a TOML file
  or a default; four rules depend on which it was, at a moment when some are already merged.

What makes each part correct, in one line each: an invocation yields one row and it is what the
child said; a completed run is the exact matrix in every store; a closed run is final; only
attested, exact, clean runs are public, and every other run has a reason; solvers on one core
serialize; the recorded binary is the invoked one; a validator accepts exactly the feasible
solutions, and every adapter searches all of them for what the validator charges; a run grades the
cases it was asked for, under the options that were given.

## 2. Modules

```
Invocation        <- SolverExecution   <- SolverExecution_proofs
    ^
    | INSTANCE (the solve step)
RunLedger <- RunLifecycle <- RunLifecycle_proofs      MCRunLifecycle
                 ^
                 | EXTENDS
           BenchmarkMatrix
                 | EXTENDS
                 v
Selection <- Startup      <- Launch_proofs            MCStartup
PublicationAudit <- Warehouse <- Warehouse_proofs     MCWarehouse
BenchLock         <- Launch_proofs                    MCBenchLock
JobShop           <- JobShop_proofs                   MCJobShop
Cvrp              <- Cvrp_proofs                      MCCvrp
NurseRuns         <- Nurse_proofs                     MCNurseRuns
    ^
    | INSTANCE (the costs of runs)
NurseRoster       <- Nurse_proofs                     MCNurseRoster

FoldTheorems (sums over finite sets, sequences laid    used by Cvrp_proofs, JobShop_proofs,
              end to end, least elements,                       Launch_proofs, Nurse_proofs,
              induction up to a number)                         Warehouse_proofs
```

`A <- B`: B extends A or implements it. In the order of a run: `Startup` ends where `RunLifecycle`
begins, with an accepted selection; its solve step is `Invocation`; what its evaluation computes is
`JobShop`, `Cvrp` or `NurseRoster`; what its statements leave behind is read by `Warehouse`.

**`Invocation`** is the contract of one `run_solver` call: one report, out of a set `Reports` that
relates status, solution, witness and fairness. `SolverExecution` implements it, `RunLifecycle`
uses it as its solve step, so the two levels compose.

**`SolverExecution`** is `run_solver` and its child. `pc` is the parent's place: `loop` is the
`while` test, `drain`, `drainKilled` and `drainExited` the three calls of
`_collect_child_messages`, `terminate`, `joinTerminated` and `joinKilled` the lines of
`_terminate_process_tree`. `child` goes from `forked` over `adapter` and `solving` to `teardown`
and `exited`. The queue is what `multiprocessing.Queue` is: an unbounded buffer in the child
(`buffer`), emptied by a feeder thread into a pipe (`pipe`, `partial`); a message that exceeds the
pipe goes in two parts, and the reader that has seen the first part is in `recv_bytes`, beyond
its timeout. Witnesses are their emission numbers. Time is one bit, `late`; every bounded wait
may end at any time. The adapter's kind says whether the solve keeps the interpreter lock
(`solve_jssp` and its siblings in Rust do) or runs in a helper process.

**`BenchmarkMatrix`** has the pure part of `matrix.py`: which selections are accepted, the keys, the
order of the three loops, the digest. **`RunLifecycle`** is one call of `run_benchmark`, one action
per statement that can fail on its own. `Statement` is the shape of every SQL step: it commits;
it is refused; or it commits and the connection is lost before the answer. `Raise` sends control
to the handler that is registered *at that moment* (`Handler`), which is what the code's `with`
blocks and `ExitStack` do; in particular an interrupt between the return of `__enter__` and the
registration of `__exit__` finds no handler. `RefuseWatchdog` is `watchdog_limit_seconds` inside the
loops, the only place that looks at the range of the two watchdog options. `RowAdmissible` is what the schema's unique and
foreign keys accept. **`RunLedger`** is the abstract promise to readers of the warehouse: a run is
opened once, gains one expected row at a time, is completed only with all of them, and is then
closed for good.

**`PublicationAudit`** has `worktree_provenance`, and the view `benchmark_run_publication_audit` in
SQL's three-valued logic. **`Warehouse`** has several runs with one action per commit of a writer,
legacy runs from before the expected matrix, whole-run retraction, the latest views, and the
dashboard's queries, each its own transaction. Every run starts from a work tree of its own
(`tree`), and what its columns say of it is what git reported.

**`BenchLock`** has several make targets on one machine: the unlocked build, the digests, `flock` with
its real ownership rule (the lock belongs to the open file description: the solver child inherits
it, the helper does not because Python opens files close-on-exec), the rows, the release on
success and on Ctrl-C, and the death of a harness whose child lives on.

**`JobShop`** is one row of the job-shop benchmark, from the instance file over each of the five adapters
to the verdict. Three adapters get machine orders from their solver and compute start times with
a topological pass that exists three times: `evaluate_schedule` in Rust (a FIFO queue), the same
class in Java (a deque), `_schedule_metrics` in Python (a sorted list). `Process(x)` takes any ready
operation, so what holds of the model holds of the three queues; what differs between the copies
(edges with or without repetition, refusing before or after the graph is built) is in `Edges` and
`RefuseAssignment`. The other two adapters hand a mathematical model to a library: `HighsAllows` and
`OrtoolsAllows` are the rows they build, and the solver may return any point the rows allow. The
adapter `other` hands the validator anything at all. `Windows` sorts as Python's tuple comparison
does. The search itself, the score that steers it (SolverForge's stock constraint, Timefold's easy
score) and CP-SAT's `AddNoOverlap` belong to the libraries: an order or a point is an input.
Guards on a machine number outside the instance cannot be reached, since `build_plan` numbers the
machines itself, and are left out.

**`Cvrp`** is one row of the routing benchmark. `HighsAdmits` has HiGHS's rows: degrees, the load that
links to the arcs, its conservation and the depot's total. `SkipFirst`, `StartRoute`, `Visit`,
`CloseRoute` and `HighsReturns` are `_extract_routes`, one loop test or body at a time, with each of
its guards as a phase (`ambiguous`, `cycle`, `unserved`, `mismatch`). The other eight adapters are
calls of routing libraries: `Model` says how many vehicles each is given, which constraints are
only scored, which answers may leave customers out (`MayLeaveOut`: nobody looks at VROOM's and vrp-rust's
unassigned jobs; `MayComeEmpty`: HGS without a feasible individual), and `Outcome` which answers the adapter
refuses by itself. `WithinGap` is what HiGHS means by kOptimal: its relative gap, which the adapter leaves
at a ten-thousandth. The status is a witness variable (`optimal`): the row does not carry it. `Validate` has the
validator's errors in the order it raises them. Weights are integers, since every part of the code rounds a
distance the same way before it uses it.

**`NurseRuns`** is the hardest term of the INRC-II cost: runs of days at work, off, or on one shift
type, with the run the history left open in front and without a minimum at the end. Three pieces
of code charge it, and the model feeds them the same days, one at a time: the validator's loop
(`ValidatorDay`), HiGHS's run-length columns with their big-M rows and released penalties
(`HighsDay`: a penalty is minimised, so it is the least its rows allow) and the presence runs of
the Python engine (`PresenceDay`).

**`NurseRoster`** is one row of the employee benchmark. The rules of the problem are there three times, as
in the code: `Validates` and `Breakdown` for the validator, `HardScore` and `SoftScore` over shift
slots for the engines, `Admits` and `Objective` over columns for CP-SAT and HiGHS. An engine
assigns and unassigns slots in any order and may return at any time; its incremental score may
have drifted from the plan (`Drifts`). A model's solver returns any admitted point, an optimal
one only if it says so; HiGHS's gap of a ten-thousandth is less than a unit for costs below 10000, as
those of the instances are. `Evaluate` is the spec's row with `validator_model_delta` and
`score_drift`. The costs of runs are `NurseRuns`' operator `CostOverRuns`, which that module
shows to be what all three charge. Every rule is an operator on an instance (`Slots(i)`, `Breakdown(i, roster)`);
only the actions and the properties at the end read the variable `instance`.

**`Selection`** has the `cases` methods of the three specs with the readers of the corpora: shipped
solution directories, leading weeks, the manifest's tuples and groups, instance lists with a slice,
and what the reference catalogue must resolve. **`Startup`** is the way there: `LoadConfig`
(`config_path_from_argv`, which knows only the spelling `--config`), `ParseArguments` (argparse, which
takes abbreviations and keeps the last), `ApplyConfig`, `FinalizeDefaults`, `FinalizeRunCatalog`, then
the checks of `run_benchmark` in their order, that of the log level among them (`ConfigureLogging`). An option is a set: empty when it is None. A situation is a
command line with the files and the corpus it meets.

The `*_proofs` modules hold the theorems. Definitions whose comment begins with "Mutant" are
broken variants of the definition that follows; no specification uses them, they exist to show
that a property notices the bug.

## 3. Runs

| Run | Question | Properties |
|---|---|---|
| `execution` | Does one invocation report what the child said, under every schedule, crash and message size? | `TypeInv`, `OrderlyExitIsReported`, `HangsOnlyOnTornMessage`, `NoRunawayChild`, `ImplementsInvocation` |
| `execution_hang`, `execution_witness` | counterexamples, section 7 | `Returns`, `KilledRowKnowsItsWitness` |
| `lifecycle` | What do the stores hold after any sequence of faults in a whole run? | `TypeInv`, `CompletedIsExact`, `CsvCoversWarehouse`, `BadEndsHaveCauses`, `Ends`, `ImplementsLedger` |
| `warehouse` | What do readers see while two runs are written, fail or are retracted, and which runs pass the publication gate? | `TypeInv`, `QueriesSeeWholeRuns`, `PublishedIsAttested`, `RejectedIsExplained`, `PublicMovesForward` |
| `locks` | Do runs on one core serialize, and does everybody get a turn? | `TypeInv`, `OverlapIsLeftover`, `TurnComes` |
| `locks_provenance` | counterexample, section 7 | `RecordedIsInvoked` |
| `job_shop` | Is what an adapter publishes feasible, what it refuses broken, and does the validator know? | `TypeInv`, `PublishedIsFeasible`, `VerdictIsFeasibility`, `EveryModelAllowsIt` |
| `cvrp` | Are HiGHS's arcs always routes, and do all nine adapters solve the problem the validator grades? | `TypeInv`, `ExtractionServesEveryone`, `RowIsService`, `EveryModelAllowsIt`, `OptimalIsWithinGap` |
| `nurse_runs` | Do three ways of charging for runs of days charge the same? | `TypeInv`, `CostsAgree`, `CostIsOverRuns` |
| `nurse_roster` | Do slots, columns and validator agree on which rosters are allowed and what they cost? | `RosterTypeInv`, `ModelIsValidator`, `HardScoreIsVerdict`, `RowsAdmitTheValid`, `OptimalIsBest` |
| `startup` | Whose option wins, which tag may a run carry, which cases does it grade? | `EveryOptionHasItsSource`, `TagsAreTruthful`, `SelectionIsExact`, `TagFileFitsOtherKinds` |

Each property of a passing run is shown to be sensitive by a mutant of a definition that models
code. `Startup` has no type invariant of its own: its options are checked value by value.

What the less obvious ones say:

* `BadEndsHaveCauses`: once a selection was accepted, a run goes wrong only through a fault from outside or
  watchdog options out of range, which fail it before its first solver; neither tracker and no check of the schema
  ever fires. A run that stays "running" for good met a warehouse
  fault, an interrupt or a kill; and a normal return means two complete stores. The loops, the
  trackers, the catalogue and the unique keys therefore agree on what the matrix is.
* `QueriesSeeWholeRuns`: a query shows a run whole or not at all. The filter choices come from a query of their
  own, before the panels', so they may be of a run that is no longer the latest; then the panels
  have each choice in a later run of the group, unless a retraction took one of the two runs away.
* `HangsOnlyOnTornMessage`: `run_solver` returns, except when a kill tears a large message.
* `RejectedIsExplained`: the audit's reasons are the gate's verdict. The one exception is part of the
  statement: a run from outside a repository is withheld without a reason.
* `PublicMovesForward`: a published run stays as it was published until it is retracted whole, and the
  latest of a group is replaced only by one completed later.
* `VerdictIsFeasibility`: the validator sorts the windows of a machine by start and end and compares
  neighbours. That this equals the pairwise definition is not evident where operations last zero
  time units and share a start, and a sort by start alone is wrong there. It also says that a list
  adapter refuses exactly the orders that are incomplete or circular: the pass finds a circle by
  what it could not start, the definition by a set of operations each waiting for another.
* `EveryModelAllowsIt`, `RowsAdmitTheValid`: a benchmark compares solvers on one search space. A horizon, a
  fleet or a big-M too small by one would quietly take answers away from one of them.
* `ExtractionServesEveryone`: HiGHS has no subtour rows. Only the load keeps a cycle of customers out.
* `RowIsService`: the validator accepts the services and nothing else. It also says who may be refused for
  what: HiGHS, OR-Tools and PyVRP never; VROOM and vrp-rust only for customers left out; HGS only for no routes at all.
* `OptimalIsBest`: an employee row that claims optimality cannot be beaten by any row of a competitor.
  `OptimalIsWithinGap`: a routing row whose solve ended with kOptimal can be, by up to HiGHS's gap, which is a
  unit or more from a cost of 10000 on.
* `ModelIsValidator`: the cost a solver minimised is the cost it is graded by.
* `SelectionIsExact`: a case of the employee corpus may be found three ways; the matrix refuses a case
  found twice, and nobody notices one found by none.
* `TagFileFitsOtherKinds`: the tag rules refuse a command only for what the README names.
* `TurnComes`: a waiting run gets the lock unless an orphan with an unread large result has it.

Some properties are proved and have no run, because a stronger one of the list or the proof itself covers
them: `SolutionIsFair`, `NoEarlySignal`, `CountLagsByOne`, `CatalogueBeforeSolvers`, `ClosedIsFinal`,
`NoIdleStart`, `LockHasAProcess`, `SameCoreSerializes`. `CountLagsByOne` is worth knowing: `result_count`
is written in the transaction of the row, but the exit handler overwrites it with the writer's own
counter, so an interrupt between the two leaves it one behind, never ahead, and only in a failed run.

## 4. Bounds, and why they are enough

* `SolverExecution`: at most 2 emitted witnesses besides the result's (an older, a newer and the
  result's are all there is to confuse), a pipe of 2 small messages (one below and one at
  capacity), small and large results. 
* `RunLifecycle`: selections with two cases, two solvers or two limits, so that every loop goes
  round and turns over at least once, and one selection with two loops longer than one; all seven
  ways `build` rejects; watchdog multipliers of 99, 100 and 125 hundredths, a grace of -1, 0 and 5
  seconds. A fault may hit at any step and any number of times.
* `Warehouse`: two runs of one benchmark, a matrix of two solvers at one limit, and five trees: clean up
  to files git quotes or the rule does not count, a tracked change, an untracked source file, a
  changed tree whose `git status` fails, and no repository. Runs and solvers are symmetric: nothing
  compares their names.
* `BenchLock`: two runs on one core, two rows each, one rebuild. `Rows` and `MaxBuilds` are the
  bounds; the theorems hold for any.
* `JobShop`: up to four operations on two machines, with empty operations, two operations of a job on
  one machine, and a file with more rows than its header announces; every pair of machine orders
  with at most four entries, an unknown operation among them; for the validator, every schedule
  with starts from -1 to 3, and with one entry dropped, repeated, unknown or altered. A circle
  needs two jobs and two machines, a wrong neighbour comparison three windows.
* `Cvrp`: three customers, enough for a route of two beside one of one and for a cycle beside a route;
  demands, capacities and weights (twenty-seven instances: three of each) that let one, two or all share a route, make
  sharing pay or not, make the order matter, or leave a customer nobody can serve; one of the weights is large enough
  for HiGHS's gap to be worth more than a unit.
* `NurseRuns`: one week, every sequence of days, seven pairs of bounds below, at and above what a week
  holds, histories of 0, 1, 2 and 6 days that are or are not a run of the counter, both
  complement cases.
* `NurseRoster`: two weeks, two nurses, two shift types, one forbidden succession, six instances: inside
  a week, across the border of weeks and of the history, requests, complete weekends, a skill nobody
  has (required, optional, or asked for by nobody); scores exact or off by ten.
* `Startup`: five families of situations, each varying what one property is about: tags (a benchmark, kind
  and tag from the command, the file, both or neither; `--config` in every spelling and order), saving
  (flag and URL from both places), the log level (known or not, from both places), the tables of the file (every benchmark and every way a selection
  is refused), and the corpora (solution directories whole, partial, odd or double; manifests absent,
  empty, repeated, dangling or with weeks that do not exist).

The proofs remove the bounds from the properties they cover.

## 5. Fairness

* `SolverExecution`: weak fairness of the parent, the feeder, the clock, signal delivery, the exit
  of a child that is past its adapter, and of the end of a helper that got SIGKILL. Nothing obliges
  a solver, an adapter or an unsignalled helper to finish; the watchdog exists for that.
* `RunLifecycle`: weak fairness of `Step`: the harness is one thread and waits for nothing but
  `run_solver`. Faults are never obliged to happen.
* `BenchLock`: weak fairness of each run's steps: processes are scheduled, a helper's budget is
  bounded, `flock` gives a free lock to a waiter. No starvation among waiters is excluded by
  weak fairness alone; a run makes finitely many rows, so its competitors leave the queue.
* `Warehouse`, `Startup`, `JobShop`, `Cvrp`, `NurseRuns` and `NurseRoster` state safety only: no
  writer or reader owes a step, and no solver an answer.

## 6. What is proved

All of it for every value of the constants that satisfies the named assumptions, with TLAPS
(Z3, Zenon, LS4); TLC evaluates the assumptions on every run.

**`SolverExecution_proofs`** (any number of witnesses, any pipe capacity): `TypeCorrect`,
`SolutionsAreFair`, `NothingSignalledEarly`, `OrderlyExits`, `Refinement` (each step is a step of
`Invocation` or a stutter). None is inductive alone. The invariant adds: the only result message in
the buffer, the pipe or the parent's hands is the one the child put; a result names a witness
unless it is fatal; the child puts at most one and emits below the bound until then; the parent is
only at a terminating step when late; and an outcome exists exactly at `done`. `OrderlyExits` needs a
second one about delivery: a result that was put is in the parent's hands or on its way, in pipe or
buffer (`ResultArrives`); the newest witness on its way is the child's latest, and with none on its
way the parent has it (`WitnessArrives`); and a child that exited has emptied its buffer, while the
last poll only ends on an empty pipe.

**`RunLifecycle_proofs`** (every selection of any size, assumption `SelectionsAssumption`: a selection is
three finite sequences, a flag and the two watchdog options): `TypeCorrect`, `CompletedExact`, `CsvCovers`, `CountLags`,
`CatalogueFirst`, `ClosedFinal`, `BadEnds`, `Implements`. The invariant `IInv` has a part per
question a failing induction asked:

* `AtInv`: in the loops the selection was accepted, `at` is one of its places, nothing is in flight;
* `StatusInv`: what the run's status is at each place, so that no second `_finish_run` follows a close;
* `CatalogueInv`: how much of the catalogue is there at each step of `__enter__`;
* `ChainInv`: recorded ⊆ rows ⊆ CSV ⊆ observed, and by how much each may be behind at each place.
  A completed run closes the chain: expected ⊆ recorded at its top, observed ⊆ expected by type;
* `CsvInv`: the CSV buffer's line is one that is not in the file, so a late write at `close` never
  duplicates;
* `CountInv`: the number of rows is `rowIndex` or one more, and their indices have no gap.

`BadEnds` needs that no check fires by itself, and so the order of the loops. `VisitInv`: the runner's
tracker has seen exactly the places that precede `at` lexicographically (`FollowingIsNext`,
`AllMetAtLast`), so no key is met twice (`KeyIsNew`: the selection has no duplicates) and none is
missing at the end. `FollowInv`: the writer's tracker is that set, or one row behind it. `CauseInv`:
which fault is behind each raise and each open run, and that with watchdog options out of range nothing has been
solved or written. `RowIsAdmitted` concludes that the schema's
unique and foreign keys admit every row.

**`Launch_proofs`** is about what happens before and around a run, in two parts. Of `BenchLock` (any number of
runs, locks, cores and rows; assumptions `HarnessAssumption`, `BoundAssumption`, `FaultAssumption`) it
proves `LockTypeCorrect`; `NoLockLeaks`; and, if runs that share a core are
given the same lock, `OverlapsAreLeftovers` under every fault and `Serializes` when nobody presses
Ctrl-C and no helper outlives a watchdog kill. The invariant says who holds the lock at each
place, and that an orphaned child still has it.

**`JobShop_proofs`** (every instance, every machine order, every order of the queue): `TypeCorrect`,
`OnlyFeasibleIsPublished`, `NothingIdles`, `ModelsAllowIt`, `VerdictsAreRight`: all properties of the run and
one more. The invariant has two parts that hold inside the loop:

* `Pass`: an operation's in-degree is the number of its edges from operations not yet started; what is
  started or ready has none; each start is final, no start precedes the end of a started
  predecessor, and each push came from one;
* `Chain`: if nothing is misplaced, repeated or missing, what stands before a started operation on its
  machine is started and ends in time. The edges join neighbours only; this lifts them to all pairs
  of a machine, which is what feasibility says.

`ModelsAllowIt` rests on `Bounded`: no start and no end found so far exceeds the total duration of the
operations already started, so none is beyond the sum of all (`WithinHorizon`), and big-M leaves room
for a pair at either end (`FeasibleIsAllowed`). `VerdictsAreRight` has three parts:

* *The pass refuses exactly the unsound.* `InOrder`: what is neither started nor ready waits for something, and
  every set of started operations has a member that none of the others precedes. When the queue runs
  empty too early, the operations left therefore wait in a circle (`RefusedIsUnsound`); when all are
  started, there is no circle (`PublishedIsSound`). `NoPenaltyIsInPlace` ties the counters to the orders.
* *Comparing neighbours is enough.* `SortedExists`: the windows of a machine have an order that `sort` may
  leave (a least set without one would lose its last window). `NeighboursDecide`: by (start, end), and with
  windows of no length among them, neighbours are apart if and only if all pairs are. Sorting by start
  alone would not do; that is the mutant.
* *The cost is the latest end*, which is what each adapter reported (`CostOfAnswer`, `PublishedPasses`).

`FilesAssumption` is what the bundled files satisfy and the parsers check: machine numbers below the announced
count, durations that are natural numbers, at least one operation; and that a solver's answer is a finite sequence.

**`Warehouse_proofs`** (any number of runs and groups, any matrix, any trees): `TypeCorrect`,
`PublishedAttested`, `QueriesWhole`, `MovesForward`, `RejectionsExplained`: all five properties of
the run. The invariant `IInv` has a record type and three parts per run: `Unopened`; `Open`, that
entries precede versions and versions precede rows; and `Whole`, that a completed run is
an old one without a matrix or has everything. Only with them can the exit handler's
UPDATE be shown to complete a run whose rows are the matrix. `WholeFacts` says the same of what a
reader keeps. `QueriesWhole` needs a second one, `ChoicesInv`: the runs a request has read of are completed still or
retracted (`CompletedMoves`, `RetractedStays`), and what the panels then show is of a run not older (`LatestOfGroup`:
a completed run's group has a latest one). `MatrixAssumption`: there is something to solve.

**`Cvrp_proofs`** (any number of customers, any instance): `CvrpTypes`, `ExtractionIsTotal`, `RowsAreServices`,
`ModelsAllowServices`, `OptimaAreWithinGap`: all five properties of the run. `InstancesAssumption`: each customer
demands at least one, weights are natural numbers. For the walk, `NoCycleAside` is the heart of
it: customers off the walk would lead to each other only, and the one of them that is left with the
least load would hand on less still. The invariant `IInv`
says where the walk stands: whoever is behind it was entered from the depot or from someone behind
it, and leads to the depot, to someone behind it or to the next node. The rest is about rows:

* *What the walk has strung together lies along HiGHS's arcs* (`Woven`, in `RowInv`): the routes closed so far and the
  open one share no stop and use arcs of the solution only. When everyone is served no arc
  is left over (`RoutesUseAllArcs`: each node has one way in, one way out), so the cost the harness
  recomputes is the objective HiGHS minimised (`CostIsArcs`), and the gap (`WithinGap`) carries over to the row.
* *The load fits.* What leaves the depot on a route's first arc is at least the demand of its stops (`LoadFits`, from
  the last leg backwards), and no arc carries more than the capacity.
* *The validator accepts exactly the services* (`ValidateIsService`): its list of stops, which it compares with a
  set and a count, against one visit for each customer; its loads, summed stop by stop, against sums over sets.
* *No model rules a service out* (`ServiceIsAdmitted`, `CutIsRouted`). Let each arc carry what is asked ahead of it on its
  route: the degree, conservation and capacity rows hold leg by leg, and the depot's row is a sum over
  the first legs, route by route (`DepotSends`).

**`Nurse_proofs`** is about the employee benchmark's costs, in two parts. Of `NurseRuns` (any horizon, bounds and history) it
proves `RunTypes`, `RunCostsAgree` and `RunCostIsOverRuns`. `RowsPinTheRun`
shows that the five rows of a day leave one length, `PenaltyIsClosedCost` and `EndPenaltyIsMaxCost`
that the least penalties are the costs. The invariant `Books` relates the three
positions: the column is the validator's counter, and what the presence runs have not charged yet is
the open run or the history's. For `RunCostIsOverRuns` the invariant `Account`
says that the cost so far is the sum over the runs a day off has closed, and that the open run began
where `start` says; a closing day adds one pair to that set, the last day the open one (`FoldTheorems`).
`CasesAssumption` has what the competition's files satisfy and the code
presumes: a minimum is at most its maximum and within reach.

Of `NurseRoster` (any number of weeks, any instance) it proves `RosterTypes`, `RowsAreCostedAlike`, `HardScoresAreVerdicts`,
`RowsAdmitExactly` and `OptimaCostLeast`: all five properties of the run. Most of it is about rosters, not steps:

* *One assignment, three names.* A filled slot is an entry of the roster (`EntryIs`, `EntryTells`), and where nobody works
  twice a day an entry is a column (`ColumnsAreEntries`); so what holds of every filled slot, or of every two, holds of every
  entry (`EntriesAreSlots`). `SameNurseDayIs`, `SuccessionIs`, `SkilledIs` turn each hard constraint into
  a check of the validator (`HardScoreIs`), `WorkRowsAre`, `SuccessionRowsAre`, `AssignedIs` each
  row (`ValidIsAdmitted`, `AdmittedIsValid`).
* *Sums over different sets.* The validator counts requests that are violated, the engine adds up over filled slots, the models over
  columns: a request names a nurse and a day, so at most one entry goes against it (`AskedOnce`), and the blocks of
  requests are disjoint (`WeighedBlocks`). The same for open slots against uncovered requirements (`OpenSlotsCost`).
  A nurse's days are her entries, slots and columns (`DaysAreEntries`); her cost for no shift plus the delta is
  her cost (`SlotCostsAre`). Hence `ObjectiveIsBreakdown` for the models and `SoftScoreIs` for the engines.
* *`SoftScoreIs` needs the required slots filled*, which `ReturnPlan` checks and `ReturnTimefold` does not. For Timefold the invariant
  has `MinimumFirst`: a required slot of a requirement is filled before an optional one and never emptied, so
  a roster with the minimum covered has none open (`MinimumIsFilled`).
* *The optimum.* A valid roster of any plan is an admitted set of columns of the same worth (`ValidIsWorth`), so
  the least objective is at most its breakdown.

The invariant `RosterIInv` says that a plan is made of candidates (`SoundPlan`), what a result
comes from (`FromPlan`, `FromColumns`) and that the row is computed from that result (`RowFits`).
`InstancesAssumption` says of the files what the code presumes without a check: no requirement's minimum exceeds its
optimum (else the engines have too few slots), no contract's minimum exceeds its maximum (else the
engines' IF and the validator's sum differ), and HiGHS's bound on a column leaves the minimum within reach.

Of `Startup` (any command lines, files and corpora) it proves `OptionsHaveSources`, `RunTagsAreTruthful`,
`TagRulesRefuseOnlyMistakes` and `SelectionsAreExact`. The invariant follows an option from stage to stage: what the loaded
file gives a benchmark (`ConfigInv`), that there is one benchmark and no option of another
(`ShapeInv`), and which of command, file and default it comes from. `CommandsAreWellFormed` and
`FilesAreWellFormed` say that an option has one value at most; `DefaultsAreSound`, that the defaults are accepted.
`SelectionsAreExact` reads the lists of `Selection` as sets with no repetition: what `Keep` leaves (`KeepHolds`), what
`AddAll` adds (`AddAllFacts`), what the families' lists hold laid end to end (`FlattenOfLists`). Then a tuple is enumerated if and
only if it is loadable and declared, shipped or led by its family's weeks (`EnumerationFacts`, `WantedIsEnumerated`), and the filters keep
those asked for (`SelectionFacts`). A tuple comes once: families differ, `AddAll` adds only what is new,
so what is left are two solution directories of one name. `CorporaAreWellFormed` says the employee corpus is a
directory with lists of files, and that an entry which is no tuple names no case of it.

**`FoldTheorems`** has the lemmas on the community modules' folds that these need. On `SumFunctionOnSet`: its type, the
sum of nothing, of one element, of a disjoint union, of a part, under a renaming, of blocks. On
`FlattenSeq`: each cell has one origin, a row and a place in it (`FlattenFacts`), so what is flattened repeats nothing if and
only if no two places of the rows agree (`FlattenHolds`). The prover has no induction over data, so a sum of naturals
is shown to be the cardinality of a pile of unit cells (`SumIsPile`), and what would be an induction is a least
counterexample (`LeastNatural`, `SmallestSet`), for a number at most n `UpTo`. `Iterates` gives a function defined by
recursion up to n its values.

**Only model-checked**: liveness (`HangsOnlyOnTornMessage`, `NoRunawayChild`, `Ends`, `TurnComes`), which needs
fairness and ENABLED and is beyond the prover. All other properties of the passing runs are theorems.
The modules proved about use no recursive operators.

## 7. Where code and documentation disagree

Each of these three is a run that TLC refutes; its trace is the scenario.

1. `execution_hang`: `run_solver` "will wait up to `watchdog_seconds`" (docstring). If the kill hits the
   feeder inside a message larger than the pipe, the parent blocks in `recv_bytes` for ever: the
   poll succeeded, its timeout no longer applies, and its own copy of the write end keeps
   end-of-file from arriving.
2. `execution_witness`: a killed row says "emitted no fair-start witness" about a child that recorded
   one: a native solve keeps the interpreter lock, so the message never left the child's buffer.
   The row is not fair-started, and the whole run is withheld.
3. `locks_provenance`: WIREFRAME 373 says provenance hashes the invoked binary. The digests are taken
   before the wait for the lock, and another target's unlocked build may replace it meanwhile.

Others were met while modelling. The models contain them, and the passing properties are stated so
that they are visible; they have no run of their own:

* A `fatal` message that is read after the kill is ignored and the row is an ordinary, fair timeout;
  README 131-132 promises an abort for an unclean witness (`OrderlyExitIsReported` excludes killed rows).
* A solution sent just before the deadline and read after the kill is dropped; README 403-420 separates
  budget and watchdog.
* `_terminate_process_tree` stops after the child is dead, so a helper that ignores SIGTERM survives.
* Ctrl-C unlocks the file description the solver child shares, while that child, in its own session,
  works on; README 117 says same-core runs serialize (`OverlapIsLeftover` names this exception).
* Outside a git repository the commit is NULL, `publication_ready` is NULL, and no `CASE WHEN NOT` adds a
  reason; WIREFRAME 457 says the audit explains every rejected run (`RejectedIsExplained`).
* git quotes a path with a space or a non-ASCII letter, and the quote hides its first component, so an
  untracked file under `src/` need not make `git_dirty` true (README 658); a failing `git status`
  counts as clean (`postgres.py:543`). `PublishedIsAttested` speaks of the tree as git reports it.
* One dashboard request reads several snapshots (WIREFRAME 398-403 asks for one).
* The thread study has a lock file of its own although its CPUs may include another run's.
* `--conf x.toml` is accepted by argparse as `--config` and recorded as the run's `config_path`
  (`postgres.py:473`) when no file is loaded, but `config_path_from_argv` does not know it: the file is never read.
* A declared tuple ending in a dash passes the pattern and fails in `int()`; the docstring
  (employee `loader.py:345-346`) says that what does not parse is skipped.
* The label `dataset_set` keeps a group's name when `--datasets` narrows the group. The job-shop spec
  ignores unknown names in `--datasets`; the CVRP spec refuses unknown instances. A negative
  `--num-instances` drops instances from the end of the corpus.
* HiGHS refuses an employee instance in which nobody can cover a requirement, even one whose minimum is
  0 (`highs.py:420`); its docstring (347) says the model mirrors CP-SAT's, which solves it.
* The range of `--watchdog-multiplier` and `--watchdog-grace-seconds` is checked inside the loops
  (`runner.py:122`), after the CSV file and the warehouse run are open: a value start-up accepts leaves a failed run.
* VROOM's and vrp-rust's lists of unassigned jobs are not read: an instance they cannot serve whole becomes a row
  with an `OrderMissingError`, not one without a solution. So it is with HGS and no routes.
* Timefold's row has no check that the required slots are filled; the two SolverForge adapters have one.

Two remarks on the job-shop adapters are no disagreements in behaviour: the comments at `highs.py:122,128` put
into words the opposite order of the inequality they explain (the rows are right); and the
incumbent HiGHS reports at the time limit may claim a larger makespan than its starts have, which
the harness recomputes.

## 8. What is not modelled

Text (log lines, redaction, error wording, parsing of instance files), since nothing in the models
depends on it; the solvers' search, which is third-party code whose outcomes are inputs; the gaps
to best-known values and the loading of references; charts and filters of the dashboard; scripts
that check, report on or convert files. `PROJECT.json` lists every component with its status. "Partly"
means that the component's part in the behaviour above is modelled, and the rest of its computation is not.

Abstractions to know about: a large message is written in two parts although the kernel may need
more; a CSV line is on disk or in the buffer, a partly written line counts as in the buffer; the
digest is injective; PostgreSQL's transactions are atomic and serial; clocks are monotonic; a
column that is minimised takes the least value its rows allow; options that are filled in and
taken as they come are one (`nightly`). The Rust and Java constraint streams of the employee
benchmark restate the Python engine's and are not mapped line by line.

## 9. Plan

The harness, the warehouse, the start-up and the three problems are there. Left, in this order:

1. **References**: catalogue upserts, gap and proven optimality, the official-reference views.
2. **Provenance**: how `solver_versions` finds a package, a binary or a JAR; caching across rows.
3. **Adapters**: the conversion of a process's exit, output and failure into a `SolverResult`.
4. **Fair-start witness**: field-by-field validation against the contract.
5. **Employee engines**: the Rust and Java constraint streams as further readings of `NurseRoster`.
6. **Thread study**: which runs a report pairs, once a document says which it should.
7. Retraction of a run that is still being written, once a document says what an UPDATE that
   matches no row means.
