------------------------------ MODULE BenchLock ------------------------------
(***************************************************************************)
(* Several benchmark runs started on one machine, each by a make target:   *)
(* the target builds the adapters, then run_benchmark records their        *)
(* digests, waits for the flock of its core, and runs its solvers          *)
(* (src/src/solverforge_bench/runner.py, src/Makefile).                    *)
(*                                                                         *)
(* flock belongs to the open file description.  The solver child is forked *)
(* and shares the harness's; the helper the child executes (a JVM, a       *)
(* native binary) does not, since Python opens files close-on-exec.        *)
(***************************************************************************)
EXTENDS Naturals, FiniteSets

CONSTANTS
    Harnesses,      \* the runs
    Locks,          \* BENCH_LOCK paths
    Cores,
    LockOf,         \* the lock each run is given
    CoresOf,        \* the cores taskset pins it to
    Rows,           \* bound: solver invocations of a run
    MaxBuilds,      \* bound: builds that change an installed binary
    Faults,         \* what may happen besides the normal course
    NoHolder

ASSUME HarnessAssumption ==
    /\ LockOf \in [Harnesses -> Locks]
    /\ CoresOf \in [Harnesses -> SUBSET Cores]
    /\ NoHolder \notin Harnesses
ASSUME BoundAssumption == Rows \in Nat /\ MaxBuilds \in Nat
ASSUME FaultAssumption ==
    Faults \subseteq {"crash", "interrupt", "linger", "rebuild"}

VARIABLES
    pc,             \* where the run stands
    holder,         \* lock -> the run whose file description holds it
    child,          \* the solver child of the run
    helper,         \* the helper process of that child is running
    left,           \* invocations still to be made
    installed,      \* the build of the adapters that is on disk
    recorded,       \* the build whose digest the run has recorded
    invoked         \* the build its latest helper was started from

lockVars == <<pc, holder, child, helper, left, installed, recorded, invoked>>

LockInit ==
    /\ pc = [h \in Harnesses |-> "build"]
    /\ holder = [l \in Locks |-> NoHolder]
    /\ child = [h \in Harnesses |-> "none"]
    /\ helper = [h \in Harnesses |-> FALSE]
    /\ left = [h \in Harnesses |-> Rows]
    /\ installed = 1
    /\ recorded = [h \in Harnesses |-> 0]
    /\ invoked = [h \in Harnesses |-> 0]

Goto(h, next) == pc' = [pc EXCEPT ![h] = next]
Holds(h) == holder[LockOf[h]] = h
Released(h) == [holder EXCEPT ![LockOf[h]] = NoHolder]

(* A process that ends closes its descriptors: the last one to have the    *)
(* run's file description gives the lock back.                             *)
LastClose(h) == IF Holds(h) THEN Released(h) ELSE holder

(* The harness process is gone; the child may still have the description.  *)
HarnessGone(h, how) ==
    /\ Goto(h, how)
    /\ holder' = IF child[h] = "none" THEN LastClose(h) ELSE holder

-----------------------------------------------------------------------------
(* Before the lock. *)

(* The build targets every bench target depends on: they run unlocked, and *)
(* install over what is there when the sources have changed.               *)
Build(h) ==
    /\ pc[h] = "build"
    /\ \/ UNCHANGED installed
       \/ /\ "rebuild" \in Faults /\ installed <= MaxBuilds
          /\ installed' = installed + 1
    /\ Goto(h, "resolve")
    /\ UNCHANGED <<holder, child, helper, left, recorded, invoked>>

(* spec.solver_versions hashes the installed artifacts. *)
ResolveVersions(h) ==
    /\ pc[h] = "resolve"
    /\ recorded' = [recorded EXCEPT ![h] = installed]
    /\ Goto(h, "lock")
    /\ UNCHANGED <<holder, child, helper, left, installed, invoked>>

(* Mutant: the lock is only tried, and the failure ignored. *)
AcquireLockWithoutWaiting(h) ==
    /\ pc[h] = "lock"
    /\ holder' = IF holder[LockOf[h]] = NoHolder
                 THEN [holder EXCEPT ![LockOf[h]] = h] ELSE holder
    /\ Goto(h, "rows")
    /\ UNCHANGED <<child, helper, left, installed, recorded, invoked>>

(* _acquire_benchmark_lock blocks in flock. *)
AcquireLock(h) ==
    /\ pc[h] = "lock" /\ holder[LockOf[h]] = NoHolder
    /\ holder' = [holder EXCEPT ![LockOf[h]] = h]
    /\ Goto(h, "rows")
    /\ UNCHANGED <<child, helper, left, installed, recorded, invoked>>

-----------------------------------------------------------------------------
(* Under the lock. *)

(* Mutant: one invocation too many. *)
StartSolverOnceMore(h) ==
    /\ pc[h] = "rows"
    /\ child' = [child EXCEPT ![h] = "solving"]
    /\ helper' = [helper EXCEPT ![h] = TRUE]
    /\ invoked' = [invoked EXCEPT ![h] = installed]
    /\ left' = [left EXCEPT ![h] = @ - 1]
    /\ Goto(h, "solve")
    /\ UNCHANGED <<holder, installed, recorded>>

(* run_solver forks the child, and the adapter executes its helper. *)
StartSolver(h) ==
    /\ pc[h] = "rows" /\ left[h] > 0
    /\ child' = [child EXCEPT ![h] = "solving"]
    /\ helper' = [helper EXCEPT ![h] = TRUE]
    /\ invoked' = [invoked EXCEPT ![h] = installed]
    /\ left' = [left EXCEPT ![h] = @ - 1]
    /\ Goto(h, "solve")
    /\ UNCHANGED <<holder, installed, recorded>>

HelperEnds(h) ==
    /\ helper[h]
    /\ helper' = [helper EXCEPT ![h] = FALSE]
    /\ UNCHANGED <<pc, holder, child, left, installed, recorded, invoked>>

ChildGone(h) ==
    /\ child' = [child EXCEPT ![h] = "none"]
    /\ holder' = IF pc[h] \in {"ended", "killed"} THEN LastClose(h)
                                                  ELSE holder

(* The child puts its result and exits; one that is larger than the pipe   *)
(* keeps it until somebody reads.                                          *)
Report(h) ==
    /\ child[h] = "solving" /\ ~helper[h]
    /\ \/ ChildGone(h)
       \/ child' = [child EXCEPT ![h] = "reporting"] /\ UNCHANGED holder
    /\ UNCHANGED <<pc, helper, left, installed, recorded, invoked>>

Collect(h) ==
    /\ child[h] = "reporting" /\ pc[h] = "solve"
    /\ ChildGone(h)
    /\ UNCHANGED <<pc, helper, left, installed, recorded, invoked>>

RowDone(h) ==
    /\ pc[h] = "solve" /\ child[h] = "none"
    /\ Goto(h, "rows")
    /\ UNCHANGED <<holder, child, helper, left, installed, recorded, invoked>>

(* _terminate_process_tree: the child dies of SIGTERM; a helper that takes *)
(* its time over it gets no SIGKILL.                                       *)
Watchdog(h) ==
    /\ pc[h] = "solve" /\ child[h] # "none"
    /\ ChildGone(h)
    /\ \/ helper' = [helper EXCEPT ![h] = FALSE]
       \/ "linger" \in Faults /\ UNCHANGED helper
    /\ Goto(h, "rows")
    /\ UNCHANGED <<left, installed, recorded, invoked>>

AllRowsDone(h) ==
    /\ pc[h] = "rows" /\ left[h] = 0
    /\ Goto(h, "unlock")
    /\ UNCHANGED <<holder, child, helper, left, installed, recorded, invoked>>

(* Mutant: the lock is given back after the child was joined. *)
ReleaseLockAfterJoin(h) ==
    /\ pc[h] = "unlock" /\ child[h] = "none"
    /\ holder' = Released(h)
    /\ Goto(h, "exit")
    /\ UNCHANGED <<child, helper, left, installed, recorded, invoked>>

(* _release_benchmark_lock: LOCK_UN unlocks the file description, whoever  *)
(* else still has it.                                                      *)
ReleaseLock(h) ==
    /\ pc[h] = "unlock"
    /\ holder' = Released(h)
    /\ Goto(h, "exit")
    /\ UNCHANGED <<child, helper, left, installed, recorded, invoked>>

(* The interpreter joins the child before it exits. *)
Exit(h) ==
    /\ pc[h] = "exit" /\ child[h] = "none"
    /\ HarnessGone(h, "ended")
    /\ UNCHANGED <<child, helper, left, installed, recorded, invoked>>

-----------------------------------------------------------------------------
(* Ctrl-C reaches make and the harness; the child is in a session of its   *)
(* own and works on while the finally clause unlocks.  Another Ctrl-C may  *)
(* interrupt the unlocking, or the wait for the child.                     *)
Interrupt(h) ==
    /\ "interrupt" \in Faults
    /\ \/ pc[h] \in {"rows", "solve"} /\ Goto(h, "unlock") /\ UNCHANGED holder
       \/ pc[h] \in {"lock", "unlock"} /\ Goto(h, "exit") /\ UNCHANGED holder
       \/ pc[h] \in {"build", "resolve", "exit"} /\ HarnessGone(h, "ended")
    /\ UNCHANGED <<child, helper, left, installed, recorded, invoked>>

(* The harness is killed: its child keeps the file description.  A kill    *)
(* after the lock was given back is one more way to end.                   *)
Kill(h) ==
    /\ "crash" \in Faults
    /\ pc[h] \notin {"ended", "killed"}
    /\ HarnessGone(h, IF pc[h] = "exit" THEN "ended" ELSE "killed")
    /\ UNCHANGED <<child, helper, left, installed, recorded, invoked>>

Step(h) ==
    \/ Build(h) \/ ResolveVersions(h) \/ AcquireLock(h) \/ StartSolver(h)
    \/ HelperEnds(h) \/ Report(h) \/ Collect(h) \/ RowDone(h) \/ Watchdog(h)
    \/ AllRowsDone(h) \/ ReleaseLock(h) \/ Exit(h)

LockNext == \E h \in Harnesses : Step(h) \/ Interrupt(h) \/ Kill(h)

(* Processes run, helpers finish (their budget is bounded), and flock hands *)
(* a free lock to a waiter.                                                *)
LockSpec == LockInit /\ [][LockNext]_lockVars /\ \A h \in Harnesses : WF_lockVars(Step(h))

-----------------------------------------------------------------------------
(* Properties.                                                             *)

PCs == {"build", "resolve", "lock", "rows", "solve", "unlock", "exit",
        "ended", "killed"}

TypeInv ==
    /\ pc \in [Harnesses -> PCs]
    /\ holder \in [Locks -> Harnesses \cup {NoHolder}]
    /\ child \in [Harnesses -> {"none", "solving", "reporting"}]
    /\ helper \in [Harnesses -> BOOLEAN]
    /\ left \in [Harnesses -> 0 .. Rows]
    /\ installed \in Nat
    /\ recorded \in [Harnesses -> Nat] /\ invoked \in [Harnesses -> Nat]

(* A solver process of the run is using its cores. *)
Busy(h) == child[h] = "solving" \/ helper[h]

(* README: accidental same-core runs serialize: no two runs that share a   *)
(* core have a solver working at the same time.                            *)
SameCoreSerializes ==
    \A g, h \in Harnesses :
        Busy(g) /\ Busy(h) /\ CoresOf[g] \cap CoresOf[h] # {} => g = h

(* A helper whose child is gone, or the solver of a harness that gave its  *)
(* lock back on Ctrl-C.                                                    *)
Leftover(h) ==
    child[h] = "none" \/ (pc[h] \in {"exit", "ended"} /\ ~Holds(h))

(* Two solvers on one core are the doing of a Ctrl-C or of a helper that   *)
(* outlived its watchdog kill: neither killed harnesses nor queues of      *)
(* waiting ones nor rebuilds ever open a core that is in use.              *)
OverlapIsLeftover ==
    \A g, h \in Harnesses :
        Busy(g) /\ Busy(h) /\ g # h /\ CoresOf[g] \cap CoresOf[h] # {}
            => Leftover(g) \/ Leftover(h)

(* A lock is held by somebody who is there to give it back. *)
LockHasAProcess ==
    \A l \in Locks : \A h \in Harnesses :
        holder[l] = h => pc[h] \notin {"ended", "killed"} \/ child[h] # "none"

(* A child that nobody reads the result of, after its harness was killed   *)
(* or its unlocking interrupted: it has the lock and waits for the pipe,   *)
(* whose read end it has inherited too, for ever.                          *)
Stuck(h) ==
    pc[h] \in {"exit", "ended", "killed"} /\ child[h] = "reporting" /\ Holds(h)

(* A run waits for its turn, but no longer than the runs before it work,   *)
(* unless a stuck orphan has the lock.                                     *)
TurnComes ==
    \A h \in Harnesses :
        pc[h] = "lock" ~>
            pc[h] # "lock" \/ \E g \in Harnesses :
                                Stuck(g) /\ LockOf[g] = LockOf[h]

(* WIREFRAME: runtime provenance hashes the actually invoked executable.   *)
RecordedIsInvoked ==
    \A h \in Harnesses : helper[h] => invoked[h] = recorded[h]
=============================================================================
