--------------------------- MODULE SolverExecution ---------------------------
(***************************************************************************)
(* One call of run_solver (src/src/solverforge_bench/execution.py): the    *)
(* harness process forks a child that runs one solver adapter, the child   *)
(* reports through a multiprocessing.Queue, and a watchdog kills the child *)
(* when the deadline has passed.                                           *)
(*                                                                         *)
(* Four parties interleave: the parent (run_solver), the child's main      *)
(* thread (_run_solver_child), the queue's feeder thread inside the child, *)
(* and the operating system that delivers signals.  A fifth, the helper,   *)
(* is the JVM or native binary an adapter starts with subprocess.run.      *)
(*                                                                         *)
(* Time is one bit, late: the deadline has passed.  Every bounded wait of  *)
(* the code may end at any moment.                                         *)
(***************************************************************************)
EXTENDS Naturals, Sequences, FiniteSets

CONSTANTS
    MaxEmits,       \* bound: witnesses an adapter emits besides the result's
    PipeCapacity,   \* small messages the queue's pipe holds
    Sizes,          \* sizes of a solution message: subset of {"small","large"}
    Adapters,       \* how the adapter solves: subset of {"native","subprocess"}
    MayCrash        \* whether the child may die of a fault of its own

ASSUME MaxEmitsAssumption == MaxEmits \in Nat
ASSUME PipeCapacityAssumption == PipeCapacity \in Nat \ {0}
ASSUME SizesAssumption == Sizes \subseteq {"small", "large"}
ASSUME AdaptersAssumption == Adapters \subseteq {"native", "subprocess"}
ASSUME MayCrashAssumption == MayCrash \in BOOLEAN

VARIABLES
    pc,             \* where run_solver stands
    message,        \* its result_message, NoMessage while None
    witness,        \* its fair_start_witness, 0 while None
    outcome,        \* what run_solver returned or raised
    late,           \* time.monotonic() >= deadline
    child,          \* where the child stands
    adapter,        \* the adapter's kind
    latest,         \* the child's latest_witness, 0 while None
    solved,         \* the solver call has been made
    posted,         \* the last result message the child put, NoMessage if none
    buffer,         \* the queue's in-process buffer in the child
    pipe,           \* complete messages in the queue's pipe
    partial,        \* the pipe ends in the first part of a message
    signal,         \* strongest signal sent to the child
    helper,         \* the helper process
    helperSignal    \* strongest signal sent to the helper

parentVars == <<pc, message, witness, outcome>>
childVars  == <<child, adapter, latest, solved, posted>>
queueVars  == <<buffer, pipe, partial>>
osVars     == <<late, signal, helper, helperSignal>>
vars       == <<parentVars, childVars, queueVars, osVars>>

-----------------------------------------------------------------------------
(* Messages.  A witness is its emission number: 1 is the first, the result *)
(* carries a later one, 0 is "no witness".                                 *)

WitnessIds == 0 .. MaxEmits + 1
ResultKinds == {"solution_returned", "no_solution", "adapter_error", "fatal"}
Kinds == ResultKinds \cup {"fair_start_witness"}
Message == [kind : Kinds, witness : WitnessIds, size : {"small", "large"}]
NoMessage == [kind |-> "none", witness |-> 0, size |-> "small"]

WitnessEvent(w) ==
    [kind |-> "fair_start_witness", witness |-> w, size |-> "small"]
Result(kind, w, size) == [kind |-> kind, witness |-> w, size |-> size]

Statuses == {"solution_returned", "no_solution", "adapter_error",
             "no_result", "watchdog_timeout", "abort"}
Outcome == [status : Statuses, solution : BOOLEAN,
            witness : WitnessIds, fairStartValid : BOOLEAN]
NoOutcome == [status |-> "none", solution |-> FALSE,
              witness |-> 0, fairStartValid |-> FALSE]

Gone == {"exited", "crashed", "killed"}
Alive == child \notin Gone
(* No adapter handles SIGTERM: a signalled child executes nothing more,    *)
(* though its death may take a while.                                      *)
Runs == Alive /\ signal = "none"
HelperRuns == helper = "running"

(* The native adapters are PyO3 functions that keep the interpreter lock   *)
(* for the whole solve, so no other thread of the child runs meanwhile.    *)
GilHeld == child = "solving" /\ adapter = "native"

-----------------------------------------------------------------------------
Init ==
    /\ pc = "loop" /\ message = NoMessage /\ witness = 0
    /\ outcome = NoOutcome
    /\ late = FALSE
    /\ child = "forked" /\ adapter \in Adapters
    /\ latest = 0 /\ solved = FALSE /\ posted = NoMessage
    /\ buffer = <<>> /\ pipe = <<>> /\ partial = FALSE
    /\ signal = "none" /\ helper = "none" /\ helperSignal = "none"

-----------------------------------------------------------------------------
(* The child.                                                              *)

(* setsid and the output capture, then the adapter starts. *)
ChildStart ==
    /\ child = "forked" /\ Runs
    /\ child' = "adapter"
    /\ UNCHANGED <<parentVars, adapter, latest, solved, posted, queueVars,
                   osVars>>

Put(m) == buffer' = Append(buffer, m) /\ UNCHANGED <<pipe, partial>>

(* record_witness with a witness that validates. *)
EmitWitness ==
    /\ child = "adapter" /\ Runs /\ latest < MaxEmits
    /\ latest' = latest + 1
    /\ Put(WitnessEvent(latest'))
    /\ UNCHANGED <<parentVars, child, adapter, solved, posted, osVars>>

(* The adapter calls its solver: in-process, or a subprocess it waits for. *)
CallSolver ==
    /\ child = "adapter" /\ Runs /\ ~solved
    /\ solved' = TRUE
    /\ child' = "solving"
    /\ helper' = IF adapter = "subprocess" THEN "running" ELSE helper
    /\ UNCHANGED <<parentVars, adapter, latest, posted, queueVars, late,
                   signal, helperSignal>>

(* The solver returns to the adapter; subprocess.run waits for the helper. *)
SolverReturns ==
    /\ child = "solving" /\ Runs /\ ~HelperRuns
    /\ child' = "adapter"
    /\ UNCHANGED <<parentVars, adapter, latest, solved, posted, queueVars,
                   osVars>>

(* Every way _run_solver_child leaves its try block posts one result and   *)
(* then leaves capture_output.                                             *)
Post(m) ==
    /\ child = "adapter" /\ Runs
    /\ child' = "teardown"
    /\ posted' = m
    /\ Put(m)
    /\ UNCHANGED <<parentVars, adapter, solved, osVars>>

(* A valid SolverResult with a solution, and its own witness. *)
ReturnSolution ==
    /\ solved
    /\ latest' = latest + 1
    /\ \E size \in Sizes : Post(Result("solution_returned", latest', size))

(* A valid SolverResult whose solution is None. *)
ReturnNoSolution ==
    /\ solved
    /\ latest' = latest + 1
    /\ Post(Result("no_solution", latest', "small"))

(* FairStartViolationError: an emitted or returned witness is not clean,   *)
(* or the adapter returned no SolverResult.                                *)
ViolateFairStart ==
    /\ UNCHANGED latest
    /\ Post(Result("fatal", 0, "small"))

(* Any other exception: fatal while no witness was recorded. *)
RaiseError ==
    /\ UNCHANGED latest
    /\ \E kind \in {"no_solution", "adapter_error"} :
         Post(IF latest = 0 THEN Result("fatal", 0, "small")
                            ELSE Result(kind, latest, "small"))

(* A BaseException that is no Exception (SystemExit, a PyO3 panic) unwinds *)
(* through both handlers: the process exits in order, without a result.    *)
ExitWithoutResult ==
    /\ child = "adapter" /\ Runs
    /\ child' = "teardown"
    /\ UNCHANGED <<parentVars, adapter, latest, solved, posted, queueVars,
                   osVars>>

(* A segmentation fault or the kernel's OOM killer. *)
Crash ==
    /\ MayCrash /\ Runs /\ child \in {"adapter", "solving", "teardown"}
    /\ child' = "crashed"
    /\ UNCHANGED <<parentVars, adapter, latest, solved, posted, queueVars,
                   osVars>>

(* Normal exit restores the captured descriptors, then joins the feeder. *)
ChildExit ==
    /\ child = "teardown" /\ Runs
    /\ buffer = <<>> /\ ~partial
    /\ child' = "exited"
    /\ UNCHANGED <<parentVars, adapter, latest, solved, posted, queueVars,
                   osVars>>

Child ==
    \/ ChildStart \/ EmitWitness \/ CallSolver \/ SolverReturns
    \/ ReturnSolution \/ ReturnNoSolution \/ ViolateFairStart \/ RaiseError
    \/ ExitWithoutResult \/ Crash \/ ChildExit

-----------------------------------------------------------------------------
(* The feeder thread.  A small message is one atomic write.  A large one   *)
(* exceeds what the pipe holds: its first part goes in, the rest follows   *)
(* while the parent is inside recv_bytes.                                  *)

FeederRuns == Runs /\ ~GilHeld /\ buffer # <<>>

FeedSmall ==
    /\ FeederRuns /\ Head(buffer).size = "small" /\ ~partial
    /\ Len(pipe) < PipeCapacity
    /\ pipe' = Append(pipe, Head(buffer))
    /\ buffer' = Tail(buffer)
    /\ UNCHANGED <<partial, parentVars, childVars, osVars>>

FeedLargeBegin ==
    /\ FeederRuns /\ Head(buffer).size = "large" /\ ~partial
    /\ Len(pipe) < PipeCapacity
    /\ partial' = TRUE
    /\ UNCHANGED <<buffer, pipe, parentVars, childVars, osVars>>

FeedLargeEnd ==
    /\ FeederRuns /\ partial
    /\ pipe = <<>> /\ pc \in {"drain", "drainKilled", "drainExited"}
    /\ partial' = FALSE
    /\ pipe' = <<Head(buffer)>>
    /\ buffer' = Tail(buffer)
    /\ UNCHANGED <<parentVars, childVars, osVars>>

Feeder == FeedSmall \/ FeedLargeBegin \/ FeedLargeEnd

-----------------------------------------------------------------------------
(* The parent: run_solver.                                                 *)

Goto(next) == pc' = next

(* Mutant: the loop waits for the child without looking at the clock. *)
LoopTestWithoutDeadline ==
    /\ pc = "loop"
    /\ Goto(IF Alive THEN "drain" ELSE "check")
    /\ UNCHANGED <<message, witness, outcome, childVars, queueVars, osVars>>

(* while process.is_alive() and time.monotonic() < deadline *)
LoopTest ==
    /\ pc = "loop"
    /\ Goto(IF Alive /\ ~late THEN "drain" ELSE "check")
    /\ UNCHANGED <<message, witness, outcome, childVars, queueVars, osVars>>

Draining == pc \in {"drain", "drainKilled", "drainExited"}

(* One successful get in _collect_child_messages. *)
Receive ==
    /\ Draining /\ pipe # <<>>
    /\ LET m == Head(pipe) IN
         /\ witness' = IF m.witness # 0 THEN m.witness ELSE witness
         /\ message' = IF m.kind = "fair_start_witness" THEN message ELSE m
    /\ pipe' = Tail(pipe)
    /\ UNCHANGED <<pc, outcome, buffer, partial, childVars, osVars>>

(* Mutant: collection stops at its timeout with messages left unread. *)
PipeIgnored == TRUE

(* queue.Empty needs a pipe without a single byte: with part of a message  *)
(* in it, get is past its timeout and blocks in recv_bytes.                *)
PipeSilent == pipe = <<>> /\ ~partial

DrainDone ==
    /\ pc = "drain" /\ PipeSilent
    /\ Goto("loop")
    /\ UNCHANGED <<message, witness, outcome, childVars, queueVars, osVars>>

(* Mutant: past the deadline, the child is not checked and not killed. *)
CheckSkipsKill ==
    /\ pc = "check"
    /\ Goto("drainExited")
    /\ UNCHANGED <<message, witness, outcome, childVars, queueVars, osVars>>

(* if process.is_alive(), after the loop. *)
CheckAlive ==
    /\ pc = "check"
    /\ Goto(IF Alive THEN "terminate" ELSE "drainExited")
    /\ UNCHANGED <<message, witness, outcome, childVars, queueVars, osVars>>

(* killpg reaches the child and, in its group, the helper. *)
SignalTree(s) ==
    /\ signal' = s
    /\ helperSignal' = IF HelperRuns THEN s ELSE helperSignal
    /\ UNCHANGED <<late, helper>>

Terminate ==
    /\ pc = "terminate"
    /\ SignalTree("TERM")
    /\ Goto("joinTerminated")
    /\ UNCHANGED <<message, witness, outcome, childVars, queueVars>>

(* process.join(0.2), then SIGKILL if the child is still alive. *)
JoinTerminated ==
    /\ pc = "joinTerminated" /\ ~Alive
    /\ Goto("drainKilled")
    /\ UNCHANGED <<message, witness, outcome, childVars, queueVars, osVars>>

Kill ==
    /\ pc = "joinTerminated" /\ Alive
    /\ SignalTree("KILL")
    /\ Goto("joinKilled")
    /\ UNCHANGED <<message, witness, outcome, childVars, queueVars>>

(* process.join(1.0) returns when the child is dead, or after a second. *)
JoinKilled ==
    /\ pc = "joinKilled"
    /\ Goto("drainKilled")
    /\ UNCHANGED <<message, witness, outcome, childVars, queueVars, osVars>>

Row(status, solution, w, valid) ==
    [status |-> status, solution |-> solution, witness |-> w,
     fairStartValid |-> valid]

ReturnKilled ==
    /\ pc = "drainKilled" /\ PipeSilent
    /\ outcome' = Row("watchdog_timeout", FALSE, witness, witness # 0)
    /\ Goto("done")
    /\ UNCHANGED <<message, witness, childVars, queueVars, osVars>>

(* Mutant: an exited child without a message counts as fair-started. *)
ExitedOutcomeTrustsSilence ==
    CASE message = NoMessage      -> Row("no_result", FALSE, witness, TRUE)
      [] message.kind = "fatal"   -> Row("abort", FALSE, 0, FALSE)
      [] OTHER -> Row(message.kind, message.kind = "solution_returned",
                      message.witness, TRUE)

(* Mutant: the missing-message branch is gone. *)
ExitedOutcomeWithoutNoneCheck ==
    IF message.kind = "fatal" THEN Row("abort", FALSE, 0, FALSE)
    ELSE Row(message.kind, message.kind = "solution_returned",
             message.witness, TRUE)

(* What run_solver makes of the result message of a child that exited. *)
ExitedOutcome ==
    CASE message = NoMessage      -> Row("no_result", FALSE, witness,
                                         witness # 0)
      [] message.kind = "fatal"   -> Row("abort", FALSE, 0, FALSE)
      [] OTHER -> Row(message.kind, message.kind = "solution_returned",
                      IF message.witness # 0 THEN message.witness ELSE witness,
                      TRUE)

ReturnExited ==
    /\ pc = "drainExited" /\ PipeSilent
    /\ outcome' = ExitedOutcome
    /\ Goto("done")
    /\ UNCHANGED <<message, witness, childVars, queueVars, osVars>>

Parent ==
    \/ LoopTest \/ Receive \/ DrainDone \/ CheckAlive \/ Terminate
    \/ JoinTerminated \/ Kill \/ JoinKilled \/ ReturnKilled \/ ReturnExited

-----------------------------------------------------------------------------
(* The clock, signal delivery and the helper.                              *)

DeadlinePasses ==
    /\ ~late
    /\ late' = TRUE
    /\ UNCHANGED <<parentVars, childVars, queueVars, signal, helper,
                   helperSignal>>

(* The default action of either signal takes effect. *)
SignalChild ==
    /\ signal # "none" /\ Alive
    /\ child' = "killed"
    /\ UNCHANGED <<parentVars, adapter, latest, solved, posted, queueVars,
                   osVars>>

HelperEnds ==
    /\ HelperRuns
    /\ helper' = "ended"
    /\ UNCHANGED <<parentVars, childVars, queueVars, late, signal,
                   helperSignal>>

Environment == DeadlinePasses \/ SignalChild \/ HelperEnds

(* The invocation is over and nothing of it is left. *)
Finished ==
    /\ pc = "done" /\ ~Alive /\ ~HelperRuns
    /\ UNCHANGED vars

Next == Child \/ Feeder \/ Parent \/ Environment \/ Finished

(* The parent and the feeder are scheduled, the clock advances, a signal   *)
(* is delivered, a child past its adapter exits, SIGKILL ends a helper.    *)
(* Nothing makes a solver, an adapter or an unkilled helper finish: that   *)
(* is what the watchdog is for.                                            *)
Fairness ==
    /\ WF_vars(Parent) /\ WF_vars(Feeder) /\ WF_vars(DeadlinePasses)
    /\ WF_vars(SignalChild) /\ WF_vars(ChildExit)
    /\ WF_vars(HelperEnds /\ helperSignal = "KILL")

Spec == Init /\ [][Next]_vars
FairSpec == Spec /\ Fairness

-----------------------------------------------------------------------------
(* Properties.                                                             *)

Returned == outcome # NoOutcome
KilledRow == outcome.status = "watchdog_timeout"

TypeInv ==
    /\ pc \in {"loop", "drain", "check", "terminate", "joinTerminated",
               "joinKilled", "drainKilled", "drainExited", "done"}
    /\ message \in Message \cup {NoMessage}
    /\ witness \in WitnessIds
    /\ outcome \in Outcome \cup {NoOutcome}
    /\ late \in BOOLEAN /\ solved \in BOOLEAN /\ partial \in BOOLEAN
    /\ child \in {"forked", "adapter", "solving", "teardown"} \cup Gone
    /\ adapter \in Adapters
    /\ latest \in WitnessIds
    /\ posted \in Message \cup {NoMessage}
    /\ buffer \in Seq(Message) /\ pipe \in Seq(Message)
    /\ signal \in {"none", "TERM", "KILL"}
    /\ helper \in {"none", "running", "ended"}
    /\ helperSignal \in {"none", "TERM", "KILL"}

(* A row with a solution carries the witness the child validated together  *)
(* with that very solution, and is marked fair: neither the drains nor the *)
(* kill can pair a solution with an older witness.                         *)
SolutionIsFair ==
    outcome.solution =>
        /\ outcome.fairStartValid
        /\ posted.kind = "solution_returned"
        /\ outcome.witness = posted.witness

(* When the child left in order and was not killed, run_solver reports the *)
(* result the child put and the last witness it recorded, whatever the     *)
(* feeder, the pipe and the polling did in between: no result and no       *)
(* witness is lost, a violation always aborts, and "exited without         *)
(* producing a result" is only said of a child that put none.              *)
OrderlyExitIsReported ==
    Returned /\ ~KilledRow /\ child = "exited" =>
        /\ outcome.status = CASE posted = NoMessage     -> "no_result"
                              [] posted.kind = "fatal"  -> "abort"
                              [] OTHER                  -> posted.kind
        /\ outcome.status # "abort" =>
              outcome.witness = latest /\ outcome.fairStartValid = (latest # 0)

(* No process of the invocation is signalled inside its budget: a solver   *)
(* that overruns the nominal limit is left alone until the watchdog's.     *)
NoEarlySignal == signal # "none" \/ helperSignal # "none" => late

(* run_solver returns: whatever the solver does, the watchdog ends the     *)
(* invocation.                                                             *)
Returns == <>(pc = "done")

(* run_solver returns also when a solution exceeds the pipe, unless the    *)
(* child dies in the middle of writing it.                                 *)
HangsOnlyOnTornMessage == <>(pc = "done" \/ (partial /\ ~Alive))

(* No invocation leaves its child running for good, even when run_solver   *)
(* gave up waiting for it.                                                 *)
NoRunawayChild == Returned ~> ~Alive

(* run_solver implements the contract the runner relies on: one report,    *)
(* and one of Reports, or none.                                            *)
Report == [status |-> outcome.status, solution |-> outcome.solution,
           hasWitness |-> outcome.witness # 0,
           fairStartValid |-> outcome.fairStartValid]
Contract == INSTANCE Invocation WITH report <- Report
ImplementsInvocation == Contract!Spec

-----------------------------------------------------------------------------
(* Claims of the documentation that the code does not keep.                *)

(* execution.py: "emitted no fair-start witness before watchdog kill" is   *)
(* said of a child that recorded none.                                     *)
KilledRowKnowsItsWitness == KilledRow /\ latest # 0 => outcome.fairStartValid
=============================================================================
