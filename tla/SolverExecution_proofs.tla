----------------------- MODULE SolverExecution_proofs ------------------------
(***************************************************************************)
(* What SolverExecution promises for every number of witnesses, every pipe *)
(* capacity and both message sizes: its types, that a solution row is      *)
(* fair, that nothing is signalled inside its budget, that every step is   *)
(* one of Invocation or a stutter, and that the report of a child that     *)
(* left in order is the child's own result.                                *)
(***************************************************************************)
EXTENDS SolverExecution, TLAPS

(* A result message names a witness unless it is fatal. *)
WellFormed(m) == m.kind = "fatal" <=> m.witness = 0

(* The only result message anywhere is the one that was put. *)
Posted(m) == m.kind \in ResultKinds => m = posted

MessagesInv ==
    /\ posted # NoMessage => posted.kind \in ResultKinds /\ WellFormed(posted)
    /\ \A i \in 1 .. Len(buffer) : Posted(buffer[i])
    /\ \A i \in 1 .. Len(pipe) : Posted(pipe[i])
    /\ message # NoMessage => message = posted

(* The child puts at most one result, and counts its witnesses below the   *)
(* bound until then.                                                       *)
ChildInv ==
    child \in {"forked", "adapter", "solving"} =>
        posted = NoMessage /\ latest <= MaxEmits

DeadlineInv ==
    /\ pc \in {"terminate", "joinTerminated", "joinKilled"} => late
    /\ pc = "check" /\ Alive => late
    /\ NoEarlySignal

OutcomeInv ==
    /\ pc = "done" <=> outcome # NoOutcome
    /\ outcome # NoOutcome =>
        /\ outcome.fairStartValid = (outcome.witness # 0)
        /\ outcome.solution = (outcome.status = "solution_returned")
        /\ outcome.status \in {"solution_returned", "no_solution",
                               "adapter_error"} => outcome.witness # 0
        /\ outcome.status = "abort" => outcome.witness = 0
        /\ outcome.status = "solution_returned" =>
              posted.kind = "solution_returned"
              /\ outcome.witness = posted.witness

IInv == TypeInv /\ MessagesInv /\ ChildInv /\ DeadlineInv /\ OutcomeInv

-----------------------------------------------------------------------------
(* The initial states are well typed. *)
LEMMA InitType == Init => TypeInv
<1>1. 0 \in WitnessIds
  BY MaxEmitsAssumption DEF WitnessIds
<1>2. <<>> \in Seq(Message)
  OBVIOUS
<1> QED
  BY <1>1, <1>2 DEF Init, TypeInv

LEMMA MessageTypes ==
    /\ \A w \in WitnessIds : WitnessEvent(w) \in Message
    /\ \A k \in ResultKinds, w \in WitnessIds, s \in {"small", "large"} :
         Result(k, w, s) \in Message
  BY DEF WitnessEvent, Result, Message, Kinds, ResultKinds

(* Every step of the child keeps the types. *)
LEMMA ChildType == TypeInv /\ ChildInv /\ Child => TypeInv'
<1> SUFFICES ASSUME TypeInv, ChildInv, Child PROVE TypeInv'
  OBVIOUS
<1> USE MaxEmitsAssumption, SizesAssumption
<1>1. CASE ChildStart
  BY <1>1 DEF ChildStart, TypeInv, parentVars, queueVars, osVars
<1>2. CASE EmitWitness
  BY <1>2, MessageTypes DEF EmitWitness, Put, TypeInv, parentVars, osVars,
     WitnessIds
<1>3. CASE CallSolver
  BY <1>3 DEF CallSolver, TypeInv, parentVars, queueVars
<1>4. CASE SolverReturns
  BY <1>4 DEF SolverReturns, TypeInv, parentVars, queueVars, osVars
<1>5. ASSUME NEW m \in Message, Post(m), latest' \in WitnessIds
      PROVE TypeInv'
  BY <1>5 DEF Post, Put, TypeInv, parentVars, osVars
<1>6. CASE ReturnSolution
  BY <1>6, <1>5, MessageTypes
  DEF ReturnSolution, ResultKinds, WitnessIds, TypeInv, ChildInv, Post
<1>7. CASE ReturnNoSolution
  BY <1>7, <1>5, MessageTypes
  DEF ReturnNoSolution, ResultKinds, WitnessIds, TypeInv, ChildInv, Post
<1>8. CASE ViolateFairStart
  BY <1>8, <1>5, MessageTypes
  DEF ViolateFairStart, ResultKinds, WitnessIds, TypeInv
<1>9. CASE RaiseError
  BY <1>9, <1>5, MessageTypes DEF RaiseError, ResultKinds, WitnessIds, TypeInv
<1>10. CASE ExitWithoutResult
  BY <1>10 DEF ExitWithoutResult, TypeInv, parentVars, queueVars, osVars
<1>11. CASE Crash
  BY <1>11 DEF Crash, TypeInv, parentVars, queueVars, osVars, Gone
<1>12. CASE ChildExit
  BY <1>12 DEF ChildExit, TypeInv, parentVars, queueVars, osVars, Gone
<1> QED
  BY <1>1, <1>2, <1>3, <1>4, <1>6, <1>7, <1>8, <1>9, <1>10, <1>11, <1>12
  DEF Child

LEMMA HeadTail ==
    ASSUME NEW S, NEW s \in Seq(S), s # <<>>
    PROVE  /\ Head(s) \in S
           /\ Tail(s) \in Seq(S)
           /\ Head(s) = s[1]
           /\ Len(s) \in Nat \ {0}
           /\ Len(Tail(s)) = Len(s) - 1
           /\ \A i \in 1 .. Len(Tail(s)) : Tail(s)[i] = s[i + 1]
  OBVIOUS

(* Every step of the feeder keeps the types. *)
LEMMA FeederType == TypeInv /\ Feeder => TypeInv'
<1> SUFFICES ASSUME TypeInv, Feeder PROVE TypeInv'
  OBVIOUS
<1>0. buffer # <<>> /\ buffer \in Seq(Message) /\ pipe \in Seq(Message)
  BY DEF Feeder, FeedSmall, FeedLargeBegin, FeedLargeEnd, FeederRuns, TypeInv
<1>1. Head(buffer) \in Message /\ Tail(buffer) \in Seq(Message)
  BY <1>0, HeadTail
<1>2. CASE FeedSmall
  <2>1. Append(pipe, Head(buffer)) \in Seq(Message)
    BY <1>0, <1>1
  <2> QED
    BY <1>2, <1>1, <2>1
    DEF FeedSmall, TypeInv, parentVars, childVars, osVars
<1>3. CASE FeedLargeBegin
  BY <1>3 DEF FeedLargeBegin, TypeInv, parentVars, childVars, osVars
<1>4. CASE FeedLargeEnd
  <2>1. <<Head(buffer)>> \in Seq(Message)
    BY <1>1
  <2>2. pipe' \in Seq(Message) /\ buffer' \in Seq(Message)
    BY <1>4, <1>1, <2>1 DEF FeedLargeEnd
  <2>3. partial' \in BOOLEAN /\ UNCHANGED <<parentVars, childVars, osVars>>
    BY <1>4 DEF FeedLargeEnd
  <2> QED
    BY <2>2, <2>3 DEF TypeInv, parentVars, childVars, osVars
<1> QED
  BY <1>2, <1>3, <1>4 DEF Feeder

LEMMA RowTypes ==
    ASSUME NEW st \in Statuses, NEW so \in BOOLEAN, NEW w \in WitnessIds,
           NEW v \in BOOLEAN
    PROVE  Row(st, so, w, v) \in Outcome
  BY DEF Row, Outcome

(* Every step of run_solver keeps the types. *)
LEMMA ParentType == TypeInv /\ MessagesInv /\ Parent => TypeInv'
<1> SUFFICES ASSUME TypeInv, MessagesInv, Parent PROVE TypeInv'
  OBVIOUS
<1>z. 0 \in WitnessIds
  BY MaxEmitsAssumption DEF WitnessIds
<1>1. CASE LoopTest
  BY <1>1 DEF LoopTest, Goto, TypeInv, childVars, queueVars, osVars
<1>2. CASE Receive
  <2>1. Head(pipe) \in Message /\ Tail(pipe) \in Seq(Message)
    BY <1>2, HeadTail DEF Receive, TypeInv
  <2>2. Head(pipe).witness \in WitnessIds
    BY <2>1 DEF Message
  <2>3. witness' \in WitnessIds
    BY <1>2, <2>2 DEF Receive, TypeInv
  <2>4. message' \in Message \cup {NoMessage}
    BY <1>2, <2>1 DEF Receive, TypeInv
  <2> QED
    BY <1>2, <2>1, <2>3, <2>4
    DEF Receive, TypeInv, childVars, osVars
<1>3. CASE DrainDone
  BY <1>3 DEF DrainDone, Goto, TypeInv, childVars, queueVars, osVars
<1>4. CASE CheckAlive
  BY <1>4 DEF CheckAlive, Goto, TypeInv, childVars, queueVars, osVars
<1>5. CASE Terminate
  BY <1>5 DEF Terminate, SignalTree, Goto, TypeInv, childVars, queueVars
<1>6. CASE JoinTerminated
  BY <1>6 DEF JoinTerminated, Goto, TypeInv, childVars, queueVars, osVars
<1>7. CASE Kill
  BY <1>7 DEF Kill, SignalTree, Goto, TypeInv, childVars, queueVars
<1>8. CASE JoinKilled
  BY <1>8 DEF JoinKilled, Goto, TypeInv, childVars, queueVars, osVars
<1>9. CASE ReturnKilled
  <2>1. outcome' \in Outcome
    BY <1>9, RowTypes DEF ReturnKilled, TypeInv, Statuses
  <2>2. /\ pc' = "done"
        /\ UNCHANGED <<message, witness, childVars, queueVars, osVars>>
    BY <1>9 DEF ReturnKilled, Goto
  <2> QED
    BY <2>1, <2>2 DEF TypeInv, childVars, queueVars, osVars
<1>10. CASE ReturnExited
  <2>1. ASSUME message = NoMessage PROVE outcome' \in Outcome
    <3>1. ExitedOutcome = Row("no_result", FALSE, witness, witness # 0)
      BY <2>1 DEF ExitedOutcome, NoMessage
    <3> QED
      BY <1>10, <3>1, RowTypes DEF ReturnExited, TypeInv, Statuses
  <2>2. ASSUME message # NoMessage, message.kind = "fatal"
        PROVE  outcome' \in Outcome
    <3>1. ExitedOutcome = Row("abort", FALSE, 0, FALSE)
      BY <2>2 DEF ExitedOutcome
    <3> QED
      BY <1>10, <3>1, <1>z, RowTypes DEF ReturnExited, Statuses
  <2>3. ASSUME message # NoMessage, message.kind # "fatal"
        PROVE  outcome' \in Outcome
    <3> DEFINE w == IF message.witness # 0 THEN message.witness ELSE witness
               so == message.kind = "solution_returned"
    <3>1. ExitedOutcome = Row(message.kind, so, w, TRUE)
      BY <2>3 DEF ExitedOutcome
    <3>2. message \in Message
      BY <2>3 DEF TypeInv
    <3>3. message.kind \in Statuses
      BY <2>3 DEF MessagesInv, ResultKinds, Statuses
    <3>4. w \in WitnessIds
      BY <3>2 DEF Message, TypeInv
    <3>5. so \in BOOLEAN
      OBVIOUS
    <3> HIDE DEF w, so
    <3> QED
      BY <1>10, <3>1, <3>3, <3>4, <3>5, RowTypes DEF ReturnExited
  <2>4. outcome' \in Outcome \cup {NoOutcome}
    BY <2>1, <2>2, <2>3
  <2> QED
    BY <1>10, <2>4
    DEF ReturnExited, Goto, TypeInv, childVars, queueVars, osVars
<1> QED
  BY <1>1, <1>2, <1>3, <1>4, <1>5, <1>6, <1>7, <1>8, <1>9, <1>10 DEF Parent

LEMMA EnvironmentType == TypeInv /\ Environment => TypeInv'
<1> SUFFICES ASSUME TypeInv, Environment PROVE TypeInv'
  OBVIOUS
<1>1. CASE DeadlinePasses
  BY <1>1 DEF DeadlinePasses, TypeInv, parentVars, childVars, queueVars
<1>2. CASE SignalChild
  BY <1>2 DEF SignalChild, TypeInv, parentVars, queueVars, osVars, Gone
<1>3. CASE HelperEnds
  BY <1>3 DEF HelperEnds, TypeInv, parentVars, childVars, queueVars
<1> QED
  BY <1>1, <1>2, <1>3 DEF Environment

LEMMA StutterType == TypeInv /\ UNCHANGED vars => TypeInv'
  BY DEF TypeInv, vars, parentVars, childVars, queueVars, osVars

-----------------------------------------------------------------------------
(* The messages.  Only Post changes posted, and it does so once.           *)

LEMMA InitMessages == Init => MessagesInv /\ ChildInv
  BY MaxEmitsAssumption DEF Init, MessagesInv, ChildInv

LEMMA AppendPosted ==
    ASSUME NEW S, NEW q \in Seq(S), NEW m \in S, NEW i \in 1 .. Len(Append(q, m))
    PROVE  (i \in 1 .. Len(q) /\ Append(q, m)[i] = q[i])
           \/ Append(q, m)[i] = m
  OBVIOUS

(* A step of the child that leaves the queue and posted alone. *)
LEMMA QuietChild ==
    ASSUME MessagesInv, UNCHANGED <<parentVars, posted, queueVars>>
    PROVE  MessagesInv'
  BY DEF MessagesInv, Posted, WellFormed, parentVars, queueVars

LEMMA ChildMessages == TypeInv /\ MessagesInv /\ ChildInv /\ Child
                          => MessagesInv' /\ ChildInv'
<1> SUFFICES ASSUME TypeInv, MessagesInv, ChildInv, Child
             PROVE  MessagesInv' /\ ChildInv'
  OBVIOUS
<1>a. MaxEmits \in Nat /\ latest \in 0 .. MaxEmits + 1
  BY MaxEmitsAssumption DEF TypeInv, WitnessIds
<1>b. buffer \in Seq(Message)
  BY DEF TypeInv
<1>1. CASE ChildStart \/ CallSolver \/ SolverReturns \/ ExitWithoutResult
           \/ Crash \/ ChildExit
  <2>1. UNCHANGED <<parentVars, posted, latest, queueVars>>
    BY <1>1 DEF ChildStart, CallSolver, SolverReturns, ExitWithoutResult,
       Crash, ChildExit
  <2>2. child' \in {"forked", "adapter", "solving"}
           => child \in {"forked", "adapter", "solving"}
    BY <1>1 DEF ChildStart, CallSolver, SolverReturns, ExitWithoutResult,
       Crash, ChildExit
  <2> QED
    BY <2>1, <2>2, QuietChild DEF ChildInv
<1>2. CASE EmitWitness
  <2> DEFINE m == WitnessEvent(latest')
  <2>1. /\ latest' = latest + 1 /\ latest < MaxEmits
        /\ buffer' = Append(buffer, m)
        /\ UNCHANGED <<message, posted, pipe, child>>
    BY <1>2 DEF EmitWitness, Put, parentVars
  <2>2. m \in Message /\ m.kind \notin ResultKinds
    BY <2>1, <1>a, MessageTypes DEF WitnessEvent, ResultKinds, WitnessIds
  <2>3. ASSUME NEW i \in 1 .. Len(buffer') PROVE Posted(buffer[i])'
    <3> HIDE DEF m
    <3>1. (i \in 1 .. Len(buffer) /\ buffer'[i] = buffer[i]) \/ buffer'[i] = m
      BY <1>b, <2>1, <2>2, AppendPosted
    <3> QED
      BY <3>1, <2>1, <2>2 DEF Posted, MessagesInv
  <2>4. MessagesInv'
    BY <2>1, <2>3 DEF MessagesInv, Posted, WellFormed
  <2> QED
    BY <2>1, <2>4, <1>a DEF ChildInv
<1>3. ASSUME NEW m \in Message, Post(m), m.kind \in ResultKinds, WellFormed(m)
      PROVE  MessagesInv' /\ ChildInv'
  <2>1. /\ posted = NoMessage
        /\ posted' = m
        /\ buffer' = Append(buffer, m)
        /\ child' = "teardown"
        /\ UNCHANGED <<message, pipe>>
    BY <1>3 DEF Post, Put, parentVars, ChildInv
  <2>2. ASSUME NEW i \in 1 .. Len(buffer') PROVE Posted(buffer[i])'
    <3>1. (i \in 1 .. Len(buffer) /\ buffer'[i] = buffer[i]) \/ buffer'[i] = m
      BY <1>b, <2>1, AppendPosted
    <3>2. CASE buffer'[i] = m
      BY <3>2, <2>1 DEF Posted
    <3>3. CASE i \in 1 .. Len(buffer) /\ buffer'[i] = buffer[i]
      BY <3>3, <2>1 DEF Posted, MessagesInv, NoMessage, ResultKinds
    <3> QED
      BY <3>1, <3>2, <3>3
  <2>3. ASSUME NEW i \in 1 .. Len(pipe') PROVE Posted(pipe[i])'
    BY <2>1 DEF Posted, MessagesInv, NoMessage, ResultKinds
  <2> QED
    BY <1>3, <2>1, <2>2, <2>3 DEF MessagesInv, ChildInv, WellFormed
<1>4. CASE ReturnSolution
  <2>1. PICK size \in Sizes : Post(Result("solution_returned", latest', size))
    BY <1>4 DEF ReturnSolution
  <2>2. latest' \in WitnessIds /\ latest' # 0
    BY <1>4, <1>a, <2>1 DEF ReturnSolution, WitnessIds, ChildInv, Post
  <2>3. size \in {"small", "large"}
    BY SizesAssumption
  <2> QED
    BY <1>3, <2>1, <2>2, <2>3, MessageTypes DEF Result, ResultKinds, WellFormed
<1>5. CASE ReturnNoSolution
  <2>1. Post(Result("no_solution", latest', "small"))
    BY <1>5 DEF ReturnNoSolution
  <2>2. latest' \in WitnessIds /\ latest' # 0
    BY <1>5, <1>a, <2>1 DEF ReturnNoSolution, WitnessIds, ChildInv, Post
  <2> QED
    BY <1>3, <2>1, <2>2, MessageTypes DEF Result, ResultKinds, WellFormed
<1>6. CASE Post(Result("fatal", 0, "small"))
  <2>1. 0 \in WitnessIds
    BY <1>a DEF WitnessIds
  <2> QED
    BY <1>3, <1>6, <2>1, MessageTypes DEF Result, ResultKinds, WellFormed
<1>7. CASE RaiseError
  <2>1. PICK kind \in {"no_solution", "adapter_error"} :
          Post(IF latest = 0 THEN Result("fatal", 0, "small")
                             ELSE Result(kind, latest, "small"))
    BY <1>7 DEF RaiseError
  <2>2. CASE latest = 0
    BY <2>1, <2>2, <1>6
  <2>3. CASE latest # 0
    <3>1. latest \in WitnessIds
      BY DEF TypeInv
    <3> QED
      BY <1>3, <2>1, <2>3, <3>1, MessageTypes
      DEF Result, ResultKinds, WellFormed
  <2> QED
    BY <2>2, <2>3
<1> QED
  BY <1>1, <1>2, <1>4, <1>5, <1>6, <1>7 DEF Child, ViolateFairStart

LEMMA FeederMessages == TypeInv /\ MessagesInv /\ ChildInv /\ Feeder
                           => MessagesInv' /\ ChildInv'
<1> SUFFICES ASSUME TypeInv, MessagesInv, ChildInv, Feeder
             PROVE  MessagesInv' /\ ChildInv'
  OBVIOUS
<1>1. /\ buffer # <<>> /\ buffer \in Seq(Message) /\ pipe \in Seq(Message)
      /\ UNCHANGED <<message, posted, child, latest>>
  BY DEF Feeder, FeedSmall, FeedLargeBegin, FeedLargeEnd, FeederRuns, TypeInv,
     parentVars, childVars
<1>2. Head(buffer) \in Message /\ Posted(Head(buffer))
  BY <1>1, HeadTail DEF MessagesInv
<1>3. \A i \in 1 .. Len(Tail(buffer)) : Posted(Tail(buffer)[i])
  <2> TAKE i \in 1 .. Len(Tail(buffer))
  <2>1. i + 1 \in 1 .. Len(buffer) /\ Tail(buffer)[i] = buffer[i + 1]
    BY <1>1, HeadTail
  <2> QED
    BY <2>1 DEF MessagesInv
<1>4. \A i \in 1 .. Len(Append(pipe, Head(buffer))) :
          Posted(Append(pipe, Head(buffer))[i])
  <2> TAKE i \in 1 .. Len(Append(pipe, Head(buffer)))
  <2>1. \/ i \in 1 .. Len(pipe) /\ Append(pipe, Head(buffer))[i] = pipe[i]
        \/ Append(pipe, Head(buffer))[i] = Head(buffer)
    BY <1>1, <1>2, AppendPosted
  <2> QED
    BY <2>1, <1>2 DEF MessagesInv
<1>5. ChildInv'
  BY <1>1 DEF ChildInv
<1>6. ASSUME \A i \in 1 .. Len(buffer') : Posted(buffer'[i]),
             \A i \in 1 .. Len(pipe') : Posted(pipe'[i])
      PROVE  MessagesInv'
  BY <1>1, <1>6 DEF MessagesInv, Posted, WellFormed
<1>7. CASE FeedSmall
  <2>1. buffer' = Tail(buffer) /\ pipe' = Append(pipe, Head(buffer))
    BY <1>7 DEF FeedSmall
  <2> QED
    BY <1>3, <1>4, <1>5, <1>6, <2>1
<1>8. CASE FeedLargeBegin
  <2>1. buffer' = buffer /\ pipe' = pipe
    BY <1>8 DEF FeedLargeBegin
  <2> QED
    BY <1>5, <1>6, <2>1 DEF MessagesInv
<1>9. CASE FeedLargeEnd
  <2>1. buffer' = Tail(buffer) /\ pipe' = <<Head(buffer)>>
    BY <1>9 DEF FeedLargeEnd
  <2>2. \A i \in 1 .. Len(<<Head(buffer)>>) : Posted(<<Head(buffer)>>[i])
    BY <1>2
  <2> QED
    BY <1>3, <1>5, <1>6, <2>1, <2>2
<1> QED
  BY <1>7, <1>8, <1>9 DEF Feeder

LEMMA ParentMessages == TypeInv /\ MessagesInv /\ ChildInv /\ Parent
                           => MessagesInv' /\ ChildInv'
<1> SUFFICES ASSUME TypeInv, MessagesInv, ChildInv, Parent
             PROVE  MessagesInv' /\ ChildInv'
  OBVIOUS
<1>1. UNCHANGED <<child, latest, posted, buffer>>
  BY DEF Parent, LoopTest, Receive, DrainDone, CheckAlive, Terminate,
     JoinTerminated, Kill, JoinKilled, ReturnKilled, ReturnExited,
     childVars, queueVars
<1>2. ChildInv'
  BY <1>1 DEF ChildInv
<1>3. CASE Receive
  <2>1. /\ pipe # <<>> /\ pipe \in Seq(Message)
        /\ pipe' = Tail(pipe)
        /\ message' = IF Head(pipe).kind = "fair_start_witness"
                      THEN message ELSE Head(pipe)
    BY <1>3 DEF Receive, TypeInv
  <2>2. Posted(Head(pipe)) /\ Head(pipe) \in Message
    BY <2>1, HeadTail DEF MessagesInv
  <2>3. message' # NoMessage => message' = posted
    BY <2>1, <2>2 DEF MessagesInv, Posted, Message, Kinds
  <2>4. \A i \in 1 .. Len(Tail(pipe)) : Posted(Tail(pipe)[i])
    <3> TAKE i \in 1 .. Len(Tail(pipe))
    <3>1. i + 1 \in 1 .. Len(pipe) /\ Tail(pipe)[i] = pipe[i + 1]
      BY <2>1, HeadTail
    <3> QED
      BY <3>1 DEF MessagesInv
  <2> QED
    BY <1>1, <1>2, <2>1, <2>3, <2>4 DEF MessagesInv, Posted, WellFormed
<1>4. CASE ~Receive
  <2>1. UNCHANGED <<message, pipe>>
    BY <1>4 DEF Parent, LoopTest, DrainDone, CheckAlive, Terminate,
       JoinTerminated, Kill, JoinKilled, ReturnKilled, ReturnExited, queueVars
  <2> QED
    BY <1>1, <1>2, <2>1 DEF MessagesInv, Posted, WellFormed
<1> QED
  BY <1>3, <1>4

LEMMA OtherMessages == MessagesInv /\ ChildInv /\ (Environment \/ UNCHANGED vars)
                          => MessagesInv' /\ ChildInv'
<1> SUFFICES ASSUME MessagesInv, ChildInv, Environment \/ UNCHANGED vars
             PROVE  MessagesInv' /\ ChildInv'
  OBVIOUS
<1>1. UNCHANGED <<parentVars, posted, latest, queueVars>>
  BY DEF Environment, DeadlinePasses, SignalChild, HelperEnds, vars, childVars
<1>2. child' = child \/ child' = "killed"
  BY DEF Environment, DeadlinePasses, SignalChild, HelperEnds, vars, childVars
<1> QED
  BY <1>1, <1>2, QuietChild DEF ChildInv

-----------------------------------------------------------------------------
(* The deadline: time does not run backwards, and the loop is left with    *)
(* the child alive only when it has passed.                                *)

LEMMA InitDeadline == Init => DeadlineInv
  BY DEF Init, DeadlineInv, NoEarlySignal

LEMMA NextDeadline == TypeInv /\ DeadlineInv /\ [Next]_vars => DeadlineInv'
<1> SUFFICES ASSUME TypeInv, DeadlineInv, [Next]_vars PROVE DeadlineInv'
  OBVIOUS
<1>1. late => late'
  BY DEF TypeInv, Next, Child, ChildStart, EmitWitness, CallSolver, SolverReturns,
     ReturnSolution, ReturnNoSolution, ViolateFairStart, RaiseError, Post,
     ExitWithoutResult, Crash, ChildExit, Feeder, FeedSmall, FeedLargeBegin,
     FeedLargeEnd, Parent, LoopTest, Receive, DrainDone, CheckAlive,
     Terminate, SignalTree, JoinTerminated, Kill, JoinKilled, ReturnKilled,
     ReturnExited, Environment, DeadlinePasses, SignalChild, HelperEnds,
     Finished, vars, osVars
<1>2. CASE Parent
  <2>1. child' = child
    BY <1>2 DEF Parent, LoopTest, Receive, DrainDone, CheckAlive, Terminate,
       JoinTerminated, Kill, JoinKilled, ReturnKilled, ReturnExited, childVars
  <2> QED
    BY <1>1, <1>2, <2>1
    DEF Parent, LoopTest, Receive, DrainDone, CheckAlive, Terminate,
       JoinTerminated, Kill, JoinKilled, ReturnKilled, ReturnExited, Draining,
       SignalTree, Goto, osVars, DeadlineInv, NoEarlySignal, Alive
<1>3. CASE ~Parent
  <2>1. UNCHANGED <<pc, signal, helperSignal>>
    BY <1>3 DEF Next, Child, ChildStart, EmitWitness, CallSolver,
       SolverReturns, ReturnSolution, ReturnNoSolution, ViolateFairStart,
       RaiseError, Post, ExitWithoutResult, Crash, ChildExit, Feeder,
       FeedSmall, FeedLargeBegin, FeedLargeEnd, Environment, DeadlinePasses,
       SignalChild, HelperEnds, Finished, vars, parentVars, osVars
  <2>2. Alive' => Alive
    BY <1>3 DEF Next, Child, ChildStart, EmitWitness, CallSolver,
       SolverReturns, ReturnSolution, ReturnNoSolution, ViolateFairStart,
       RaiseError, Post, ExitWithoutResult, Crash, ChildExit, Feeder,
       FeedSmall, FeedLargeBegin, FeedLargeEnd, Environment, DeadlinePasses,
       SignalChild, HelperEnds, Finished, vars, childVars, Alive, Gone
  <2> QED
    BY <1>1, <2>1, <2>2 DEF DeadlineInv, NoEarlySignal
<1> QED
  BY <1>2, <1>3

-----------------------------------------------------------------------------
(* The outcome.                                                            *)

LEMMA InitOutcome == Init => OutcomeInv
  BY DEF Init, OutcomeInv

LEMMA RowFields ==
    ASSUME NEW st, NEW so, NEW w, NEW v
    PROVE  /\ Row(st, so, w, v).status = st
           /\ Row(st, so, w, v).solution = so
           /\ Row(st, so, w, v).witness = w
           /\ Row(st, so, w, v).fairStartValid = v
  BY DEF Row

(* A returned row satisfies the contract.  The interesting case is a       *)
(* result message: it is the posted one, and names a witness.              *)
LEMMA ReturnOutcome ==
    TypeInv /\ MessagesInv /\ OutcomeInv /\ (ReturnKilled \/ ReturnExited)
        => OutcomeInv'
<1> SUFFICES ASSUME TypeInv, MessagesInv, OutcomeInv,
                    ReturnKilled \/ ReturnExited
             PROVE  OutcomeInv'
  OBVIOUS
<1>1. pc' = "done" /\ posted' = posted
  BY DEF ReturnKilled, ReturnExited, Goto, childVars
<1>2. ASSUME NEW st \in Statuses, NEW so, NEW w, NEW v,
             outcome' = Row(st, so, w, v),
             v = (w # 0), so = (st = "solution_returned"),
             st \in {"solution_returned", "no_solution", "adapter_error"}
                => w # 0,
             st = "abort" => w = 0,
             st = "solution_returned" =>
                posted.kind = "solution_returned" /\ w = posted.witness
      PROVE  OutcomeInv'
  <2>1. /\ outcome'.status = st /\ outcome'.solution = so
        /\ outcome'.witness = w /\ outcome'.fairStartValid = v
    BY <1>2, RowFields
  <2>2. outcome' # NoOutcome
    BY <2>1 DEF NoOutcome, Statuses
  <2> QED
    BY <1>1, <1>2, <2>1, <2>2 DEF OutcomeInv
<1>3. CASE ReturnKilled
  <2>1. outcome' = Row("watchdog_timeout", FALSE, witness, witness # 0)
    BY <1>3 DEF ReturnKilled
  <2>2. "watchdog_timeout" \in Statuses
    BY DEF Statuses
  <2> QED
    BY <1>2, <2>1, <2>2
<1>4. CASE ReturnExited /\ message = NoMessage
  <2>1. outcome' = Row("no_result", FALSE, witness, witness # 0)
    BY <1>4 DEF ReturnExited, ExitedOutcome, NoMessage
  <2>2. "no_result" \in Statuses
    BY DEF Statuses
  <2> QED
    BY <1>2, <2>1, <2>2
<1>5. CASE ReturnExited /\ message # NoMessage /\ message.kind = "fatal"
  <2>1. outcome' = Row("abort", FALSE, 0, FALSE)
    BY <1>5 DEF ReturnExited, ExitedOutcome
  <2>2. "abort" \in Statuses
    BY DEF Statuses
  <2> QED
    BY <1>2, <2>1, <2>2
<1>6. CASE ReturnExited /\ message # NoMessage /\ message.kind # "fatal"
  <2> DEFINE so == message.kind = "solution_returned"
             w == IF message.witness # 0 THEN message.witness ELSE witness
  <2>1. outcome' = Row(message.kind, so, w, TRUE)
    BY <1>6 DEF ReturnExited, ExitedOutcome
  <2>2. /\ message = posted
        /\ message.kind \in ResultKinds /\ message.witness # 0
    BY <1>6 DEF MessagesInv, WellFormed
  <2>3. message.kind \in Statuses /\ w = posted.witness /\ w # 0
    BY <1>6, <2>2 DEF ResultKinds, Statuses
  <2> HIDE DEF so, w
  <2>4. /\ outcome'.status = message.kind /\ outcome'.solution = so
        /\ outcome'.witness = w /\ outcome'.fairStartValid = TRUE
    BY <2>1, Zenon DEF Row
  <2>5. outcome' # NoOutcome
    BY <2>3, <2>4 DEF NoOutcome, Statuses
  <2>6. outcome'.fairStartValid = (outcome'.witness # 0)
    BY <2>3, <2>4
  <2>7. outcome'.solution = (outcome'.status = "solution_returned")
    BY <2>4 DEF so
  <2>8. outcome'.status # "abort"
    BY <2>2, <2>4 DEF ResultKinds
  <2> QED
    BY <1>1, <2>2, <2>3, <2>4, <2>5, <2>6, <2>7, <2>8 DEF OutcomeInv
<1> QED
  BY <1>3, <1>4, <1>5, <1>6

LEMMA NextOutcome ==
    TypeInv /\ MessagesInv /\ ChildInv /\ OutcomeInv /\ [Next]_vars
        => OutcomeInv'
<1> SUFFICES ASSUME TypeInv, MessagesInv, ChildInv, OutcomeInv, [Next]_vars
             PROVE  OutcomeInv'
  OBVIOUS
<1>1. CASE ReturnKilled \/ ReturnExited
  BY <1>1, ReturnOutcome
<1>2. CASE Parent /\ ~ReturnKilled /\ ~ReturnExited
  <2>1. UNCHANGED <<outcome, posted>> /\ pc # "done" /\ pc' # "done"
    BY <1>2 DEF Parent, LoopTest, Receive, DrainDone, CheckAlive, Terminate,
       JoinTerminated, Kill, JoinKilled, Draining, Goto, childVars, OutcomeInv
  <2> QED
    BY <2>1 DEF OutcomeInv
<1>3. CASE ~Parent
  <2>1. UNCHANGED <<pc, outcome>>
    BY <1>3 DEF Next, Child, ChildStart, EmitWitness, CallSolver,
       SolverReturns, ReturnSolution, ReturnNoSolution, ViolateFairStart,
       RaiseError, Post, ExitWithoutResult, Crash, ChildExit, Feeder,
       FeedSmall, FeedLargeBegin, FeedLargeEnd, Environment, DeadlinePasses,
       SignalChild, HelperEnds, Finished, vars, parentVars
  <2>2. posted' = posted \/ child = "adapter"
    BY <1>3 DEF Next, Child, ChildStart, EmitWitness, CallSolver,
       SolverReturns, ReturnSolution, ReturnNoSolution, ViolateFairStart,
       RaiseError, Post, ExitWithoutResult, Crash, ChildExit, Feeder,
       FeedSmall, FeedLargeBegin, FeedLargeEnd, Environment, DeadlinePasses,
       SignalChild, HelperEnds, Finished, vars, childVars
  <2>3. child = "adapter" => posted.kind # "solution_returned"
    BY DEF ChildInv, NoMessage
  <2> QED
    BY <2>1, <2>2, <2>3 DEF OutcomeInv
<1> QED
  BY <1>1, <1>2, <1>3 DEF Parent

-----------------------------------------------------------------------------
(* The invariant is inductive. *)
LEMMA Inductive == IInv /\ [Next]_vars => IInv'
<1> SUFFICES ASSUME IInv, [Next]_vars PROVE IInv'
  OBVIOUS
<1>1. TypeInv' /\ MessagesInv' /\ ChildInv'
  <2>1. CASE Child
    BY <2>1, ChildType, ChildMessages DEF IInv
  <2>2. CASE Feeder
    BY <2>2, FeederType, FeederMessages DEF IInv
  <2>3. CASE Parent
    BY <2>3, ParentType, ParentMessages DEF IInv
  <2>4. CASE Environment
    BY <2>4, EnvironmentType, OtherMessages DEF IInv
  <2>5. CASE UNCHANGED vars
    BY <2>5, StutterType, OtherMessages DEF IInv
  <2> QED
    BY <2>1, <2>2, <2>3, <2>4, <2>5 DEF Next, Finished
<1>2. DeadlineInv' /\ OutcomeInv'
  BY NextDeadline, NextOutcome DEF IInv
<1> QED
  BY <1>1, <1>2 DEF IInv

LEMMA Invariance == Spec => []IInv
<1>1. Init => IInv
  BY InitType, InitMessages, InitDeadline, InitOutcome DEF IInv
<1> QED
  BY <1>1, Inductive, PTL DEF Spec

(* Type correctness of one invocation (execution.py, run_solver). *)
THEOREM TypeCorrect == Spec => []TypeInv
<1>1. IInv => TypeInv
  BY DEF IInv
<1> QED
  BY <1>1, Invariance, PTL

(* A row with a solution is fair, and carries the witness the child        *)
(* validated with that solution (execution.py:159-185).                    *)
THEOREM SolutionsAreFair == Spec => []SolutionIsFair
<1>1. IInv => SolutionIsFair
  <2> SUFFICES ASSUME IInv, outcome.solution
               PROVE  /\ outcome.fairStartValid
                      /\ posted.kind = "solution_returned"
                      /\ outcome.witness = posted.witness
    BY DEF SolutionIsFair
  <2>1. outcome # NoOutcome
    BY DEF NoOutcome
  <2> QED
    BY <2>1 DEF IInv, OutcomeInv
<1> QED
  BY <1>1, Invariance, PTL

(* Nothing is signalled before the watchdog's deadline                     *)
(* (execution.py:82-93).                                                   *)
THEOREM NothingSignalledEarly == Spec => []NoEarlySignal
<1>1. IInv => NoEarlySignal
  BY DEF IInv, DeadlineInv
<1> QED
  BY <1>1, Invariance, PTL

-----------------------------------------------------------------------------
(* The refinement.                                                         *)

(* run_solver returns once. *)
LEMMA ReturnsOnce ==
    OutcomeInv /\ [Next]_vars => outcome' = outcome \/ outcome = NoOutcome
<1> SUFFICES ASSUME OutcomeInv, [Next]_vars, outcome # NoOutcome
             PROVE  outcome' = outcome
  OBVIOUS
<1>1. pc = "done"
  BY DEF OutcomeInv
<1> QED
  BY <1>1
  DEF Next, Child, ChildStart, EmitWitness, CallSolver,
      SolverReturns, ReturnSolution, ReturnNoSolution, ViolateFairStart,
      RaiseError, Post, ExitWithoutResult, Crash, ChildExit, Feeder,
      FeedSmall, FeedLargeBegin, FeedLargeEnd, Parent, LoopTest, Receive,
      DrainDone, CheckAlive, Terminate, JoinTerminated, Kill, JoinKilled,
      ReturnKilled, ReturnExited, Draining, Environment, DeadlinePasses,
      SignalChild, HelperEnds, Finished, vars, parentVars

LEMMA OutcomeIsReport ==
    TypeInv /\ OutcomeInv /\ outcome # NoOutcome => Report \in Contract!Reports
<1> SUFFICES ASSUME TypeInv, OutcomeInv, outcome # NoOutcome
             PROVE  Report \in Contract!Reports
  OBVIOUS
<1>1. /\ outcome.status \in Statuses /\ outcome.solution \in BOOLEAN
      /\ outcome.fairStartValid \in BOOLEAN
  BY DEF TypeInv, Outcome
<1>2. /\ Report.status = outcome.status
      /\ Report.solution = outcome.solution
      /\ Report.hasWitness = (outcome.witness # 0)
      /\ Report.fairStartValid = outcome.fairStartValid
  BY Zenon DEF Report
<1>3. Report \in [status : Contract!Statuses, solution : BOOLEAN,
                  hasWitness : BOOLEAN, fairStartValid : BOOLEAN]
  BY <1>1 DEF Report, Statuses, Contract!Statuses
<1>4. Report.fairStartValid = Report.hasWitness
  BY <1>2 DEF OutcomeInv
<1>5. Report.solution = (Report.status = "solution_returned")
  BY <1>2 DEF OutcomeInv
<1>6. Report.status \in {"solution_returned", "no_solution", "adapter_error"}
        => Report.hasWitness
  BY <1>2 DEF OutcomeInv
<1>7. Report.status = "abort" => ~Report.hasWitness
  BY <1>2 DEF OutcomeInv
<1> HIDE DEF Report
<1> QED
  BY <1>3, <1>4, <1>5, <1>6, <1>7 DEF Contract!Reports

(* run_solver implements Invocation: it reports once, and what it reports  *)
(* is one of the reports the runner and the publication gate expect.       *)
THEOREM Refinement == Spec => ImplementsInvocation
<1>1. Init => Contract!Init
  <2> SUFFICES ASSUME Init PROVE Report = Contract!Pending
    BY DEF Contract!Init
  <2> QED
    BY DEF Init, NoOutcome, Report, Contract!Pending
<1>2. IInv /\ IInv' /\ [Next]_vars => [Contract!Next]_Report
  <2> SUFFICES ASSUME IInv, IInv', [Next]_vars
               PROVE  Report' = Report \/ Contract!Next
    OBVIOUS
  <2>1. CASE outcome' = outcome
    BY <2>1 DEF Report
  <2>2. CASE outcome = NoOutcome /\ outcome' # NoOutcome
    <3>1. Report = Contract!Pending
      BY <2>2 DEF Report, NoOutcome, Contract!Pending
    <3>2. Report' \in Contract!Reports
      <4>1. (TypeInv /\ OutcomeInv /\ outcome # NoOutcome
               => Report \in Contract!Reports)'
        BY OutcomeIsReport, PTL
      <4> QED
        BY <4>1, <2>2 DEF IInv, Contract!Reports, Contract!Statuses
    <3> QED
      BY <3>1, <3>2 DEF Contract!Next
  <2> QED
    BY <2>1, <2>2, ReturnsOnce DEF IInv
<1> QED
  BY <1>1, <1>2, Invariance, PTL DEF Spec, ImplementsInvocation, Contract!Spec

-----------------------------------------------------------------------------
(* Delivery.  What the child put travels through the buffer, the feeder    *)
(* and the pipe in one order: the messages on their way are the pipe's,    *)
(* then the buffer's.                                                      *)

Count == Len(pipe) + Len(buffer)
InFlight(i) == IF i <= Len(pipe) THEN pipe[i] ELSE buffer[i - Len(pipe)]

(* The result is on its way or was received, and the last witness on its   *)
(* way is the child's latest; with none on its way, the parent has it.     *)
ResultArrives ==
    /\ posted # NoMessage =>
          message = posted \/ \E i \in 1 .. Count : InFlight(i) = posted
    /\ posted # NoMessage /\ posted.kind # "fatal" => posted.witness = latest
Newest(i) ==
    /\ InFlight(i).witness = latest
    /\ \A j \in i + 1 .. Count : InFlight(j).witness \in {0, latest}
WitnessArrives ==
    \/ witness = latest /\ \A j \in 1 .. Count : InFlight(j).witness \in {0, latest}
    \/ latest # 0 /\ \E i \in 1 .. Count : Newest(i)

ExitInv ==
    /\ child = "exited" => buffer = <<>>
    /\ pc = "drainExited" => ~Alive
    /\ Returned /\ ~KilledRow => ~Alive

DeliveryInv ==
    ResultArrives /\ WitnessArrives /\ ExitInv /\ OrderlyExitIsReported

LEMMA InitDelivery == Init => DeliveryInv
<1> SUFFICES ASSUME Init PROVE DeliveryInv
  OBVIOUS
<1>1. Count = 0
  BY DEF Init, Count
<1> QED
  BY <1>1 DEF Init, DeliveryInv, ResultArrives, WitnessArrives, ExitInv,
     OrderlyExitIsReported, Returned, Alive, Gone

LEMMA CountIsNat ==
    TypeInv => /\ Count \in Nat /\ Len(pipe) \in Nat /\ Len(buffer) \in Nat
               /\ pipe \in Seq(Message) /\ buffer \in Seq(Message)
  BY DEF TypeInv, Count

(* The feeder moves a message from one end of the way to the other.        *)
LEMMA FeederKeepsOrder ==
    ASSUME TypeInv, Feeder
    PROVE  Count' = Count /\ \A i \in 1 .. Count : InFlight(i)' = InFlight(i)
<1>1. /\ pipe \in Seq(Message) /\ buffer \in Seq(Message) /\ buffer # <<>>
  BY DEF TypeInv, Feeder, FeedSmall, FeedLargeBegin, FeedLargeEnd, FeederRuns
<1>2. /\ Head(buffer) = buffer[1] /\ Len(buffer) \in Nat \ {0}
      /\ Len(Tail(buffer)) = Len(buffer) - 1 /\ Len(pipe) \in Nat
      /\ \A i \in 1 .. Len(Tail(buffer)) : Tail(buffer)[i] = buffer[i + 1]
  BY <1>1, HeadTail
<1>3. CASE FeedLargeBegin
  BY <1>3 DEF FeedLargeBegin, Count, InFlight
<1>4. CASE buffer' = Tail(buffer) /\ pipe' = Append(pipe, Head(buffer))
  <2>1. /\ Len(pipe') = Len(pipe) + 1 /\ pipe'[Len(pipe) + 1] = buffer[1]
        /\ \A i \in 1 .. Len(pipe) : pipe'[i] = pipe[i]
    BY <1>1, <1>2, <1>4
  <2>2. Count' = Count
    BY <1>2, <1>4, <2>1 DEF Count
  <2>3. ASSUME NEW i \in 1 .. Count PROVE InFlight(i)' = InFlight(i)
    <3>1. CASE i <= Len(pipe)
      BY <1>2, <2>1, <3>1 DEF InFlight
    <3>2. CASE i = Len(pipe) + 1
      BY <1>2, <2>1, <3>2 DEF InFlight
    <3>3. CASE i > Len(pipe) + 1
      <4>1. i - Len(pipe') \in 1 .. Len(Tail(buffer))
        BY <1>2, <2>1, <3>3 DEF Count
      <4>2. Tail(buffer)[i - Len(pipe')] = buffer[i - Len(pipe') + 1]
        BY <1>2, <4>1
      <4>3. i - Len(pipe') + 1 = i - Len(pipe)
        BY <1>2, <2>1
      <4>4. ~ (i <= Len(pipe)) /\ ~ (i <= Len(pipe'))
        BY <1>2, <2>1, <3>3
      <4>5. /\ InFlight(i)' = Tail(buffer)[i - Len(pipe')]
            /\ InFlight(i) = buffer[i - Len(pipe)]
        BY <1>4, <4>4 DEF InFlight
      <4> QED BY <4>2, <4>3, <4>5
    <3> QED BY <1>2, <3>1, <3>2, <3>3 DEF Count
  <2> QED BY <2>2, <2>3
<1>5. CASE FeedLargeEnd
  BY <1>1, <1>4, <1>5 DEF FeedLargeEnd
<1> QED BY <1>3, <1>4, <1>5 DEF Feeder, FeedSmall

(* One get takes the first message off the way.                            *)
LEMMA ReceiveTakesFirst ==
    ASSUME TypeInv, Receive
    PROVE  /\ Count \in Nat \ {0} /\ Count' = Count - 1 /\ InFlight(1) = Head(pipe)
           /\ \A i \in 1 .. Count - 1 : InFlight(i)' = InFlight(i + 1)
<1>1. /\ pipe \in Seq(Message) /\ buffer \in Seq(Message) /\ pipe # <<>>
      /\ pipe' = Tail(pipe) /\ buffer' = buffer /\ Len(buffer) \in Nat
  BY DEF TypeInv, Receive
<1>2. /\ Head(pipe) = pipe[1] /\ Len(pipe) \in Nat \ {0}
      /\ Len(Tail(pipe)) = Len(pipe) - 1
      /\ \A i \in 1 .. Len(Tail(pipe)) : Tail(pipe)[i] = pipe[i + 1]
  BY <1>1, HeadTail
<1>3. Count \in Nat \ {0} /\ Count' = Count - 1 /\ InFlight(1) = Head(pipe)
  BY <1>1, <1>2 DEF Count, InFlight
<1>4. ASSUME NEW i \in 1 .. Count - 1 PROVE InFlight(i)' = InFlight(i + 1)
  <2>1. CASE i <= Len(pipe) - 1
    BY <1>1, <1>2, <2>1 DEF InFlight
  <2>2. CASE i > Len(pipe) - 1
    <3>1. i - Len(pipe') = i + 1 - Len(pipe)
      BY <1>1, <1>2
    <3> QED BY <1>1, <1>2, <2>2, <3>1 DEF InFlight
  <2> QED BY <1>2, <2>1, <2>2
<1> QED BY <1>3, <1>4

(* put adds a message behind all others.                                   *)
LEMMA PutAddsLast ==
    ASSUME TypeInv, NEW m \in Message, Put(m)
    PROVE  /\ Count \in Nat /\ Count' = Count + 1 /\ InFlight(Count)' = m
           /\ \A i \in 1 .. Count : InFlight(i)' = InFlight(i)
<1>1. /\ pipe \in Seq(Message) /\ buffer \in Seq(Message)
      /\ pipe' = pipe /\ buffer' = Append(buffer, m)
      /\ Len(pipe) \in Nat /\ Len(buffer) \in Nat
  BY DEF TypeInv, Put
<1>2. /\ Len(buffer') = Len(buffer) + 1 /\ buffer'[Len(buffer) + 1] = m
      /\ \A i \in 1 .. Len(buffer) : buffer'[i] = buffer[i]
  BY <1>1
<1>3. Count' = Count + 1 /\ Count \in Nat
  BY <1>1, <1>2 DEF Count
<1>4. InFlight(Count)' = m
  <2>1. Count' = Len(pipe) + Len(buffer) + 1 /\ Len(pipe') = Len(pipe)
    BY <1>1, <1>3 DEF Count
  <2>2. Count' - Len(pipe') = Len(buffer) + 1 /\ ~ (Count' <= Len(pipe'))
    BY <1>1, <2>1
  <2>3. InFlight(Count)' = buffer'[Count' - Len(pipe')]
    BY <2>2 DEF InFlight
  <2> QED BY <1>2, <2>2, <2>3
<1>5. ASSUME NEW i \in 1 .. Count PROVE InFlight(i)' = InFlight(i)
  BY <1>1, <1>2 DEF InFlight, Count
<1> QED BY <1>3, <1>4, <1>5

LEMMA StillArrives ==
    ASSUME ResultArrives, WitnessArrives, TypeInv,
           UNCHANGED <<posted, latest, message, witness>>,
           Count' = Count, \A i \in 1 .. Count : InFlight(i)' = InFlight(i)
    PROVE  ResultArrives' /\ WitnessArrives'
<1>1. Count \in Nat
  BY CountIsNat
<1>2. ResultArrives'
  BY DEF ResultArrives
<1>3. ASSUME NEW i \in 1 .. Count, Newest(i) PROVE Newest(i)'
  BY <1>1, <1>3 DEF Newest
<1> QED
  BY <1>2, <1>3 DEF WitnessArrives

LEMMA ReceivedArrives ==
    ASSUME TypeInv, MessagesInv, ResultArrives, WitnessArrives, Receive
    PROVE  ResultArrives' /\ WitnessArrives'
<1> DEFINE m == Head(pipe)
<1>1. /\ Count \in Nat \ {0} /\ Count' = Count - 1 /\ InFlight(1) = m
      /\ \A i \in 1 .. Count - 1 : InFlight(i)' = InFlight(i + 1)
  BY ReceiveTakesFirst
<1>2. /\ UNCHANGED <<posted, latest>>
      /\ witness' = IF m.witness # 0 THEN m.witness ELSE witness
      /\ message' = IF m.kind = "fair_start_witness" THEN message ELSE m
  BY DEF Receive, childVars
<1>3. m \in Message /\ Posted(m)
  <2>1. pipe \in Seq(Message) /\ pipe # <<>>
    BY DEF TypeInv, Receive
  <2>2. m = pipe[1] /\ m \in Message /\ 1 \in 1 .. Len(pipe)
    BY <2>1, HeadTail
  <2> QED BY <2>2 DEF MessagesInv
<1>4. m.kind # "fair_start_witness" => m = posted
  BY <1>3 DEF Posted, Message, Kinds
<1>5. posted # NoMessage => posted.kind # "fair_start_witness"
  BY DEF MessagesInv, ResultKinds
<1> HIDE DEF m
(* A later message has moved up by one place.                              *)
<1>6. \A i \in 2 .. Count : i - 1 \in 1 .. Count' /\ InFlight(i - 1)' = InFlight(i)
  <2> SUFFICES ASSUME NEW i \in 2 .. Count
               PROVE  i - 1 \in 1 .. Count' /\ InFlight(i - 1)' = InFlight(i)
    OBVIOUS
  <2>1. i - 1 \in 1 .. Count - 1 /\ (i - 1) + 1 = i
    BY <1>1
  <2> QED BY <1>1, <2>1
<1>7. ResultArrives'
  <2>1. SUFFICES ASSUME posted # NoMessage
                 PROVE  message' = posted \/ \E i \in 1 .. Count' : InFlight(i)' = posted
    BY <1>2 DEF ResultArrives
  <2>2. CASE message = posted
    BY <1>2, <1>4, <2>2
  <2>3. CASE \E i \in 1 .. Count : InFlight(i) = posted
    <3>1. PICK i \in 1 .. Count : InFlight(i) = posted
      BY <2>3
    <3>2. CASE i = 1
      BY <1>1, <1>2, <1>5, <2>1, <3>1, <3>2
    <3>3. CASE i \in 2 .. Count
      BY <1>6, <3>1, <3>3
    <3> QED BY <1>1, <3>2, <3>3
  <2> QED BY <2>1, <2>2, <2>3 DEF ResultArrives
<1>8. WitnessArrives'
  <2>1. CASE /\ m.witness \in {0, latest} /\ witness' = latest
             /\ \A j \in 2 .. Count : InFlight(j).witness \in {0, latest}
    <3>1. \A j \in 1 .. Count' : InFlight(j)'.witness \in {0, latest}
      <4> SUFFICES ASSUME NEW j \in 1 .. Count'
                   PROVE  InFlight(j)'.witness \in {0, latest}
        OBVIOUS
      <4>1. j + 1 \in 2 .. Count /\ InFlight(j)' = InFlight(j + 1)
        BY <1>1
      <4> QED BY <2>1, <4>1
    <3> QED BY <1>2, <2>1, <3>1 DEF WitnessArrives
  <2>2. CASE witness = latest /\ \A j \in 1 .. Count : InFlight(j).witness \in {0, latest}
    <3>1. m.witness \in {0, latest}
      BY <1>1, <2>2
    <3> QED BY <1>1, <1>2, <2>1, <2>2, <3>1
  <2>3. CASE latest # 0 /\ \E i \in 1 .. Count : Newest(i)
    <3>1. PICK i \in 1 .. Count : Newest(i)
      BY <2>3
    <3>2. CASE i = 1
      <4>1. m.witness = latest /\ \A j \in 2 .. Count : InFlight(j).witness \in {0, latest}
        BY <1>1, <3>1, <3>2 DEF Newest
      <4> QED BY <1>2, <2>1, <2>3, <4>1
    <3>3. CASE i \in 2 .. Count
      <4>1. i - 1 \in 1 .. Count' /\ InFlight(i - 1)' = InFlight(i)
        BY <1>6, <3>3
      <4>2. \A j \in (i - 1) + 1 .. Count' : InFlight(j)'.witness \in {0, latest}
        <5> SUFFICES ASSUME NEW j \in (i - 1) + 1 .. Count'
                     PROVE  InFlight(j)'.witness \in {0, latest}
          OBVIOUS
        <5>1. j \in 1 .. Count - 1 /\ j + 1 \in i + 1 .. Count
          BY <1>1, <3>3
        <5> QED BY <1>1, <3>1, <5>1 DEF Newest
      <4>3. Newest(i - 1)'
        BY <1>2, <3>1, <4>1, <4>2 DEF Newest
      <4> QED BY <1>2, <2>3, <4>1, <4>3 DEF WitnessArrives
    <3> QED BY <1>1, <3>2, <3>3
  <2> QED BY <2>2, <2>3 DEF WitnessArrives
<1> QED BY <1>7, <1>8

(* A message put names the newest witness, or none when there is no newer. *)
LEMMA PutArrives ==
    ASSUME TypeInv, WitnessArrives, NEW m \in Message, Put(m),
           UNCHANGED <<message, witness>>,
           \/ m.witness = latest' /\ latest' # 0
           \/ m.witness = 0 /\ latest' = latest
    PROVE  /\ WitnessArrives'
           /\ \E i \in 1 .. Count' : InFlight(i)' = m
           /\ message = posted => message' = posted
           /\ \A i \in 1 .. Count : i \in 1 .. Count' /\ InFlight(i)' = InFlight(i)
<1>1. /\ Count \in Nat /\ Count' = Count + 1 /\ InFlight(Count)' = m
      /\ \A i \in 1 .. Count : InFlight(i)' = InFlight(i)
  BY PutAddsLast
<1>2. Count' \in 1 .. Count'
  BY <1>1
<1>3. PICK last \in 1 .. Count' : last = Count'
  BY <1>2
<1>4. InFlight(last)' = m
  BY <1>1, <1>3 DEF InFlight
<1>5. \A i \in 1 .. Count : i \in 1 .. Count' /\ InFlight(i)' = InFlight(i)
  BY <1>1
<1>6. WitnessArrives'
  <2>1. CASE m.witness = latest' /\ latest' # 0
    <3>1. Newest(last)'
      BY <1>1, <1>3, <1>4, <2>1 DEF Newest
    <3> QED BY <2>1, <3>1 DEF WitnessArrives
  <2>2. CASE m.witness = 0 /\ latest' = latest
    <3>1. CASE witness = latest /\ \A j \in 1 .. Count : InFlight(j).witness \in {0, latest}
      <4>1. ASSUME NEW j \in 1 .. Count' PROVE InFlight(j)'.witness \in {0, latest'}
        <5>1. CASE j = last
          BY <1>4, <2>2, <5>1
        <5>2. CASE j # last
          <6>1. j \in 1 .. Count
            BY <1>1, <1>3, <5>2
          <6> QED BY <1>5, <2>2, <3>1, <6>1
        <5> QED BY <5>1, <5>2
      <4> QED BY <2>2, <3>1, <4>1 DEF WitnessArrives
    <3>2. CASE latest # 0 /\ \E i \in 1 .. Count : Newest(i)
      <4>1. PICK i \in 1 .. Count : Newest(i)
        BY <3>2
      <4>2. ASSUME NEW j \in i + 1 .. Count' PROVE InFlight(j)'.witness \in {0, latest'}
        <5>1. CASE j = last
          BY <1>4, <2>2, <5>1
        <5>2. CASE j # last
          <6>1. j \in 1 .. Count /\ j \in i + 1 .. Count
            BY <1>1, <1>3, <5>2
          <6> QED BY <1>5, <2>2, <4>1, <6>1 DEF Newest
        <5> QED BY <5>1, <5>2
      <4>3. Newest(i)'
        BY <1>5, <2>2, <4>1, <4>2 DEF Newest
      <4> QED BY <1>5, <2>2, <3>2, <4>3 DEF WitnessArrives
    <3> QED BY <3>1, <3>2 DEF WitnessArrives
  <2> QED BY <2>1, <2>2
<1> QED BY <1>4, <1>5, <1>6

LEMMA EmittedArrives ==
    ASSUME TypeInv, ChildInv, ResultArrives, WitnessArrives, EmitWitness
    PROVE  ResultArrives' /\ WitnessArrives'
<1>1. /\ latest' = latest + 1 /\ latest < MaxEmits /\ Put(WitnessEvent(latest'))
      /\ UNCHANGED <<message, witness, posted>> /\ posted = NoMessage
      /\ latest \in Nat /\ MaxEmits \in Nat
  BY MaxEmitsAssumption
  DEF EmitWitness, parentVars, ChildInv, TypeInv, WitnessIds
<1>2. /\ WitnessEvent(latest') \in Message
      /\ WitnessEvent(latest').witness = latest' /\ latest' # 0
  BY <1>1, MessageTypes DEF WitnessEvent, WitnessIds
<1> QED BY <1>1, <1>2, PutArrives DEF ResultArrives

LEMMA PostedArrives ==
    ASSUME TypeInv, ChildInv, ResultArrives, WitnessArrives,
           NEW m \in Message, Post(m),
           \/ m.witness = latest' /\ latest' # 0
           \/ m.kind = "fatal" /\ m.witness = 0 /\ latest' = latest
    PROVE  ResultArrives' /\ WitnessArrives'
<1>1. Put(m) /\ posted' = m /\ UNCHANGED <<message, witness>>
  BY DEF Post, parentVars
<1> QED BY <1>1, PutArrives DEF ResultArrives

LEMMA ChildArrives ==
    ASSUME TypeInv, ChildInv, ResultArrives, WitnessArrives, Child
    PROVE  ResultArrives' /\ WitnessArrives'
<1>0. MaxEmits \in Nat /\ latest \in 0 .. MaxEmits + 1
  BY MaxEmitsAssumption DEF TypeInv, WitnessIds
<1>1. CASE ChildStart \/ CallSolver \/ SolverReturns \/ ExitWithoutResult
           \/ Crash \/ ChildExit
  <2>1. UNCHANGED <<parentVars, posted, latest, queueVars>>
    BY <1>1 DEF ChildStart, CallSolver, SolverReturns, ExitWithoutResult,
       Crash, ChildExit
  <2>2. Count' = Count /\ \A i \in 1 .. Count : InFlight(i)' = InFlight(i)
    BY <2>1 DEF queueVars, Count, InFlight
  <2> QED BY <2>1, <2>2, StillArrives DEF parentVars
<1>2. CASE EmitWitness
  BY <1>2, EmittedArrives
<1>3. CASE ReturnSolution
  <2>1. PICK size \in Sizes : Post(Result("solution_returned", latest', size))
    BY <1>3 DEF ReturnSolution
  <2>2. latest' \in WitnessIds /\ latest' # 0 /\ size \in {"small", "large"}
    BY <1>0, <1>3, <2>1, SizesAssumption DEF ReturnSolution, WitnessIds, ChildInv, Post
  <2> QED BY <2>1, <2>2, MessageTypes, PostedArrives DEF Result, ResultKinds
<1>4. CASE ReturnNoSolution
  <2>1. Post(Result("no_solution", latest', "small"))
    BY <1>4 DEF ReturnNoSolution
  <2>2. latest' \in WitnessIds /\ latest' # 0
    BY <1>0, <1>4, <2>1 DEF ReturnNoSolution, WitnessIds, ChildInv, Post
  <2> QED BY <2>1, <2>2, MessageTypes, PostedArrives DEF Result, ResultKinds
<1>5. CASE Post(Result("fatal", 0, "small")) /\ latest' = latest
  <2>1. Result("fatal", 0, "small") \in Message
    BY <1>0, MessageTypes DEF ResultKinds, WitnessIds
  <2>2. /\ Result("fatal", 0, "small").kind = "fatal"
        /\ Result("fatal", 0, "small").witness = 0
    BY DEF Result
  <2> QED BY <1>5, <2>1, <2>2, PostedArrives
<1>6. CASE ViolateFairStart
  BY <1>5, <1>6 DEF ViolateFairStart
<1>7. CASE RaiseError
  <2>1. CASE latest = 0
    BY <1>5, <1>7, <2>1 DEF RaiseError
  <2>2. CASE latest # 0
    <3>1. PICK kind \in {"no_solution", "adapter_error"} :
            Post(Result(kind, latest, "small"))
      BY <1>7, <2>2 DEF RaiseError
    <3>2. latest' = latest
      BY <1>7 DEF RaiseError
    <3>3. Result(kind, latest, "small") \in Message
      BY <1>0, MessageTypes DEF ResultKinds, WitnessIds
    <3> QED BY <2>2, <3>1, <3>2, <3>3, PostedArrives DEF Result
  <2> QED BY <2>1, <2>2
<1> QED BY <1>1, <1>2, <1>3, <1>4, <1>6, <1>7 DEF Child

LEMMA ElsewhereArrives ==
    ASSUME TypeInv, ResultArrives, WitnessArrives,
           Parent \/ Environment \/ UNCHANGED vars, ~Receive
    PROVE  ResultArrives' /\ WitnessArrives'
<1>1. UNCHANGED <<posted, latest, message, witness, pipe, buffer>>
  BY DEF Parent, LoopTest, DrainDone, CheckAlive, Terminate, JoinTerminated,
     Kill, JoinKilled, ReturnKilled, ReturnExited, Environment, DeadlinePasses,
     SignalChild, HelperEnds, vars, parentVars, childVars, queueVars
<1>2. Count' = Count /\ \A i \in 1 .. Count : InFlight(i)' = InFlight(i)
  BY <1>1 DEF Count, InFlight
<1> QED BY <1>1, <1>2, StillArrives

LEMMA NextArrives ==
    ASSUME TypeInv, MessagesInv, ChildInv, ResultArrives, WitnessArrives, [Next]_vars
    PROVE  ResultArrives' /\ WitnessArrives'
<1>1. CASE Child
  BY <1>1, ChildArrives
<1>2. CASE Feeder
  <2>1. UNCHANGED <<posted, latest, message, witness>>
    BY <1>2 DEF Feeder, FeedSmall, FeedLargeBegin, FeedLargeEnd, parentVars, childVars
  <2> QED BY <1>2, <2>1, FeederKeepsOrder, StillArrives
<1>3. CASE Receive
  BY <1>3, ReceivedArrives
<1>4. CASE (Parent \/ Environment \/ UNCHANGED vars) /\ ~Receive
  BY <1>4, ElsewhereArrives
<1> QED BY <1>1, <1>2, <1>3, <1>4 DEF Next, Finished

(* A child that is gone does nothing any more.                             *)
LEMMA GoneStays ==
    ASSUME [Next]_vars, ~Alive
    PROVE  UNCHANGED <<child, posted, latest, buffer>>
  BY DEF Alive, Runs, Next, Child, ChildStart, EmitWitness, CallSolver,
     SolverReturns, ReturnSolution, ReturnNoSolution, ViolateFairStart,
     RaiseError, Post, ExitWithoutResult, Crash, ChildExit, Feeder,
     FeedSmall, FeedLargeBegin, FeedLargeEnd, FeederRuns, Parent, LoopTest,
     Receive, DrainDone, CheckAlive, Terminate, JoinTerminated, Kill,
     JoinKilled, ReturnKilled, ReturnExited, Environment, DeadlinePasses,
     SignalChild, HelperEnds, Finished, vars, parentVars, childVars, queueVars

(* The report of a child that left in order, made when the pipe is empty.  *)
LEMMA ExitIsReported ==
    ASSUME TypeInv, MessagesInv, ResultArrives, WitnessArrives, ExitInv,
           ReturnExited, child = "exited"
    PROVE  /\ outcome'.status = CASE posted = NoMessage     -> "no_result"
                                  [] posted.kind = "fatal"  -> "abort"
                                  [] OTHER                  -> posted.kind
           /\ outcome'.status # "abort" =>
                 outcome'.witness = latest /\ outcome'.fairStartValid = (latest # 0)
<1>1. pipe = <<>> /\ buffer = <<>>
  BY DEF ReturnExited, PipeSilent, ExitInv
<1>2. Count = 0
  BY <1>1 DEF Count
<1>3. witness = latest
  BY <1>2 DEF WitnessArrives
<1>4. message = posted
  <2>1. CASE posted = NoMessage
    BY <2>1 DEF MessagesInv
  <2>2. CASE posted # NoMessage
    BY <1>2, <2>2 DEF ResultArrives
  <2> QED BY <2>1, <2>2
<1>5. CASE posted = NoMessage
  <2>1. outcome' = Row("no_result", FALSE, witness, witness # 0)
    BY <1>4, <1>5 DEF ReturnExited, ExitedOutcome, NoMessage
  <2>2. /\ outcome'.status = "no_result" /\ outcome'.witness = witness
        /\ outcome'.fairStartValid = (witness # 0)
    BY <2>1, Zenon DEF Row
  <2>3. (CASE posted = NoMessage     -> "no_result"
           [] posted.kind = "fatal"  -> "abort"
           [] OTHER                  -> posted.kind) = "no_result"
    BY <1>5 DEF NoMessage
  <2> QED BY <1>3, <2>2, <2>3
<1>6. CASE posted # NoMessage /\ posted.kind = "fatal"
  <2>1. outcome' = Row("abort", FALSE, 0, FALSE)
    BY <1>4, <1>6 DEF ReturnExited, ExitedOutcome
  <2>2. outcome'.status = "abort"
    BY <2>1 DEF Row
  <2> QED BY <1>6, <2>2
<1>7. CASE posted # NoMessage /\ posted.kind # "fatal"
  <2>1. posted.witness = latest /\ posted.witness # 0
    BY <1>7 DEF ResultArrives, MessagesInv, WellFormed
  <2>2. outcome' = Row(posted.kind, posted.kind = "solution_returned", latest, TRUE)
    BY <1>4, <1>7, <2>1 DEF ReturnExited, ExitedOutcome
  <2>3. /\ outcome'.status = posted.kind /\ outcome'.witness = latest
        /\ outcome'.fairStartValid = TRUE
    BY <2>2, Zenon DEF Row
  <2>4. (CASE posted = NoMessage     -> "no_result"
           [] posted.kind = "fatal"  -> "abort"
           [] OTHER                  -> posted.kind) = posted.kind
    BY <1>7
  <2> QED BY <2>1, <2>3, <2>4
<1> QED BY <1>5, <1>6, <1>7

LEMMA NextExit ==
    ASSUME TypeInv, MessagesInv, OutcomeInv, DeliveryInv, [Next]_vars
    PROVE  ExitInv' /\ OrderlyExitIsReported'
<1>1. CASE outcome' = outcome
  <2>1. child' = "exited" => buffer' = <<>>
    <3>1. CASE ~Alive
      BY <3>1, GoneStays DEF DeliveryInv, ExitInv
    <3>2. CASE Alive
      BY <3>2 DEF Alive, Gone, Next, Child, ChildStart, EmitWitness, CallSolver,
         SolverReturns, ReturnSolution, ReturnNoSolution, ViolateFairStart,
         RaiseError, Post, ExitWithoutResult, Crash, ChildExit, Feeder,
         FeedSmall, FeedLargeBegin, FeedLargeEnd, Parent, LoopTest,
         Receive, DrainDone, CheckAlive, Terminate, JoinTerminated, Kill,
         JoinKilled, ReturnKilled, ReturnExited, Environment, DeadlinePasses,
         SignalChild, HelperEnds, Finished, vars, parentVars, childVars, queueVars
    <3> QED BY <3>1, <3>2
  <2>2. pc' = "drainExited" => ~Alive
    BY DEF DeliveryInv, ExitInv, Next, Child, ChildStart, EmitWitness, CallSolver,
       SolverReturns, ReturnSolution, ReturnNoSolution, ViolateFairStart,
       RaiseError, Post, ExitWithoutResult, Crash, ChildExit, Feeder,
       FeedSmall, FeedLargeBegin, FeedLargeEnd, Parent, LoopTest,
       Receive, DrainDone, CheckAlive, Terminate, JoinTerminated, Kill,
       JoinKilled, ReturnKilled, ReturnExited, Goto, Environment, DeadlinePasses,
       SignalChild, HelperEnds, Finished, vars, parentVars
  <2>3. ~Alive => ~Alive' /\ UNCHANGED <<child, posted, latest>>
    BY GoneStays DEF Alive
  <2> QED
    BY <1>1, <2>1, <2>2, <2>3
    DEF DeliveryInv, ExitInv, OrderlyExitIsReported, Returned, KilledRow
<1>2. CASE outcome' # outcome
  <2>1. ReturnKilled \/ ReturnExited
    BY <1>2 DEF Next, Child, ChildStart, EmitWitness, CallSolver,
       SolverReturns, ReturnSolution, ReturnNoSolution, ViolateFairStart,
       RaiseError, Post, ExitWithoutResult, Crash, ChildExit, Feeder,
       FeedSmall, FeedLargeBegin, FeedLargeEnd, Parent, LoopTest,
       Receive, DrainDone, CheckAlive, Terminate, JoinTerminated, Kill,
       JoinKilled, Environment, DeadlinePasses,
       SignalChild, HelperEnds, Finished, vars, parentVars
  <2>2. pc' = "done" /\ UNCHANGED <<child, posted, latest, buffer>>
    BY <2>1 DEF ReturnKilled, ReturnExited, Goto, childVars, queueVars
  <2>3. CASE ReturnKilled
    <3>1. outcome'.status = "watchdog_timeout"
      BY <2>3 DEF ReturnKilled, Row
    <3> QED
      BY <2>2, <3>1 DEF DeliveryInv, ExitInv, OrderlyExitIsReported, KilledRow, Alive
  <2>4. CASE ReturnExited
    <3>1. ~Alive
      BY <2>4 DEF ReturnExited, DeliveryInv, ExitInv
    <3> QED
      BY <2>2, <2>4, <3>1, ExitIsReported
      DEF DeliveryInv, ExitInv, OrderlyExitIsReported, Alive
  <2> QED BY <2>1, <2>3, <2>4
<1> QED BY <1>1, <1>2

(* run_solver reports what a child that left in order said, whatever the   *)
(* feeder, the pipe and the polling did (execution.py:82-190).             *)
THEOREM OrderlyExits == Spec => []OrderlyExitIsReported
<1>1. IInv /\ DeliveryInv /\ [Next]_vars => DeliveryInv'
  BY NextArrives, NextExit DEF IInv, DeliveryInv
<1>2. DeliveryInv => OrderlyExitIsReported
  BY DEF DeliveryInv
<1> QED
  BY <1>1, <1>2, InitDelivery, Invariance, PTL DEF Spec
=============================================================================
