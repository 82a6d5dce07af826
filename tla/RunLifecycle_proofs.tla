------------------------- MODULE RunLifecycle_proofs -------------------------
(***************************************************************************)
(* What RunLifecycle promises for every selection, of any size: its types, *)
(* that a completed run is the exact matrix in both stores, that the two   *)
(* stores keep in step, that a closed run is final, that a run ends badly  *)
(* only through a fault from outside or watchdog options out of range, and *)
(* that every step is one of RunLedger or a stutter.                       *)
(***************************************************************************)
EXTENDS RunLifecycle, TLAPS, FiniteSetTheorems

-----------------------------------------------------------------------------
(* The inductive invariant.                                                *)

Accepting == {"csvOpen", "connect", "pushExit"} \cup Opening \cup Looping

(* The selection was accepted, and the loops stand at one of its places.   *)
AtInv ==
    /\ pc \in Accepting => Accepts(sel) /\ at \in Places(sel)
    /\ pc = "build" => at = FirstPlace
    /\ pc \in Accepting \cup {"build"} => ~raising

(* How far the run has come in the warehouse. *)
StatusInv ==
    /\ status = "none" => DOMAIN rows = {} /\ ~runInserted
    /\ pc \in {"build", "csvOpen", "connect", "insertRun"} =>
          status = "none"
    /\ pc \in {"noteRun", "insertMatrix", "insertVersions", "pushExit"} =>
          status = "running" /\ DOMAIN rows = {}
    /\ pc \in Opening \cup {"connect", "pushExit", "openFailed", "pgWrite",
                            "mark", "index"} => sel.save
    /\ pc = "openFailed" => status \in {"none", "running"} /\ DOMAIN rows = {}
    /\ pc \in Looping => status = IF sel.save THEN "running" ELSE "none"
    /\ pc = "finish" => status = "running" /\ sel.save
    /\ Closed => pc \in {"closeCsv"} \cup Terminal

(* The catalogue is complete before the exit handler is in place. *)
CatalogueInv ==
    /\ pc \in {"build", "csvOpen", "connect", "insertRun", "noteRun",
               "insertMatrix"} => versions = 0
    /\ pc = "insertVersions" =>
          entries = Expected /\ versions < Len(sel.solvers)
    /\ sel.save /\ pc \in Looping \cup {"pushExit", "finish"} =>
          entries = Expected /\ versions = Len(sel.solvers)
    /\ CatalogueBeforeSolvers

(* The stores and trackers follow one another: the writer's tracker, the   *)
(* warehouse, the CSV file, the runner's tracker.                          *)
ChainInv ==
    /\ recorded \subseteq DOMAIN rows
    /\ DOMAIN rows \subseteq CsvKeys
    /\ CsvKeys \subseteq observed
    /\ pc \in (Accepting \cup {"build"}) \ {"csvWrite", "csvFlush"} =>
          CsvKeys = observed
    /\ pc \in {"csvWrite", "csvFlush"} =>
          CsvKeys = observed \ {Key} /\ Key \in observed
    /\ pc \in {"pgWrite", "mark", "index"} => Key \in CsvKeys
    /\ pc = "mark" => DOMAIN rows = recorded \cup {Key} /\ Key \notin recorded
    /\ pc \in Looping \ {"mark"} => DOMAIN rows = recorded
    /\ pc = "finish" /\ ~raising => DOMAIN rows = recorded

(* What is left in the buffer of the CSV file is a line that is not there. *)
CsvInv ==
    /\ HasNoDuplicates(csv)
    /\ pending => Key \in observed \ CsvKeys
    /\ pending => pc = "csvFlush" \/ raising \/ pc \in Terminal
    /\ pc = "finish" /\ ~raising => ~pending

(* The counters. *)
CountInv ==
    LET n == Cardinality(DOMAIN rows) IN
    /\ IsFiniteSet(DOMAIN rows)
    /\ {rows[k].index : k \in DOMAIN rows} = 0 .. n - 1
    /\ n = rowIndex \/ n = rowIndex + 1
    /\ ~Closed => resultCount = n
    /\ pc \in {"mark", "index"} => n = rowIndex + 1
    /\ pc \in Looping \ {"mark", "index"} => n = rowIndex
    /\ pc = "finish" /\ ~raising => n = rowIndex

IInv ==
    /\ TypeInv /\ AtInv /\ StatusInv /\ CatalogueInv
    /\ ChainInv /\ CsvInv /\ CountInv /\ CountLagsByOne /\ CompletedIsExact

-----------------------------------------------------------------------------
(* The operators of BenchmarkMatrix. *)

LEMMA SelectionType ==
    ASSUME sel \in Selections
    PROVE  /\ sel.cases \in Seq(CaseIds) /\ sel.solvers \in Seq(SolverIds)
           /\ sel.limits \in Seq(Nat) /\ sel.save \in BOOLEAN
BY SelectionsAssumption

(* Every place has a key, and it is an expected one. *)
LEMMA KeyExpected ==
    ASSUME at \in Places(sel)
    PROVE  Key \in Expected
BY DEF Key, Expected, ExpectedKeys

(* The loops of an accepted selection start at a place, and the place      *)
(* after one that is not the last is a place.                              *)
LEMMA FirstIsPlace ==
    ASSUME sel \in Selections, Accepts(sel)
    PROVE  FirstPlace \in Places(sel)
<1>1. Len(sel.cases) \in Nat /\ Len(sel.limits) \in Nat /\ Len(sel.solvers) \in Nat
  BY SelectionType
<1> QED
  BY <1>1 DEF Accepts, FirstPlace, Places

LEMMA FollowingIsPlace ==
    ASSUME sel \in Selections, at \in Places(sel), ~IsLast(sel, at)
    PROVE  Following(sel, at) \in Places(sel)
<1>1. Len(sel.cases) \in Nat /\ Len(sel.limits) \in Nat /\ Len(sel.solvers) \in Nat
  BY SelectionType
<1>2. /\ at.c \in 1 .. Len(sel.cases) /\ at.l \in 1 .. Len(sel.limits)
      /\ at.s \in 1 .. Len(sel.solvers)
      /\ at = [c |-> at.c, l |-> at.l, s |-> at.s]
  BY DEF Places
<1>3. CASE at.s < Len(sel.solvers)
  BY <1>1, <1>2, <1>3 DEF Following, Places
<1>4. CASE at.s = Len(sel.solvers) /\ at.l < Len(sel.limits)
  <2>1. ~(at.s < Len(sel.solvers))
    BY <1>1, <1>4
  <2>2. Following(sel, at) = [at EXCEPT !.s = 1, !.l = @ + 1]
    BY <1>4, <2>1 DEF Following
  <2>3. Following(sel, at) = [c |-> at.c, l |-> at.l + 1, s |-> 1]
    BY <1>2, <2>2
  <2> QED
    BY <1>1, <1>2, <1>4, <2>3 DEF Places
<1>5. CASE at.s = Len(sel.solvers) /\ at.l = Len(sel.limits)
  BY <1>1, <1>2, <1>5 DEF Following, Places, IsLast
<1>6. at.s < Len(sel.solvers) \/ at.s = Len(sel.solvers)
  BY <1>1, <1>2
<1>7. at.l < Len(sel.limits) \/ at.l = Len(sel.limits)
  BY <1>1, <1>2
<1> QED
  BY <1>3, <1>4, <1>5, <1>6, <1>7

(* A line appended to the CSV file adds its key, and repeats none. *)
LEMMA AppendLine ==
    ASSUME NEW S, NEW s \in Seq(S), NEW k \in S, NEW t, t = Append(s, k)
    PROVE  /\ t \in Seq(S)
           /\ {t[i] : i \in 1 .. Len(t)} = {s[i] : i \in 1 .. Len(s)} \cup {k}
           /\ HasNoDuplicates(s) /\ k \notin {s[i] : i \in 1 .. Len(s)}
                => HasNoDuplicates(t)
<1>1. t \in Seq(S) /\ Len(t) = Len(s) + 1 /\ Len(s) \in Nat
  OBVIOUS
<1>2. t[Len(s) + 1] = k /\ \A i \in 1 .. Len(s) : t[i] = s[i]
  OBVIOUS
<1>3. 1 .. Len(t) = (1 .. Len(s)) \cup {Len(s) + 1}
  BY <1>1
<1> QED
  BY <1>1, <1>2, <1>3 DEF HasNoDuplicates

(* Nothing changes the selection. *)
LEMMA SelectionStays ==
    ASSUME [Next]_vars
    PROVE  sel' = sel /\ Expected' = Expected
<1>1. sel' = sel
  BY DEF Next, Step, BuildMatrix, OpenCsv, Connect, InsertRun, NoteRun,
     InsertExpectedMatrix, InsertSolverVersion, PushExit, RunSolver,
     Evaluate, ObserveRow, BufferCsvRow, FlushCsvRow, WriteWarehouseRow,
     MarkObserved, CountRow, AssertComplete, FinishRun,
     FinishAfterOpenFailure, CloseCsv, Interrupt, CrashHarness,
     RefuseWatchdog, vars, harnessVars
<1> QED
  BY <1>1 DEF Expected

-----------------------------------------------------------------------------
(* Types. *)

LEMMA InitTypes == Init => TypeInv
<1> SUFFICES ASSUME Init PROVE TypeInv
  OBVIOUS
<1>1. at \in [c : Nat, l : Nat, s : Nat]
  BY DEF Init, FirstPlace
<1>2. csv \in Seq(Expected)
  BY DEF Init
<1>3. DOMAIN rows = {} /\ rows \in [DOMAIN rows -> [index : Nat, fair : BOOLEAN]]
  BY DEF Init, NoRows
<1> QED
  BY <1>1, <1>2, <1>3 DEF Init, TypeInv, PCs, Opening, Looping, Terminal

LEMMA TypeStep ==
    ASSUME TypeInv, AtInv, CsvInv, [Next]_vars
    PROVE  TypeInv'
<1>0. sel' = sel /\ Expected' = Expected
  BY SelectionStays
<1> USE <1>0
<1>a. pc \in Looping => Key \in Expected
  BY KeyExpected DEF AtInv, Accepting
<1>b. pc \in Looping /\ Advance => at' \in [c : Nat, l : Nat, s : Nat]
  BY <1>a, FollowingIsPlace DEF TypeInv, AtInv, Accepting, Advance, Places
<1>c. csv' = Append(csv, Key) /\ Key \in Expected => csv' \in Seq(Expected)
  BY AppendLine DEF TypeInv
<1> USE DEF TypeInv, PCs, Opening, Looping, Terminal, FaultKinds,
            Goto, Raise, Fault, Handler, Statement, dbVars, csvVars, writerVars
<1>1. CASE BuildMatrix BY <1>1 DEF BuildMatrix
<1>2. CASE OpenCsv BY <1>2 DEF OpenCsv
<1>3. CASE Connect BY <1>3 DEF Connect
<1>4. CASE InsertRun BY <1>4 DEF InsertRun
<1>5. CASE NoteRun BY <1>5 DEF NoteRun
<1>6. CASE InsertExpectedMatrix BY <1>6 DEF InsertExpectedMatrix
<1>7. CASE InsertSolverVersion
  <2>1. versions' \in Nat
    BY <1>7 DEF InsertSolverVersion
  <2>2. pc' \in PCs
    BY <1>7 DEF InsertSolverVersion
  <2> QED
    BY <1>7, <2>1, <2>2 DEF InsertSolverVersion
<1>8. CASE PushExit BY <1>8 DEF PushExit
<1>9. CASE RunSolver
  <2>1. report' \in Run!Reports
    BY <1>9 DEF RunSolver, Run!Next
  <2> QED
    BY <1>9, <2>1 DEF RunSolver
<1>10. CASE Evaluate BY <1>10 DEF Evaluate
<1>11. CASE ObserveRow
  BY <1>11, <1>a DEF ObserveRow
<1>12. CASE BufferCsvRow BY <1>12 DEF BufferCsvRow
<1>13. CASE FlushCsvRow
  <2>1. at' \in [c : Nat, l : Nat, s : Nat]
    BY <1>13, <1>b DEF FlushCsvRow
  <2>2. csv' \in Seq(Expected)
    BY <1>13, <1>a, <1>c DEF FlushCsvRow
  <2>3. report' \in Run!Reports \cup {Run!Pending}
    BY <1>13 DEF FlushCsvRow, Advance
  <2>4. pc' \in PCs /\ raising' \in BOOLEAN
    BY <1>13 DEF FlushCsvRow, Advance
  <2> QED
    BY <1>13, <2>1, <2>2, <2>3, <2>4 DEF FlushCsvRow
<1>14. CASE WriteWarehouseRow
  <2>0. report \in Run!Reports \/ report = Run!Pending
    OBVIOUS
  <2>1. report.fairStartValid \in BOOLEAN
    <3>1. CASE report \in Run!Reports
      BY ONLY <3>1, Zenon DEF Run!Reports
    <3>2. CASE report = Run!Pending
      BY ONLY <3>2 DEF Run!Pending
    <3> QED
      BY <2>0, <3>1, <3>2
  <2>2. /\ DOMAIN rows' \subseteq Expected
        /\ rows' \in [DOMAIN rows' -> [index : Nat, fair : BOOLEAN]]
    <3>1. CASE UNCHANGED rows
      BY <3>1
    <3>2. CASE rows' = WithRow
      BY <1>14, <1>a, <2>1, <3>2 DEF WithRow, WriteWarehouseRow
    <3> QED
      BY <1>14, <3>1, <3>2 DEF WriteWarehouseRow
  <2>3. pc' \in PCs /\ raising' \in BOOLEAN /\ conn' \in {"none", "open", "lost"}
    BY <1>14 DEF WriteWarehouseRow
  <2>4. resultCount' \in Nat /\ faults' \subseteq FaultKinds
    BY <1>14 DEF WriteWarehouseRow
  <2> QED
    BY <1>14, <2>2, <2>3, <2>4 DEF WriteWarehouseRow
<1>15. CASE MarkObserved
  BY <1>15, <1>a DEF MarkObserved
<1>16. CASE CountRow
  <2>1. at' \in [c : Nat, l : Nat, s : Nat]
    BY <1>16, <1>b DEF CountRow
  <2> QED
    BY <1>16, <2>1 DEF CountRow, Advance
<1>17. CASE AssertComplete BY <1>17 DEF AssertComplete
<1>18. CASE FinishRun BY <1>18 DEF FinishRun, CloseRun, FinalStatus
<1>19. CASE FinishAfterOpenFailure
  BY <1>19 DEF FinishAfterOpenFailure, CloseRun
<1>20. CASE CloseCsv
  <2>1. pending => Key \in Expected
    BY DEF CsvInv
  <2>2. csv' \in Seq(Expected)
    BY <1>20, <1>c, <2>1 DEF CloseCsv
  <2> QED
    BY <1>20, <2>2 DEF CloseCsv
<1>21. CASE Interrupt BY <1>21 DEF Interrupt
<1>22. CASE CrashHarness BY <1>22 DEF CrashHarness
<1>23. CASE RefuseWatchdog BY <1>23 DEF RefuseWatchdog
<1>24. CASE UNCHANGED vars
  BY <1>24 DEF vars, harnessVars, writerVars, csvVars, dbVars
<1> QED
  BY <1>1, <1>2, <1>3, <1>4, <1>5, <1>6, <1>7, <1>8, <1>9, <1>10, <1>11,
     <1>12, <1>13, <1>14, <1>15, <1>16, <1>17, <1>18, <1>19, <1>20, <1>21,
     <1>22, <1>23, <1>24 DEF Next, Step
-----------------------------------------------------------------------------
(* The place in the loops, and the status of the run. *)

LEMMA AtStep ==
    ASSUME TypeInv, AtInv, [Next]_vars
    PROVE  AtInv'
<1>0. sel' = sel
  BY SelectionStays
<1> USE <1>0
<1>a. pc \in Accepting => Accepts(sel) /\ at \in Places(sel) /\ ~raising
  BY DEF AtInv
<1>b. pc \in Looping /\ Advance =>
         /\ at' \in Places(sel)
         /\ pc' \in {"solve", "complete"} /\ raising' = raising
  BY <1>a, FollowingIsPlace DEF TypeInv, Accepting, Advance, Goto
<1>c. pc = "build" /\ Accepts(sel) => at \in Places(sel) /\ ~raising
  BY FirstIsPlace DEF TypeInv, AtInv
<1>d. SUFFICES /\ pc' \in Accepting => /\ Accepts(sel) /\ at' \in Places(sel)
                                      /\ ~raising'
               /\ pc' # "build" \/ UNCHANGED <<pc, at, raising>>
  BY DEF AtInv
<1> USE DEF PCs, Opening, Looping,
            Terminal, Accepting,
            Goto, Raise, Fault, Handler, Statement,
            dbVars, csvVars, writerVars
<1>1. CASE BuildMatrix
  BY <1>1, <1>c DEF BuildMatrix
<1>2. CASE OpenCsv BY <1>2, <1>a DEF OpenCsv
<1>3. CASE Connect BY <1>3, <1>a DEF Connect
<1>4. CASE InsertRun BY <1>4, <1>a DEF InsertRun
<1>5. CASE NoteRun BY <1>5, <1>a DEF NoteRun
<1>6. CASE InsertExpectedMatrix BY <1>6, <1>a DEF InsertExpectedMatrix
<1>7. CASE InsertSolverVersion BY <1>7, <1>a DEF InsertSolverVersion
<1>8. CASE PushExit BY <1>8, <1>a DEF PushExit
<1>9. CASE RunSolver BY <1>9, <1>a DEF RunSolver
<1>10. CASE Evaluate BY <1>10, <1>a DEF Evaluate
<1>11. CASE ObserveRow BY <1>11, <1>a DEF ObserveRow
<1>12. CASE BufferCsvRow BY <1>12, <1>a DEF BufferCsvRow
<1>13. CASE FlushCsvRow
  BY <1>13, <1>a, <1>b DEF FlushCsvRow
<1>14. CASE WriteWarehouseRow BY <1>14, <1>a DEF WriteWarehouseRow
<1>15. CASE MarkObserved BY <1>15, <1>a DEF MarkObserved
<1>16. CASE CountRow
  BY <1>16, <1>a, <1>b DEF CountRow
<1>17. CASE AssertComplete BY <1>17, <1>a DEF AssertComplete
<1>18. CASE FinishRun
  BY <1>18, <1>a DEF FinishRun, CloseRun, FinalStatus
<1>19. CASE FinishAfterOpenFailure
  BY <1>19, <1>a DEF FinishAfterOpenFailure, CloseRun
<1>20. CASE CloseCsv BY <1>20, <1>a DEF CloseCsv
<1>21. CASE Interrupt BY <1>21, <1>a DEF Interrupt
<1>22. CASE CrashHarness BY <1>22, <1>a DEF CrashHarness
<1>23. CASE RefuseWatchdog BY <1>23, <1>a DEF RefuseWatchdog
<1>24. CASE UNCHANGED vars
  BY <1>24, <1>a DEF vars, harnessVars, writerVars, csvVars, dbVars
<1> QED
  BY <1>1, <1>2, <1>3, <1>4, <1>5, <1>6, <1>7, <1>8, <1>9, <1>10, <1>11,
     <1>12, <1>13, <1>14, <1>15, <1>16, <1>17, <1>18, <1>19, <1>20, <1>21,
     <1>22, <1>23, <1>24 DEF Next, Step

LEMMA StatusStep ==
    ASSUME TypeInv, AtInv, StatusInv, [Next]_vars
    PROVE  StatusInv'
<1>0. sel' = sel
  BY SelectionStays
<1> USE <1>0
<1>a. status \in {"none", "running", "completed", "failed"}
  BY DEF TypeInv
<1>b. pc \in Looping => ~raising
  BY DEF AtInv, Accepting
<1> USE <1>a, <1>b
        DEF StatusInv, Closed, PCs, Opening, Looping,
            Terminal, Accepting,
            Goto, Raise, Fault, Handler, Statement,
            dbVars, csvVars, writerVars
<1>1. CASE BuildMatrix BY <1>1 DEF BuildMatrix
<1>2. CASE OpenCsv BY <1>2 DEF OpenCsv
<1>3. CASE Connect BY <1>3 DEF Connect
<1>4. CASE InsertRun BY <1>4 DEF InsertRun
<1>5. CASE NoteRun BY <1>5 DEF NoteRun
<1>6. CASE InsertExpectedMatrix BY <1>6 DEF InsertExpectedMatrix
<1>7. CASE InsertSolverVersion BY <1>7 DEF InsertSolverVersion
<1>8. CASE PushExit BY <1>8 DEF PushExit
<1>9. CASE RunSolver BY <1>9 DEF RunSolver
<1>10. CASE Evaluate BY <1>10 DEF Evaluate
<1>11. CASE ObserveRow BY <1>11 DEF ObserveRow
<1>12. CASE BufferCsvRow BY <1>12 DEF BufferCsvRow
<1>13. CASE FlushCsvRow BY <1>13 DEF FlushCsvRow, Advance
<1>14. CASE WriteWarehouseRow BY <1>14 DEF WriteWarehouseRow
<1>15. CASE MarkObserved BY <1>15 DEF MarkObserved
<1>16. CASE CountRow BY <1>16 DEF CountRow, Advance
<1>17. CASE AssertComplete BY <1>17 DEF AssertComplete
<1>18. CASE FinishRun BY <1>18 DEF FinishRun, CloseRun, FinalStatus
<1>19. CASE FinishAfterOpenFailure
  BY <1>19 DEF FinishAfterOpenFailure, CloseRun
<1>20. CASE CloseCsv BY <1>20 DEF CloseCsv
<1>21. CASE Interrupt BY <1>21 DEF Interrupt
<1>22. CASE CrashHarness BY <1>22 DEF CrashHarness
<1>23. CASE RefuseWatchdog BY <1>23 DEF RefuseWatchdog
<1>24. CASE UNCHANGED vars
  BY <1>24 DEF vars, harnessVars, writerVars, csvVars, dbVars
<1> QED
  BY <1>1, <1>2, <1>3, <1>4, <1>5, <1>6, <1>7, <1>8, <1>9, <1>10, <1>11,
     <1>12, <1>13, <1>14, <1>15, <1>16, <1>17, <1>18, <1>19, <1>20, <1>21,
     <1>22, <1>23, <1>24 DEF Next, Step

-----------------------------------------------------------------------------
(* The catalogue, the stores and the counters. *)

LEMMA CatalogueStep ==
    ASSUME TypeInv, AtInv, StatusInv, CatalogueInv, [Next]_vars
    PROVE  CatalogueInv'
<1>0. sel' = sel /\ Expected' = Expected
  BY SelectionStays
<1>a. /\ versions \in Nat /\ Len(sel.solvers) \in Nat
      /\ pc \in Accepting => 0 < Len(sel.solvers)
      /\ pc \in Opening \cup {"connect", "pushExit"} => sel.save
      /\ pc = "finish" => sel.save
  BY SelectionType DEF TypeInv, AtInv, Accepts, StatusInv
<1> USE <1>0, <1>a
        DEF CatalogueInv, CatalogueBeforeSolvers, PCs, Opening, Looping,
            Terminal, Accepting,
            Goto, Raise, Fault, Handler, Statement,
            dbVars, csvVars, writerVars
<1>1. CASE BuildMatrix BY <1>1 DEF BuildMatrix
<1>2. CASE OpenCsv BY <1>2 DEF OpenCsv
<1>3. CASE Connect BY <1>3 DEF Connect
<1>4. CASE InsertRun BY <1>4 DEF InsertRun
<1>5. CASE NoteRun BY <1>5 DEF NoteRun
<1>6. CASE InsertExpectedMatrix BY <1>6 DEF InsertExpectedMatrix
<1>7. CASE InsertSolverVersion BY <1>7 DEF InsertSolverVersion
<1>8. CASE PushExit BY <1>8 DEF PushExit
<1>9. CASE RunSolver
  BY <1>9 DEF RunSolver
<1>10. CASE Evaluate BY <1>10 DEF Evaluate
<1>11. CASE ObserveRow BY <1>11 DEF ObserveRow
<1>12. CASE BufferCsvRow BY <1>12 DEF BufferCsvRow
<1>13. CASE FlushCsvRow
  BY <1>13 DEF FlushCsvRow, Advance
<1>14. CASE WriteWarehouseRow BY <1>14 DEF WriteWarehouseRow
<1>15. CASE MarkObserved BY <1>15 DEF MarkObserved
<1>16. CASE CountRow BY <1>16 DEF CountRow, Advance
<1>17. CASE AssertComplete BY <1>17 DEF AssertComplete
<1>18. CASE FinishRun BY <1>18 DEF FinishRun, CloseRun, FinalStatus
<1>19. CASE FinishAfterOpenFailure
  BY <1>19 DEF FinishAfterOpenFailure, CloseRun
<1>20. CASE CloseCsv BY <1>20 DEF CloseCsv
<1>21. CASE Interrupt BY <1>21 DEF Interrupt
<1>22. CASE CrashHarness BY <1>22 DEF CrashHarness
<1>23. CASE RefuseWatchdog BY <1>23 DEF RefuseWatchdog
<1>24. CASE UNCHANGED vars
  BY <1>24 DEF vars, harnessVars, writerVars, csvVars, dbVars
<1> QED
  BY <1>1, <1>2, <1>3, <1>4, <1>5, <1>6, <1>7, <1>8, <1>9, <1>10, <1>11,
     <1>12, <1>13, <1>14, <1>15, <1>16, <1>17, <1>18, <1>19, <1>20, <1>21,
     <1>22, <1>23, <1>24 DEF Next, Step

(* The keys and the lines of the CSV file after a step. *)
LEMMA CsvAfterStep ==
    ASSUME TypeInv, AtInv, ChainInv, CsvInv, [Next]_vars
    PROVE  /\ UNCHANGED csv => CsvKeys' = CsvKeys
           /\ UNCHANGED at => Key' = Key
           /\ csv' = Append(csv, Key) /\ Key \in observed =>
                 CsvKeys' = CsvKeys \cup {Key}
           /\ csv' = Append(csv, Key) /\ Key \in observed \ CsvKeys =>
                 HasNoDuplicates(csv')
<1>1. sel' = sel /\ csv \in Seq(Expected) /\ observed \subseteq Expected
  BY SelectionStays DEF TypeInv
<1> QED
  BY <1>1, AppendLine DEF CsvKeys, Key, CsvInv

LEMMA ChainStep ==
    ASSUME TypeInv, AtInv, StatusInv, ChainInv, CsvInv, [Next]_vars
    PROVE  ChainInv'
<1>0. sel' = sel
  BY SelectionStays
<1>a. /\ status = "none" => DOMAIN rows = {}
      /\ pc \in {"build", "csvOpen", "connect", "insertRun"} => status = "none"
      /\ pc \in {"noteRun", "insertMatrix", "insertVersions", "pushExit"} =>
            DOMAIN rows = {}
      /\ pc \in Looping => ~raising
  BY DEF StatusInv, AtInv, Accepting
<1>b. pending => Key \in observed
  BY DEF CsvInv
<1>c. DOMAIN WithRow = DOMAIN rows \cup {Key}
  BY DEF WithRow
<1> USE <1>0, <1>a, CsvAfterStep
        DEF ChainInv, PCs, Opening, Looping,
            Terminal, Accepting,
            Goto, Raise, Fault, Handler, Statement,
            dbVars, csvVars, writerVars
<1>1. CASE BuildMatrix BY <1>1 DEF BuildMatrix
<1>2. CASE OpenCsv BY <1>2 DEF OpenCsv
<1>3. CASE Connect BY <1>3 DEF Connect
<1>4. CASE InsertRun BY <1>4 DEF InsertRun
<1>5. CASE NoteRun BY <1>5 DEF NoteRun
<1>6. CASE InsertExpectedMatrix BY <1>6 DEF InsertExpectedMatrix
<1>7. CASE InsertSolverVersion BY <1>7 DEF InsertSolverVersion
<1>8. CASE PushExit BY <1>8 DEF PushExit
<1>9. CASE RunSolver BY <1>9 DEF RunSolver
<1>10. CASE Evaluate BY <1>10 DEF Evaluate
<1>11. CASE ObserveRow BY <1>11 DEF ObserveRow
<1>12. CASE BufferCsvRow BY <1>12 DEF BufferCsvRow
<1>13. CASE FlushCsvRow
  BY <1>13 DEF FlushCsvRow, Advance
<1>14. CASE WriteWarehouseRow
  BY <1>14, <1>c DEF WriteWarehouseRow
<1>15. CASE MarkObserved BY <1>15 DEF MarkObserved
<1>16. CASE CountRow BY <1>16 DEF CountRow, Advance
<1>17. CASE AssertComplete BY <1>17 DEF AssertComplete
<1>18. CASE FinishRun BY <1>18 DEF FinishRun, CloseRun, FinalStatus
<1>19. CASE FinishAfterOpenFailure
  BY <1>19 DEF FinishAfterOpenFailure, CloseRun
<1>20. CASE CloseCsv
  BY <1>20, <1>b DEF CloseCsv
<1>21. CASE Interrupt BY <1>21 DEF Interrupt
<1>22. CASE CrashHarness BY <1>22 DEF CrashHarness
<1>23. CASE RefuseWatchdog BY <1>23 DEF RefuseWatchdog
<1>24. CASE UNCHANGED vars
  BY <1>24 DEF vars, harnessVars, writerVars, csvVars, dbVars
<1> QED
  BY <1>1, <1>2, <1>3, <1>4, <1>5, <1>6, <1>7, <1>8, <1>9, <1>10, <1>11,
     <1>12, <1>13, <1>14, <1>15, <1>16, <1>17, <1>18, <1>19, <1>20, <1>21,
     <1>22, <1>23, <1>24 DEF Next, Step

LEMMA CsvStep ==
    ASSUME TypeInv, AtInv, ChainInv, CsvInv, [Next]_vars
    PROVE  CsvInv'
<1>a. /\ pc \in Looping => ~raising
      /\ pending => Key \in observed \ CsvKeys
      /\ pending => pc = "csvFlush" \/ raising \/ pc \in Terminal
      /\ pc = "finish" /\ ~raising => ~pending
      /\ pc \in {"csvWrite", "csvFlush"} => Key \in observed \ CsvKeys
      /\ HasNoDuplicates(csv)
  BY DEF AtInv, Accepting, CsvInv, ChainInv
<1> USE <1>a, CsvAfterStep
        DEF PCs, Opening, Looping,
            Terminal, Accepting,
            Goto, Raise, Fault, Handler, Statement,
            dbVars, csvVars, writerVars
<1>b. SUFFICES /\ HasNoDuplicates(csv')
               /\ pending' => Key' \in observed' \ CsvKeys'
               /\ pending' => pc' = "csvFlush" \/ raising' \/ pc' \in Terminal
               /\ pc' = "finish" /\ ~raising' => ~pending'
  BY DEF CsvInv
<1>1. CASE BuildMatrix BY <1>1 DEF BuildMatrix
<1>2. CASE OpenCsv BY <1>2 DEF OpenCsv
<1>3. CASE Connect BY <1>3 DEF Connect
<1>4. CASE InsertRun BY <1>4 DEF InsertRun
<1>5. CASE NoteRun BY <1>5 DEF NoteRun
<1>6. CASE InsertExpectedMatrix BY <1>6 DEF InsertExpectedMatrix
<1>7. CASE InsertSolverVersion BY <1>7 DEF InsertSolverVersion
<1>8. CASE PushExit BY <1>8 DEF PushExit
<1>9. CASE RunSolver BY <1>9 DEF RunSolver
<1>10. CASE Evaluate BY <1>10 DEF Evaluate
<1>11. CASE ObserveRow BY <1>11 DEF ObserveRow
<1>12. CASE BufferCsvRow BY <1>12 DEF BufferCsvRow
<1>13. CASE FlushCsvRow
  BY <1>13 DEF FlushCsvRow, Advance
<1>14. CASE WriteWarehouseRow BY <1>14 DEF WriteWarehouseRow
<1>15. CASE MarkObserved BY <1>15 DEF MarkObserved
<1>16. CASE CountRow BY <1>16 DEF CountRow, Advance
<1>17. CASE AssertComplete BY <1>17 DEF AssertComplete
<1>18. CASE FinishRun BY <1>18 DEF FinishRun, CloseRun, FinalStatus
<1>19. CASE FinishAfterOpenFailure
  BY <1>19 DEF FinishAfterOpenFailure, CloseRun
<1>20. CASE CloseCsv BY <1>20 DEF CloseCsv
<1>21. CASE Interrupt BY <1>21 DEF Interrupt
<1>22. CASE CrashHarness BY <1>22 DEF CrashHarness
<1>23. CASE RefuseWatchdog BY <1>23 DEF RefuseWatchdog
<1>24. CASE UNCHANGED vars
  BY <1>24 DEF vars, harnessVars, writerVars, csvVars, dbVars
<1> QED
  BY <1>1, <1>2, <1>3, <1>4, <1>5, <1>6, <1>7, <1>8, <1>9, <1>10, <1>11,
     <1>12, <1>13, <1>14, <1>15, <1>16, <1>17, <1>18, <1>19, <1>20, <1>21,
     <1>22, <1>23, <1>24 DEF Next, Step

(* The number of rows, and of the rows once one more is written. *)
LEMMA RowsAfterWrite ==
    ASSUME TypeInv, CountInv, Key \notin DOMAIN rows, rows' = WithRow,
           Cardinality(DOMAIN rows) = rowIndex
    PROVE  /\ IsFiniteSet(DOMAIN rows')
           /\ Cardinality(DOMAIN rows') = rowIndex + 1
           /\ {rows'[k].index : k \in DOMAIN rows'} = 0 .. rowIndex
<1>1. DOMAIN rows' = DOMAIN rows \cup {Key} /\ rowIndex \in Nat
  BY DEF WithRow, TypeInv
<1>2. IsFiniteSet(DOMAIN rows') /\ Cardinality(DOMAIN rows') = rowIndex + 1
  BY <1>1, FS_AddElement DEF CountInv
<1>3. /\ rows'[Key].index = rowIndex
      /\ \A k \in DOMAIN rows : rows'[k].index = rows[k].index
  BY DEF WithRow
<1>4. {rows'[k].index : k \in DOMAIN rows'}
         = {rows[k].index : k \in DOMAIN rows} \cup {rowIndex}
  BY <1>1, <1>3
<1>5. {rows[k].index : k \in DOMAIN rows} = 0 .. rowIndex - 1
  BY DEF CountInv
<1>6. (0 .. rowIndex - 1) \cup {rowIndex} = 0 .. rowIndex
  BY <1>1
<1> QED
  BY <1>2, <1>4, <1>5, <1>6

LEMMA CountStep ==
    ASSUME TypeInv, AtInv, StatusInv, ChainInv, CountInv, CountLagsByOne,
           [Next]_vars
    PROVE  CountInv' /\ CountLagsByOne'
<1> DEFINE n == Cardinality(DOMAIN rows)
           indices == {rows[k].index : k \in DOMAIN rows}
<1>a. /\ IsFiniteSet(DOMAIN rows) /\ n \in Nat
      /\ rowIndex \in Nat /\ resultCount \in Nat
      /\ DOMAIN rows = {} => n = 0
  BY FS_CardinalityType, FS_EmptySet DEF CountInv, TypeInv
<1>b. /\ status = "none" => n = 0
      /\ pc \in {"build", "csvOpen", "connect", "insertRun"} => status = "none"
      /\ pc \in {"noteRun", "insertMatrix", "insertVersions", "pushExit"} =>
            n = 0 /\ ~Closed
      /\ pc = "openFailed" => n = 0
      /\ pc \in Looping => ~raising /\ ~Closed
      /\ Closed => pc \in {"closeCsv"} \cup Terminal
      /\ status \in {"none", "running", "completed", "failed"}
  BY <1>a DEF StatusInv, AtInv, Accepting, Closed, TypeInv
<1>c. /\ indices = 0 .. n - 1
      /\ n = rowIndex \/ n = rowIndex + 1
      /\ ~Closed => resultCount = n
      /\ pc \in {"mark", "index"} => n = rowIndex + 1
      /\ pc \in Looping \ {"mark", "index"} => n = rowIndex
      /\ pc = "finish" /\ ~raising => n = rowIndex
  BY DEF CountInv
<1>d. /\ resultCount = n \/ resultCount = n - 1
      /\ status # "failed" => resultCount = n
  BY <1>a DEF CountLagsByOne
<1>e. UNCHANGED rows => n' = n /\ indices' = indices
  OBVIOUS
<1>f. pc = "pgWrite" /\ rows' = WithRow /\ Key \notin DOMAIN rows =>
         /\ IsFiniteSet(DOMAIN rows') /\ n' = rowIndex + 1
         /\ indices' = 0 .. rowIndex
  BY <1>c, RowsAfterWrite DEF Looping
<1>g. SUFFICES
         /\ IsFiniteSet(DOMAIN rows') /\ indices' = 0 .. n' - 1
         /\ n' = rowIndex' \/ n' = rowIndex' + 1
         /\ ~Closed' => resultCount' = n'
         /\ pc' \in {"mark", "index"} => n' = rowIndex' + 1
         /\ pc' \in Looping \ {"mark", "index"} => n' = rowIndex'
         /\ pc' = "finish" /\ ~raising' => n' = rowIndex'
         /\ resultCount' = n' \/ resultCount' = n' - 1
         /\ status' # "failed" => resultCount' = n'
  BY DEF CountInv, CountLagsByOne
<1> HIDE DEF n, indices
<1> USE <1>a, <1>b, <1>c, <1>d, <1>e
        DEF Closed, PCs, Opening, Looping,
            Terminal, Accepting,
            Goto, Raise, Fault, Handler, Statement,
            dbVars, csvVars, writerVars
<1>1. CASE BuildMatrix BY <1>1 DEF BuildMatrix
<1>2. CASE OpenCsv BY <1>2 DEF OpenCsv
<1>3. CASE Connect BY <1>3 DEF Connect
<1>4. CASE InsertRun BY <1>4 DEF InsertRun
<1>5. CASE NoteRun BY <1>5 DEF NoteRun
<1>6. CASE InsertExpectedMatrix BY <1>6 DEF InsertExpectedMatrix
<1>7. CASE InsertSolverVersion BY <1>7 DEF InsertSolverVersion
<1>8. CASE PushExit BY <1>8 DEF PushExit
<1>9. CASE RunSolver BY <1>9 DEF RunSolver
<1>10. CASE Evaluate BY <1>10 DEF Evaluate
<1>11. CASE ObserveRow BY <1>11 DEF ObserveRow
<1>12. CASE BufferCsvRow BY <1>12 DEF BufferCsvRow
<1>13. CASE FlushCsvRow
  BY <1>13 DEF FlushCsvRow, Advance
<1>14. CASE WriteWarehouseRow
  BY <1>14, <1>f DEF WriteWarehouseRow, RowAdmissible
<1>15. CASE MarkObserved BY <1>15 DEF MarkObserved
<1>16. CASE CountRow BY <1>16 DEF CountRow, Advance
<1>17. CASE AssertComplete BY <1>17 DEF AssertComplete
<1>18. CASE FinishRun BY <1>18 DEF FinishRun, CloseRun, FinalStatus
<1>19. CASE FinishAfterOpenFailure
  BY <1>19 DEF FinishAfterOpenFailure, CloseRun
<1>20. CASE CloseCsv BY <1>20 DEF CloseCsv
<1>21. CASE Interrupt BY <1>21 DEF Interrupt
<1>22. CASE CrashHarness BY <1>22 DEF CrashHarness
<1>23. CASE RefuseWatchdog BY <1>23 DEF RefuseWatchdog
<1>24. CASE UNCHANGED vars
  BY <1>24 DEF vars, harnessVars, writerVars, csvVars, dbVars
<1> QED
  BY <1>1, <1>2, <1>3, <1>4, <1>5, <1>6, <1>7, <1>8, <1>9, <1>10, <1>11,
     <1>12, <1>13, <1>14, <1>15, <1>16, <1>17, <1>18, <1>19, <1>20, <1>21,
     <1>22, <1>23, <1>24 DEF Next, Step

LEMMA ExactStep ==
    ASSUME IInv, [Next]_vars
    PROVE  CompletedIsExact'
<1>0. sel' = sel /\ Expected' = Expected
  BY SelectionStays
<1>a. /\ Closed => pc \in {"closeCsv"} \cup Terminal
      /\ pc = "openFailed" => status # "completed"
      /\ CompletedIsExact /\ pending \in BOOLEAN
  BY DEF IInv, StatusInv, TypeInv
<1>b. UNCHANGED csv => CsvKeys' = CsvKeys
  BY CsvAfterStep DEF IInv
<1>c. CASE FinishRun /\ status' = "completed"
  <2>1. pc = "finish" /\ ~raising /\ Expected \subseteq recorded
    BY <1>a, <1>c DEF FinishRun, Statement, CloseRun, FinalStatus, Closed, dbVars,
                      Terminal
  <2>2. /\ recorded = Expected /\ DOMAIN rows = Expected /\ CsvKeys = Expected
    BY <2>1 DEF IInv, TypeInv, ChainInv
  <2>3. entries = Expected /\ versions = Len(sel.solvers) /\ ~pending
    BY <2>1 DEF IInv, CatalogueInv, StatusInv, CsvInv
  <2>4. /\ rowIndex = Cardinality(Expected)
        /\ {rows[k].index : k \in DOMAIN rows} = 0 .. rowIndex - 1
    BY <2>1, <2>2 DEF IInv, CountInv
  <2>5. /\ resultCount' = rowIndex /\ observedHash' = HashKeys(recorded)
        /\ UNCHANGED <<entries, versions, rows, csv, pending>>
    BY <1>a, <1>c, <2>1 DEF FinishRun, Statement, CloseRun, Closed, dbVars, csvVars,
                      Terminal
  <2> QED
    BY <1>0, <1>b, <2>2, <2>3, <2>4, <2>5 DEF CompletedIsExact
<1>d. CASE status' = "completed" /\ ~FinishRun
  <2>1. status = "completed" /\ UNCHANGED dbVars /\ UNCHANGED <<csv, pending>>
    <3> USE <1>a, <1>d DEF Closed, CompletedIsExact, PCs, Opening, Looping,
            Terminal, Accepting,
            Goto, Raise, Fault, Handler, Statement,
            dbVars, csvVars, writerVars
    <3>1. CASE BuildMatrix BY <3>1 DEF BuildMatrix
    <3>2. CASE OpenCsv BY <3>2 DEF OpenCsv
    <3>3. CASE Connect BY <3>3 DEF Connect
    <3>4. CASE InsertRun BY <3>4 DEF InsertRun
    <3>5. CASE NoteRun BY <3>5 DEF NoteRun
    <3>6. CASE InsertExpectedMatrix BY <3>6 DEF InsertExpectedMatrix
    <3>7. CASE InsertSolverVersion BY <3>7 DEF InsertSolverVersion
    <3>8. CASE PushExit BY <3>8 DEF PushExit
    <3>9. CASE RunSolver BY <3>9 DEF RunSolver
    <3>10. CASE Evaluate BY <3>10 DEF Evaluate
    <3>11. CASE ObserveRow BY <3>11 DEF ObserveRow
    <3>12. CASE BufferCsvRow BY <3>12 DEF BufferCsvRow
    <3>13. CASE FlushCsvRow BY <3>13 DEF FlushCsvRow, Advance
    <3>14. CASE WriteWarehouseRow BY <3>14 DEF WriteWarehouseRow
    <3>15. CASE MarkObserved BY <3>15 DEF MarkObserved
    <3>16. CASE CountRow BY <3>16 DEF CountRow, Advance
    <3>17. CASE AssertComplete BY <3>17 DEF AssertComplete
    <3>18. CASE FinishRun BY <3>18 DEF FinishRun, CloseRun, FinalStatus
    <3>19. CASE FinishAfterOpenFailure
      BY <3>19 DEF FinishAfterOpenFailure, CloseRun
    <3>20. CASE CloseCsv BY <3>20 DEF CloseCsv
    <3>21. CASE Interrupt BY <3>21 DEF Interrupt
    <3>22. CASE CrashHarness BY <3>22 DEF CrashHarness
    <3>23. CASE RefuseWatchdog BY <3>23 DEF RefuseWatchdog
    <3>24. CASE UNCHANGED vars
      BY <3>24 DEF vars, harnessVars, writerVars, csvVars, dbVars
    <3> QED
      BY <3>1, <3>2, <3>3, <3>4, <3>5, <3>6, <3>7, <3>8, <3>9, <3>10, <3>11,
         <3>12, <3>13, <3>14, <3>15, <3>16, <3>17, <3>18, <3>19, <3>20, <3>21,
         <3>22, <3>23, <3>24 DEF Next, Step
  <2> QED
    BY <1>0, <1>a, <1>b, <2>1 DEF CompletedIsExact, dbVars
<1> QED
  BY <1>c, <1>d DEF CompletedIsExact

LEMMA InitInv == Init => IInv
<1> SUFFICES ASSUME Init PROVE IInv
  OBVIOUS
<1>1. TypeInv
  BY InitTypes
<1>2. DOMAIN rows = {} /\ Len(csv) = 0 /\ CsvKeys = {}
  BY DEF Init, NoRows, CsvKeys
<1>3. Cardinality(DOMAIN rows) = 0 /\ IsFiniteSet(DOMAIN rows)
  BY <1>2, FS_EmptySet
<1>4. AtInv /\ StatusInv /\ CatalogueInv /\ ChainInv /\ CsvInv
  BY <1>2 DEF Init, AtInv, StatusInv, CatalogueInv, CatalogueBeforeSolvers, ChainInv,
              CsvInv, Closed, HasNoDuplicates, Opening, Looping, Terminal, Accepting
<1>5. {rows[k].index : k \in DOMAIN rows} = 0 .. Cardinality(DOMAIN rows) - 1
  BY <1>2, <1>3
<1>6. CountInv /\ CountLagsByOne /\ CompletedIsExact
  BY <1>3, <1>5 DEF Init, CountInv, CountLagsByOne, CompletedIsExact, Closed, Looping
<1> QED
  BY <1>1, <1>4, <1>6 DEF IInv

LEMMA StepInv == IInv /\ [Next]_vars => IInv'
<1> SUFFICES ASSUME IInv, [Next]_vars PROVE IInv'
  OBVIOUS
<1>1. TypeInv'
  BY TypeStep DEF IInv
<1>2. AtInv'
  BY AtStep DEF IInv
<1>3. StatusInv'
  BY StatusStep DEF IInv
<1>4. CatalogueInv'
  BY CatalogueStep DEF IInv
<1>5. ChainInv'
  BY ChainStep DEF IInv
<1>6. CsvInv'
  BY CsvStep DEF IInv
<1>7. CountInv' /\ CountLagsByOne'
  BY CountStep DEF IInv
<1>8. CompletedIsExact'
  BY ExactStep
<1> QED
  BY <1>1, <1>2, <1>3, <1>4, <1>5, <1>6, <1>7, <1>8 DEF IInv

LEMMA Invariance == Spec => []IInv
BY InitInv, StepInv, PTL DEF Spec

-----------------------------------------------------------------------------
(* The properties of the runs.                                             *)

(* Every variable of the harness, of both stores and of the writer has its *)
(* type in every state; in particular no key that is not of the matrix     *)
(* ever reaches a tracker, the CSV file or the warehouse.                  *)
THEOREM TypeCorrect == Spec => []TypeInv
<1>1. IInv => TypeInv
  BY DEF IInv
<1> QED
  BY <1>1, Invariance, PTL

(* A run that _finish_run marked completed is the exact matrix in every    *)
(* table, in the CSV file and in the digest, for every selection and after *)
(* every sequence of faults.                                               *)
THEOREM CompletedExact == Spec => []CompletedIsExact
<1>1. IInv => CompletedIsExact
  BY DEF IInv
<1> QED
  BY <1>1, Invariance, PTL

(* Every warehouse row has its line in the CSV file, and only one.         *)
THEOREM CsvCovers == Spec => []CsvCoversWarehouse
<1>1. IInv => CsvCoversWarehouse
  BY DEF IInv, ChainInv, CsvInv, CsvCoversWarehouse
<1> QED
  BY <1>1, Invariance, PTL

(* result_count is the number of rows, or one less in a run whose last     *)
(* write was interrupted after its commit.                                 *)
THEOREM CountLags == Spec => []CountLagsByOne
<1>1. IInv => CountLagsByOne
  BY DEF IInv
<1> QED
  BY <1>1, Invariance, PTL

(* The expected matrix and every solver's version are stored before the    *)
(* first solver starts.                                                    *)
THEOREM CatalogueFirst == Spec => []CatalogueBeforeSolvers
<1>1. IInv => CatalogueBeforeSolvers
  BY DEF IInv, CatalogueInv
<1> QED
  BY <1>1, Invariance, PTL

(* Nothing run_benchmark does after _finish_run reaches the warehouse.     *)
THEOREM ClosedFinal == Spec => ClosedIsFinal
<1>1. IInv /\ [Next]_vars => (Closed => UNCHANGED dbVars)
  <2> SUFFICES ASSUME IInv, [Next]_vars, Closed PROVE UNCHANGED dbVars
    OBVIOUS
  <2>a. pc \in {"closeCsv"} \cup Terminal
    BY DEF IInv, StatusInv
  <2> USE <2>a DEF Closed, PCs, Opening, Looping,
            Terminal, Accepting,
              Goto, Raise, Fault, Handler, Statement,
              dbVars, csvVars, writerVars
  <2>1. CASE BuildMatrix BY <2>1 DEF BuildMatrix
  <2>2. CASE OpenCsv BY <2>2 DEF OpenCsv
  <2>3. CASE Connect BY <2>3 DEF Connect
  <2>4. CASE InsertRun BY <2>4 DEF InsertRun
  <2>5. CASE NoteRun BY <2>5 DEF NoteRun
  <2>6. CASE InsertExpectedMatrix BY <2>6 DEF InsertExpectedMatrix
  <2>7. CASE InsertSolverVersion BY <2>7 DEF InsertSolverVersion
  <2>8. CASE PushExit BY <2>8 DEF PushExit
  <2>9. CASE RunSolver BY <2>9 DEF RunSolver
  <2>10. CASE Evaluate BY <2>10 DEF Evaluate
  <2>11. CASE ObserveRow BY <2>11 DEF ObserveRow
  <2>12. CASE BufferCsvRow BY <2>12 DEF BufferCsvRow
  <2>13. CASE FlushCsvRow BY <2>13 DEF FlushCsvRow, Advance
  <2>14. CASE WriteWarehouseRow BY <2>14 DEF WriteWarehouseRow
  <2>15. CASE MarkObserved BY <2>15 DEF MarkObserved
  <2>16. CASE CountRow BY <2>16 DEF CountRow, Advance
  <2>17. CASE AssertComplete BY <2>17 DEF AssertComplete
  <2>18. CASE FinishRun BY <2>18 DEF FinishRun, CloseRun, FinalStatus
  <2>19. CASE FinishAfterOpenFailure
    BY <2>19 DEF FinishAfterOpenFailure, CloseRun
  <2>20. CASE CloseCsv BY <2>20 DEF CloseCsv
  <2>21. CASE Interrupt BY <2>21 DEF Interrupt
  <2>22. CASE CrashHarness BY <2>22 DEF CrashHarness
  <2>23. CASE RefuseWatchdog BY <2>23 DEF RefuseWatchdog
  <2>24. CASE UNCHANGED vars
    BY <2>24 DEF vars, harnessVars, writerVars, csvVars, dbVars
  <2> QED
    BY <2>1, <2>2, <2>3, <2>4, <2>5, <2>6, <2>7, <2>8, <2>9, <2>10, <2>11,
       <2>12, <2>13, <2>14, <2>15, <2>16, <2>17, <2>18, <2>19, <2>20, <2>21,
       <2>22, <2>23, <2>24 DEF Next, Step
<1>2. (Closed => UNCHANGED dbVars) => [Closed => UNCHANGED dbVars]_vars
  OBVIOUS
<1> QED
  BY <1>1, <1>2, Invariance, PTL DEF Spec, ClosedIsFinal

(* The run as its readers see it: opened once, one expected row at a time, *)
(* completed only with all of them, and closed once.                       *)
THEOREM Implements == Spec => ImplementsLedger
<1>1. Init => Ledger!Init
  BY DEF Init, Ledger!Init, NoRows
<1>2. IInv /\ [Next]_vars => [Ledger!Next]_(Ledger!ledger)
  <2> SUFFICES ASSUME IInv, [Next]_vars
               PROVE  [Ledger!Next]_(Ledger!ledger)
    OBVIOUS
  <2>0. Expected' = Expected
    BY SelectionStays
  <2>a. /\ Closed => pc \in {"closeCsv"} \cup Terminal
        /\ status \in {"none", "running", "completed", "failed"}
        /\ pc = "insertRun" => status = "none"
        /\ pc \in Looping => status = IF sel.save THEN "running" ELSE "none"
        /\ pc = "pgWrite" => sel.save
        /\ pc = "finish" => status = "running"
        /\ pc = "openFailed" => status \in {"none", "running"}
        /\ status = "none" => ~runInserted
    BY DEF IInv, StatusInv, TypeInv
  <2>b. pc = "finish" /\ Expected \subseteq recorded => DOMAIN rows = Expected
    BY DEF IInv, ChainInv, TypeInv
  <2>c. DOMAIN WithRow = DOMAIN rows \cup {Key}
    BY DEF WithRow
  <2> USE <2>0, <2>a
          DEF Closed, PCs, Opening, Looping,
            Terminal, Accepting,
              Goto, Raise, Fault, Handler, Statement,
              dbVars, csvVars, writerVars,
              Ledger!Next, Ledger!ledger, Ledger!Open, Ledger!AddRow,
              Ledger!Complete, Ledger!Fail
  <2>1. CASE BuildMatrix BY <2>1 DEF BuildMatrix
  <2>2. CASE OpenCsv BY <2>2 DEF OpenCsv
  <2>3. CASE Connect BY <2>3 DEF Connect
  <2>4. CASE InsertRun BY <2>4 DEF InsertRun
  <2>5. CASE NoteRun BY <2>5 DEF NoteRun
  <2>6. CASE InsertExpectedMatrix BY <2>6 DEF InsertExpectedMatrix
  <2>7. CASE InsertSolverVersion BY <2>7 DEF InsertSolverVersion
  <2>8. CASE PushExit BY <2>8 DEF PushExit
  <2>9. CASE RunSolver BY <2>9 DEF RunSolver
  <2>10. CASE Evaluate BY <2>10 DEF Evaluate
  <2>11. CASE ObserveRow BY <2>11 DEF ObserveRow
  <2>12. CASE BufferCsvRow BY <2>12 DEF BufferCsvRow
  <2>13. CASE FlushCsvRow
    BY <2>13 DEF FlushCsvRow, Advance
  <2>14. CASE WriteWarehouseRow
    BY <2>14, <2>c DEF WriteWarehouseRow, RowAdmissible
  <2>15. CASE MarkObserved BY <2>15 DEF MarkObserved
  <2>16. CASE CountRow BY <2>16 DEF CountRow, Advance
  <2>17. CASE AssertComplete BY <2>17 DEF AssertComplete
  <2>18. CASE FinishRun
    BY <2>18, <2>b DEF FinishRun, CloseRun, FinalStatus
  <2>19. CASE FinishAfterOpenFailure
    BY <2>19 DEF FinishAfterOpenFailure, CloseRun
  <2>20. CASE CloseCsv BY <2>20 DEF CloseCsv
  <2>21. CASE Interrupt BY <2>21 DEF Interrupt
  <2>22. CASE CrashHarness BY <2>22 DEF CrashHarness
  <2>23. CASE RefuseWatchdog BY <2>23 DEF RefuseWatchdog
  <2>24. CASE UNCHANGED vars
    BY <2>24 DEF vars, harnessVars, writerVars, csvVars, dbVars
  <2> QED
    BY <2>1, <2>2, <2>3, <2>4, <2>5, <2>6, <2>7, <2>8, <2>9, <2>10, <2>11,
       <2>12, <2>13, <2>14, <2>15, <2>16, <2>17, <2>18, <2>19, <2>20, <2>21,
       <2>22, <2>23, <2>24 DEF Next, Step
<1> QED
  BY <1>1, <1>2, Invariance, PTL DEF Spec, ImplementsLedger, Ledger!Spec
-----------------------------------------------------------------------------
(* Why a run ends badly.  The loops visit the places in lexicographic      *)
(* order, each once: no key is met twice, no check fires, and at the end   *)
(* all of them were met.                                                   *)

Earlier(p, q) ==
    \/ p.c < q.c
    \/ p.c = q.c /\ p.l < q.l
    \/ p.c = q.c /\ p.l = q.l /\ p.s < q.s
Met == {KeyAt(sel, p) : p \in {q \in Places(sel) : Earlier(q, at)}}

Visiting == {"solve", "evaluate", "observe"}
Recording == {"csvWrite", "csvFlush", "pgWrite", "mark", "index"}

(* What the runner's tracker has seen at each place. *)
VisitInv ==
    /\ pc \in (Accepting \ Looping) \cup {"build"} =>
          observed = {} /\ at = FirstPlace
    /\ pc \in Visiting => observed = Met
    /\ pc \in Recording => observed = Met \cup {Key}
    /\ pc = "complete" => observed = Expected

(* The writer's tracker follows the runner's, and a normal exit finds both *)
(* stores whole.                                                           *)
FollowInv ==
    /\ pc = "pgWrite" => Key \notin recorded
    /\ sel.save =>
        /\ pc \in (Accepting \cup {"build"}) \ (Recording \ {"index"}) =>
              recorded = observed
        /\ pc \in Recording \ {"index"} => recorded = observed \ {Key}
    /\ pc \in {"finish", "closeCsv"} /\ ~raising =>
          CsvKeys = Expected /\ ~pending
    /\ pc = "finish" /\ ~raising => recorded = Expected

(* A fault is behind every raise and every run left open, or the watchdog  *)
(* options, which stop the loops at their first place.                     *)
Breaks == {"warehouse", "interrupt", "crash"}
CauseInv ==
    /\ ~Accepts(sel) => pc \in {"build", "raised", "crashed"}
    /\ status = "running" /\ pc \in {"closeCsv"} \cup Terminal =>
          faults \cap Breaks # {}
    /\ pc = "openFailed" => raising /\ faults \cap Breaks # {}
    /\ pc = "closeCsv" /\ ~raising /\ sel.save => status = "completed"
    /\ WatchdogRaises(sel) =>
          /\ at.s = 1 /\ pc \notin Looping \ {"solve"}
          /\ pc \in {"finish", "closeCsv"} => raising
    /\ BadEndsHaveCauses

LEMMA PlaceFields ==
    ASSUME sel \in Selections, NEW p \in Places(sel)
    PROVE  /\ p.c \in 1 .. Len(sel.cases) /\ p.l \in 1 .. Len(sel.limits)
           /\ p.s \in 1 .. Len(sel.solvers)
           /\ p = [c |-> p.c, l |-> p.l, s |-> p.s]
           /\ Len(sel.cases) \in Nat /\ Len(sel.limits) \in Nat
           /\ Len(sel.solvers) \in Nat
  BY SelectionType DEF Places

(* The key of a place is met once. *)
LEMMA KeyIsNew ==
    ASSUME sel \in Selections, Accepts(sel), at \in Places(sel)
    PROVE  Key \notin Met
<1> SUFFICES ASSUME NEW p \in Places(sel), Earlier(p, at), KeyAt(sel, p) = Key
             PROVE  FALSE
  BY DEF Met
<1>1. /\ sel.cases[p.c] = sel.cases[at.c] /\ sel.solvers[p.s] = sel.solvers[at.s]
      /\ sel.limits[p.l] = sel.limits[at.l]
  BY DEF Key, KeyAt
<1>2. p.c = at.c /\ p.s = at.s /\ p.l = at.l
  BY <1>1, PlaceFields DEF Accepts, HasNoDuplicates
<1> QED
  BY <1>2, PlaceFields DEF Earlier

LEMMA NothingMetAtFirst ==
    ASSUME sel \in Selections, at = FirstPlace
    PROVE  Met = {}
<1> SUFFICES ASSUME NEW p \in Places(sel), Earlier(p, at) PROVE FALSE
  BY DEF Met
<1> QED
  BY PlaceFields DEF Earlier, FirstPlace

(* In the last cell of a case, everything met so far or now is in this     *)
(* case or in an earlier one.                                              *)
LEMMA LastOfCase ==
    ASSUME NEW c \in Int, NEW d \in Int, NEW m \in Int, NEW n \in Int,
           NEW l \in 1 .. m, NEW s \in 1 .. n
    PROVE  /\ ~(l < 1) /\ ~(s < 1)
           /\ c < d + 1 <=> c < d \/ c = d
           /\ l < m \/ l = m
           /\ s < n \/ s = n
           /\ c = d => ~(c < d) /\ c < d + 1
  OBVIOUS

(* A place that is not the last is followed by the one that has it, and    *)
(* what is earlier than it, before it.                                     *)
LEMMA FollowingIsNext ==
    ASSUME sel \in Selections, at \in Places(sel), ~IsLast(sel, at),
           NEW p \in Places(sel)
    PROVE  Earlier(p, Following(sel, at)) <=> Earlier(p, at) \/ p = at
<1>1. /\ p.c \in 1 .. Len(sel.cases) /\ p.l \in 1 .. Len(sel.limits)
      /\ p.s \in 1 .. Len(sel.solvers)
      /\ at.c \in 1 .. Len(sel.cases) /\ at.l \in 1 .. Len(sel.limits)
      /\ at.s \in 1 .. Len(sel.solvers)
      /\ Len(sel.cases) \in Nat /\ Len(sel.limits) \in Nat
      /\ Len(sel.solvers) \in Nat
  BY PlaceFields
<1>2. p = at <=> p.c = at.c /\ p.l = at.l /\ p.s = at.s
  BY PlaceFields
<1>3. at = [c |-> at.c, l |-> at.l, s |-> at.s]
  BY PlaceFields
<1>4. CASE at.s < Len(sel.solvers)
  <2>1. Following(sel, at) = [c |-> at.c, l |-> at.l, s |-> at.s + 1]
    BY <1>3, <1>4 DEF Following
  <2> QED
    BY <1>1, <1>2, <2>1 DEF Earlier
<1>5. CASE at.s = Len(sel.solvers) /\ at.l < Len(sel.limits)
  <2>1. Following(sel, at) = [at EXCEPT !.s = 1, !.l = @ + 1]
    BY <1>1, <1>5 DEF Following
  <2>2. Following(sel, at) = [c |-> at.c, l |-> at.l + 1, s |-> 1]
    BY <1>3, <2>1
  <2> QED
    BY <1>1, <1>2, <1>5, <2>2 DEF Earlier
<1>6. CASE at.s = Len(sel.solvers) /\ at.l = Len(sel.limits)
  <2>1. ~(at.s < Len(sel.solvers)) /\ ~(at.l < Len(sel.limits))
    BY <1>1, <1>6
  <2>2. Following(sel, at) = [c |-> at.c + 1, l |-> 1, s |-> 1]
    BY <2>1 DEF Following
  <2>3. /\ Following(sel, at).c = at.c + 1
        /\ Following(sel, at).l = 1 /\ Following(sel, at).s = 1
    BY <2>2
  <2>4. /\ p.c \in Int /\ at.c \in Int
        /\ p.l \in 1 .. at.l /\ p.s \in 1 .. at.s /\ at.l \in Int /\ at.s \in Int
    BY <1>1, <1>6
  <2> QED
    BY <1>2, <2>3, <2>4, LastOfCase DEF Earlier
<1> QED
  BY <1>1, <1>4, <1>5, <1>6

LEMMA MetGrows ==
    ASSUME sel \in Selections, at \in Places(sel), ~IsLast(sel, at),
           sel' = sel, at' = Following(sel, at)
    PROVE  Met' = Met \cup {Key}
  BY FollowingIsNext DEF Met, Key

LEMMA AllMetAtLast ==
    ASSUME sel \in Selections, at \in Places(sel), IsLast(sel, at)
    PROVE  Met \cup {Key} = Expected
<1>1. \A p \in Places(sel) : Earlier(p, at) \/ p = at
  BY PlaceFields DEF IsLast, Earlier
<1> QED
  BY <1>1 DEF Met, Key, Expected, ExpectedKeys

LEMMA InitCauses == Init => VisitInv /\ FollowInv /\ CauseInv
<1> SUFFICES ASSUME Init PROVE VisitInv /\ FollowInv /\ CauseInv
  OBVIOUS
<1> QED
  BY DEF Init, VisitInv, FollowInv, CauseInv, BadEndsHaveCauses, Visiting,
         Recording, Accepting, Opening, Looping, Terminal, FirstPlace

(* What was met before a step and after it. *)
LEMMA MetAfterStep ==
    ASSUME TypeInv, AtInv, [Next]_vars
    PROVE  /\ UNCHANGED at => Met' = Met /\ Key' = Key
           /\ at = FirstPlace => Met = {}
           /\ pc \in Looping =>
                 /\ Key \in Expected \ Met
                 /\ IsLast(sel, at) => Met \cup {Key} = Expected
                 /\ ~IsLast(sel, at) /\ at' = Following(sel, at) =>
                       Met' = Met \cup {Key}
<1>1. sel' = sel /\ sel \in Selections
  BY SelectionStays DEF TypeInv
<1>2. pc \in Looping => Accepts(sel) /\ at \in Places(sel)
  BY DEF AtInv, Accepting
<1>3. UNCHANGED at => Met' = Met /\ Key' = Key
  BY <1>1 DEF Met, Key
<1> QED
  BY <1>1, <1>2, <1>3, KeyExpected, KeyIsNew, NothingMetAtFirst, MetGrows, AllMetAtLast

LEMMA VisitStep ==
    ASSUME TypeInv, AtInv, VisitInv, [Next]_vars
    PROVE  VisitInv'
<1>0. sel' = sel /\ Expected' = Expected
  BY SelectionStays
<1> USE <1>0, MetAfterStep
        DEF VisitInv, Visiting, Recording, PCs, Opening, Looping, Terminal, Accepting,
            Goto, Raise, Fault, Handler, Statement,
            dbVars, csvVars, writerVars
<1>1. CASE BuildMatrix BY <1>1 DEF BuildMatrix
<1>2. CASE OpenCsv BY <1>2 DEF OpenCsv
<1>3. CASE Connect BY <1>3 DEF Connect
<1>4. CASE InsertRun BY <1>4 DEF InsertRun
<1>5. CASE NoteRun BY <1>5 DEF NoteRun
<1>6. CASE InsertExpectedMatrix BY <1>6 DEF InsertExpectedMatrix
<1>7. CASE InsertSolverVersion BY <1>7 DEF InsertSolverVersion
<1>8. CASE PushExit BY <1>8 DEF PushExit
<1>9. CASE RunSolver BY <1>9 DEF RunSolver
<1>10. CASE Evaluate BY <1>10 DEF Evaluate
<1>11. CASE ObserveRow BY <1>11 DEF ObserveRow
<1>12. CASE BufferCsvRow BY <1>12 DEF BufferCsvRow
<1>13. CASE FlushCsvRow BY <1>13 DEF FlushCsvRow, Advance
<1>14. CASE WriteWarehouseRow BY <1>14 DEF WriteWarehouseRow
<1>15. CASE MarkObserved BY <1>15 DEF MarkObserved
<1>16. CASE CountRow BY <1>16 DEF CountRow, Advance
<1>17. CASE AssertComplete BY <1>17 DEF AssertComplete
<1>18. CASE FinishRun BY <1>18 DEF FinishRun, CloseRun, FinalStatus
<1>19. CASE FinishAfterOpenFailure
  BY <1>19 DEF FinishAfterOpenFailure, CloseRun
<1>20. CASE CloseCsv BY <1>20 DEF CloseCsv
<1>21. CASE Interrupt BY <1>21 DEF Interrupt
<1>22. CASE CrashHarness BY <1>22 DEF CrashHarness
<1>23. CASE RefuseWatchdog BY <1>23 DEF RefuseWatchdog
<1>24. CASE UNCHANGED vars
  BY <1>24 DEF vars, harnessVars, writerVars, csvVars, dbVars
<1> QED
  BY <1>1, <1>2, <1>3, <1>4, <1>5, <1>6, <1>7, <1>8, <1>9, <1>10, <1>11,
     <1>12, <1>13, <1>14, <1>15, <1>16, <1>17, <1>18, <1>19, <1>20, <1>21,
     <1>22, <1>23, <1>24 DEF Next, Step

LEMMA FollowStep ==
    ASSUME IInv, VisitInv, FollowInv, CauseInv, [Next]_vars
    PROVE  FollowInv'
<1>0. sel' = sel /\ Expected' = Expected
  BY SelectionStays
<1>a. /\ UNCHANGED at => Key' = Key
      /\ UNCHANGED csv => CsvKeys' = CsvKeys
      /\ pc \in Looping => Key \notin Met
  BY MetAfterStep, CsvAfterStep DEF IInv
<1>b. /\ pc \in Visiting => observed = Met
      /\ pc \in Recording => Key \in observed
      /\ pc = "complete" => observed = Expected
  BY DEF VisitInv
<1>c. /\ pc = "complete" => CsvKeys = observed
      /\ pending => pc = "csvFlush" \/ raising \/ pc \in Terminal
      /\ pc \in Accepting => ~raising
      /\ pc = "pgWrite" => sel.save
      /\ pc = "openFailed" => raising
      /\ pending \in BOOLEAN
  BY DEF IInv, TypeInv, ChainInv, AtInv, CsvInv, StatusInv, CauseInv,
         Accepting, Looping
<1> USE <1>0, <1>a, <1>b, <1>c
        DEF FollowInv, Visiting, Recording, PCs, Opening, Looping, Terminal, Accepting,
            Goto, Raise, Fault, Handler, Statement,
            dbVars, csvVars, writerVars
<1>1. CASE BuildMatrix BY <1>1 DEF BuildMatrix
<1>2. CASE OpenCsv BY <1>2 DEF OpenCsv
<1>3. CASE Connect BY <1>3 DEF Connect
<1>4. CASE InsertRun BY <1>4 DEF InsertRun
<1>5. CASE NoteRun BY <1>5 DEF NoteRun
<1>6. CASE InsertExpectedMatrix BY <1>6 DEF InsertExpectedMatrix
<1>7. CASE InsertSolverVersion BY <1>7 DEF InsertSolverVersion
<1>8. CASE PushExit BY <1>8 DEF PushExit
<1>9. CASE RunSolver BY <1>9 DEF RunSolver
<1>10. CASE Evaluate BY <1>10 DEF Evaluate
<1>11. CASE ObserveRow BY <1>11 DEF ObserveRow
<1>12. CASE BufferCsvRow BY <1>12 DEF BufferCsvRow
<1>13. CASE FlushCsvRow BY <1>13 DEF FlushCsvRow, Advance
<1>14. CASE WriteWarehouseRow BY <1>14 DEF WriteWarehouseRow
<1>15. CASE MarkObserved BY <1>15 DEF MarkObserved
<1>16. CASE CountRow BY <1>16 DEF CountRow, Advance
<1>17. CASE AssertComplete BY <1>17 DEF AssertComplete
<1>18. CASE FinishRun BY <1>18 DEF FinishRun, CloseRun, FinalStatus
<1>19. CASE FinishAfterOpenFailure
  BY <1>19 DEF FinishAfterOpenFailure, CloseRun
<1>20. CASE CloseCsv BY <1>20 DEF CloseCsv
<1>21. CASE Interrupt BY <1>21 DEF Interrupt
<1>22. CASE CrashHarness BY <1>22 DEF CrashHarness
<1>23. CASE RefuseWatchdog BY <1>23 DEF RefuseWatchdog
<1>24. CASE UNCHANGED vars
  BY <1>24 DEF vars, harnessVars, writerVars, csvVars, dbVars
<1> QED
  BY <1>1, <1>2, <1>3, <1>4, <1>5, <1>6, <1>7, <1>8, <1>9, <1>10, <1>11,
     <1>12, <1>13, <1>14, <1>15, <1>16, <1>17, <1>18, <1>19, <1>20, <1>21,
     <1>22, <1>23, <1>24 DEF Next, Step

(* The schema and the trackers admit every row of the loops. *)
LEMMA RowIsAdmitted ==
    ASSUME IInv, FollowInv, pc = "pgWrite"
    PROVE  Key \in Expected \ recorded /\ RowAdmissible
<1>1. /\ sel \in Selections /\ at \in Places(sel) /\ sel.save
      /\ status = "running"
      /\ entries = Expected /\ versions = Len(sel.solvers)
      /\ DOMAIN rows = recorded /\ Key \notin recorded
  BY DEF IInv, TypeInv, AtInv, StatusInv, CatalogueInv, ChainInv, FollowInv,
         Accepting, Looping
<1>2. Key \in Expected /\ at.s <= versions
  BY <1>1, KeyExpected, PlaceFields
<1>3. /\ {rows[k].index : k \in DOMAIN rows} = 0 .. rowIndex - 1
      /\ rowIndex \in Nat
  BY DEF IInv, TypeInv, CountInv, Looping
<1>4. \A k \in DOMAIN rows : rows[k].index \in 0 .. rowIndex - 1
  BY <1>3
<1>5. \A k \in DOMAIN rows : rows[k].index # rowIndex
  BY <1>3, <1>4
<1> QED
  BY <1>1, <1>2, <1>5 DEF RowAdmissible

LEMMA CauseStep ==
    ASSUME IInv, VisitInv, FollowInv, CauseInv, [Next]_vars
    PROVE  CauseInv'
<1>0. sel' = sel /\ Expected' = Expected
  BY SelectionStays
<1>a. UNCHANGED csv => CsvKeys' = CsvKeys
  BY CsvAfterStep DEF IInv
<1>b. /\ pc = "observe" => Key \in Expected \ observed
      /\ pc = "complete" => observed = Expected
      /\ pc = "pgWrite" => Key \in Expected \ recorded /\ RowAdmissible
  BY MetAfterStep, RowIsAdmitted DEF IInv, VisitInv, Visiting, Looping
<1>c. /\ pc \in Accepting => Accepts(sel) /\ ~raising
      /\ pc = "build" => ~raising
      /\ pc \in {"build", "csvOpen", "connect"} => status = "none"
      /\ pc \in Looping => status = IF sel.save THEN "running" ELSE "none"
      /\ pc = "finish" => status = "running" /\ sel.save
      /\ pc = "openFailed" => status \in {"none", "running"}
      /\ pc = "pgWrite" => sel.save
      /\ Closed => pc \in {"closeCsv"} \cup Terminal
      /\ pending \in BOOLEAN /\ raising \in BOOLEAN
      /\ status \in {"none", "running", "completed", "failed"}
  BY DEF IInv, TypeInv, AtInv, StatusInv
<1>d. /\ pc \in {"finish", "closeCsv"} /\ ~raising =>
            CsvKeys = Expected /\ ~pending
      /\ pc = "finish" /\ ~raising => recorded = Expected
  BY DEF FollowInv
<1>e. /\ WatchdogRaises(sel)' <=> WatchdogRaises(sel)
      /\ observed = {} => ~pending
  BY <1>0 DEF WatchdogRaises, IInv, CsvInv
<1> USE <1>0, <1>a, <1>b, <1>c, <1>d, <1>e
        DEF CauseInv, BadEndsHaveCauses, Breaks, Closed,
            PCs, Opening, Looping, Terminal, Accepting,
            Goto, Raise, Fault, Handler, Statement,
            dbVars, csvVars, writerVars
<1>1. CASE BuildMatrix BY <1>1 DEF BuildMatrix
<1>2. CASE OpenCsv BY <1>2 DEF OpenCsv
<1>3. CASE Connect BY <1>3 DEF Connect
<1>4. CASE InsertRun BY <1>4 DEF InsertRun
<1>5. CASE NoteRun BY <1>5 DEF NoteRun
<1>6. CASE InsertExpectedMatrix BY <1>6 DEF InsertExpectedMatrix
<1>7. CASE InsertSolverVersion BY <1>7 DEF InsertSolverVersion
<1>8. CASE PushExit BY <1>8 DEF PushExit
<1>9. CASE RunSolver BY <1>9 DEF RunSolver
<1>10. CASE Evaluate BY <1>10 DEF Evaluate
<1>11. CASE ObserveRow BY <1>11 DEF ObserveRow
<1>12. CASE BufferCsvRow BY <1>12 DEF BufferCsvRow
<1>13. CASE FlushCsvRow BY <1>13 DEF FlushCsvRow, Advance
<1>14. CASE WriteWarehouseRow BY <1>14 DEF WriteWarehouseRow
<1>15. CASE MarkObserved BY <1>15 DEF MarkObserved
<1>16. CASE CountRow BY <1>16 DEF CountRow, Advance
<1>17. CASE AssertComplete BY <1>17 DEF AssertComplete
<1>18. CASE FinishRun BY <1>18 DEF FinishRun, CloseRun, FinalStatus
<1>19. CASE FinishAfterOpenFailure
  BY <1>19 DEF FinishAfterOpenFailure, CloseRun
<1>20. CASE CloseCsv BY <1>20 DEF CloseCsv
<1>21. CASE Interrupt BY <1>21 DEF Interrupt
<1>22. CASE CrashHarness BY <1>22 DEF CrashHarness
<1>23. CASE RefuseWatchdog BY <1>23 DEF RefuseWatchdog
<1>24. CASE UNCHANGED vars
  BY <1>24 DEF vars, harnessVars, writerVars, csvVars, dbVars
<1> QED
  BY <1>1, <1>2, <1>3, <1>4, <1>5, <1>6, <1>7, <1>8, <1>9, <1>10, <1>11,
     <1>12, <1>13, <1>14, <1>15, <1>16, <1>17, <1>18, <1>19, <1>20, <1>21,
     <1>22, <1>23, <1>24 DEF Next, Step

(* A run ends badly only for a reason outside the harness, or before its   *)
(* first solver because of its watchdog options: an exception after the    *)
(* matrix was accepted, a run left "running" and a normal return each have *)
(* the cause or the complete stores they must have.                        *)
THEOREM BadEnds == Spec => []BadEndsHaveCauses
<1>1. CauseInv => BadEndsHaveCauses
  BY DEF CauseInv
<1>2. IInv /\ VisitInv /\ FollowInv /\ CauseInv /\ [Next]_vars =>
         VisitInv' /\ FollowInv' /\ CauseInv'
  BY VisitStep, FollowStep, CauseStep DEF IInv
<1> QED
  BY <1>1, <1>2, InitCauses, Invariance, PTL DEF Spec
=============================================================================
