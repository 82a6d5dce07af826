------------------------------ MODULE Warehouse ------------------------------
(***************************************************************************)
(* The PostgreSQL warehouse shared by concurrent benchmark runs, the       *)
(* migrations that retract runs, the publication views and the dashboard.  *)
(*                                                                         *)
(* Every commit of a writer is one action (RunLifecycle has the steps in   *)
(* between); a writer that failed, or was killed, takes no more of them.   *)
(* Runs recorded before the publication migration are there from the       *)
(* start, without an expected matrix.                                      *)
(***************************************************************************)
EXTENDS PublicationAudit

CONSTANTS
    RunIds,
    Groups,         \* values of (nightly, run_kind, benchmark, release_tag)
    Matrix,         \* the expected keys, records with solver and limit
    StartTrees      \* the work trees runs are started from

ASSUME MatrixAssumption ==
    IsFiniteSet(Matrix) /\ Matrix # {} /\ StartTrees \subseteq Trees

Solvers == {k.solver : k \in Matrix}
Limits == {k.limit : k \in Matrix}

VARIABLES
    runs,           \* the run and its rows, by id
    tree,           \* the work tree each run was really started from
    clock,          \* orders the completion times
    reader          \* one request of the dashboard

vars == <<runs, tree, clock, reader>>

NoVersions == [s \in {} |-> TRUE]
NoRows == [k \in {} |-> TRUE]

Absent ==
    [status |-> "absent", group |-> Null, completedAt |-> 0,
     commit |-> Null, dirty |-> FALSE, solvers |-> Solvers, limits |-> Limits,
     expectedCount |-> {}, expectedHash |-> {}, observedHash |-> {},
     resultCount |-> 0, entries |-> {}, versions |-> NoVersions,
     rows |-> NoRows]

(* A completed run from before the migration. *)
LegacyRuns ==
    {[Absent EXCEPT !.status = "completed", !.group = g, !.commit = "sha",
                    !.resultCount = Cardinality(Matrix),
                    !.versions = [s \in Solvers |-> FALSE],
                    !.rows = [k \in Matrix |-> FALSE]] : g \in Groups}

CleanTree == [repository |-> TRUE, statusWorks |-> TRUE, listed |-> {}]
Idle == [phase |-> "idle", options |-> {}, panels |-> {}]

Init ==
    /\ runs \in [RunIds -> {Absent} \cup LegacyRuns]
    /\ \A r, q \in RunIds :
          runs[r].status = "completed" /\ runs[q].status = "completed" => r = q
    /\ tree = [r \in RunIds |-> CleanTree]
    /\ clock = 1
    /\ reader = Idle

-----------------------------------------------------------------------------
(* Views. *)

Publishable == {r \in RunIds : PublicationReady(runs[r]) = "true"}
Completed == {r \in RunIds : runs[r].status = "completed"}

(* DISTINCT ON (nightly, run_kind, benchmark_name, release_tag)            *)
(* ... ORDER BY completed_at DESC.                                         *)
Latest(ids) ==
    {r \in ids : \A q \in ids :
        runs[q].group = runs[r].group =>
            runs[q].completedAt <= runs[r].completedAt}

(* Mutant: every run's newest rows, complete or not. *)
LatestFactsOfAnyRun ==
    {[run |-> r, key |-> k] : r \in Latest({q \in RunIds :
        runs[q].status # "absent"}), k \in Matrix}
    \cap UNION {{[run |-> r, key |-> k] : k \in Keys(runs[r])} : r \in RunIds}

(* latest_benchmark_result_facts *)
LatestFacts ==
    UNION {{[run |-> r, key |-> k] : k \in Keys(runs[r])} :
              r \in Latest(Completed)}

-----------------------------------------------------------------------------
(* Writers. *)

Update(r, run) == runs' = [runs EXCEPT ![r] = run]

(* _insert_run, with the provenance of the tree at that moment. *)
OpenRun(r) ==
    /\ runs[r].status = "absent"
    /\ \E g \in Groups, t \in StartTrees :
         LET provenance == worktree_provenance(t) IN
         /\ tree' = [tree EXCEPT ![r] = t]
         /\ Update(r, [runs[r] EXCEPT
                !.status = "running", !.group = g,
                !.commit = provenance.commit, !.dirty = provenance.dirty,
                !.expectedCount = {Cardinality(Matrix)},
                !.expectedHash = {Matrix}])
    /\ UNCHANGED <<clock, reader>>

InsertExpectedMatrix(r) ==
    /\ runs[r].status = "running" /\ runs[r].entries = {}
    /\ Update(r, [runs[r] EXCEPT !.entries = Matrix])
    /\ UNCHANGED <<tree, clock, reader>>

(* One solver's version, with complete provenance or "unknown". *)
InsertSolverVersion(r) ==
    /\ runs[r].status = "running" /\ runs[r].entries = Matrix
    /\ \E s \in Solvers \ VersionSolvers(runs[r]), complete \in BOOLEAN :
         Update(r, [runs[r] EXCEPT !.versions =
                [x \in VersionSolvers(runs[r]) \cup {s} |->
                    IF x = s THEN complete ELSE runs[r].versions[x]]])
    /\ UNCHANGED <<tree, clock, reader>>

WriteRow(r) ==
    /\ runs[r].status = "running" /\ VersionSolvers(runs[r]) = Solvers
    /\ \E k \in Matrix \ Keys(runs[r]), fair \in BOOLEAN :
         Update(r, [runs[r] EXCEPT
                !.resultCount = @ + 1,
                !.rows = [x \in Keys(runs[r]) \cup {k} |->
                            IF x = k THEN fair ELSE runs[r].rows[x]]])
    /\ UNCHANGED <<tree, clock, reader>>

CompleteRun(r) ==
    /\ runs[r].status = "running" /\ Keys(runs[r]) = Matrix
    /\ Update(r, [runs[r] EXCEPT
            !.status = "completed", !.completedAt = clock,
            !.observedHash = {Matrix}])
    /\ clock' = clock + 1
    /\ UNCHANGED <<tree, reader>>

(* Mutant: the count is taken after it was advanced for the next row. *)
FailRunCountsNext(r) ==
    /\ runs[r].status = "running"
    /\ Update(r, [runs[r] EXCEPT
            !.status = "failed", !.completedAt = clock,
            !.observedHash = {Keys(runs[r])},
            !.resultCount = Cardinality(Keys(runs[r])) + 1])
    /\ clock' = clock + 1
    /\ UNCHANGED <<tree, reader>>

(* The exit handler's count and digest may lag behind by one row. *)
FailRun(r) ==
    /\ runs[r].status = "running"
    /\ \E seen \in SUBSET Keys(runs[r]) :
         /\ Cardinality(seen) + 1 >= Cardinality(Keys(runs[r]))
         /\ Update(r, [runs[r] EXCEPT
                !.status = "failed", !.completedAt = clock,
                !.observedHash = {seen}, !.resultCount = Cardinality(seen)])
    /\ clock' = clock + 1
    /\ UNCHANGED <<tree, reader>>

(* Mutant: the retraction deletes the offending row and keeps the run. *)
RetractRow(r) ==
    /\ Keys(runs[r]) # {}
    /\ \E k \in Keys(runs[r]) :
         Update(r, [runs[r] EXCEPT
                !.rows = [x \in Keys(runs[r]) \ {k} |-> runs[r].rows[x]]])
    /\ UNCHANGED <<tree, clock, reader>>

(* A retraction migration deletes a run that has results, and everything   *)
(* that refers to it.                                                      *)
RetractRun(r) ==
    /\ Keys(runs[r]) # {}
    /\ Update(r, [Absent EXCEPT !.status = "retracted"])
    /\ UNCHANGED <<tree, clock, reader>>

-----------------------------------------------------------------------------
(* The dashboard: every query is its own transaction. *)

(* DashboardSnapshot.new loads the filter options ... *)
LoadOptions ==
    /\ reader.phase = "idle"
    /\ reader' = [phase |-> "options", options |-> LatestFacts, panels |-> {}]
    /\ UNCHANGED <<runs, tree, clock>>

(* ... and the view then runs the queries of its panels. *)
LoadPanels ==
    /\ reader.phase = "options"
    /\ reader' = [reader EXCEPT !.phase = "rendered", !.panels = LatestFacts]
    /\ UNCHANGED <<runs, tree, clock>>

NextRequest ==
    /\ reader.phase = "rendered"
    /\ reader' = Idle
    /\ UNCHANGED <<runs, tree, clock>>

Next ==
    \/ \E r \in RunIds :
         \/ OpenRun(r) \/ InsertExpectedMatrix(r) \/ InsertSolverVersion(r)
         \/ WriteRow(r) \/ CompleteRun(r) \/ FailRun(r) \/ RetractRun(r)
    \/ LoadOptions \/ LoadPanels \/ NextRequest

Spec == Init /\ [][Next]_vars

-----------------------------------------------------------------------------
(* Properties. *)

TypeInv ==
    /\ \A r \in RunIds :
         /\ runs[r].status \in {"absent", "running", "completed", "failed",
                                "retracted"}
         /\ runs[r].entries \in {{}, Matrix}
         /\ Keys(runs[r]) \subseteq Matrix
         /\ VersionSolvers(runs[r]) \subseteq Solvers
         /\ runs[r].resultCount \in 0 .. Cardinality(Matrix)
         /\ runs[r].completedAt \in 0 .. clock - 1
         /\ PublicationReady(runs[r]) \in {"true", "false", Null}
    /\ tree \in [RunIds -> Trees] /\ clock \in Nat \ {0}
    /\ reader.phase \in {"idle", "options", "rendered"}

(* README: public views admit only completed runs with an exact matrix,    *)
(* valid witnesses in every row, complete provenance of every solver, also *)
(* among runs recorded before any of this was collected, and a clean       *)
(* identified commit: the work tree the run was really started from is it, *)
(* as far as git reports it (a status that fails reports nothing, and a    *)
(* quoted name is not recognised).                                         *)
PublishedIsAttested ==
    \A r \in Publishable :
        /\ runs[r].status = "completed"
        /\ Keys(runs[r]) = Matrix /\ runs[r].entries = Matrix
        /\ \A k \in Matrix : runs[r].rows[k]
        /\ DOMAIN runs[r].versions = Solvers
        /\ \A s \in Solvers : runs[r].versions[s]
        /\ TreeIsItsCommit(Reported(tree[r]))

Stored == {r \in RunIds : runs[r].status \notin {"absent", "retracted"}}

(* A completed run of the writer with fair rows, known solvers and a clean *)
(* tree.                                                                   *)
Sound(r) ==
    /\ runs[r].status = "completed" /\ runs[r].expectedCount # {}
    /\ TreeIsItsCommit(tree[r]) /\ tree[r].statusWorks
    /\ \A k \in Keys(runs[r]) : runs[r].rows[k]
    /\ \A s \in Solvers : runs[r].versions[s]

(* WIREFRAME: the audit explains every rejected run with a failure array.  *)
(* The reasons are the verdict: a run is public when it has none, withheld *)
(* when it has some, and a sound run has none.  Only a run started outside *)
(* a repository is withheld without one: its commit is unknown, not wrong. *)
RejectedIsExplained ==
    \A r \in Stored :
        /\ r \in Publishable <=>
               PublicationFailures(runs[r]) = {} /\ tree[r].repository
        /\ Sound(r) => r \in Publishable

(* The public history moves forward: a published run stays as it was       *)
(* published until it is retracted whole, and the latest one of a group is *)
(* only ever replaced by one completed later, whatever order the writers,  *)
(* the exits and the migrations come in.                                   *)
PublicMovesForward ==
    [][\A r \in Publishable :
          \/ runs'[r].status = "retracted"
          \/ /\ runs'[r] = runs[r]
             /\ r \in Latest(Publishable) =>
                    \/ r \in Latest(Publishable)'
                    \/ \E q \in Latest(Publishable)' :
                          /\ runs'[q].group = runs[r].group
                          /\ runs'[q].completedAt > runs[r].completedAt]_vars

Withdrawn(r) == runs[r].status = "retracted"
Replaces(q, r) ==
    runs[q].group = runs[r].group /\ runs[q].completedAt > runs[r].completedAt

(* LatestResultFact: every query of the dashboard sees complete runs only, *)
(* whole, whatever the writers are doing.  FilterOptions: a choice is not  *)
(* one that existed only in old history.  The choices are read before the  *)
(* panels, by a query of their own, so the run a choice came from may be   *)
(* gone by then: the panels show the choice in that run or in a later one  *)
(* of its group, unless a retraction took a run away.                      *)
QueriesSeeWholeRuns ==
    /\ \A facts \in {reader.options, reader.panels} :
         \A f \in facts : {g.key : g \in {h \in facts : h.run = f.run}} = Matrix
    /\ reader.phase = "rendered" =>
         \A f \in reader.options :
            \/ Withdrawn(f.run)
            \/ \E g \in reader.panels :
                  /\ g.key = f.key
                  /\ g.run = f.run \/ Replaces(g.run, f.run) \/ Withdrawn(g.run)
=============================================================================
