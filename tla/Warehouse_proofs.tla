--------------------------- MODULE Warehouse_proofs ---------------------------
(***************************************************************************)
(* What the tables of the warehouse promise their readers, for any number  *)
(* of runs, any matrix and any work trees: the gate admits what the README *)
(* says it admits, the audit gives its reasons, the public history moves   *)
(* forward, and the dashboard never sees a part of a run.                  *)
(***************************************************************************)
EXTENDS Warehouse, FoldTheorems, TLAPS

Statuses == {"absent", "running", "completed", "failed", "retracted"}
Maps(S) == UNION {[T -> BOOLEAN] : T \in SUBSET S}

RunRecords ==
    [status : Statuses, group : Groups \cup {Null}, completedAt : Nat,
     commit : {"sha", Null}, dirty : BOOLEAN,
     solvers : {Solvers}, limits : {Limits},
     expectedCount : {{}, {Cardinality(Matrix)}}, expectedHash : {{}, {Matrix}},
     observedHash : SUBSET SUBSET Matrix,
     resultCount : 0 .. Cardinality(Matrix),
     entries : {{}, Matrix}, versions : Maps(Solvers), rows : Maps(Matrix)]

Facts == [run : RunIds, key : Matrix]
Readers == [phase : {"idle", "options", "rendered"},
            options : SUBSET Facts, panels : SUBSET Facts]

(* The run's columns tell of the tree what git reported of it.             *)
Provenance(run, t) ==
    /\ run.commit = worktree_provenance(t).commit
    /\ run.dirty = worktree_provenance(t).dirty

(* What _insert_run and its exit handler rely on.                          *)
Expecting(run, t) ==
    /\ run.expectedCount = {Cardinality(Matrix)} /\ run.expectedHash = {Matrix}
    /\ run.resultCount = Cardinality(Keys(run))
    /\ Provenance(run, t)

Unopened(run) ==
    run.status = "absent" =>
        /\ run.entries = {} /\ run.resultCount = 0
        /\ Keys(run) = {} /\ VersionSolvers(run) = {}
(* Entries before versions before rows.                                    *)
Open(run, t) ==
    run.status = "running" =>
        /\ Expecting(run, t)
        /\ VersionSolvers(run) # {} => run.entries = Matrix
        /\ Keys(run) # {} => VersionSolvers(run) = Solvers
(* A completed run is an old one without a matrix, or whole.               *)
Whole(run, t) ==
    run.status = "completed" =>
        /\ Keys(run) = Matrix
        /\ \/ run.expectedCount = {}
           \/ /\ Expecting(run, t) /\ run.observedHash = {Matrix}
              /\ run.entries = Matrix /\ VersionSolvers(run) = Solvers

RunInv(run, t, now) ==
    /\ run \in RunRecords /\ run.completedAt < now
    /\ Unopened(run) /\ Open(run, t) /\ Whole(run, t)

(* Whatever facts a request keeps are those of whole runs.                 *)
WholeFacts(facts) ==
    \A f \in facts : \A k \in Matrix : [run |-> f.run, key |-> k] \in facts

IInv ==
    /\ runs \in [RunIds -> RunRecords] /\ tree \in [RunIds -> Trees]
    /\ clock \in Nat \ {0} /\ reader \in Readers
    /\ \A r \in RunIds : RunInv(runs[r], tree[r], clock)
    /\ WholeFacts(reader.options) /\ WholeFacts(reader.panels)

-----------------------------------------------------------------------------
(* Small facts. *)

(* A map on part of a set, extended by one point.                          *)
LEMMA MapExtends ==
    ASSUME NEW S, NEW f \in Maps(S), NEW x \in S, NEW b \in BOOLEAN
    PROVE  [y \in DOMAIN f \cup {x} |-> IF y = x THEN b ELSE f[y]] \in Maps(S)
  <1> DEFINE g == [y \in DOMAIN f \cup {x} |-> IF y = x THEN b ELSE f[y]]
  <1>1. PICK T \in SUBSET S : f \in [T -> BOOLEAN]
    BY DEF Maps
  <1>2. g \in [T \cup {x} -> BOOLEAN]
    BY <1>1
  <1>3. T \cup {x} \in SUBSET S
    BY <1>1
  <1> QED BY <1>1, <1>2, <1>3 DEF Maps

LEMMA MapDomain ==
    ASSUME NEW S, NEW f \in Maps(S)
    PROVE  DOMAIN f \subseteq S
  BY DEF Maps

(* The matrix is counted, and so are the rows of a run.                    *)
LEMMA CountsAreNat ==
    ASSUME NEW S \in SUBSET Matrix
    PROVE  /\ IsFiniteSet(S) /\ Cardinality(S) \in Nat
           /\ Cardinality(S) <= Cardinality(Matrix)
           /\ Cardinality(Matrix) \in Nat
  BY MatrixAssumption, FS_Subset, FS_CardinalityType

(* AND over known truth values is true when each of them is.               *)
LEMMA AllIsTrue ==
    ASSUME NEW values, values \subseteq {"true", "false", Null}
    PROVE  /\ All(values) = "true" <=> \A v \in values : v = "true"
           /\ All(values) \in {"true", "false", Null}
  BY DEF All, Null

(* The gate, without SQL: each of its conditions is known and holds.       *)
LEMMA ReadyMeans ==
    ASSUME NEW run, run.dirty \in BOOLEAN, run.commit \in {"sha", Null}
    PROVE  /\ PublicationReady(run) \in {"true", "false", Null}
           /\ PublicationReady(run) = "true" <=>
                 /\ run.status = "completed" /\ run.commit # Null /\ ~ run.dirty
                 /\ run.expectedCount # {} /\ MatrixIsExact(run)
                 /\ run.expectedHash # {} /\ run.observedHash # {}
                 /\ run.observedHash = run.expectedHash
                 /\ CatalogMatchesConfig(run) /\ AllFair(run)
                 /\ VersionSolvers(run) = run.solvers /\ ProvenanceValid(run)
  <1> DEFINE exact == IF run.expectedCount = {} THEN Null
                      ELSE Truth(MatrixIsExact(run))
             values == {Truth(run.status = "completed"), CommitValid(run),
                        Truth(~run.dirty), exact, HashesAgree(run),
                        Truth(CatalogMatchesConfig(run)), Truth(AllFair(run)),
                        Truth(VersionSolvers(run) = run.solvers),
                        Truth(ProvenanceValid(run))}
  <1>1. \A b \in BOOLEAN : /\ Truth(b) \in {"true", "false"}
                           /\ Truth(b) = "true" <=> b
    BY DEF Truth
  <1>2. /\ (run.status = "completed") \in BOOLEAN /\ (~ run.dirty) \in BOOLEAN
        /\ MatrixIsExact(run) \in BOOLEAN /\ CatalogMatchesConfig(run) \in BOOLEAN
        /\ AllFair(run) \in BOOLEAN
        /\ (VersionSolvers(run) = run.solvers) \in BOOLEAN
        /\ ProvenanceValid(run) \in BOOLEAN
    BY DEF MatrixIsExact, CatalogMatchesConfig, AllFair, ProvenanceValid
  <1>3. /\ CommitValid(run) \in {"true", Null}
        /\ CommitValid(run) = "true" <=> run.commit # Null
    BY DEF CommitValid, Null
  <1>4. /\ exact \in {"true", "false", Null}
        /\ exact = "true" <=> run.expectedCount # {} /\ MatrixIsExact(run)
    BY <1>1, <1>2 DEF Null
  <1>5. /\ HashesAgree(run) \in {"true", "false", Null}
        /\ HashesAgree(run) = "true" <=>
              /\ run.expectedHash # {} /\ run.observedHash # {}
              /\ run.observedHash = run.expectedHash
    BY <1>1 DEF HashesAgree, Null
  <1> HIDE DEF exact
  <1>6. values \subseteq {"true", "false", Null}
    BY <1>1, <1>2, <1>3, <1>4, <1>5
  <1>7. PublicationReady(run) = All(values)
    BY DEF PublicationReady, exact
  <1>8. (\A v \in values : v = "true") <=>
            /\ Truth(run.status = "completed") = "true"
            /\ CommitValid(run) = "true" /\ Truth(~run.dirty) = "true"
            /\ exact = "true" /\ HashesAgree(run) = "true"
            /\ Truth(CatalogMatchesConfig(run)) = "true"
            /\ Truth(AllFair(run)) = "true"
            /\ Truth(VersionSolvers(run) = run.solvers) = "true"
            /\ Truth(ProvenanceValid(run)) = "true"
    OBVIOUS
  <1> HIDE DEF values
  <1>9. PublicationReady(run) \in {"true", "false", Null}
    BY <1>6, <1>7, AllIsTrue
  <1>10. PublicationReady(run) = "true" <=> \A v \in values : v = "true"
    BY <1>6, <1>7, AllIsTrue
  <1> QED
    BY <1>1, <1>2, <1>3, <1>4, <1>5, <1>8, <1>9, <1>10

-----------------------------------------------------------------------------
(* The invariant. *)

LEMMA SolversOfMatrix == Matrix # {} /\ Solvers # {}
  BY MatrixAssumption DEF Solvers

LEMMA NothingIsAMap == ASSUME NEW S PROVE [x \in {} |-> TRUE] \in Maps(S)
  BY DEF Maps

LEMMA AbsentIsARecord == Absent \in RunRecords
  <1>1. NoVersions \in Maps(Solvers) /\ NoRows \in Maps(Matrix)
    BY NothingIsAMap DEF NoVersions, NoRows
  <1>2. 0 \in 0 .. Cardinality(Matrix)
    BY CountsAreNat
  <1> QED BY <1>1, <1>2 DEF Absent, RunRecords, Statuses

LEMMA InitHolds == Init => IInv
  <1> SUFFICES ASSUME Init PROVE IInv
    OBVIOUS
  <1>1. ASSUME NEW r \in RunIds PROVE RunInv(runs[r], tree[r], clock)
    <2>1. CASE runs[r] = Absent
      BY <2>1, AbsentIsARecord
      DEF Init, RunInv, Unopened, Open, Whole, Absent, Keys, VersionSolvers,
          NoRows, NoVersions
    <2>2. CASE runs[r] \in LegacyRuns
      <3>1. PICK g \in Groups :
              runs[r] = [Absent EXCEPT !.status = "completed", !.group = g,
                    !.commit = "sha", !.resultCount = Cardinality(Matrix),
                    !.versions = [s \in Solvers |-> FALSE],
                    !.rows = [k \in Matrix |-> FALSE]]
        BY <2>2 DEF LegacyRuns
      <3>2. /\ [s \in Solvers |-> FALSE] \in Maps(Solvers)
            /\ [k \in Matrix |-> FALSE] \in Maps(Matrix)
        BY DEF Maps
      <3>3. Cardinality(Matrix) \in 0 .. Cardinality(Matrix)
        BY CountsAreNat
      <3>4. runs[r] \in RunRecords
        BY <3>1, <3>2, <3>3, AbsentIsARecord DEF RunRecords, Statuses
      <3> QED
        BY <3>1, <3>4 DEF Init, RunInv, Unopened, Open, Whole, Absent, Keys
    <2> QED BY <2>1, <2>2 DEF Init
  <1>2. CleanTree \in Trees
    BY DEF CleanTree, Trees
  <1>3. runs \in [RunIds -> RunRecords]
    BY <1>1 DEF Init, RunInv
  <1>4. reader \in Readers /\ WholeFacts(reader.options) /\ WholeFacts(reader.panels)
    BY DEF Init, Idle, Readers, WholeFacts
  <1> QED BY <1>1, <1>2, <1>3, <1>4 DEF Init, IInv

(* A step that writes one run keeps the invariant if the run keeps its own. *)
LEMMA OneRunChanges ==
    ASSUME IInv, NEW r \in RunIds, NEW run, Update(r, run),
           reader' = reader, clock' \in {clock, clock + 1},
           NEW t \in Trees, tree' = [tree EXCEPT ![r] = t],
           RunInv(run, t, clock')
    PROVE  IInv'
  <1>1. run \in RunRecords
    BY DEF RunInv
  <1>2. runs' \in [RunIds -> RunRecords] /\ tree' \in [RunIds -> Trees]
    BY <1>1 DEF IInv, Update
  <1>3. clock' \in Nat \ {0} /\ clock' >= clock
    BY DEF IInv
  <1>4. ASSUME NEW q \in RunIds PROVE RunInv(runs'[q], tree'[q], clock')
    <2>1. CASE q = r
      BY <2>1 DEF IInv, Update
    <2>2. CASE q # r
      <3>1. runs'[q] = runs[q] /\ tree'[q] = tree[q] /\ RunInv(runs[q], tree[q], clock)
        BY <2>2 DEF IInv, Update
      <3>2. runs[q].completedAt \in Nat /\ clock \in Nat /\ clock' \in Nat
        BY <1>3, <3>1 DEF RunInv, RunRecords, IInv
      <3>3. runs[q].completedAt < clock'
        BY <1>3, <3>1, <3>2 DEF RunInv
      <3> QED BY <3>1, <3>3 DEF RunInv
    <2> QED BY <2>1, <2>2
  <1> QED BY <1>2, <1>3, <1>4 DEF IInv

LEMMA OpenRunKeeps ==
    ASSUME IInv, NEW r \in RunIds, OpenRun(r) PROVE IInv'
  <1>1. PICK g \in Groups, t \in StartTrees :
          /\ tree' = [tree EXCEPT ![r] = t]
          /\ Update(r, [runs[r] EXCEPT
                !.status = "running", !.group = g,
                !.commit = worktree_provenance(t).commit,
                !.dirty = worktree_provenance(t).dirty,
                !.expectedCount = {Cardinality(Matrix)},
                !.expectedHash = {Matrix}])
    BY DEF OpenRun
  <1> DEFINE run == [runs[r] EXCEPT
                !.status = "running", !.group = g,
                !.commit = worktree_provenance(t).commit,
                !.dirty = worktree_provenance(t).dirty,
                !.expectedCount = {Cardinality(Matrix)},
                !.expectedHash = {Matrix}]
  <1>2. t \in Trees
    BY MatrixAssumption
  <1>3. /\ worktree_provenance(t).commit \in {"sha", Null}
        /\ worktree_provenance(t).dirty \in BOOLEAN
    BY <1>2 DEF worktree_provenance
  <1>4. RunInv(runs[r], tree[r], clock) /\ runs[r].status = "absent"
    BY DEF IInv, OpenRun
  <1>5. run \in RunRecords
    BY <1>3, <1>4 DEF RunInv, RunRecords, Statuses
  <1>6. /\ run.completedAt = runs[r].completedAt /\ run.status = "running"
        /\ run.rows = runs[r].rows /\ run.versions = runs[r].versions
        /\ run.entries = runs[r].entries
        /\ run.resultCount = runs[r].resultCount
        /\ run.commit = worktree_provenance(t).commit
        /\ run.dirty = worktree_provenance(t).dirty
        /\ run.expectedCount = {Cardinality(Matrix)}
        /\ run.expectedHash = {Matrix}
    BY <1>4 DEF RunInv, RunRecords
  <1> HIDE DEF run
  <1>7. Cardinality({}) = 0
    BY FS_EmptySet
  <1>8. RunInv(run, t, clock)
    BY <1>4, <1>5, <1>6, <1>7 DEF RunInv, Unopened, Open, Whole, Expecting,
       Provenance, Keys, VersionSolvers
  <1> QED BY <1>1, <1>2, <1>8, OneRunChanges DEF OpenRun, run

LEMMA InsertExpectedMatrixKeeps ==
    ASSUME IInv, NEW r \in RunIds, InsertExpectedMatrix(r) PROVE IInv'
  <1> DEFINE run == [runs[r] EXCEPT !.entries = Matrix]
  <1>1. /\ RunInv(runs[r], tree[r], clock) /\ runs[r].status = "running"
        /\ tree[r] \in Trees /\ tree' = [tree EXCEPT ![r] = tree[r]]
    BY DEF IInv, InsertExpectedMatrix
  <1>2. run \in RunRecords
    BY <1>1 DEF RunInv, RunRecords
  <1>3. RunInv(run, tree[r], clock)
    BY <1>1, <1>2 DEF RunInv, RunRecords, Unopened, Open, Whole, Expecting,
       Provenance, Keys, VersionSolvers
  <1> HIDE DEF run
  <1> QED BY <1>1, <1>3, OneRunChanges DEF InsertExpectedMatrix, run

LEMMA InsertSolverVersionKeeps ==
    ASSUME IInv, NEW r \in RunIds, InsertSolverVersion(r) PROVE IInv'
  <1>1. PICK s \in Solvers \ VersionSolvers(runs[r]), complete \in BOOLEAN :
          Update(r, [runs[r] EXCEPT !.versions =
                [x \in VersionSolvers(runs[r]) \cup {s} |->
                    IF x = s THEN complete ELSE runs[r].versions[x]]])
    BY DEF InsertSolverVersion
  <1> DEFINE now == [x \in VersionSolvers(runs[r]) \cup {s} |->
                        IF x = s THEN complete ELSE runs[r].versions[x]]
             run == [runs[r] EXCEPT !.versions = now]
  <1>2. /\ RunInv(runs[r], tree[r], clock) /\ runs[r].status = "running"
        /\ runs[r].entries = Matrix
        /\ tree[r] \in Trees /\ tree' = [tree EXCEPT ![r] = tree[r]]
    BY DEF IInv, InsertSolverVersion
  <1>3. now \in Maps(Solvers)
    <2>1. runs[r].versions \in Maps(Solvers)
      BY <1>2 DEF RunInv, RunRecords
    <2> QED BY <2>1, MapExtends DEF VersionSolvers
  <1> HIDE DEF now
  <1>4. /\ run \in RunRecords /\ run.completedAt = runs[r].completedAt
        /\ run.status = "running" /\ run.rows = runs[r].rows
        /\ run.entries = Matrix /\ run.resultCount = runs[r].resultCount
        /\ run.commit = runs[r].commit /\ run.dirty = runs[r].dirty
        /\ run.expectedCount = runs[r].expectedCount
        /\ run.expectedHash = runs[r].expectedHash
    BY <1>2, <1>3 DEF RunInv, RunRecords
  (* A version is missing, so there are no rows yet.                       *)
  <1>5. Keys(runs[r]) = {}
    BY <1>1, <1>2 DEF RunInv, Open
  <1>6. RunInv(run, tree[r], clock)
    BY <1>2, <1>4, <1>5 DEF RunInv, Unopened, Open, Whole, Expecting,
       Provenance, Keys
  <1> HIDE DEF run
  <1> QED BY <1>1, <1>2, <1>6, OneRunChanges DEF InsertSolverVersion, run, now

LEMMA WriteRowKeeps ==
    ASSUME IInv, NEW r \in RunIds, WriteRow(r) PROVE IInv'
  <1>1. PICK k \in Matrix \ Keys(runs[r]), fair \in BOOLEAN :
          Update(r, [runs[r] EXCEPT
                !.resultCount = @ + 1,
                !.rows = [x \in Keys(runs[r]) \cup {k} |->
                            IF x = k THEN fair ELSE runs[r].rows[x]]])
    BY DEF WriteRow
  <1> DEFINE now == [x \in Keys(runs[r]) \cup {k} |->
                        IF x = k THEN fair ELSE runs[r].rows[x]]
             run == [runs[r] EXCEPT !.resultCount = @ + 1, !.rows = now]
  <1>2. /\ RunInv(runs[r], tree[r], clock) /\ runs[r].status = "running"
        /\ VersionSolvers(runs[r]) = Solvers
        /\ tree[r] \in Trees /\ tree' = [tree EXCEPT ![r] = tree[r]]
    BY DEF IInv, WriteRow
  <1>3. now \in Maps(Matrix) /\ DOMAIN now = Keys(runs[r]) \cup {k}
    <2>1. runs[r].rows \in Maps(Matrix)
      BY <1>2 DEF RunInv, RunRecords
    <2>2. now \in Maps(Matrix)
      BY <2>1, MapExtends DEF Keys
    <2> QED BY <2>2
  <1>4. Keys(runs[r]) \in SUBSET Matrix
    BY <1>2, MapDomain DEF RunInv, RunRecords, Keys
  <1>5. /\ IsFiniteSet(Keys(runs[r])) /\ Cardinality(Keys(runs[r])) \in Nat
        /\ Cardinality(Keys(runs[r]) \cup {k}) <= Cardinality(Matrix)
        /\ Cardinality(Matrix) \in Nat
    BY <1>4, CountsAreNat
  <1>6. Cardinality(DOMAIN now) = Cardinality(Keys(runs[r])) + 1
    BY <1>1, <1>3, <1>5, FS_AddElement
  <1>7. runs[r].resultCount = Cardinality(Keys(runs[r]))
    BY <1>2 DEF RunInv, Open, Expecting
  <1>8. runs[r].resultCount + 1 \in 0 .. Cardinality(Matrix)
    BY <1>3, <1>5, <1>6, <1>7
  <1> HIDE DEF now
  <1>9. /\ run \in RunRecords /\ run.completedAt = runs[r].completedAt
        /\ run.status = "running" /\ run.versions = runs[r].versions
        /\ run.entries = runs[r].entries /\ run.rows = now
        /\ run.resultCount = runs[r].resultCount + 1
        /\ run.commit = runs[r].commit /\ run.dirty = runs[r].dirty
        /\ run.expectedCount = runs[r].expectedCount
        /\ run.expectedHash = runs[r].expectedHash
    BY <1>2, <1>3, <1>8 DEF RunInv, RunRecords
  <1> HIDE DEF run
  <1>10. RunInv(run, tree[r], clock)
    BY <1>2, <1>6, <1>7, <1>9 DEF RunInv, Unopened, Open, Whole, Expecting,
       Provenance, Keys, VersionSolvers
  <1> QED BY <1>1, <1>2, <1>10, OneRunChanges DEF WriteRow, run, now

LEMMA CompleteRunKeeps ==
    ASSUME IInv, NEW r \in RunIds, CompleteRun(r) PROVE IInv'
  <1> DEFINE run == [runs[r] EXCEPT !.status = "completed",
                        !.completedAt = clock, !.observedHash = {Matrix}]
  <1>1. /\ RunInv(runs[r], tree[r], clock) /\ runs[r].status = "running"
        /\ Keys(runs[r]) = Matrix /\ clock \in Nat /\ clock' = clock + 1
        /\ tree[r] \in Trees /\ tree' = [tree EXCEPT ![r] = tree[r]]
    BY DEF IInv, CompleteRun
  <1>2. {Matrix} \in SUBSET SUBSET Matrix
    OBVIOUS
  <1>3. /\ run \in RunRecords /\ run.completedAt = clock
        /\ run.status = "completed" /\ run.versions = runs[r].versions
        /\ run.entries = runs[r].entries /\ run.rows = runs[r].rows
        /\ run.resultCount = runs[r].resultCount
        /\ run.commit = runs[r].commit /\ run.dirty = runs[r].dirty
        /\ run.expectedCount = runs[r].expectedCount
        /\ run.expectedHash = runs[r].expectedHash
        /\ run.observedHash = {Matrix}
    BY <1>1, <1>2 DEF RunInv, RunRecords, Statuses
  <1> HIDE DEF run
  (* The rows are there, hence the versions, hence the entries.            *)
  <1>4. /\ VersionSolvers(runs[r]) = Solvers /\ runs[r].entries = Matrix
        /\ Expecting(runs[r], tree[r])
    BY <1>1, SolversOfMatrix DEF RunInv, Open
  <1>5. RunInv(run, tree[r], clock')
    BY <1>1, <1>3, <1>4 DEF RunInv, Unopened, Open, Whole, Expecting,
       Provenance, Keys, VersionSolvers
  <1> QED BY <1>1, <1>5, OneRunChanges DEF CompleteRun, run

LEMMA FailRunKeeps ==
    ASSUME IInv, NEW r \in RunIds, FailRun(r) PROVE IInv'
  <1>1. PICK seen \in SUBSET Keys(runs[r]) :
          Update(r, [runs[r] EXCEPT
                !.status = "failed", !.completedAt = clock,
                !.observedHash = {seen}, !.resultCount = Cardinality(seen)])
    BY DEF FailRun
  <1> DEFINE run == [runs[r] EXCEPT
                !.status = "failed", !.completedAt = clock,
                !.observedHash = {seen}, !.resultCount = Cardinality(seen)]
  <1>2. /\ RunInv(runs[r], tree[r], clock) /\ clock \in Nat
        /\ clock' = clock + 1
        /\ tree[r] \in Trees /\ tree' = [tree EXCEPT ![r] = tree[r]]
    BY DEF IInv, FailRun
  <1>3. seen \in SUBSET Matrix
    BY <1>2, MapDomain DEF RunInv, RunRecords, Keys
  <1>4. Cardinality(seen) \in 0 .. Cardinality(Matrix)
    BY <1>3, CountsAreNat
  <1>5. /\ run \in RunRecords /\ run.completedAt = clock
        /\ run.status = "failed"
    BY <1>2, <1>3, <1>4 DEF RunInv, RunRecords, Statuses
  <1> HIDE DEF run
  <1>6. RunInv(run, tree[r], clock')
    BY <1>2, <1>5 DEF RunInv, Unopened, Open, Whole
  <1> QED BY <1>1, <1>2, <1>6, OneRunChanges DEF FailRun, run

LEMMA RetractRunKeeps ==
    ASSUME IInv, NEW r \in RunIds, RetractRun(r) PROVE IInv'
  <1> DEFINE run == [Absent EXCEPT !.status = "retracted"]
  <1>1. /\ clock \in Nat \ {0}
        /\ tree[r] \in Trees /\ tree' = [tree EXCEPT ![r] = tree[r]]
    BY DEF IInv, RetractRun
  <1>2. run \in RunRecords
    BY AbsentIsARecord DEF RunRecords, Statuses
  <1>3. run.status = "retracted" /\ run.completedAt = 0
    BY DEF Absent
  <1> HIDE DEF run
  <1>4. RunInv(run, tree[r], clock)
    BY <1>1, <1>2, <1>3 DEF RunInv, Unopened, Open, Whole
  <1> QED BY <1>1, <1>4, OneRunChanges DEF RetractRun, run

(* The view of facts shows whole runs: those it shows are completed.       *)
LEMMA FactsAreWhole ==
    ASSUME IInv
    PROVE  LatestFacts \in SUBSET Facts /\ WholeFacts(LatestFacts)
  <1>1. \A r \in Latest(Completed) : r \in RunIds /\ Keys(runs[r]) = Matrix
    BY DEF Latest, Completed, IInv, RunInv, Whole
  <1>2. LatestFacts = {[run |-> r, key |-> k] : r \in Latest(Completed), k \in Matrix}
    BY <1>1 DEF LatestFacts
  <1> QED BY <1>1, <1>2 DEF Facts, WholeFacts

LEMMA ReaderKeeps ==
    ASSUME IInv, LoadOptions \/ LoadPanels \/ NextRequest PROVE IInv'
  <1>1. /\ reader' \in Readers
        /\ WholeFacts(reader'.options) /\ WholeFacts(reader'.panels)
    <2>1. CASE LoadOptions
      BY <2>1, FactsAreWhole DEF LoadOptions, Readers, WholeFacts
    <2>2. CASE LoadPanels
      <3>1. reader' = [reader EXCEPT !.phase = "rendered", !.panels = LatestFacts]
        BY <2>2 DEF LoadPanels
      <3>2. reader \in Readers /\ WholeFacts(reader.options)
        BY DEF IInv
      <3>3. /\ reader' \in Readers /\ reader'.options = reader.options
            /\ reader'.panels = LatestFacts
        BY <3>1, <3>2, FactsAreWhole DEF Readers
      <3> QED BY <3>2, <3>3, FactsAreWhole
    <2>3. CASE NextRequest
      BY <2>3 DEF NextRequest, Idle, Readers, WholeFacts
    <2> QED BY <2>1, <2>2, <2>3
  <1>2. UNCHANGED <<runs, tree, clock>>
    BY DEF LoadOptions, LoadPanels, NextRequest
  <1> QED BY <1>1, <1>2 DEF IInv

LEMMA NextKeeps == IInv /\ [Next]_vars => IInv'
  <1> SUFFICES ASSUME IInv, [Next]_vars PROVE IInv'
    OBVIOUS
  <1>1. CASE UNCHANGED vars
    BY <1>1 DEF vars, IInv
  <1>2. ASSUME NEW r \in RunIds,
               \/ OpenRun(r) \/ InsertExpectedMatrix(r) \/ InsertSolverVersion(r)
               \/ WriteRow(r) \/ CompleteRun(r) \/ FailRun(r) \/ RetractRun(r)
        PROVE  IInv'
    BY <1>2, OpenRunKeeps, InsertExpectedMatrixKeeps, InsertSolverVersionKeeps,
       WriteRowKeeps, CompleteRunKeeps, FailRunKeeps, RetractRunKeeps
  <1> QED BY <1>1, <1>2, ReaderKeeps DEF Next

THEOREM WarehouseInvariant == Spec => []IInv
  <1> QED BY InitHolds, NextKeeps, PTL DEF Spec

-----------------------------------------------------------------------------
(* The theorems. *)

(* The tables hold what their columns may hold, and the gate always has    *)
(* one of SQL's three answers.                                             *)
THEOREM TypeCorrect == Spec => []TypeInv
  <1>1. IInv => TypeInv
    <2> SUFFICES ASSUME IInv PROVE TypeInv
      OBVIOUS
    <2>1. ASSUME NEW r \in RunIds
          PROVE  /\ runs[r].status \in Statuses /\ runs[r].entries \in {{}, Matrix}
                 /\ Keys(runs[r]) \subseteq Matrix
                 /\ VersionSolvers(runs[r]) \subseteq Solvers
                 /\ runs[r].resultCount \in 0 .. Cardinality(Matrix)
                 /\ runs[r].completedAt \in 0 .. clock - 1
                 /\ PublicationReady(runs[r]) \in {"true", "false", Null}
      <3>1. /\ runs[r] \in RunRecords /\ runs[r].completedAt < clock
            /\ clock \in Nat
        BY DEF IInv, RunInv
      <3>2. /\ runs[r].rows \in Maps(Matrix) /\ runs[r].versions \in Maps(Solvers)
            /\ runs[r].completedAt \in Nat
            /\ runs[r].commit \in {"sha", Null} /\ runs[r].dirty \in BOOLEAN
            /\ runs[r].status \in Statuses /\ runs[r].entries \in {{}, Matrix}
            /\ runs[r].resultCount \in 0 .. Cardinality(Matrix)
        BY <3>1 DEF RunRecords
      <3>3. runs[r].completedAt \in 0 .. clock - 1
        BY <3>1, <3>2
      <3>4. /\ Keys(runs[r]) \subseteq Matrix
            /\ VersionSolvers(runs[r]) \subseteq Solvers
        BY <3>2, MapDomain DEF Keys, VersionSolvers
      <3> QED BY <3>2, <3>3, <3>4, ReadyMeans
    <2> QED BY <2>1 DEF TypeInv, IInv, Readers, Statuses
  <1> QED BY <1>1, WarehouseInvariant, PTL

(* What a published run is, by the invariant: whole, with everything it    *)
(* expected, and with the provenance of its tree.                          *)
LEMMA PublishedIsWhole ==
    ASSUME IInv, NEW r \in Publishable
    PROVE  /\ r \in RunIds /\ runs[r].status = "completed"
           /\ Keys(runs[r]) = Matrix /\ runs[r].entries = Matrix
           /\ VersionSolvers(runs[r]) = Solvers
           /\ AllFair(runs[r]) /\ ProvenanceValid(runs[r])
           /\ Provenance(runs[r], tree[r])
           /\ runs[r].commit # Null /\ ~ runs[r].dirty
  <1>1. /\ r \in RunIds /\ PublicationReady(runs[r]) = "true"
        /\ runs[r].dirty \in BOOLEAN /\ runs[r].commit \in {"sha", Null}
        /\ RunInv(runs[r], tree[r], clock)
    BY DEF Publishable, IInv, RunInv, RunRecords
  <1>2. /\ runs[r].status = "completed" /\ runs[r].commit # Null
        /\ ~ runs[r].dirty /\ runs[r].expectedCount # {}
        /\ AllFair(runs[r]) /\ ProvenanceValid(runs[r])
    BY <1>1, ReadyMeans
  <1> QED BY <1>1, <1>2 DEF RunInv, Whole, Expecting

(* The gate admits what the README says it admits, whatever the writers,   *)
(* the handlers and the migrations did.                                    *)
THEOREM PublishedAttested == Spec => []PublishedIsAttested
  <1>1. IInv => PublishedIsAttested
    <2> SUFFICES ASSUME IInv, NEW r \in Publishable
                 PROVE  /\ runs[r].status = "completed"
                        /\ Keys(runs[r]) = Matrix /\ runs[r].entries = Matrix
                        /\ \A k \in Matrix : runs[r].rows[k]
                        /\ DOMAIN runs[r].versions = Solvers
                        /\ \A s \in Solvers : runs[r].versions[s]
                        /\ TreeIsItsCommit(Reported(tree[r]))
      BY DEF PublishedIsAttested
    <2>1. tree[r] \in Trees
      BY PublishedIsWhole DEF IInv
    <2>2. /\ tree[r].repository
          /\ ~ (/\ tree[r].repository /\ tree[r].statusWorks
                /\ tree[r].listed \cap CountsAsDirty # {})
      BY PublishedIsWhole DEF Provenance, worktree_provenance
    <2>3. TreeIsItsCommit(Reported(tree[r]))
      BY <2>1, <2>2 DEF Reported, TreeIsItsCommit, CountsAsDirty, Trees, ListedKinds
    <2> QED
      BY <2>3, PublishedIsWhole DEF AllFair, ProvenanceValid, VersionSolvers
  <1> QED BY <1>1, WarehouseInvariant, PTL

(* Who can write a completed run, and who makes one: a step leaves it as   *)
(* it is or retracts it, and a run it completes is younger than all.       *)
LEMMA CompletedMoves ==
    ASSUME IInv, [Next]_vars, NEW r \in RunIds
    PROVE  /\ runs[r].status = "completed" =>
                 runs'[r] = runs[r] \/ runs'[r].status = "retracted"
           /\ runs'[r].status = "completed" =>
                 \/ runs'[r] = runs[r]
                 \/ /\ runs'[r].completedAt = clock
                    /\ \A q \in RunIds \ {r} : runs'[q] = runs[q]
  <1>1. runs \in [RunIds -> RunRecords]
    BY DEF IInv
  <1>2. CASE runs' = runs
    BY <1>2
  <1>3. ASSUME NEW q \in RunIds, NEW run, Update(q, run)
        PROVE  runs'[q] = run /\ \A p \in RunIds \ {q} : runs'[p] = runs[p]
    BY <1>1, <1>3 DEF Update
  <1>4. ASSUME NEW q \in RunIds,
               OpenRun(q) \/ InsertExpectedMatrix(q) \/ InsertSolverVersion(q)
                 \/ WriteRow(q) \/ FailRun(q) \/ RetractRun(q)
        PROVE  /\ runs'[q].status \in {"running", "failed", "retracted"}
               /\ runs'[q].status # "retracted" => runs[q].status # "completed"
               /\ \A p \in RunIds \ {q} : runs'[p] = runs[p]
    <2>1. runs[q] \in RunRecords
      BY <1>1
    <2>2. CASE OpenRun(q)
      BY <2>1, <2>2, <1>1 DEF OpenRun, Update, RunRecords
    <2>3. CASE InsertExpectedMatrix(q)
      BY <2>1, <2>3, <1>1 DEF InsertExpectedMatrix, Update, RunRecords
    <2>4. CASE InsertSolverVersion(q)
      BY <2>1, <2>4, <1>1 DEF InsertSolverVersion, Update, RunRecords
    <2>5. CASE WriteRow(q)
      BY <2>1, <2>5, <1>1 DEF WriteRow, Update, RunRecords
    <2>6. CASE FailRun(q)
      BY <2>1, <2>6, <1>1 DEF FailRun, Update, RunRecords
    <2>7. CASE RetractRun(q)
      BY <2>7, <1>3 DEF RetractRun, Absent
    <2> QED BY <1>4, <2>2, <2>3, <2>4, <2>5, <2>6, <2>7
  <1>5. ASSUME NEW q \in RunIds, CompleteRun(q)
        PROVE  /\ runs[q].status = "running" /\ runs'[q].completedAt = clock
               /\ \A p \in RunIds \ {q} : runs'[p] = runs[p]
    <2>1. runs[q] \in RunRecords
      BY <1>1
    <2> QED BY <2>1, <1>1, <1>5 DEF CompleteRun, Update, RunRecords
  <1>6. \/ runs' = runs
        \/ \E q \in RunIds :
              OpenRun(q) \/ InsertExpectedMatrix(q) \/ InsertSolverVersion(q)
                \/ WriteRow(q) \/ FailRun(q) \/ RetractRun(q)
        \/ \E q \in RunIds : CompleteRun(q)
    BY DEF Next, vars, LoadOptions, LoadPanels, NextRequest
  <1>7. CASE \E q \in RunIds :
               OpenRun(q) \/ InsertExpectedMatrix(q) \/ InsertSolverVersion(q)
                 \/ WriteRow(q) \/ FailRun(q) \/ RetractRun(q)
    <2>1. PICK q \in RunIds :
               OpenRun(q) \/ InsertExpectedMatrix(q) \/ InsertSolverVersion(q)
                 \/ WriteRow(q) \/ FailRun(q) \/ RetractRun(q)
      BY <1>7
    <2>2. /\ runs'[q].status \in {"running", "failed", "retracted"}
          /\ runs'[q].status # "retracted" => runs[q].status # "completed"
          /\ \A p \in RunIds \ {q} : runs'[p] = runs[p]
      BY <1>4, <2>1
    <2> QED BY <2>2
  <1>8. CASE \E q \in RunIds : CompleteRun(q)
    BY <1>5, <1>8
  <1> QED BY <1>2, <1>6, <1>7, <1>8

(* A retracted run is not written again.                                   *)
LEMMA RetractedStays ==
    ASSUME IInv, [Next]_vars, NEW r \in RunIds, Withdrawn(r)
    PROVE  Withdrawn(r)'
  <1>1. runs \in [RunIds -> RunRecords]
    BY DEF IInv
  <1>2. CASE runs' = runs
    BY <1>2 DEF Withdrawn
  <1>3. ASSUME NEW q \in RunIds, runs[q].status \in {"absent", "running"},
               NEW run, Update(q, run)
        PROVE  Withdrawn(r)'
    BY <1>1, <1>3 DEF Update, Withdrawn
  <1>4. ASSUME NEW q \in RunIds, RetractRun(q) PROVE Withdrawn(r)'
    <2>1. [Absent EXCEPT !.status = "retracted"].status = "retracted"
      BY DEF Absent
    <2> QED BY <1>1, <1>4, <2>1 DEF RetractRun, Update, Withdrawn
  <1>5. \/ runs' = runs
        \/ \E q \in RunIds : RetractRun(q)
        \/ \E q \in RunIds : /\ runs[q].status \in {"absent", "running"}
                             /\ \E run : Update(q, run)
    BY DEF Next, vars, LoadOptions, LoadPanels, NextRequest, OpenRun,
       InsertExpectedMatrix, InsertSolverVersion, WriteRow, CompleteRun, FailRun
  <1> QED BY <1>2, <1>3, <1>4, <1>5

(* Among completed runs of its group, each run has a latest one.           *)
LEMMA LatestOfGroup ==
    ASSUME IInv, NEW r \in Completed
    PROVE  r \in Latest(Completed) \/ \E q \in Latest(Completed) : Replaces(q, r)
  <1> DEFINE G == {q \in Completed : runs[q].group = runs[r].group}
             T == {clock - runs[q].completedAt : q \in G}
  <1>1. \A q \in RunIds : /\ runs[q].completedAt \in Nat /\ clock \in Nat
                          /\ runs[q].completedAt < clock
    BY DEF IInv, RunInv, RunRecords
  <1>2. \A q \in G : q \in RunIds
    BY DEF Completed
  <1>3. T \subseteq Nat /\ T # {}
    <2>1. r \in G
      OBVIOUS
    <2>2. \A q \in G : clock - runs[q].completedAt \in Nat
      BY <1>1, <1>2
    <2> QED BY <2>1, <2>2
  <1>4. PICK m \in T : \A k \in T : m <= k
    <2> HIDE DEF T
    <2> QED BY <1>3, LeastNatural
  <1>5. PICK q \in G : m = clock - runs[q].completedAt
    BY <1>4
  <1>6. ASSUME NEW p \in G PROVE runs[p].completedAt <= runs[q].completedAt
    <2>1. clock - runs[q].completedAt <= clock - runs[p].completedAt
      BY <1>4, <1>5
    <2> QED BY <2>1, <1>1, <1>2
  <1>7. q \in Latest(Completed)
    BY <1>5, <1>6 DEF Latest
  <1>8. CASE runs[q].completedAt > runs[r].completedAt
    BY <1>5, <1>7, <1>8 DEF Replaces
  <1>9. CASE ~ (runs[q].completedAt > runs[r].completedAt)
    <2>1. runs[q].completedAt <= runs[r].completedAt
      BY <1>1, <1>2, <1>9 DEF Completed
    <2>2. ASSUME NEW p \in Completed, runs[p].group = runs[r].group
          PROVE  runs[p].completedAt <= runs[r].completedAt
      <3>1. p \in G
        BY <2>2
      <3>2. runs[p].completedAt <= runs[q].completedAt
        BY <3>1, <1>6
      <3> QED BY <2>1, <3>1, <3>2, <1>1, <1>2 DEF Completed
    <2>3. r \in Latest(Completed)
      BY <2>2 DEF Latest
    <2> QED BY <2>3
  <1> QED BY <1>8, <1>9

(* The runs a request has read facts of are completed still, or gone.      *)
Held(facts) ==
    \A f \in facts : runs[f.run].status = "completed" \/ Withdrawn(f.run)
(* What became of a choice in the panels.                                  *)
Shown(f, facts) ==
    \/ Withdrawn(f.run)
    \/ \E g \in facts :
          /\ g.key = f.key
          /\ g.run = f.run \/ Replaces(g.run, f.run) \/ Withdrawn(g.run)

ChoicesInv ==
    /\ Held(reader.options) /\ Held(reader.panels)
    /\ reader.phase = "rendered" =>
          \A f \in reader.options : Shown(f, reader.panels)

LEMMA ChoicesKept ==
    ASSUME IInv, ChoicesInv, [Next]_vars
    PROVE  ChoicesInv'
  <1>1. /\ reader \in Readers
        /\ \A f \in reader.options \cup reader.panels :
              f \in Facts /\ f.run \in RunIds /\ f.key \in Matrix
    BY DEF IInv, Readers, Facts
  <1>2. LatestFacts \subseteq Facts /\ Held(LatestFacts)
    <2>1. LatestFacts \subseteq Facts
      BY FactsAreWhole
    <2>2. \A f \in LatestFacts : f.run \in Completed
      BY DEF LatestFacts, Latest
    <2> QED BY <2>1, <2>2 DEF Held, Completed
  <1>3. CASE reader' = reader
    <2>1. ASSUME NEW q \in RunIds, runs[q].status = "completed" \/ Withdrawn(q)
          PROVE  \/ runs[q].status = "completed" /\ runs'[q] = runs[q]
                 \/ Withdrawn(q)'
      BY <2>1, CompletedMoves, RetractedStays DEF Withdrawn
    <2>2. ASSUME NEW facts \in {reader.options, reader.panels}
          PROVE  \A f \in facts :
                    \/ runs[f.run].status = "completed" /\ runs'[f.run] = runs[f.run]
                    \/ Withdrawn(f.run)'
      BY <1>1, <2>1 DEF ChoicesInv, Held
    <2>3. Held(reader.options)' /\ Held(reader.panels)'
      BY <1>3, <2>2 DEF Held
    <2>4. ASSUME NEW f \in reader.options, Shown(f, reader.panels)
          PROVE  Shown(f, reader.panels)'
      <3>1. CASE Withdrawn(f.run)
        BY <1>1, <3>1, RetractedStays DEF Shown
      <3>2. ASSUME NEW g \in reader.panels, g.key = f.key,
                   g.run = f.run \/ Replaces(g.run, f.run) \/ Withdrawn(g.run)
            PROVE  Shown(f, reader.panels)'
        <4>1. CASE Withdrawn(g.run)
          BY <1>1, <1>3, <3>2, <4>1, RetractedStays DEF Shown
        <4>2. CASE g.run = f.run
          BY <1>3, <3>2, <4>2 DEF Shown
        <4>3. CASE Replaces(g.run, f.run)
          <5>1. CASE Withdrawn(f.run)' \/ Withdrawn(g.run)'
            BY <1>3, <3>2, <5>1 DEF Shown
          <5>2. CASE runs'[f.run] = runs[f.run] /\ runs'[g.run] = runs[g.run]
            BY <1>3, <3>2, <4>3, <5>2 DEF Shown, Replaces
          <5> QED BY <2>2, <5>1, <5>2
        <4> QED BY <3>2, <4>1, <4>2, <4>3
      <3> QED BY <2>4, <3>1, <3>2 DEF Shown
    <2> QED BY <1>3, <2>3, <2>4 DEF ChoicesInv
  <1>4. CASE LoadOptions
    <2>1. /\ reader'.options = LatestFacts /\ reader'.panels = {}
          /\ reader'.phase = "options" /\ runs' = runs
      BY <1>4 DEF LoadOptions
    <2> QED BY <1>2, <2>1 DEF ChoicesInv, Held, Withdrawn
  <1>5. CASE LoadPanels
    <2>1. /\ reader'.options = reader.options /\ reader'.panels = LatestFacts
          /\ runs' = runs
      BY <1>1, <1>5 DEF LoadPanels, Readers
    <2>2. ASSUME NEW f \in reader.options PROVE Shown(f, LatestFacts)
      <3>1. CASE Withdrawn(f.run)
        BY <3>1 DEF Shown
      <3>2. CASE runs[f.run].status = "completed"
        <4>1. f.run \in Completed
          BY <1>1, <3>2 DEF Completed
        <4>2. PICK q \in Latest(Completed) : q = f.run \/ Replaces(q, f.run)
          BY <4>1, LatestOfGroup
        <4>3. Keys(runs[q]) = Matrix
          BY <4>2 DEF Latest, Completed, IInv, RunInv, Whole
        <4>4. [run |-> q, key |-> f.key] \in LatestFacts
          BY <1>1, <4>2, <4>3 DEF LatestFacts
        <4> QED BY <4>2, <4>4 DEF Shown
      <3> QED BY <3>1, <3>2 DEF ChoicesInv, Held
    <2>3. Held(reader.options)' /\ Held(reader.panels)'
      BY <1>2, <2>1 DEF ChoicesInv, Held, Withdrawn
    <2>4. \A f \in reader'.options : Shown(f, reader.panels)'
      BY <2>1, <2>2 DEF Shown, Withdrawn, Replaces
    <2> QED BY <2>3, <2>4 DEF ChoicesInv
  <1>6. CASE NextRequest
    BY <1>6 DEF NextRequest, Idle, ChoicesInv, Held
  <1>7. \/ reader' = reader \/ LoadOptions \/ LoadPanels \/ NextRequest
    BY DEF Next, vars, OpenRun, InsertExpectedMatrix, InsertSolverVersion,
       WriteRow, CompleteRun, FailRun, RetractRun
  <1> QED BY <1>3, <1>4, <1>5, <1>6, <1>7

(* Every query of the dashboard sees whole runs, however long ago its      *)
(* options were read; and a choice those options offer is shown by the     *)
(* panels, in its run or in a later one, unless a run was retracted.       *)
THEOREM QueriesWhole == Spec => []QueriesSeeWholeRuns
  <1>1. IInv /\ ChoicesInv => QueriesSeeWholeRuns
    <2> SUFFICES ASSUME IInv, NEW facts \in {reader.options, reader.panels},
                        NEW f \in facts
                 PROVE  {g.key : g \in {h \in facts : h.run = f.run}} = Matrix
      BY DEF QueriesSeeWholeRuns, ChoicesInv, Shown
    <2>1. facts \subseteq Facts /\ WholeFacts(facts)
      BY DEF IInv, Readers
    <2>2. \A g \in facts : g.key \in Matrix
      BY <2>1 DEF Facts
    <2>3. ASSUME NEW k \in Matrix
          PROVE  \E g \in facts : g.run = f.run /\ g.key = k
      <3>1. [run |-> f.run, key |-> k] \in facts
        BY <2>1 DEF WholeFacts
      <3> QED BY <3>1
    <2> QED BY <2>2, <2>3
  <1>2. Init => ChoicesInv
    BY DEF Init, Idle, ChoicesInv, Held
  <1>3. IInv /\ ChoicesInv /\ [Next]_vars => ChoicesInv'
    BY ChoicesKept
  <1> QED BY <1>1, <1>2, <1>3, WarehouseInvariant, PTL DEF Spec

(* The public history moves forward: what is published stays, or is        *)
(* retracted whole, and a latest run gives way to a younger one only.      *)
THEOREM MovesForward == Spec => PublicMovesForward
  <1> DEFINE Forward(r) ==
          \/ runs'[r].status = "retracted"
          \/ /\ runs'[r] = runs[r]
             /\ r \in Latest(Publishable) =>
                    \/ r \in Latest(Publishable)'
                    \/ \E q \in Latest(Publishable)' :
                          /\ runs'[q].group = runs[r].group
                          /\ runs'[q].completedAt > runs[r].completedAt
  <1>1. ASSUME IInv, [Next]_vars, NEW r \in Publishable PROVE Forward(r)
    <2>1. r \in RunIds /\ runs[r].status = "completed"
      BY <1>1, PublishedIsWhole
    <2>2. SUFFICES ASSUME runs'[r] = runs[r], r \in Latest(Publishable),
                          r \notin Latest(Publishable)'
                   PROVE  \E q \in Latest(Publishable)' :
                             /\ runs'[q].group = runs[r].group
                             /\ runs'[q].completedAt > runs[r].completedAt
      BY <1>1, <2>1, CompletedMoves
    <2>3. r \in Publishable'
      BY <2>1, <2>2 DEF Publishable
    (* Somebody of the group is not older now ... *)
    <2>4. PICK q \in Publishable' :
            /\ runs'[q].group = runs'[r].group
            /\ ~ (runs'[q].completedAt <= runs'[r].completedAt)
      BY <2>2, <2>3 DEF Latest
    <2>5. IInv'
      BY <1>1, NextKeeps
    <2>6. q \in RunIds /\ runs'[q].status = "completed"
      <3>1. /\ q \in RunIds /\ PublicationReady(runs[q])' = "true"
            /\ runs'[q] \in RunRecords
        BY <2>5 DEF Publishable, IInv
      <3>2. runs'[q].dirty \in BOOLEAN /\ runs'[q].commit \in {"sha", Null}
        BY <3>1 DEF RunRecords
      <3>3. PublicationReady(runs'[q]) = "true"
        BY <3>1
      <3> QED BY <3>1, <3>2, <3>3, ReadyMeans
    (* ... and was not public before: it is the run this step completed.   *)
    <2>7. runs'[q] # runs[q]
      <3>1. SUFFICES ASSUME runs'[q] = runs[q] PROVE FALSE
        OBVIOUS
      <3>2. q \in Publishable
        BY <2>6, <3>1 DEF Publishable
      <3> QED BY <2>2, <2>4, <3>1, <3>2 DEF Latest
    <2>8. /\ runs'[q].completedAt = clock
          /\ \A p \in RunIds \ {q} : runs'[p] = runs[p]
      BY <1>1, <2>6, <2>7, CompletedMoves
    <2>9. \A p \in RunIds : runs'[p].completedAt <= runs'[q].completedAt
      <3>1. \A p \in RunIds : /\ runs[p].completedAt \in Nat
                              /\ runs[p].completedAt < clock
        BY <1>1 DEF IInv, RunInv, RunRecords
      <3>2. clock \in Nat
        BY <1>1 DEF IInv
      <3> QED BY <2>8, <3>1, <3>2
    <2>10. q \in Latest(Publishable)'
      BY <2>9 DEF Latest, Publishable
    <2>11. runs'[q].completedAt > runs[r].completedAt
      BY <1>1, <2>1, <2>2, <2>7, <2>8 DEF IInv, RunInv, RunRecords
    <2> QED BY <2>2, <2>4, <2>10, <2>11
  <1>2. IInv /\ [Next]_vars => [\A r \in Publishable : Forward(r)]_vars
    BY <1>1
  <1> QED BY <1>2, WarehouseInvariant, PTL DEF Spec, PublicMovesForward

(* No reason is given exactly when no condition is known to fail.          *)
LEMMA NoReasonMeans ==
    ASSUME NEW run
    PROVE  PublicationFailures(run) = {} <=>
              /\ run.status = "completed" /\ ~ run.dirty
              /\ run.expectedCount # {} /\ MatrixIsExact(run)
              /\ run.observedHash = run.expectedHash
              /\ CatalogMatchesConfig(run) /\ AllFair(run)
              /\ VersionSolvers(run) = run.solvers /\ ProvenanceValid(run)
  <1>1. CommitValid(run) # "false"
    BY DEF CommitValid, Null
  <1> QED BY <1>1, Zenon DEF PublicationFailures

(* The reasons are the verdict, for every run in the tables.               *)
THEOREM RejectionsExplained == Spec => []RejectedIsExplained
  <1>1. ASSUME IInv, NEW r \in Stored
        PROVE  /\ r \in Publishable <=>
                     PublicationFailures(runs[r]) = {} /\ tree[r].repository
               /\ Sound(r) => r \in Publishable
    <2>1. /\ r \in RunIds /\ RunInv(runs[r], tree[r], clock)
          /\ runs[r].dirty \in BOOLEAN /\ runs[r].commit \in {"sha", Null}
          /\ runs[r].solvers = Solvers /\ runs[r].limits = Limits
          /\ tree[r] \in Trees
      BY <1>1 DEF Stored, IInv, RunInv, RunRecords
    <2>2. r \in Publishable <=> PublicationReady(runs[r]) = "true"
      BY <2>1 DEF Publishable
    <2>3. CASE runs[r].status # "completed" \/ runs[r].expectedCount = {}
      BY <2>1, <2>2, <2>3, ReadyMeans, NoReasonMeans DEF Sound
    <2>4. CASE runs[r].status = "completed" /\ runs[r].expectedCount # {}
      <3>1. /\ Keys(runs[r]) = Matrix /\ runs[r].entries = Matrix
            /\ Expecting(runs[r], tree[r]) /\ runs[r].observedHash = {Matrix}
            /\ VersionSolvers(runs[r]) = Solvers
        BY <2>1, <2>4 DEF RunInv, Whole
      <3>2. /\ runs[r].expectedHash = {Matrix}
            /\ runs[r].commit # Null <=> tree[r].repository
            /\ runs[r].dirty <=>
                  /\ tree[r].repository /\ tree[r].statusWorks
                  /\ tree[r].listed \cap CountsAsDirty # {}
        BY <3>1 DEF Expecting, Provenance, worktree_provenance, Null
      <3>3. runs[r].expectedHash # {} /\ runs[r].observedHash # {}
        BY <3>1, <3>2
      <3>4. r \in Publishable <=>
                PublicationFailures(runs[r]) = {} /\ tree[r].repository
        BY <2>1, <2>2, <2>4, <3>2, <3>3, ReadyMeans, NoReasonMeans
      <3>5. ASSUME Sound(r) PROVE r \in Publishable
        <4>1. /\ TreeIsItsCommit(tree[r])
              /\ \A k \in Keys(runs[r]) : runs[r].rows[k]
              /\ \A s \in Solvers : runs[r].versions[s]
          BY <3>5 DEF Sound
        <4>2. tree[r].repository /\ ~ runs[r].dirty
          BY <3>2, <4>1 DEF TreeIsItsCommit, CountsAsDirty
        <4>3. MatrixIsExact(runs[r])
          BY <3>1 DEF MatrixIsExact, Expecting
        <4>4. CatalogMatchesConfig(runs[r])
          BY <2>1, <3>1 DEF CatalogMatchesConfig, Solvers, Limits
        <4>5. AllFair(runs[r]) /\ ProvenanceValid(runs[r])
          BY <3>1, <4>1, SolversOfMatrix DEF AllFair, ProvenanceValid
        <4>6. PublicationFailures(runs[r]) = {}
          BY <2>1, <2>4, <3>1, <3>2, <4>2, <4>3, <4>4, <4>5, NoReasonMeans
        <4> QED BY <3>4, <4>2, <4>6
      <3> QED BY <3>4, <3>5
    <2> QED BY <2>3, <2>4
  <1>2. IInv => RejectedIsExplained
    BY <1>1 DEF RejectedIsExplained
  <1> QED BY <1>2, WarehouseInvariant, PTL
=============================================================================
