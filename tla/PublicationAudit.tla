-------------------------- MODULE PublicationAudit ---------------------------
(***************************************************************************)
(* The publication gate: the view benchmark_run_publication_audit of       *)
(* migrations/20260718000000_add_publication_integrity.sql, in SQL's       *)
(* three-valued logic, and the source-tree provenance it judges            *)
(* (worktree_provenance in src/src/solverforge_bench/postgres.py).         *)
(*                                                                         *)
(* A run is a record of its columns and of its rows in the other tables.   *)
(* A nullable number or digest is a set: empty for NULL, else a singleton. *)
(***************************************************************************)
EXTENDS Naturals, FiniteSets

(* SQL truth values: true, false and unknown. *)
Null == "null"
Truth(b) == IF b THEN "true" ELSE "false"
All(values) ==
    IF "false" \in values THEN "false"
    ELSE IF Null \in values THEN Null ELSE "true"

-----------------------------------------------------------------------------
(* The work tree a run is started from: whether it is a repository,        *)
(* whether "git status" succeeds, and what it lists.  git quotes a path    *)
(* with a space or a non-ASCII letter, and the quote hides its root.       *)

ListedKinds == {"tracked", "untrackedSource", "untrackedQuotedSource",
                "untrackedElsewhere"}
Trees == [repository : BOOLEAN, statusWorks : BOOLEAN,
          listed : SUBSET ListedKinds]

CountsAsDirty == {"tracked", "untrackedSource"}

worktree_provenance(tree) ==
    [commit |-> IF tree.repository THEN "sha" ELSE Null,
     dirty  |-> /\ tree.repository /\ tree.statusWorks
                /\ tree.listed \cap CountsAsDirty # {}]

(* What the recorded commit claims: the harness is that commit. *)
TreeIsItsCommit(tree) ==
    tree.repository /\ tree.listed \subseteq {"untrackedElsewhere"}

(* The tree as the harness gets to see it: nothing when "git status" fails, *)
(* and not the sources whose names git quotes.                             *)
Reported(tree) ==
    [tree EXCEPT !.listed = IF tree.statusWorks
                            THEN tree.listed \ {"untrackedQuotedSource"} ELSE {}]

-----------------------------------------------------------------------------
Keys(run) == DOMAIN run.rows
VersionSolvers(run) == DOMAIN run.versions

(* The counts, the catalogue and the left joins of missing and unexpected  *)
(* rows; each is unknown for a run without an expected count.              *)
MatrixIsExact(run) ==
    /\ run.expectedCount = {Cardinality(run.entries)}
    /\ run.expectedCount = {Cardinality(Keys(run))}
    /\ run.expectedCount = {run.resultCount}
    /\ run.entries = Keys(run)

CatalogMatchesConfig(run) ==
    /\ {k.solver : k \in run.entries} = run.solvers
    /\ {k.limit : k \in run.entries} = run.limits

(* BOOL_AND over no rows is NULL, which COALESCE makes false. *)
AllFair(run) ==
    Keys(run) # {} /\ \A k \in Keys(run) : run.rows[k]

ProvenanceValid(run) ==
    VersionSolvers(run) # {}
        /\ \A s \in VersionSolvers(run) : run.versions[s]

HashesAgree(run) ==
    IF {} \in {run.expectedHash, run.observedHash} THEN Null
    ELSE Truth(run.observedHash = run.expectedHash)

CommitValid(run) == IF run.commit = Null THEN Null ELSE "true"

(* Mutant: fairness is left out of the conjunction. *)
PublicationReadyWithoutFairness(run) ==
    All({Truth(run.status = "completed"), CommitValid(run),
         Truth(~run.dirty),
         IF run.expectedCount = {} THEN Null ELSE Truth(MatrixIsExact(run)),
         HashesAgree(run), Truth(CatalogMatchesConfig(run)),
         Truth(VersionSolvers(run) = run.solvers),
         Truth(ProvenanceValid(run))})

PublicationReady(run) ==
    All({Truth(run.status = "completed"), CommitValid(run),
         Truth(~run.dirty),
         IF run.expectedCount = {} THEN Null ELSE Truth(MatrixIsExact(run)),
         HashesAgree(run), Truth(CatalogMatchesConfig(run)),
         Truth(AllFair(run)), Truth(VersionSolvers(run) = run.solvers),
         Truth(ProvenanceValid(run))})

(* Mutant: a dirty tree is rejected without a reason. *)
PublicationFailuresWithoutDirty(run) ==
    (IF run.status # "completed" THEN {"run_not_completed"} ELSE {})
    \cup (IF CommitValid(run) = "false" THEN {"git_commit_invalid"} ELSE {})
    \cup (IF run.expectedCount = {} THEN {"expected_matrix_missing"}
          ELSE {})
    \cup (IF MatrixIsExact(run) THEN {} ELSE {"result_matrix_incomplete"})
    \cup (IF run.observedHash # run.expectedHash
          THEN {"observed_matrix_hash_mismatch"} ELSE {})
    \cup (IF CatalogMatchesConfig(run) THEN {} ELSE {"matrix_config_mismatch"})
    \cup (IF AllFair(run) THEN {} ELSE {"fair_start_invalid"})
    \cup (IF VersionSolvers(run) = run.solvers /\ ProvenanceValid(run) THEN {}
          ELSE {"solver_provenance_incomplete"})

(* CASE WHEN NOT x THEN reason END: no reason when x is unknown.           *)
PublicationFailures(run) ==
    (IF run.status # "completed" THEN {"run_not_completed"} ELSE {})
    \cup (IF CommitValid(run) = "false" THEN {"git_commit_invalid"} ELSE {})
    \cup (IF run.dirty THEN {"git_tree_dirty"} ELSE {})
    \cup (IF run.expectedCount = {} THEN {"expected_matrix_missing"}
          ELSE {})
    \cup (IF MatrixIsExact(run) THEN {} ELSE {"result_matrix_incomplete"})
    \cup (IF run.observedHash # run.expectedHash
          THEN {"observed_matrix_hash_mismatch"} ELSE {})
    \cup (IF CatalogMatchesConfig(run) THEN {} ELSE {"matrix_config_mismatch"})
    \cup (IF AllFair(run) THEN {} ELSE {"fair_start_invalid"})
    \cup (IF VersionSolvers(run) = run.solvers /\ ProvenanceValid(run) THEN {}
          ELSE {"solver_provenance_incomplete"})
=============================================================================
