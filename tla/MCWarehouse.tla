----------------------------- MODULE MCWarehouse -----------------------------
(* Small warehouses: two solvers at one limit, and selected work trees.    *)
EXTENDS Warehouse, TLC

CONSTANTS r1, r2, g1, s1, s2

Key(s) == [solver |-> s, limit |-> 1]
TwoSolvers == {Key(s1), Key(s2)}

Listed(kinds) == [repository |-> TRUE, statusWorks |-> TRUE, listed |-> kinds]

(* Everything git can do to the answer: files it does not count, a file of *)
(* each kind it counts, a status that fails on a changed tree, and no      *)
(* repository at all.                                                      *)
AllTrees == {Listed({"untrackedElsewhere", "untrackedQuotedSource"}),
             Listed({"tracked"}), Listed({"untrackedSource"}),
             [Listed({"tracked"}) EXCEPT !.statusWorks = FALSE],
             [CleanTree EXCEPT !.repository = FALSE, !.statusWorks = FALSE]}

(* Nothing compares two run ids or two solvers.                             *)
Symmetry == Permutations({r1, r2}) \cup Permutations({s1, s2})
=============================================================================
