--------------------------- MODULE BenchmarkMatrix ---------------------------
(***************************************************************************)
(* The exact run matrix (src/src/solverforge_bench/matrix.py): which       *)
(* selections build accepts, which keys a run must produce, and the order  *)
(* in which run_benchmark visits them.  A selection is a record of three   *)
(* sequences, cases, limits and solvers.                                   *)
(***************************************************************************)
EXTENDS Naturals, Sequences

HasNoDuplicates(seq) ==
    \A i, j \in 1 .. Len(seq) : seq[i] = seq[j] => i = j

(* BenchmarkMatrix.build does not raise. *)
Accepts(sel) ==
    /\ Len(sel.cases) > 0 /\ Len(sel.solvers) > 0 /\ Len(sel.limits) > 0
    /\ HasNoDuplicates(sel.cases)
    /\ HasNoDuplicates(sel.solvers)
    /\ \A i \in 1 .. Len(sel.limits) : sel.limits[i] > 0
    /\ HasNoDuplicates(sel.limits)

(* A place in the three nested loops of run_benchmark. *)
Places(sel) == [c : 1 .. Len(sel.cases), l : 1 .. Len(sel.limits),
                s : 1 .. Len(sel.solvers)]
FirstPlace == [c |-> 1, l |-> 1, s |-> 1]

(* The matrix key of the row produced at a place. *)
KeyAt(sel, p) == <<sel.cases[p.c], sel.solvers[p.s], sel.limits[p.l]>>

ExpectedKeys(sel) == {KeyAt(sel, p) : p \in Places(sel)}

IsLast(sel, p) ==
    /\ p.c = Len(sel.cases)
    /\ p.l = Len(sel.limits)
    /\ p.s = Len(sel.solvers)

(* for case, for time_limit, for solver_name: the place after p. *)
Following(sel, p) ==
    CASE p.s < Len(sel.solvers) -> [p EXCEPT !.s = @ + 1]
      [] p.s = Len(sel.solvers) /\ p.l < Len(sel.limits) ->
            [p EXCEPT !.s = 1, !.l = @ + 1]
      [] OTHER -> [c |-> p.c + 1, l |-> 1, s |-> 1]

(* hash_keys sorts before it hashes: the digest is a function of the set   *)
(* of keys alone, and (up to collisions of SHA-256) an injective one.      *)
HashKeys(keys) == [sha256 |-> keys]
NoHash == [sha256 |-> {<<>>}]
=============================================================================
