------------------------------ MODULE MCJobShop ------------------------------
(* Instances of at most four operations on two machines, with every machine *)
(* order of a few entries and every schedule near a short horizon.          *)
EXTENDS JobShop

CONSTANTS stray

File(rows) == [jobs |-> Len(rows), machines |-> 2, rows |-> rows]

(* Rows are machine, duration, machine, duration.  In order: the classic    *)
(* shape where jobs cross; both operations of a job on one machine, one of  *)
(* them empty; a header that announces one job less than there are rows.    *)
SmallFiles ==
    {File(<< <<0, 1, 1, 2>>, <<1, 1, 0, 0>> >>),
     File(<< <<0, 2, 0, 0>>, <<0, 1>> >>),
     [File(<< <<0, 1, 1, 1>>, <<1, 2>>, <<0, 3>> >>) EXCEPT !.jobs = 2]}

Words(S, n) == UNION {[1 .. k -> S] : k \in 0 .. n}
SmallOrders(inst) ==
    UNION {{[m \in 0 .. 1 |-> IF m = 0 THEN SubSeq(w, 1, c)
                              ELSE SubSeq(w, c + 1, Len(w))] :
              c \in 0 .. Len(w)} :
           w \in Words(Ops(inst) \cup {stray}, 4)}

(* Full schedules with any starts from -1 to 3, as they are or with one     *)
(* entry dropped, repeated, unknown, or on another machine or duration.     *)
Altered(ans, k) ==
    {RemoveAt(ans, k), Append(ans, ans[k]),
     [ans EXCEPT ![k].key = stray],
     [ans EXCEPT ![k].machine = 1 - @], [ans EXCEPT ![k].duration = @ + 1]}
SmallOutputs(inst) ==
    LET schedules == {Schedule(inst, s) : s \in [Ops(inst) -> -1 .. 3]}
    IN schedules \cup
       UNION {Altered(ans, 1) : ans \in schedules} \cup
       {Reverse(ans) : ans \in schedules}
=============================================================================
