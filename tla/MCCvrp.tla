--------------------------------- MODULE MCCvrp ---------------------------------
(* Three customers.  The capacities let one, two or all of them share a     *)
(* route, or leave one whom no vehicle can serve; the weights make a shared *)
(* route pay, not pay, or depend on the order, or cost so much that the gap *)
(* of kOptimal admits an answer that is not a cheapest.                     *)
EXTENDS Cvrp

MCN == 3

Symmetric(w) ==
    [a \in (0 .. 3) \X (0 .. 3) |->
        IF a[1] = a[2] THEN 0
        ELSE w[CHOOSE k \in 1 .. 6 :
                 {a[1], a[2]} = <<{0, 1}, {0, 2}, {0, 3},
                                  {1, 2}, {1, 3}, {2, 3}>>[k]]]
Demands == {<<1, 1, 1>>, <<1, 2, 2>>, <<3, 1, 1>>}
Weights == {<<2, 2, 2, 1, 1, 1>>, <<1, 3, 2, 2, 3, 1>>,
            <<5000, 5000, 5000, 5000, 5003, 5001>>}
MCInstances ==
    {[demand |-> d, capacity |-> q, edge_weight |-> Symmetric(w)] :
        d \in Demands, q \in {2, 3, 5}, w \in Weights}
=============================================================================
