--------------------------- MODULE MCSharedDeform ---------------------------
(***************************************************************************)
(* SharedDeform on two queries.  The descriptors x, y of query qa and z of *)
(* qb agree in what a dispatch compares first, the row, and differ in the  *)
(* layout; u of qb has the shape of x (the nested query scans the same     *)
(* table).                                                                 *)
(***************************************************************************)
EXTENDS SharedDeform, TLC

CONSTANTS qa, qb, w1, w2, leader, p1, p2, p3, p4, a1, a2, a3

MCQueries == {qa, qb}
MCDescs == {"x", "y", "z", "u"}
MCQueryOf == ("x" :> qa) @@ ("y" :> qa) @@ ("z" :> qb) @@ ("u" :> qb)
Row(l) == [row |-> "r", layout |-> l]
MCShapeOf == ("x" :> Row("A")) @@ ("y" :> Row("B"))
                @@ ("z" :> Row("C")) @@ ("u" :> Row("A"))
MCPtrs == {p1, p2, p3, p4}
MCAddrs == {a1, a2, a3}

Symmetry == Permutations(MCPtrs) \cup Permutations(MCAddrs)
=============================================================================
