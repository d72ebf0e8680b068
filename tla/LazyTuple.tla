------------------------------ MODULE LazyTuple ------------------------------
(***************************************************************************)
(* What a slot promises its readers: a row, of which the leading columns   *)
(* have been taken apart, more of them on demand and all of them right.    *)
(***************************************************************************)
EXTENDS TupleLayout

VARIABLES
    desc,    \* the descriptor
    tuple,   \* the tuple that is stored
    cols     \* its first columns

Init == cols = <<>>

\* Another tuple.
Store ==
    /\ UNCHANGED desc
    /\ cols' = <<>>

\* The columns up to n, those there were among them.
Extend(n) ==
    /\ cols' = [a \in 1 .. n |-> Logical(desc, tuple, a)]
    /\ UNCHANGED <<desc, tuple>>

Next == Store \/ \E n \in Len(cols) + 1 .. Len(desc) : Extend(n)

Spec == Init /\ [][Next]_<<desc, tuple, cols>>
=============================================================================
