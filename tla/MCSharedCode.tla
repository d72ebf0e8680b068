---------------------------- MODULE MCSharedCode ----------------------------
(***************************************************************************)
(* SharedCode on two queries of one leader and two workers.  In query "a"  *)
(* the leader compiles A, of a node outside the Gather, before B, which    *)
(* the workers of "a" run: B is compiled late and has different ordinals   *)
(* in leader and worker.  The workers also run a function body whose       *)
(* expression N has B's node number and ordinal, and so has C, the only    *)
(* expression of query "b".  A segment holds the header, A and either B or *)
(* the shared deform code of B, not both.                                  *)
(***************************************************************************)
EXTENDS SharedCode, TLC

CONSTANTS qa, qb, w1, w2, h1, h2, leader

E(n, f, s, d, sh) == [node |-> n, fp |-> f, size |-> s, deform |-> d, shared |-> sh]
O(e) == [ctx |-> "outer", expr |-> e]
N(e) == [ctx |-> "nested", expr |-> e]

fA == E(2, "A", 1, 0, TRUE)
fB == E(1, "B", 2, 2, TRUE)
fC == E(1, "C", 1, 2, TRUE)
fN == E(1, "N", 1, 0, TRUE)

MCQueries == {qa, qb}
MCWorkers == {w1, w2}
MCWContexts == {"outer", "nested"}
MCPlan == (qa :> <<fA, fB>>) @@ (qb :> <<fC>>)
MCEarly == (qa :> 1) @@ (qb :> 1)
MCWPlan == (qa :> <<O(fB), N(fN)>>) @@ (qb :> <<O(fC)>>)
MCNoTable == {}
MCHandles == {h1, h2}
\* For the temporal properties: one query, two workers, a late compile.
OnePlan == (qa :> <<fA, fB>>)
OneEarly == (qa :> 1)
OneWPlan == (qa :> <<O(fA), O(fB)>>)

Symmetry == Permutations(MCWorkers) \cup Permutations(MCHandles)
=============================================================================
