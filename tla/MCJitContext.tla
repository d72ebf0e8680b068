---------------------------- MODULE MCJitContext ----------------------------
(***************************************************************************)
(* Instance of JitContext: a query with two expressions and one with one,  *)
(* two places for contexts.                                                *)
(***************************************************************************)
EXTENDS JitContext, TLC

CONSTANTS q1, q2, e1, e2, e3

MCQueryOf == e1 :> q1 @@ e2 :> q1 @@ e3 :> q2

Symmetry == Permutations(Contexts) \cup Permutations(Codes)
=============================================================================
