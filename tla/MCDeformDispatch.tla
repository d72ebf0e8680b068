-------------------------- MODULE MCDeformDispatch --------------------------
(***************************************************************************)
(* DeformDispatch on three queries.  Descriptors x and y have the same     *)
(* kind of slot and type, and attributes that collide in the hash; z has   *)
(* the attributes of x in another kind of slot, v those of x in another    *)
(* type.  x and y are also deformed to more columns than the cache takes.  *)
(***************************************************************************)
EXTENDS DeformDispatch, TLC

CONSTANTS qa, qb, qc, p1, p2, p3

MCQueries == {qa, qb, qc}
MCDescs == {"x", "y", "z", "v"}
MCQueryOf == ("x" :> qa) @@ ("z" :> qa) @@ ("y" :> qb) @@ ("v" :> qc)
MCOpsOf == [x \in MCDescs |-> IF x = "z" THEN "minimal" ELSE "heap"]
MCTypeOf == [x \in MCDescs |-> IF x = "v" THEN "t" ELSE "record"]
MCNattsOf == ("x" :> {1, 2}) @@ ("y" :> {1, 2}) @@ ("z" :> {1}) @@ ("v" :> {1})
MCAttrsOf == ("x" :> <<"A", "AB">>) @@ ("y" :> <<"C", "CB">>) @@ ("z" :> <<"A">>)
                @@ ("v" :> <<"A">>)
MCHash == ("A" :> 1) @@ ("C" :> 1) @@ ("AB" :> 2) @@ ("CB" :> 2)
MCPtrs == {p1, p2, p3}

Symmetry == Permutations(MCPtrs)
=============================================================================
