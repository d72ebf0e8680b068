----------------------------- MODULE MCExprRun -----------------------------
(***************************************************************************)
(* Programs for ExprRun, each the steps PostgreSQL builds for a kind of    *)
(* expression: a function of two columns, conditions, projections, CASE,   *)
(* IN, aggregates, hashes, and the steps that take their input from the    *)
(* context or call the executor.                                           *)
(***************************************************************************)
EXTENDS Conditions

Bit(x, k) == (x \div 2^k) % 2
XorTable ==
  [x \in 0..7, y \in 0..7 |->
     4 * ((Bit(x, 2) + Bit(y, 2)) % 2) + 2 * ((Bit(x, 1) + Bit(y, 1)) % 2) + ((x + y) % 2)]
MCXor(x, y) == XorTable[x, y]
\* Hashes with collisions.
MCCrc32(v) == v % 2
MCMakeReadOnly(v) == IF v >= 50 THEN v ELSE v + 50
MCTextHash(body) == Len(body)

Short(body, rank) == [form |-> "short", body |-> body, rank |-> rank]
Long(body, rank) == [form |-> "long", body |-> body, rank |-> rank]
\* Datums 11 and 12 point to equal texts, 14 to the same in long form.
MCTextOf == (11 :> Short(<<1, 2>>, 3)) @@ (12 :> Short(<<1, 2>>, 3)) @@ (13 :> Short(<<1>>, 1))
         @@ (14 :> Long(<<1, 2>>, 3)) @@ (15 :> Short(<<2, 1>>, 2)) @@ (16 :> Short(<<>>, 0))
         @@ (17 :> Long(<<1, 2, 2>>, 4))
Starts(d, lit) ==
  Len(MCTextOf[d].body) >= Len(lit) /\ \A i \in DOMAIN lit : MCTextOf[d].body[i] = lit[i]

(***************************************************************************)
(* Functions the executor calls.                                           *)
(***************************************************************************)
F(ty, what) == [ty |-> ty, what |-> what]
G(what, k) == [ty |-> "executor", what |-> what, k |-> k]
Like(what, lit) == [ty |-> "executor", what |-> what, lit |-> lit]
FuncNames ==
  [ty : STRING, what : STRING] \cup [ty : STRING, what : STRING, k : Int] \cup [ty : STRING, what : STRING, lit : Seq(Int)]
Answer[fn \in FuncNames, a \in Seq([v : Int, n : BOOLEAN])] ==
  CASE fn.what \in TransFuncs -> PgTrans(fn, a[1], IF Len(a) > 1 THEN a[2] ELSE Ok(0))
    [] fn.what = "like" -> Truth(Starts(a[1].v, fn.lit))
    [] fn.what = "notlike" -> Truth(~Starts(a[1].v, fn.lit))
    [] fn.what \in {"isjson", "subscript"} -> Truth(a[1].v # fn.k)
    [] fn.what = "array" -> Ok(10 * a[1].v + a[Len(a)].v)
    [] fn.what = "jsonb" -> IF a[1].v = 0 THEN NullResult ELSE Ok(a[1].v + 1)
    \* fails for one value
    [] fn.what = "io" -> IF a[1].v = fn.k THEN Error ELSE Ok(a[1].v + 1)
    \* not strict: sees the NULLs, may return one
    [] fn.what = "any" -> IF \A i \in DOMAIN a : a[i].n THEN NullResult
                          ELSE Ok(10 * a[1].v + (IF a[1].n THEN 1 ELSE 0) + (IF a[Len(a)].n THEN 2 ELSE 0))
    [] fn.what = "const" -> Ok(fn.k)
    [] fn.what = "path" ->
         [v |-> a[1].v, n |-> a[1].n, t |-> IF a[1].n THEN "empty" ELSE IF a[1].v > 0 THEN "error" ELSE "end"]
    [] OTHER -> PgFunc(fn, WidthOf(fn.ty), a[1].v, a[Len(a)].v)
MCApply(fn, a) == Answer[fn, a]

(***************************************************************************)
(* Steps.                                                                  *)
(***************************************************************************)
Op(opc, res) == [opc |-> opc, res |-> res]
Done == Op("DONE", "state")
Fetch(last) == [opc |-> "FETCHSOME", slot |-> "scan", last |-> last]
FetchOf(k, last) == [opc |-> "FETCHSOME", slot |-> k, last |-> last]
Var(att, res) == [opc |-> "VAR", slot |-> "scan", att |-> att, res |-> res]
VarOf(k, att, res) == [opc |-> "VAR", slot |-> k, att |-> att, res |-> res]
OutCells == <<"c1", "c2", "c3", "c4", "c5", "c6">>
Assign(att, resno) == [opc |-> "ASSIGN_VAR", slot |-> "scan", att |-> att, resno |-> resno, res |-> OutCells[resno]]
Const(v, res) == [opc |-> "CONST", v |-> v, n |-> FALSE, res |-> res]
Null(res) == [opc |-> "CONST", v |-> 0, n |-> TRUE, res |-> res]
FnOf(strict, path, fn, args, res) ==
  [opc |-> "FUNCEXPR", strict |-> strict, path |-> path, fn |-> fn, args |-> args, res |-> res]
Fn(path, fn, args, res) == FnOf(TRUE, path, fn, args, res)
Jump(t) == [opc |-> "JUMP", jump |-> t, res |-> "state"]
JumpOn(opc, res, t) == [opc |-> opc, jump |-> t, res |-> res]
Bool(opc, place, res, t) == [opc |-> opc, place |-> place, any |-> "any", jump |-> t, res |-> res]

(***************************************************************************)
(* Rows and programs.                                                      *)
(***************************************************************************)
Ec(slots) ==
  [slot |-> slots, param |-> <<[v |-> 2, n |-> FALSE, lazy |-> FALSE]>>, agg |-> <<Ok(1)>>,
   case |-> Ok(0), domain |-> Ok(0), flags |-> {}, grouped |-> {}, wfuncno |-> 1]
OneSlot == [scan |-> "s1", inner |-> "s1"]
RowOf(tuple) == [ec |-> Ec(OneSlot), tuple |-> ("s1" :> tuple), nvalid |-> 0]
Tuples(S, n) == [1..n -> {Ok(v) : v \in S} \cup {NullResult}]
RowsOf(S, n) == {RowOf(t) : t \in Tuples(S, n)}
NewSlot(n) ==
  [tuple |-> [a \in 1..n |-> NullResult], nvalid |-> 0, val |-> [a \in 1..n |-> 0], nul |-> [a \in 1..n |-> FALSE],
   sys |-> [tableoid |-> 7, ctid |-> 8, xmin |-> 9]]
Group(v, n) == [v |-> v, n |-> n, no |-> n, here |-> TRUE, first |-> TRUE, last |-> NullResult]
CellsOf(S) == [c \in S \cup {"state"} |-> Ok(0)]
Program(ops, cells, rows, rounds) ==
  [steps |-> ops \o <<Done>>, init |-> CellsOf(cells), anys |-> {"any"}, out |-> {"state"},
   grp |-> <<>>, tts |-> ("s1" :> NewSlot(3)) @@ ("s2" :> NewSlot(3)), rows |-> rows, rounds |-> rounds,
   fails |-> FALSE]
Args2 == {"a1", "a2"}

\* f(x, y) of two columns.
Two(path, fn, S) ==
  Program(<<Fetch(2), Var(1, "a1"), Var(2, "a2"), Fn(path, fn, <<"a1", "a2">>, "state")>>, Args2, RowsOf(S, 2), 1)
One(path, fn, S) ==
  Program(<<Fetch(1), Var(1, "a1"), Fn(path, fn, <<"a1">>, "state")>>, {"a1"}, RowsOf(S, 1), 1)
Int4s == {-4, -1, 0, 2, 3}
Int8s == {-32, -9, -1, 0, 7, 31}
Floats == {-4, -1, 0, 1, 4, PosInf, NegInf, NaN}

(***************************************************************************)
(* Functions emitted as instructions.                                      *)
(***************************************************************************)
Named(ty, whats) == {<<"fn", ty, w>> : w \in whats}
DatumsOf(ty) ==
  CASE ty = "int4" -> Int4s [] ty = "int8" -> Int8s [] ty = "float" -> Floats [] ty = "bool" -> {0, 1}
    [] ty = "uint1" -> {0, 1, 3} [] ty = "uint4" -> {0, 3, 4, 7} [] ty = "uint8" -> {0, 7, 31, -1}
    [] OTHER -> {11, 12, 13, 14, 15, 16, 17}
\* Divisions with a NaN, or by an infinity, are left out: see README.
DivRows == {r \in RowsOf(Floats, 2) : LET t == r.tuple["s1"] IN ~IsInf(t[2].v) /\ ~Unordered(t[1].v, t[2].v)}
BinaryNames ==
  Named("int4", {"add", "sub", "mul", "div", "mod"} \cup Comparisons)
    \cup Named("int8", {"add", "sub", "mul", "cmp3"} \cup Comparisons) \cup Named("bool", {"cmp3"})
    \cup Named("uint1", Comparisons) \cup Named("uint4", Comparisons) \cup Named("uint8", Comparisons)
    \cup Named("float", {"add", "sub", "mul"} \cup Comparisons) \cup Named("text", {"eq", "ne"})
UnaryNames ==
  Named("int2", {"widen", "narrow"}) \cup Named("int4", {"widen", "narrow", "tofloat", "hash"})
    \cup Named("int8", {"tofloat", "hash"})
UnaryDatums(ty, what) ==
  CASE what = "narrow" -> IF ty = "int2" THEN -4..3 ELSE Int8s \cup {3, 4, -4, -5}
    [] what = "widen" /\ ty = "int2" -> -2..1
    [] OTHER -> IF ty = "int4" THEN -4..3 ELSE -32..31
KernelPrograms ==
  [n \in BinaryNames |-> Two("inline", F(n[2], n[3]), DatumsOf(n[2]))]
    @@ [n \in UnaryNames |-> One("inline", F(n[2], n[3]), UnaryDatums(n[2], n[3]))]
    @@ (<<"fn", "float", "div">> :> [Two("inline", F("float", "div"), Floats) EXCEPT !.rows = DivRows])
    @@ [n \in Named("int2", Comparisons) |-> Two("direct", F("int2", n[3]), -2..1)]

(***************************************************************************)
(* Conditions, jumps and columns.  Booleans are 0 and 1.                   *)
(***************************************************************************)
Bools3 == RowsOf({0, 1}, 3)
\* x AND y AND z, x OR y OR z, twice: the anynull flag of the row before.
Three(opc) ==
  Program(<<Fetch(3), Var(1, "state"), Bool(opc, "first", "state", 8), Var(2, "state"), Bool(opc, "middle", "state", 8),
            Var(3, "state"), Bool(opc, "last", "state", 8)>>, {}, Bools3, 2)
\* NOT x for a condition, then y: a list of qualifications.
Quals ==
  Program(<<Fetch(2), Var(1, "state"), Op("BOOL_NOT", "state"), JumpOn("QUAL", "state", 7), Var(2, "state"),
            JumpOn("QUAL", "state", 7)>>, {}, RowsOf({0, 1}, 2), 2)
Tests(isnull, truth, negated) ==
  Program(<<Fetch(2), Var(1, "state"), Op("NULLTEST", "state") @@ [isnull |-> isnull],
            JumpOn("JUMP_IF_NOT_TRUE", "state", 6),
            Var(2, "state"), Op("BOOLTEST", "state") @@ [truth |-> truth, negated |-> negated]>>,
          {}, RowsOf({0, 1}, 2), 2)
\* COALESCE(x, y) = z: the load of z follows the load of y and is where the
\* jump over y goes.
Coalesce ==
  Program(<<Fetch(3), Var(1, "a1"), JumpOn("JUMP_IF_NOT_NULL", "a1", 5), Var(2, "a1"), Var(3, "a2"),
            Fn("inline", F("int4", "eq"), <<"a1", "a2">>, "state")>>, Args2, RowsOf({0, 1}, 3), 1)
\* CASE WHEN x THEN y ELSE z END and NULL when x is.
IfElse ==
  Program(<<Fetch(3), Var(1, "state"), JumpOn("JUMP_IF_NULL", "state", 8), JumpOn("JUMP_IF_NOT_TRUE", "state", 7),
            Var(2, "state"), Jump(8), Var(3, "state")>>, {}, Bools3, 1)
\* A projection of x, y, z (a loop), of y, x, y (no loop), and of expressions; the
\* context's slot alternates between two, with columns deformed before.
Slots(S, n) ==
  {[ec |-> Ec([scan |-> s, inner |-> "s1"]), tuple |-> (s :> t), nvalid |-> v] :
     s \in {"s1", "s2"}, t \in Tuples(S, n), v \in {0, n - 1}}
Projection ==
  [Program(<<Fetch(3), Assign(1, 1), Assign(2, 2), Assign(3, 3), Const(2, "state"),
             Op("ASSIGN_TMP", "c4") @@ [readonly |-> TRUE], Null("state"), Op("ASSIGN_TMP", "c5") @@ [readonly |-> FALSE]>>,
           {"c1", "c2", "c3", "c4", "c5"}, Slots({1}, 3), 2)
     EXCEPT !.out = {"c1", "c2", "c3", "c4", "c5"}, !.fails = TRUE]
Swapped ==
  [Program(<<Fetch(2), Assign(2, 1), Assign(1, 2), Assign(2, 6), Var(2, "state"), Op("MAKE_READONLY", "c3") @@ [src |-> "state"],
             Op("SYSVAR", "c4") @@ [slot |-> "scan", att |-> "ctid"],
             Op("SYSVAR", "c5") @@ [slot |-> "scan", att |-> "xmin"]>>,
           {"c1", "c2", "c3", "c4", "c5", "c6"}, {r \in Slots({0, 1}, 3) : r.tuple[r.ec.slot.scan][3] = Ok(0)}, 2)
     EXCEPT !.out = {"c1", "c2", "c3", "c4", "c5", "c6"}]
\* Columns of two slots, as in a join.
Join ==
  Program(<<Fetch(2), FetchOf("inner", 1), Var(2, "a1"), VarOf("inner", 1, "a2"),
            Fn("inline", F("int4", "eq"), <<"a1", "a2">>, "state")>>, Args2,
          {[ec |-> Ec([scan |-> s, inner |-> IF s = "s1" THEN "s2" ELSE "s1"]), tuple |-> ("s1" :> t) @@ ("s2" :> u), nvalid |-> 0] :
             s \in {"s1", "s2"}, t \in [1..3 -> {Ok(0), Ok(1)}], u \in [1..3 -> {Ok(1)}]}, 2)
\* Columns of a virtual slot, which are there without deforming.
Virtual ==
  Program(<<Var(2, "a1"), Var(1, "a2"), Fn("inline", F("int4", "sub"), <<"a1", "a2">>, "state")>>, Args2,
          {[r EXCEPT !.nvalid = 3] : r \in Slots({0, 3}, 3)}, 2)
FlowPrograms ==
  (<<"flow", "and", "">> :> Three("BOOL_AND")) @@ (<<"flow", "or", "">> :> Three("BOOL_OR"))
    @@ (<<"flow", "qual", "">> :> [Quals EXCEPT !.fails = TRUE]) @@ (<<"flow", "isnull", "istrue">> :> Tests(TRUE, TRUE, FALSE))
    @@ (<<"flow", "isnull", "isfalse">> :> Tests(TRUE, FALSE, FALSE))
    @@ (<<"flow", "notnull", "nottrue">> :> Tests(FALSE, TRUE, TRUE))
    @@ (<<"flow", "notnull", "notfalse">> :> Tests(FALSE, FALSE, TRUE))
    @@ (<<"flow", "coalesce", "">> :> Coalesce) @@ (<<"flow", "if", "">> :> IfElse)
    @@ (<<"flow", "project", "loop">> :> Projection) @@ (<<"flow", "project", "pairs">> :> Swapped)
    @@ (<<"flow", "join", "">> :> Join) @@ (<<"flow", "virtual", "">> :> Virtual)

(***************************************************************************)
(* CASE.  A branch compares column 1, in cell "v", with a constant in the  *)
(* second argument.                                                        *)
(***************************************************************************)
\* The steps of a simple CASE with the constants ks, from step i on.
Branches(i, fn, ks, res, name) ==
  LET n == Len(ks)
      Part[k \in 0..n] ==
        IF k = 0 THEN <<>>
        ELSE Part[k - 1] \o <<Var(1, "v"), Fn("direct", fn, <<"v", name[k]>>, "b"),
                              JumpOn("JUMP_IF_NOT_TRUE", "b", i + 5 * k), Const(k, res), Jump(i + 5 * n + 1)>>
  IN  Part[n] \o <<Const(9, res)>>
\* The steps of a CASE of ranges lo <= v < hi, or <= hi.
Ranges(i, ty, upper, n, res, lo, hi) ==
  LET Part[k \in 0..n] ==
        LET j == i + 9 * (k - 1)
        IN  IF k = 0 THEN <<>>
            ELSE Part[k - 1] \o
                 <<Var(1, "v"), Fn("direct", F(ty, "ge"), <<"v", lo[k]>>, "b"), Bool("BOOL_AND", "first", "b", j + 6),
                   Var(1, "v"), Fn("direct", F(ty, upper), <<"v", hi[k]>>, "b"), Bool("BOOL_AND", "last", "b", j + 6),
                   JumpOn("JUMP_IF_NOT_TRUE", "b", j + 9), Const(k, res), Jump(i + 9 * n + 1)>>
  IN  Part[n] \o <<Const(9, res)>>
K == <<"k1", "k2", "k3">>
L == <<"l1", "l2", "l3">>
H == <<"h1", "h2", "h3">>
WithConsts(p, names, values) ==
  [p EXCEPT !.init = [c \in DOMAIN @ |-> IF \E k \in DOMAIN values : names[k] = c
                                         THEN Ok(values[CHOOSE k \in DOMAIN values : names[k] = c]) ELSE @[c]]]
\* A CASE that is searched never runs uncompiled here: see README.
SimpleCase(fn, ks, S) ==
  WithConsts(Program(<<Fetch(1)>> \o Branches(2, fn, ks, "state", K), {"v", "b", "k1", "k2", "k3"}, RowsOf(S, 1), 2),
             K, ks)
RangeCase(ty, upper, los, his, S) ==
  WithConsts(WithConsts(Program(<<Fetch(1)>> \o Ranges(2, ty, upper, Len(los), "state", L, H),
                                {"v", "b", "l1", "l2", "l3", "h1", "h2", "h3"}, RowsOf(S, 1), 2), L, los), H, his)
\* A simple CASE, then a CASE of ranges; both are searched.
TwoCases ==
  WithConsts(WithConsts(WithConsts(
    Program(<<Fetch(1)>> \o Branches(2, F("int4", "eq"), <<2, 0>>, "a1", K) \o Ranges(13, "int4", "lt", 2, "a2", L, H)
            \o <<Fn("inline", F("int8", "add"), <<"a1", "a2">>, "state")>>,
            {"v", "b", "a1", "a2", "k1", "k2", "k3", "l1", "l2", "l3", "h1", "h2", "h3"}, RowsOf(-4..3, 1), 2),
    K, <<2, 0>>), L, <<-2, 0>>), H, <<0, 3>>)
\* CASE x WHEN ...: the variable is the test value of the context.
TestCase ==
  LET fn == F("int4", "eq")
      load == Op("CASE_TESTVAL", "v") @@ [src |-> "t", what |-> "case"]
      p == SimpleCase(fn, <<1, 3>>, -1..3)
  IN  [p EXCEPT !.steps = <<Fetch(1), Var(1, "t")>> \o
                 <<load, Fn("direct", fn, <<"v", "k1">>, "b"), JumpOn("JUMP_IF_NOT_TRUE", "b", 8), Const(1, "state"), Jump(14),
                   load, Fn("direct", fn, <<"v", "k2">>, "b"), JumpOn("JUMP_IF_NOT_TRUE", "b", 13), Const(2, "state"), Jump(14),
                   Const(9, "state"), Done>>,
                !.init = @ @@ ("t" :> Ok(0))]
Texts == {11, 12, 13, 15, 16}
CasePrograms ==
  (<<"case", "eq", "int4">> :> SimpleCase(F("int4", "eq"), <<3, -1, 0>>, -4..3))
    @@ (<<"case", "lt", "int4">> :> SimpleCase(F("int4", "lt"), <<-2, 0, 3>>, -4..3))
    @@ (<<"case", "ge", "int2">> :> SimpleCase(F("int2", "ge"), <<1, 0, -2>>, -2..1))
    @@ (<<"case", "gt", "uint4">> :> SimpleCase(F("uint4", "gt"), <<6, 4, 1>>, 0..7))
    @@ (<<"case", "le", "float">> :> SimpleCase(F("float", "le"), <<-4, 0, PosInf>>, Floats))
    @@ (<<"case", "eq", "float">> :> SimpleCase(F("float", "eq"), <<NaN, 0, -1>>, Floats))
    @@ (<<"case", "eq", "text">> :> SimpleCase(F("text", "eq"), <<15, 11, 13>>, Texts))
    @@ (<<"case", "lt", "text">> :> SimpleCase(F("text", "lt"), <<13, 15, 12>>, Texts))
    \* not searched: not ascending, a constant twice, one branch
    @@ (<<"case", "lt", "unsorted">> :> SimpleCase(F("int4", "lt"), <<2, 0>>, -4..3))
    @@ (<<"case", "eq", "twice">> :> SimpleCase(F("int4", "eq"), <<1, 1, 2>>, -4..3))
    @@ (<<"case", "eq", "one">> :> [SimpleCase(F("int4", "eq"), <<1>>, -4..3) EXCEPT !.fails = TRUE])
    @@ (<<"case", "range", "lt">> :> RangeCase("int4", "lt", <<-3, 0, 2>>, <<0, 2, 3>>, -4..3))
    @@ (<<"case", "range", "le">> :> RangeCase("int4", "le", <<-3, 0>>, <<-1, 2>>, -4..3))
    @@ (<<"case", "range", "max">> :> RangeCase("int4", "le", <<-3, 0>>, <<-1, 3>>, -4..3))
    @@ (<<"case", "range", "gap">> :> RangeCase("int4", "lt", <<-3, 1>>, <<0, 3>>, -4..3))
    @@ (<<"case", "test", "">> :> TestCase) @@ (<<"case", "two", "">> :> TwoCases)

(***************************************************************************)
(* IN lists and arrays.                                                    *)
(***************************************************************************)
List(vs, null) == [k \in DOMAIN vs |-> Ok(vs[k])] \o (IF null THEN <<NullResult>> ELSE <<>>)
\* max and simdmax: up to how many elements a list is searched or scanned.
Saop(ty, array, inclause, max, simdmax) ==
  Op("HASHED_SAOP", "state") @@
  [args |-> <<"a1">>, array |-> array, inclause |-> inclause, ty |-> ty, const |-> TRUE, shared |-> FALSE, crc32 |-> TRUE,
   max |-> max, simdmax |-> simdmax, texteq |-> TRUE, strict |-> TRUE, deterministic |-> TRUE, texthash |-> TRUE]
InProgram(op, S) == Program(<<Fetch(1), Var(1, "a1"), op>>, {"a1"}, RowsOf(S, 1), 1)
Loop(fn, array, useor, strict) ==
  Op("SCALARARRAYOP", "state") @@ [args |-> <<"a1">>, array |-> array, useor |-> useor, strict |-> strict, fn |-> fn]
\* The array is evaluated into the result cell, here always.
LoopProgram(op, S) == Program(<<Fetch(1), Var(1, "a1"), Const(1, "state"), op>>, {"a1"}, RowsOf(S, 1), 1)
InKinds == {<<"in", "simd", "">>, <<"in", "simd", "null">>, <<"notin", "simd", "">>, <<"notin", "simd", "null">>,
            <<"in", "tree", "">>, <<"in", "tree", "null">>, <<"notin", "tree", "null">>,
            <<"in", "crc32", "">>, <<"notin", "crc32", "null">>, <<"in", "call", "null">>}
\* The values a scan is asked for do not include its padding: see README.
Scanned == (-4..3) \ {0}
InPrograms ==
  [n \in InKinds |->
     InProgram(Saop(IF n[2] = "call" THEN "numeric" ELSE "int4", List(<<2, -4, 3>>, n[3] = "null"), n[1] = "in",
                    IF n[2] = "crc32" THEN 1 ELSE 8, IF n[2] = "simd" THEN 8 ELSE 0),
               IF n[2] = "simd" THEN Scanned ELSE -4..3)]
    @@ (<<"in", "shared", "">> :> InProgram([Saop("int4", List(<<0, 2>>, FALSE), TRUE, 1, 0) EXCEPT !.shared = TRUE], -4..3))
    @@ (<<"in", "int8", "tree">> :> InProgram(Saop("int8", List(<<31, 0, -1, 7, -32>>, FALSE), TRUE, 8, 8), Int8s))
    @@ (<<"in", "text", "">> :> InProgram(Saop("text", List(<<11, 16>>, FALSE), TRUE, 8, 0), DOMAIN MCTextOf))
    @@ (<<"notin", "text", "null">> :> InProgram(Saop("text", List(<<15, 13>>, TRUE), FALSE, 8, 0), DOMAIN MCTextOf))
    @@ (<<"any", "int4", "">> :> LoopProgram(Loop(F("int4", "eq"), List(<<1, 3>>, FALSE), TRUE, TRUE), -1..3))
    @@ (<<"any", "int4", "null">> :> LoopProgram(Loop(F("int4", "eq"), List(<<1, 3>>, TRUE), TRUE, TRUE), -1..3))
    @@ (<<"all", "int4", "null">> :> LoopProgram(Loop(F("int4", "lt"), List(<<1, 3>>, TRUE), FALSE, TRUE), -1..3))
    @@ (<<"any", "int4", "empty">> :> LoopProgram(Loop(F("int4", "eq"), <<>>, TRUE, TRUE), {0}))
    @@ (<<"any", "loose", "null">> :> LoopProgram(Loop(G("any", 0), List(<<0, 1>>, TRUE), FALSE, FALSE), {0, 1}))

(***************************************************************************)
(* Calls.                                                                  *)
(***************************************************************************)
\* A LIKE with the prefix lit; helper, matchraw and matchtext are what the
\* functions behind the fast paths answer.
Match(path, lit, negate) ==
  LET bodies == {MCTextOf[d].body : d \in DOMAIN MCTextOf}
  IN  Fn(path, Like(IF negate THEN "notlike" ELSE "like", lit), <<"a1">>, "state") @@
      [literal |-> lit, negate |-> negate, helper |-> [d \in DOMAIN MCTextOf |-> Starts(d, lit)],
       matchraw |-> [b \in bodies |-> \E d \in DOMAIN MCTextOf : MCTextOf[d].body = b /\ Starts(d, lit)],
       matchtext |-> [d \in DOMAIN MCTextOf |-> Starts(d, lit)]]
Unary(op, S) == Program(<<Fetch(1), Var(1, "a1"), op>>, {"a1"}, RowsOf(S, 1), 1)
\* The input is in the result cell.
InPlace(op, S) == Program(<<Fetch(1), Var(1, "state"), op>>, {}, RowsOf(S, 1), 1)
Pair(op, S) == Program(<<Fetch(2), Var(1, "a1"), Var(2, "a2"), op>>, Args2, RowsOf(S, 2), 2)
Helper(opc, fn, args) == Op(opc, "state") @@ [fn |-> fn, args |-> args]
Coerce(opc) == Op(opc, "state") @@ [outfn |-> G("io", 3), infn |-> G("io", 2)]
ArrayOf(byval, multidims) ==
  Helper("ARRAYEXPR", G("array", 0), <<"a1", "a2">>) @@ [byval |-> byval, multidims |-> multidims]
\* A domain: the value is tested for NULL, then its CHECK.
Domain ==
  Program(<<Fetch(1), Var(1, "state"), Op("DOMAIN_NOTNULL", "state"),
            Op("DOMAIN_TESTVAL", "a1") @@ [src |-> "state", what |-> "domain"], Fn("inline", F("int4", "lt"), <<"a1", "k">>, "c"),
            Op("DOMAIN_CHECK", "state") @@ [check |-> "c"]>>, {"a1", "k", "c"}, RowsOf(-1..1, 1), 2)
\* x[i]: the subscript step may end the evaluation.
Subscripted ==
  Program(<<Fetch(2), Var(1, "state"), Var(2, "a1"),
            Op("SUBSCRIPTS", "state") @@ [fn |-> G("subscript", 3), args |-> <<"a1">>, jump |-> 6],
            Helper("SBSREF", F("int8", "add"), <<"a1", "a1">>)>>, {"a1"}, RowsOf({0, 1, 3}, 2), 1)
JsonPath ==
  Program(<<Fetch(1), Var(1, "a1"),
            Op("JSON_PATH", "state") @@ [fn |-> G("path", 0), args |-> <<"a1">>, targets |-> [empty |-> 4, error |-> 5, end |-> 6]],
            Const(3, "state"), Op("COERCION_FINISH", "state") @@ [err |-> "e"]>>, {"a1", "e"}, RowsOf({0, 1}, 1), 2)
Finishing ==
  Program(<<Fetch(2), Var(1, "state"), Var(2, "e"), Op("COERCION_FINISH", "state") @@ [err |-> "e"]>>,
          {"e"}, RowsOf({0, 1}, 2), 2)
CallPrograms ==
  [n \in {<<"like", p, x>> : p \in {"prefix", "like", "regex"}, x \in {"", "not"}} |->
     Unary(Match(n[2], <<1, 2>>, n[3] = "not"), DOMAIN MCTextOf)]
    @@ (<<"like", "prefix", "one">> :> Unary(Match("prefix", <<1>>, FALSE), DOMAIN MCTextOf))
    @@ (<<"call", "jsonb", "">> :> Unary(Fn("jsonb", G("jsonb", 0), <<"a1">>, "state"), {0, 1}))
    @@ (<<"call", "v1", "strict">> :> Pair(Fn("v1", G("any", 0), <<"a1", "a2">>, "state"), {0, 1}))
    @@ (<<"call", "v1", "loose">> :> Pair(FnOf(FALSE, "v1", G("any", 0), <<"a1", "a2">>, "state"), {0, 1}))
    @@ (<<"call", "direct", "error">> :> Pair(Fn("direct", F("int4", "div"), <<"a1", "a2">>, "state"), {0, 2}))
    @@ (<<"call", "iocoerce", "">> :> InPlace(Coerce("IOCOERCE"), 0..4))
    @@ (<<"call", "iocoerce", "safe">> :> InPlace(Coerce("IOCOERCE_SAFE"), 0..4))
    @@ (<<"call", "field", "">> :> InPlace(Helper("FIELDSELECT", G("jsonb", 0), <<"state">>), {0, 1}))
    @@ (<<"call", "rowtype", "">> :> InPlace(Helper("CONVERT_ROWTYPE", G("io", 1), <<"state">>), {0, 1}))
    @@ (<<"call", "nextval", "">> :>
          Program(<<Op("NEXTVALUE", "state") @@ [fn |-> G("const", 5), width |-> Bits4]>>, {}, RowsOf({0}, 0), 2))
    @@ (<<"call", "row", "">> :> Pair(Helper("ROW", G("array", 0), <<"a1", "a2">>), {0, 1}))
    @@ (<<"call", "array", "fast">> :> Pair(ArrayOf(TRUE, FALSE), {0, 1}))
    @@ (<<"call", "array", "byref">> :> Pair(ArrayOf(FALSE, FALSE), {0, 1}))
    @@ [n \in {<<"call", "sqlvalue", x>> : x \in {"getter", ""}} |->
          Program(<<Helper("SQLVALUE", G("const", 3), <<>>) @@ [getter |-> n[3] = "getter"]>>, {}, RowsOf({0}, 0), 2)]
    @@ [n \in {<<"call", "isjson", x>> : x \in {"text", ""}} |->
          InPlace(Helper("IS_JSON", G("isjson", 1), <<"state">>) @@ [text |-> n[3] = "text"], {0, 1})]
    @@ [n \in {<<"call", "helper", x>> : x \in {"2", "3"}} |->
          Pair(Helper("HELPER", G("any", 0), <<"a1", "a2">>) @@ [nargs |-> IF n[3] = "2" THEN 2 ELSE 3], {0, 1})]
    @@ (<<"call", "callback", "">> :> Unary(Helper("PARAM_CALLBACK", G("any", 0), <<"a1">>), {0, 1}))
    @@ (<<"call", "domain", "">> :> Domain) @@ (<<"call", "subscript", "">> :> Subscripted)
    @@ (<<"call", "jsonpath", "">> :> JsonPath) @@ (<<"call", "finish", "">> :> Finishing)

(***************************************************************************)
(* Comparisons, and values of the context.                                 *)
(***************************************************************************)
\* (x, y) < (0, 1), or another comparison.
RowCompare(cmptype) ==
  WithConsts(
    Program(<<Fetch(2), Var(1, "a1"),
              Op("ROWCOMPARE_STEP", "state") @@ [fn |-> F("int8", "cmp3"), args |-> <<"a1", "k1">>, strict |-> TRUE, jump |-> 6, jumpnull |-> 7],
              Var(2, "a2"),
              Op("ROWCOMPARE_STEP", "state") @@ [fn |-> F("int8", "cmp3"), args |-> <<"a2", "k2">>, strict |-> TRUE, jump |-> 6, jumpnull |-> 7],
              Op("ROWCOMPARE_FINAL", "state") @@ [cmptype |-> cmptype]>>, {"a1", "a2", "k1", "k2"}, RowsOf(-1..2, 2), 1),
    <<"k1", "k2">>, <<0, 1>>)
Elements(n, least) ==
  LET args == SubSeq(<<"a1", "a2", "a3", "a1", "a2">>, 1, n)
  IN  Program(<<Fetch(3), Var(1, "a1"), Var(2, "a2"), Var(3, "a3"), Op("MINMAX", "state") @@ [args |-> args, least |-> least]>>,
              {"a1", "a2", "a3"}, RowsOf({-1, 1}, 3), 1)
Contexts1 ==
  {[ec |-> [Ec(OneSlot) EXCEPT !.param = <<[v |-> 2, n |-> FALSE, lazy |-> lazy]>>, !.agg = <<Ok(1), r>>, !.wfuncno = w,
                               !.case = r, !.domain = r, !.flags = flags, !.grouped = g],
    tuple |-> <<>>, nvalid |-> 0] :
     lazy \in BOOLEAN, r \in {Ok(3), NullResult}, w \in 1..2, flags \in {{}, {"old"}}, g \in {{1}, {1, 3}}}
FromContext(op) == Program(<<op>>, {}, Contexts1, 1)
ComparePrograms ==
  [n \in {<<"cmp", "row", x>> : x \in {"lt", "le", "ge", "gt"}} |-> RowCompare(n[3])]
    @@ [n \in {<<"cmp", "minmax", x>> : x \in {"least", "greatest"}} |-> Elements(3, n[3] = "least")]
    @@ (<<"cmp", "minmax", "five">> :> Elements(5, TRUE))
    @@ [n \in {<<"cmp", "distinct", x>> : x \in {"", "not"}} |->
          Pair(Op("DISTINCT", "state") @@ [fn |-> F("int4", "eq"), args |-> <<"a1", "a2">>, negated |-> n[3] = "not"], {0, 1})]
    @@ (<<"cmp", "nullif", "">> :> Pair(Op("NULLIF", "state") @@ [fn |-> F("int4", "eq"), args |-> <<"a1", "a2">>], {0, 1}))
    @@ (<<"ctx", "case", "">> :> FromContext(Op("CASE_TESTVAL", "state") @@ [src |-> "econtext", what |-> "case"]))
    @@ (<<"ctx", "domain", "">> :> FromContext(Op("DOMAIN_TESTVAL", "state") @@ [src |-> "econtext", what |-> "domain"]))
    @@ (<<"ctx", "param", "">> :> FromContext(Op("PARAM_EXEC", "state") @@ [param |-> 1]))
    @@ (<<"ctx", "aggref", "">> :> FromContext(Op("AGGREF", "state") @@ [aggno |-> 2]))
    @@ (<<"ctx", "window", "">> :> FromContext(Op("WINDOW_FUNC", "state")))
    @@ (<<"ctx", "returning", "">> :>
          Program(<<Op("RETURNINGEXPR", "state") @@ [nullflag |-> "old", jump |-> 3], Const(4, "state")>>, {}, Contexts1, 1))
    @@ (<<"ctx", "grouping", "">> :> FromContext(Op("GROUPING_FUNC", "state") @@ [clauses |-> <<1, 2, 3>>]))

(***************************************************************************)
(* Aggregates and hashes.                                                  *)
(***************************************************************************)
Trans(path, fn, args) ==
  [opc |-> "AGG_TRANS", path |-> path, fn |-> fn, args |-> args, grp |-> 1, init |-> FALSE, strict |-> FALSE,
   byref |-> FALSE, least |-> FALSE]
Fold(p, group) == [p EXCEPT !.out = {}, !.grp = <<group>>]
NoState == Group(0, TRUE)
State(v) == Group(v, FALSE)
Agg(op, S, group, rounds) == Fold(Program(<<Fetch(1), Var(1, "a1"), op>>, {"a1"}, RowsOf(S, 1), rounds), group)
\* A strict transition function never sees a NULL value.
StrictAgg(op, S, group, rounds) ==
  Fold(Program(<<Fetch(1), Var(1, "a1"), [opc |-> "STRICT_INPUT", args |-> <<"a1">>, jump |-> 5], op>>, {"a1"}, RowsOf(S, 1), rounds),
       group)
Extremum(ty, what) ==
  [Trans("minmax", F(ty, what), <<"a1">>) EXCEPT !.init = TRUE, !.strict = TRUE, !.least = what = "smaller"]
\* NaN is left out of MIN and MAX, an overflow of SUM(float), a NULL before
\* there is a state of AVG(int8): see README.
ExtremumDatums(ty) ==
  CASE ty = "int2" -> {-2, 0, 1} [] ty \in {"int4", "date"} -> {-4, 0, 3} [] ty = "oid" -> {0, 3, 7}
    [] ty = "float" -> {NegInf, -1, 2, PosInf} [] OTHER -> {-32, 0, 31}
AnyCall(fn, byref, strict) == [Trans("call", fn, <<"a1">>) EXCEPT !.byref = byref, !.strict = strict]
AggPrograms ==
  (<<"agg", "count", "">> :> Agg(Trans("count", F("int8", "count"), <<>>), {0}, State(30), 2))
    @@ (<<"agg", "count", "value">> :> StrictAgg([Trans("count", F("int8", "count"), <<"a1">>) EXCEPT !.strict = TRUE], {0}, State(30), 2))
    @@ [n \in {<<"agg", "sum", ty>> : ty \in {"int2", "int4"}} |->
          Agg(Trans("int_sum", F(n[3], "sum"), <<"a1">>), {-1, 1}, NoState, 3)]
    @@ (<<"agg", "sum", "wraps">> :> Agg(Trans("int_sum", F("int4", "sum"), <<"a1">>), {-3, 3}, State(30), 2))
    @@ [n \in {<<"agg", what, ty>> : what \in {"smaller", "larger"}, ty \in {"int2", "int4", "int8", "date", "oid", "time", "float"}} |->
          StrictAgg(Extremum(n[3], n[2]), ExtremumDatums(n[3]), NoState, 2)]
    @@ [n \in {<<"agg", "floatsum", p>> : p \in {"float8_sum", "float4_sum"}} |->
          StrictAgg([Trans(n[3], F("float", "floatsum"), <<"a1">>) EXCEPT !.init = TRUE, !.strict = TRUE], {-1, 1, PosInf, NegInf, NaN}, NoState, 2)]
    @@ (<<"agg", "accum", "float">> :>
          StrictAgg([Trans("float_accum", F("float", "accum"), <<"a1">>) EXCEPT !.strict = TRUE, !.byref = TRUE], {-1, 1}, State(1), 2))
    @@ [n \in {<<"agg", "accum", ty>> : ty \in {"int2", "int4"}} |->
          StrictAgg([Trans("int_avg", F(n[3], "accum"), <<"a1">>) EXCEPT !.strict = TRUE, !.byref = TRUE], {-1, 1}, State(1), 2)]
    @@ (<<"agg", "numeric", "">> :> Agg([Trans("numeric_avg", F("numeric", "makeaccum"), <<"a1">>) EXCEPT !.byref = TRUE], {1, 2}, NoState, 3))
    @@ (<<"agg", "int8", "null">> :> Agg([Trans("int8_avg", F("int8", "makeaccum"), <<"a1">>) EXCEPT !.byref = TRUE], {-1, 1}, State(1), 2))
    @@ (<<"agg", "int8", "new">> :> StrictAgg([Trans("int8_avg", F("int8", "makeaccum"), <<"a1">>) EXCEPT !.byref = TRUE], {-1, 1}, NoState, 3))
    @@ (<<"agg", "call", "byref">> :> Agg(AnyCall(G("io", 3), TRUE, FALSE), {0}, State(1), 3))
    @@ (<<"agg", "call", "byval">> :> Agg(AnyCall(G("io", 3), FALSE, FALSE), {0}, State(1), 3))
    @@ (<<"agg", "call", "null">> :> Agg(AnyCall(G("jsonb", 0), FALSE, TRUE), {0}, State(0), 2))
    @@ (<<"agg", "call", "init">> :> StrictAgg([AnyCall(G("jsonb", 0), TRUE, TRUE) EXCEPT !.init = TRUE], {0, 1}, NoState, 3))
    \* DISTINCT over a sorted input; a group spilled to disk; a partial state
    @@ (<<"agg", "distinct", "">> :>
          Fold(Program(<<Fetch(1), Var(1, "a1"), [opc |-> "PRESORTED", grp |-> 1, args |-> <<"a1">>, jump |-> 5],
                         Trans("count", F("int8", "count"), <<>>)>>, {"a1"}, RowsOf({0, 1}, 1), 3), State(0)))
    @@ [n \in {<<"agg", "group", x>> : x \in {"here", "spilled"}} |->
          Fold(Program(<<[opc |-> "PERGROUP", grp |-> 1, jump |-> 3], Trans("count", F("int8", "count"), <<>>)>>, {},
                       RowsOf({0}, 0), 2), [State(0) EXCEPT !.here = n[3] = "here"])]
    @@ [n \in {<<"agg", "deserialize", x>> : x \in {"strict", ""}} |->
          Fold(Program(<<Fetch(1), Var(1, "a1"),
                         Op("DESERIALIZE", "a2") @@ [fn |-> G("any", 0), args |-> <<"a1">>, strict |-> n[3] = "strict", jump |-> 5],
                         Trans("int_sum", F("int4", "sum"), <<"a2">>)>>, Args2, RowsOf({0}, 1), 2), State(0))]

\* The hash of two columns: the first may start it, or follow an initial
\* value; the last result is the expression's.
HashOp(opc, path, fn, args, src, res, inreg) ==
  [opc |-> opc, path |-> path, fn |-> fn, args |-> args, src |-> src, res |-> res, inreg |-> inreg, jump |-> 6]
HashStart(inreg) == [opc |-> "HASH_INIT", v |-> 5, res |-> "i", inreg |-> inreg]
TwoHashes(first, strict, path, inreg) ==
  LET suffix(opc) == IF strict THEN opc \o "_STRICT" ELSE opc
      int4 == F("int4", "hash")
  IN  Program(<<Fetch(2), Var(1, "a1"), Var(2, "a2")>> \o
              (IF first = "init" THEN <<HashStart(inreg)>> ELSE <<HashOp(suffix("HASH_FIRST"), path, int4, <<"a1">>, "i", "i", inreg)>>) \o
              <<HashOp(suffix("HASH_NEXT"), path, F("int8", "hash"), <<"a2">>, "i", "state", inreg)>>,
              Args2 \cup {"i"}, RowsOf({-4, 3}, 2), 2)
HashPrograms ==
  [n \in {<<"hash", first \o path, mode0>> :
            first \in {"init", "first", "strict"}, path \in {"inline", "call"}, mode0 \in {"reg", "cell"}} |->
     TwoHashes(IF n[2] \in {"initinline", "initcall"} THEN "init" ELSE "first", n[2] \in {"strictinline", "strictcall"},
               IF n[2] \in {"initinline", "firstinline", "strictinline"} THEN "inline" ELSE "call", n[3] = "reg")]

MCPrograms ==
  KernelPrograms @@ FlowPrograms @@ CasePrograms @@ InPrograms @@ CallPrograms @@ ComparePrograms
    @@ AggPrograms @@ HashPrograms
(***************************************************************************)
(* What the theorems of SearchProofs suppose, for the programs above.      *)
(***************************************************************************)
Search == INSTANCE Searches
CasesFound(p) == LET found == DetectCaseBsearch(p.steps, p.init) IN {found[k] : k \in DOMAIN found}
ListsOf(p) == {p.steps[i] : i \in {i \in DOMAIN p.steps : p.steps[i].opc = "HASHED_SAOP"}}
FirstColumn(p) == {r.tuple["s1"][1].v : r \in {r \in p.rows : ~r.tuple["s1"][1].n}}
ASSUME BranchesAreInOrder ==
  \A name \in DOMAIN CasePrograms : \A info \in CasesFound(CasePrograms[name]) :
     /\ \A v \in FirstColumn(CasePrograms[name]) : Search!KeysAreValues(info, v)
     /\ info.fn.what = "eq" => Search!BranchesAreSorted(info)
     /\ info.hasmin => Search!RangesAreProper(info)
ASSUME ListsAreSorted ==
  \A name \in DOMAIN InPrograms : \A op \in ListsOf(InPrograms[name]) :
     /\ Search!ListIsSorted(op)
     /\ op.ty \in Search!Int32HashTypes =>
          \A x \in FirstColumn(InPrograms[name]) : Search!KeptIn32Bits(Search!Sorted(op), x)

(***************************************************************************)
(* Certificates for the theorems about Conditions.  The values a cell may  *)
(* hold before a step are those it may hold after the steps before it.     *)
(***************************************************************************)
Ext == INSTANCE SequencesExt
StoresIn(op, c) == op.opc \in Storing /\ c = op.res
NonNull(rs) == {r.v : r \in {r \in rs : ~r.n}}
Stored(p, op, ty) ==
  CASE op.opc \in {"VAR", "ASSIGN_VAR"} -> NonNull({t[op.att] : t \in TuplesOf(p)})
    [] op.opc = "ASSIGN_TMP" -> {IF op.readonly THEN MakeReadOnly(v) ELSE v : v \in ty["state"]}
    [] op.opc = "CONST" -> NonNull({op})
    [] op.opc = "FUNCEXPR" -> NonNull({r \in {Answers(op, x) : x \in ArgumentsOf(op, ty)} : ~IsErr(r)})
    [] op.opc = "QUAL" -> {0} \cup ty[op.res]
    [] OTHER -> {0, 1}
\* A cell is known before a step if each way there leaves it a value:
\* known has pairs of a step and a cell, values triples with a value.  Cells
\* that no step stores into keep what they are given.
TypesBefore(found, i) ==
  [c \in {x[2] : x \in {x \in found.known : x[1] = i}} |-> {x[3] : x \in {x \in found.values : x[1] = i /\ x[2] = c}}]
FirstTypes(p) ==
  LET kept == {c \in DOMAIN p.init : \A i \in DOMAIN p.steps : ~StoresIn(p.steps[i], c)}
  IN  [known |-> {<<1, c>> : c \in kept}, values |-> {<<1, c, p.init[c].v>> : c \in {c \in kept : ~p.init[c].n}}]
AfterStep(p, found, i, c) ==
  IF StoresIn(p.steps[i], c) THEN Stored(p, p.steps[i], TypesBefore(found, i)) ELSE TypesBefore(found, i)[c]
WithStep(p, found, t) ==
  LET from == {i \in 1..(t - 1) : t \in Follows(p.steps, i)}
      known == {c \in DOMAIN p.init : \A i \in from : StoresIn(p.steps[i], c) \/ <<i, c>> \in found.known}
  IN  [known |-> found.known \cup {<<t, c>> : c \in known},
       values |-> found.values \cup UNION {{<<t, c, v>> : v \in AfterStep(p, found, i, c)} : i \in from, c \in known}]
TypesOf(p) ==
  LET found == Ext!FoldLeft(LAMBDA f, t : WithStep(p, f, t), FirstTypes(p), [k \in 1..(Len(p.steps) - 1) |-> k + 1])
  IN  [i \in DOMAIN p.steps |-> TypesBefore(found, i)]
Connects(p, i, f, place) ==
  p.steps[i].opc \in {"BOOL_AND", "BOOL_OR"} /\ p.steps[i].any = f /\ p.steps[i].place = place
FlagsOf(p) ==
  [i \in DOMAIN p.steps |->
     {f \in p.anys : /\ \E k \in 1..(i - 1) : Connects(p, k, f, "first")
                     /\ \E k \in i..Len(p.steps) : Connects(p, k, f, "last")}]
\* Divisions of floats are left out as above; so are system columns, and
\* what pg_jitter_fallback_step leaves behind in other cells.
Conditions == (DOMAIN KernelPrograms \ {<<"fn", "float", "div">>}) \cup (DOMAIN FlowPrograms \ {<<"flow", "project", "pairs">>})
LeavesMore(p) == \E i \in DOMAIN p.steps : p.steps[i].opc = "JUMP_IF_NOT_TRUE" \/ (p.steps[i].opc = "ASSIGN_TMP" /\ p.steps[i].readonly)
ASSUME ConditionsAreCertified ==
  \A name \in Conditions, be \in AllBackends :
     LET p == MCPrograms[name] IN (be = "fallback" /\ LeavesMore(p)) \/ Certified(p, be, TypesOf(p), FlagsOf(p))
=============================================================================
