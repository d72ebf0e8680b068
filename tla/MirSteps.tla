------------------------------ MODULE MirSteps ------------------------------
(***************************************************************************)
(* What the code the MIR backend generates for a step does: the cases of   *)
(* the switch in mir_compile_expr.  Differences from the sljit backend:    *)
(* nothing is cached between steps, columns are copied one by one, few     *)
(* functions are inline, and a large part of the switch is compiled out    *)
(* (the #if 0 that disables the domain cases ends a thousand lines later), *)
(* so many opcodes are executed by pg_jitter_fallback_step.                *)
(***************************************************************************)
EXTENDS FallbackSteps, InLists

(***************************************************************************)
(* Columns and constants.                                                  *)
(***************************************************************************)
MirDone(m, op) == Goto(m, Returned)
MirFetchSome(m, op) ==
  LET s == SlotOf(m, op) IN Skip(IF m.tts[s].nvalid >= op.last THEN m ELSE GetSomeAttrs(m, s, op.last))
MirVar(m, op) == LET s == m.tts[SlotOf(m, op)] IN Skip(SetRes(m, op.res, s.val[op.att], s.nul[op.att]))
MirAssignVar(m, op) == LET s == m.tts[SlotOf(m, op)] IN Skip(SetRes(m, op.res, s.val[op.att], s.nul[op.att]))
MirAssignTmp(m, op) ==
  LET r == Res(m, "state")
  IN  Skip(SetRes(m, op.res, IF op.readonly /\ ~r.n THEN MakeReadOnly(r.v) ELSE r.v, r.n))
MirConst(m, op) == Skip(SetRes(m, op.res, op.v, op.n))

(***************************************************************************)
(* Inline functions: instructions with an overflow flag, signed            *)
(* comparisons at 32 or 64 bits.                                           *)
(***************************************************************************)
MirInt4Arith(what, a, b) ==
  LET r == CASE what = "add" -> a + b [] what = "sub" -> a - b [] OTHER -> a * b
  IN  IF Wrap(Bits4, r) # r THEN Error ELSE Ok(Wrap(Bits4, r))
MirInt8Arith(what, a, b) ==
  LET r == CASE what = "add" -> a + b [] what = "sub" -> a - b [] OTHER -> a * b
  IN  IF Wrap(Bits8, r) # r THEN Error ELSE Ok(r)
MirInt4Div(a, b) ==
  IF b = 0 \/ (b = -1 /\ a = MinOf(Bits4)) THEN Error ELSE Ok(Wrap(Bits4, Quot(a, b)))
MirInt4Mod(a, b) == IF b = 0 THEN Error ELSE IF a = MinOf(Bits4) /\ b = -1 THEN Ok(0) ELSE Ok(Wrap(Bits4, Rem(a, b)))
MirCompare(what, a, b) ==
  Truth(CASE what = "eq" -> a = b [] what = "ne" -> a # b [] what = "lt" -> a < b
          [] what = "le" -> a <= b [] what = "gt" -> a > b [] OTHER -> a >= b)
MirInt4Cmp(what, a, b) == MirCompare(what, Wrap(Bits4, a), Wrap(Bits4, b))
MirInt8Cmp(what, a, b) == MirCompare(what, a, b)
MirBoolCmp3(a, b) == Ok(BoolDatum(a # 0) - BoolDatum(b # 0))
MirInt8Cmp3(a, b) == Ok(BoolDatum(a > b) - BoolDatum(a < b))
\* Text equality: same pointer, lengths and bytes of short texts, or a call.
MirTextEq(a, b) ==
  \/ a = b
  \/ IF TextOf[a].form = "short" /\ TextOf[b].form = "short"
     THEN TextOf[a].body = TextOf[b].body ELSE PgTextEq(a, b)
MirInlineOps ==
  [ty : {"int4", "int8"}, what : {"add", "sub", "mul"} \cup Comparisons]
    \cup [ty : {"int4"}, what : {"div", "mod"}] \cup {[ty |-> "bool", what |-> "cmp3"], [ty |-> "int8", what |-> "cmp3"]}
    \cup [ty : {"text"}, what : {"eq", "ne"}]
MirInlineOp(k, x) ==
  LET a == x[1]  b == x[2]
  IN  CASE k.ty = "text" -> Truth(MirTextEq(a, b) = (k.what = "eq"))
        [] k.ty = "bool" -> MirBoolCmp3(a, b)
        [] k.ty = "int8" /\ k.what = "cmp3" -> MirInt8Cmp3(a, b)
        [] k.ty = "int4" /\ k.what = "div" -> MirInt4Div(a, b)
        [] k.ty = "int4" /\ k.what = "mod" -> MirInt4Mod(a, b)
        [] k.ty = "int4" /\ k.what \in Comparisons -> MirInt4Cmp(k.what, a, b)
        [] k.ty = "int8" /\ k.what \in Comparisons -> MirInt8Cmp(k.what, a, b)
        [] k.ty = "int4" /\ k.what \in {"add", "sub", "mul"} -> MirInt4Arith(k.what, a, b)
        [] OTHER -> MirInt8Arith(k.what, a, b)

(***************************************************************************)
(* Calls.                                                                  *)
(***************************************************************************)
MirArgValues(m, op) == [i \in DOMAIN op.args |-> m.val[op.args[i]]]
MirStrictNull(m, op) == Skip(SetNul(m, op.res, TRUE))
MirCallDirect(m, op) == StoreNotNull(m, op.res, Apply(op.fn, [i \in DOMAIN op.args |-> Ok(m.val[op.args[i]])]))
MirCallV1(m, op) == StoreCall(m, op.res, Apply(op.fn, Args(m, op)))
MirLikeHelper(m, op) == StoreNotNull(m, op.res, Truth(op.helper[m.val[op.args[1]]] # op.negate))
MirRegex(m, op) == StoreNotNull(m, op.res, Truth(op.matchtext[m.val[op.args[1]]] # op.negate))
MirJsonbField(m, op) ==
  StoreCall(m, op.res, Apply(op.fn, Args(m, op)))
\* An inline operation of sljit that MIR does not have is a direct call.
MirFuncExpr(m, op) ==
  IF op.strict /\ AnyArgNull(m, op) THEN MirStrictNull(m, op)
  ELSE CASE op.path = "inline" /\ op.fn \in MirInlineOps -> StoreNotNull(m, op.res, MirInlineOp(op.fn, MirArgValues(m, op)))
         [] op.path = "direct" \/ (op.path = "inline" /\ op.fn \notin MirInlineOps) -> MirCallDirect(m, op)
         [] op.path \in {"like", "prefix"} -> MirLikeHelper(m, op)
         [] op.path = "regex" -> MirRegex(m, op)
         [] op.path = "jsonb" -> MirJsonbField(m, op)
         [] OTHER -> MirCallV1(m, op)

(***************************************************************************)
(* Booleans and jumps.                                                     *)
(***************************************************************************)
MirBoolAnd(m, op) ==
  LET m1 == IF op.place = "first" THEN [m EXCEPT !.any[op.any] = FALSE] ELSE m
      m2 == IF m.nul[op.res] THEN [m1 EXCEPT !.any[op.any] = TRUE] ELSE m1
  IN  IF ~m.nul[op.res] /\ m.val[op.res] = 0 THEN Goto(m2, op.jump)
      ELSE IF op.place = "last" /\ m2.any[op.any] THEN Skip(SetRes(m2, op.res, 0, TRUE))
      ELSE Skip(m2)
MirBoolOr(m, op) ==
  LET m1 == IF op.place = "first" THEN [m EXCEPT !.any[op.any] = FALSE] ELSE m
      m2 == IF m.nul[op.res] THEN [m1 EXCEPT !.any[op.any] = TRUE] ELSE m1
  IN  IF ~m.nul[op.res] /\ m.val[op.res] # 0 THEN Goto(m2, op.jump)
      ELSE IF op.place = "last" /\ m2.any[op.any] THEN Skip(SetRes(m2, op.res, 0, TRUE))
      ELSE Skip(m2)
MirBoolNot(m, op) == Skip(SetVal(m, op.res, NotDatum(m.val[op.res])))
MirQual(m, op) ==
  IF m.nul[op.res] \/ m.val[op.res] = 0 THEN Goto(SetRes(m, op.res, 0, FALSE), op.jump) ELSE Skip(m)
MirJump(m, op) == Goto(m, op.jump)
MirJumpIfNull(m, op) == JumpIf(m, m.nul[op.res], op.jump)
MirJumpIfNotNull(m, op) == JumpIf(m, ~m.nul[op.res], op.jump)
MirJumpIfNotTrue(m, op) == JumpIf(m, m.nul[op.res] \/ m.val[op.res] = 0, op.jump)
MirNullTest(m, op) == Skip(SetRes(m, op.res, BoolDatum(m.nul[op.res] = op.isnull), FALSE))
\* A non-NULL value stays for IS TRUE and IS NOT FALSE.
MirBoolTest(m, op) ==
  IF m.nul[op.res] THEN Skip(SetRes(m, op.res, BoolDatum(op.negated), FALSE))
  ELSE IF op.truth # op.negated THEN Skip(m) ELSE Skip(SetVal(m, op.res, NotDatum(m.val[op.res])))

(***************************************************************************)
(* Values of the context, comparisons, coercions.                          *)
(***************************************************************************)
MirCaseTestVal(m, op) ==
  LET r == IF op.src = "econtext" THEN m.ec.case ELSE Res(m, op.src) IN Skip(SetRes(m, op.res, r.v, r.n))
MirSysVar(m, op) == Skip(SetRes(m, op.res, m.tts[SlotOf(m, op)].sys[op.att], FALSE))
MirParamExec(m, op) ==
  LET p == m.ec.param[op.param]
  IN  IF p.lazy THEN InterpParamExec(m, op) ELSE Skip(SetRes(m, op.res, p.v, p.n))
MirAggRef(m, op) == Skip(SetRes(m, op.res, m.ec.agg[op.aggno].v, m.ec.agg[op.aggno].n))
MirWindowFunc(m, op) == LET r == m.ec.agg[m.ec.wfuncno] IN Skip(SetRes(m, op.res, r.v, r.n))
MirReturningExpr(m, op) ==
  IF op.nullflag \in m.ec.flags THEN Goto(SetRes(m, op.res, 0, TRUE), op.jump) ELSE Skip(m)
MirIoCoerce(m, op) ==
  IF m.nul[op.res] THEN Skip(m)
  ELSE StoreCall(m, op.res, InputOf(op.infn, Call1(op.outfn, m.val[op.res])))
MirStoreSoft(m, c, r) == IF IsErr(r) THEN Skip(SetRes(m, c, 0, TRUE)) ELSE Skip(SetRes(m, c, r.v, r.n))
MirReadSafe(m, op, str) == IF IsErr(str) THEN Raise(m) ELSE MirStoreSoft(m, op.res, Call1(op.infn, str.v))
MirIoCoerceSafe(m, op) ==
  IF m.nul[op.res] THEN Skip(m) ELSE MirReadSafe(m, op, Call1(op.outfn, m.val[op.res]))
MirCompared(m, op, r) ==
  IF IsErr(r) THEN Raise(m)
  ELSE IF r.n THEN Goto(SetRes(m, op.res, r.v, TRUE), op.jumpnull)
  ELSE JumpIf(SetRes(m, op.res, r.v, FALSE), r.v # 0, op.jump)
MirRowCompareStep(m, op) ==
  IF op.strict /\ AnyArgNull(m, op) THEN Goto(SetNul(m, op.res, TRUE), op.jumpnull)
  ELSE MirCompared(m, op, Apply(op.fn, Args(m, op)))
MirRowCompareFinal(m, op) == Skip(SetRes(m, op.res, BoolDatum(CompareHolds(op.cmptype, m.val[op.res])), FALSE))
MirMinMax(m, op) ==
  LET best[i \in 0..Len(op.args)] ==
        IF i = 0 THEN [v |-> m.val[op.res], n |-> TRUE]
        ELSE LET p == best[i - 1]  e == Res(m, op.args[i])
                 cmp == IF p.v > e.v THEN 1 ELSE IF p.v < e.v THEN -1 ELSE 0
             IN  IF e.n THEN p ELSE IF p.n \/ (IF op.least THEN cmp > 0 ELSE cmp < 0) THEN e ELSE p
      r == best[Len(op.args)]
  IN  IF Len(op.args) > 4 THEN InterpMinMax(m, op) ELSE Skip(SetRes(m, op.res, r.v, r.n))
MirGroupingFunc(m, op) ==
  LET bits[i \in 0..Len(op.clauses)] ==
        IF i = 0 THEN 0 ELSE 2 * bits[i - 1] + BoolDatum(op.clauses[i] \notin m.ec.grouped)
  IN  IF Len(op.clauses) > 8 THEN InterpGroupingFunc(m, op)
      ELSE Skip(SetRes(m, op.res, bits[Len(op.clauses)], FALSE))

(***************************************************************************)
(* IN lists: a tree of comparisons for a constant list of a raw type, a    *)
(* table for texts, or the executor's lookup.                              *)
(***************************************************************************)
MirStoreFound(m, op, found) ==
  IF m.nul[op.args[1]] THEN Skip(SetRes(m, op.res, 0, TRUE))
  ELSE IF found THEN Skip(SetRes(m, op.res, BoolDatum(op.inclause), FALSE))
  ELSE IF ListHasNulls(op.array) THEN Skip(SetRes(m, op.res, 0, TRUE))
  ELSE Skip(SetRes(m, op.res, BoolDatum(~op.inclause), FALSE))
MirExtractList(op) ==
  IF op.const /\ op.ty \in RawDatumTypes /\ Len(op.array) \in 1..op.max
  THEN SortRawDatums(ListValues(op.array)) ELSE <<>>
MirListPath(op) ==
  LET vals == MirExtractList(op)
      t == IF op.const /\ op.ty = "text" /\ op.texthash THEN TextHashBuildFromArray(op) ELSE <<>>
  IN  IF vals # <<>> THEN [path |-> "tree", list |-> vals]
      ELSE IF t # <<>> THEN [path |-> "text", list |-> t] ELSE [path |-> "call", list |-> <<>>]
MirInTree(vals, x) ==
  LET node[r \in (1..(Len(vals) + 1)) \X (0..Len(vals))] ==
        LET lo == r[1]  hi == r[2]  mid == lo + (hi - lo) \div 2
        IN  \/ lo = hi /\ x = vals[lo]
            \/ lo < hi /\ (x = vals[mid] \/ node[IF x < vals[mid] THEN <<lo, mid - 1>> ELSE <<mid + 1, hi>>])
  IN  node[<<1, Len(vals)>>]
MirTreeSearch(m, op) == MirStoreFound(m, op, MirInTree(op.plan.list, m.val[op.args[1]]))
MirTextSearch(m, op) ==
  MirStoreFound(m, op, ~m.nul[op.args[1]] /\ TextHashProbe(op.plan.list, m.val[op.args[1]]))
MirHashedSaop(m, op) ==
  CASE op.plan.path = "tree" -> MirTreeSearch(m, op)
    [] op.plan.path = "text" -> MirTextSearch(m, op)
    [] OTHER -> InterpHashedSaop(m, op)
MirScalarArrayOp(m, op) == IF m.nul[op.res] THEN Skip(m) ELSE Skip(ScalarArrayOpLoop(m, op))

(***************************************************************************)
(* Steps that call the executor.                                           *)
(***************************************************************************)
MirFieldSelect(m, op) == IF m.nul[op.res] THEN Skip(m) ELSE StoreCall(m, op.res, Call1(op.fn, m.val[op.res]))
MirArrayExpr(m, op) ==
  IF ~op.multidims /\ op.byval /\ Len(op.args) \in 1..64 /\ ~AnyArgNull(m, op)
  THEN Skip(SetRes(m, op.res, Apply(op.fn, Args(m, op)).v, FALSE)) ELSE InterpHelper(m, op)
MirSqlValue(m, op) == IF op.getter THEN StoreNotNull(m, op.res, Apply(op.fn, <<>>)) ELSE InterpHelper(m, op)
MirIsJson(m, op) ==
  IF ~op.text THEN InterpHelper(m, op)
  ELSE IF m.nul[op.res] THEN Skip(SetRes(m, op.res, 0, TRUE)) ELSE StoreNotNull(m, op.res, Call1(op.fn, m.val[op.res]))
MirSubscripts(m, op) ==
  JumpUnless(m, Apply(op.fn, Args(m, op)), op.jump)
MirSbsref(m, op) == StoreCall(m, op.res, Apply(op.fn, Args(m, op)))
MirJsonPath(m, op) == StoreAndJump(m, op, Apply(op.fn, Args(m, op)))
MirHelper2(m, op) == InterpHelper(m, op)
MirParamCallback(m, op) == InterpHelper(m, op)

(***************************************************************************)
(* Hashes and aggregates.                                                  *)
(***************************************************************************)
MirHashInit(m, op) == Skip(SetRes(m, op.res, op.v, FALSE))
MirHashFirst(m, op) == Skip(SetRes(m, op.res, IF AnyArgNull(m, op) THEN 0 ELSE HashOf(m, op), FALSE))
MirHashFirstStrict(m, op) ==
  IF AnyArgNull(m, op) THEN Goto(SetRes(m, op.res, 0, TRUE), op.jump) ELSE Skip(SetRes(m, op.res, HashOf(m, op), FALSE))
MirHashNext(m, op) ==
  LET h == Rotl(m.val[op.src])
  IN  Skip(SetRes(m, op.res, IF AnyArgNull(m, op) THEN h ELSE Xor(h, HashOf(m, op)), FALSE))
MirHashNextStrict(m, op) ==
  IF AnyArgNull(m, op) THEN Goto(SetRes(m, op.res, 0, TRUE), op.jump)
  ELSE Skip(SetRes(m, op.res, Xor(Rotl(m.val[op.src]), HashOf(m, op)), FALSE))
MirPresorted(m, op) == InterpPresorted(m, op)
MirCount(m, op) ==
  LET r == m.grp[op.grp].v + 1 IN IF Wrap(Bits8, r) # r THEN Raise(m) ELSE Skip(SetTrans(m, op.grp, r, FALSE))
MirInt4Sum(m, op) ==
  LET g == m.grp[op.grp]  new == Res(m, op.args[1])  v == Wrap(Bits4, new.v)
  IN  IF new.n THEN Skip(m)
      ELSE IF g.n THEN Skip(SetTrans(m, op.grp, v, FALSE))
      ELSE Skip([m EXCEPT !.grp[op.grp].v = Wrap(Bits8, @ + v)])
MirInt4MinMax(m, op) ==
  LET c == Wrap(Bits4, m.grp[op.grp].v)  v == Wrap(Bits4, m.val[op.args[1]])
  IN  Skip(SetTrans(m, op.grp, IF (IF op.least THEN c <= v ELSE c >= v) THEN m.grp[op.grp].v ELSE v, FALSE))
MirIntAvg(m, op) ==
  LET w == IF op.fn.ty = "int2" THEN Bits2 ELSE Bits4
  IN  Skip(SetTrans(m, op.grp, m.grp[op.grp].v + 100 + Wrap(w, m.val[op.args[1]]), FALSE))
MirAggTrans(m, op) ==
  IF op.init /\ m.grp[op.grp].no THEN InitGroup(m, op)
  ELSE IF op.strict /\ m.grp[op.grp].n THEN Skip(m)
  ELSE CASE op.path = "count" -> MirCount(m, op)
         [] op.path = "int_sum" /\ op.fn.ty = "int4" -> MirInt4Sum(m, op)
         [] op.path = "minmax" /\ op.fn.ty = "int4" -> MirInt4MinMax(m, op)
         [] op.path = "int_avg" -> MirIntAvg(m, op)
         [] OTHER -> AggTransCall(m, op)

\* The search injected after the step that loads the variable.
MirCaseSearch(m, var, else, info, found) ==
  IF m.nul[var] THEN Goto(SetRes(m, else, info.default, FALSE), info.end)
  ELSE Goto(SetRes(m, else, found, FALSE), info.end)

\* The switch.  The opcodes of the compiled-out part are left to the
\* fallback, whose answer is a jump to any step.
MirBoolean(m, op) ==
  CASE op.opc = "BOOL_AND" -> MirBoolAnd(m, op) [] op.opc = "BOOL_OR" -> MirBoolOr(m, op)
    [] op.opc = "BOOL_NOT" -> MirBoolNot(m, op) [] op.opc = "QUAL" -> MirQual(m, op)
    [] op.opc = "JUMP" -> MirJump(m, op) [] op.opc = "JUMP_IF_NULL" -> MirJumpIfNull(m, op)
    [] op.opc = "JUMP_IF_NOT_NULL" -> MirJumpIfNotNull(m, op)
    [] op.opc = "JUMP_IF_NOT_TRUE" -> MirJumpIfNotTrue(m, op)
    [] op.opc = "NULLTEST" -> MirNullTest(m, op) [] OTHER -> MirBoolTest(m, op)
MirColumn(m, op) ==
  CASE op.opc = "DONE" -> MirDone(m, op) [] op.opc = "FETCHSOME" -> MirFetchSome(m, op)
    [] op.opc = "VAR" -> MirVar(m, op) [] op.opc = "ASSIGN_VAR" -> MirAssignVar(m, op)
    [] op.opc = "ASSIGN_TMP" -> MirAssignTmp(m, op) [] op.opc = "CONST" -> MirConst(m, op)
    [] op.opc = "SYSVAR" -> MirSysVar(m, op) [] OTHER -> FallbackColumn(m, op)
MirContext(m, op) ==
  CASE op.opc = "CASE_TESTVAL" -> MirCaseTestVal(m, op)
    [] op.opc = "PARAM_EXEC" -> MirParamExec(m, op) [] op.opc = "AGGREF" -> MirAggRef(m, op)
    [] op.opc = "WINDOW_FUNC" -> MirWindowFunc(m, op) [] op.opc = "RETURNINGEXPR" -> MirReturningExpr(m, op)
    [] op.opc = "GROUPING_FUNC" -> MirGroupingFunc(m, op) [] OTHER -> FallbackContext(m, op)
MirComparison(m, op) ==
  CASE op.opc = "ROWCOMPARE_STEP" -> MirRowCompareStep(m, op)
    [] op.opc = "ROWCOMPARE_FINAL" -> MirRowCompareFinal(m, op) [] op.opc = "MINMAX" -> MirMinMax(m, op)
    [] op.opc = "SCALARARRAYOP" -> MirScalarArrayOp(m, op) [] op.opc = "HASHED_SAOP" -> MirHashedSaop(m, op)
    [] OTHER -> FallbackCompare(m, op)
MirCall(m, op) ==
  CASE op.opc = "FUNCEXPR" -> MirFuncExpr(m, op)
    [] op.opc = "IOCOERCE" -> MirIoCoerce(m, op) [] op.opc = "IOCOERCE_SAFE" -> MirIoCoerceSafe(m, op)
    [] op.opc = "FIELDSELECT" -> MirFieldSelect(m, op) [] op.opc = "ARRAYEXPR" -> MirArrayExpr(m, op)
    [] op.opc = "SQLVALUE" -> MirSqlValue(m, op) [] op.opc = "IS_JSON" -> MirIsJson(m, op)
    [] op.opc = "SUBSCRIPTS" -> MirSubscripts(m, op) [] op.opc = "SBSREF" -> MirSbsref(m, op)
    [] op.opc = "JSON_PATH" -> MirJsonPath(m, op) [] op.opc = "PARAM_CALLBACK" -> MirParamCallback(m, op)
    [] op.opc = "HELPER" /\ op.nargs = 2 -> MirHelper2(m, op) [] OTHER -> FallbackCall(m, op)
MirHash(m, op) ==
  CASE op.opc = "HASH_INIT" -> MirHashInit(m, op) [] op.opc = "HASH_FIRST" -> MirHashFirst(m, op)
    [] op.opc = "HASH_FIRST_STRICT" -> MirHashFirstStrict(m, op) [] op.opc = "HASH_NEXT" -> MirHashNext(m, op)
    [] OTHER -> MirHashNextStrict(m, op)
MirAggregate(m, op) ==
  CASE op.opc = "PRESORTED" -> MirPresorted(m, op) [] op.opc = "AGG_TRANS" -> MirAggTrans(m, op)
    [] OTHER -> FallbackAggregate(m, op)
=============================================================================
