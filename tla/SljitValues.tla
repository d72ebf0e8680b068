---------------------------- MODULE SljitValues ----------------------------
(***************************************************************************)
(* The remaining cases of sljit_compile_expr: values of the context,       *)
(* coercions, comparisons, IN lists, domains, and the steps that call a    *)
(* function of the executor.                                               *)
(***************************************************************************)
EXTENDS SljitAggs, InLists

(***************************************************************************)
(* Values of the context.                                                  *)
(***************************************************************************)
\* The test value is in a cell, or in the context when the cell is NULL
\* or the step is the EXT variant.
SljitCaseTestVal(m, op) ==
  LET r == IF op.src = "econtext" THEN m.ec.case ELSE Res(m, op.src)
  IN  Skip(SetRes(m, op.res, r.v, r.n))
SljitDomainTestVal(m, op) ==
  LET r == IF op.src = "econtext" THEN m.ec.domain ELSE Res(m, op.src)
  IN  Skip(SetRes(m, op.res, r.v, r.n))
\* tableoid and ctid are read from the slot, the others by ExecEvalSysVar.
SljitSysVar(m, op) ==
  IF op.att \in {"tableoid", "ctid"}
  THEN Skip(SetRes(m, op.res, m.tts[SlotOf(m, op)].sys[op.att], FALSE))
  ELSE InterpSysVar(m, op)
\* A parameter that still has a plan to run goes to ExecEvalParamExec.
SljitParamExec(m, op) ==
  LET p == m.ec.param[op.param]
  IN  IF p.lazy THEN InterpParamExec(m, op) ELSE Skip(SetRes(m, op.res, p.v, p.n))
SljitAggRef(m, op) == Skip(SetRes(m, op.res, m.ec.agg[op.aggno].v, m.ec.agg[op.aggno].n))
SljitWindowFunc(m, op) ==
  LET r == m.ec.agg[m.ec.wfuncno] IN Skip(SetRes(m, op.res, r.v, r.n))
SljitReturningExpr(m, op) ==
  IF op.nullflag \in m.ec.flags THEN Goto(SetRes(m, op.res, 0, TRUE), op.jump) ELSE Skip(m)
\* The null flag is stored first, the value only when it is not NULL.
SljitMakeReadOnly(m, op) ==
  LET m1 == SetNul(m, op.res, m.nul[op.src])
  IN  IF m.nul[op.src] THEN Skip(m1)
      ELSE Skip(SetVal(m1, op.res, MakeReadOnly(m.val[op.src])))

(***************************************************************************)
(* Coercions.                                                              *)
(***************************************************************************)
SljitIoCoerce(m, op) ==
  IF m.nul[op.res] THEN Skip(m)
  ELSE StoreCall(m, op.res, InputOf(op.infn, Call1(op.outfn, m.val[op.res])))
SljitStoreSoft(m, c, r) ==
  IF IsErr(r) THEN Skip(SetVal(SetNul(m, c, TRUE), c, 0)) ELSE Skip(SetRes(m, c, r.v, r.n))
SljitReadSafe(m, op, str) ==
  IF IsErr(str) THEN Raise(m) ELSE SljitStoreSoft(m, op.res, Call1(op.infn, str.v))
SljitIoCoerceSafe(m, op) ==
  IF m.nul[op.res] THEN Skip(m) ELSE SljitReadSafe(m, op, Call1(op.outfn, m.val[op.res]))
SljitCoercionFinish(m, op) == IF m.val[op.err] = 0 THEN Skip(m) ELSE InterpCoercionFinish(m, op)

(***************************************************************************)
(* Comparisons.                                                            *)
(***************************************************************************)
SljitBoolTest(m, op) ==
  IF m.nul[op.res] THEN Skip(SetRes(m, op.res, BoolDatum(op.negated), FALSE))
  ELSE LET t == BoolDatum(IsTrue(m.val[op.res]))
       IN  Skip(SetRes(m, op.res, IF op.truth = op.negated THEN 1 - t ELSE t, FALSE))
\* Different flags differ, two NULLs do not; otherwise the equality
\* function is asked and its answer negated for DISTINCT.
SljitDistinct(m, op) ==
  LET a == op.args[1]  b == op.args[2]
      eq == Apply(op.fn, Args(m, op))
      answer == IF m.nul[a] # m.nul[b] THEN 1 ELSE IF m.nul[a] THEN 0 ELSE NotDatum(eq.v)
  IN  Skip(SetRes(m, op.res, IF op.negated THEN NotDatum(answer) ELSE answer, FALSE))
\* Equal: only the null flag is stored.
SljitNullIf(m, op) ==
  LET a == op.args[1]  b == op.args[2]
      keep == Skip(SetRes(m, op.res, m.val[a], m.nul[a]))
  IN  IF m.nul[a] \/ m.nul[b] THEN keep
      ELSE IF ~Holds(Apply(op.fn, Args(m, op))) THEN keep
      ELSE Skip(SetNul(m, op.res, TRUE))
\* The value is stored before the null flag is looked at.
SljitCompared(m, op, r) ==
  LET m1 == SetVal(m, op.res, r.v)
  IN  IF IsErr(r) THEN Raise(m)
      ELSE IF r.n THEN Goto(SetNul(m1, op.res, TRUE), op.jumpnull)
      ELSE JumpIf(SetNul(m1, op.res, FALSE), r.v # 0, op.jump)
SljitRowCompareStep(m, op) ==
  IF op.strict /\ AnyArgNull(m, op) THEN Goto(SetNul(m, op.res, TRUE), op.jumpnull)
  ELSE SljitCompared(m, op, Apply(op.fn, Args(m, op)))
SljitRowCompareFinal(m, op) ==
  Skip(SetRes(m, op.res, BoolDatum(CompareHolds(op.cmptype, m.val[op.res])), FALSE))
\* GREATEST and LEAST of at most four elements, unrolled; the comparison
\* function's own null flag is not read.
SljitMinMax(m, op) ==
  LET best[i \in 0..Len(op.args)] ==
        IF i = 0 THEN [v |-> m.val[op.res], n |-> TRUE]
        ELSE LET p == best[i - 1]  e == Res(m, op.args[i])
             IN  IF e.n THEN p
                 ELSE IF p.n THEN e
                 ELSE IF op.least THEN (IF p.v <= e.v THEN p ELSE e)
                 ELSE (IF p.v >= e.v THEN p ELSE e)
      r == best[Len(op.args)]
  IN  IF Len(op.args) > 4 THEN InterpMinMax(m, op) ELSE Skip(SetRes(m, op.res, r.v, r.n))
\* GROUPING() of at most eight columns, a bit each.
SljitGroupingFunc(m, op) ==
  LET bits[i \in 0..Len(op.clauses)] ==
        IF i = 0 THEN 0 ELSE 2 * bits[i - 1] + (IF op.clauses[i] \in m.ec.grouped THEN 0 ELSE 1)
  IN  IF Len(op.clauses) > 8 THEN InterpGroupingFunc(m, op)
      ELSE Skip(SetRes(m, op.res, bits[Len(op.clauses)], FALSE))

(***************************************************************************)
(* IN lists.                                                               *)
(***************************************************************************)
\* The values of a constant list of a raw type; none when it is too long.
SljitExtractList(op, max) ==
  IF op.const /\ op.ty \in RawDatumTypes /\ Len(op.array) <= max
  THEN SortRawDatums(ListValues(op.array)) ELSE <<>>
\* What a search leaves: NULL for a NULL scalar, NULL when nothing was
\* found and the list has a NULL.
SljitStoreFound(m, op, found) ==
  IF m.nul[op.args[1]] THEN Skip(SetRes(m, op.res, 0, TRUE))
  ELSE IF found THEN Skip(SetRes(m, op.res, BoolDatum(op.inclause), FALSE))
  ELSE IF ListHasNulls(op.array) THEN Skip(SetRes(m, op.res, 0, TRUE))
  ELSE Skip(SetRes(m, op.res, BoolDatum(~op.inclause), FALSE))
\* The list padded to whole registers with a value it does not have.
SljitPad(vals) ==
  LET candidate(k) == Wrap(Bits4, vals[1] + 2^(Bits4 - 1) + k * PadStep)
      absent(k) == \A i \in DOMAIN vals : Wrap(Bits4, vals[i]) # candidate(k)
      k == CHOOSE k \in 0..Len(vals) : absent(k) /\ \A l \in 0..(k - 1) : ~absent(l)
      size == Lanes * ((Len(vals) + Lanes - 1) \div Lanes)
  IN  [i \in 1..size |-> IF i <= Len(vals) THEN Wrap(Bits4, vals[i]) ELSE candidate(k)]
\* The path chosen while compiling, with what the code is generated from:
\* the padded list, the sorted list, or a table.
SljitListPath(op) ==
  LET hashes == ~op.shared /\ op.crc32 /\ op.ty \in Int32HashTypes
      vals == SljitExtractList(op, IF hashes THEN Len(op.array) ELSE op.max)
      Plan(path, list) == [path |-> path, list |-> list]
  IN  IF vals # <<>> /\ ~op.shared /\ Len(vals) <= op.simdmax /\ op.ty = "int4" THEN Plan("simd", SljitPad(vals))
      ELSE IF vals # <<>> /\ Len(vals) <= op.max THEN Plan("tree", vals)
      ELSE IF vals # <<>> /\ hashes THEN Plan("crc32", Crc32HashBuild([i \in DOMAIN vals |-> Wrap(Bits4, vals[i])]))
      ELSE IF op.ty = "text" /\ op.const /\ op.texthash /\ TextHashBuildFromArray(op) # <<>>
      THEN Plan("text", TextHashBuildFromArray(op))
      ELSE Plan("call", <<>>)
SljitSimdScan(m, op) ==
  LET padded == op.plan.list
      x == Wrap(Bits4, m.val[op.args[1]])
      chunk(c) == {padded[c * Lanes + l] : l \in 1..Lanes}
  IN  SljitStoreFound(m, op, \E c \in 0..(Len(padded) \div Lanes - 1) : x \in chunk(c))
\* The tree of comparisons: the middle of a range, then one half of it.
SljitInTree(vals, x) ==
  LET node[r \in (1..(Len(vals) + 1)) \X (0..Len(vals))] ==
        LET lo == r[1]  hi == r[2]  mid == lo + (hi - lo) \div 2
        IN  /\ lo <= hi
            /\ \/ x = vals[mid]
               \/ lo < hi /\ x < vals[mid] /\ node[<<lo, mid - 1>>]
               \/ lo < hi /\ x > vals[mid] /\ node[<<mid + 1, hi>>]
  IN  node[<<1, Len(vals)>>]
SljitTreeSearch(m, op) == SljitStoreFound(m, op, SljitInTree(op.plan.list, m.val[op.args[1]]))
SljitCrc32Search(m, op) == SljitStoreFound(m, op, Crc32HashProbe(op.plan.list, Wrap(Bits4, m.val[op.args[1]])))
SljitTextSearch(m, op) ==
  SljitStoreFound(m, op, ~m.nul[op.args[1]] /\ TextHashProbe(op.plan.list, m.val[op.args[1]]))
SljitHashedSaop(m, op) ==
  CASE op.plan.path = "simd" -> SljitSimdScan(m, op)
    [] op.plan.path = "tree" -> SljitTreeSearch(m, op)
    [] op.plan.path = "crc32" -> SljitCrc32Search(m, op)
    [] op.plan.path = "text" -> SljitTextSearch(m, op)
    [] OTHER -> InterpHashedSaop(m, op)
SljitScalarArrayOp(m, op) == IF m.nul[op.res] THEN Skip(m) ELSE Skip(ScalarArrayOpLoop(m, op))

(***************************************************************************)
(* Steps that call the executor.                                           *)
(***************************************************************************)
SljitFieldSelect(m, op) == IF m.nul[op.res] THEN Skip(m) ELSE StoreCall(m, op.res, Call1(op.fn, m.val[op.res]))
SljitConvertRowtype(m, op) == IF m.nul[op.res] THEN Skip(m) ELSE StoreCall(m, op.res, Call1(op.fn, m.val[op.res]))
\* nextval, narrowed to the type of the sequence.
SljitNextValue(m, op) == StoreNotNull(m, op.res, Narrowed(op.width, Apply(op.fn, <<>>)))
SljitRow(m, op) == StoreNotNull(m, op.res, Apply(op.fn, Args(m, op)))
\* A one-dimensional array of by-value elements, at most 64 of them and
\* none NULL, is laid out here; any other by ExecEvalArrayExpr.
SljitArrayExpr(m, op) ==
  LET fast == ~op.multidims /\ op.byval /\ Len(op.args) \in 1..64
  IN  IF fast /\ ~AnyArgNull(m, op)
      THEN Skip(SetNul(SetVal(m, op.res, Apply(op.fn, Args(m, op)).v), op.res, FALSE))
      ELSE InterpHelper(m, op)
\* The time of day is read by a getter, the session's names by the executor.
SljitSqlValue(m, op) ==
  IF op.getter THEN StoreNotNull(m, op.res, Apply(op.fn, <<>>)) ELSE InterpHelper(m, op)
SljitIsJson(m, op) ==
  IF ~op.text THEN InterpHelper(m, op)
  ELSE IF m.nul[op.res] THEN Skip(SetRes(m, op.res, 0, TRUE))
  ELSE StoreNotNull(m, op.res, Call1(op.fn, m.val[op.res]))
SljitDeserialize(m, op) ==
  IF op.strict /\ AnyArgNull(m, op) THEN Goto(m, op.jump) ELSE StoreCall(m, op.res, Apply(op.fn, Args(m, op)))
SljitDomainNotNull(m, op) == IF m.nul[op.res] THEN InterpDomainNotNull(m, op) ELSE Skip(m)
SljitDomainCheck(m, op) ==
  IF m.nul[op.check] \/ m.val[op.check] # 0 THEN Skip(m) ELSE InterpDomainCheck(m, op)
SljitSubscripts(m, op) ==
  JumpUnless(m, Apply(op.fn, Args(m, op)), op.jump)
SljitSbsref(m, op) == StoreCall(m, op.res, Apply(op.fn, Args(m, op)))
\* The step number returned is compared with each target the step has.
SljitDispatch(m, op, r) ==
  LET targets == {op.targets[t] : t \in DOMAIN op.targets}
  IN  IF IsErr(r) THEN Raise(m)
      ELSE IF op.targets[r.t] \in targets THEN Goto(SetRes(m, op.res, r.v, r.n), op.targets[r.t])
      ELSE Skip(SetRes(m, op.res, r.v, r.n))
SljitJsonPath(m, op) == SljitDispatch(m, op, Apply(op.fn, Args(m, op)))
\* One call with state, step and context, and nothing after it.
SljitHelper3(m, op) == InterpHelper(m, op)
SljitHelper2(m, op) == InterpHelper(m, op)
SljitParamCallback(m, op) == InterpHelper(m, op)
SljitWholeRow(m, op) == InterpHelper(m, op)

\* The switch.  A run of columns is emitted as one batch.
SljitBoolean(m, op) ==
  CASE op.opc = "BOOL_AND" -> SljitBoolAnd(m, op) [] op.opc = "BOOL_OR" -> SljitBoolOr(m, op)
    [] op.opc = "BOOL_NOT" -> SljitBoolNot(m, op) [] op.opc = "QUAL" -> SljitQual(m, op)
    [] op.opc = "JUMP" -> SljitJump(m, op) [] op.opc = "JUMP_IF_NULL" -> SljitJumpIfNull(m, op)
    [] op.opc = "JUMP_IF_NOT_NULL" -> SljitJumpIfNotNull(m, op)
    [] op.opc = "JUMP_IF_NOT_TRUE" -> SljitJumpIfNotTrue(m, op)
    [] op.opc = "NULLTEST" -> SljitNullTest(m, op) [] OTHER -> SljitBoolTest(m, op)
SljitColumn(m, steps) ==
  LET op == steps[m.pc]
  IN  CASE op.opc = "DONE" -> SljitDone(m, op) [] op.opc = "FETCHSOME" -> SljitFetchSome(m, op)
        [] op.opc = "VAR" -> SljitVar(m, steps)
        [] op.opc = "ASSIGN_VAR" ->
             IF IsLoop(steps, m.pc) THEN SljitAssignVarLoop(m, steps) ELSE SljitAssignVar(m, steps)
        [] op.opc = "ASSIGN_TMP" -> SljitAssignTmp(m, op) [] op.opc = "CONST" -> SljitConst(m, op)
        [] op.opc = "SYSVAR" -> SljitSysVar(m, op) [] OTHER -> SljitMakeReadOnly(m, op)
SljitContext(m, op) ==
  CASE op.opc = "CASE_TESTVAL" -> SljitCaseTestVal(m, op) [] op.opc = "DOMAIN_TESTVAL" -> SljitDomainTestVal(m, op)
    [] op.opc = "PARAM_EXEC" -> SljitParamExec(m, op) [] op.opc = "AGGREF" -> SljitAggRef(m, op)
    [] op.opc = "WINDOW_FUNC" -> SljitWindowFunc(m, op) [] op.opc = "RETURNINGEXPR" -> SljitReturningExpr(m, op)
    [] OTHER -> SljitGroupingFunc(m, op)
SljitCompare(m, op) ==
  CASE op.opc = "DISTINCT" -> SljitDistinct(m, op) [] op.opc = "NULLIF" -> SljitNullIf(m, op)
    [] op.opc = "ROWCOMPARE_STEP" -> SljitRowCompareStep(m, op)
    [] op.opc = "ROWCOMPARE_FINAL" -> SljitRowCompareFinal(m, op) [] op.opc = "MINMAX" -> SljitMinMax(m, op)
    [] op.opc = "SCALARARRAYOP" -> SljitScalarArrayOp(m, op) [] op.opc = "HASHED_SAOP" -> SljitHashedSaop(m, op)
    [] op.opc = "DOMAIN_NOTNULL" -> SljitDomainNotNull(m, op) [] OTHER -> SljitDomainCheck(m, op)
SljitCall(m, op) ==
  CASE op.opc = "FUNCEXPR" -> SljitFuncExpr(m, op) [] op.opc = "COERCION_FINISH" -> SljitCoercionFinish(m, op)
    [] op.opc = "IOCOERCE" -> SljitIoCoerce(m, op) [] op.opc = "IOCOERCE_SAFE" -> SljitIoCoerceSafe(m, op)
    [] op.opc = "FIELDSELECT" -> SljitFieldSelect(m, op) [] op.opc = "CONVERT_ROWTYPE" -> SljitConvertRowtype(m, op)
    [] op.opc = "SUBSCRIPTS" -> SljitSubscripts(m, op) [] op.opc = "SBSREF" -> SljitSbsref(m, op)
    [] op.opc = "JSON_PATH" -> SljitJsonPath(m, op) [] op.opc = "PARAM_CALLBACK" -> SljitParamCallback(m, op)
    [] op.opc = "NEXTVALUE" -> SljitNextValue(m, op) [] op.opc = "ROW" -> SljitRow(m, op)
    [] op.opc = "ARRAYEXPR" -> SljitArrayExpr(m, op) [] op.opc = "SQLVALUE" -> SljitSqlValue(m, op)
    [] op.opc = "IS_JSON" -> SljitIsJson(m, op)
    [] OTHER -> IF op.nargs = 2 THEN SljitHelper2(m, op) ELSE SljitHelper3(m, op)
SljitHash(m, op) ==
  CASE op.opc = "HASH_INIT" -> SljitHashInit(m, op) [] op.opc = "HASH_FIRST" -> SljitHashFirst(m, op)
    [] op.opc = "HASH_FIRST_STRICT" -> SljitHashFirstStrict(m, op) [] op.opc = "HASH_NEXT" -> SljitHashNext(m, op)
    [] OTHER -> SljitHashNextStrict(m, op)
SljitAggregate(m, op) ==
  CASE op.opc = "DESERIALIZE" -> SljitDeserialize(m, op) [] op.opc = "STRICT_INPUT" -> SljitStrictInput(m, op)
    [] op.opc = "PERGROUP" -> SljitPerGroup(m, op) [] op.opc = "PRESORTED" -> SljitPresorted(m, op)
    [] OTHER -> SljitAggTrans(m, op)
=============================================================================
