--------------------------- MODULE FallbackSteps ---------------------------
(***************************************************************************)
(* pg_jitter_fallback_step: one step executed in C, for the opcodes a code *)
(* generator does not emit itself, and the helpers for aggregate           *)
(* transitions next to it (pg_jitter_common.c).  It returns the step to    *)
(* jump to, or -1: here the machine goes there or on.  Opcodes for which   *)
(* it calls the executor's own function are those of the interpreter.      *)
(***************************************************************************)
EXTENDS ExprMachine

(***************************************************************************)
(* Columns, constants and calls.                                           *)
(***************************************************************************)
FallbackFetchSome(m, op) ==
  IF m.tts[SlotOf(m, op)].nvalid < op.last THEN Skip(GetSomeAttrs(m, SlotOf(m, op), op.last)) ELSE Skip(m)
FallbackVar(m, op) ==
  LET s == m.tts[SlotOf(m, op)] IN Skip(SetRes(m, op.res, s.val[op.att], s.nul[op.att]))
FallbackAssignVar(m, op) ==
  LET s == m.tts[SlotOf(m, op)] IN Skip(SetRes(m, op.res, s.val[op.att], s.nul[op.att]))
\* The read-only pointer also replaces the state's own result.
FallbackAssignTmp(m, op) ==
  LET v == m.val["state"]
      m1 == IF op.readonly /\ ~m.nul["state"] THEN SetVal(m, "state", MakeReadOnly(v)) ELSE m
  IN  Skip(SetRes(m1, op.res, m1.val["state"], m1.nul["state"]))
FallbackConst(m, op) == Skip(SetRes(m, op.res, op.v, op.n))
FallbackMakeReadOnly(m, op) ==
  LET m1 == IF m.nul[op.src] THEN m ELSE SetVal(m, op.res, MakeReadOnly(m.val[op.src]))
  IN  Skip(SetNul(m1, op.res, m.nul[op.src]))
FallbackFuncExpr(m, op) ==
  IF op.strict /\ AnyArgNull(m, op) THEN Skip(SetNul(m, op.res, TRUE))
  ELSE StoreCall(m, op.res, Apply(op.fn, Args(m, op)))
FallbackIoCoerce(m, op) ==
  IF m.nul[op.res] THEN Skip(m)
  ELSE StoreCall(m, op.res, InputOf(op.infn, Call1(op.outfn, m.val[op.res])))

(***************************************************************************)
(* Booleans and jumps.                                                     *)
(***************************************************************************)
FallbackBool(m, op, decides) ==
  LET m1 == IF op.place = "first" THEN [m EXCEPT !.any[op.any] = FALSE] ELSE m
      m2 == IF m.nul[op.res] THEN [m1 EXCEPT !.any[op.any] = TRUE] ELSE m1
  IN  IF ~m.nul[op.res] /\ IsTrue(m.val[op.res]) = decides THEN Goto(m2, op.jump)
      ELSE IF op.place = "last" /\ m2.any[op.any] THEN Skip(SetRes(m2, op.res, 0, TRUE))
      ELSE Skip(m2)
FallbackBoolAnd(m, op) == FallbackBool(m, op, FALSE)
FallbackBoolOr(m, op) == FallbackBool(m, op, TRUE)
FallbackBoolNot(m, op) == Skip(SetVal(m, op.res, NotDatum(m.val[op.res])))
FallbackQual(m, op) ==
  IF m.nul[op.res] \/ ~IsTrue(m.val[op.res]) THEN Goto(SetRes(m, op.res, 0, FALSE), op.jump) ELSE Skip(m)
FallbackJump(m, op) ==
  CASE op.opc = "JUMP" -> Goto(m, op.jump)
    [] op.opc = "JUMP_IF_NULL" -> JumpIf(m, m.nul[op.res], op.jump)
    [] op.opc = "JUMP_IF_NOT_NULL" -> JumpIf(m, ~m.nul[op.res], op.jump)
    [] OTHER -> IF m.nul[op.res] \/ ~IsTrue(m.val[op.res])
                THEN Goto(SetRes(m, op.res, 0, FALSE), op.jump) ELSE Skip(m)
FallbackNullTest(m, op) == Skip(SetRes(m, op.res, BoolDatum(m.nul[op.res] = op.isnull), FALSE))
\* A non-NULL value is left alone by IS TRUE and IS NOT FALSE.
FallbackBoolTest(m, op) ==
  IF m.nul[op.res] THEN Skip(SetRes(m, op.res, BoolDatum(op.negated), FALSE))
  ELSE IF op.truth # op.negated THEN Skip(m)
  ELSE Skip(SetVal(m, op.res, NotDatum(m.val[op.res])))

(***************************************************************************)
(* Values of the context, comparisons.                                     *)
(***************************************************************************)
FallbackTestVal(m, op) ==
  IF op.src = "econtext" THEN Skip(SetRes(m, op.res, m.ec[op.what].v, m.ec[op.what].n))
  ELSE Skip(SetRes(m, op.res, m.val[op.src], m.nul[op.src]))
FallbackAggRef(m, op) ==
  LET i == IF op.opc = "AGGREF" THEN op.aggno ELSE m.ec.wfuncno
  IN  Skip(SetRes(m, op.res, m.ec.agg[i].v, m.ec.agg[i].n))
FallbackReturningExpr(m, op) ==
  IF op.nullflag \in m.ec.flags THEN Goto(SetRes(m, op.res, 0, TRUE), op.jump) ELSE Skip(m)
DistinctOf(negated, eq) == IF negated THEN eq ELSE NotDatum(eq)
FallbackDistinct(m, op) ==
  LET a == m.nul[op.args[1]]  b == m.nul[op.args[2]]
      v == CASE a # b -> BoolDatum(~op.negated)
             [] a /\ b -> BoolDatum(op.negated)
             [] OTHER -> DistinctOf(op.negated, Apply(op.fn, Args(m, op)).v)
  IN  Skip(SetRes(m, op.res, v, FALSE))
FallbackNullIf(m, op) ==
  LET a == op.args[1]
  IN  IF m.nul[a] \/ (~m.nul[op.args[2]] /\ Holds(Apply(op.fn, Args(m, op)))) THEN Skip(SetNul(m, op.res, TRUE))
      ELSE Skip(SetRes(m, op.res, m.val[a], FALSE))
FallbackCompared(m, op, r) ==
  IF IsErr(r) THEN Raise(m)
  ELSE IF r.n THEN Goto(SetRes(m, op.res, r.v, TRUE), op.jumpnull)
  ELSE JumpIf(SetRes(m, op.res, r.v, FALSE), r.v # 0, op.jump)
FallbackRowCompareStep(m, op) ==
  IF op.strict /\ AnyArgNull(m, op) THEN Goto(SetNul(m, op.res, TRUE), op.jumpnull)
  ELSE FallbackCompared(m, op, Apply(op.fn, Args(m, op)))
FallbackRowCompareFinal(m, op) ==
  LET c == m.val[op.res]
      holds == CASE op.cmptype = "lt" -> c < 0 [] op.cmptype = "le" -> c <= 0
                 [] op.cmptype = "ge" -> c >= 0 [] OTHER -> c > 0
  IN  Skip(SetRes(m, op.res, BoolDatum(holds), FALSE))
FallbackSubscripts(m, op) ==
  JumpUnless(m, Apply(op.fn, Args(m, op)), op.jump)

(***************************************************************************)
(* Hashes: the running value is read from iresult, not from the result.    *)
(***************************************************************************)
FallbackHash(m, op) ==
  LET null == AnyArgNull(m, op)
      existing == IF op.opc \in {"HASH_FIRST", "HASH_FIRST_STRICT"} THEN 0 ELSE Rotl(m.val[op.src])
  IN  IF op.opc \in {"HASH_FIRST_STRICT", "HASH_NEXT_STRICT"} /\ null
      THEN Goto(SetRes(m, op.res, 0, TRUE), op.jump)
      ELSE Skip(SetRes(m, op.res, IF null THEN existing ELSE Xor(existing, HashOf(m, op)), FALSE))
FallbackHashInit(m, op) == Skip(SetRes(m, op.res, op.v, FALSE))

(***************************************************************************)
(* Aggregates.  The transition function runs in the per-tuple context; a   *)
(* by-reference result other than the old state is copied into the         *)
(* aggregate's context by ExecAggCopyTransValue.                           *)
(***************************************************************************)
FallbackDeserialize(m, op) ==
  IF op.strict /\ AnyArgNull(m, op) THEN Goto(m, op.jump) ELSE StoreCall(m, op.res, Apply(op.fn, Args(m, op)))
FallbackStrictInput(m, op) == JumpIf(m, AnyArgNull(m, op), op.jump)
FallbackPerGroup(m, op) == JumpIf(m, ~m.grp[op.grp].here, op.jump)
FallbackPresorted(m, op) == InterpPresorted(m, op)
AggByRefFinish(m, g, r) == SetTrans(m, g, r.v, r.n)
AggTransEnd(m, inner, op, r) ==
  IF IsErr(r) THEN Raise(inner)
  ELSE Skip([(IF op.byref THEN AggByRefFinish(inner, op.grp, r) ELSE SetTrans(inner, op.grp, r.v, r.n))
             EXCEPT !.mcx = m.mcx])
AggTransCall(m, op) == AggTransEnd(m, [m EXCEPT !.mcx = "tuple"], op, Apply(op.fn, TransArgs(m, op)))
AggTransStrict(m, op) == IF op.strict /\ m.grp[op.grp].n THEN Skip(m) ELSE AggTransCall(m, op)
AggTransInitStrict(m, op) == IF op.init /\ m.grp[op.grp].no THEN InitGroup(m, op) ELSE AggTransStrict(m, op)
FallbackAggTrans(m, op) == AggTransInitStrict(m, op)

\* The switch.
FallbackBoolean(m, op) ==
  CASE op.opc = "BOOL_AND" -> FallbackBoolAnd(m, op) [] op.opc = "BOOL_OR" -> FallbackBoolOr(m, op)
    [] op.opc = "BOOL_NOT" -> FallbackBoolNot(m, op) [] op.opc = "QUAL" -> FallbackQual(m, op)
    [] op.opc = "NULLTEST" -> FallbackNullTest(m, op) [] op.opc = "BOOLTEST" -> FallbackBoolTest(m, op)
    [] OTHER -> FallbackJump(m, op)
FallbackColumn(m, op) ==
  CASE op.opc = "FETCHSOME" -> FallbackFetchSome(m, op) [] op.opc = "VAR" -> FallbackVar(m, op)
    [] op.opc = "ASSIGN_VAR" -> FallbackAssignVar(m, op) [] op.opc = "ASSIGN_TMP" -> FallbackAssignTmp(m, op)
    [] op.opc = "CONST" -> FallbackConst(m, op) [] op.opc = "MAKE_READONLY" -> FallbackMakeReadOnly(m, op)
    [] OTHER -> InterpColumn(m, op)
FallbackContext(m, op) ==
  CASE op.opc \in {"CASE_TESTVAL", "DOMAIN_TESTVAL"} -> FallbackTestVal(m, op)
    [] op.opc \in {"AGGREF", "WINDOW_FUNC"} -> FallbackAggRef(m, op)
    [] op.opc = "RETURNINGEXPR" -> FallbackReturningExpr(m, op) [] OTHER -> InterpContext(m, op)
FallbackCompare(m, op) ==
  CASE op.opc = "DISTINCT" -> FallbackDistinct(m, op) [] op.opc = "NULLIF" -> FallbackNullIf(m, op)
    [] op.opc = "ROWCOMPARE_STEP" -> FallbackRowCompareStep(m, op)
    [] op.opc = "ROWCOMPARE_FINAL" -> FallbackRowCompareFinal(m, op) [] OTHER -> InterpCompare(m, op)
FallbackCall(m, op) ==
  CASE op.opc = "FUNCEXPR" -> FallbackFuncExpr(m, op) [] op.opc = "IOCOERCE" -> FallbackIoCoerce(m, op)
    [] op.opc = "SUBSCRIPTS" -> FallbackSubscripts(m, op) [] OTHER -> InterpCall(m, op)
FallbackHashStep(m, op) == IF op.opc = "HASH_INIT" THEN FallbackHashInit(m, op) ELSE FallbackHash(m, op)
FallbackAggregate(m, op) ==
  CASE op.opc = "DESERIALIZE" -> FallbackDeserialize(m, op) [] op.opc = "STRICT_INPUT" -> FallbackStrictInput(m, op)
    [] op.opc = "PERGROUP" -> FallbackPerGroup(m, op) [] op.opc = "PRESORTED" -> FallbackPresorted(m, op)
    [] OTHER -> FallbackAggTrans(m, op)
=============================================================================
