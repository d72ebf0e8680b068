---------------------------- MODULE ExprMachine ----------------------------
(***************************************************************************)
(* The machine an expression runs on, and PostgreSQL's interpreter.        *)
(*                                                                         *)
(* PostgreSQL flattens an expression into a sequence of steps               *)
(* (ExprEvalStep).  Each step names the cell its result goes to (resvalue  *)
(* and resnull); cells are the expression's own result, the arguments of   *)
(* function calls and the columns of the result slot.  Jumps go forward.   *)
(* Compiled code keeps the interpreter's memory: it reads and writes the   *)
(* same cells, so both run on the machine below.                           *)
(*                                                                         *)
(* The operators Interp... are what ExecInterpExpr does (execExprInterp.c  *)
(* of PostgreSQL, external): the reference for the code generators.  Every *)
(* operator takes a machine and a step and returns the machine after it.   *)
(*                                                                         *)
(* A machine is a record:                                                  *)
(*   pc    the step to execute; Returned and Raised are not steps          *)
(*   val, nul   resvalue and resnull of each cell                          *)
(*   any   the anynull flag of each AND or OR                              *)
(*   ec    the context: slot of each kind, params, aggregate values, the   *)
(*         CASE and domain test values, state flags, grouping columns      *)
(*   tts   the slot objects: tuple, columns deformed so far (nvalid), the  *)
(*         arrays tts_values/tts_isnull, the system columns                *)
(*   grp   transition states, [v, n, no] with no = noTransValue; absent    *)
(*         groups (hash spilled) have here = FALSE                         *)
(*   mcx   the current memory context, the caller's or the per-tuple one    *)
(*   cptr, hreg   registers of compiled code only: the slot whose arrays   *)
(*         are cached for each kind, and the running hash                  *)
(*                                                                         *)
(* The datum of an internal transition state stands for the pointer and    *)
(* what it points to: 0 is no state, 1 + 100 * N + sum a state.            *)
(***************************************************************************)
EXTENDS PgFuncs

CONSTANTS
  Apply(_, _),     \* what a function returns: [v, n], or [err] for an ERROR
  MakeReadOnly(_)  \* MakeExpandedObjectReadOnly

Returned == 0
Raised   == -1

(***************************************************************************)
(* Access to cells.                                                        *)
(***************************************************************************)
Res(m, c) == [v |-> m.val[c], n |-> m.nul[c]]
SetVal(m, c, v) == [m EXCEPT !.val[c] = v]
SetNul(m, c, n) == [m EXCEPT !.nul[c] = n]
SetRes(m, c, v, n) == [m EXCEPT !.val[c] = v, !.nul[c] = n]
Skip(m) == [m EXCEPT !.pc = @ + 1]
Goto(m, t) == [m EXCEPT !.pc = t]
JumpIf(m, cond, t) == IF cond THEN Goto(m, t) ELSE Skip(m)
Raise(m) == [m EXCEPT !.pc = Raised]

\* A datum is a boolean's FALSE when it is zero.
IsTrue(v) == v # 0
BoolDatum(b) == IF b THEN 1 ELSE 0
NotDatum(v) == BoolDatum(v = 0)

\* The arguments of a call, and whether a strict function is not called.
Args(m, op) == [i \in DOMAIN op.args |-> Res(m, op.args[i])]
AnyArgNull(m, op) == \E i \in DOMAIN op.args : m.nul[op.args[i]]
\* A hash rotated left by one bit.
Rotl(h) == Rot(h, 1)
Call1(fn, v) == Apply(fn, <<[v |-> v, n |-> FALSE]>>)
IsErr(r) == "err" \in DOMAIN r

\* The result of a call stored, or its ERROR.
StoreCall(m, c, r) == IF IsErr(r) THEN Raise(m) ELSE Skip(SetRes(m, c, r.v, r.n))
\* The same with the null flag left alone, or false.
StoreValue(m, c, r) == IF IsErr(r) THEN Raise(m) ELSE Skip(SetVal(m, c, r.v))
StoreNotNull(m, c, r) == IF IsErr(r) THEN Raise(m) ELSE Skip(SetRes(m, c, r.v, FALSE))

(***************************************************************************)
(* Slots.  Deforming fills the arrays up to the column asked for; the      *)
(* others keep what an earlier tuple left there.                           *)
(***************************************************************************)
SlotOf(m, op) == m.ec.slot[op.slot]
GetSomeAttrs(m, s, last) ==
  IF m.tts[s].nvalid >= last THEN m
  ELSE [m EXCEPT !.tts[s].nvalid = last,
                 !.tts[s].val = [a \in DOMAIN @ |-> IF a <= last THEN m.tts[s].tuple[a].v ELSE @[a]],
                 !.tts[s].nul = [a \in DOMAIN @ |-> IF a <= last THEN m.tts[s].tuple[a].n ELSE @[a]]]

(***************************************************************************)
(* The interpreter: columns, constants, assignments.                       *)
(***************************************************************************)
InterpDone(m, op) == Goto(m, Returned)
InterpFetchSome(m, op) == Skip(GetSomeAttrs(m, SlotOf(m, op), op.last))
InterpVar(m, op) ==
  LET s == m.tts[SlotOf(m, op)] IN Skip(SetRes(m, op.res, s.val[op.att], s.nul[op.att]))
InterpSysVar(m, op) == Skip(SetRes(m, op.res, m.tts[SlotOf(m, op)].sys[op.att], FALSE))
InterpAssignTmp(m, op) ==
  LET r == Res(m, "state")
  IN  Skip(SetRes(m, op.res, IF op.readonly /\ ~r.n THEN MakeReadOnly(r.v) ELSE r.v, r.n))
InterpMakeReadOnly(m, op) ==
  Skip(SetRes(m, op.res, IF m.nul[op.src] THEN m.val[op.src] ELSE MakeReadOnly(m.val[op.src]),
              m.nul[op.src]))
InterpConst(m, op) == Skip(SetRes(m, op.res, op.v, op.n))

(***************************************************************************)
(* Calls.                                                                  *)
(***************************************************************************)
InterpFuncExpr(m, op) == StoreCall(m, op.res, Apply(op.fn, Args(m, op)))
InterpFuncExprStrict(m, op) ==
  IF AnyArgNull(m, op) THEN Skip(SetNul(m, op.res, TRUE)) ELSE InterpFuncExpr(m, op)

\* ExecEval... helpers that read their inputs, store a result and go on.
InterpHelper(m, op) == InterpFuncExpr(m, op)
\* Those that leave a NULL input alone (FIELDSELECT, CONVERT_ROWTYPE).
InterpHelperUnlessNull(m, op) ==
  IF m.nul[op.res] THEN Skip(m) ELSE StoreCall(m, op.res, Call1(op.fn, m.val[op.res]))

\* The output function, then the input function on its result.
InputOf(infn, str) == IF IsErr(str) THEN str ELSE Call1(infn, str.v)
InterpIoCoerce(m, op) ==
  IF m.nul[op.res] THEN Skip(m)
  ELSE StoreValue(m, op.res, InputOf(op.infn, Call1(op.outfn, m.val[op.res])))
\* The safe form: an error of the input function is a NULL result.
StoreSoft(m, c, r) == IF IsErr(r) THEN Skip(SetRes(m, c, 0, TRUE)) ELSE Skip(SetVal(m, c, r.v))
InterpReadSafe(m, op, str) == IF IsErr(str) THEN Raise(m) ELSE StoreSoft(m, op.res, Call1(op.infn, str.v))
InterpIoCoerceSafe(m, op) ==
  IF m.nul[op.res] THEN Skip(m) ELSE InterpReadSafe(m, op, Call1(op.outfn, m.val[op.res]))

(***************************************************************************)
(* Booleans and jumps.  AND and OR share their shape: a decisive value     *)
(* ends the evaluation, a NULL is remembered in anynull.                   *)
(***************************************************************************)
InterpBoolStep(m, op, decides) ==
  LET m1 == IF op.place = "first" THEN [m EXCEPT !.any[op.any] = FALSE] ELSE m
  IN  IF m.nul[op.res] THEN Skip([m1 EXCEPT !.any[op.any] = TRUE])
      ELSE JumpIf(m1, IsTrue(m.val[op.res]) = decides, op.jump)
InterpBoolLast(m, op, decides) ==
  IF m.nul[op.res] \/ IsTrue(m.val[op.res]) = decides \/ ~m.any[op.any] THEN Skip(m)
  ELSE Skip(SetRes(m, op.res, 0, TRUE))
InterpBoolAnd(m, op) ==
  IF op.place = "last" THEN InterpBoolLast(m, op, FALSE) ELSE InterpBoolStep(m, op, FALSE)
InterpBoolOr(m, op) ==
  IF op.place = "last" THEN InterpBoolLast(m, op, TRUE) ELSE InterpBoolStep(m, op, TRUE)
InterpBoolNot(m, op) == Skip(SetVal(m, op.res, NotDatum(m.val[op.res])))
InterpQual(m, op) ==
  IF m.nul[op.res] \/ ~IsTrue(m.val[op.res])
  THEN Goto(SetRes(m, op.res, 0, FALSE), op.jump)
  ELSE Skip(m)
InterpJump(m, op) == Goto(m, op.jump)
InterpJumpIfNull(m, op) == JumpIf(m, m.nul[op.res], op.jump)
InterpJumpIfNotNull(m, op) == JumpIf(m, ~m.nul[op.res], op.jump)
InterpJumpIfNotTrue(m, op) == JumpIf(m, m.nul[op.res] \/ ~IsTrue(m.val[op.res]), op.jump)
InterpNullTest(m, op) ==
  Skip(SetRes(m, op.res, BoolDatum(m.nul[op.res] = op.isnull), FALSE))
\* IS [NOT] TRUE and IS [NOT] FALSE.
InterpBoolTest(m, op) ==
  Skip(SetRes(m, op.res,
              BoolDatum((~m.nul[op.res] /\ IsTrue(m.val[op.res]) = op.truth) # op.negated),
              FALSE))

(***************************************************************************)
(* Values handed in by the context.                                        *)
(***************************************************************************)
InterpTestVal(m, op) ==
  LET r == IF op.src = "econtext" THEN m.ec[op.what] ELSE Res(m, op.src)
  IN  Skip(SetRes(m, op.res, r.v, r.n))
\* A lazy parameter is computed first, once.
InterpParamExec(m, op) ==
  LET p == m.ec.param[op.param]
  IN  Skip(SetRes([m EXCEPT !.ec.param[op.param].lazy = FALSE], op.res, p.v, p.n))
InterpAggRef(m, op) ==
  Skip(SetRes(m, op.res, m.ec.agg[op.aggno].v, m.ec.agg[op.aggno].n))
\* wfuncno is assigned after the expression is compiled.
InterpWindowFunc(m, op) ==
  LET r == m.ec.agg[m.ec.wfuncno] IN Skip(SetRes(m, op.res, r.v, r.n))
InterpReturningExpr(m, op) ==
  IF op.nullflag \in m.ec.flags THEN Goto(SetRes(m, op.res, 0, TRUE), op.jump) ELSE Skip(m)

\* GROUPING(): one bit per clause, set when the column is not grouped.
GroupingBits[i \in Nat, c \in Seq(Nat), g \in SUBSET Nat] ==
  IF i = 0 THEN 0 ELSE 2 * GroupingBits[i - 1, c, g] + (IF c[i] \in g THEN 0 ELSE 1)
InterpGroupingFunc(m, op) ==
  Skip(SetRes(m, op.res, GroupingBits[Len(op.clauses), op.clauses, m.ec.grouped], FALSE))

(***************************************************************************)
(* Comparisons.                                                            *)
(***************************************************************************)
Holds(r) == ~r.n /\ IsTrue(r.v)
InterpDistinct(m, op) ==
  LET a == op.args[1]  b == op.args[2]
      eq == Apply(op.fn, Args(m, op))
      same == IF m.nul[a] \/ m.nul[b] THEN m.nul[a] = m.nul[b] ELSE IsTrue(eq.v)
  IN  Skip(SetRes(m, op.res, BoolDatum(same = op.negated), FALSE))
InterpNullIf(m, op) ==
  LET a == op.args[1]  b == op.args[2]
  IN  IF ~m.nul[a] /\ ~m.nul[b] /\ Holds(Apply(op.fn, Args(m, op)))
      THEN Skip(SetRes(m, op.res, 0, TRUE))
      ELSE Skip(SetRes(m, op.res, m.val[a], m.nul[a]))
InterpCompared(m, op, r) ==
  CASE IsErr(r) -> Raise(m)
    [] ~IsErr(r) /\ r.n -> Goto(SetRes(m, op.res, r.v, TRUE), op.jumpnull)
    [] OTHER -> JumpIf(SetRes(m, op.res, r.v, FALSE), r.v # 0, op.jump)
InterpRowCompareStep(m, op) ==
  IF op.strict /\ AnyArgNull(m, op) THEN Goto(SetNul(m, op.res, TRUE), op.jumpnull)
  ELSE InterpCompared(m, op, Apply(op.fn, Args(m, op)))
CompareHolds(cmptype, v) ==
  CASE cmptype = "lt" -> v < 0 [] cmptype = "le" -> v <= 0
    [] cmptype = "ge" -> v >= 0 [] OTHER -> v > 0
InterpRowCompareFinal(m, op) ==
  Skip(SetRes(m, op.res, BoolDatum(CompareHolds(op.cmptype, m.val[op.res])), FALSE))

\* GREATEST and LEAST keep the first of the best non-NULL elements.
Better(op, new, old) == IF op.least THEN new < old ELSE new > old
Values == [v : Int, n : BOOLEAN]
MinMaxOf[i \in Nat, rs \in Seq(Values), least \in BOOLEAN] ==
  IF i = 0 THEN [v |-> 0, n |-> TRUE]
  ELSE LET p == MinMaxOf[i - 1, rs, least]
       IN  IF rs[i].n \/ (~p.n /\ ~Better([least |-> least], rs[i].v, p.v)) THEN p ELSE rs[i]
InterpMinMax(m, op) ==
  LET r == MinMaxOf[Len(op.args), Args(m, op), op.least] IN Skip(SetRes(m, op.res, r.v, r.n))

\* scalar = ANY (array), scalar <> ALL (array): elements of the array that
\* are NULL matter only when no element decides.
ListValues(array) == LET s == SelectSeq(array, LAMBDA e : ~e.n) IN [i \in DOMAIN s |-> s[i].v]
ListHasNulls(array) == \E i \in DOMAIN array : array[i].n
Equals(ty, a, b) == IF ty = "text" THEN PgTextEq(a, b) ELSE a = b
InList(scalar, op) ==
  IF scalar.n THEN NullResult
  ELSE IF \E i \in DOMAIN op.array : ~op.array[i].n /\ Equals(op.ty, op.array[i].v, scalar.v)
       THEN Truth(op.inclause)
  ELSE IF ListHasNulls(op.array) THEN NullResult
  ELSE Truth(~op.inclause)
\* The loop over the elements: the first that decides ends it.
ElementResult(op, scalar, e) == IF e.n /\ op.strict THEN NullResult ELSE Apply(op.fn, <<scalar, e>>)
Decides(op, r) == ~r.n /\ IsTrue(r.v) = op.useor
AnyOrAll(op, scalar) ==
  IF \E i \in DOMAIN op.array : Decides(op, ElementResult(op, scalar, op.array[i])) THEN Truth(op.useor)
  ELSE IF \E i \in DOMAIN op.array : ElementResult(op, scalar, op.array[i]).n THEN NullResult
  ELSE Truth(~op.useor)
InterpScalarArrayOp(m, op) ==
  LET scalar == Res(m, op.args[1])
  IN  IF m.nul[op.res] THEN Skip(m)
      ELSE IF op.array = <<>> THEN Skip(SetRes(m, op.res, BoolDatum(~op.useor), FALSE))
      ELSE IF scalar.n /\ op.strict THEN Skip(SetNul(m, op.res, TRUE))
      ELSE StoreCall(m, op.res, AnyOrAll(op, scalar))
InterpHashedSaop(m, op) ==
  LET r == InList(Res(m, op.args[1]), op) IN Skip(SetRes(m, op.res, r.v, r.n))

(***************************************************************************)
(* Domains, arrays, jumps decided by a helper.                             *)
(***************************************************************************)
InterpDomainNotNull(m, op) == IF m.nul[op.res] THEN Raise(m) ELSE Skip(m)
InterpDomainCheck(m, op) ==
  IF ~m.nul[op.check] /\ ~IsTrue(m.val[op.check]) THEN Raise(m) ELSE Skip(m)
JumpUnless(m, r, t) == IF IsErr(r) THEN Raise(m) ELSE JumpIf(m, ~IsTrue(r.v), t)
InterpSubscripts(m, op) == JumpUnless(m, Apply(op.fn, Args(m, op)), op.jump)
StoreAndJump(m, op, r) == IF IsErr(r) THEN Raise(m) ELSE Goto(SetRes(m, op.res, r.v, r.n), op.targets[r.t])
InterpJsonPath(m, op) == StoreAndJump(m, op, Apply(op.fn, Args(m, op)))
InterpIsJson(m, op) ==
  IF op.text /\ m.nul[op.res] THEN Skip(SetRes(m, op.res, 0, TRUE))
  ELSE IF op.text THEN StoreCall(m, op.res, Call1(op.fn, m.val[op.res])) ELSE InterpHelper(m, op)
\* nextval, as the type of the sequence.
Narrowed(width, r) == IF IsErr(r) THEN r ELSE Ok(Wrap(width, r.v))
InterpNextValue(m, op) == StoreNotNull(m, op.res, Narrowed(op.width, Apply(op.fn, <<>>)))
InterpCoercionFinish(m, op) ==
  IF m.val[op.err] # 0 THEN Skip(SetRes(SetVal(m, op.err, 0), op.res, 0, TRUE)) ELSE Skip(m)

(***************************************************************************)
(* Hashes.  The running value is in the cell iresult.                      *)
(***************************************************************************)
HashOf(m, op) == Apply(op.fn, Args(m, op)).v
InterpHashInit(m, op) == Skip(SetRes(m, op.res, op.v, FALSE))
InterpHashFirst(m, op) ==
  Skip(SetRes(m, op.res, IF AnyArgNull(m, op) THEN 0 ELSE HashOf(m, op), FALSE))
InterpHashFirstStrict(m, op) ==
  IF AnyArgNull(m, op) THEN Goto(SetRes(m, op.res, 0, TRUE), op.jump)
  ELSE Skip(SetRes(m, op.res, HashOf(m, op), FALSE))
InterpHashNext(m, op) ==
  LET h == Rotl(m.val[op.src])
  IN  Skip(SetRes(m, op.res, IF AnyArgNull(m, op) THEN h ELSE Xor(h, HashOf(m, op)), FALSE))
InterpHashNextStrict(m, op) ==
  IF AnyArgNull(m, op) THEN Goto(SetRes(m, op.res, 0, TRUE), op.jump)
  ELSE Skip(SetRes(m, op.res, Xor(Rotl(m.val[op.src]), HashOf(m, op)), FALSE))

(***************************************************************************)
(* Aggregates.                                                             *)
(***************************************************************************)
InterpDeserialize(m, op) ==
  IF op.strict /\ AnyArgNull(m, op) THEN Goto(m, op.jump) ELSE InterpFuncExpr(m, op)
InterpStrictInput(m, op) == JumpIf(m, AnyArgNull(m, op), op.jump)
InterpPerGroup(m, op) == JumpIf(m, ~m.grp[op.grp].here, op.jump)
InterpPresorted(m, op) ==
  LET g == m.grp[op.grp]  a == Res(m, op.args[1])
      same == ~g.first /\ g.last.n = a.n /\ (a.n \/ g.last.v = a.v)
  IN  JumpIf([m EXCEPT !.grp[op.grp].first = FALSE, !.grp[op.grp].last = a], same, op.jump)
\* The transition function sees the state first, then its inputs.
TransArgs(m, op) == <<[v |-> m.grp[op.grp].v, n |-> m.grp[op.grp].n]>> \o Args(m, op)
SetTrans(m, g, v, n) == [m EXCEPT !.grp[g].v = v, !.grp[g].n = n]
InitGroup(m, op) ==
  Skip([SetTrans(m, op.grp, m.val[op.args[1]], FALSE) EXCEPT !.grp[op.grp].no = FALSE])
StoreTrans(m, g, r) == IF IsErr(r) THEN Raise(m) ELSE Skip(SetTrans(m, g, r.v, r.n))
InterpAdvance(m, op) == StoreTrans(m, op.grp, Apply(op.fn, TransArgs(m, op)))
InterpAggTrans(m, op) ==
  CASE op.init /\ m.grp[op.grp].no -> InitGroup(m, op)
    [] op.strict /\ m.grp[op.grp].n /\ ~(op.init /\ m.grp[op.grp].no) -> Skip(m)
    [] OTHER -> InterpAdvance(m, op)

(***************************************************************************)
(* The steps by family, and the interpreter's dispatch.                    *)
(***************************************************************************)
Columns == {"DONE", "FETCHSOME", "VAR", "ASSIGN_VAR", "ASSIGN_TMP", "CONST", "SYSVAR", "MAKE_READONLY"}
Booleans == {"BOOL_AND", "BOOL_OR", "BOOL_NOT", "QUAL", "JUMP", "JUMP_IF_NULL", "JUMP_IF_NOT_NULL",
             "JUMP_IF_NOT_TRUE", "NULLTEST", "BOOLTEST"}
Contexts == {"CASE_TESTVAL", "DOMAIN_TESTVAL", "PARAM_EXEC", "AGGREF", "WINDOW_FUNC", "RETURNINGEXPR",
             "GROUPING_FUNC"}
Compares == {"DISTINCT", "NULLIF", "ROWCOMPARE_STEP", "ROWCOMPARE_FINAL", "MINMAX", "SCALARARRAYOP",
             "HASHED_SAOP", "DOMAIN_NOTNULL", "DOMAIN_CHECK"}
Calls == {"FUNCEXPR", "IOCOERCE", "IOCOERCE_SAFE", "FIELDSELECT", "CONVERT_ROWTYPE", "COERCION_FINISH",
          "SUBSCRIPTS", "JSON_PATH", "HELPER", "SBSREF", "PARAM_CALLBACK", "NEXTVALUE", "ROW", "ARRAYEXPR",
          "SQLVALUE", "IS_JSON"}
Hashes == {"HASH_INIT", "HASH_FIRST", "HASH_FIRST_STRICT", "HASH_NEXT", "HASH_NEXT_STRICT"}
Aggregates == {"DESERIALIZE", "STRICT_INPUT", "PERGROUP", "PRESORTED", "AGG_TRANS"}

InterpBoolean(m, op) ==
  CASE op.opc = "BOOL_AND" -> InterpBoolAnd(m, op) [] op.opc = "BOOL_OR" -> InterpBoolOr(m, op)
    [] op.opc = "BOOL_NOT" -> InterpBoolNot(m, op) [] op.opc = "QUAL" -> InterpQual(m, op)
    [] op.opc = "JUMP" -> InterpJump(m, op) [] op.opc = "JUMP_IF_NULL" -> InterpJumpIfNull(m, op)
    [] op.opc = "JUMP_IF_NOT_NULL" -> InterpJumpIfNotNull(m, op)
    [] op.opc = "JUMP_IF_NOT_TRUE" -> InterpJumpIfNotTrue(m, op)
    [] op.opc = "NULLTEST" -> InterpNullTest(m, op) [] OTHER -> InterpBoolTest(m, op)
InterpColumn(m, op) ==
  CASE op.opc = "DONE" -> InterpDone(m, op) [] op.opc = "FETCHSOME" -> InterpFetchSome(m, op)
    [] op.opc \in {"VAR", "ASSIGN_VAR"} -> InterpVar(m, op) [] op.opc = "ASSIGN_TMP" -> InterpAssignTmp(m, op)
    [] op.opc = "CONST" -> InterpConst(m, op) [] op.opc = "SYSVAR" -> InterpSysVar(m, op)
    [] OTHER -> InterpMakeReadOnly(m, op)
InterpContext(m, op) ==
  CASE op.opc \in {"CASE_TESTVAL", "DOMAIN_TESTVAL"} -> InterpTestVal(m, op)
    [] op.opc = "PARAM_EXEC" -> InterpParamExec(m, op) [] op.opc = "AGGREF" -> InterpAggRef(m, op)
    [] op.opc = "WINDOW_FUNC" -> InterpWindowFunc(m, op) [] op.opc = "RETURNINGEXPR" -> InterpReturningExpr(m, op)
    [] OTHER -> InterpGroupingFunc(m, op)
InterpCompare(m, op) ==
  CASE op.opc = "DISTINCT" -> InterpDistinct(m, op) [] op.opc = "NULLIF" -> InterpNullIf(m, op)
    [] op.opc = "ROWCOMPARE_STEP" -> InterpRowCompareStep(m, op)
    [] op.opc = "ROWCOMPARE_FINAL" -> InterpRowCompareFinal(m, op) [] op.opc = "MINMAX" -> InterpMinMax(m, op)
    [] op.opc = "SCALARARRAYOP" -> InterpScalarArrayOp(m, op) [] op.opc = "HASHED_SAOP" -> InterpHashedSaop(m, op)
    [] op.opc = "DOMAIN_NOTNULL" -> InterpDomainNotNull(m, op) [] OTHER -> InterpDomainCheck(m, op)
InterpCall(m, op) ==
  CASE op.opc = "FUNCEXPR" -> IF op.strict THEN InterpFuncExprStrict(m, op) ELSE InterpFuncExpr(m, op)
    [] op.opc = "IOCOERCE" -> InterpIoCoerce(m, op) [] op.opc = "IOCOERCE_SAFE" -> InterpIoCoerceSafe(m, op)
    [] op.opc \in {"FIELDSELECT", "CONVERT_ROWTYPE"} -> InterpHelperUnlessNull(m, op)
    [] op.opc = "IS_JSON" -> InterpIsJson(m, op) [] op.opc = "NEXTVALUE" -> InterpNextValue(m, op)
    [] op.opc = "COERCION_FINISH" -> InterpCoercionFinish(m, op) [] op.opc = "SUBSCRIPTS" -> InterpSubscripts(m, op)
    [] op.opc = "JSON_PATH" -> InterpJsonPath(m, op) [] OTHER -> InterpHelper(m, op)
InterpHash(m, op) ==
  CASE op.opc = "HASH_INIT" -> InterpHashInit(m, op) [] op.opc = "HASH_FIRST" -> InterpHashFirst(m, op)
    [] op.opc = "HASH_FIRST_STRICT" -> InterpHashFirstStrict(m, op) [] op.opc = "HASH_NEXT" -> InterpHashNext(m, op)
    [] OTHER -> InterpHashNextStrict(m, op)
InterpAggregate(m, op) ==
  CASE op.opc = "DESERIALIZE" -> InterpDeserialize(m, op) [] op.opc = "STRICT_INPUT" -> InterpStrictInput(m, op)
    [] op.opc = "PERGROUP" -> InterpPerGroup(m, op) [] op.opc = "PRESORTED" -> InterpPresorted(m, op)
    [] OTHER -> InterpAggTrans(m, op)
Interpret(m, op) ==
  CASE op.opc \in Columns -> InterpColumn(m, op) [] op.opc \in Booleans -> InterpBoolean(m, op)
    [] op.opc \in Contexts -> InterpContext(m, op) [] op.opc \in Compares -> InterpCompare(m, op)
    [] op.opc \in Calls -> InterpCall(m, op) [] op.opc \in Hashes -> InterpHash(m, op)
    [] OTHER -> InterpAggregate(m, op)
=============================================================================
