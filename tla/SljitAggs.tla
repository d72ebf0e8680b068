----------------------------- MODULE SljitAggs -----------------------------
(***************************************************************************)
(* Aggregate transitions and hashes as the sljit backend emits them: the   *)
(* cases AGG_PLAIN_TRANS, AGG_PRESORTED_DISTINCT and HASHDATUM of          *)
(* sljit_compile_expr.  A transition starts with the checks of its opcode, *)
(* then takes the path the compiler chose from the transition function.    *)
(***************************************************************************)
EXTENDS SljitSteps

New(m, op) == Res(m, op.args[1])
GroupState(m, op) == m.grp[op.grp]

\* A state is created by the function itself, in the aggregate's context.
Accumulate(state, v) == state + 100 + v

(***************************************************************************)
(* Probes before the call.  They return TRUE when the state was updated in *)
(* place; otherwise the function is called.                                *)
(***************************************************************************)
\* jit_numeric_agg_trans_fast gets the value without its null flag: only a
\* missing state or a zero Datum sends it to the function.
SljitNumericAvgAccum(m, op) ==
  LET g == GroupState(m, op)  v == New(m, op).v
  IN  IF g.v # 0 /\ v # 0 THEN Skip(SetTrans(m, op.grp, Accumulate(g.v, v), FALSE))
      ELSE InterpAdvance(m, op)
\* jit_int128_accum_fast fails while there is no state; a NULL value skips
\* it and joins the success path, which clears transValueIsNull.
SljitInt8AvgAccum(m, op) ==
  LET g == GroupState(m, op)  new == New(m, op)
  IN  CASE new.n -> Skip(SetTrans(m, op.grp, g.v, FALSE))
        [] ~new.n /\ g.v # 0 -> Skip(SetTrans(m, op.grp, Accumulate(g.v, new.v), FALSE))
        [] OTHER -> InterpAdvance(m, op)

(***************************************************************************)
(* Transition functions emitted as instructions.                           *)
(***************************************************************************)
SljitCount(m, op) ==
  LET r == GroupState(m, op).v + 1
  IN  IF Wrap(Bits8, r) # r THEN Raise(m) ELSE Skip(SetTrans(m, op.grp, r, FALSE))
\* SUM of int2 and int4: a NULL value leaves the state, the first value
\* becomes the state, the sum is not checked.
SljitIntSum(m, op) ==
  LET g == GroupState(m, op)  new == New(m, op)
      v == Wrap(IF op.fn.ty = "int2" THEN Bits2 ELSE Bits4, new.v)
  IN  CASE new.n -> Skip(m)
        [] ~new.n /\ g.n -> Skip(SetTrans(m, op.grp, v, FALSE))
        [] OTHER -> Skip([m EXCEPT !.grp[op.grp].v = Wrap(Bits8, @ + v)])
\* MIN and MAX: the state is kept when it compares at least as well.
KeepOr(m, op, keep, v) == Skip(SetTrans(m, op.grp, IF keep THEN GroupState(m, op).v ELSE v, FALSE))
SljitInt4MinMax(m, op) ==
  LET c == Wrap(Bits4, GroupState(m, op).v)  v == Wrap(Bits4, New(m, op).v)
  IN  KeepOr(m, op, IF op.least THEN c <= v ELSE c >= v, v)
SljitInt8MinMax(m, op) ==
  LET c == GroupState(m, op).v  v == New(m, op).v
  IN  KeepOr(m, op, IF op.least THEN c <= v ELSE c >= v, v)
SljitInt2MinMax(m, op) ==
  LET c == Wrap(Bits2, GroupState(m, op).v)  v == Wrap(Bits2, New(m, op).v)
  IN  KeepOr(m, op, IF op.least THEN c <= v ELSE c >= v, v)
\* Floats: one comparison of the processor, whatever it says of NaN.
SljitFloatMinMax(m, op) ==
  LET c == GroupState(m, op).v  v == New(m, op).v
  IN  KeepOr(m, op, IF op.least THEN FlagLessEqual(c, v) ELSE FlagLessEqual(v, c), v)
\* Dates compare signed at 32 bits, oids unsigned at 64.
SljitDateOidMinMax(m, op) ==
  LET oid == op.fn.ty = "oid"
      c == IF oid THEN GroupState(m, op).v ELSE Wrap(Bits4, GroupState(m, op).v)
      v == IF oid THEN New(m, op).v ELSE Wrap(Bits4, New(m, op).v)
      le(x, y) == IF oid THEN Unsigned(Bits8, x) <= Unsigned(Bits8, y) ELSE x <= y
  IN  KeepOr(m, op, IF op.least THEN le(c, v) ELSE le(v, c), v)
SljitTimeMinMax(m, op) ==
  LET c == GroupState(m, op).v  v == New(m, op).v
  IN  KeepOr(m, op, IF op.least THEN c <= v ELSE c >= v, v)
\* SUM of float8 and float4: the processor's addition, no overflow check.
SljitFloat8Sum(m, op) ==
  Skip(SetTrans(m, op.grp, FloatAdd(GroupState(m, op).v, New(m, op).v), FALSE))
SljitFloat4Sum(m, op) ==
  Skip(SetTrans(m, op.grp, FloatAdd(GroupState(m, op).v, New(m, op).v), FALSE))
\* By-reference states kept in an array: updated in place.
SljitFloatAccum(m, op) ==
  Skip(SetTrans(m, op.grp, Accumulate(GroupState(m, op).v, New(m, op).v), FALSE))
SljitIntAvgAccum(m, op) ==
  LET w == IF op.fn.ty = "int2" THEN Bits2 ELSE Bits4
  IN  Skip(SetTrans(m, op.grp, Accumulate(GroupState(m, op).v, Wrap(w, New(m, op).v)), FALSE))
\* The call: in the per-tuple context, which is left again afterwards; a
\* by-reference result is copied by pg_jitter_agg_byref_finish.
SljitAfterCall(m, inner, g, r) ==
  IF IsErr(r) THEN Raise(inner) ELSE Skip([SetTrans(inner, g, r.v, r.n) EXCEPT !.mcx = m.mcx])
SljitAggCall(m, op) ==
  SljitAfterCall(m, [m EXCEPT !.mcx = "tuple"], op.grp, Apply(op.fn, TransArgs(m, op)))

SljitAdvance(m, op) ==
  CASE op.path = "numeric_avg" -> SljitNumericAvgAccum(m, op)
    [] op.path = "int8_avg" -> SljitInt8AvgAccum(m, op)
    [] op.path = "count" -> SljitCount(m, op)
    [] op.path = "int_sum" -> SljitIntSum(m, op)
    [] op.path = "minmax" /\ op.fn.ty = "int4" -> SljitInt4MinMax(m, op)
    [] op.path = "minmax" /\ op.fn.ty = "int8" -> SljitInt8MinMax(m, op)
    [] op.path = "minmax" /\ op.fn.ty = "int2" -> SljitInt2MinMax(m, op)
    [] op.path = "minmax" /\ op.fn.ty = "float" -> SljitFloatMinMax(m, op)
    [] op.path = "minmax" /\ op.fn.ty \in {"date", "oid"} -> SljitDateOidMinMax(m, op)
    [] op.path = "minmax" /\ op.fn.ty = "time" -> SljitTimeMinMax(m, op)
    [] op.path = "float8_sum" -> SljitFloat8Sum(m, op)
    [] op.path = "float4_sum" -> SljitFloat4Sum(m, op)
    [] op.path = "float_accum" -> SljitFloatAccum(m, op)
    [] op.path = "int_avg" -> SljitIntAvgAccum(m, op)
    [] OTHER -> SljitAggCall(m, op)
\* INIT variants take the first value as the state; STRICT variants stop
\* once the state is NULL.
SljitAggTrans(m, op) ==
  IF op.init /\ GroupState(m, op).no THEN InitGroup(m, op)
  ELSE IF op.strict /\ GroupState(m, op).n THEN Skip(m)
  ELSE SljitAdvance(m, op)

\* ExecEvalPreOrderedDistinct...: FALSE means a value seen before.
SljitPresorted(m, op) == InterpPresorted(m, op)

(***************************************************************************)
(* Hashes.  With a free register the running hash stays in it (hreg) and   *)
(* the cell is only written.                                               *)
(***************************************************************************)
Running(m, op) == IF op.inreg THEN m.hreg ELSE m.val[op.src]
\* Mutant: the register keeps the hash sign-extended.
StoreHashSigned(m, op, h) ==
  SetRes(IF op.inreg THEN [m EXCEPT !.hreg = Wrap(Bits4, h)] ELSE m, op.res, h, FALSE)
StoreHash(m, op, h) ==
  SetRes(IF op.inreg THEN [m EXCEPT !.hreg = h] ELSE m, op.res, h, FALSE)
SljitHashCall(m, op) ==
  IF op.path = "inline" THEN SljitInlineOp(op.fn, ArgValues(m, op)).v ELSE HashOf(m, op)
SljitHashInit(m, op) == Skip(StoreHash(m, op, op.v))
SljitHashFirst(m, op) ==
  Skip(StoreHash(m, op, IF AnyArgNull(m, op) THEN 0 ELSE SljitHashCall(m, op)))
SljitHashFirstStrict(m, op) ==
  IF AnyArgNull(m, op) THEN Goto(SetRes(m, op.res, 0, TRUE), op.jump)
  ELSE Skip(StoreHash(m, op, SljitHashCall(m, op)))
SljitHashNext(m, op) ==
  LET h == Rotl(Running(m, op))
  IN  Skip(StoreHash(m, op, IF AnyArgNull(m, op) THEN h ELSE Xor(h, SljitHashCall(m, op))))
SljitHashNextStrict(m, op) ==
  IF AnyArgNull(m, op) THEN Goto(SetRes(m, op.res, 0, TRUE), op.jump)
  ELSE Skip(StoreHash(m, op, Xor(Rotl(Running(m, op)), SljitHashCall(m, op))))
=============================================================================
