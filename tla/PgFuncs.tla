------------------------------ MODULE PgFuncs ------------------------------
(***************************************************************************)
(* PostgreSQL's own functions (int.c, int8.c, float.c, float.h, hashfn.c,  *)
(* varlena.c; external): what the interpreter calls through fn_addr, and   *)
(* what inline code and direct calls must compute.                         *)
(***************************************************************************)
EXTENDS Datums

InRange(w, x) == IF InWidth(w, x) THEN Ok(x) ELSE Error

PgIntArith(w, what, a, b) ==
  InRange(w, CASE what = "add" -> a + b [] what = "sub" -> a - b [] OTHER -> a * b)
PgIntDiv(w, a, b) == IF b = 0 THEN Error ELSE InRange(w, Quot(a, b))
PgIntMod(w, a, b) == IF b = 0 THEN Error ELSE Ok(Rem(a, b))
PgCmp(what, a, b) ==
  Truth(CASE what = "eq" -> a = b [] what = "ne" -> a # b [] what = "lt" -> a < b
          [] what = "le" -> a <= b [] what = "gt" -> a > b [] OTHER -> a >= b)
\* bt...cmp: the sign of the comparison.
PgCmp3(a, b) == Ok(IF a < b THEN -1 ELSE IF a > b THEN 1 ELSE 0)
PgCast(w, a) == InRange(w, a)

\* float8_pl, float8_mi, float8_mul, float8_div: an infinite result of
\* finite operands is an overflow, a zero result of nonzero ones an
\* underflow.
FloatChecked(r, mayBeInf, mayBeZero) ==
  IF (IsInf(r) /\ ~mayBeInf) \/ (r = 0 /\ ~mayBeZero) THEN Error ELSE Ok(r)
PgFloatAdd(a, b) ==
  FloatChecked(FloatAdd(a, b), IsInf(a) \/ IsInf(b), TRUE)
PgFloatMul(a, b) ==
  FloatChecked(FloatMul(a, b), IsInf(a) \/ IsInf(b), a = 0 \/ b = 0)
PgFloatDiv(a, b) ==
  IF b = 0 /\ ~IsNaN(a) THEN Error
  ELSE FloatChecked(FloatDiv(a, b), IsInf(a), a = 0 \/ IsInf(b))
\* Floats are ordered with NaN equal to itself and above everything: the
\* encoding of Datums has that order.
PgFloatCmp(what, a, b) == PgCmp(what, a, b)

\* hash_bytes_uint32, at Bits4 bits: a = b = c = init, a += k, then the
\* seven lines of final(a, b, c): x ^= y; x -= rot(y, k).
HashInit == 5 % 2^Bits4
Rot(x, k) == LET s == k % Bits4 IN ((x * 2^s) % 2^Bits4) + (x \div 2^(Bits4 - s))
FinalLines ==
  LET Line(x, y, k) == [x |-> x, y |-> y, k |-> k]
  IN  << Line("c", "b", 14), Line("a", "c", 11), Line("b", "a", 25), Line("c", "b", 16), Line("a", "c", 4),
         Line("b", "a", 14), Line("c", "b", 24) >>
Mixed(s, l) == [s EXCEPT ![l.x] = (Xor(@, s[l.y]) - Rot(s[l.y], l.k)) % 2^Bits4]
Final[i \in 0..7, k \in 0..(2^Bits4 - 1)] ==
  IF i = 0 THEN [a |-> (HashInit + k) % 2^Bits4, b |-> HashInit, c |-> HashInit]
  ELSE Mixed(Final[i - 1, k], FinalLines[i])
PgHashUint32(k) == Final[7, k].c
\* hashint8: an int8 that fits int4 hashes like the int4.
PgHashInt8(v) ==
  LET lo == v % 2^Bits4
      hi == (v \div 2^Bits4) % 2^Bits4
  IN  PgHashUint32(Xor(lo, IF v >= 0 THEN hi ELSE 2^Bits4 - 1 - hi))

Comparisons == {"eq", "ne", "lt", "le", "gt", "ge"}
PgTextEq(a, b) == TextOf[a].body = TextOf[b].body

\* The function an inline operation stands for.
WidthOf(ty) == CASE ty \in {"int2", "uint1"} -> Bits2 [] ty \in {"int4", "uint4"} -> Bits4 [] OTHER -> Bits8
PgFunc(k, w, a, b) ==
  CASE k.ty = "text" /\ k.what \in {"eq", "ne"} -> Truth(PgTextEq(a, b) = (k.what = "eq"))
    [] k.ty = "text" /\ k.what \notin {"eq", "ne"} -> PgCmp(k.what, TextOf[a].rank, TextOf[b].rank)
    [] k.ty \in {"int4", "int8"} /\ k.what \in {"add", "sub", "mul"} -> PgIntArith(w, k.what, a, b)
    [] k.ty = "int4" /\ k.what = "div" -> PgIntDiv(w, a, b)
    [] k.what = "mod" -> PgIntMod(w, a, b)
    [] k.ty \in {"uint1", "uint4", "uint8"} -> PgCmp(k.what, Unsigned(w, a), Unsigned(w, b))
    [] k.what \in Comparisons /\ k.ty \in {"int2", "int4", "int8", "float"} -> PgCmp(k.what, a, b)
    [] k.ty = "float" /\ k.what = "add" -> PgFloatAdd(a, b)
    [] k.ty = "float" /\ k.what = "sub" -> PgFloatAdd(a, FloatNeg(b))
    [] k.ty = "float" /\ k.what = "mul" -> PgFloatMul(a, b)
    [] k.ty = "float" /\ k.what = "div" -> PgFloatDiv(a, b)
    [] k.what = "cmp3" -> PgCmp3(a, b)
    [] k.what = "hash" -> Ok(IF k.ty = "int4" THEN PgHashUint32(Unsigned(Bits4, a)) ELSE PgHashInt8(a))
    [] k.what = "widen" -> Ok(a)
    [] k.what = "narrow" -> PgCast(w, a)
    [] OTHER -> Ok(ToFloat(2 * a))

\* Transition functions.  count fails at the end of int8; SUM of integers
\* starts from NULL and is not checked; a state of the internal type is
\* made by the first call, whatever its argument.
PgOrder(ty, x) == IF ty = "oid" THEN Unsigned(Bits8, x) ELSE x
PgTrans(k, state, new) ==
  CASE k.what = "count" -> InRange(Bits8, state.v + 1)
    [] k.what = "sum" -> IF new.n THEN (IF state.n THEN NullResult ELSE Ok(state.v))
                         ELSE Ok(IF state.n THEN new.v ELSE Wrap(Bits8, state.v + new.v))
    [] k.what \in {"smaller", "larger"} ->
         LET less == PgOrder(k.ty, new.v) < PgOrder(k.ty, state.v)
         IN  Ok(IF new.v # state.v /\ less = (k.what = "smaller") THEN new.v ELSE state.v)
    [] k.what = "floatsum" -> PgFloatAdd(state.v, new.v)
    [] k.what = "accum" -> Ok(state.v + 100 + new.v)
    [] OTHER -> LET made == IF state.n THEN 1 ELSE state.v IN Ok(IF new.n THEN made ELSE made + 100 + new.v)
TransFuncs == {"count", "sum", "smaller", "larger", "floatsum", "accum", "makeaccum"}
=============================================================================
