---------------------------- MODULE SljitInline ----------------------------
(***************************************************************************)
(* The functions the sljit backend emits as instructions instead of a call *)
(* (emit_inline_funcexpr, emit_inline_text_cmp).  Arguments arrive in R0   *)
(* and R1, the result is left in R0; an ERROR is a call that does not      *)
(* return.                                                                 *)
(***************************************************************************)
EXTENDS PgFuncs

\* ADD, SUB and MUL set the overflow flag of the width they work at.
SljitIntArith(w, what, a, b) ==
  LET r == CASE what = "add" -> a + b [] what = "sub" -> a - b [] OTHER -> a * b
      overflow == Wrap(w, r) # r
  IN  IF overflow THEN Error ELSE Ok(Wrap(w, r))

\* INT4_DIV: zero divisor, then INT32_MIN / -1, then DIV_S32.
SljitInt4Div(a, b) ==
  IF b = 0 THEN Error
  ELSE IF Wrap(Bits4, a) = MinOf(Bits4) /\ b = -1 THEN Error
  ELSE Ok(Wrap(Bits4, Quot(Wrap(Bits4, a), Wrap(Bits4, b))))
\* INT4_MOD: INT32_MIN % -1 is zero, the division would trap.
SljitInt4Mod(a, b) ==
  IF b = 0 THEN Error
  ELSE IF Wrap(Bits4, a) = MinOf(Bits4) /\ b = -1 THEN Ok(0)
  ELSE Ok(Wrap(Bits4, Rem(Wrap(Bits4, a), Wrap(Bits4, b))))

FlagOf(what, a, b) ==
  Truth(CASE what = "eq" -> a = b [] what = "ne" -> a # b [] what = "lt" -> a < b
          [] what = "le" -> a <= b [] what = "gt" -> a > b [] OTHER -> a >= b)
\* int4 compares the low halves of the Datums (SUB32), int8 all of them.
SljitInt4Cmp(what, a, b) == FlagOf(what, Wrap(Bits4, a), Wrap(Bits4, b))
SljitInt8Cmp(what, a, b) == FlagOf(what, a, b)
\* Unsigned: one byte is zero-extended first, 32 and 64 bits compare as they are.
SljitUintCmp(w, what, a, b) == FlagOf(what, Unsigned(w, a), Unsigned(w, b))

\* The result is infinite: an overflow unless an operand was.
SljitFloatOverflow(r, a, b) ==
  FlagEqual(IF IsNaN(r) THEN NaN ELSE AbsOf(r), PosInf)
  /\ ~FlagEqual(IF IsNaN(a) THEN NaN ELSE AbsOf(a), PosInf)
  /\ ~FlagEqual(IF IsNaN(b) THEN NaN ELSE AbsOf(b), PosInf)
SljitFloatAdd(a, b) ==
  LET r == FloatAdd(a, b) IN IF SljitFloatOverflow(r, a, b) THEN Error ELSE Ok(r)
SljitFloatSub(a, b) ==
  LET r == FloatAdd(a, FloatNeg(b)) IN IF SljitFloatOverflow(r, a, b) THEN Error ELSE Ok(r)
SljitFloatMul(a, b) ==
  LET r == FloatMul(a, b)
      underflow == FlagEqual(r, 0) /\ ~FlagEqual(a, 0) /\ ~FlagEqual(b, 0)
  IN  IF SljitFloatOverflow(r, a, b) \/ underflow THEN Error ELSE Ok(r)
\* Only the dividend is looked at again: an infinite divisor underflows.
SljitFloatDiv(a, b) ==
  LET r == FloatDiv(a, b)
      underflow == FlagEqual(r, 0) /\ ~FlagEqual(a, 0)
  IN  IF FlagEqual(b, 0) \/ SljitFloatOverflow(r, a, a) \/ underflow THEN Error ELSE Ok(r)

\* Comparisons: an unordered pair leaves the ordered path, then the NaN is
\* looked for in a and in b.
SljitFloatEq(a, b) == IF Unordered(a, b) THEN Truth(IsNaN(a) /\ IsNaN(b)) ELSE Truth(FlagEqual(a, b))
SljitFloatNe(a, b) ==
  IF Unordered(a, b) THEN (IF IsNaN(a) THEN Truth(~IsNaN(b)) ELSE Truth(TRUE))
  ELSE Truth(~FlagEqual(a, b))
SljitFloatLt(a, b) == IF Unordered(a, b) THEN Truth(~IsNaN(a)) ELSE Truth(FlagLess(a, b))
SljitFloatLe(a, b) ==
  IF Unordered(a, b) THEN (IF IsNaN(a) THEN Truth(IsNaN(b)) ELSE Truth(TRUE))
  ELSE Truth(FlagLessEqual(a, b))
SljitFloatGt(a, b) ==
  IF Unordered(a, b) THEN Truth(IsNaN(a) /\ ~IsNaN(b)) ELSE Truth(~FlagLessEqual(a, b))
SljitFloatGe(a, b) == IF Unordered(a, b) THEN Truth(IsNaN(a)) ELSE Truth(~FlagLess(a, b))
SljitFloatCmp(what, a, b) ==
  CASE what = "eq" -> SljitFloatEq(a, b) [] what = "ne" -> SljitFloatNe(a, b)
    [] what = "lt" -> SljitFloatLt(a, b) [] what = "le" -> SljitFloatLe(a, b)
    [] what = "gt" -> SljitFloatGt(a, b) [] OTHER -> SljitFloatGe(a, b)

\* The difference of two flags.
Flag(b) == IF b THEN 1 ELSE 0
SljitBoolCmp3(a, b) == Ok(Flag(a # 0) - Flag(b # 0))
SljitInt8Cmp3(a, b) == Ok(Flag(a > b) - Flag(a < b))

\* The seven rounds of final(): x ^= y; x -= rot(y, k), on registers
\* R0 = a, R1 = b, R2 = c.
Rounds == << <<3, 2, 14>>, <<1, 3, 11>>, <<2, 1, 25>>, <<3, 2, 16>>, <<1, 3, 4>>,
             <<2, 1, 14>>, <<3, 2, 24>> >>
Registers == [1..3 -> 0..(2^Bits4 - 1)]
Round[r \in Registers, i \in 1..Len(Rounds)] ==
  LET x == Rounds[i][1]  y == r[Rounds[i][2]]
  IN  [r EXCEPT ![x] = (Xor(@, y) - Rot(y, Rounds[i][3])) % 2^Bits4]
Register[i \in 0..Len(Rounds), k \in 0..(2^Bits4 - 1)] ==
  IF i = 0 THEN <<(k + HashInit) % 2^Bits4, HashInit, HashInit>> ELSE Round[Register[i - 1, k], i]
SljitHashInt4(k) == Ok(Register[Len(Rounds), Unsigned(Bits4, k)][3])
\* The high half is folded in, complemented by the sign mask.
SljitHashInt8(v) ==
  LET lo == Unsigned(Bits4, v)
      hi == Unsigned(Bits8, v) \div 2^Bits4
      mask == IF v < 0 THEN 2^Bits4 - 1 ELSE 0
  IN  Ok(Register[Len(Rounds), Xor(lo, Xor(hi % 2^Bits4, mask))][3])

\* Widening sign-extends, narrowing checks both ends.
SljitWiden(w, a) == Ok(Wrap(w, a))
SljitNarrow(w, a) == IF a > MaxOf(w) \/ a < MinOf(w) THEN Error ELSE Ok(Wrap(w, a))
SljitIntToFloat(w, a) == Ok(ToFloat(2 * Wrap(w, a)))

\* Text equality: same pointer; short headers compare lengths and bytes;
\* any other form goes to the helper, which detoasts.
SljitTextEq(a, b) ==
  IF a = b THEN TRUE
  ELSE IF TextOf[a].form # "short" \/ TextOf[b].form # "short" THEN PgTextEq(a, b)
  ELSE IF Len(TextOf[a].body) # Len(TextOf[b].body) THEN FALSE
  ELSE IF Len(TextOf[a].body) = 0 THEN TRUE
  ELSE \A i \in DOMAIN TextOf[a].body : TextOf[a].body[i] = TextOf[b].body[i]
SljitTextCmp(what, a, b) == Truth(SljitTextEq(a, b) = (what = "eq"))

\* emit_inline_funcexpr: the switch over the inline operation.
SljitInlineOp(k, x) ==
  LET a == x[1]  b == x[Len(x)]
  IN  CASE k.ty = "int4" /\ k.what = "div" -> SljitInt4Div(a, b)
        [] k.ty = "int4" /\ k.what = "mod" -> SljitInt4Mod(a, b)
        [] k.ty = "int4" /\ k.what \in {"add", "sub", "mul"} -> SljitIntArith(Bits4, k.what, a, b)
        [] k.ty = "int8" /\ k.what \in {"add", "sub", "mul"} -> SljitIntArith(Bits8, k.what, a, b)
        [] k.ty = "int4" /\ k.what \in Comparisons -> SljitInt4Cmp(k.what, a, b)
        [] k.ty = "int8" /\ k.what \in Comparisons -> SljitInt8Cmp(k.what, a, b)
        [] k.ty = "uint1" -> SljitUintCmp(Bits2, k.what, a, b)
        [] k.ty = "uint4" -> SljitUintCmp(Bits4, k.what, a, b)
        [] k.ty = "uint8" -> SljitUintCmp(Bits8, k.what, a, b)
        [] k.ty = "float" /\ k.what \in Comparisons -> SljitFloatCmp(k.what, a, b)
        [] k.ty = "float" /\ k.what = "add" -> SljitFloatAdd(a, b)
        [] k.ty = "float" /\ k.what = "sub" -> SljitFloatSub(a, b)
        [] k.ty = "float" /\ k.what = "mul" -> SljitFloatMul(a, b)
        [] k.ty = "float" /\ k.what = "div" -> SljitFloatDiv(a, b)
        [] k.ty = "bool" -> SljitBoolCmp3(a, b)
        [] k.ty = "int8" /\ k.what = "cmp3" -> SljitInt8Cmp3(a, b)
        [] k.ty = "int4" /\ k.what = "hash" -> SljitHashInt4(a)
        [] k.ty = "int8" /\ k.what = "hash" -> SljitHashInt8(a)
        [] k.what = "widen" -> SljitWiden(IF k.ty = "int2" THEN Bits2 ELSE Bits4, a)
        [] k.what = "narrow" -> SljitNarrow(IF k.ty = "int2" THEN Bits2 ELSE Bits4, a)
        [] k.what = "tofloat" -> SljitIntToFloat(IF k.ty = "int4" THEN Bits4 ELSE Bits8, a)
        [] OTHER -> SljitTextCmp(k.what, a, b)
=============================================================================
