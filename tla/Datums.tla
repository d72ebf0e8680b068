------------------------------- MODULE Datums -------------------------------
(***************************************************************************)
(* The values functions work on, at a small width.                         *)
(*                                                                         *)
(* A Datum is an integer.  int2, int4 and int8 keep their two's complement *)
(* arithmetic at Bits2, Bits4 and Bits8 bits and are sign-extended in the  *)
(* Datum, as Int32GetDatum does.  A float is a fixed-point number: k stands *)
(* for k/2, finite values reach FloatMax, then come the infinities and NaN; *)
(* so sums overflow, and products and quotients overflow and underflow.    *)
(* A text Datum is a pointer: TextOf gives the storage form of the varlena *)
(* it points to and the characters.                                        *)
(*                                                                         *)
(* The hardware's and C's arithmetic is here; what PostgreSQL's functions  *)
(* and the compiled code make of it is in PgFuncs, SljitInline, MirSteps.  *)
(***************************************************************************)
EXTENDS Integers, Sequences

CONSTANTS
  Bits2, Bits4, Bits8,   \* the widths of int2, int4 and int8
  FloatMax,              \* the largest finite float
  UnorderedEqual,        \* does a basic float comparison call NaN equal?
  UnorderedLess,         \* does it call NaN less?
  TextOf,                \* [form, body, rank] of each text Datum
  Xor(_, _)              \* exclusive or, at Bits4 bits

ASSUME DatumWidths ==
  /\ Bits2 \in Nat /\ Bits4 \in Nat /\ Bits8 \in Nat
  /\ 1 < Bits2 /\ Bits2 < Bits4 /\ Bits4 < Bits8
  /\ FloatMax \in Nat \ {0}
  /\ UnorderedEqual \in BOOLEAN /\ UnorderedLess \in BOOLEAN

MinOf(w) == -(2^(w - 1))
MaxOf(w) == 2^(w - 1) - 1
InWidth(w, x) == MinOf(w) <= x /\ x <= MaxOf(w)
\* The low w bits, sign-extended; the same bits read as unsigned.
Wrap(w, x) == ((x - MinOf(w)) % 2^w) + MinOf(w)
Unsigned(w, x) == x % 2^w

\* Division that truncates toward zero, and its remainder.
AbsOf(x) == IF x < 0 THEN -x ELSE x
Quot(a, b) == IF (a < 0) = (b < 0) THEN AbsOf(a) \div AbsOf(b) ELSE -(AbsOf(a) \div AbsOf(b))
Rem(a, b) == a - b * Quot(a, b)

Ok(v) == [v |-> v, n |-> FALSE]
NullResult == [v |-> 0, n |-> TRUE]
Error == [err |-> TRUE]
Truth(b) == Ok(IF b THEN 1 ELSE 0)

(***************************************************************************)
(* IEEE arithmetic on the small floats.                                    *)
(***************************************************************************)
PosInf == FloatMax + 1
NegInf == -PosInf
NaN == FloatMax + 2
IsInf(x) == x = PosInf \/ x = NegInf
IsNaN(x) == x = NaN
IsFinite(x) == ~IsInf(x) /\ ~IsNaN(x)
ToFloat(x) == IF x > FloatMax THEN PosInf ELSE IF x < -FloatMax THEN NegInf ELSE x
SignOf(x) == IF x < 0 THEN -1 ELSE IF x > 0 THEN 1 ELSE 0
FloatAdd(a, b) ==
  CASE IsNaN(a) \/ IsNaN(b) \/ (IsInf(a) /\ b = -a) -> NaN
    [] IsInf(a) /\ ~IsNaN(b) /\ b # -a -> a
    [] IsInf(b) /\ IsFinite(a) -> b
    [] OTHER -> ToFloat(a + b)
FloatNeg(a) == IF IsNaN(a) THEN NaN ELSE -a
FloatMul(a, b) ==
  CASE IsNaN(a) \/ IsNaN(b) -> NaN
    [] IsFinite(a) /\ IsFinite(b) -> ToFloat(Quot(a * b, 2))
    [] OTHER -> IF a = 0 \/ b = 0 THEN NaN ELSE SignOf(a) * SignOf(b) * PosInf
FloatDiv(a, b) ==
  CASE IsNaN(a) \/ IsNaN(b) \/ (IsInf(a) /\ IsInf(b)) \/ (a = 0 /\ b = 0) -> NaN
    [] IsFinite(a) /\ IsInf(b) -> 0
    [] IsFinite(a) /\ IsFinite(b) /\ b # 0 -> ToFloat(Quot(2 * a, b))
    [] OTHER -> SignOf(a) * (IF b < 0 THEN -1 ELSE 1) * PosInf

\* Comparison flags of the processor.  For unordered operands the basic
\* conditions give what the platform gives.
Unordered(a, b) == IsNaN(a) \/ IsNaN(b)
FlagEqual(a, b) == IF Unordered(a, b) THEN UnorderedEqual ELSE a = b
FlagLess(a, b) == IF Unordered(a, b) THEN UnorderedLess ELSE a < b
FlagLessEqual(a, b) == FlagLess(a, b) \/ FlagEqual(a, b)
=============================================================================
