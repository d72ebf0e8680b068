------------------------------ MODULE Searches ------------------------------
(***************************************************************************)
(* What the searches of compiled code must find, and what they are given.  *)
(* A CASE that became a search must give the result of its first branch    *)
(* that holds, an IN list the answer of the executor's lookup              *)
(* (InterpHashedSaop).  The second half of each section says what the code *)
(* that prepares a search hands over: branches and lists in order, tables  *)
(* with a free slot, keys that are numbers.  SearchProofs takes these as   *)
(* hypotheses, MCExprRun evaluates them for the CASEs and lists it has.    *)
(***************************************************************************)
EXTENDS SljitValues, MirSteps, CaseSearch

(***************************************************************************)
(* CASE.                                                                   *)
(***************************************************************************)
\* The result of the first of the branches that hold, or the default.
FirstWins(info, holds, r) ==
  /\ \A k \in holds : (\A j \in holds : k <= j) => r = info.branches[k].result
  /\ holds = {} => r = info.default
\* The branches that hold of a CASE of comparisons for equality ...
EqualTo(info, v) ==
  {k \in 1..Len(info.branches) :
     CompareThresholds(info.fn, KeyOf(info.fn.ty, v), info.branches[k].threshold) = 0}
\* ... of comparisons with <, <=, > or >= ...
Bounds(info, v) == {k \in 1..Len(info.branches) : HoldsAt(info, v, k)}
\* ... and of ranges, each of which begins where the one before it ends.
RangeLow(info, k) == IF k = 1 THEN KeyOf(info.fn.ty, info.min) ELSE info.branches[k - 1].threshold
Ranges(info, v) ==
  {k \in 1..Len(info.branches) :
     RangeLow(info, k) <= KeyOf(info.fn.ty, v) /\ KeyOf(info.fn.ty, v) < info.branches[k].threshold}

\* What a key is compared by: the bytes or the rank of a text, or a number.
Body(x) == TextOf[x].body
OrderKey(fn, x) == IF fn.ty = "text" THEN TextOf[x].rank ELSE x
IsKey(fn, x) ==
  IF fn.ty = "text" /\ fn.what = "eq" THEN Body(x) \in Seq(Int) ELSE OrderKey(fn, x) \in Int
Branches == Seq([threshold : Int, result : Int])
KeysAreValues(info, v) ==
  /\ info.branches \in Branches /\ info.fn.ty \in SearchTypes
  /\ IsKey(info.fn, KeyOf(info.fn.ty, v))
  /\ \A k \in 1..Len(info.branches) : IsKey(info.fn, info.branches[k].threshold)
\* Sorted by the comparison, equal branches being next to each other.
BranchesAreSorted(info) ==
  \A k, l \in 1..Len(info.branches) :
     k < l => \/ CompareThresholds(info.fn, info.branches[k].threshold, info.branches[l].threshold) < 0
              \/ info.branches[k] = info.branches[l]
\* No range ends before it begins.
RangesAreProper(info) ==
  /\ KeyOf(info.fn.ty, info.min) \in Int
  /\ \A k \in 1..Len(info.branches) : RangeLow(info, k) <= info.branches[k].threshold

(***************************************************************************)
(* IN lists.                                                               *)
(***************************************************************************)
IsInList(op, x) == \E i \in DOMAIN op.array : ~op.array[i].n /\ Equals(op.ty, op.array[i].v, x)
NonNulls(op) == {op.array[i].v : i \in {i \in DOMAIN op.array : ~op.array[i].n}}
\* The places of a scanned list after its n values.
Padding(padded, n) == {padded[i] : i \in (n + 1)..Len(padded)}

\* The values of a list of a raw type that are not NULL, ascending.
Ascending(vals) == \A k, l \in 1..Len(vals) : k < l => vals[k] <= vals[l]
ListOf(vals, op) == vals \in Seq(Int) /\ Ascending(vals) /\ {vals[k] : k \in 1..Len(vals)} = NonNulls(op)
\* The texts of a list that are not NULL.
TextsOf(texts, n, op) == n \in Nat /\ n = Len(texts) /\ {texts[k] : k \in 1..n} = NonNulls(op)
\* The size computed for n values leaves a free slot.
RoomFor(n) == SlotsFor(n) \in Nat /\ n < SlotsFor(n)
Sorted(op) == SortRawDatums(ListValues(op.array))
ListIsSorted(op) ==
  LET texts == ListValues(op.array)
  IN  /\ op.ty \in RawDatumTypes => ListOf(Sorted(op), op) /\ RoomFor(Len(Sorted(op)))
      /\ op.ty = "text" => TextsOf(texts, Len(texts), op) /\ RoomFor(Len(texts))
\* Hashes are not negative.
HashesAreNat(op) ==
  /\ Crc32(0) \in Nat /\ \A y \in Int : Crc32(Wrap(Bits4, y)) \in Nat
  /\ op.ty = "text" => \A x \in NonNulls(op) : TextHash(Body(x)) \in Nat
\* The 32 bits of a scalar are those of a value of the list only if it is
\* that value.
KeptIn32Bits(vals, x) == x \in Int /\ \A k \in 1..Len(vals) : Wrap(Bits4, vals[k]) = Wrap(Bits4, x) => vals[k] = x
\* The scalar is a Datum of its type ...
ScalarOfType(m, op) ==
  LET x == m.val[op.args[1]]
  IN  ~m.nul[op.args[1]] =>
        /\ op.ty = "text" => TextHash(Body(x)) \in Nat
        /\ op.ty \in RawDatumTypes => x \in Int
        /\ op.ty \in Int32HashTypes => KeptIn32Bits(Sorted(op), x)
\* ... and not the value a scanned list is padded with.
NotThePadding(m, op) ==
  op.plan.path = "simd" /\ ~m.nul[op.args[1]] =>
    Wrap(Bits4, m.val[op.args[1]]) \notin Padding(SljitPad(Sorted(op)), Len(Sorted(op)))
=============================================================================
