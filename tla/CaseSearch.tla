----------------------------- MODULE CaseSearch -----------------------------
(***************************************************************************)
(* CASE expressions turned into a binary search (pg_jitter_common.c).      *)
(* While compiling, the steps are scanned for CASEs whose branches compare *)
(* one variable with constants: with one comparison each, or with a range. *)
(* The constants become a sorted array of thresholds with a result each,   *)
(* and the pointer to it is written over a field of the third step of the  *)
(* CASE.  At run time a helper searches the array.                         *)
(*                                                                         *)
(* A constant argument has no step of its own: it is in the cell of the    *)
(* argument from the start (init).  A cell that a step fills is zero until  *)
(* the step has run.                                                       *)
(***************************************************************************)
EXTENDS ExprMachine, TLC

CONSTANT MinBranches        \* a shorter CASE is left alone (4 in the code)

ASSUME MinBranchesIsCount == MinBranches \in Nat \ {0}

\* Where the execution of a step overwritten by a pointer goes.
Lost == -2

(***************************************************************************)
(* Thresholds.  A search type fixes how a Datum is compared.               *)
(***************************************************************************)
SearchTypes == {"int2", "int4", "int8", "uint4", "float", "text"}
IsComparison(fn) ==
  DOMAIN fn = {"ty", "what"} /\ fn.ty \in SearchTypes /\ fn.what \in Comparisons \ {"ne"}
KeyI32(v) == Wrap(Bits4, v)
KeyU32(v) == Unsigned(Bits4, v)
KeyI16(v) == Wrap(Bits2, v)
\* NaN is equal to itself and above everything.
KeyFloat(v) == IF IsNaN(v) THEN FloatMax + 2 ELSE v
\* Equality of texts searches an order of the bytes; any other comparison
\* the order of the collation.
ByteOrder(a, b) ==
  LET x == TextOf[a].body  y == TextOf[b].body
      short == IF Len(x) < Len(y) THEN Len(x) ELSE Len(y)
      differ == {i \in 1..short : x[i] # y[i]}
      first == CHOOSE i \in differ : \A j \in differ : i <= j
  IN  IF differ # {} THEN (IF x[first] < y[first] THEN -1 ELSE 1) ELSE SignOf(Len(x) - Len(y))
CollationOrder(a, b) == SignOf(TextOf[a].rank - TextOf[b].rank)
KeyOf(ty, v) ==
  CASE ty = "int2" -> KeyI16(v) [] ty = "int4" -> KeyI32(v) [] ty = "uint4" -> KeyU32(v)
    [] ty = "float" -> KeyFloat(v) [] OTHER -> v
\* Of two keys: a threshold is stored as the key of its constant.
CompareThresholds(fn, a, b) ==
  CASE fn.ty = "text" /\ fn.what = "eq" -> ByteOrder(a, b)
    [] fn.ty = "text" /\ fn.what # "eq" -> CollationOrder(a, b)
    [] OTHER -> SignOf(a - b)

(***************************************************************************)
(* One comparison per branch, in five steps: load, compare, jump to the    *)
(* next branch, result, jump to the end.                                   *)
(***************************************************************************)
Loads == {"VAR", "CASE_TESTVAL"}
SameLoad(a, b) == a.opc = b.opc /\ (a.opc = "VAR" => a.slot = b.slot /\ a.att = b.att)
SecondArg(step, init) == init[step.args[2]]
IsStrictCall(step) == step.opc = "FUNCEXPR" /\ step.strict /\ Len(step.args) = 2
IsBranch(steps, init, j) ==
  /\ j + 4 <= Len(steps)
  /\ steps[j].opc \in Loads
  /\ IsStrictCall(steps[j + 1]) /\ ~SecondArg(steps[j + 1], init).n
  /\ steps[j + 2].opc = "JUMP_IF_NOT_TRUE"
  /\ steps[j + 3].opc = "CONST" /\ ~steps[j + 3].n
  /\ steps[j + 4].opc = "JUMP"
\* Branch j belongs to the CASE that begins at i.
ContinuesCase(steps, init, i, j) ==
  /\ IsBranch(steps, init, j)
  /\ SameLoad(steps[i], steps[j])
  /\ steps[j + 1].fn = steps[i + 1].fn
  /\ steps[j + 4].jump = steps[i + 4].jump
  /\ steps[j + 2].jump = j + 5
BranchCount(steps, init, i) ==
  LET continues(n) == \A k \in 1..(n - 1) : ContinuesCase(steps, init, i, i + 5 * k)
  IN  CHOOSE n \in 1..Len(steps) : continues(n) /\ ~continues(n + 1)
\* The ELSE: a constant, then the end or a jump to it.
IsConstElse(steps, j, end) ==
  /\ j <= Len(steps) /\ steps[j].opc = "CONST" /\ ~steps[j].n
  /\ \/ j + 1 = end
     \/ j + 1 <= Len(steps) /\ steps[j + 1].opc = "JUMP" /\ steps[j + 1].jump = end
IsCase(steps, init, i) ==
  LET j == i + 5 * BranchCount(steps, init, i)
  IN  /\ IsBranch(steps, init, i)
      /\ IsComparison(steps[i + 1].fn)
      /\ steps[i + 2].jump = i + 5
      /\ IsConstElse(steps, j, steps[i + 4].jump)
\* Thresholds of < and <= must ascend, of > and >= descend; those of = are
\* sorted and must differ.
IsMonotone(fn, thresholds) ==
  \A k \in 1..(Len(thresholds) - 1) :
     CompareThresholds(fn, thresholds[k], thresholds[k + 1]) = (IF fn.what \in {"lt", "le"} THEN -1 ELSE 1)
AllDiffer(fn, thresholds) ==
  \A k, l \in DOMAIN thresholds : k # l => CompareThresholds(fn, thresholds[k], thresholds[l]) # 0
SortBranches(fn, branches) ==
  SortSeq(branches, LAMBDA a, b : CompareThresholds(fn, a.threshold, b.threshold) < 0)
CaseInfo(steps, init, i) ==
  LET n == BranchCount(steps, init, i)
      fn == steps[i + 1].fn
      branches == [k \in 1..n |-> [threshold |-> KeyOf(fn.ty, SecondArg(steps[i + 5 * k - 4], init).v),
                                   result |-> steps[i + 5 * k - 2].v]]
  IN  [start |-> i, else |-> i + 5 * n, end |-> steps[i + 4].jump, fn |-> fn, hasmin |-> FALSE, min |-> 0,
       branches |-> IF fn.what = "eq" THEN SortBranches(fn, branches) ELSE branches,
       default |-> steps[i + 5 * n].v]
Searchable(info) ==
  LET thresholds == [k \in DOMAIN info.branches |-> info.branches[k].threshold]
  IN  /\ Len(info.branches) >= MinBranches
      /\ IF info.fn.what = "eq" THEN AllDiffer(info.fn, thresholds) ELSE IsMonotone(info.fn, thresholds)
DetectCases(steps, init) ==
  LET Scan[i \in 1..(Len(steps) + 1)] ==
        IF i > Len(steps) - 5 THEN <<>>
        ELSE IF ~IsCase(steps, init, i) THEN Scan[i + 1]
        ELSE LET info == CaseInfo(steps, init, i)
             IN  IF Searchable(info) THEN <<info>> \o Scan[info.end] ELSE Scan[info.else]
  IN  Scan[1]

(***************************************************************************)
(* A range per branch, v >= low AND v < high (or <=): seven steps, then    *)
(* the steps of the result up to a jump to the end.                        *)
(***************************************************************************)
IsAnd(step, places) == step.opc = "QUAL" \/ (step.opc = "BOOL_AND" /\ step.place \in places)
IsRangePrefix(steps, init, j) ==
  /\ j + 7 <= Len(steps)
  /\ steps[j].opc = "VAR" /\ steps[j + 3].opc = "VAR"
  /\ IsStrictCall(steps[j + 1]) /\ ~SecondArg(steps[j + 1], init).n
  /\ IsStrictCall(steps[j + 4]) /\ ~SecondArg(steps[j + 4], init).n
  /\ IsAnd(steps[j + 2], {"first", "middle"}) /\ IsAnd(steps[j + 5], {"last", "middle"})
  /\ steps[j + 6].opc = "JUMP_IF_NOT_TRUE"
IsRange(steps, init, i) ==
  /\ IsRangePrefix(steps, init, i)
  /\ SameLoad(steps[i], steps[i + 3])
  /\ IsComparison(steps[i + 1].fn) /\ steps[i + 1].fn.what = "ge"
  /\ IsComparison(steps[i + 4].fn) /\ steps[i + 4].fn.what \in {"lt", "le"}
  /\ steps[i + 1].fn.ty = steps[i + 4].fn.ty
  /\ \E s \in (i + 7)..Len(steps) : steps[s].opc = "JUMP"
\* The first jump after the prefix, to the end for any branch but the first.
ThenEnd(steps, j, ends) ==
  LET jumps == {s \in (j + 7)..Len(steps) : steps[s].opc = "JUMP" /\ steps[s].jump \in ends}
  IN  IF jumps = {} THEN 0 ELSE CHOOSE s \in jumps : \A t \in jumps : s <= t
ContinuesRange(steps, init, i, j, end) ==
  /\ IsRangePrefix(steps, init, j)
  /\ SameLoad(steps[i], steps[j]) /\ SameLoad(steps[i], steps[j + 3])
  /\ steps[j + 1].fn = steps[i + 1].fn /\ steps[j + 4].fn = steps[i + 4].fn
  /\ ThenEnd(steps, j, {end}) # 0
RangeStarts(steps, init, i) ==
  LET first == ThenEnd(steps, i, 1..(Len(steps) + 1))
      end == steps[first].jump
      From[j \in 1..(Len(steps) + 1)] ==
        IF ContinuesRange(steps, init, i, j, end) THEN <<j>> \o From[ThenEnd(steps, j, {end}) + 1] ELSE <<>>
  IN  <<i>> \o From[first + 1]
\* An inclusive upper bound becomes an exclusive one; it must have one.
Representable(ty, v) ==
  CASE ty = "int2" -> KeyI32(v) <= MaxOf(Bits2) [] ty = "int4" -> KeyI32(v) < MaxOf(Bits4)
    [] OTHER -> v < MaxOf(Bits8)
Upper(steps, init, j) ==
  LET fn == steps[j + 4].fn  v == KeyOf(fn.ty, SecondArg(steps[j + 4], init).v)
  IN  IF fn.what = "le" THEN v + 1 ELSE v
Lower(steps, init, j) == KeyOf(steps[j + 1].fn.ty, SecondArg(steps[j + 1], init).v)
IsContiguous(steps, init, starts) ==
  LET fn == steps[starts[1] + 4].fn
  IN  /\ fn.ty \in {"int2", "int4", "int8"}
      /\ fn.what = "le" => \A k \in DOMAIN starts :
                              Representable(fn.ty, SecondArg(steps[starts[k] + 4], init).v)
      /\ \A k \in 1..(Len(starts) - 1) :
            Upper(steps, init, starts[k]) = Lower(steps, init, starts[k + 1])
RangeInfo(steps, init, starts, else, end) ==
  [start |-> starts[1], else |-> else, end |-> end,
   fn |-> [steps[starts[1] + 4].fn EXCEPT !.what = "lt"],
   hasmin |-> TRUE, min |-> SecondArg(steps[starts[1] + 1], init).v,
   branches |-> [k \in DOMAIN starts |-> [threshold |-> Upper(steps, init, starts[k]),
                                          result |-> steps[starts[k] + 7].v]],
   default |-> steps[else].v]
\* Only CASEs whose results begin with a constant are kept.
DetectRanges(steps, init) ==
  LET Scan[i \in 1..(Len(steps) + 1)] ==
        IF i + 7 > Len(steps) THEN <<>>
        ELSE IF ~IsRange(steps, init, i) THEN Scan[i + 1]
        ELSE LET starts == RangeStarts(steps, init, i)
                 end == steps[ThenEnd(steps, i, 1..(Len(steps) + 1))].jump
                 last == starts[Len(starts)]
                 else == ThenEnd(steps, last, {end}) + 1
                 IsConst(s) == s <= Len(steps) /\ steps[s].opc = "CONST" /\ ~steps[s].n
             IN  IF ~(Len(starts) >= MinBranches /\ IsContiguous(steps, init, starts) /\ IsConst(else))
                 THEN Scan[else]
                 ELSE IF \A k \in DOMAIN starts : IsConst(starts[k] + 7)
                 THEN <<RangeInfo(steps, init, starts, else, end)>> \o Scan[end]
                 ELSE Scan[end]
  IN  Scan[1]

\* pg_jitter_detect_case_bsearch: first one pass, then the other.
DetectCaseBsearch(steps, init) == DetectCases(steps, init) \o DetectRanges(steps, init)

\* pg_jitter_setup_case_bsearch_arrays: the pointer lands on the first field
\* of the step: the jump target, or the address of the anynull flag.
Overwritten(step) ==
  IF step.opc \in {"BOOL_AND", "BOOL_OR"} THEN [step EXCEPT !.any = "desc"] ELSE [step EXCEPT !.jump = Lost]
SetupArrays(steps, cases) ==
  [i \in DOMAIN steps |->
     IF \E k \in DOMAIN cases : cases[k].start + 2 = i THEN Overwritten(steps[i]) ELSE steps[i]]

\* Mutant: the first CASE found is passed over.
InjectedFromSecond(cases) ==
  {cases[k] : k \in {k \in DOMAIN cases : k > 1}}
\* The code generator meets the CASEs in the order of the steps and waits
\* for the next one in the order found: one that begins before the end of
\* the one before it never comes, nor does any after it.
Injected(cases) ==
  {cases[k] : k \in {k \in DOMAIN cases : \A l \in 2..k : cases[l].start + 1 >= cases[l - 1].end}}

(***************************************************************************)
(* The helpers.                                                            *)
(***************************************************************************)
\* pg_jitter_case_bsearch_lt, le, gt, ge: the first branch that holds.
HoldsAt(info, v, k) ==
  LET c == CompareThresholds(info.fn, KeyOf(info.fn.ty, v), info.branches[k].threshold)
  IN  CASE info.fn.what = "lt" -> c < 0 [] info.fn.what = "le" -> c <= 0
        [] info.fn.what = "gt" -> c > 0 [] OTHER -> c >= 0
SearchBound(info, v) ==
  LET n == Len(info.branches)
      Loop[r \in (0..n) \X (0..n)] ==
        LET lo == r[1]  hi == r[2]  mid == lo + (hi - lo) \div 2
        IN  IF lo >= hi THEN lo
            ELSE IF HoldsAt(info, v, mid + 1) THEN Loop[<<lo, mid>>] ELSE Loop[<<mid + 1, hi>>]
      at == Loop[<<0, n>>]
  IN  IF info.hasmin /\ KeyOf(info.fn.ty, v) < KeyOf(info.fn.ty, info.min) THEN info.default
      ELSE IF at < n THEN info.branches[at + 1].result ELSE info.default
\* pg_jitter_case_bsearch_eq: hi is the last candidate, and may be -1.
SearchEqual(info, v) ==
  LET n == Len(info.branches)
      Loop[r \in (0..n) \X (-1..(n - 1))] ==
        LET lo == r[1]  hi == r[2]  mid == lo + (hi - lo) \div 2
            c == CompareThresholds(info.fn, KeyOf(info.fn.ty, v), info.branches[mid + 1].threshold)
        IN  IF lo > hi THEN info.default
            ELSE IF c = 0 THEN info.branches[mid + 1].result
            ELSE IF c > 0 THEN Loop[<<mid + 1, hi>>] ELSE Loop[<<lo, mid - 1>>]
  IN  Loop[<<0, n - 1>>]
SelectHelper(info, v) == IF info.fn.what = "eq" THEN SearchEqual(info, v) ELSE SearchBound(info, v)
=============================================================================
