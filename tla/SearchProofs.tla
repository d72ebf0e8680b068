---------------------------- MODULE SearchProofs ----------------------------
(***************************************************************************)
(* Proofs about the searches that compiled code runs in place of a chain   *)
(* of comparisons: for CASEs of any number of branches and IN lists of any *)
(* length they find what the comparisons one by one would find.            *)
(*                                                                         *)
(* A loop of the code is a recursive function here.  That such a function  *)
(* is defined where its code looks is shown by induction on what remains   *)
(* to be searched: the induction takes the least number of a set, because  *)
(* the library's induction theorems need a predicate as a parameter.       *)
(***************************************************************************)
EXTENDS Searches, WellFoundedInduction, FiniteSetTheorems, TLAPS

\* A set of natural numbers has a least one: the form every induction here
\* takes.
LEMMA LeastNat ==
  ASSUME NEW T \in SUBSET Nat, T # {} PROVE \E x \in T : \A y \in T : x <= y
<1>1. PICK x \in T : \A y \in T : ~(<<y, x>> \in OpToRel(<, Nat))
  BY NatLessThanWellFounded, WFMin
<1>2. \A y \in T : ~(y < x)
  BY <1>1 DEF OpToRel
<1> QED
  BY <1>2

\* g is a loop without a result of its own: it stops with base[p] or goes on
\* at next[p].
Defined(g, D, Stop, base, next) == g = [p \in D |-> IF p \in Stop THEN base[p] ELSE g[next[p]]]

\* A loop is a function that is defined when each turn makes mu smaller, as
\* the while loops of the CASE helpers and the nodes of the trees make their
\* interval smaller.
LEMMA TailRecursion ==
  ASSUME NEW D, NEW Stop, NEW base, NEW next, NEW mu \in [D -> Nat],
         \A p \in D : p \notin Stop => next[p] \in D /\ mu[next[p]] < mu[p]
  PROVE  \E g : Defined(g, D, Stop, base, next)
<1> DEFINE Step(h, p) == IF p \in Stop THEN base[p] ELSE h[next[p]]
           Upto(h, k) == \A p \in D : mu[p] < k => h[p] = Step(h, p)
<1>1. \A k \in Nat : \E h : Upto(h, k)
  <2> DEFINE Bad == {k \in Nat : ~\E h : Upto(h, k)}
  <2> SUFFICES ASSUME Bad # {} PROVE FALSE
    OBVIOUS
  <2>1. PICK k \in Bad : \A y \in Bad : k <= y
    BY LeastNat
  <2>2. CASE k = 0
    BY <2>1, <2>2
  <2>3. CASE k # 0
    <3>1. k - 1 \in Nat /\ k - 1 \notin Bad
      BY <2>1, <2>3
    <3>2. PICK h : Upto(h, k - 1)
      BY <3>1
    <3> DEFINE f == [p \in D |-> Step(h, p)]
    <3>3. \A p \in D : mu[p] < k => f[p] = Step(f, p)
      <4> SUFFICES ASSUME NEW p \in D, mu[p] < k, p \notin Stop PROVE h[next[p]] = f[next[p]]
        OBVIOUS
      <4>1. next[p] \in D /\ mu[next[p]] < k - 1
        BY <2>1
      <4> QED
        BY <3>2, <4>1
    <3>4. Upto(f, k)
      BY <3>3
    <3> QED
      BY <2>1, <3>4
  <2> QED
    BY <2>2, <2>3
<1>2. \A h1, h2, k1, k2 : k1 \in Nat /\ k2 \in Nat /\ Upto(h1, k1) /\ Upto(h2, k2) =>
        \A p \in D : mu[p] < k1 /\ mu[p] < k2 => h1[p] = h2[p]
  <2> SUFFICES ASSUME NEW h1, NEW h2, NEW k1 \in Nat, NEW k2 \in Nat, Upto(h1, k1), Upto(h2, k2),
                      NEW q \in D, mu[q] < k1, mu[q] < k2, h1[q] # h2[q]
               PROVE  FALSE
    OBVIOUS
  <2> DEFINE Bad == {j \in Nat : \E p \in D : mu[p] = j /\ j < k1 /\ j < k2 /\ h1[p] # h2[p]}
  <2>1. PICK j \in Bad : \A y \in Bad : j <= y
    <3>1. mu[q] \in Bad
      OBVIOUS
    <3> QED
      BY <3>1, LeastNat
  <2>2. PICK p \in D : mu[p] = j /\ j < k1 /\ j < k2 /\ h1[p] # h2[p]
    BY <2>1
  <2>3. p \notin Stop
    BY <2>2
  <2>4. h1[next[p]] # h2[next[p]]
    BY <2>2, <2>3
  <2>5. mu[next[p]] \in Bad
    BY <2>2, <2>3, <2>4
  <2> QED
    BY <2>1, <2>2, <2>3, <2>5
<1> DEFINE Some(k) == CHOOSE h : Upto(h, k)
           g == [p \in D |-> Some(mu[p] + 1)[p]]
<1>3. \A k \in Nat : Upto(Some(k), k)
  BY <1>1
<1>4. \A p \in D : g[p] = Step(g, p)
  <2> TAKE p \in D
  <2>1. mu[p] + 1 \in Nat /\ mu[p] < mu[p] + 1
    OBVIOUS
  <2>2. g[p] = Step(Some(mu[p] + 1), p)
    BY <1>3, <2>1
  <2>3. CASE p \notin Stop
    <3>1. next[p] \in D /\ mu[next[p]] \in Nat /\ mu[next[p]] < mu[p]
      BY <2>3
    <3>2. mu[next[p]] + 1 \in Nat /\ mu[next[p]] < mu[next[p]] + 1 /\ mu[next[p]] < mu[p] + 1
      BY <3>1
    <3> HIDE DEF Some, Upto
    <3>3. Some(mu[p] + 1)[next[p]] = Some(mu[next[p]] + 1)[next[p]]
      BY <1>2, <1>3, <2>1, <3>1, <3>2
    <3> QED
      BY <2>2, <2>3, <3>1, <3>3
  <2> QED
    BY <2>2, <2>3
<1>5. Defined(g, D, Stop, base, next)
  <2> HIDE DEF Some
  <2> QED
    BY <1>4 DEF Defined
<1> HIDE DEF g
<1> QED
  BY <1>5

\* lo + (hi - lo) / 2, the middle every search of the code takes, lies in the
\* interval, and before its end when there are two places.
LEMMA Middle ==
  ASSUME NEW lo \in Int, NEW hi \in Int, lo <= hi
  PROVE  LET mid == lo + (hi - lo) \div 2
         IN  mid \in Int /\ lo <= mid /\ mid <= hi /\ (lo < hi => mid < hi)
OBVIOUS

\* How many places are left of an interval.
Length(r) == IF r[1] > r[2] THEN 0 ELSE r[2] - r[1] + 1

\* A loop over intervals that get shorter is defined.
LEMMA IntervalRecursion ==
  ASSUME NEW A \in SUBSET Int, NEW B \in SUBSET Int, NEW Stop, NEW base, NEW next,
         \A lo \in A, hi \in B : <<lo, hi>> \notin Stop =>
            next[<<lo, hi>>] \in A \X B /\ Length(next[<<lo, hi>>]) < Length(<<lo, hi>>)
  PROVE  \E g : Defined(g, A \X B, Stop, base, next)
<1> DEFINE D == A \X B
           mu == [r \in D |-> Length(r)]
<1>1. mu \in [D -> Nat]
  <2> SUFFICES ASSUME NEW r \in D PROVE Length(r) \in Nat
    OBVIOUS
  <2>1. r[1] \in Int /\ r[2] \in Int
    OBVIOUS
  <2> QED
    BY <2>1 DEF Length
<1>2. \A p \in D : p \notin Stop => next[p] \in D /\ Length(next[p]) < Length(p)
  <2> TAKE p \in D
  <2>1. PICK lo \in A, hi \in B : p = <<lo, hi>>
    <3>1. p[1] \in A /\ p[2] \in B /\ p = <<p[1], p[2]>>
      OBVIOUS
    <3> QED
      BY <3>1
  <2> QED
    BY <2>1
<1>3. \A p \in D : p \notin Stop => next[p] \in D /\ mu[next[p]] < mu[p]
  BY <1>2
<1> HIDE DEF mu, D
<1>4. \E g : Defined(g, D, Stop, base, next)
  BY <1>1, <1>3, TailRecursion
<1> QED
  BY <1>4 DEF D

(***************************************************************************)
(* The first index that holds, when all after it hold (lower bound).       *)
(***************************************************************************)

\* L halves an interval until it is empty, as pg_jitter_case_bsearch_* does
\* for <, <=, > and >=: to the left of a place of H, to the right of another.
HalvesFirst(L, n, H) ==
  \A lo, hi \in 0..n : L[<<lo, hi>>] =
    LET mid == lo + (hi - lo) \div 2
    IN  IF lo >= hi THEN lo ELSE IF mid + 1 \in H THEN L[<<lo, mid>>] ELSE L[<<mid + 1, hi>>]

\* Where a halving loop stops is before the first place of H and after all
\* others, when H has every place after one of its own.
LEMMA FirstThatHolds ==
  ASSUME NEW n \in Nat, NEW L, NEW H, HalvesFirst(L, n, H), \A k, l \in 1..n : k < l /\ k \in H => l \in H
  PROVE  L[<<0, n>>] \in 0..n /\ \A k \in 1..n : k \in H <=> L[<<0, n>>] < k
<1> DEFINE Right(at) == at \in 0..n /\ \A k \in 1..n : k \in H <=> at < k
           Goes(lo, hi) ==
             lo <= hi /\ (\A k \in 1..n : (k <= lo => k \notin H) /\ (hi < k => k \in H)) => Right(L[<<lo, hi>>])
           Bad == {w \in Nat : \E lo, hi \in 0..n : w = hi - lo /\ ~Goes(lo, hi)}
<1>1. CASE Bad = {}
  <2>1. Goes(0, n)
    <3> HIDE DEF Goes
    <3>1. n - 0 \in Nat /\ n - 0 \notin Bad /\ 0 \in 0..n /\ n \in 0..n
      BY <1>1
    <3> QED
      BY <3>1
  <2> QED
    BY <2>1
<1>2. CASE Bad # {}
  <2>1. PICK w \in Bad : \A y \in Bad : w <= y
    BY <1>2, LeastNat
  <2>2. PICK lo \in 0..n, hi \in 0..n : w = hi - lo /\ ~Goes(lo, hi)
    BY <2>1
  <2>0. \A a, b \in 0..n : b - a \in Nat /\ b - a < w => Goes(a, b)
    <3> HIDE DEF Goes
    <3>1. \A a, b \in 0..n : b - a \in Nat /\ ~Goes(a, b) => b - a \in Bad
      OBVIOUS
    <3>2. w \in Nat
      BY <2>1
    <3> HIDE DEF Bad
    <3> SUFFICES ASSUME NEW a \in 0..n, NEW b \in 0..n, b - a \in Nat, b - a < w, ~Goes(a, b) PROVE FALSE
      OBVIOUS
    <3>3. b - a \in Bad
      BY <3>1
    <3>4. w <= b - a
      BY <2>1, <3>3
    <3> QED
      BY <3>2, <3>4
  <2>3. /\ lo <= hi
        /\ \A k \in 1..n : (k <= lo => k \notin H) /\ (hi < k => k \in H)
        /\ ~Right(L[<<lo, hi>>])
    BY <2>2
  <2>4. CASE lo = hi
    <3> DEFINE mid == lo + (hi - lo) \div 2
    <3>0. L[<<lo, hi>>] = IF lo >= hi THEN lo ELSE IF mid + 1 \in H THEN L[<<lo, mid>>] ELSE L[<<mid + 1, hi>>]
      BY DEF HalvesFirst
    <3> HIDE DEF mid
    <3>1. L[<<lo, hi>>] = lo
      BY <2>4, <3>0
    <3> QED
      BY <2>3, <2>4, <3>1
  <2>5. CASE lo < hi
    <3> DEFINE mid == lo + (hi - lo) \div 2
    <3>1. mid \in Int /\ lo <= mid /\ mid < hi
      BY <2>5, Middle
    <3>2. L[<<lo, hi>>] = IF mid + 1 \in H THEN L[<<lo, mid>>] ELSE L[<<mid + 1, hi>>]
      BY <2>5 DEF HalvesFirst
    <3> HIDE DEF mid
    <3>3. CASE mid + 1 \in H
      <4>1. \A k \in 1..n : mid < k => k \in H
        BY <3>1, <3>3
      <4>2. mid \in 0..n /\ mid - lo < w /\ mid - lo \in Nat
        BY <2>2, <3>1
      <4>3. Goes(lo, mid)
        BY <2>0, <4>2
      <4> QED
        BY <2>3, <3>1, <3>2, <3>3, <4>1, <4>2, <4>3
    <3>4. CASE mid + 1 \notin H
      <4>1. \A k \in 1..n : k <= mid + 1 => k \notin H
        BY <3>1, <3>4
      <4>2. mid + 1 \in 0..n /\ hi - (mid + 1) < w /\ hi - (mid + 1) \in Nat
        BY <2>2, <3>1
      <4>3. Goes(mid + 1, hi)
        BY <2>0, <4>2
      <4> QED
        BY <2>3, <3>1, <3>2, <3>4, <4>1, <4>2, <4>3
    <3> QED
      BY <3>3, <3>4
  <2> QED
    BY <2>3, <2>4, <2>5
<1> QED
  BY <1>1, <1>2

(***************************************************************************)
(* The index where the comparison says equal, in an ascending list.        *)
(***************************************************************************)

\* c[k] compares what is searched with element k: all before an element that
\* is not greater are less.
Descending(c, n) ==
  /\ \A k \in 1..n : c[k] \in Int
  /\ \A k, l \in 1..n : k < l => (c[l] >= 0 => c[k] > 0) /\ (c[k] <= 0 => c[l] < 0)

\* L halves an interval until it meets an equal element, as
\* pg_jitter_case_bsearch_* does for =.
HalvesEqual(L, n, c, val, none) ==
  \A lo \in 1..(n + 1), hi \in 0..n : L[<<lo, hi>>] =
    LET mid == lo + (hi - lo) \div 2
    IN  IF lo > hi THEN none
        ELSE IF c[mid] = 0 THEN val[mid]
        ELSE IF c[mid] > 0 THEN L[<<mid + 1, hi>>] ELSE L[<<lo, mid - 1>>]

\* A halving loop finds the value of an equal element, and none when no
\* element is equal.
LEMMA TheOneThatEquals ==
  ASSUME NEW n \in Nat, NEW L, NEW c, NEW val, NEW none, HalvesEqual(L, n, c, val, none), Descending(c, n)
  PROVE  /\ \A k \in 1..n : c[k] = 0 => L[<<1, n>>] = val[k]
         /\ (\A k \in 1..n : c[k] # 0) => L[<<1, n>>] = none
<1> DEFINE Right(r) == (\A k \in 1..n : c[k] = 0 => r = val[k]) /\ ((\A k \in 1..n : c[k] # 0) => r = none)
           Goes(lo, hi) ==
             (\A k \in 1..n : (k < lo => c[k] > 0) /\ (hi < k => c[k] < 0)) => Right(L[<<lo, hi>>])
           Bad == {w \in Nat : \E lo \in 1..(n + 1), hi \in 0..n : w = Length(<<lo, hi>>) /\ ~Goes(lo, hi)}
<1>0. \A lo, hi \in Int : Length(<<lo, hi>>) = IF lo > hi THEN 0 ELSE hi - lo + 1
  BY DEF Length
<1>1. CASE Bad = {}
  <2>1. Goes(1, n)
    <3> HIDE DEF Goes
    <3>1. Length(<<1, n>>) \in Nat /\ 1 \in 1..(n + 1) /\ n \in 0..n
      BY <1>0
    <3>2. Length(<<1, n>>) \notin Bad
      BY <1>1
    <3> QED
      BY <3>1, <3>2
  <2> QED
    BY <2>1
<1>2. CASE Bad # {}
  <2>1. PICK w \in Bad : \A y \in Bad : w <= y
    BY <1>2, LeastNat
  <2>2. PICK lo \in 1..(n + 1), hi \in 0..n : w = Length(<<lo, hi>>) /\ ~Goes(lo, hi)
    BY <2>1
  <2>0. \A a \in 1..(n + 1), b \in 0..n : Length(<<a, b>>) \in Nat /\ Length(<<a, b>>) < w => Goes(a, b)
    <3> HIDE DEF Goes
    <3>1. \A a \in 1..(n + 1), b \in 0..n : Length(<<a, b>>) \in Nat /\ ~Goes(a, b) => Length(<<a, b>>) \in Bad
      OBVIOUS
    <3> QED
      BY <2>1, <3>1, <1>0
  <2>3. (\A k \in 1..n : (k < lo => c[k] > 0) /\ (hi < k => c[k] < 0)) /\ ~Right(L[<<lo, hi>>])
    BY <2>2
  <2>4. CASE lo > hi
    <3>1. L[<<lo, hi>>] = none
      BY <2>4 DEF HalvesEqual
    <3>2. \A k \in 1..n : c[k] \in Int /\ c[k] # 0
      BY <2>3, <2>4 DEF Descending
    <3> QED
      BY <2>3, <3>1, <3>2
  <2>5. CASE lo <= hi
    <3> DEFINE mid == lo + (hi - lo) \div 2
    <3>1. mid \in 1..n /\ lo <= mid /\ mid <= hi
      BY <2>5, Middle
    <3>2. L[<<lo, hi>>] = IF c[mid] = 0 THEN val[mid]
                          ELSE IF c[mid] > 0 THEN L[<<mid + 1, hi>>] ELSE L[<<lo, mid - 1>>]
      BY <2>5 DEF HalvesEqual
    <3>3. w = hi - lo + 1
      BY <1>0, <2>2, <2>5
    <3> HIDE DEF mid
    <3>4. CASE c[mid] = 0
      <4>1. \A k \in 1..n : c[k] = 0 => k = mid
        BY <3>1, <3>4 DEF Descending
      <4> QED
        BY <2>3, <3>1, <3>2, <3>4, <4>1
    <3>5. CASE c[mid] > 0
      <4>1. \A k \in 1..n : k < mid + 1 => c[k] > 0
        BY <3>1, <3>5 DEF Descending
      <4>2. mid + 1 \in 1..(n + 1) /\ Length(<<mid + 1, hi>>) \in Nat /\ Length(<<mid + 1, hi>>) < w
        BY <1>0, <3>1, <3>3
      <4>3. Goes(mid + 1, hi)
        BY <2>0, <4>2
      <4>4. L[<<lo, hi>>] = L[<<mid + 1, hi>>]
        BY <3>2, <3>5, <3>1 DEF Descending
      <4> QED
        BY <2>3, <4>1, <4>3, <4>4
    <3>6. CASE c[mid] < 0
      <4>1. \A k \in 1..n : mid - 1 < k => c[k] < 0
        BY <3>1, <3>6 DEF Descending
      <4>2. mid - 1 \in 0..n /\ Length(<<lo, mid - 1>>) \in Nat /\ Length(<<lo, mid - 1>>) < w
        BY <1>0, <3>1, <3>3
      <4>3. Goes(lo, mid - 1)
        BY <2>0, <4>2
      <4>4. L[<<lo, hi>>] = L[<<lo, mid - 1>>]
        BY <3>2, <3>6, <3>1 DEF Descending
      <4> QED
        BY <2>3, <4>1, <4>3, <4>4
    <3> QED
      BY <3>1, <3>4, <3>5, <3>6 DEF Descending
  <2> QED
    BY <2>4, <2>5
<1> QED
  BY <1>1, <1>2

(***************************************************************************)
(* CASEs turned into a search.                                             *)
(***************************************************************************)

\* The loop of pg_jitter_case_bsearch_* for <, <=, > and >= halves, and its
\* result is that of the branch it stops at.
LEMMA BoundLoop ==
  ASSUME NEW info, NEW v, Len(info.branches) \in Nat
  PROVE  \E L : /\ HalvesFirst(L, Len(info.branches), {k \in 1..Len(info.branches) : HoldsAt(info, v, k)})
                /\ SearchBound(info, v) =
                     IF info.hasmin /\ KeyOf(info.fn.ty, v) < KeyOf(info.fn.ty, info.min) THEN info.default
                     ELSE IF L[<<0, Len(info.branches)>>] < Len(info.branches)
                          THEN info.branches[L[<<0, Len(info.branches)>>] + 1].result ELSE info.default
<1> DEFINE n == Len(info.branches)
           H == {k \in 1..n : HoldsAt(info, v, k)}
           D == (0..n) \X (0..n)
           Once(L) ==
             [r \in D |->
                LET lo == r[1]  hi == r[2]  mid == lo + (hi - lo) \div 2
                IN  IF lo >= hi THEN lo
                    ELSE IF HoldsAt(info, v, mid + 1) THEN L[<<lo, mid>>] ELSE L[<<mid + 1, hi>>]]
           L == CHOOSE g : g = Once(g)
           Mid(r) == r[1] + (r[2] - r[1]) \div 2
           Stop == {r \in D : r[1] >= r[2]}
           base == [r \in D |-> r[1]]
           next == [r \in D |-> IF HoldsAt(info, v, Mid(r) + 1) THEN <<r[1], Mid(r)>> ELSE <<Mid(r) + 1, r[2]>>]
<1>1. \E g : Defined(g, D, Stop, base, next)
  <2>1. \A lo, hi \in 0..n : <<lo, hi>> \notin Stop =>
          next[<<lo, hi>>] \in D /\ Length(next[<<lo, hi>>]) < Length(<<lo, hi>>)
    <3> SUFFICES ASSUME NEW lo \in 0..n, NEW hi \in 0..n, lo < hi
                 PROVE  next[<<lo, hi>>] \in D /\ Length(next[<<lo, hi>>]) < Length(<<lo, hi>>)
      <4>1. \A lo, hi \in 0..n : <<lo, hi>> \notin Stop => lo < hi
        OBVIOUS
      <4> HIDE DEF next, Stop
      <4> QED
        BY <4>1
    <3> DEFINE mid == lo + (hi - lo) \div 2
    <3>1. mid \in Int /\ lo <= mid /\ mid < hi
      BY Middle
    <3>2. Mid(<<lo, hi>>) = mid
      OBVIOUS
    <3> HIDE DEF Mid, mid
    <3>3. next[<<lo, hi>>] \in {<<lo, mid>>, <<mid + 1, hi>>}
      BY <3>2
    <3>4. <<lo, mid>> \in D /\ <<mid + 1, hi>> \in D
      BY <3>1
    <3>5. Length(<<lo, mid>>) < Length(<<lo, hi>>) /\ Length(<<mid + 1, hi>>) < Length(<<lo, hi>>)
      BY <3>1 DEF Length
    <3> QED
      BY <3>3, <3>4, <3>5
  <2>2. 0..n \in SUBSET Int
    OBVIOUS
  <2> HIDE DEF Stop, base, next
  <2> QED
    BY <2>1, <2>2, IntervalRecursion, Zenon
<1>2. ASSUME NEW g, Defined(g, D, Stop, base, next) PROVE g = Once(g)
  BY <1>2 DEF Defined
<1>3. L = Once(L)
  BY <1>1, <1>2
<1>4. SearchBound(info, v) =
        IF info.hasmin /\ KeyOf(info.fn.ty, v) < KeyOf(info.fn.ty, info.min) THEN info.default
        ELSE IF L[<<0, n>>] < n THEN info.branches[L[<<0, n>>] + 1].result ELSE info.default
  BY DEF SearchBound
<1>5. HalvesFirst(L, n, H)
  <2> SUFFICES ASSUME NEW lo \in 0..n, NEW hi \in 0..n
               PROVE  LET mid == lo + (hi - lo) \div 2
                      IN  L[<<lo, hi>>] = IF lo >= hi THEN lo ELSE IF mid + 1 \in H THEN L[<<lo, mid>>] ELSE L[<<mid + 1, hi>>]
    BY DEF HalvesFirst
  <2> DEFINE mid == lo + (hi - lo) \div 2
  <2>1. L[<<lo, hi>>] = Once(L)[<<lo, hi>>]
    BY <1>3
  <2>2. L[<<lo, hi>>] = IF lo >= hi THEN lo
                        ELSE IF HoldsAt(info, v, mid + 1) THEN L[<<lo, mid>>] ELSE L[<<mid + 1, hi>>]
    <3> HIDE DEF L
    <3> QED
      BY <2>1
  <2>3. lo < hi => mid + 1 \in 1..n
    BY Middle
  <2> HIDE DEF L, mid
  <2>4. lo < hi => (HoldsAt(info, v, mid + 1) <=> mid + 1 \in H)
    BY <2>3
  <2> QED
    BY <2>2, <2>4 DEF mid
<1> HIDE DEF L
<1> QED
  BY <1>4, <1>5

\* A sequence in which each element is less than the next is in order
\* throughout.
LEMMA InOrder ==
  ASSUME NEW n \in Nat, NEW K \in [1..n -> Int], \A k \in 1..(n - 1) : K[k] < K[k + 1]
  PROVE  \A k, l \in 1..n : k < l => K[k] < K[l]
<1> DEFINE Bad == {w \in Nat : \E k, l \in 1..n : k < l /\ w = l - k /\ K[k] >= K[l]}
<1> SUFFICES ASSUME NEW a \in 1..n, NEW b \in 1..n, a < b, K[a] >= K[b] PROVE FALSE
  OBVIOUS
<1>1. b - a \in Bad
  OBVIOUS
<1>2. PICK w \in Bad : \A y \in Bad : w <= y
  BY <1>1, LeastNat
<1>3. PICK k \in 1..n, l \in 1..n : k < l /\ w = l - k /\ K[k] >= K[l]
  BY <1>2
<1>4. K[k] < K[k + 1]
  BY <1>3
<1>5. k + 1 < l /\ K[k + 1] >= K[l]
  <2>1. K[k] \in Int /\ K[k + 1] \in Int /\ K[l] \in Int
    BY <1>3
  <2> QED
    BY <1>3, <1>4, <2>1
<1>6. l - (k + 1) \in Bad
  BY <1>3, <1>5
<1>7. w <= l - (k + 1)
  BY <1>2, <1>6
<1> QED
  BY <1>3, <1>7

\* The thresholds of the branches, which pg_jitter_detect_case_bsearch
\* compares pairwise.
Thresholds(info) == [k \in DOMAIN info.branches |-> info.branches[k].threshold]

\* All comparisons except those of texts for equality are of numbers: the
\* values themselves, or the ranks the collation gives.
LEMMA CompareByKey ==
  ASSUME NEW fn, NEW a, NEW b, ~(fn.ty = "text" /\ fn.what = "eq")
  PROVE  CompareThresholds(fn, a, b) = SignOf(OrderKey(fn, a) - OrderKey(fn, b))
BY DEF CompareThresholds, CollationOrder, OrderKey

\* The sign of a difference tells the order of its operands.
LEMMA SignOfDifference ==
  ASSUME NEW a \in Int, NEW b \in Int
  PROVE  LET s == SignOf(a - b)
         IN  s \in Int /\ (s < 0 <=> a < b) /\ (s <= 0 <=> a <= b) /\ (s > 0 <=> a > b) /\ (s >= 0 <=> a >= b)
             /\ (s = 0 <=> a = b) /\ (s = 1 <=> a > b) /\ (s = -1 <=> a < b)
BY DEF SignOf

\* When the thresholds are monotone as pg_jitter_detect_case_bsearch demands,
\* the branches that hold are all after the first one that holds.
LEMMA HoldsOnwards ==
  ASSUME NEW info, NEW v, info.branches \in Branches, KeysAreValues(info, v), info.fn.what \in {"lt", "le", "gt", "ge"},
         IsMonotone(info.fn, Thresholds(info))
  PROVE  \A k, l \in 1..Len(info.branches) : k < l /\ HoldsAt(info, v, k) => HoldsAt(info, v, l)
<1> DEFINE n == Len(info.branches)
           X == OrderKey(info.fn, KeyOf(info.fn.ty, v))
           T(k) == OrderKey(info.fn, info.branches[k].threshold)
           up == info.fn.what \in {"lt", "le"}
<1>1. n \in Nat /\ DOMAIN info.branches = 1..n
  BY DEF Branches
<1>2. X \in Int /\ \A k \in 1..n : T(k) \in Int
  BY DEF KeysAreValues, IsKey
<1>3. \A k \in 1..n : HoldsAt(info, v, k) <=> CASE info.fn.what = "lt" -> X < T(k) [] info.fn.what = "le" -> X <= T(k)
                                                [] info.fn.what = "gt" -> X > T(k) [] OTHER -> X >= T(k)
  <2> TAKE k \in 1..n
  <2>1. CompareThresholds(info.fn, KeyOf(info.fn.ty, v), info.branches[k].threshold) = SignOf(X - T(k))
    BY CompareByKey
  <2> HIDE DEF X, T
  <2> QED
    BY <1>2, <2>1, SignOfDifference DEF HoldsAt
<1>4. \A k \in 1..(n - 1) : IF up THEN T(k) < T(k + 1) ELSE T(k) > T(k + 1)
  <2> TAKE k \in 1..(n - 1)
  <2>1. CompareThresholds(info.fn, info.branches[k].threshold, info.branches[k + 1].threshold) = (IF up THEN -1 ELSE 1)
    <3>1. Len(Thresholds(info)) = n /\ k \in DOMAIN info.branches /\ k + 1 \in DOMAIN info.branches
      BY <1>1 DEF Thresholds
    <3> QED
      BY <3>1 DEF IsMonotone, Thresholds
  <2>2. SignOf(T(k) - T(k + 1)) = (IF up THEN -1 ELSE 1)
    BY <2>1, CompareByKey
  <2>3. T(k) \in Int /\ T(k + 1) \in Int
    <3>1. k \in 1..n /\ k + 1 \in 1..n
      BY <1>1
    <3> HIDE DEF T
    <3> QED
      BY <1>2, <3>1
  <2> HIDE DEF T
  <2> QED
    BY <2>2, <2>3, SignOfDifference
<1> DEFINE K == [k \in 1..n |-> IF up THEN T(k) ELSE -T(k)]
<1> HIDE DEF X, T, n
<1>5. K \in [1..n -> Int]
  BY <1>1, <1>2
<1>6. \A k \in 1..(n - 1) : K[k] < K[k + 1]
  <2> TAKE k \in 1..(n - 1)
  <2>1. k \in 1..n /\ k + 1 \in 1..n
    BY <1>1
  <2> QED
    BY <2>1, <1>2, <1>4
<1>7. \A k, l \in 1..n : k < l => K[k] < K[l]
  <2> HIDE DEF K
  <2> QED
    BY <1>1, <1>5, <1>6, InOrder
<1>8. \A k, l \in 1..n : k < l => IF up THEN T(k) < T(l) ELSE T(k) > T(l)
  BY <1>2, <1>7
<1>9. \A k, l \in 1..n : k < l /\ HoldsAt(info, v, k) => HoldsAt(info, v, l)
  BY <1>2, <1>3, <1>8
<1> QED
  BY <1>9 DEF n

\* The loop of pg_jitter_case_bsearch_* for <, <=, > and >= finds the first
\* branch that holds when all after it hold; below the lowest bound of a CASE
\* of ranges it gives the default.
LEMMA BoundSearch ==
  ASSUME NEW info, NEW v, info.branches \in Branches,
         \A k, l \in 1..Len(info.branches) : k < l /\ HoldsAt(info, v, k) => HoldsAt(info, v, l)
  PROVE  LET holds == {k \in 1..Len(info.branches) : HoldsAt(info, v, k)}
         IN  IF info.hasmin /\ KeyOf(info.fn.ty, v) < KeyOf(info.fn.ty, info.min) THEN SearchBound(info, v) = info.default
             ELSE FirstWins(info, holds, SearchBound(info, v))
<1> DEFINE n == Len(info.branches)
           H == {k \in 1..n : HoldsAt(info, v, k)}
<1>1. n \in Nat
  BY DEF Branches
<1>2. PICK L : /\ HalvesFirst(L, n, H)
               /\ SearchBound(info, v) =
                     IF info.hasmin /\ KeyOf(info.fn.ty, v) < KeyOf(info.fn.ty, info.min) THEN info.default
                     ELSE IF L[<<0, n>>] < n THEN info.branches[L[<<0, n>>] + 1].result ELSE info.default
  BY <1>1, BoundLoop
<1>3. L[<<0, n>>] \in 0..n /\ \A k \in 1..n : k \in H <=> L[<<0, n>>] < k
  <2>1. \A k, l \in 1..n : k < l /\ k \in H => l \in H
    OBVIOUS
  <2> HIDE DEF H, n
  <2> QED
    BY <1>1, <1>2, <2>1, FirstThatHolds
<1>4. CASE info.hasmin /\ KeyOf(info.fn.ty, v) < KeyOf(info.fn.ty, info.min)
  BY <1>2, <1>4
<1>5. CASE ~(info.hasmin /\ KeyOf(info.fn.ty, v) < KeyOf(info.fn.ty, info.min))
  <2> PICK at \in 0..n : at = L[<<0, n>>]
    BY <1>3
  <2>1. SearchBound(info, v) = IF at < n THEN info.branches[at + 1].result ELSE info.default
    BY <1>2, <1>5
  <2>2. \A k \in 1..n : k \in H <=> at < k
    BY <1>3
  <2>3. H \subseteq 1..n
    OBVIOUS
  <2>4. FirstWins(info, H, SearchBound(info, v))
    <3> HIDE DEF H, n
    <3>1. \A k \in H : (\A j \in H : k <= j) => at < n /\ at + 1 = k
      <4> SUFFICES ASSUME NEW k \in H, \A j \in H : k <= j PROVE at < n /\ at + 1 = k
        OBVIOUS
      <4>1. k \in 1..n /\ at < k
        BY <2>2, <2>3
      <4>2. at + 1 \in 1..n
        BY <1>1, <4>1
      <4>3. at + 1 \in H
        BY <2>2, <4>2
      <4> QED
        BY <1>1, <4>1, <4>2, <4>3
    <3>2. H = {} => ~(at < n)
      <4> SUFFICES ASSUME at < n PROVE at + 1 \in H
        OBVIOUS
      <4> QED
        BY <1>1, <2>2
    <3> QED
      BY <2>1, <3>1, <3>2 DEF FirstWins
  <2> QED
    BY <1>5, <2>4
<1> QED
  BY <1>4, <1>5

\* pg_jitter_case_bsearch_* gives the result of the first branch that holds,
\* the default when none holds, for every CASE of <, <=, > or >= comparisons
\* pg_jitter_detect_case_bsearch accepts: with any number of branches and all
\* values.
THEOREM FirstBranchWins ==
  ASSUME NEW info, NEW v, info.branches \in Branches, KeysAreValues(info, v), info.fn.what \in {"lt", "le", "gt", "ge"},
         ~info.hasmin, Searchable(info)
  PROVE  FirstWins(info, Bounds(info, v), SelectHelper(info, v))
<1>1. IsMonotone(info.fn, Thresholds(info))
  BY DEF Searchable, Thresholds
<1>2. \A k, l \in 1..Len(info.branches) : k < l /\ HoldsAt(info, v, k) => HoldsAt(info, v, l)
  BY <1>1, HoldsOnwards
<1>3. SelectHelper(info, v) = SearchBound(info, v)
  BY DEF SelectHelper
<1> QED
  BY <1>2, <1>3, BoundSearch DEF Bounds

(***************************************************************************)
(* A range per branch.                                                     *)
(***************************************************************************)

\* A sequence in which no element is greater than the next never falls
\* throughout.
LEMMA NeverFalls ==
  ASSUME NEW n \in Nat, NEW K \in [1..n -> Int], \A k \in 1..(n - 1) : K[k] <= K[k + 1]
  PROVE  \A k, l \in 1..n : k <= l => K[k] <= K[l]
<1>0. \A k \in 1..n : K[k] \in Int
  OBVIOUS
<1> DEFINE Bad == {w \in Nat : \E k, l \in 1..n : k <= l /\ w = l - k /\ K[k] > K[l]}
<1> SUFFICES ASSUME NEW a \in 1..n, NEW b \in 1..n, a <= b, K[a] > K[b] PROVE FALSE
  BY <1>0
<1>1. b - a \in Bad
  OBVIOUS
<1>2. PICK w \in Bad : \A y \in Bad : w <= y
  BY <1>1, LeastNat
<1>3. PICK k \in 1..n, l \in 1..n : k <= l /\ w = l - k /\ K[k] > K[l]
  BY <1>2
<1>4. k < l
  BY <1>3, <1>0
<1>5. k + 1 <= l /\ K[k + 1] > K[l]
  <2>1. K[k] <= K[k + 1] /\ k + 1 \in 1..n
    BY <1>4
  <2> QED
    BY <1>0, <1>3, <1>4, <2>1
<1>6. l - (k + 1) \in Bad
  BY <1>3, <1>5
<1>7. w <= l - (k + 1)
  BY <1>2, <1>6
<1> QED
  BY <1>3, <1>7

\* For a CASE of contiguous ranges pg_jitter_case_bsearch_* gives the result
\* of the range the value is in, the default when it is in none, provided that
\* no range ends before it begins, which the detection of ranges does not look
\* at.
THEOREM RangeFound ==
  ASSUME NEW info, NEW v, info.branches \in Branches, info.fn.ty \in {"int2", "int4", "int8"}, info.fn.what = "lt",
         info.hasmin, RangesAreProper(info), KeyOf(info.fn.ty, v) \in Int
  PROVE  FirstWins(info, Ranges(info, v), SelectHelper(info, v))
<1> DEFINE n == Len(info.branches)
           X == KeyOf(info.fn.ty, v)
           low == KeyOf(info.fn.ty, info.min)
           K == [k \in 1..n |-> info.branches[k].threshold]
           H == {k \in 1..n : HoldsAt(info, v, k)}
           R == {k \in 1..n : RangeLow(info, k) <= KeyOf(info.fn.ty, v) /\ KeyOf(info.fn.ty, v) < info.branches[k].threshold}
<1>1. n \in Nat /\ K \in [1..n -> Int]
  <2>1. n \in Nat
    BY DEF Branches
  <2>2. \A k \in 1..n : info.branches[k].threshold \in Int
    <3> DEFINE S == [threshold : Int, result : Int]
    <3>1. \A x \in S : x.threshold \in Int
      OBVIOUS
    <3>2. info.branches \in Seq(S)
      BY DEF Branches
    <3> HIDE DEF S
    <3>3. \A k \in 1..n : info.branches[k] \in S
      BY <3>2
    <3> QED
      BY <3>1, <3>3
  <2> QED
    BY <2>1, <2>2
<1>2. \A k \in 1..n : HoldsAt(info, v, k) <=> X < K[k]
  <2> TAKE k \in 1..n
  <2>1. CompareThresholds(info.fn, KeyOf(info.fn.ty, v), info.branches[k].threshold) = SignOf(X - K[k])
    BY DEF CompareThresholds
  <2>2. K[k] \in Int
    BY <1>1
  <2> HIDE DEF X, K
  <2>3. X \in Int
    BY DEF X
  <2> QED
    BY <2>1, <2>2, <2>3, SignOfDifference DEF HoldsAt
<1>3. \A k \in 1..n : k \in R <=> (IF k = 1 THEN low ELSE K[k - 1]) <= X /\ X < K[k]
  <2> SUFFICES ASSUME NEW k \in 1..n PROVE k \in R <=> (IF k = 1 THEN low ELSE K[k - 1]) <= X /\ X < K[k]
    OBVIOUS
  <2>1. k # 1 => k - 1 \in 1..n
    BY <1>1
  <2> QED
    BY <2>1 DEF RangeLow
<1>4. \A k \in 1..n : (IF k = 1 THEN low ELSE K[k - 1]) <= K[k]
  <2> TAKE k \in 1..n
  <2>1. k # 1 => k - 1 \in 1..n
    BY <1>1
  <2> QED
    BY <2>1 DEF RangeLow, RangesAreProper
<1> HIDE DEF X, low, K
<1>5. X \in Int /\ low \in Int
  BY DEF X, low, RangesAreProper
<1>6. \A k \in 1..n : K[k] \in Int
  BY <1>1
<1>7. \A k, l \in 1..n : k <= l => K[k] <= K[l]
  <2>1. \A k \in 1..(n - 1) : K[k] <= K[k + 1]
    <3> TAKE k \in 1..(n - 1)
    <3>1. k + 1 \in 1..n /\ k + 1 # 1 /\ (k + 1) - 1 = k
      BY <1>1
    <3> QED
      BY <1>4, <3>1
  <2> HIDE DEF n
  <2> QED
    BY <1>1, <2>1, NeverFalls
<1>8. \A k, l \in 1..n : k < l /\ HoldsAt(info, v, k) => HoldsAt(info, v, l)
  BY <1>2, <1>5, <1>6, <1>7
<1>9. IF X < low THEN SelectHelper(info, v) = info.default ELSE FirstWins(info, H, SelectHelper(info, v))
  <2>1. SelectHelper(info, v) = SearchBound(info, v)
    BY DEF SelectHelper
  <2> QED
    BY <1>8, <2>1, BoundSearch DEF X, low
<1>10. CASE X < low
  <2>1. R = {}
    <3> SUFFICES ASSUME NEW k \in 1..n, k \in R PROVE FALSE
      OBVIOUS
    <3>0. (IF k = 1 THEN low ELSE K[k - 1]) <= X
      BY <1>3
    <3> HIDE DEF R, H
    <3>1. low <= K[1] /\ K[1] <= K[k]
      <4>1. 1 \in 1..n /\ 1 <= k
        BY <1>1
      <4> QED
        BY <1>4, <1>7, <4>1
    <3>2. k # 1 => k - 1 \in 1..n /\ 1 \in 1..n /\ 1 <= k - 1
      BY <1>1
    <3>3. k # 1 => K[1] <= K[k - 1]
      BY <1>7, <3>2
    <3>4. K[1] \in Int /\ (k # 1 => K[k - 1] \in Int)
      BY <1>1, <1>6, <3>2
    <3> QED
      BY <1>5, <1>10, <3>0, <3>1, <3>3, <3>4
  <2>2. Ranges(info, v) = {}
    BY <2>1 DEF Ranges
  <2> QED
    BY <1>9, <1>10, <2>2 DEF FirstWins
<1>11. CASE ~(X < low)
  <2>1. R \subseteq H
    BY <1>2, <1>3
  <2>2. ASSUME NEW k \in H, \A j \in H : k <= j PROVE k \in R
    <3>1. k \in 1..n /\ X < K[k]
      BY <1>2
    <3>2. k # 1 => ~(X < K[k - 1])
      <4> SUFFICES ASSUME k # 1, X < K[k - 1] PROVE FALSE
        OBVIOUS
      <4>1. k - 1 \in 1..n
        BY <1>1, <3>1
      <4>2. k - 1 \in H
        BY <1>2, <4>1
      <4> QED
        BY <2>2, <3>1, <4>2
    <3>3. k # 1 => K[k - 1] \in Int
      <4> HIDE DEF H, R
      <4> QED
        BY <1>1, <1>6, <3>1
    <3> QED
      BY <1>3, <1>5, <1>11, <3>1, <3>2, <3>3
  <2>3. FirstWins(info, H, SelectHelper(info, v))
    BY <1>9, <1>11
  <2>4. H # {} => \E k \in H : \A j \in H : k <= j
    <3>1. H \in SUBSET Nat
      BY <1>1
    <3> HIDE DEF H
    <3> QED
      BY <3>1, LeastNat
  <2> HIDE DEF H, R
  <2>5. \A k \in R : (\A j \in R : k <= j) => k \in H /\ (\A j \in H : k <= j)
    <3> SUFFICES ASSUME NEW k \in R, \A j \in R : k <= j PROVE \A j \in H : k <= j
      BY <2>1
    <3>1. PICK i \in H : \A j \in H : i <= j
      BY <2>1, <2>4
    <3>2. i \in R
      BY <2>2, <3>1
    <3>3. k <= i /\ i <= k
      BY <2>1, <3>1, <3>2
    <3>4. k \in Nat /\ i \in Nat
      BY <1>1, <2>1 DEF H
    <3> QED
      BY <3>1, <3>3, <3>4
  <2>6. R = {} => H = {}
    BY <2>2, <2>4
  <2>7. FirstWins(info, R, SelectHelper(info, v))
    BY <2>3, <2>5, <2>6 DEF FirstWins
  <2> QED
    BY <2>7 DEF R, Ranges
<1> QED
  BY <1>10, <1>11

(***************************************************************************)
(* The order of the bytes of texts is a total order.                       *)
(***************************************************************************)

\* x comes before y: they agree up to some place, where x ends or is less.
Before(x, y) ==
  \E i \in 1..(Len(y)) :
     /\ i <= Len(x) + 1
     /\ \A j \in 1..(i - 1) : x[j] = y[j]
     /\ i <= Len(x) => x[i] < y[i]

\* The order of the bytes of texts is transitive.
LEMMA BeforeTransitive ==
  ASSUME NEW x \in Seq(Int), NEW y \in Seq(Int), NEW z \in Seq(Int), Before(x, y), Before(y, z)
  PROVE  Before(x, z)
<1>0. /\ Len(x) \in Nat /\ Len(y) \in Nat /\ Len(z) \in Nat
      /\ \A j \in 1..Len(x) : x[j] \in Int
      /\ \A j \in 1..Len(y) : y[j] \in Int
      /\ \A j \in 1..Len(z) : z[j] \in Int
  OBVIOUS
<1>1. PICK i \in 1..Len(y) : /\ i <= Len(x) + 1
                             /\ \A j \in 1..(i - 1) : x[j] = y[j]
                             /\ i <= Len(x) => x[i] < y[i]
  BY DEF Before
<1>2. PICK k \in 1..Len(z) : /\ k <= Len(y) + 1
                             /\ \A j \in 1..(k - 1) : y[j] = z[j]
                             /\ k <= Len(y) => y[k] < z[k]
  BY DEF Before
<1>3. CASE i < k
  <2>1. i \in 1..Len(z) /\ i \in 1..(k - 1)
    BY <1>0, <1>3
  <2>2. y[i] = z[i] /\ \A j \in 1..(i - 1) : j \in 1..(k - 1)
    BY <1>2, <1>0, <1>3, <2>1
  <2>3. \A j \in 1..(i - 1) : x[j] = z[j]
    BY <1>1, <1>2, <2>2
  <2>4. i <= Len(x) => x[i] < z[i]
    BY <1>1, <2>2
  <2> QED
    BY <1>1, <2>1, <2>3, <2>4 DEF Before
<1>4. CASE i = k
  <2>1. \A j \in 1..(i - 1) : x[j] = z[j]
    BY <1>1, <1>2, <1>4
  <2>2. i <= Len(x) => x[i] < z[i]
    <3> SUFFICES ASSUME i <= Len(x) PROVE x[i] < z[i]
      OBVIOUS
    <3>1. x[i] < y[i] /\ y[i] < z[i]
      BY <1>0, <1>1, <1>2, <1>4
    <3>2. x[i] \in Int /\ y[i] \in Int /\ z[i] \in Int
      BY <1>0, <1>4
    <3> QED
      BY <3>1, <3>2
  <2>3. i \in 1..Len(z)
    BY <1>4
  <2> QED
    BY <1>1, <2>1, <2>2, <2>3 DEF Before
<1>5. CASE i > k
  <2>1. k \in 1..(i - 1) /\ k <= Len(x) /\ k <= Len(y)
    <3>1. i \in Nat /\ k \in Nat /\ 1 <= k /\ i <= Len(y) /\ i <= Len(x) + 1
      BY <1>0, <1>1
    <3> QED
      BY <1>0, <1>5, <3>1
  <2>2. x[k] = y[k] /\ y[k] < z[k] /\ \A j \in 1..(k - 1) : j \in 1..(i - 1)
    BY <1>0, <1>1, <1>2, <1>5, <2>1
  <2>3. \A j \in 1..(k - 1) : x[j] = z[j]
    BY <1>1, <1>2, <2>2
  <2>4. k <= Len(x) + 1 /\ (k <= Len(x) => x[k] < z[k])
    BY <1>0, <2>1, <2>2
  <2> QED
    BY <2>3, <2>4 DEF Before
<1> QED
  BY <1>3, <1>4, <1>5

\* No text comes before itself.
LEMMA BeforeIrreflexive ==
  ASSUME NEW x \in Seq(Int) PROVE ~Before(x, x)
<1> SUFFICES ASSUME Before(x, x) PROVE FALSE
  OBVIOUS
<1>1. PICK i \in 1..Len(x) : x[i] < x[i]
  BY DEF Before
<1>2. x[i] \in Int
  OBVIOUS
<1> QED
  BY <1>1, <1>2

\* Sequences that agree at every place are the same.
LEMMA SameSequence ==
  ASSUME NEW S, NEW x \in Seq(S), NEW y \in Seq(S), Len(x) = Len(y), \A j \in 1..Len(x) : x[j] = y[j]
  PROVE  x = y
OBVIOUS

\* The comparison of bytes, as memcmp and then the lengths give it, tells
\* which text comes first.
LEMMA ByteOrderIs ==
  ASSUME NEW a, NEW b, Body(a) \in Seq(Int), Body(b) \in Seq(Int)
  PROVE  /\ ByteOrder(a, b) \in {-1, 0, 1}
         /\ ByteOrder(a, b) = 0 => Body(a) = Body(b)
         /\ ByteOrder(a, b) < 0 => Before(Body(a), Body(b))
         /\ ByteOrder(a, b) > 0 => Before(Body(b), Body(a))
<1> DEFINE x == Body(a)
           y == Body(b)
           short == IF Len(x) < Len(y) THEN Len(x) ELSE Len(y)
           differ == {i \in 1..short : x[i] # y[i]}
           first == CHOOSE i \in differ : \A j \in differ : i <= j
<1>1. ByteOrder(a, b) = IF differ # {} THEN (IF x[first] < y[first] THEN -1 ELSE 1) ELSE SignOf(Len(x) - Len(y))
  BY DEF ByteOrder, Body
<1> HIDE DEF x, y
<1>2. x \in Seq(Int) /\ y \in Seq(Int)
  BY DEF x, y
<1>3. /\ Len(x) \in Nat /\ Len(y) \in Nat
      /\ \A j \in 1..Len(x) : x[j] \in Int
      /\ \A j \in 1..Len(y) : y[j] \in Int
  BY <1>2
<1>4. CASE differ # {}
  <2>1. first \in differ /\ \A j \in differ : first <= j
    <3>1. differ \in SUBSET Nat
      BY <1>3
    <3> HIDE DEF differ
    <3> QED
      BY <1>4, <3>1, LeastNat
  <2> PICK f : f = first
    OBVIOUS
  <2> HIDE DEF first
  <2>2. f \in 1..Len(x) /\ f \in 1..Len(y) /\ x[f] # y[f]
    BY <1>3, <2>1
  <2>3. \A j \in 1..(f - 1) : x[j] = y[j]
    <3> SUFFICES ASSUME NEW j \in 1..(f - 1), x[j] # y[j] PROVE FALSE
      OBVIOUS
    <3>1. j \in differ
      BY <1>3, <2>2
    <3>2. f <= j
      BY <2>1, <3>1
    <3> QED
      BY <2>2, <3>2
  <2>4. x[f] < y[f] \/ y[f] < x[f]
    BY <1>3, <2>2
  <2>5. x[f] < y[f] => Before(x, y)
    <3>1. f <= Len(x) + 1
      BY <1>3, <2>2
    <3> QED
      BY <2>2, <2>3, <3>1, Zenon DEF Before
  <2>6. y[f] < x[f] => Before(y, x)
    <3>1. f <= Len(y) + 1 /\ \A j \in 1..(f - 1) : y[j] = x[j]
      BY <1>3, <2>2, <2>3
    <3> QED
      BY <2>2, <3>1, Zenon DEF Before
  <2>7. ByteOrder(a, b) = IF x[f] < y[f] THEN -1 ELSE 1
    BY <1>1, <1>4
  <2> QED
    BY <2>4, <2>5, <2>6, <2>7 DEF x, y
<1>5. CASE differ = {}
  <2>1. ByteOrder(a, b) = SignOf(Len(x) - Len(y))
    BY <1>1, <1>5
  <2>2. \A j \in 1..short : x[j] = y[j]
    BY <1>5
  <2>3. Len(x) = Len(y) => x = y
    <3> SUFFICES ASSUME Len(x) = Len(y) PROVE x = y
      OBVIOUS
    <3>1. \A j \in 1..Len(x) : x[j] = y[j]
      BY <1>3, <2>2
    <3> QED
      BY <1>2, <3>1, SameSequence
  <2>4. Len(x) < Len(y) => Before(x, y)
    <3> SUFFICES ASSUME Len(x) < Len(y) PROVE Before(x, y)
      OBVIOUS
    <3>1. Len(x) + 1 \in 1..Len(y) /\ ~(Len(x) + 1 <= Len(x)) /\ \A j \in 1..(Len(x) + 1 - 1) : x[j] = y[j]
      BY <1>3, <2>2
    <3> QED
      BY <3>1, <1>3 DEF Before
  <2>5. Len(y) < Len(x) => Before(y, x)
    <3> SUFFICES ASSUME Len(y) < Len(x) PROVE Before(y, x)
      OBVIOUS
    <3>1. Len(y) + 1 \in 1..Len(x) /\ ~(Len(y) + 1 <= Len(y)) /\ \A j \in 1..(Len(y) + 1 - 1) : y[j] = x[j]
      BY <1>3, <2>2
    <3> QED
      BY <3>1, <1>3 DEF Before
  <2>6. /\ SignOf(Len(x) - Len(y)) \in {-1, 0, 1}
        /\ SignOf(Len(x) - Len(y)) = 0 => Len(x) = Len(y)
        /\ SignOf(Len(x) - Len(y)) < 0 => Len(x) < Len(y)
        /\ SignOf(Len(x) - Len(y)) > 0 => Len(y) < Len(x)
    BY <1>3 DEF SignOf
  <2> QED
    BY <2>1, <2>3, <2>4, <2>5, <2>6 DEF x, y
<1> QED
  BY <1>4, <1>5

\* Its sign says it exactly: the order is total.
LEMMA ByteOrderIff ==
  ASSUME NEW a, NEW b, Body(a) \in Seq(Int), Body(b) \in Seq(Int)
  PROVE  /\ ByteOrder(a, b) \in Int
         /\ ByteOrder(a, b) = 0 <=> Body(a) = Body(b)
         /\ ByteOrder(a, b) < 0 <=> Before(Body(a), Body(b))
         /\ ByteOrder(a, b) > 0 <=> Before(Body(b), Body(a))
<1>1. ~(Before(Body(a), Body(b)) /\ Before(Body(b), Body(a)))
  BY BeforeTransitive, BeforeIrreflexive
<1>2. Body(a) = Body(b) => ~Before(Body(a), Body(b)) /\ ~Before(Body(b), Body(a))
  BY BeforeIrreflexive
<1>3. \/ ByteOrder(a, b) = -1 \/ ByteOrder(a, b) = 0 \/ ByteOrder(a, b) = 1
  BY ByteOrderIs
<1>4. /\ ByteOrder(a, b) = 0 => Body(a) = Body(b)
      /\ ByteOrder(a, b) < 0 => Before(Body(a), Body(b))
      /\ ByteOrder(a, b) > 0 => Before(Body(b), Body(a))
  BY ByteOrderIs
<1> QED
  BY <1>1, <1>2, <1>3, <1>4

\* How the value compares with the threshold of each branch.
Compared(info, v) ==
  [k \in 1..Len(info.branches) |-> CompareThresholds(info.fn, KeyOf(info.fn.ty, v), info.branches[k].threshold)]

\* The results of the branches.
Results(info) == [k \in 1..Len(info.branches) |-> info.branches[k].result]

\* The loop of pg_jitter_case_bsearch_* for = halves the branches.
LEMMA EqualLoop ==
  ASSUME NEW info, NEW v, Len(info.branches) \in Nat
  PROVE  \E L : /\ HalvesEqual(L, Len(info.branches), Compared(info, v), Results(info), info.default)
                /\ SearchEqual(info, v) = L[<<1, Len(info.branches)>>]
<1> DEFINE n == Len(info.branches)
           A == 0..n
           B == -1..(n - 1)
           D == A \X B
           C(k) == CompareThresholds(info.fn, KeyOf(info.fn.ty, v), info.branches[k + 1].threshold)
           Once(L) ==
             [r \in D |->
                LET lo == r[1]  hi == r[2]  mid == lo + (hi - lo) \div 2
                    c == CompareThresholds(info.fn, KeyOf(info.fn.ty, v), info.branches[mid + 1].threshold)
                IN  IF lo > hi THEN info.default
                    ELSE IF c = 0 THEN info.branches[mid + 1].result
                    ELSE IF c > 0 THEN L[<<mid + 1, hi>>] ELSE L[<<lo, mid - 1>>]]
           L == CHOOSE g : g = Once(g)
           Mid(r) == r[1] + (r[2] - r[1]) \div 2
           Stop == {r \in D : r[1] > r[2] \/ C(Mid(r)) = 0}
           base == [r \in D |-> IF r[1] > r[2] THEN info.default ELSE info.branches[Mid(r) + 1].result]
           next == [r \in D |-> IF C(Mid(r)) > 0 THEN <<Mid(r) + 1, r[2]>> ELSE <<r[1], Mid(r) - 1>>]
<1>1. \E g : Defined(g, D, Stop, base, next)
  <2>1. \A lo \in A, hi \in B : <<lo, hi>> \notin Stop =>
          next[<<lo, hi>>] \in A \X B /\ Length(next[<<lo, hi>>]) < Length(<<lo, hi>>)
    <3> SUFFICES ASSUME NEW lo \in A, NEW hi \in B, lo <= hi
                 PROVE  next[<<lo, hi>>] \in A \X B /\ Length(next[<<lo, hi>>]) < Length(<<lo, hi>>)
      <4>1. \A lo \in A, hi \in B : <<lo, hi>> \notin Stop => lo <= hi
        <5> HIDE DEF C, Mid
        <5> QED
          OBVIOUS
      <4> HIDE DEF next, Stop, A, B
      <4> QED
        BY <4>1
    <3> DEFINE mid == lo + (hi - lo) \div 2
    <3>1. mid \in Int /\ lo <= mid /\ mid <= hi
      BY Middle
    <3>2. Mid(<<lo, hi>>) = mid
      OBVIOUS
    <3>3. next[<<lo, hi>>] = IF C(mid) > 0 THEN <<mid + 1, hi>> ELSE <<lo, mid - 1>>
      <4> HIDE DEF C, mid, Mid
      <4> QED
        BY <3>2
    <3> HIDE DEF C, Mid, mid, next
    <3>4. /\ <<mid + 1, hi>> \in A \X B /\ Length(<<mid + 1, hi>>) < Length(<<lo, hi>>)
          /\ <<lo, mid - 1>> \in A \X B /\ Length(<<lo, mid - 1>>) < Length(<<lo, hi>>)
      BY <3>1 DEF Length
    <3> QED
      BY <3>3, <3>4
  <2>2. A \in SUBSET Int /\ B \in SUBSET Int
    OBVIOUS
  <2> HIDE DEF Stop, base, next, A, B
  <2> QED
    BY <2>1, <2>2, IntervalRecursion, Zenon
<1>2. ASSUME NEW g, Defined(g, D, Stop, base, next) PROVE g = Once(g)
  BY <1>2 DEF Defined
<1>3. L = Once(L)
  BY <1>1, <1>2
<1>4. SearchEqual(info, v) = L[<<0, n - 1>>]
  BY DEF SearchEqual
<1> DEFINE M == [r \in (1..(n + 1)) \X (0..n) |-> L[<<r[1] - 1, r[2] - 1>>]]
           c == Compared(info, v)
           val == Results(info)
<1>5. HalvesEqual(M, n, c, val, info.default)
  <2> SUFFICES ASSUME NEW lo \in 1..(n + 1), NEW hi \in 0..n
               PROVE  LET mid == lo + (hi - lo) \div 2
                      IN  M[<<lo, hi>>] = IF lo > hi THEN info.default
                                          ELSE IF c[mid] = 0 THEN val[mid]
                                          ELSE IF c[mid] > 0 THEN M[<<mid + 1, hi>>] ELSE M[<<lo, mid - 1>>]
    BY DEF HalvesEqual
  <2> DEFINE mid == lo + (hi - lo) \div 2
             mid0 == (lo - 1) + ((hi - 1) - (lo - 1)) \div 2
  <2>0. lo - 1 \in A /\ hi - 1 \in B /\ mid0 = mid - 1 /\ (lo - 1 > hi - 1 <=> lo > hi)
    OBVIOUS
  <2>1. M[<<lo, hi>>] = L[<<lo - 1, hi - 1>>]
    <3> HIDE DEF L
    <3> QED
      OBVIOUS
  <2>2. L[<<lo - 1, hi - 1>>] = Once(L)[<<lo - 1, hi - 1>>]
    BY <1>3
  <2>3. L[<<lo - 1, hi - 1>>] =
          IF lo > hi THEN info.default
          ELSE IF C(mid0) = 0 THEN info.branches[mid0 + 1].result
          ELSE IF C(mid0) > 0 THEN L[<<mid0 + 1, hi - 1>>] ELSE L[<<lo - 1, mid0 - 1>>]
    <3> PICK a \in A : a = lo - 1
      BY <2>0
    <3> PICK b \in B : b = hi - 1
      BY <2>0
    <3> HIDE DEF L, A, B
    <3>1. Once(L)[<<a, b>>] =
            LET m == a + (b - a) \div 2
            IN  IF a > b THEN info.default
                ELSE IF C(m) = 0 THEN info.branches[m + 1].result
                ELSE IF C(m) > 0 THEN L[<<m + 1, b>>] ELSE L[<<a, m - 1>>]
      OBVIOUS
    <3> HIDE DEF Once, C
    <3>2. a > b <=> lo > hi
      BY <2>0
    <3> QED
      BY <2>2, <3>1, <3>2
  <2>4. lo <= hi => mid \in 1..n /\ lo <= mid /\ mid <= hi
    BY Middle
  <2> HIDE DEF mid, mid0, L
  <2>5. CASE lo > hi
    BY <2>1, <2>3, <2>5 DEF mid
  <2>6. CASE lo <= hi
    <3>1. C(mid0) = c[mid] /\ info.branches[mid0 + 1].result = val[mid]
      <4>1. mid \in 1..n /\ mid0 + 1 = mid
        BY <2>0, <2>4, <2>6
      <4> QED
        BY <4>1 DEF Compared, Results
    <3>2. M[<<mid + 1, hi>>] = L[<<mid0 + 1, hi - 1>>] /\ M[<<lo, mid - 1>>] = L[<<lo - 1, mid0 - 1>>]
      <4>1. mid + 1 \in 1..(n + 1) /\ mid - 1 \in 0..n /\ (mid + 1) - 1 = mid0 + 1 /\ (mid - 1) - 1 = mid0 - 1
        BY <2>0, <2>4, <2>6
      <4> QED
        BY <4>1
    <3>3. ~(lo > hi)
      BY <2>6
    <3> HIDE DEF C, M, c, val
    <3> QED
      BY <2>1, <2>3, <3>1, <3>2, <3>3 DEF mid
  <2> QED
    BY <2>5, <2>6
<1>6. M[<<1, n>>] = L[<<0, n - 1>>]
  <2>1. 1 \in 1..(n + 1) /\ n \in 0..n /\ 1 - 1 = 0
    OBVIOUS
  <2> HIDE DEF L
  <2> QED
    BY <2>1
<1> HIDE DEF L, M
<1> QED
  BY <1>4, <1>5, <1>6

\* The comparison the branches of = are sorted by is transitive, of numbers
\* and of the bytes of texts.
LEMMA EqualityOrder ==
  ASSUME NEW fn, fn.what = "eq", NEW x, NEW a, NEW b, IsKey(fn, x), IsKey(fn, a), IsKey(fn, b),
         CompareThresholds(fn, a, b) < 0
  PROVE  /\ CompareThresholds(fn, x, b) >= 0 => CompareThresholds(fn, x, a) > 0
         /\ CompareThresholds(fn, x, a) <= 0 => CompareThresholds(fn, x, b) < 0
<1>1. CASE fn.ty = "text"
  <2>1. \A p, q : CompareThresholds(fn, p, q) = ByteOrder(p, q)
    BY <1>1 DEF CompareThresholds
  <2>2. Body(x) \in Seq(Int) /\ Body(a) \in Seq(Int) /\ Body(b) \in Seq(Int)
    BY <1>1 DEF IsKey, OrderKey
  <2>3. Before(Body(a), Body(b))
    BY <2>1, <2>2, ByteOrderIff
  <2>4. /\ ByteOrder(x, b) \in Int
        /\ ByteOrder(x, b) = 0 <=> Body(x) = Body(b)
        /\ ByteOrder(x, b) < 0 <=> Before(Body(x), Body(b))
        /\ ByteOrder(x, b) > 0 <=> Before(Body(b), Body(x))
    BY <2>2, ByteOrderIff
  <2>5. /\ ByteOrder(x, a) \in Int
        /\ ByteOrder(x, a) = 0 <=> Body(x) = Body(a)
        /\ ByteOrder(x, a) < 0 <=> Before(Body(x), Body(a))
        /\ ByteOrder(x, a) > 0 <=> Before(Body(a), Body(x))
    BY <2>2, ByteOrderIff
  <2>6. Before(Body(b), Body(x)) => Before(Body(a), Body(x))
    BY <2>2, <2>3, BeforeTransitive
  <2>7. Before(Body(x), Body(a)) => Before(Body(x), Body(b))
    BY <2>2, <2>3, BeforeTransitive
  <2> QED
    BY <2>1, <2>3, <2>4, <2>5, <2>6, <2>7
<1>2. CASE fn.ty # "text"
  <2>1. \A p, q : CompareThresholds(fn, p, q) = SignOf(p - q)
    BY <1>2 DEF CompareThresholds
  <2>2. x \in Int /\ a \in Int /\ b \in Int
    BY <1>2 DEF IsKey, OrderKey
  <2>3. CompareThresholds(fn, a, b) < 0 <=> a < b
    BY <2>1, <2>2, SignOfDifference
  <2>4. /\ CompareThresholds(fn, x, b) >= 0 <=> x >= b
        /\ CompareThresholds(fn, x, b) < 0 <=> x < b
    <3>1. (SignOf(x - b) >= 0 <=> x >= b) /\ (SignOf(x - b) < 0 <=> x < b)
      BY <2>2, SignOfDifference
    <3>2. CompareThresholds(fn, x, b) = SignOf(x - b)
      BY <2>1
    <3> QED
      BY <3>1, <3>2
  <2>5. /\ CompareThresholds(fn, x, a) > 0 <=> x > a
        /\ CompareThresholds(fn, x, a) <= 0 <=> x <= a
    BY <2>1, <2>2, SignOfDifference
  <2> QED
    BY <2>2, <2>3, <2>4, <2>5
<1> QED
  BY <1>1, <1>2

\* What is compared for equality equals itself.
LEMMA EqualToItself ==
  ASSUME NEW fn, fn.what = "eq", NEW a, IsKey(fn, a) PROVE CompareThresholds(fn, a, a) = 0
<1>1. CASE fn.ty = "text"
  BY <1>1, ByteOrderIff DEF CompareThresholds, IsKey, OrderKey
<1>2. CASE fn.ty # "text"
  BY <1>2, SignOfDifference DEF CompareThresholds, IsKey, OrderKey
<1> QED
  BY <1>1, <1>2

\* A comparison for equality is a number.
LEMMA EqualityIsNumber ==
  ASSUME NEW fn, fn.what = "eq", NEW a, NEW b, IsKey(fn, a), IsKey(fn, b)
  PROVE  CompareThresholds(fn, a, b) \in Int
<1>1. CASE fn.ty = "text"
  BY <1>1, ByteOrderIff DEF CompareThresholds, IsKey, OrderKey
<1>2. CASE fn.ty # "text"
  BY <1>2, SignOfDifference DEF CompareThresholds, IsKey, OrderKey
<1> QED
  BY <1>1, <1>2

\* pg_jitter_case_bsearch_* gives the result of the branch whose constant
\* equals the value, the default when none does, for every CASE of =
\* comparisons pg_jitter_detect_case_bsearch accepts, once its branches are
\* sorted.
THEOREM EqualBranchWins ==
  ASSUME NEW info, NEW v, info.branches \in Branches, info.fn.what = "eq", KeysAreValues(info, v),
         Searchable(info), BranchesAreSorted(info)
  PROVE  FirstWins(info, EqualTo(info, v), SelectHelper(info, v))
<1> DEFINE n == Len(info.branches)
           T(k) == info.branches[k].threshold
           X == KeyOf(info.fn.ty, v)
           c == Compared(info, v)
<1>1. n \in Nat /\ DOMAIN info.branches = 1..n
  BY DEF Branches
<1>2. IsKey(info.fn, X) /\ \A k \in 1..n : IsKey(info.fn, T(k))
  BY DEF KeysAreValues
<1>3. \A k \in 1..n : c[k] = CompareThresholds(info.fn, X, T(k))
  BY DEF Compared
<1>4. \A k, l \in 1..n : k < l => CompareThresholds(info.fn, T(k), T(l)) < 0
  <2> TAKE k \in 1..n, l \in 1..n
  <2> HAVE k < l
  <2>1. CompareThresholds(info.fn, T(k), T(l)) # 0
    <3>1. AllDiffer(info.fn, Thresholds(info))
      BY DEF Searchable, Thresholds
    <3>2. DOMAIN Thresholds(info) = 1..n /\ Thresholds(info)[k] = T(k) /\ Thresholds(info)[l] = T(l)
      BY <1>1 DEF Thresholds
    <3>3. k # l
      BY <1>1
    <3> HIDE DEF T, n
    <3> QED
      BY <3>1, <3>2, <3>3 DEF AllDiffer
  <2>2. info.branches[k] # info.branches[l]
    BY <1>2, <2>1, EqualToItself
  <2> QED
    BY <2>2 DEF BranchesAreSorted
<1> HIDE DEF X, T, c, n
<1>5. Descending(c, n)
  <2>1. \A k \in 1..n : c[k] \in Int
    BY <1>2, <1>3, EqualityIsNumber
  <2>2. ASSUME NEW k \in 1..n, NEW l \in 1..n, k < l
        PROVE  (c[l] >= 0 => c[k] > 0) /\ (c[k] <= 0 => c[l] < 0)
    BY <1>2, <1>3, <1>4, <2>2, EqualityOrder
  <2> QED
    BY <2>1, <2>2 DEF Descending
<1>6. PICK L : /\ HalvesEqual(L, n, c, Results(info), info.default)
               /\ SearchEqual(info, v) = L[<<1, n>>]
  BY <1>1, EqualLoop DEF n, c
<1>7. /\ \A k \in 1..n : c[k] = 0 => L[<<1, n>>] = Results(info)[k]
      /\ (\A k \in 1..n : c[k] # 0) => L[<<1, n>>] = info.default
  BY <1>1, <1>5, <1>6, TheOneThatEquals
<1>8. SelectHelper(info, v) = L[<<1, n>>]
  BY <1>6 DEF SelectHelper
<1>9. \A k \in 1..n : Results(info)[k] = info.branches[k].result
  BY DEF Results, n
<1>10. EqualTo(info, v) = {k \in 1..n : c[k] = 0}
  BY <1>3 DEF EqualTo, n, X, T
<1> QED
  BY <1>7, <1>8, <1>9, <1>10 DEF FirstWins

(***************************************************************************)
(* The tree of comparisons for an IN list.                                 *)
(***************************************************************************)

\* L is true at the nodes of a tree of comparisons under which x is found.
HalvesTree(L, n, vals, x) ==
  \A lo \in 1..(n + 1), hi \in 0..n :
    /\ L[<<lo, hi>>] \in BOOLEAN
    /\ lo > hi => ~L[<<lo, hi>>]
    /\ lo <= hi => LET mid == lo + (hi - lo) \div 2
                   IN  L[<<lo, hi>>] <=> \/ x = vals[mid]
                                         \/ x < vals[mid] /\ L[<<lo, mid - 1>>]
                                         \/ x > vals[mid] /\ L[<<mid + 1, hi>>]

\* A tree over an ascending list finds x if and only if x is in the list.
LEMMA TreeFinds ==
  ASSUME NEW vals \in Seq(Int), NEW x \in Int, NEW L, HalvesTree(L, Len(vals), vals, x), Ascending(vals)
  PROVE  L[<<1, Len(vals)>>] <=> \E k \in 1..Len(vals) : vals[k] = x
<1> DEFINE n == Len(vals)
           Goes(lo, hi) == L[<<lo, hi>>] <=> \E k \in lo..hi : vals[k] = x
           Bad == {w \in Nat : \E lo \in 1..(n + 1), hi \in 0..n : w = Length(<<lo, hi>>) /\ ~Goes(lo, hi)}
<1>0. \A lo, hi \in Int : Length(<<lo, hi>>) = IF lo > hi THEN 0 ELSE hi - lo + 1
  BY DEF Length
<1>1. n \in Nat /\ \A k \in 1..n : vals[k] \in Int
  OBVIOUS
<1>2. CASE Bad = {}
  <2>1. Length(<<1, n>>) \in Nat /\ 1 \in 1..(n + 1) /\ n \in 0..n
    BY <1>0, <1>1
  <2>2. Goes(1, n)
    <3> HIDE DEF Goes, n
    <3>1. Length(<<1, n>>) \notin Bad
      BY <1>2
    <3> QED
      BY <2>1, <3>1
  <2> QED
    BY <2>2
<1>3. CASE Bad # {}
  <2>1. PICK w \in Bad : \A y \in Bad : w <= y
    BY <1>3, LeastNat
  <2>2. PICK lo \in 1..(n + 1), hi \in 0..n : w = Length(<<lo, hi>>) /\ ~Goes(lo, hi)
    BY <2>1
  <2>0. \A a \in 1..(n + 1), b \in 0..n : Length(<<a, b>>) \in Nat /\ Length(<<a, b>>) < w => Goes(a, b)
    <3> HIDE DEF Goes
    <3>1. \A a \in 1..(n + 1), b \in 0..n : Length(<<a, b>>) \in Nat /\ ~Goes(a, b) => Length(<<a, b>>) \in Bad
      OBVIOUS
    <3> QED
      BY <2>1, <3>1, <1>0
  <2>3. ASSUME lo > hi PROVE Goes(lo, hi)
    <3>1. ~L[<<lo, hi>>]
      BY <2>3 DEF HalvesTree
    <3> QED
      BY <2>3, <3>1, <1>1
  <2>4. ASSUME lo <= hi PROVE Goes(lo, hi)
    <3> DEFINE mid == lo + (hi - lo) \div 2
    <3>1. mid \in 1..n /\ lo <= mid /\ mid <= hi
      BY <2>4, <1>1, Middle
    <3>2. L[<<lo, hi>>] <=> \/ x = vals[mid]
                            \/ x < vals[mid] /\ L[<<lo, mid - 1>>]
                            \/ x > vals[mid] /\ L[<<mid + 1, hi>>]
      BY <2>4 DEF HalvesTree
    <3>3. w = hi - lo + 1
      BY <1>0, <2>2, <2>4
    <3> HIDE DEF mid
    <3>4. CASE x = vals[mid]
      BY <3>1, <3>2, <3>4
    <3>5. CASE x < vals[mid]
      <4>0. mid - 1 \in 0..n /\ lo \in Int
        BY <1>1, <3>1
      <4>1. mid - 1 \in 0..n /\ Length(<<lo, mid - 1>>) \in Nat /\ Length(<<lo, mid - 1>>) < w
        <5>1. Length(<<lo, mid - 1>>) = IF lo > mid - 1 THEN 0 ELSE (mid - 1) - lo + 1
          <6>1. mid - 1 \in Int
            BY <4>0
          <6> QED
            BY <1>0, <4>0, <6>1
        <5> QED
          BY <3>1, <3>3, <4>0, <5>1
      <4>2. Goes(lo, mid - 1)
        BY <2>0, <4>1
      <4>3. \A k \in lo..hi : vals[k] = x => k \in lo..(mid - 1)
        <5> SUFFICES ASSUME NEW k \in lo..hi, vals[k] = x, k >= mid PROVE FALSE
          BY <3>1
        <5>0. k \in 1..n
          BY <3>1, <1>1
        <5>1. mid < k => vals[mid] <= vals[k]
          BY <3>1, <5>0 DEF Ascending
        <5> QED
          BY <1>1, <3>1, <3>5, <5>0, <5>1
      <4>4. \A k \in lo..(mid - 1) : k \in lo..hi
        BY <3>1
      <4>5. L[<<lo, hi>>] <=> L[<<lo, mid - 1>>]
        BY <1>1, <3>1, <3>2, <3>5
      <4> QED
        BY <4>2, <4>3, <4>4, <4>5
    <3>6. CASE x > vals[mid]
      <4>1. mid + 1 \in 1..(n + 1) /\ Length(<<mid + 1, hi>>) \in Nat /\ Length(<<mid + 1, hi>>) < w
        BY <1>0, <3>1, <3>3
      <4>2. Goes(mid + 1, hi)
        BY <2>0, <4>1
      <4>3. \A k \in lo..hi : vals[k] = x => k \in (mid + 1)..hi
        <5> SUFFICES ASSUME NEW k \in lo..hi, vals[k] = x, k <= mid PROVE FALSE
          BY <3>1
        <5>0. k \in 1..n
          BY <3>1, <1>1
        <5>1. k < mid => vals[k] <= vals[mid]
          BY <3>1, <5>0 DEF Ascending
        <5> QED
          BY <1>1, <3>1, <3>6, <5>0, <5>1
      <4>4. \A k \in (mid + 1)..hi : k \in lo..hi
        BY <3>1
      <4>5. L[<<lo, hi>>] <=> L[<<mid + 1, hi>>]
        BY <1>1, <3>1, <3>2, <3>6
      <4> QED
        BY <4>2, <4>3, <4>4, <4>5
    <3>7. vals[mid] \in Int
      BY <1>1, <3>1
    <3> HIDE DEF Goes
    <3> QED
      BY <3>4, <3>5, <3>6, <3>7
  <2> HIDE DEF Goes
  <2> QED
    BY <2>2, <2>3, <2>4
<1> QED
  BY <1>2, <1>3

\* The closed form is one function the tree's nodes can be.
LEMMA TreeExists ==
  ASSUME NEW vals \in Seq(Int), NEW x \in Int, Ascending(vals)
  PROVE  HalvesTree([r \in (1..(Len(vals) + 1)) \X (0..Len(vals)) |-> \E k \in r[1]..r[2] : vals[k] = x],
                    Len(vals), vals, x)
<1> DEFINE n == Len(vals)
           T == [r \in (1..(n + 1)) \X (0..n) |-> \E k \in r[1]..r[2] : vals[k] = x]
<1>1. n \in Nat /\ \A k \in 1..n : vals[k] \in Int
  OBVIOUS
<1>2. \A lo \in 1..(n + 1), hi \in 0..n : T[<<lo, hi>>] \in BOOLEAN /\ (T[<<lo, hi>>] <=> \E k \in lo..hi : vals[k] = x)
  OBVIOUS
<1> HIDE DEF T
<1>3. HalvesTree(T, n, vals, x)
  <2> SUFFICES ASSUME NEW lo \in 1..(n + 1), NEW hi \in 0..n
               PROVE  /\ T[<<lo, hi>>] \in BOOLEAN
                      /\ lo > hi => ~T[<<lo, hi>>]
                      /\ lo <= hi => LET mid == lo + (hi - lo) \div 2
                                     IN  T[<<lo, hi>>] <=> \/ x = vals[mid]
                                                           \/ x < vals[mid] /\ T[<<lo, mid - 1>>]
                                                           \/ x > vals[mid] /\ T[<<mid + 1, hi>>]
    BY DEF HalvesTree
  <2>1. lo > hi => ~T[<<lo, hi>>]
    BY <1>1, <1>2
  <2>2. ASSUME lo <= hi
        PROVE  LET mid == lo + (hi - lo) \div 2
               IN  T[<<lo, hi>>] <=> \/ x = vals[mid]
                                     \/ x < vals[mid] /\ T[<<lo, mid - 1>>]
                                     \/ x > vals[mid] /\ T[<<mid + 1, hi>>]
    <3> DEFINE mid == lo + (hi - lo) \div 2
    <3>1. mid \in 1..n /\ lo <= mid /\ mid <= hi
      BY <1>1, <2>2, Middle
    <3> HIDE DEF mid
    <3>2. T[<<lo, mid - 1>>] <=> \E k \in lo..(mid - 1) : vals[k] = x
      <4>1. PICK m \in 0..n : m = mid - 1
        BY <1>1, <3>1
      <4> QED
        BY <1>2, <4>1
    <3>3. T[<<mid + 1, hi>>] <=> \E k \in (mid + 1)..hi : vals[k] = x
      <4>1. PICK m \in 1..(n + 1) : m = mid + 1
        BY <1>1, <3>1
      <4> QED
        BY <1>2, <4>1
    <3>4. T[<<lo, hi>>] <=> \E k \in lo..hi : vals[k] = x
      BY <1>2
    <3>5. \A k \in lo..hi : vals[k] = x => \/ x = vals[mid]
                                           \/ x < vals[mid] /\ k \in lo..(mid - 1)
                                           \/ x > vals[mid] /\ k \in (mid + 1)..hi
      <4> TAKE k \in lo..hi
      <4> HAVE vals[k] = x
      <4>1. k \in 1..n /\ vals[mid] \in Int
        BY <1>1, <3>1
      <4>2. k < mid => vals[k] <= vals[mid]
        BY <3>1, <4>1 DEF Ascending
      <4>3. k > mid => vals[mid] <= vals[k]
        BY <3>1, <4>1 DEF Ascending
      <4> QED
        BY <3>1, <4>1, <4>2, <4>3
    <3>6. mid \in lo..hi /\ (\A k \in lo..(mid - 1) : k \in lo..hi) /\ (\A k \in (mid + 1)..hi : k \in lo..hi)
      BY <1>1, <3>1
    <3>7. T[<<lo, hi>>] <=> \/ x = vals[mid]
                            \/ x < vals[mid] /\ T[<<lo, mid - 1>>]
                            \/ x > vals[mid] /\ T[<<mid + 1, hi>>]
      BY <3>2, <3>3, <3>4, <3>5, <3>6
    <3> QED
      BY <3>7 DEF mid
  <2> QED
    BY <1>2, <2>1, <2>2
<1> QED
  BY <1>3 DEF T

\* The tree the sljit backend lays out finds the values of its list and no
\* others.
LEMMA SljitTree ==
  ASSUME NEW vals \in Seq(Int), NEW x \in Int, Ascending(vals)
  PROVE  SljitInTree(vals, x) <=> \E k \in 1..Len(vals) : vals[k] = x
<1> DEFINE n == Len(vals)
           D == (1..(n + 1)) \X (0..n)
           Next(L, r) ==
             LET lo == r[1]  hi == r[2]  mid == lo + (hi - lo) \div 2
             IN  /\ lo <= hi
                 /\ \/ x = vals[mid]
                    \/ lo < hi /\ x < vals[mid] /\ L[<<lo, mid - 1>>]
                    \/ lo < hi /\ x > vals[mid] /\ L[<<mid + 1, hi>>]
           T == [r \in D |-> \E k \in r[1]..r[2] : vals[k] = x]
           L == CHOOSE g : g = [r \in D |-> Next(g, r)]
<1>1. n \in Nat /\ \A k \in 1..n : vals[k] \in Int
  OBVIOUS
<1>2. HalvesTree(T, n, vals, x)
  BY TreeExists
<1> HIDE DEF T
<1>3. T = [r \in D |-> Next(T, r)]
  <2>1. \A r \in D : (\E k \in r[1]..r[2] : vals[k] = x) <=> Next(T, r)
    <3> SUFFICES ASSUME NEW lo \in 1..(n + 1), NEW hi \in 0..n
                 PROVE  (\E k \in lo..hi : vals[k] = x) <=> Next(T, <<lo, hi>>)
      <4>1. \A r \in D : r[1] \in 1..(n + 1) /\ r[2] \in 0..n /\ r = <<r[1], r[2]>>
        OBVIOUS
      <4> TAKE r \in D
      <4> PICK lo \in 1..(n + 1), hi \in 0..n : r = <<lo, hi>>
        BY <4>1
      <4> HIDE DEF Next
      <4> QED
        OBVIOUS
    <3> DEFINE mid == lo + (hi - lo) \div 2
    <3>1. T[<<lo, hi>>] <=> \E k \in lo..hi : vals[k] = x
      BY DEF T
    <3>2. lo > hi => ~T[<<lo, hi>>]
      BY <1>2 DEF HalvesTree
    <3>3. lo <= hi => (T[<<lo, hi>>] <=> \/ x = vals[mid]
                                         \/ x < vals[mid] /\ T[<<lo, mid - 1>>]
                                         \/ x > vals[mid] /\ T[<<mid + 1, hi>>])
      BY <1>2 DEF HalvesTree
    <3>4. Next(T, <<lo, hi>>) <=> /\ lo <= hi
                                  /\ \/ x = vals[mid]
                                     \/ lo < hi /\ x < vals[mid] /\ T[<<lo, mid - 1>>]
                                     \/ lo < hi /\ x > vals[mid] /\ T[<<mid + 1, hi>>]
      OBVIOUS
    <3>5. lo = hi => mid = lo
      OBVIOUS
    <3> HIDE DEF mid, Next
    <3>6. lo = hi => ~T[<<lo, mid - 1>>] /\ ~T[<<mid + 1, hi>>]
      <4> SUFFICES ASSUME lo = hi PROVE ~T[<<lo, lo - 1>>] /\ ~T[<<lo + 1, lo>>]
        BY <3>5
      <4>1. lo - 1 \in 0..n /\ lo + 1 \in 1..(n + 1) /\ lo > lo - 1 /\ lo + 1 > lo
        BY <1>1
      <4> QED
        BY <1>2, <4>1 DEF HalvesTree
    <3> QED
      BY <3>1, <3>2, <3>3, <3>4, <3>6
  <2>2. T = [r \in D |-> \E k \in r[1]..r[2] : vals[k] = x]
    BY DEF T
  <2>3. \A r \in D : Next(T, r) \in BOOLEAN
    OBVIOUS
  <2>4. \A r \in D : T[r] = Next(T, r)
    <3> HIDE DEF Next, D
    <3> QED
      BY <2>1, <2>2, <2>3
  <2>5. T = [r \in D |-> T[r]]
    <3> HIDE DEF Next, D
    <3> QED
      BY <2>2
  <2> HIDE DEF Next, D
  <2> QED
    BY <2>4, <2>5, Zenon
<1>4. L = [r \in D |-> Next(L, r)]
  <2> HIDE DEF Next, T, D
  <2> QED
    BY <1>3
<1>5. SljitInTree(vals, x) = L[<<1, n>>]
  BY DEF SljitInTree
<1> HIDE DEF L
<1>6. HalvesTree(L, n, vals, x)
  <2> SUFFICES ASSUME NEW lo \in 1..(n + 1), NEW hi \in 0..n
               PROVE  /\ L[<<lo, hi>>] \in BOOLEAN
                      /\ lo > hi => ~L[<<lo, hi>>]
                      /\ lo <= hi => LET mid == lo + (hi - lo) \div 2
                                     IN  L[<<lo, hi>>] <=> \/ x = vals[mid]
                                                           \/ x < vals[mid] /\ L[<<lo, mid - 1>>]
                                                           \/ x > vals[mid] /\ L[<<mid + 1, hi>>]
    BY DEF HalvesTree
  <2>1. \A a \in 1..(n + 1), b \in 0..n : L[<<a, b>>] \in BOOLEAN /\ (L[<<a, b>>] <=> Next(L, <<a, b>>))
    <3>1. \A r \in D : L[r] = Next(L, r)
      <4> HIDE DEF Next, D
      <4> QED
        BY <1>4, Zenon
    <3>2. \A r \in D : Next(L, r) \in BOOLEAN
      OBVIOUS
    <3> HIDE DEF Next
    <3> QED
      BY <3>1, <3>2
  <2> DEFINE mid == lo + (hi - lo) \div 2
  <2>2. Next(L, <<lo, hi>>) <=> /\ lo <= hi
                                /\ \/ x = vals[mid]
                                   \/ lo < hi /\ x < vals[mid] /\ L[<<lo, mid - 1>>]
                                   \/ lo < hi /\ x > vals[mid] /\ L[<<mid + 1, hi>>]
    OBVIOUS
  <2>3. lo = hi => mid = lo
    OBVIOUS
  <2>4. \A a \in 1..(n + 1), b \in 0..n : a > b => ~L[<<a, b>>]
    <3> TAKE a \in 1..(n + 1), b \in 0..n
    <3>1. Next(L, <<a, b>>) => a <= b
      OBVIOUS
    <3> HIDE DEF Next
    <3> QED
      BY <2>1, <3>1
  <2> HIDE DEF mid, Next
  <2>5. lo = hi => ~L[<<lo, mid - 1>>] /\ ~L[<<mid + 1, hi>>]
    <3> SUFFICES ASSUME lo = hi PROVE ~L[<<lo, lo - 1>>] /\ ~L[<<lo + 1, lo>>]
      BY <2>3
    <3>1. lo - 1 \in 0..n /\ lo + 1 \in 1..(n + 1) /\ lo > lo - 1 /\ lo + 1 > lo
      BY <1>1
    <3> QED
      BY <2>4, <3>1
  <2>6. lo <= hi => (L[<<lo, hi>>] <=> \/ x = vals[mid]
                                       \/ x < vals[mid] /\ L[<<lo, mid - 1>>]
                                       \/ x > vals[mid] /\ L[<<mid + 1, hi>>])
    BY <2>1, <2>2, <2>5
  <2> QED
    BY <2>1, <2>4, <2>6 DEF mid
<1> QED
  BY <1>5, <1>6, TreeFinds

\* The tree the MIR backend lays out, whose leaves are short runs of
\* comparisons, finds the values of its list and no others.
LEMMA MirTree ==
  ASSUME NEW vals \in Seq(Int), NEW x \in Int, Ascending(vals)
  PROVE  MirInTree(vals, x) <=> \E k \in 1..Len(vals) : vals[k] = x
<1> DEFINE n == Len(vals)
           D == (1..(n + 1)) \X (0..n)
           Next(L, r) ==
             LET lo == r[1]  hi == r[2]  mid == lo + (hi - lo) \div 2
             IN  \/ lo = hi /\ x = vals[lo]
                 \/ lo < hi /\ (x = vals[mid] \/ L[IF x < vals[mid] THEN <<lo, mid - 1>> ELSE <<mid + 1, hi>>])
           T == [r \in D |-> \E k \in r[1]..r[2] : vals[k] = x]
           L == CHOOSE g : g = [r \in D |-> Next(g, r)]
           Node(g, lo, hi) ==
             LET mid == lo + (hi - lo) \div 2
             IN  \/ lo = hi /\ x = vals[lo]
                 \/ lo < hi /\ \/ x = vals[mid]
                               \/ x < vals[mid] /\ g[<<lo, mid - 1>>]
                               \/ x > vals[mid] /\ g[<<mid + 1, hi>>]
<1>1. n \in Nat /\ \A k \in 1..n : vals[k] \in Int
  OBVIOUS
<1>2. HalvesTree(T, n, vals, x)
  BY TreeExists
<1>3. ASSUME NEW g, NEW lo \in 1..(n + 1), NEW hi \in 0..n,
             \A a \in 1..(n + 1), b \in 0..n : g[<<a, b>>] \in BOOLEAN
      PROVE  Next(g, <<lo, hi>>) <=> Node(g, lo, hi)
  <2> DEFINE mid == lo + (hi - lo) \div 2
  <2>1. Next(g, <<lo, hi>>) <=>
          \/ lo = hi /\ x = vals[lo]
          \/ lo < hi /\ (x = vals[mid] \/ g[IF x < vals[mid] THEN <<lo, mid - 1>> ELSE <<mid + 1, hi>>])
    OBVIOUS
  <2>2. lo < hi => mid \in 1..n
    BY <1>1, Middle
  <2>3. Node(g, lo, hi) <=>
                 \/ lo = hi /\ x = vals[lo]
                 \/ lo < hi /\ \/ x = vals[mid]
                               \/ x < vals[mid] /\ g[<<lo, mid - 1>>]
                               \/ x > vals[mid] /\ g[<<mid + 1, hi>>]
    OBVIOUS
  <2> HIDE DEF mid, Next, Node
  <2>4. lo < hi => vals[mid] \in Int
    BY <1>1, <2>2
  <2>5. lo < hi /\ x < vals[mid] => ((IF x < vals[mid] THEN <<lo, mid - 1>> ELSE <<mid + 1, hi>>) = <<lo, mid - 1>>)
    OBVIOUS
  <2>6. lo < hi /\ ~(x < vals[mid]) => ((IF x < vals[mid] THEN <<lo, mid - 1>> ELSE <<mid + 1, hi>>) = <<mid + 1, hi>>)
    OBVIOUS
  <2>7. lo < hi => /\ x < vals[mid] => ~(x > vals[mid]) /\ x # vals[mid]
                   /\ x > vals[mid] => ~(x < vals[mid]) /\ x # vals[mid]
                   /\ x = vals[mid] \/ x < vals[mid] \/ x > vals[mid]
    BY <2>4
  <2> QED
    BY <2>1, <2>3, <2>5, <2>6, <2>7
<1> HIDE DEF T
<1>4. \A lo \in 1..(n + 1), hi \in 0..n : T[<<lo, hi>>] \in BOOLEAN /\ (T[<<lo, hi>>] <=> Node(T, lo, hi))
  <2> TAKE lo \in 1..(n + 1), hi \in 0..n
  <2> DEFINE mid == lo + (hi - lo) \div 2
  <2>1. lo > hi => ~T[<<lo, hi>>]
    BY <1>2 DEF HalvesTree
  <2>2. lo <= hi => (T[<<lo, hi>>] <=> \/ x = vals[mid]
                                       \/ x < vals[mid] /\ T[<<lo, mid - 1>>]
                                       \/ x > vals[mid] /\ T[<<mid + 1, hi>>])
    BY <1>2 DEF HalvesTree
  <2>3. Node(T, lo, hi) <=>
                 \/ lo = hi /\ x = vals[lo]
                 \/ lo < hi /\ \/ x = vals[mid]
                               \/ x < vals[mid] /\ T[<<lo, mid - 1>>]
                               \/ x > vals[mid] /\ T[<<mid + 1, hi>>]
    OBVIOUS
  <2>4. lo = hi => mid = lo
    OBVIOUS
  <2>5. T[<<lo, hi>>] \in BOOLEAN
    BY <1>2 DEF HalvesTree
  <2> HIDE DEF mid, Node
  <2>6. lo = hi => ~T[<<lo, mid - 1>>] /\ ~T[<<mid + 1, hi>>]
    <3> SUFFICES ASSUME lo = hi PROVE ~T[<<lo, lo - 1>>] /\ ~T[<<lo + 1, lo>>]
      BY <2>4
    <3>1. lo - 1 \in 0..n /\ lo + 1 \in 1..(n + 1) /\ lo > lo - 1 /\ lo + 1 > lo
      BY <1>1
    <3> QED
      BY <1>2, <3>1 DEF HalvesTree
  <2> QED
    BY <2>1, <2>2, <2>3, <2>4, <2>5, <2>6
<1>5. \A r \in D : \E lo \in 1..(n + 1), hi \in 0..n : r = <<lo, hi>>
  <2>1. \A r \in D : r[1] \in 1..(n + 1) /\ r[2] \in 0..n /\ r = <<r[1], r[2]>>
    OBVIOUS
  <2> QED
    BY <2>1
<1>6. T = [r \in D |-> Next(T, r)]
  <2>1. \A r \in D : T[r] = Next(T, r)
    <3> TAKE r \in D
    <3> PICK lo \in 1..(n + 1), hi \in 0..n : r = <<lo, hi>>
      BY <1>5
    <3>1. Next(T, <<lo, hi>>) \in BOOLEAN
      OBVIOUS
    <3>2. T[<<lo, hi>>] \in BOOLEAN /\ (T[<<lo, hi>>] <=> Next(T, <<lo, hi>>))
      <4> HIDE DEF Next, Node
      <4> QED
        BY <1>3, <1>4
    <3> HIDE DEF Next, D
    <3> QED
      BY <3>1, <3>2
  <2>2. T = [r \in D |-> T[r]]
    BY DEF T
  <2> HIDE DEF Next, D
  <2> QED
    BY <2>1, <2>2, Zenon
<1>7. L = [r \in D |-> Next(L, r)]
  <2> HIDE DEF Next, D
  <2> QED
    BY <1>6
<1>8. MirInTree(vals, x) = L[<<1, n>>]
  BY DEF MirInTree
<1> HIDE DEF L
<1>9. \A lo \in 1..(n + 1), hi \in 0..n : L[<<lo, hi>>] \in BOOLEAN /\ (L[<<lo, hi>>] <=> Node(L, lo, hi))
  <2>1. \A r \in D : L[r] = Next(L, r)
    <3> HIDE DEF Next, D
    <3> QED
      BY <1>7, Zenon
  <2>2. \A r \in D : Next(L, r) \in BOOLEAN
    OBVIOUS
  <2> HIDE DEF Next, Node
  <2>3. \A lo \in 1..(n + 1), hi \in 0..n : L[<<lo, hi>>] \in BOOLEAN /\ L[<<lo, hi>>] = Next(L, <<lo, hi>>)
    BY <2>1, <2>2
  <2> QED
    BY <1>3, <2>3
<1>10. HalvesTree(L, n, vals, x)
  <2> SUFFICES ASSUME NEW lo \in 1..(n + 1), NEW hi \in 0..n
               PROVE  /\ L[<<lo, hi>>] \in BOOLEAN
                      /\ lo > hi => ~L[<<lo, hi>>]
                      /\ lo <= hi => LET mid == lo + (hi - lo) \div 2
                                     IN  L[<<lo, hi>>] <=> \/ x = vals[mid]
                                                           \/ x < vals[mid] /\ L[<<lo, mid - 1>>]
                                                           \/ x > vals[mid] /\ L[<<mid + 1, hi>>]
    BY DEF HalvesTree
  <2> DEFINE mid == lo + (hi - lo) \div 2
  <2>1. L[<<lo, hi>>] \in BOOLEAN
    BY <1>9
  <2>2. Node(L, lo, hi) <=>
                 \/ lo = hi /\ x = vals[lo]
                 \/ lo < hi /\ \/ x = vals[mid]
                               \/ x < vals[mid] /\ L[<<lo, mid - 1>>]
                               \/ x > vals[mid] /\ L[<<mid + 1, hi>>]
    OBVIOUS
  <2>3. lo = hi => mid = lo
    OBVIOUS
  <2>4. \A a \in 1..(n + 1), b \in 0..n : a > b => ~L[<<a, b>>]
    <3> TAKE a \in 1..(n + 1), b \in 0..n
    <3>1. Node(L, a, b) => a <= b
      OBVIOUS
    <3> HIDE DEF Node
    <3> QED
      BY <1>9, <3>1
  <2> HIDE DEF mid, Node
  <2>5. lo = hi => ~L[<<lo, mid - 1>>] /\ ~L[<<mid + 1, hi>>]
    <3> SUFFICES ASSUME lo = hi PROVE ~L[<<lo, lo - 1>>] /\ ~L[<<lo + 1, lo>>]
      BY <2>3
    <3>1. lo - 1 \in 0..n /\ lo + 1 \in 1..(n + 1) /\ lo > lo - 1 /\ lo + 1 > lo
      BY <1>1
    <3> QED
      BY <2>4, <3>1
  <2>6. lo <= hi => (L[<<lo, hi>>] <=> \/ x = vals[mid]
                                       \/ x < vals[mid] /\ L[<<lo, mid - 1>>]
                                       \/ x > vals[mid] /\ L[<<mid + 1, hi>>])
    BY <1>9, <2>2, <2>3, <2>5
  <2> QED
    BY <2>1, <2>4, <2>6 DEF mid
<1> QED
  BY <1>8, <1>10, TreeFinds

\* An ascending list of the values that are not NULL contains what the IN list
\* contains.
LEMMA TreeIsInList ==
  ASSUME NEW op, NEW vals, NEW x \in Int, ListOf(vals, op), op.ty # "text"
  PROVE  (\E k \in 1..Len(vals) : vals[k] = x) <=> \E i \in DOMAIN op.array : ~op.array[i].n /\ Equals(op.ty, op.array[i].v, x)
<1>1. (\E k \in 1..Len(vals) : vals[k] = x) <=> x \in {vals[k] : k \in 1..Len(vals)}
  OBVIOUS
<1>2. x \in {op.array[i].v : i \in {i \in DOMAIN op.array : ~op.array[i].n}} <=>
        \E i \in DOMAIN op.array : ~op.array[i].n /\ op.array[i].v = x
  OBVIOUS
<1> QED
  BY <1>1, <1>2 DEF ListOf, NonNulls, Equals

(***************************************************************************)
(* Tables with open addressing.                                            *)
(***************************************************************************)

\* A remainder is a slot of the table.
LEMMA Remainder ==
  ASSUME NEW x \in Nat, NEW s \in Nat \ {0} PROVE x % s \in 0..(s - 1)
OBVIOUS

\* The remainder of a multiple and a smaller number is that number.
LEMMA RemainderOf ==
  ASSUME NEW q \in Nat, NEW r \in Nat, NEW s \in Nat \ {0}, r < s PROVE ((q * s) + r) % s = r
OBVIOUS

\* Probing one slot after the other reaches every slot.
LEMMA ProbeReaches ==
  ASSUME NEW x \in Nat, NEW s \in Nat \ {0}, NEW j \in 0..(s - 1) PROVE \E d \in 0..(s - 1) : (x + d) % s = j
<1> DEFINE r == x % s
<1>1. r \in 0..(s - 1)
  BY Remainder
<1>2. PICK q \in Nat : x = (q * s) + r
  <2>1. x = ((x \div s) * s) + (x % s) /\ x \div s \in Nat
    OBVIOUS
  <2> QED
    BY <2>1
<1>3. PICK p \in Nat : p = q * s
  OBVIOUS
<1> HIDE DEF r
<1>4. CASE r <= j
  <2>1. (p + j) % s = j
    BY RemainderOf, <1>3
  <2>2. j - r \in 0..(s - 1) /\ x + (j - r) = p + j
    BY <1>1, <1>2, <1>3, <1>4
  <2> QED
    BY <2>1, <2>2
<1>5. CASE r > j
  <2>0. PICK q1 \in Nat : q1 = q + 1
    OBVIOUS
  <2>1. p + s = q1 * s
    BY <1>3, <2>0
  <2>2. ((q1 * s) + j) % s = j
    BY RemainderOf
  <2>3. (j + s) - r \in 0..(s - 1) /\ x + ((j + s) - r) = (p + s) + j
    BY <1>1, <1>2, <1>3, <1>5
  <2> QED
    BY <2>1, <2>2, <2>3
<1> QED
  BY <1>1, <1>4, <1>5

\* F[i] is what the i-th step makes of F[i - 1].
Steps(F, n, V, first, step) ==
  /\ F \in [0..n -> V] /\ F[0] = first
  /\ \A i \in 1..n : F[i] = step[<<i, F[i - 1]>>]

\* A table filled step by step is defined.
LEMMA StepByStep ==
  ASSUME NEW n \in Nat, NEW V, NEW first \in V, NEW step \in [(1..n) \X V -> V]
  PROVE  \E F : Steps(F, n, V, first, step)
<1> DEFINE Upto(F, k) == F[0] = first /\ \A i \in 1..k : F[i] = step[<<i, F[i - 1]>>]
           Bad == {k \in Nat : k <= n /\ ~\E F \in [0..n -> V] : Upto(F, k)}
<1> SUFFICES ASSUME Bad # {} PROVE FALSE
  <2>1. n \notin Bad => \E F \in [0..n -> V] : Upto(F, n)
    OBVIOUS
  <2> QED
    BY <2>1 DEF Steps
<1>1. PICK k \in Bad : \A y \in Bad : k <= y
  BY LeastNat
<1>2. CASE k = 0
  <2>1. [i \in 0..n |-> first] \in [0..n -> V] /\ Upto([i \in 0..n |-> first], 0)
    OBVIOUS
  <2> QED
    BY <1>1, <1>2, <2>1
<1>3. CASE k # 0
  <2>1. k - 1 \in Nat /\ k - 1 <= n /\ k - 1 \notin Bad /\ k \in 1..n
    <3>1. k \in Nat /\ k <= n
      OBVIOUS
    <3> HIDE DEF Bad
    <3>2. k - 1 \in Nat /\ ~(k <= k - 1)
      BY <1>3, <3>1
    <3> QED
      BY <1>1, <1>3, <3>1, <3>2
  <2>2. PICK F \in [0..n -> V] : Upto(F, k - 1)
    BY <2>1
  <2> DEFINE G == [F EXCEPT ![k] = step[<<k, F[k - 1]>>]]
  <2>3. G \in [0..n -> V]
    <3>1. F[k - 1] \in V
      BY <2>1
    <3>2. step[<<k, F[k - 1]>>] \in V
      BY <2>1, <3>1
    <3> QED
      BY <3>2
  <2>4. \A i \in 0..n : i # k => G[i] = F[i]
    OBVIOUS
  <2>5. G[k] = step[<<k, F[k - 1]>>]
    BY <2>1
  <2>6. Upto(G, k)
    <3> HIDE DEF G
    <3>1. G[0] = first
      BY <2>1, <2>2, <2>4
    <3>2. ASSUME NEW i \in 1..k PROVE G[i] = step[<<i, G[i - 1]>>]
      <4>1. i - 1 \in 0..n /\ i - 1 # k /\ i \in 0..n
        BY <2>1
      <4>2. G[i - 1] = F[i - 1]
        BY <2>4, <4>1
      <4>3. CASE i = k
        BY <2>5, <4>2, <4>3
      <4>4. CASE i # k
        <5>1. i \in 1..(k - 1)
          BY <2>1, <4>4
        <5> QED
          BY <2>2, <2>4, <4>1, <4>2, <4>4, <5>1
      <4> QED
        BY <4>3, <4>4
    <3> QED
      BY <3>1, <3>2
  <2> QED
    BY <1>1, <2>3, <2>6
<1> QED
  BY <1>2, <1>3

\* Probing from a hash gets to a slot over occupied ones.
Reached(t, S, slot, h) ==
  \E d \in 0..(S - 1) : slot = (h + d) % S /\ \A e \in 0..(d - 1) : t[(h + e) % S].occupied

\* A table of S slots has S slots.
LEMMA TableSize == ASSUME NEW S \in Nat \ {0} PROVE Cardinality(0..(S - 1)) = S /\ IsFiniteSet(0..(S - 1))
BY FS_Interval

\* The distance at which a probe stops: the first slot that one of the stops
\* is in.
LEMMA FirstStop ==
  ASSUME NEW S \in Nat \ {0}, NEW stops \in SUBSET (0..(S - 1)), stops # {}, NEW h \in Nat
  PROVE  \E d \in 0..(S - 1) : (h + d) % S \in stops /\ \A e \in 0..(d - 1) : (h + e) % S \notin stops
<1> DEFINE Ds == {d \in 0..(S - 1) : (h + d) % S \in stops}
<1>1. Ds # {} /\ Ds \in SUBSET Nat
  <2> PICK j \in stops : TRUE
    OBVIOUS
  <2>1. \E d \in 0..(S - 1) : (h + d) % S = j
    BY ProbeReaches
  <2>2. Ds # {}
    BY <2>1
  <2>3. \A d \in 0..(S - 1) : d \in Nat
    OBVIOUS
  <2>4. Ds \in SUBSET Nat
    BY <2>3, Zenon
  <2> QED
    BY <2>2, <2>4
<1>2. PICK d \in Ds : \A y \in Ds : d <= y
  <2> HIDE DEF Ds
  <2> QED
    BY <1>1, LeastNat
<1>3. ASSUME NEW e \in 0..(d - 1) PROVE (h + e) % S \notin stops
  <2>1. e \in 0..(S - 1) /\ ~(d <= e)
    BY <1>2
  <2>2. e \notin Ds
    BY <1>2, <2>1
  <2> QED
    BY <2>1, <2>2
<1> QED
  BY <1>2, <1>3

\* Insertion finds a free slot when there is one, over occupied slots only.
LEMMA FreeSlotFound ==
  ASSUME NEW S \in Nat \ {0}, NEW E, \A e \in E : e.occupied \in BOOLEAN, NEW t \in [0..(S - 1) -> E], NEW h \in Nat,
         \E j \in 0..(S - 1) : ~t[j].occupied
  PROVE  /\ FreeSlot(t, h) \in 0..(S - 1) /\ ~t[FreeSlot(t, h)].occupied
         /\ Reached(t, S, FreeSlot(t, h), h)
<1> DEFINE d == CHOOSE d \in 0..(S - 1) :
                  /\ ~t[(h + d) % S].occupied
                  /\ \A e \in 0..(d - 1) : t[(h + e) % S].occupied
           free == {j \in 0..(S - 1) : ~t[j].occupied}
<1>1. FreeSlot(t, h) = (h + d) % S
  <2>1. Cardinality(DOMAIN t) = S
    BY TableSize
  <2> QED
    BY <2>1 DEF FreeSlot
<1>2. \A e \in Nat : (h + e) % S \in 0..(S - 1)
  BY Remainder
<1>3. \E c \in 0..(S - 1) :
         /\ ~t[(h + c) % S].occupied
         /\ \A e \in 0..(c - 1) : t[(h + e) % S].occupied
  <2>1. PICK c \in 0..(S - 1) : (h + c) % S \in free /\ \A e \in 0..(c - 1) : (h + e) % S \notin free
    <3>1. free # {}
      OBVIOUS
    <3>2. free \in SUBSET (0..(S - 1))
      OBVIOUS
    <3> HIDE DEF free
    <3> QED
      BY <3>1, <3>2, FirstStop
  <2>2. \A e \in 0..(c - 1) : (h + e) % S \in 0..(S - 1)
    BY <1>2
  <2> QED
    BY <2>1, <2>2
<1>4. /\ d \in 0..(S - 1) /\ ~t[(h + d) % S].occupied
      /\ \A e \in 0..(d - 1) : t[(h + e) % S].occupied
  BY <1>3
<1>5. \E c \in 0..(S - 1) :
         /\ FreeSlot(t, h) = (h + c) % S /\ ~t[(h + c) % S].occupied
         /\ \A e \in 0..(c - 1) : t[(h + e) % S].occupied
  <2> HIDE DEF d
  <2> QED
    BY <1>1, <1>4
<1>6. PICK c \in 0..(S - 1) :
         /\ FreeSlot(t, h) = (h + c) % S /\ ~t[(h + c) % S].occupied
         /\ \A e \in 0..(c - 1) : t[(h + e) % S].occupied
  BY <1>5
<1>7. FreeSlot(t, h) \in 0..(S - 1)
  <2>1. c \in Nat
    OBVIOUS
  <2> QED
    BY <1>2, <1>6, <2>1
<1>8. Reached(t, S, FreeSlot(t, h), h)
  BY <1>6, Zenon DEF Reached
<1> QED
  BY <1>6, <1>7, <1>8

\* A table that i entries have been put into, entry k under the hash h[k].
Holding(t, S, i, h, entry) ==
  /\ Cardinality({j \in 0..(S - 1) : t[j].occupied}) = i
  /\ \A j \in 0..(S - 1) : t[j].occupied => \E k \in 1..i : t[j] = entry[k] /\ Reached(t, S, j, h[k])
  /\ \A k \in 1..i : \E j \in 0..(S - 1) : t[j].occupied /\ t[j] = entry[k] /\ Reached(t, S, j, h[k])

\* A slot that was reached still is when more slots are occupied.
LEMMA ReachedStill ==
  ASSUME NEW S \in Nat \ {0}, NEW t, NEW u, NEW j, NEW h \in Nat, Reached(t, S, j, h),
         \A l \in 0..(S - 1) : t[l].occupied => u[l].occupied
  PROVE  Reached(u, S, j, h)
<1>1. PICK d \in 0..(S - 1) : j = (h + d) % S /\ \A e \in 0..(d - 1) : t[(h + e) % S].occupied
  BY DEF Reached
<1>2. \A e \in 0..(d - 1) : (h + e) % S \in 0..(S - 1)
  <2> TAKE e \in 0..(d - 1)
  <2>1. h + e \in Nat
    OBVIOUS
  <2> QED
    BY <2>1, Remainder
<1>3. \A e \in 0..(d - 1) : u[(h + e) % S].occupied
  BY <1>1, <1>2
<1> QED
  BY <1>1, <1>3, Zenon DEF Reached

\* An insertion puts one more entry where a probe for it comes by and leaves
\* the others reachable.
LEMMA OneMoreEntry ==
  ASSUME NEW S \in Nat \ {0}, NEW E, \A e \in E : e.occupied \in BOOLEAN, NEW t \in [0..(S - 1) -> E],
         NEW i \in Nat, i < S, NEW h, \A k \in 1..(i + 1) : h[k] \in Nat,
         NEW entry, entry[i + 1] \in E, entry[i + 1].occupied, Holding(t, S, i, h, entry)
  PROVE  Holding([t EXCEPT ![FreeSlot(t, h[i + 1])] = entry[i + 1]], S, i + 1, h, entry)
<1> DEFINE D == 0..(S - 1)
           occ == {j \in D : t[j].occupied}
           f == FreeSlot(t, h[i + 1])
           u == [t EXCEPT ![f] = entry[i + 1]]
<1>0. IsFiniteSet(D) /\ Cardinality(D) = S
  BY TableSize
<1>1. \E j \in D : ~t[j].occupied
  <2> SUFFICES ASSUME \A j \in D : t[j].occupied PROVE FALSE
    OBVIOUS
  <2>1. occ = D
    OBVIOUS
  <2>2. Cardinality(occ) = i
    BY DEF Holding
  <2> HIDE DEF occ, D
  <2> QED
    BY <1>0, <2>1, <2>2
<1>2. h[i + 1] \in Nat
  OBVIOUS
<1>3. f \in D /\ ~t[f].occupied /\ Reached(t, S, f, h[i + 1])
  BY <1>1, <1>2, FreeSlotFound
<1> HIDE DEF f
<1>4. u[f] = entry[i + 1] /\ \A j \in D : j # f => u[j] = t[j]
  BY <1>3
<1>5. \A j \in D : t[j].occupied => u[j].occupied /\ u[j] = t[j]
  BY <1>3, <1>4
<1> HIDE DEF u
<1>6. Cardinality({j \in D : u[j].occupied}) = i + 1
  <2>1. {j \in D : u[j].occupied} = occ \cup {f}
    BY <1>3, <1>4
  <2>2. IsFiniteSet(occ)
    BY <1>0, FS_Subset
  <2>3. f \notin occ
    BY <1>3
  <2>4. Cardinality(occ) = i
    BY DEF Holding
  <2> HIDE DEF occ
  <2>5. Cardinality(occ \cup {f}) = i + 1
    BY <2>2, <2>3, <2>4, FS_AddElement
  <2> QED
    BY <2>1, <2>5
<1>7. \A k \in 1..(i + 1), j \in D : Reached(t, S, j, h[k]) => Reached(u, S, j, h[k])
  BY <1>5, ReachedStill
<1>8. ASSUME NEW j \in D, u[j].occupied PROVE \E k \in 1..(i + 1) : u[j] = entry[k] /\ Reached(u, S, j, h[k])
  <2>1. CASE j = f
    <3>1. i + 1 \in 1..(i + 1) /\ u[j] = entry[i + 1] /\ Reached(u, S, j, h[i + 1])
      BY <1>3, <1>4, <1>7, <2>1
    <3> QED
      BY <3>1
  <2>2. CASE j # f
    <3>1. t[j].occupied /\ u[j] = t[j]
      BY <1>4, <1>8, <2>2
    <3>2. PICK k \in 1..i : t[j] = entry[k] /\ Reached(t, S, j, h[k])
      BY <3>1 DEF Holding
    <3>3. k \in 1..(i + 1)
      OBVIOUS
    <3> QED
      BY <1>7, <3>1, <3>2, <3>3
  <2> QED
    BY <2>1, <2>2
<1>9. ASSUME NEW k \in 1..(i + 1)
      PROVE  \E j \in D : u[j].occupied /\ u[j] = entry[k] /\ Reached(u, S, j, h[k])
  <2>1. CASE k = i + 1
    BY <1>3, <1>4, <1>7, <2>1
  <2>2. CASE k # i + 1
    <3>1. k \in 1..i
      BY <2>2
    <3>2. PICK j \in D : t[j].occupied /\ t[j] = entry[k] /\ Reached(t, S, j, h[k])
      BY <3>1 DEF Holding
    <3> QED
      BY <1>5, <1>7, <3>2
  <2> QED
    BY <2>1, <2>2
<1>10. Holding(u, S, i + 1, h, entry)
  BY <1>6, <1>8, <1>9 DEF Holding
<1> QED
  BY <1>10 DEF u, f

\* A table that fewer entries than slots have been put into holds all of them,
\* each reachable from its hash.
LEMMA TableFilled ==
  ASSUME NEW n \in Nat, NEW S \in Nat \ {0}, n < S, NEW E, \A e \in E : e.occupied \in BOOLEAN,
         NEW T \in [0..n -> [0..(S - 1) -> E]], NEW h \in [1..n -> Nat], NEW entry \in [1..n -> E],
         \A i \in 1..n : entry[i].occupied, \A j \in 0..(S - 1) : ~T[0][j].occupied,
         \A i \in 1..n : T[i] = [T[i - 1] EXCEPT ![FreeSlot(T[i - 1], h[i])] = entry[i]]
  PROVE  Holding(T[n], S, n, h, entry)
<1> DEFINE Bad == {i \in Nat : i <= n /\ ~Holding(T[i], S, i, h, entry)}
<1> SUFFICES ASSUME Bad # {} PROVE FALSE
  <2>1. n \notin Bad => Holding(T[n], S, n, h, entry)
    OBVIOUS
  <2> QED
    BY <2>1
<1>1. PICK i \in Bad : \A y \in Bad : i <= y
  BY LeastNat
<1>2. i \in Nat /\ i <= n /\ ~Holding(T[i], S, i, h, entry)
  BY <1>1
<1>3. CASE i = 0
  <2>1. {j \in 0..(S - 1) : T[0][j].occupied} = {}
    OBVIOUS
  <2>2. Cardinality({j \in 0..(S - 1) : T[0][j].occupied}) = 0
    BY <2>1, FS_EmptySet
  <2> QED
    BY <1>2, <1>3, <2>2 DEF Holding
<1>4. CASE i # 0
  <2>1. i - 1 \in Nat /\ i - 1 <= n /\ i - 1 \notin Bad
    <3> HIDE DEF Bad
    <3>1. i - 1 \in Nat /\ ~(i <= i - 1)
      BY <1>2, <1>4
    <3> QED
      BY <1>1, <1>2, <3>1
  <2>2. Holding(T[i - 1], S, i - 1, h, entry)
    BY <2>1
  <2> PICK k \in Nat : k = i - 1
    BY <2>1
  <2>3. i = k + 1 /\ k < S /\ k + 1 \in 1..n /\ k \in 0..n
    BY <1>2, <2>1
  <2>4. T[k] \in [0..(S - 1) -> E]
    BY <2>3
  <2>5. (\A l \in 1..(k + 1) : h[l] \in Nat) /\ entry[k + 1] \in E /\ entry[k + 1].occupied
    BY <2>3
  <2>6. Holding([T[k] EXCEPT ![FreeSlot(T[k], h[k + 1])] = entry[k + 1]], S, k + 1, h, entry)
    BY <2>2, <2>3, <2>4, <2>5, OneMoreEntry
  <2>7. T[k + 1] = [T[k] EXCEPT ![FreeSlot(T[k], h[k + 1])] = entry[k + 1]]
    BY <2>3
  <2> QED
    BY <1>2, <2>3, <2>6, <2>7
<1> QED
  BY <1>3, <1>4

\* Where a probe from h ends: at a free slot or at an entry that is the same.
Ends(t, S, h, same, d) ==
  /\ ~t[(h + d) % S].occupied \/ t[(h + d) % S] \in same
  /\ \A e \in 0..(d - 1) : t[(h + e) % S].occupied /\ t[(h + e) % S] \notin same

\* Some probe ends, and where it ends tells whether an entry is the same.
Decided(t, S, n, entry, hx, same) ==
  /\ \E d \in 0..(S - 1) : Ends(t, S, hx, same, d)
  /\ \A d \in 0..(S - 1) : Ends(t, S, hx, same, d) =>
        (t[(hx + d) % S].occupied <=> \E k \in 1..n : entry[k] \in same)

\* A probe ends, at a free slot or at an entry that is the same, and at the
\* latter if and only if such an entry was put into the table: equal entries
\* have the same hash.
LEMMA ProbeDecides ==
  ASSUME NEW n \in Nat, NEW S \in Nat \ {0}, n < S, NEW E, \A e \in E : e.occupied \in BOOLEAN,
         NEW t \in [0..(S - 1) -> E], NEW h, NEW entry, Holding(t, S, n, h, entry),
         NEW hx \in Nat, NEW same, \A k \in 1..n : entry[k] \in same => h[k] = hx
  PROVE  Decided(t, S, n, entry, hx, same)
<1> DEFINE D == 0..(S - 1)
           occ == {j \in D : t[j].occupied}
           stops == {j \in D : ~t[j].occupied \/ t[j] \in same}
<1>0. \A e \in Nat : (hx + e) % S \in D
  <2> TAKE e \in Nat
  <2>1. hx + e \in Nat
    OBVIOUS
  <2> QED
    BY <2>1, Remainder
<1>1. stops # {}
  <2> SUFFICES ASSUME \A j \in D : t[j].occupied PROVE FALSE
    OBVIOUS
  <2>1. occ = D
    OBVIOUS
  <2>2. Cardinality(occ) = n
    BY DEF Holding
  <2> HIDE DEF occ, D
  <2> QED
    BY <2>1, <2>2, TableSize DEF D
<1>2. \E d \in 0..(S - 1) : Ends(t, S, hx, same, d)
  <2>1. stops \in SUBSET (0..(S - 1))
    OBVIOUS
  <2>2. PICK d \in 0..(S - 1) : (hx + d) % S \in stops /\ \A e \in 0..(d - 1) : (hx + e) % S \notin stops
    <3> HIDE DEF stops
    <3> QED
      BY <1>1, <2>1, FirstStop
  <2>3. \A e \in 0..(d - 1) : t[(hx + e) % S].occupied /\ t[(hx + e) % S] \notin same
    <3> TAKE e \in 0..(d - 1)
    <3>1. (hx + e) % S \in D
      BY <1>0
    <3> QED
      BY <2>2, <3>1
  <2> QED
    BY <2>2, <2>3 DEF Ends
<1>3. ASSUME NEW d \in 0..(S - 1), Ends(t, S, hx, same, d)
      PROVE  t[(hx + d) % S].occupied <=> \E k \in 1..n : entry[k] \in same
  <2>0. (hx + d) % S \in D
    BY <1>0
  <2>1. ASSUME t[(hx + d) % S].occupied PROVE \E k \in 1..n : entry[k] \in same
    <3>1. t[(hx + d) % S] \in same
      BY <1>3, <2>1 DEF Ends
    <3>2. PICK k \in 1..n : t[(hx + d) % S] = entry[k]
      BY <2>0, <2>1 DEF Holding
    <3> QED
      BY <3>1, <3>2
  <2>2. ASSUME NEW k \in 1..n, entry[k] \in same, ~t[(hx + d) % S].occupied PROVE FALSE
    <3>0. h[k] = hx
      BY <2>2
    <3>00. \E j \in 0..(S - 1) : t[j].occupied /\ t[j] = entry[k] /\ Reached(t, S, j, h[k])
      BY DEF Holding
    <3>1. PICK j \in D : t[j].occupied /\ t[j] = entry[k] /\ Reached(t, S, j, hx)
      BY <3>0, <3>00
    <3>2. PICK c \in 0..(S - 1) : j = (hx + c) % S /\ \A e \in 0..(c - 1) : t[(hx + e) % S].occupied
      BY <3>1 DEF Reached
    <3>3. ~(c < d)
      <4> SUFFICES ASSUME c < d PROVE FALSE
        OBVIOUS
      <4>1. c \in 0..(d - 1)
        OBVIOUS
      <4> QED
        BY <1>3, <2>2, <3>1, <3>2, <4>1 DEF Ends
    <3>4. c # d
      BY <2>2, <3>1, <3>2
    <3>5. d \in 0..(c - 1)
      BY <3>3, <3>4
    <3> QED
      BY <2>2, <3>2, <3>5
  <2> QED
    BY <2>1, <2>2
<1> QED
  BY <1>2, <1>3 DEF Decided

\* The table after each of n insertions, the k-th of entry[k] under h[k].
Fills(F, n, first, h, entry) ==
  /\ F = [i \in 0..n |-> F[i]] /\ F[0] = first
  /\ \A i \in 1..n : F[i] = [F[i - 1] EXCEPT ![FreeSlot(F[i - 1], h[i])] = entry[i]]

\* The loop that fills a table is defined.
LEMMA FillingExists ==
  ASSUME NEW n \in Nat, NEW S \in Nat \ {0}, NEW E, NEW first \in [0..(S - 1) -> E], NEW h, NEW entry \in [1..n -> E]
  PROVE  \E F : Fills(F, n, first, h, entry)
<1> DEFINE V == [0..(S - 1) -> E]
           step == [p \in (1..n) \X V |-> [p[2] EXCEPT ![FreeSlot(p[2], h[p[1]])] = entry[p[1]]]]
<1>1. step \in [(1..n) \X V -> V]
  <2> SUFFICES ASSUME NEW p \in (1..n) \X V PROVE [p[2] EXCEPT ![FreeSlot(p[2], h[p[1]])] = entry[p[1]]] \in V
    OBVIOUS
  <2>1. PICK t \in V, e \in E, k \in 1..n : t = p[2] /\ e = entry[p[1]] /\ k = p[1]
    OBVIOUS
  <2>2. \A l : [t EXCEPT ![l] = e] \in V
    OBVIOUS
  <2> HIDE DEF V
  <2> QED
    BY <2>1, <2>2
<1>2. PICK F : Steps(F, n, V, first, step)
  <2>1. first \in V
    OBVIOUS
  <2> HIDE DEF step, V
  <2> QED
    BY <1>1, <2>1, StepByStep
<1>3. F \in [0..n -> V] /\ F[0] = first /\ \A i \in 1..n : F[i] = step[<<i, F[i - 1]>>]
  BY <1>2 DEF Steps
<1>4. ASSUME NEW i \in 1..n PROVE F[i] = [F[i - 1] EXCEPT ![FreeSlot(F[i - 1], h[i])] = entry[i]]
  <2>1. i - 1 \in 0..n
    OBVIOUS
  <2>2. <<i, F[i - 1]>> \in (1..n) \X V
    BY <1>3, <2>1
  <2> HIDE DEF V
  <2> QED
    BY <1>3, <2>2
<1>5. F = [i \in 0..n |-> F[i]]
  BY <1>3
<1> QED
  BY <1>3, <1>4, <1>5 DEF Fills

\* The table it ends with holds all entries.
LEMMA FilledTable ==
  ASSUME NEW n \in Nat, NEW S \in Nat \ {0}, n < S, NEW E, \A e \in E : e.occupied \in BOOLEAN,
         NEW first \in [0..(S - 1) -> E], \A j \in 0..(S - 1) : ~first[j].occupied,
         NEW h \in [1..n -> Nat], NEW entry \in [1..n -> E], \A i \in 1..n : entry[i].occupied,
         NEW F, Fills(F, n, first, h, entry)
  PROVE  F[n] \in [0..(S - 1) -> E] /\ Holding(F[n], S, n, h, entry)
<1> DEFINE V == [0..(S - 1) -> E]
           Bad == {i \in Nat : i <= n /\ F[i] \notin V}
<1>1. Bad = {}
  <2> SUFFICES ASSUME Bad # {} PROVE FALSE
    OBVIOUS
  <2>1. PICK i \in Bad : \A y \in Bad : i <= y
    BY LeastNat
  <2>2. i \in Nat /\ i <= n /\ F[i] \notin V
    OBVIOUS
  <2>3. i # 0
    BY <2>2 DEF Fills
  <2>4. i - 1 \in Nat /\ i - 1 <= n /\ i \in 1..n /\ ~(i <= i - 1)
    <3> HIDE DEF V, Bad
    <3> QED
      BY <2>2, <2>3
  <2>5. F[i] = [F[i - 1] EXCEPT ![FreeSlot(F[i - 1], h[i])] = entry[i]]
    BY <2>4 DEF Fills
  <2>6. F[i - 1] \notin V
    <3>1. PICK e \in E : e = entry[i]
      BY <2>4
    <3>2. \A t \in V : \A l : [t EXCEPT ![l] = e] \in V
      OBVIOUS
    <3> HIDE DEF V, Bad
    <3> QED
      BY <2>2, <2>5, <3>1, <3>2
  <2>7. i - 1 \in Bad
    BY <2>4, <2>6
  <2> HIDE DEF Bad
  <2> QED
    BY <2>1, <2>4, <2>7
<1>2. \A i \in 0..n : F[i] \in V
  <2> SUFFICES ASSUME NEW i \in 0..n, F[i] \notin V PROVE FALSE
    OBVIOUS
  <2>1. i \in Nat /\ i <= n
    OBVIOUS
  <2>2. i \in Bad
    BY <2>1
  <2> QED
    BY <1>1, <2>2
<1>3. F \in [0..n -> V]
  <2>1. F = [i \in 0..n |-> F[i]]
    BY DEF Fills
  <2> HIDE DEF V
  <2> QED
    BY <1>2, <2>1
<1>4. n \in 0..n
  OBVIOUS
<1>5. \A j \in 0..(S - 1) : ~F[0][j].occupied
  BY DEF Fills
<1>6. \A i \in 1..n : F[i] = [F[i - 1] EXCEPT ![FreeSlot(F[i - 1], h[i])] = entry[i]]
  BY DEF Fills
<1>7. Holding(F[n], S, n, h, entry)
  BY <1>3, <1>5, <1>6, TableFilled
<1> QED
  BY <1>2, <1>4, <1>7

(***************************************************************************)
(* The table of int4 values.                                               *)
(***************************************************************************)

\* crc32_hash_build_int4 puts every value of its list into the table.
LEMMA Crc32Built ==
  ASSUME NEW Keys, 0 \in Keys, NEW vals \in Seq(Keys), RoomFor(Len(vals)), \A v \in Keys : Crc32(v) \in Nat
  PROVE  LET n == Len(vals)  S == SlotsFor(n)
             entry == [k \in 1..n |-> [occupied |-> TRUE, value |-> vals[k], hash |-> 0]]
         IN  /\ Crc32HashBuild(vals) \in [0..(S - 1) -> [occupied : BOOLEAN, value : Keys, hash : {0}]]
             /\ Holding(Crc32HashBuild(vals), S, n, [k \in 1..n |-> Crc32(vals[k])], entry)
<1> DEFINE n == Len(vals)
           S == SlotsFor(n)
           E == [occupied : BOOLEAN, value : Keys, hash : {0}]
           first == [j \in 0..(S - 1) |-> EmptySlot]
           h == [k \in 1..n |-> Crc32(vals[k])]
           entry == [k \in 1..n |-> [occupied |-> TRUE, value |-> vals[k], hash |-> 0]]
           Table == CHOOSE g : g = [i \in 0..n |-> IF i = 0 THEN first ELSE Crc32Insert(g[i - 1], vals[i])]
<1>1. n \in Nat /\ S \in Nat \ {0} /\ n < S /\ \A k \in 1..n : vals[k] \in Keys
  BY DEF RoomFor
<1>2. first \in [0..(S - 1) -> E] /\ \A j \in 0..(S - 1) : ~first[j].occupied
  BY DEF EmptySlot
<1>3. /\ h \in [1..n -> Nat] /\ entry \in [1..n -> E]
      /\ \A k \in 1..n : entry[k].occupied
      /\ \A e \in E : e.occupied \in BOOLEAN
  BY <1>1
<1>4. \A k \in 1..n : \A t : Crc32Insert(t, vals[k]) = [t EXCEPT ![FreeSlot(t, h[k])] = entry[k]]
  BY DEF Crc32Insert
<1>5. Crc32HashBuild(vals) = Table[n]
  BY DEF Crc32HashBuild
<1> HIDE DEF first, h, entry, E, n, S
<1>6. PICK F : Fills(F, n, first, h, entry)
  BY <1>1, <1>2, <1>3, FillingExists
<1>7. F = [i \in 0..n |-> IF i = 0 THEN first ELSE Crc32Insert(F[i - 1], vals[i])]
  <2>1. \A i \in 0..n : F[i] = IF i = 0 THEN first ELSE Crc32Insert(F[i - 1], vals[i])
    <3> TAKE i \in 0..n
    <3>1. i # 0 => i \in 1..n
      BY <1>1
    <3> QED
      BY <1>4, <1>6, <3>1 DEF Fills
  <2>2. F = [i \in 0..n |-> F[i]]
    BY <1>6 DEF Fills
  <2> QED
    BY <2>1, <2>2, Zenon
<1>8. Table = [i \in 0..n |-> IF i = 0 THEN first ELSE Crc32Insert(Table[i - 1], vals[i])]
  BY <1>7
<1> HIDE DEF Table
<1>9. Fills(Table, n, first, h, entry)
  <2>1. \A i \in 0..n : Table[i] = IF i = 0 THEN first ELSE Crc32Insert(Table[i - 1], vals[i])
    BY <1>8, Zenon
  <2>2. 0 \in 0..n /\ \A i \in 1..n : i \in 0..n /\ i # 0
    BY <1>1
  <2>3. Table = [i \in 0..n |-> Table[i]]
    BY <1>8, Zenon
  <2>4. \A i \in 1..n : Table[i] = [Table[i - 1] EXCEPT ![FreeSlot(Table[i - 1], h[i])] = entry[i]]
    BY <1>4, <2>1, <2>2
  <2> QED
    BY <2>1, <2>2, <2>3, <2>4 DEF Fills
<1>10. Table[n] \in [0..(S - 1) -> E] /\ Holding(Table[n], S, n, h, entry)
  BY <1>1, <1>2, <1>3, <1>9, FilledTable
<1> QED
  BY <1>5, <1>10 DEF h, entry, E, n, S

\* The probe of a table of int4 values finds those that were put into it.
LEMMA Crc32Probe ==
  ASSUME NEW Keys, 0 \in Keys, NEW vals \in Seq(Keys), RoomFor(Len(vals)), \A v \in Keys : Crc32(v) \in Nat,
         NEW x \in Keys
  PROVE  Crc32HashProbe(Crc32HashBuild(vals), x) <=> x \in {vals[k] : k \in 1..Len(vals)}
<1> DEFINE n == Len(vals)
           S == SlotsFor(n)
           E == [occupied : BOOLEAN, value : Keys, hash : {0}]
           h == [k \in 1..n |-> Crc32(vals[k])]
           entry == [k \in 1..n |-> [occupied |-> TRUE, value |-> vals[k], hash |-> 0]]
           t == Crc32HashBuild(vals)
           hx == Crc32(x)
           same == {e \in E : e.value = x}
           D(d) == Ends(t, S, hx, same, d)
           d0 == CHOOSE d \in 0..(S - 1) :
                   /\ ~t[(hx + d) % S].occupied \/ t[(hx + d) % S].value = x
                   /\ \A e \in 0..(d - 1) : t[(hx + e) % S].occupied /\ t[(hx + e) % S].value # x
<1>1. n \in Nat /\ S \in Nat \ {0} /\ n < S /\ hx \in Nat /\ \A k \in 1..n : vals[k] \in Keys
  BY DEF RoomFor
<1>2. t \in [0..(S - 1) -> E] /\ Holding(t, S, n, h, entry)
  BY Crc32Built
<1>3. \A k \in 1..n : (entry[k] \in same <=> vals[k] = x) /\ (entry[k] \in same => h[k] = hx)
  BY <1>1
<1>4. \A e \in E : e.occupied \in BOOLEAN
  OBVIOUS
<1>5. \A e \in E : e \in same <=> e.value = x
  OBVIOUS
<1>6. Crc32HashProbe(t, x) = t[(hx + d0) % S].occupied
  <2>1. Cardinality(DOMAIN t) = S
    BY <1>1, <1>2, TableSize
  <2> HIDE DEF t, S
  <2> QED
    BY <2>1 DEF Crc32HashProbe
<1> HIDE DEF E, h, entry, n, S, t, hx, same
<1>7. /\ \E d \in 0..(S - 1) : Ends(t, S, hx, same, d)
      /\ \A d \in 0..(S - 1) : Ends(t, S, hx, same, d) =>
            (t[(hx + d) % S].occupied <=> \E k \in 1..n : entry[k] \in same)
  <2>1. Decided(t, S, n, entry, hx, same)
    BY <1>1, <1>2, <1>3, <1>4, ProbeDecides
  <2> QED
    BY <2>1 DEF Decided
<1>8. \A d \in 0..(S - 1) : Ends(t, S, hx, same, d) <=>
                   /\ ~t[(hx + d) % S].occupied \/ t[(hx + d) % S].value = x
                   /\ \A e \in 0..(d - 1) : t[(hx + e) % S].occupied /\ t[(hx + e) % S].value # x
  <2>1. \A e \in 0..(S - 1) : t[(hx + e) % S] \in E
    <3> TAKE e \in 0..(S - 1)
    <3>1. hx + e \in Nat
      BY <1>1
    <3>2. (hx + e) % S \in 0..(S - 1)
      BY <1>1, <3>1, Remainder
    <3> QED
      BY <1>2, <3>2
  <2>2. \A e \in 0..(S - 1) : t[(hx + e) % S] \in same <=> t[(hx + e) % S].value = x
    BY <1>5, <2>1
  <2>3. \A d \in 0..(S - 1) : \A e \in 0..(d - 1) : e \in 0..(S - 1)
    BY <1>1
  <2> QED
    BY <2>2, <2>3 DEF Ends
<1>9. d0 \in 0..(S - 1) /\ Ends(t, S, hx, same, d0)
  BY <1>7, <1>8
<1> HIDE DEF d0
<1>10. t[(hx + d0) % S].occupied <=> \E k \in 1..n : entry[k] \in same
  BY <1>7, <1>9
<1>11. (\E k \in 1..n : entry[k] \in same) <=> \E k \in 1..n : vals[k] = x
  BY <1>3
<1> QED
  BY <1>6, <1>10, <1>11 DEF t, n

(***************************************************************************)
(* The table of texts.                                                     *)
(***************************************************************************)

\* text_hash_build puts the bytes and the hash of every text into
\* it.
LEMMA TextBuilt ==
  ASSUME NEW Bodies, \A b \in Bodies : TextHash(b) \in Nat,
         NEW texts, NEW n \in Nat, n = Len(texts), RoomFor(n), \A k \in 1..n : Body(texts[k]) \in Bodies
  PROVE  LET S == SlotsFor(n)
             h == [k \in 1..n |-> TextHybridHash(Body(texts[k]))]
             entry == [k \in 1..n |-> [occupied |-> TRUE, value |-> Body(texts[k]), hash |-> TextHybridHash(Body(texts[k]))]]
         IN  /\ TextHashBuild(texts) \in [0..(S - 1) -> [occupied : BOOLEAN, value : Bodies \cup {0}, hash : Nat]]
             /\ Holding(TextHashBuild(texts), S, n, h, entry)
<1> DEFINE S == SlotsFor(n)
           E == [occupied : BOOLEAN, value : Bodies \cup {0}, hash : Nat]
           first == [j \in 0..(S - 1) |-> EmptySlot]
           h == [k \in 1..n |-> TextHybridHash(Body(texts[k]))]
           entry == [k \in 1..n |-> [occupied |-> TRUE, value |-> Body(texts[k]), hash |-> TextHybridHash(Body(texts[k]))]]
           Table == CHOOSE g : g = [i \in 0..n |-> IF i = 0 THEN first ELSE TextInsert(g[i - 1], TextOf[texts[i]].body)]
<1>1. /\ S \in Nat \ {0} /\ n < S
      /\ \A k \in 1..n : TextHybridHash(Body(texts[k])) \in Nat
  BY DEF RoomFor, TextHybridHash
<1>2. first \in [0..(S - 1) -> E] /\ \A j \in 0..(S - 1) : ~first[j].occupied
  BY DEF EmptySlot
<1>3. /\ h \in [1..n -> Nat] /\ entry \in [1..n -> E]
      /\ \A k \in 1..n : entry[k].occupied
      /\ \A e \in E : e.occupied \in BOOLEAN
  BY <1>1
<1>4. \A k \in 1..n : \A t : TextInsert(t, TextOf[texts[k]].body) = [t EXCEPT ![FreeSlot(t, h[k])] = entry[k]]
  BY DEF TextInsert, Body
<1>5. TextHashBuild(texts) = Table[n]
  BY DEF TextHashBuild
<1> HIDE DEF first, h, entry, E, S
<1>6. PICK F : Fills(F, n, first, h, entry)
  BY <1>1, <1>2, <1>3, FillingExists
<1>7. F = [i \in 0..n |-> IF i = 0 THEN first ELSE TextInsert(F[i - 1], TextOf[texts[i]].body)]
  <2>1. \A i \in 0..n : F[i] = IF i = 0 THEN first ELSE TextInsert(F[i - 1], TextOf[texts[i]].body)
    <3> TAKE i \in 0..n
    <3>1. i # 0 => i \in 1..n
      BY <1>1
    <3> QED
      BY <1>4, <1>6, <3>1 DEF Fills
  <2>2. F = [i \in 0..n |-> F[i]]
    BY <1>6 DEF Fills
  <2> QED
    BY <2>1, <2>2, Zenon
<1>8. Table = [i \in 0..n |-> IF i = 0 THEN first ELSE TextInsert(Table[i - 1], TextOf[texts[i]].body)]
  BY <1>7
<1> HIDE DEF Table
<1>9. Fills(Table, n, first, h, entry)
  <2>1. \A i \in 0..n : Table[i] = IF i = 0 THEN first ELSE TextInsert(Table[i - 1], TextOf[texts[i]].body)
    BY <1>8, Zenon
  <2>2. 0 \in 0..n /\ \A i \in 1..n : i \in 0..n /\ i # 0
    BY <1>1
  <2>3. Table = [i \in 0..n |-> Table[i]]
    BY <1>8, Zenon
  <2>4. \A i \in 1..n : Table[i] = [Table[i - 1] EXCEPT ![FreeSlot(Table[i - 1], h[i])] = entry[i]]
    BY <1>4, <2>1, <2>2
  <2> QED
    BY <2>1, <2>2, <2>3, <2>4 DEF Fills
<1>10. Table[n] \in [0..(S - 1) -> E] /\ Holding(Table[n], S, n, h, entry)
  BY <1>1, <1>2, <1>3, <1>9, FilledTable
<1> QED
  BY <1>5, <1>10 DEF h, entry, E, S

\* The probe of the text table finds the texts that were put into it: equal
\* bytes, whatever texts share a hash.
LEMMA TextProbe ==
  ASSUME NEW Bodies, \A b \in Bodies : TextHash(b) \in Nat,
         NEW texts, NEW n \in Nat, n = Len(texts), RoomFor(n), \A k \in 1..n : Body(texts[k]) \in Bodies,
         NEW x, Body(x) \in Bodies
  PROVE  TextHashProbe(TextHashBuild(texts), x) <=> Body(x) \in {Body(texts[k]) : k \in 1..n}
<1> DEFINE S == SlotsFor(n)
           E == [occupied : BOOLEAN, value : Bodies \cup {0}, hash : Nat]
           h == [k \in 1..n |-> TextHybridHash(Body(texts[k]))]
           entry == [k \in 1..n |-> [occupied |-> TRUE, value |-> Body(texts[k]), hash |-> TextHybridHash(Body(texts[k]))]]
           t == TextHashBuild(texts)
           body == TextOf[x].body
           hx == TextHybridHash(body)
           Same(e) == e.hash = hx /\ Len(e.value) = Len(body) /\ e.value = body
           same == {e \in E : Same(e)}
           d0 == CHOOSE d \in 0..(S - 1) :
                   /\ ~t[(hx + d) % S].occupied \/ Same(t[(hx + d) % S])
                   /\ \A e \in 0..(d - 1) : t[(hx + e) % S].occupied /\ ~Same(t[(hx + e) % S])
<1>1. /\ S \in Nat \ {0} /\ n < S /\ hx \in Nat
      /\ \A k \in 1..n : TextHybridHash(Body(texts[k])) \in Nat
  BY DEF RoomFor, TextHybridHash, Body
<1>2. t \in [0..(S - 1) -> E] /\ Holding(t, S, n, h, entry)
  BY TextBuilt
<1>3. \A k \in 1..n : (entry[k] \in same <=> Body(texts[k]) = body) /\ (entry[k] \in same => h[k] = hx)
  BY <1>1
<1>4. \A e \in E : e.occupied \in BOOLEAN
  OBVIOUS
<1>5. \A e \in E : e \in same <=> Same(e)
  OBVIOUS
<1>6. TextHashProbe(t, x) = t[(hx + d0) % S].occupied
  <2>1. Cardinality(DOMAIN t) = S
    BY <1>1, <1>2, TableSize
  <2> HIDE DEF t, S
  <2> QED
    BY <2>1 DEF TextHashProbe
<1> HIDE DEF E, h, entry, S, t, hx, same, Same
<1>7. /\ \E d \in 0..(S - 1) : Ends(t, S, hx, same, d)
      /\ \A d \in 0..(S - 1) : Ends(t, S, hx, same, d) =>
            (t[(hx + d) % S].occupied <=> \E k \in 1..n : entry[k] \in same)
  <2>1. \A k \in 1..n : entry[k] \in same => h[k] = hx
    BY <1>3
  <2>2. n \in Nat /\ S \in Nat \ {0} /\ n < S /\ hx \in Nat
    BY <1>1
  <2>3. t \in [0..(S - 1) -> E] /\ Holding(t, S, n, h, entry)
    BY <1>2
  <2>4. Decided(t, S, n, entry, hx, same)
    BY <2>1, <2>2, <2>3, <1>4, ProbeDecides
  <2> QED
    BY <2>4 DEF Decided
<1>8. \A d \in 0..(S - 1) : Ends(t, S, hx, same, d) <=>
                   /\ ~t[(hx + d) % S].occupied \/ Same(t[(hx + d) % S])
                   /\ \A e \in 0..(d - 1) : t[(hx + e) % S].occupied /\ ~Same(t[(hx + e) % S])
  <2>1. \A e \in 0..(S - 1) : t[(hx + e) % S] \in E
    <3> TAKE e \in 0..(S - 1)
    <3>1. hx + e \in Nat
      BY <1>1
    <3>2. (hx + e) % S \in 0..(S - 1)
      BY <1>1, <3>1, Remainder
    <3> QED
      BY <1>2, <3>2
  <2>2. \A e \in 0..(S - 1) : t[(hx + e) % S] \in same <=> Same(t[(hx + e) % S])
    BY <1>5, <2>1
  <2>3. \A d \in 0..(S - 1) : \A e \in 0..(d - 1) : e \in 0..(S - 1)
    BY <1>1
  <2> QED
    BY <2>2, <2>3 DEF Ends
<1>9. d0 \in 0..(S - 1) /\ Ends(t, S, hx, same, d0)
  BY <1>7, <1>8
<1> HIDE DEF d0
<1>10. t[(hx + d0) % S].occupied <=> \E k \in 1..n : entry[k] \in same
  BY <1>7, <1>9
<1>11. (\E k \in 1..n : entry[k] \in same) <=> \E k \in 1..n : Body(texts[k]) = body
  BY <1>3
<1> QED
  BY <1>6, <1>10, <1>11 DEF t, Body

\* Both backends store a found value, NULL or FALSE, as the lookup of the
\* executor does: NULL scalars, lists with a NULL and NOT IN included.
LEMMA StoredAlike ==
  ASSUME NEW m, NEW op, NEW found, m.nul[op.args[1]] \in BOOLEAN,
         ~m.nul[op.args[1]] => (found <=> IsInList(op, m.val[op.args[1]]))
  PROVE  /\ SljitStoreFound(m, op, found) = InterpHashedSaop(m, op)
         /\ MirStoreFound(m, op, found) = InterpHashedSaop(m, op)
<1> DEFINE x == m.val[op.args[1]]
           Stored(b) == IF m.nul[op.args[1]] THEN Skip(SetRes(m, op.res, 0, TRUE))
                        ELSE IF b THEN Skip(SetRes(m, op.res, BoolDatum(op.inclause), FALSE))
                        ELSE IF ListHasNulls(op.array) THEN Skip(SetRes(m, op.res, 0, TRUE))
                        ELSE Skip(SetRes(m, op.res, BoolDatum(~op.inclause), FALSE))
<1>1. InterpHashedSaop(m, op) = Stored(IsInList(op, x))
  BY DEF InterpHashedSaop, InList, IsInList, Res, NullResult, Truth, Ok, BoolDatum
<1>2. SljitStoreFound(m, op, found) = Stored(found) /\ MirStoreFound(m, op, found) = Stored(found)
  BY DEF SljitStoreFound, MirStoreFound
<1>3. Stored(found) = Stored(IsInList(op, x))
  <2>1. CASE m.nul[op.args[1]]
    BY <2>1
  <2>2. CASE ~m.nul[op.args[1]]
    <3>1. found <=> IsInList(op, x)
      BY <2>2
    <3> HIDE DEF x
    <3> QED
      BY <3>1
  <2> QED
    BY <2>1, <2>2
<1> QED
  BY <1>1, <1>2, <1>3

\* A tree of comparisons answers as the hashed lookup of the executor does, in
\* both backends, for every list and every scalar.
THEOREM TreeSearchAgrees ==
  ASSUME NEW m, NEW op, m.nul[op.args[1]] \in BOOLEAN, op.ty # "text", ListOf(op.plan.list, op),
         ~m.nul[op.args[1]] => m.val[op.args[1]] \in Int
  PROVE  /\ SljitTreeSearch(m, op) = InterpHashedSaop(m, op)
         /\ MirTreeSearch(m, op) = InterpHashedSaop(m, op)
<1> DEFINE x == m.val[op.args[1]]
           vals == op.plan.list
<1>1. ASSUME ~m.nul[op.args[1]]
      PROVE  (SljitInTree(vals, x) <=> IsInList(op, x)) /\ (MirInTree(vals, x) <=> IsInList(op, x))
  <2>1. vals \in Seq(Int) /\ Ascending(vals) /\ x \in Int
    BY <1>1 DEF ListOf, NonNulls
  <2> HIDE DEF vals, x
  <2>2. (SljitInTree(vals, x) <=> \E k \in 1..Len(vals) : vals[k] = x) /\
        (MirInTree(vals, x) <=> \E k \in 1..Len(vals) : vals[k] = x)
    BY <2>1, SljitTree, MirTree
  <2>3. (\E k \in 1..Len(vals) : vals[k] = x) <=> IsInList(op, x)
    BY <2>1, TreeIsInList DEF IsInList, vals
  <2> QED
    BY <2>2, <2>3
<1>2. /\ SljitTreeSearch(m, op) = SljitStoreFound(m, op, SljitInTree(vals, x))
      /\ MirTreeSearch(m, op) = MirStoreFound(m, op, MirInTree(vals, x))
  BY DEF SljitTreeSearch, MirTreeSearch
<1> HIDE DEF x, vals
<1> QED
  BY <1>1, <1>2, StoredAlike DEF x

\* The 32 bits of the values of a list.
Narrow(vals) == [i \in DOMAIN vals |-> Wrap(Bits4, vals[i])]

\* A function on 1..n is a sequence of length n.
LEMMA MappedSequence ==
  ASSUME NEW V, NEW n \in Nat, NEW f \in [1..n -> V]
  PROVE  f \in Seq(V) /\ Len(f) = n
OBVIOUS

\* The CRC32 table of an int4 or date list answers as the hashed lookup of the
\* executor does, for every list that leaves a slot of the table free and
\* whatever the hash function.
THEOREM Crc32SearchAgrees ==
  ASSUME NEW m, NEW op, m.nul[op.args[1]] \in BOOLEAN, op.ty # "text",
         NEW vals, ListOf(vals, op), op.plan.list = Crc32HashBuild(Narrow(vals)), RoomFor(Len(vals)),
         Crc32(0) \in Nat, \A y \in Int : Crc32(Wrap(Bits4, y)) \in Nat,
         ~m.nul[op.args[1]] => KeptIn32Bits(vals, m.val[op.args[1]])
  PROVE  SljitCrc32Search(m, op) = InterpHashedSaop(m, op)
<1> DEFINE x == m.val[op.args[1]]
           Keys == {Wrap(Bits4, y) : y \in Int} \cup {0}
           found == Crc32HashProbe(op.plan.list, Wrap(Bits4, x))
<1>1. vals \in Seq(Int)
  BY DEF ListOf, NonNulls
<1>2. Narrow(vals) \in Seq(Keys) /\ Len(Narrow(vals)) = Len(vals)
      /\ \A k \in 1..Len(vals) : Narrow(vals)[k] = Wrap(Bits4, vals[k])
  <2>0. PICK W \in [Int -> Keys] : \A y \in Int : W[y] = Wrap(Bits4, y)
    <3> DEFINE W == [y \in Int |-> Wrap(Bits4, y)]
    <3>1. W \in [Int -> Keys]
      OBVIOUS
    <3> QED
      BY <3>1
  <2>1. Narrow(vals) = [i \in 1..Len(vals) |-> W[vals[i]]]
    BY <1>1, <2>0 DEF Narrow
  <2> HIDE DEF Keys
  <2>2. [i \in 1..Len(vals) |-> W[vals[i]]] \in [1..Len(vals) -> Keys]
    <3>1. \A i \in 1..Len(vals) : W[vals[i]] \in Keys
      <4>1. \A i \in 1..Len(vals) : vals[i] \in Int
        BY <1>1
      <4> QED
        BY <2>0, <4>1
    <3> QED
      BY <3>1
  <2>3. Narrow(vals) \in [1..Len(vals) -> Keys] /\ Len(vals) \in Nat
    BY <1>1, <2>1, <2>2
  <2>4. Narrow(vals) \in Seq(Keys) /\ Len(Narrow(vals)) = Len(vals)
    BY <2>3, MappedSequence
  <2>5. \A k \in 1..Len(vals) : Narrow(vals)[k] = Wrap(Bits4, vals[k])
    <3>1. DOMAIN vals = 1..Len(vals)
      BY <1>1
    <3> QED
      BY <3>1 DEF Narrow
  <2> QED
    BY <2>4, <2>5
<1>3. \A v \in Keys : Crc32(v) \in Nat
  OBVIOUS
<1>4. ASSUME ~m.nul[op.args[1]]
      PROVE  found <=> IsInList(op, x)
  <2>1. x \in Int /\ Wrap(Bits4, x) \in Keys /\ 0 \in Keys
    BY <1>4 DEF KeptIn32Bits
  <2>2. found <=> \E k \in 1..Len(vals) : Narrow(vals)[k] = Wrap(Bits4, x)
    <3> DEFINE wx == Wrap(Bits4, x)
               nv == Narrow(vals)
    <3> HIDE DEF Keys, wx, nv
    <3>1. Crc32HashProbe(Crc32HashBuild(nv), wx) <=> wx \in {nv[k] : k \in 1..Len(nv)}
      <4>1. nv \in Seq(Keys) /\ RoomFor(Len(nv)) /\ wx \in Keys /\ 0 \in Keys
        BY <1>2, <2>1 DEF nv, wx
      <4> QED
        BY <1>3, <4>1, Crc32Probe
    <3> QED
      BY <1>2, <3>1 DEF nv, wx
  <2>3. (\E k \in 1..Len(vals) : Narrow(vals)[k] = Wrap(Bits4, x)) <=> \E k \in 1..Len(vals) : vals[k] = x
    BY <1>2, <1>4 DEF KeptIn32Bits
  <2>4. (\E k \in 1..Len(vals) : vals[k] = x) <=> IsInList(op, x)
    BY <2>1, TreeIsInList DEF IsInList
  <2> HIDE DEF found, x
  <2> QED
    BY <2>2, <2>3, <2>4
<1>5. SljitCrc32Search(m, op) = SljitStoreFound(m, op, found)
  BY DEF SljitCrc32Search
<1> HIDE DEF found, x
<1> QED
  BY <1>4, <1>5, StoredAlike DEF x

\* The table of texts answers as the hashed lookup of the executor does, in
\* both backends.
THEOREM TextSearchAgrees ==
  ASSUME NEW m, NEW op, m.nul[op.args[1]] \in BOOLEAN, op.ty = "text",
         NEW texts, NEW n, TextsOf(texts, n, op), op.plan.list = TextHashBuild(texts), RoomFor(n),
         \A k \in 1..n : TextHash(Body(texts[k])) \in Nat,
         ~m.nul[op.args[1]] => TextHash(Body(m.val[op.args[1]])) \in Nat
  PROVE  /\ SljitTextSearch(m, op) = InterpHashedSaop(m, op)
         /\ MirTextSearch(m, op) = InterpHashedSaop(m, op)
<1> DEFINE x == m.val[op.args[1]]
           Bodies == {Body(texts[k]) : k \in 1..n} \cup {Body(x)}
           probe == TextHashProbe(op.plan.list, x)
           found == ~m.nul[op.args[1]] /\ probe
<1>1. ~m.nul[op.args[1]] => \A b \in Bodies : TextHash(b) \in Nat
  OBVIOUS
<1>2. ASSUME ~m.nul[op.args[1]]
      PROVE  probe <=> \E k \in 1..n : Body(texts[k]) = Body(x)
  <2>1. n \in Nat /\ n = Len(texts)
    BY DEF TextsOf, NonNulls
  <2>2. Body(x) \in Bodies /\ \A k \in 1..n : Body(texts[k]) \in Bodies
    OBVIOUS
  <2> HIDE DEF Bodies, x
  <2>3. TextHashProbe(TextHashBuild(texts), x) <=> Body(x) \in {Body(texts[k]) : k \in 1..n}
    BY <1>1, <1>2, <2>1, <2>2, TextProbe
  <2> QED
    BY <2>3
<1>3. (\E k \in 1..n : Body(texts[k]) = Body(x)) <=> IsInList(op, x)
  <2>1. IsInList(op, x) <=> \E v \in {op.array[i].v : i \in {i \in DOMAIN op.array : ~op.array[i].n}} : Body(v) = Body(x)
    BY DEF IsInList, Equals, PgTextEq, Body
  <2>2. (\E k \in 1..n : Body(texts[k]) = Body(x)) <=> \E v \in {texts[k] : k \in 1..n} : Body(v) = Body(x)
    OBVIOUS
  <2> HIDE DEF x
  <2> QED
    BY <2>1, <2>2 DEF TextsOf, NonNulls
<1>4. SljitTextSearch(m, op) = SljitStoreFound(m, op, found) /\ MirTextSearch(m, op) = MirStoreFound(m, op, found)
  BY DEF SljitTextSearch, MirTextSearch
<1>5. ~m.nul[op.args[1]] => (found <=> IsInList(op, x))
  <2> HIDE DEF probe
  <2> QED
    BY <1>2, <1>3
<1> HIDE DEF found
<1> QED
  BY <1>4, <1>5, StoredAlike

\* L * q divided by L is q.
LEMMA Quotient ==
  ASSUME NEW L \in Nat \ {0}, NEW q \in Nat PROVE (L * q) \div L = q
<1>1. PICK p \in Nat : p = L * q
  OBVIOUS
<1>2. PICK d \in Nat : d = p \div L
  BY <1>1
<1>3. p = (L * d) + (p % L) /\ p % L \in 0..(L - 1)
  BY <1>2
<1>4. PICK e \in Int : e = q - d
  OBVIOUS
<1>5. L * e = p % L
  <2>1. L * e = (L * q) - (L * d)
    BY <1>4
  <2> QED
    BY <1>1, <1>3, <2>1
<1>6. e = 0
  <2>1. e >= 1 => L * e >= L
    OBVIOUS
  <2>2. e <= -1 => L * e < 0
    OBVIOUS
  <2>3. L * e < L /\ L * e >= 0
    BY <1>3, <1>5
  <2> QED
    BY <2>1, <2>2, <2>3
<1> QED
  BY <1>1, <1>2, <1>4, <1>6

\* The places of q registers of L values.
LEMMA PlaceInRegisters ==
  ASSUME NEW L \in Nat \ {0}, NEW q \in Nat, NEW c \in 0..(q - 1), NEW l \in 1..L
  PROVE  (c * L) + l \in 1..(L * q)
<1>1. PICK p \in Nat : p = c * L
  OBVIOUS
<1>2. PICK r \in Nat : r = q - (c + 1)
  OBVIOUS
<1>3. L * q = (p + L) + (L * r) /\ L * r >= 0
  BY <1>1, <1>2
<1>4. PICK s \in Nat : s = L * r
  OBVIOUS
<1> QED
  BY <1>1, <1>3, <1>4

\* Every place is in one of the registers.
LEMMA RegisterOf ==
  ASSUME NEW L \in Nat \ {0}, NEW q \in Nat, NEW i \in 1..(L * q)
  PROVE  \E c \in 0..(q - 1), l \in 1..L : i = (c * L) + l
<1>0. PICK w \in Nat : w = L * q
  OBVIOUS
<1>1. PICK c \in Nat : c = (i - 1) \div L
  OBVIOUS
<1>2. PICK l \in 0..(L - 1) : l = (i - 1) % L
  BY Remainder
<1>3. i - 1 = c * L + l
  BY <1>1, <1>2
<1>4. c < q
  <2> SUFFICES ASSUME c >= q PROVE FALSE
    OBVIOUS
  <2>1. PICK r \in Nat : r = c - q
    OBVIOUS
  <2>2. c * L = w + r * L
    BY <1>0, <2>1
  <2>3. r * L >= 0
    OBVIOUS
  <2> QED
    BY <1>0, <1>3, <2>2, <2>3
<1>5. c \in 0..(q - 1) /\ l + 1 \in 1..L
  BY <1>4
<1>6. i = c * L + (l + 1)
  BY <1>3
<1> QED
  BY <1>5, <1>6

\* A scan finds the values of the list, and the padding.
LEMMA ScanFinds ==
  ASSUME NEW n \in Nat, NEW size \in Nat, NEW q \in Nat, n <= size, size = Lanes * q,
         NEW padded, padded = [i \in 1..size |-> padded[i]], Len(padded) = size, NEW x
  PROVE  (\E c \in 0..((Len(padded) \div Lanes) - 1) : x \in {padded[(c * Lanes) + l] : l \in 1..Lanes}) <=>
         (\E k \in 1..n : padded[k] = x) \/ x \in Padding(padded, n)
<1>1. Lanes \in Nat \ {0}
  BY TableSizes
<1>2. Len(padded) \div Lanes = q
  BY <1>1, Quotient
<1>4. (\E c \in 0..(q - 1) : x \in {padded[(c * Lanes) + l] : l \in 1..Lanes}) <=> \E i \in 1..size : padded[i] = x
  <2>1. ASSUME NEW c \in 0..(q - 1), NEW l \in 1..Lanes, x = padded[(c * Lanes) + l]
        PROVE  \E i \in 1..size : padded[i] = x
    <3>1. (c * Lanes) + l \in 1..size
      BY <1>1, PlaceInRegisters
    <3> QED
      BY <2>1, <3>1
  <2>2. ASSUME NEW i \in 1..size, padded[i] = x
        PROVE  \E c \in 0..(q - 1) : x \in {padded[(c * Lanes) + l] : l \in 1..Lanes}
    <3>1. PICK c \in 0..(q - 1), l \in 1..Lanes : i = (c * Lanes) + l
      BY <1>1, RegisterOf
    <3>2. x = padded[(c * Lanes) + l]
      BY <2>2, <3>1
    <3> QED
      BY <3>2
  <2> QED
    BY <2>1, <2>2
<1>5. \A i : i \in 1..size <=> i \in 1..n \/ i \in (n + 1)..size
  OBVIOUS
<1>6. (\E i \in 1..size : padded[i] = x) <=> (\E k \in 1..n : padded[k] = x) \/ x \in Padding(padded, n)
  BY <1>5 DEF Padding
<1> QED
  BY <1>2, <1>4, <1>6

\* Rounding up to whole registers leaves room for every value.
LEMMA WholeRegisters ==
  ASSUME NEW L \in Nat \ {0}, NEW n \in Nat
  PROVE  /\ (n + L - 1) \div L \in Nat
         /\ L * ((n + L - 1) \div L) \in Nat
         /\ n <= L * ((n + L - 1) \div L)
<1>1. PICK s \in Nat : s = n + L - 1
  OBVIOUS
<1>2. PICK d \in Nat : d = s \div L
  OBVIOUS
<1>3. s = (L * d) + (s % L) /\ s % L \in 0..(L - 1)
  BY <1>2
<1>4. PICK w \in Nat : w = L * d
  OBVIOUS
<1> QED
  BY <1>1, <1>2, <1>3, <1>4

\* The padded list begins with the 32 bits of the values.
LEMMA PaddedList ==
  ASSUME NEW vals \in Seq(Int)
  PROVE  \E q \in Nat :
           /\ SljitPad(vals) = [i \in 1..(Lanes * q) |-> SljitPad(vals)[i]]
           /\ Len(SljitPad(vals)) = Lanes * q /\ Len(vals) <= Lanes * q
           /\ \A k \in 1..Len(vals) : SljitPad(vals)[k] = Wrap(Bits4, vals[k])
<1> DEFINE n == Len(vals)
           q == (n + Lanes - 1) \div Lanes
           size == Lanes * q
<1>1. Lanes \in Nat \ {0} /\ n \in Nat
  BY TableSizes
<1>2. q \in Nat /\ size \in Nat /\ n <= size
  <2> HIDE DEF n
  <2> QED
    BY <1>1, WholeRegisters
<1>3. PICK f : SljitPad(vals) = [i \in 1..size |-> IF i <= n THEN Wrap(Bits4, vals[i]) ELSE f]
  <2> DEFINE candidate(k) == Wrap(Bits4, vals[1] + 2^(Bits4 - 1) + k * PadStep)
             absent(k) == \A i \in DOMAIN vals : Wrap(Bits4, vals[i]) # candidate(k)
             first == CHOOSE k \in 0..Len(vals) : absent(k) /\ \A l \in 0..(k - 1) : ~absent(l)
  <2>1. SljitPad(vals) = [i \in 1..size |-> IF i <= n THEN Wrap(Bits4, vals[i]) ELSE candidate(first)]
    BY DEF SljitPad
  <2> HIDE DEF candidate, first
  <2> QED
    BY <2>1
<1> HIDE DEF q
<1>4. Len(SljitPad(vals)) = size
  <2> PICK P : P = SljitPad(vals)
    OBVIOUS
  <2> DEFINE V == {P[i] : i \in 1..size}
  <2>1. P \in [1..size -> V]
    <3>1. P = [i \in 1..size |-> P[i]]
      BY <1>3
    <3>2. \A i \in 1..size : P[i] \in V
      OBVIOUS
    <3> HIDE DEF V
    <3> QED
      BY <3>1, <3>2
  <2> HIDE DEF V
  <2> QED
    BY <1>2, <2>1, MappedSequence
<1>5. SljitPad(vals) = [i \in 1..size |-> SljitPad(vals)[i]] /\ \A k \in 1..n : SljitPad(vals)[k] = Wrap(Bits4, vals[k])
  BY <1>2, <1>3
<1> QED
  BY <1>2, <1>4, <1>5

\* The scan of an int4 list in registers answers as the hashed lookup of the
\* executor does, unless the 32 bits of the scalar are those of the padding.
THEOREM ScanAgrees ==
  ASSUME NEW m, NEW op, m.nul[op.args[1]] \in BOOLEAN, op.ty # "text",
         NEW vals, ListOf(vals, op), op.plan.list = SljitPad(vals),
         ~m.nul[op.args[1]] => /\ KeptIn32Bits(vals, m.val[op.args[1]])
                               /\ Wrap(Bits4, m.val[op.args[1]]) \notin Padding(SljitPad(vals), Len(vals))
  PROVE  SljitSimdScan(m, op) = InterpHashedSaop(m, op)
<1> DEFINE x == m.val[op.args[1]]
           wx == Wrap(Bits4, x)
           padded == SljitPad(vals)
           found == \E c \in 0..(Len(padded) \div Lanes - 1) : wx \in {padded[c * Lanes + l] : l \in 1..Lanes}
<1>1. vals \in Seq(Int) /\ Len(vals) \in Nat
  BY DEF ListOf, NonNulls
<1>2. ASSUME ~m.nul[op.args[1]] PROVE found <=> IsInList(op, x)
  <2>1. PICK q \in Nat :
          /\ padded = [i \in 1..(Lanes * q) |-> padded[i]]
          /\ Len(padded) = Lanes * q /\ Len(vals) <= Lanes * q
          /\ \A k \in 1..Len(vals) : padded[k] = Wrap(Bits4, vals[k])
    BY <1>1, PaddedList
  <2> HIDE DEF padded, wx
  <2>2. found <=> (\E k \in 1..Len(vals) : padded[k] = wx) \/ wx \in Padding(padded, Len(vals))
    <3>1. PICK size \in Nat : size = Lanes * q
      BY TableSizes
    <3> QED
      BY <1>1, <2>1, <3>1, ScanFinds
  <2>3. wx \notin Padding(padded, Len(vals))
    BY <1>2 DEF padded, wx
  <2>4. (\E k \in 1..Len(vals) : padded[k] = wx) <=> \E k \in 1..Len(vals) : vals[k] = x
    BY <1>2, <2>1 DEF wx, KeptIn32Bits
  <2>5. (\E k \in 1..Len(vals) : vals[k] = x) <=> IsInList(op, x)
    <3>1. x \in Int
      BY <1>2 DEF KeptIn32Bits
    <3> QED
      BY <3>1, TreeIsInList DEF IsInList
  <2> HIDE DEF found, x
  <2> QED
    BY <2>2, <2>3, <2>4, <2>5
<1>3. SljitSimdScan(m, op) = SljitStoreFound(m, op, found)
  BY DEF SljitSimdScan
<1> HIDE DEF found, x
<1> QED
  BY <1>2, <1>3, StoredAlike DEF x

\* Whichever search the sljit backend picks for a list, its answer is that of
\* the hashed lookup of the executor: of any list that is sorted when it is
\* extracted, for any scalar of its type.
THEOREM SljitInListAgrees ==
  ASSUME NEW m, NEW op, op.plan = SljitListPath(op), m.nul[op.args[1]] \in BOOLEAN,
         ListIsSorted(op), HashesAreNat(op), ScalarOfType(m, op), NotThePadding(m, op)
  PROVE  SljitHashedSaop(m, op) = InterpHashedSaop(m, op)
<1> DEFINE sorted == SortRawDatums(ListValues(op.array))
           hashes == ~op.shared /\ op.crc32 /\ op.ty \in Int32HashTypes
           vals == SljitExtractList(op, IF hashes THEN Len(op.array) ELSE op.max)
<1>1. vals # <<>> => vals = sorted /\ op.ty \in RawDatumTypes
  BY DEF SljitExtractList
<1>2. op.ty \in RawDatumTypes => op.ty # "text"
  BY DEF RawDatumTypes
<1>3. \/ op.plan.path = "simd" /\ op.plan.list = SljitPad(vals) /\ vals # <<>> /\ op.ty \in Int32HashTypes
      \/ op.plan.path = "tree" /\ op.plan.list = vals /\ vals # <<>>
      \/ op.plan.path = "crc32" /\ op.plan.list = Crc32HashBuild(Narrow(vals)) /\ vals # <<>> /\ op.ty \in Int32HashTypes
      \/ op.plan.path = "text" /\ op.ty = "text" /\ op.plan.list = TextHashBuild(ListValues(op.array))
      \/ op.plan.path = "call"
  <2> DEFINE Plan(path, list) == [path |-> path, list |-> list]
  <2>1. /\ Narrow(vals) = [i \in DOMAIN vals |-> Wrap(Bits4, vals[i])]
        /\ TextHashBuildFromArray(op) # <<>> => TextHashBuildFromArray(op) = TextHashBuild(ListValues(op.array))
        /\ "int4" \in Int32HashTypes
    BY DEF Narrow, TextHashBuildFromArray, Int32HashTypes
  <2>2. op.plan = IF vals # <<>> /\ ~op.shared /\ Len(vals) <= op.simdmax /\ op.ty = "int4" THEN Plan("simd", SljitPad(vals))
      ELSE IF vals # <<>> /\ Len(vals) <= op.max THEN Plan("tree", vals)
      ELSE IF vals # <<>> /\ hashes THEN Plan("crc32", Crc32HashBuild([i \in DOMAIN vals |-> Wrap(Bits4, vals[i])]))
      ELSE IF op.ty = "text" /\ op.const /\ op.texthash /\ TextHashBuildFromArray(op) # <<>>
      THEN Plan("text", TextHashBuildFromArray(op))
      ELSE Plan("call", <<>>)
    BY DEF SljitListPath
  <2> HIDE DEF vals
  <2> QED
    BY <2>1, <2>2
<1> HIDE DEF vals, hashes
<1>4. CASE op.plan.path = "simd"
  <2>1. op.ty # "text" /\ ListOf(vals, op) /\ op.plan.list = SljitPad(vals) /\ vals = sorted /\ op.ty \in Int32HashTypes
    BY <1>1, <1>2, <1>3, <1>4 DEF ListIsSorted, Sorted
  <2>2. SljitSimdScan(m, op) = InterpHashedSaop(m, op)
    BY <1>1, <1>3, <1>4, <2>1, ScanAgrees DEF ScalarOfType, NotThePadding, Sorted
  <2> QED
    BY <1>4, <2>2 DEF SljitHashedSaop
<1>5. CASE op.plan.path = "tree"
  <2>1. op.ty # "text" /\ op.ty \in RawDatumTypes /\ ListOf(op.plan.list, op)
    BY <1>1, <1>2, <1>3, <1>5 DEF ListIsSorted, Sorted
  <2>2. SljitTreeSearch(m, op) = InterpHashedSaop(m, op)
    BY <2>1, TreeSearchAgrees DEF ScalarOfType, Sorted
  <2> QED
    BY <1>5, <2>2 DEF SljitHashedSaop
<1>6. CASE op.plan.path = "crc32"
  <2>1. /\ op.ty # "text" /\ ListOf(vals, op) /\ op.plan.list = Crc32HashBuild(Narrow(vals)) /\ vals = sorted
        /\ op.ty \in Int32HashTypes /\ RoomFor(Len(vals)) /\ op.ty \in RawDatumTypes
    BY <1>1, <1>2, <1>3, <1>6 DEF ListIsSorted, Sorted
  <2>2. Crc32(0) \in Nat /\ \A y \in Int : Crc32(Wrap(Bits4, y)) \in Nat
    BY DEF HashesAreNat
  <2>3. ~m.nul[op.args[1]] => KeptIn32Bits(vals, m.val[op.args[1]])
    BY <2>1 DEF ScalarOfType, Sorted
  <2>4. SljitCrc32Search(m, op) = InterpHashedSaop(m, op)
    BY <2>1, <2>2, <2>3, Crc32SearchAgrees
  <2> QED
    BY <1>6, <2>4 DEF SljitHashedSaop
<1>7. CASE op.plan.path = "text"
  <2>1. op.ty = "text" /\ op.plan.list = TextHashBuild(ListValues(op.array))
    BY <1>3, <1>7
  <2>2. TextsOf(ListValues(op.array), Len(ListValues(op.array)), op) /\ RoomFor(Len(ListValues(op.array)))
    BY <2>1 DEF ListIsSorted, Sorted
  <2>3. ASSUME NEW k \in 1..Len(ListValues(op.array)) PROVE TextHash(Body(ListValues(op.array)[k])) \in Nat
    <3>1. ListValues(op.array)[k] \in NonNulls(op)
      BY <2>2 DEF TextsOf
    <3> QED
      BY <2>1, <3>1 DEF HashesAreNat
  <2>4. ~m.nul[op.args[1]] => TextHash(Body(m.val[op.args[1]])) \in Nat
    BY <2>1 DEF ScalarOfType, Sorted
  <2>5. SljitTextSearch(m, op) = InterpHashedSaop(m, op)
    BY <2>1, <2>2, <2>3, <2>4, TextSearchAgrees
  <2> QED
    BY <1>7, <2>5 DEF SljitHashedSaop
<1>8. CASE op.plan.path = "call"
  BY <1>8 DEF SljitHashedSaop
<1> QED
  BY <1>3, <1>4, <1>5, <1>6, <1>7, <1>8

\* The same of the MIR backend and the searches it picks.
THEOREM MirInListAgrees ==
  ASSUME NEW m, NEW op, op.plan = MirListPath(op), m.nul[op.args[1]] \in BOOLEAN,
         ListIsSorted(op), HashesAreNat(op), ScalarOfType(m, op)
  PROVE  MirHashedSaop(m, op) = InterpHashedSaop(m, op)
<1> DEFINE vals == MirExtractList(op)
           texts == ListValues(op.array)
<1>1. vals # <<>> => vals = SortRawDatums(texts) /\ op.ty \in RawDatumTypes /\ op.ty # "text"
  BY DEF MirExtractList, RawDatumTypes
<1>2. \/ op.plan.path = "tree" /\ op.plan.list = vals /\ vals # <<>>
      \/ op.plan.path = "text" /\ op.ty = "text" /\ op.plan.list = TextHashBuild(texts)
      \/ op.plan.path = "call"
  <2>1. TextHashBuildFromArray(op) # <<>> => TextHashBuildFromArray(op) = TextHashBuild(texts)
    BY DEF TextHashBuildFromArray
  <2> HIDE DEF texts
  <2> QED
    BY <2>1 DEF MirListPath
<1> HIDE DEF vals
<1>3. CASE op.plan.path = "tree"
  <2>1. op.ty # "text" /\ op.ty \in RawDatumTypes /\ ListOf(op.plan.list, op)
    BY <1>1, <1>2, <1>3 DEF ListIsSorted, Sorted
  <2>2. MirTreeSearch(m, op) = InterpHashedSaop(m, op)
    BY <2>1, TreeSearchAgrees DEF ScalarOfType, Sorted
  <2> QED
    BY <1>3, <2>2 DEF MirHashedSaop
<1>4. CASE op.plan.path = "text"
  <2>1. op.ty = "text" /\ op.plan.list = TextHashBuild(texts)
    BY <1>2, <1>4
  <2>2. TextsOf(texts, Len(texts), op) /\ RoomFor(Len(texts))
    BY <2>1 DEF ListIsSorted, Sorted
  <2>3. ASSUME NEW k \in 1..Len(texts) PROVE TextHash(Body(texts[k])) \in Nat
    <3>1. texts[k] \in NonNulls(op)
      BY <2>2 DEF TextsOf
    <3> QED
      BY <2>1, <3>1 DEF HashesAreNat
  <2>4. ~m.nul[op.args[1]] => TextHash(Body(m.val[op.args[1]])) \in Nat
    BY <2>1 DEF ScalarOfType, Sorted
  <2>5. MirTextSearch(m, op) = InterpHashedSaop(m, op)
    BY <2>1, <2>2, <2>3, <2>4, TextSearchAgrees
  <2> QED
    BY <1>4, <2>5 DEF MirHashedSaop
<1>5. CASE op.plan.path = "call"
  BY <1>5 DEF MirHashedSaop
<1> QED
  BY <1>2, <1>3, <1>4, <1>5
=============================================================================
