------------------------------ MODULE SumTheorems ------------------------------
(***************************************************************************)
(* Induction over finite sets and numbers, with the predicate given as the *)
(* set of what has it, and what follows for sums.                          *)
(***************************************************************************)
EXTENDS Integers, Functions, FiniteSetTheorems, WellFoundedInduction, TLAPS

\* What the empty set has, and a set with one more element if it has it
\* without, all finite sets have.
THEOREM Grow ==
    ASSUME NEW S, IsFiniteSet(S), NEW P, {} \in P,
           \A T \in SUBSET S : \A x \in S \ T : T \in P => T \cup {x} \in P
    PROVE  S \in P
<1> DEFINE D == (SUBSET S) \ P
<1> SUFFICES ASSUME D # {} PROVE FALSE
  OBVIOUS
<1>1. D \subseteq FiniteSubsetsOf(S)
  BY FS_FiniteSubsetsOfFinite
<1>2. PICK T \in D : \A U \in D : <<U, T>> \notin StrictSubsetOrdering(S)
  BY <1>1, FS_StrictSubsetOrderingWellFounded, WFMin
<1>3. PICK x \in T : TRUE
  OBVIOUS
<1>4. T \ {x} \in D
  <2>1. T \ {x} \in SUBSET S /\ x \in S \ (T \ {x}) /\ T = (T \ {x}) \cup {x}
    BY <1>3
  <2> QED
    BY <2>1
<1>5. <<T \ {x}, T>> \in StrictSubsetOrdering(S)
  BY <1>3 DEF StrictSubsetOrdering
<1> QED
  BY <1>2, <1>4, <1>5

\* What 0 has, and a number up to m if the one before it has it, all have.
THEOREM Climb ==
    ASSUME NEW m \in Nat, NEW S, 0 \in S,
           \A a \in 1 .. m : a - 1 \in S => a \in S
    PROVE  0 .. m \subseteq S
<1> DEFINE D == (0 .. m) \ S
           T == {0 .. a : a \in D}
<1> SUFFICES ASSUME D # {} PROVE FALSE
  OBVIOUS
<1>1. IsFiniteSet(0 .. m)
  BY FS_Interval
<1>2. T \subseteq SUBSET (0 .. m)
  OBVIOUS
<1>3. T \subseteq FiniteSubsetsOf(0 .. m)
  BY <1>1, <1>2, FS_FiniteSubsetsOfFinite
<1>4. PICK x \in T : \A y \in T : <<y, x>> \notin StrictSubsetOrdering(0 .. m)
  <2>1. T # {}
    OBVIOUS
  <2> HIDE DEF T
  <2> QED
    BY <1>3, <2>1, FS_StrictSubsetOrderingWellFounded, WFMin
<1>5. PICK a \in D : x = 0 .. a
  OBVIOUS
<1>6. a \in 1 .. m /\ a - 1 \in D
  OBVIOUS
<1>7. 0 .. (a - 1) \in T
  BY <1>6
<1>8. <<0 .. (a - 1), 0 .. a>> \in StrictSubsetOrdering(0 .. m)
  BY <1>6 DEF StrictSubsetOrdering
<1> QED
  BY <1>4, <1>5, <1>7, <1>8

-----------------------------------------------------------------------------
(* SumFunctionOnSet of the community modules, which takes the elements in  *)
(* the order of CHOOSE.                                                    *)

First(s) == CHOOSE x \in s : TRUE

\* The sums of function h over the sets in D.
IsSum(f, h, D) ==
    f = [s \in D |-> IF s = {} THEN 0 ELSE h[First(s)] + f[s \ {First(s)}]]

UpTo(S, n) == {s \in SUBSET S : Cardinality(s) <= n}

LEMMA FirstIn ==
    ASSUME NEW S, IsFiniteSet(S), NEW s \in SUBSET S, s # {}
    PROVE  /\ First(s) \in s /\ s \ {First(s)} \in SUBSET S
           /\ Cardinality(s) \in Nat /\ Cardinality(s) > 0
           /\ Cardinality(s \ {First(s)}) = Cardinality(s) - 1
<1>1. First(s) \in s
  BY DEF First
<1>2. IsFiniteSet(s)
  BY FS_Subset
<1> QED
  BY <1>1, <1>2, FS_CardinalityType, FS_EmptySet, FS_RemoveElement

LEMMA UpToZero ==
    ASSUME NEW S, IsFiniteSet(S)
    PROVE  \A s \in UpTo(S, 0) : s = {}
<1> SUFFICES ASSUME NEW s \in UpTo(S, 0), s # {}
             PROVE  FALSE
  OBVIOUS
<1>1. s \in SUBSET S /\ Cardinality(s) <= 0
  BY DEF UpTo
<1>2. Cardinality(s) \in Nat /\ Cardinality(s) > 0
  BY <1>1, FirstIn
<1> QED
  BY <1>1, <1>2

LEMMA SumExists ==
    ASSUME NEW S, IsFiniteSet(S), NEW h
    PROVE  \E f : IsSum(f, h, SUBSET S)
<1> DEFINE N == Cardinality(S)
           G == {n \in 0 .. N : \E f : IsSum(f, h, UpTo(S, n))}
<1>1. N \in Nat
  BY FS_CardinalityType
<1>2. 0 \in G
  <2> DEFINE f == [s \in UpTo(S, 0) |-> 0]
  <2>1. \A s \in UpTo(S, 0) : s = {}
    BY UpToZero
  <2>2. IsSum(f, h, UpTo(S, 0))
    BY <2>1 DEF IsSum
  <2> QED
    BY <1>1, <2>2
<1>3. ASSUME NEW n \in 1 .. N, n - 1 \in G
      PROVE  n \in G
  <2>1. PICK f : IsSum(f, h, UpTo(S, n - 1))
    BY <1>3
  <2> DEFINE g == [s \in UpTo(S, n) |->
                    IF s = {} THEN 0 ELSE h[First(s)] + f[s \ {First(s)}]]
  <2>2. ASSUME NEW s \in UpTo(S, n), s # {}
        PROVE  g[s \ {First(s)}] = f[s \ {First(s)}]
    <3> DEFINE t == s \ {First(s)}
    <3>1. t \in UpTo(S, n - 1) /\ t \in UpTo(S, n)
      BY <1>1, <1>3, <2>2, FirstIn DEF UpTo
    <3>2. f[t] = IF t = {} THEN 0 ELSE h[First(t)] + f[t \ {First(t)}]
      BY <2>1, <3>1 DEF IsSum
    <3>3. g[t] = IF t = {} THEN 0 ELSE h[First(t)] + f[t \ {First(t)}]
      BY <3>1
    <3> QED
      BY <3>2, <3>3
  <2>3. g = [s \in UpTo(S, n) |->
                    IF s = {} THEN 0 ELSE h[First(s)] + g[s \ {First(s)}]]
    <3> HIDE DEF g
    <3>1. g = [s \in UpTo(S, n) |->
                    IF s = {} THEN 0 ELSE h[First(s)] + f[s \ {First(s)}]]
      BY DEF g
    <3> QED
      BY <2>2, <3>1
  <2> HIDE DEF g
  <2>4. IsSum(g, h, UpTo(S, n))
    BY <2>3 DEF IsSum
  <2> QED
    BY <1>3, <2>4
<1> HIDE DEF G
<1>4. 0 .. N \subseteq G
  BY <1>1, <1>2, <1>3, Climb
<1>5. UpTo(S, N) = SUBSET S
  BY FS_Subset DEF UpTo
<1>6. N \in G
  BY <1>1, <1>4
<1>7. \E f : IsSum(f, h, UpTo(S, N))
  BY <1>6 DEF G
<1> QED
  BY <1>5, <1>7

\* It is the one function with this property.
LEMMA SumUnique ==
    ASSUME NEW S, IsFiniteSet(S), NEW h,
           NEW D, NEW f, IsSum(f, h, D), NEW E, NEW g, IsSum(g, h, E),
           SUBSET S \subseteq D, SUBSET S \subseteq E
    PROVE  \A s \in SUBSET S : f[s] = g[s]
<1> DEFINE N == Cardinality(S)
           G == {n \in 0 .. N : \A s \in UpTo(S, n) : f[s] = g[s]}
<1>1. N \in Nat
  BY FS_CardinalityType
<1>2. ASSUME NEW s \in SUBSET S
      PROVE  /\ f[s] = IF s = {} THEN 0 ELSE h[First(s)] + f[s \ {First(s)}]
             /\ g[s] = IF s = {} THEN 0 ELSE h[First(s)] + g[s \ {First(s)}]
  BY DEF IsSum
<1>3. 0 \in G
  <2>1. \A s \in UpTo(S, 0) : s = {}
    BY UpToZero
  <2>2. \A s \in UpTo(S, 0) : f[s] = g[s]
    BY <1>2, <2>1
  <2> QED
    BY <1>1, <2>2
<1>4. ASSUME NEW n \in 1 .. N, n - 1 \in G
      PROVE  n \in G
  <2> SUFFICES ASSUME NEW s \in UpTo(S, n)
               PROVE  f[s] = g[s]
    BY <1>4
  <2>1. s \in SUBSET S
    BY DEF UpTo
  <2>2. CASE s = {}
    BY <1>2, <2>1, <2>2
  <2>3. CASE s # {}
    <3>1. s \ {First(s)} \in UpTo(S, n - 1)
      BY <1>1, <2>1, <2>3, FirstIn DEF UpTo
    <3>2. f[s \ {First(s)}] = g[s \ {First(s)}]
      BY <1>4, <3>1
    <3> QED
      BY <1>2, <2>1, <3>2
  <2> QED
    BY <2>2, <2>3
<1> HIDE DEF G
<1>5. 0 .. N \subseteq G
  BY <1>1, <1>3, <1>4, Climb
<1> QED
  BY <1>1, <1>5, FS_Subset DEF G, UpTo

LEMMA SumIs ==
    ASSUME NEW S, IsFiniteSet(S), NEW h, NEW f, IsSum(f, h, SUBSET S)
    PROVE  \A s \in SUBSET S : SumFunctionOnSet(h, s) = f[s]
<1> SUFFICES ASSUME NEW s \in SUBSET S
             PROVE  SumFunctionOnSet(h, s) = f[s]
  OBVIOUS
<1> DEFINE g == CHOOSE k : IsSum(k, h, SUBSET s)
<1>1. IsFiniteSet(s)
  BY FS_Subset
<1>2. IsSum(g, h, SUBSET s)
  BY <1>1, SumExists
<1>3. SumFunctionOnSet(h, s) = g[s]
  BY DEF SumFunctionOnSet, FoldFunctionOnSet, MapThenFoldSet, IsSum, First
<1> HIDE DEF g
<1>4. s \in SUBSET s
  OBVIOUS
<1>5. PICK k : IsSum(k, h, SUBSET s) /\ SumFunctionOnSet(h, s) = k[s]
  BY <1>2, <1>3
<1>6. \A t \in SUBSET s : f[t] = k[t]
  <2>1. SUBSET s \subseteq SUBSET S /\ SUBSET s \subseteq SUBSET s
    OBVIOUS
  <2> HIDE DEF g
  <2> QED
    BY <1>1, <1>5, <2>1, SumUnique
<1> QED
  BY <1>4, <1>5, <1>6

-----------------------------------------------------------------------------
(* Sums. *)

LEMMA SumEmpty ==
    ASSUME NEW h
    PROVE  SumFunctionOnSet(h, {}) = 0
<1>1. PICK f : IsSum(f, h, SUBSET {})
  BY FS_EmptySet, SumExists
<1>2. f[{}] = 0
  BY <1>1 DEF IsSum
<1> QED
  BY <1>1, <1>2, FS_EmptySet, SumIs

LEMMA SumFirst ==
    ASSUME NEW S, IsFiniteSet(S), S # {}, NEW h
    PROVE  SumFunctionOnSet(h, S)
                = h[First(S)] + SumFunctionOnSet(h, S \ {First(S)})
<1>1. PICK f : IsSum(f, h, SUBSET S)
  BY SumExists
<1>2. f[S] = h[First(S)] + f[S \ {First(S)}]
  BY <1>1 DEF IsSum
<1>3. SumFunctionOnSet(h, S) = f[S]
  BY <1>1, SumIs
<1>4. SumFunctionOnSet(h, S \ {First(S)}) = f[S \ {First(S)}]
  BY <1>1, SumIs
<1> QED
  BY <1>2, <1>3, <1>4

LEMMA SumType ==
    ASSUME NEW S, IsFiniteSet(S), NEW h, \A x \in S : h[x] \in Nat
    PROVE  \A T \in SUBSET S : SumFunctionOnSet(h, T) \in Nat
<1> DEFINE G == {T \in SUBSET S : SumFunctionOnSet(h, T) \in Nat}
           N == Cardinality(S)
           C == {n \in 0 .. N : UpTo(S, n) \subseteq G}
<1>1. N \in Nat
  BY FS_CardinalityType
<1>2. 0 \in C
  <2>1. \A s \in UpTo(S, 0) : s = {}
    BY UpToZero
  <2>2. \A s \in UpTo(S, 0) : s \in G
    BY <2>1, SumEmpty
  <2> QED
    BY <1>1, <2>2
<1>3. ASSUME NEW n \in 1 .. N, n - 1 \in C
      PROVE  n \in C
  <2> SUFFICES ASSUME NEW s \in UpTo(S, n), s # {}
               PROVE  SumFunctionOnSet(h, s) \in Nat
    BY <1>3, SumEmpty DEF UpTo
  <2>1. s \in SUBSET S /\ IsFiniteSet(s)
    BY FS_Subset DEF UpTo
  <2>2. s \ {First(s)} \in UpTo(S, n - 1)
    BY <1>1, <2>1, FirstIn DEF UpTo
  <2>3. h[First(s)] \in Nat /\ SumFunctionOnSet(h, s \ {First(s)}) \in Nat
    BY <1>3, <2>1, <2>2, FirstIn
  <2> QED
    BY <2>1, <2>3, SumFirst
<1> HIDE DEF C
<1>4. 0 .. N \subseteq C
  BY <1>1, <1>2, <1>3, Climb
<1>5. UpTo(S, N) \subseteq G
  BY <1>1, <1>4 DEF C
<1> QED
  BY <1>5, FS_Subset DEF UpTo

\* Any element can be taken first.
LEMMA SumPick ==
    ASSUME NEW S, IsFiniteSet(S), NEW h, \A x \in S : h[x] \in Nat
    PROVE  \A T \in SUBSET S : \A a \in T :
                SumFunctionOnSet(h, T) = h[a] + SumFunctionOnSet(h, T \ {a})
<1> DEFINE Pick(T) == \A a \in T : SumFunctionOnSet(h, T)
                                    = h[a] + SumFunctionOnSet(h, T \ {a})
           N == Cardinality(S)
           C == {n \in 0 .. N : \A T \in UpTo(S, n) : Pick(T)}
<1>1. N \in Nat
  BY FS_CardinalityType
<1>2. 0 \in C
  <2>1. \A s \in UpTo(S, 0) : s = {}
    BY UpToZero
  <2> QED
    BY <1>1, <2>1
<1>3. ASSUME NEW n \in 1 .. N, n - 1 \in C
      PROVE  n \in C
  <2> SUFFICES ASSUME NEW T \in UpTo(S, n), NEW a \in T
               PROVE  SumFunctionOnSet(h, T)
                            = h[a] + SumFunctionOnSet(h, T \ {a})
    BY <1>3
  <2> DEFINE x == First(T)
  <2>1. T \in SUBSET S /\ IsFiniteSet(T) /\ x \in T
    BY FS_Subset, FirstIn DEF UpTo
  <2>2. SumFunctionOnSet(h, T) = h[x] + SumFunctionOnSet(h, T \ {x})
    BY <2>1, SumFirst
  <2>3. CASE a = x
    BY <2>2, <2>3
  <2>4. CASE a # x
    <3>1. T \ {x} \in UpTo(S, n - 1)
      BY <1>1, <2>1, FirstIn DEF UpTo
    <3>2. T \ {a} \in UpTo(S, n - 1)
      <4>1. Cardinality(T \ {a}) = Cardinality(T) - 1 /\ Cardinality(T) \in Nat
        BY <2>1, FS_RemoveElement, FS_CardinalityType
      <4> QED
        BY <1>1, <2>1, <4>1 DEF UpTo
    <3>3. /\ a \in T \ {x} /\ x \in T \ {a}
          /\ (T \ {x}) \ {a} = (T \ {a}) \ {x}
      BY <2>1, <2>4
    <3>4. SumFunctionOnSet(h, T \ {x})
                = h[a] + SumFunctionOnSet(h, (T \ {x}) \ {a})
      BY <1>3, <3>1, <3>3
    <3>5. SumFunctionOnSet(h, T \ {a})
                = h[x] + SumFunctionOnSet(h, (T \ {x}) \ {a})
      <4>1. SumFunctionOnSet(h, T \ {a})
                = h[x] + SumFunctionOnSet(h, (T \ {a}) \ {x})
        BY <1>3, <3>2, <3>3
      <4> QED
        BY <3>3, <4>1
    <3>6. (T \ {x}) \ {a} \in SUBSET S
      BY <2>1
    <3>7. /\ SumFunctionOnSet(h, (T \ {x}) \ {a}) \in Nat
          /\ h[a] \in Nat /\ h[x] \in Nat
      BY <2>1, <3>6, SumType
    <3> HIDE DEF x
    <3> QED
      BY <2>2, <3>4, <3>5, <3>7
  <2> QED
    BY <2>3, <2>4
<1> HIDE DEF C
<1>4. 0 .. N \subseteq C
  BY <1>1, <1>2, <1>3, Climb
<1>5. \A T \in UpTo(S, N) : Pick(T)
  <2>1. N \in C
    BY <1>1, <1>4
  <2> QED
    BY <2>1 DEF C
<1> QED
  BY <1>5, FS_Subset DEF UpTo

\* With one element more.
THEOREM SumAdd ==
    ASSUME NEW S, IsFiniteSet(S), NEW a, a \notin S,
           NEW h, \A x \in S \cup {a} : h[x] \in Nat
    PROVE  SumFunctionOnSet(h, S \cup {a}) = SumFunctionOnSet(h, S) + h[a]
<1> DEFINE U == S \cup {a}
<1>1. IsFiniteSet(U)
  BY FS_AddElement
<1>2. a \in U /\ U \in SUBSET U /\ U \ {a} = S /\ S \in SUBSET U
  OBVIOUS
<1> HIDE DEF U
<1>3. SumFunctionOnSet(h, U) = h[a] + SumFunctionOnSet(h, U \ {a})
  BY <1>1, <1>2, SumPick DEF U
<1>4. SumFunctionOnSet(h, S) \in Nat /\ h[a] \in Nat
  BY SumType, <1>2 DEF U
<1>5. SumFunctionOnSet(h, U) = h[a] + SumFunctionOnSet(h, S)
  BY <1>2, <1>3
<1>6. SumFunctionOnSet(h, U) = SumFunctionOnSet(h, S) + h[a]
  BY <1>4, <1>5
<1> QED
  BY <1>6 DEF U

\* A sum is about the values on its set alone.
THEOREM SumSame ==
    ASSUME NEW S, IsFiniteSet(S), NEW h, NEW g,
           \A x \in S : h[x] = g[x] /\ h[x] \in Nat
    PROVE  SumFunctionOnSet(h, S) = SumFunctionOnSet(g, S)
<1> DEFINE P == {T \in SUBSET S : SumFunctionOnSet(h, T) = SumFunctionOnSet(g, T)}
<1>1. {} \in P
  BY SumEmpty
<1>2. ASSUME NEW T \in SUBSET S, NEW x \in S \ T, T \in P
      PROVE  T \cup {x} \in P
  <2>1. IsFiniteSet(T)
    BY FS_Subset
  <2>2. SumFunctionOnSet(h, T \cup {x}) = SumFunctionOnSet(h, T) + h[x]
    BY <2>1, SumAdd
  <2>3. SumFunctionOnSet(g, T \cup {x}) = SumFunctionOnSet(g, T) + g[x]
    BY <2>1, SumAdd
  <2> QED
    BY <1>2, <2>2, <2>3
<1> HIDE DEF P
<1>4. S \in P
  BY <1>1, <1>2, Grow
<1> QED
  BY <1>4 DEF P

\* Two sets that have no element in common.
THEOREM SumDisjoint ==
    ASSUME NEW S, IsFiniteSet(S), NEW T, IsFiniteSet(T), S \cap T = {},
           NEW h, \A x \in S \cup T : h[x] \in Nat
    PROVE  SumFunctionOnSet(h, S \cup T)
                = SumFunctionOnSet(h, S) + SumFunctionOnSet(h, T)
<1> DEFINE P == {U \in SUBSET T : SumFunctionOnSet(h, S \cup U)
                        = SumFunctionOnSet(h, S) + SumFunctionOnSet(h, U)}
<1>1. SumFunctionOnSet(h, S) \in Nat
  BY SumType
<1>2. {} \in P
  BY <1>1, SumEmpty
<1>3. ASSUME NEW U \in SUBSET T, NEW x \in T \ U, U \in P
      PROVE  U \cup {x} \in P
  <2>1. IsFiniteSet(U) /\ IsFiniteSet(S \cup U)
    BY FS_Subset, FS_Union
  <2>2. SumFunctionOnSet(h, U \cup {x}) = SumFunctionOnSet(h, U) + h[x]
    BY <2>1, SumAdd
  <2>3. SumFunctionOnSet(h, (S \cup U) \cup {x})
                = SumFunctionOnSet(h, S \cup U) + h[x]
    BY <2>1, SumAdd
  <2>4. (S \cup U) \cup {x} = S \cup (U \cup {x})
    OBVIOUS
  <2>5. SumFunctionOnSet(h, U) \in Nat /\ h[x] \in Nat
    BY SumType
  <2>6. SumFunctionOnSet(h, S \cup U)
            = SumFunctionOnSet(h, S) + SumFunctionOnSet(h, U)
    BY <1>3
  <2>7. SumFunctionOnSet(h, S \cup (U \cup {x}))
            = SumFunctionOnSet(h, S) + SumFunctionOnSet(h, U \cup {x})
    <3>1. SumFunctionOnSet(h, S \cup (U \cup {x}))
            = SumFunctionOnSet(h, (S \cup U) \cup {x})
      BY <2>4
    <3> QED
      BY <1>1, <2>2, <2>3, <2>5, <2>6, <3>1
  <2> QED
    BY <2>7
<1> HIDE DEF P
<1>4. \A U \in SUBSET T : \A x \in T \ U : U \in P => U \cup {x} \in P
  BY <1>3
<1>5. T \in P
  BY <1>2, <1>4, Grow
<1> QED
  BY <1>5 DEF P
===============================================================================
