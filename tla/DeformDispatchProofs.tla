------------------------ MODULE DeformDispatchProofs ------------------------
(***************************************************************************)
(* DeformDispatch for any queries, descriptors, hashes and sizes of the    *)
(* tables.                                                                 *)
(*                                                                         *)
(* The invariant says what an entry of the fast path is: the code of the   *)
(* one descriptor that is allocated where the entry points, which a query  *)
(* that still runs owns.  That is what makes a comparison of pointers      *)
(* enough, and it needs the list to be emptied at each release.            *)
(***************************************************************************)
EXTENDS DeformDispatch, SequenceTheorems, TLAPS

\* The descriptors that are allocated are those of running queries, each in a
\* place of its own.
PtrInv ==
    /\ status \in [Queries -> {"new", "running", "done"}]
    /\ ptr \in [Descs -> Ptrs \cup {NoPtr}]
    /\ \A x \in Descs : ptr[x] # NoPtr <=> status[QueryOf[x]] = "running"
    /\ \A x, y \in Descs : ptr[x] = ptr[y] => x = y \/ ptr[x] = NoPtr

EntryFor(x, n, place) ==
    [ptr |-> place[x], ops |-> OpsOf[x], natts |-> n, type |-> TypeOf[x],
     code |-> CodeFor([desc |-> x, natts |-> n])]
IsEntry(e, place) ==
    \E x \in Descs : \E n \in NattsOf[x] :
        place[x] # NoPtr /\ e = EntryFor(x, n, place)

Uncoded(e) == [e EXCEPT !.code = 0]

FastInv ==
    /\ fast \in Seq(FastEntries) /\ Len(fast) <= FastSize
    /\ \A i \in 1..Len(fast) : IsEntry(fast[i], ptr)
    /\ \A i, j \in 1..Len(fast) : Uncoded(fast[i]) = Uncoded(fast[j]) => i = j

\* What is in the cache was compiled once; other code that was compiled is not
\* for the cache, or found it full.
CacheInv ==
    /\ cache \in Seq(Codes) /\ Len(cache) <= CacheSize
    /\ compiled \in [Codes -> Nat]
    /\ DeformCache => \A i \in 1..Len(cache) : compiled[cache[i]] = 1
    /\ DeformCache => \A i, j \in 1..Len(cache) : cache[i] = cache[j] => i = j
    /\ DeformCache => \A k \in Codes : compiled[k] > 0 =>
            \/ \E i \in 1..Len(cache) : cache[i] = k
            \/ k.natts > MaxAttrs
            \/ Len(cache) = CacheSize

LastInv ==
    /\ last \in [ran : Codes \cup {Interpreter}, needs : Codes \cup {Interpreter}]
    /\ CallRunsOwnCode

IInv == PtrInv /\ FastInv /\ CacheInv /\ LastInv

USE DeformDispatchAssumption

-----------------------------------------------------------------------------
(* The two ways in which the list of the fast path is changed. *)

LEMMA PushFront ==
  ASSUME NEW S, NEW s \in Seq(S), NEW e \in S, NEW m \in 0..Len(s)
  PROVE  /\ <<e>> \o SubSeq(s, 1, m) \in Seq(S)
         /\ Len(<<e>> \o SubSeq(s, 1, m)) = m + 1
         /\ (<<e>> \o SubSeq(s, 1, m))[1] = e
         /\ \A j \in 2..m+1 : (<<e>> \o SubSeq(s, 1, m))[j] = s[j-1]
<1>0. m \in Int /\ \A i \in 1..m : s[i] \in S
  BY LenProperties, ElementOfSeq
<1>1. /\ SubSeq(s, 1, m) \in Seq(S) /\ Len(SubSeq(s, 1, m)) = m
      /\ \A i \in 1..m : SubSeq(s, 1, m)[i] = s[i]
  <2>1. /\ SubSeq(s, 1, m) \in Seq(S)
        /\ Len(SubSeq(s, 1, m)) = IF 1 <= m THEN m-1+1 ELSE 0
        /\ \A i \in 1..m-1+1 : SubSeq(s, 1, m)[i] = s[1+i-1]
    BY <1>0, SubSeqProperties
  <2> QED
    BY <2>1
<1>2. <<e>> \in Seq(S) /\ Len(<<e>>) = 1 /\ <<e>>[1] = e
  OBVIOUS
<1> DEFINE u == SubSeq(s, 1, m)
           v == <<e>>
<1> HIDE DEF u, v
<1>3. /\ v \o u \in Seq(S) /\ Len(v \o u) = 1 + m
      /\ \A i \in 1..1+m : (v \o u)[i] = IF i <= 1 THEN v[i] ELSE u[i-1]
  <2>1. u \in Seq(S) /\ v \in Seq(S) /\ Len(u) = m /\ Len(v) = 1
    BY <1>1, <1>2 DEF u, v
  <2>2. /\ v \o u \in Seq(S) /\ Len(v \o u) = Len(v) + Len(u)
        /\ \A i \in 1..Len(v)+Len(u) :
              (v \o u)[i] = IF i <= Len(v) THEN v[i] ELSE u[i - Len(v)]
    BY <2>1, ConcatProperties
  <2> QED
    BY <2>1, <2>2
<1>4. v[1] = e /\ \A i \in 1..m : u[i] = s[i]
  BY <1>1, <1>2 DEF u, v
<1>5. /\ v \o u \in Seq(S) /\ Len(v \o u) = m + 1 /\ (v \o u)[1] = e
      /\ \A j \in 2..m+1 : (v \o u)[j] = s[j-1]
  BY <1>3, <1>4
<1> QED
  BY <1>5 DEF u, v

LEMMA MoveToFront ==
  ASSUME NEW S, NEW s \in Seq(S), NEW i \in 1..Len(s)
  PROVE  LET t == <<s[i]>> \o RemoveAt(s, i)
         IN  /\ t \in Seq(S) /\ Len(t) = Len(s) /\ t[1] = s[i]
             /\ \A j \in 2..Len(s) : t[j] = IF j <= i THEN s[j-1] ELSE s[j]
<1> DEFINE n == Len(s)
           u == SubSeq(s, 1, i-1)
           r == SubSeq(s, i+1, n)
           v == <<s[i]>>
<1>1. n \in Nat /\ \A j \in 1..n : s[j] \in S
  BY LenProperties, ElementOfSeq
<1>2. /\ u \in Seq(S) /\ Len(u) = i-1 /\ \A j \in 1..i-1 : u[j] = s[j]
  <2>1. i-1 \in Int /\ \A j \in 1..i-1 : s[j] \in S
    BY <1>1
  <2>2. /\ u \in Seq(S) /\ Len(u) = IF 1 <= i-1 THEN (i-1)-1+1 ELSE 0
        /\ \A j \in 1..(i-1)-1+1 : u[j] = s[1+j-1]
    BY <2>1, SubSeqProperties
  <2> QED
    BY <2>2, <1>1
<1>3. /\ r \in Seq(S) /\ Len(r) = n-i /\ \A j \in 1..n-i : r[j] = s[i+j]
  <2>1. i+1 \in Int /\ n \in Int /\ \A j \in i+1..n : s[j] \in S
    BY <1>1
  <2>2. /\ r \in Seq(S) /\ Len(r) = IF i+1 <= n THEN n-(i+1)+1 ELSE 0
        /\ \A j \in 1..n-(i+1)+1 : r[j] = s[i+1+j-1]
    BY <2>1, SubSeqProperties
  <2>3. \A j \in 1..n-i : j \in 1..n-(i+1)+1 /\ i+1+j-1 = i+j
    BY <1>1
  <2> QED
    BY <2>2, <2>3, <1>1
<1>4. v \in Seq(S) /\ Len(v) = 1 /\ v[1] = s[i]
  BY <1>1
<1> HIDE DEF u, r, v
<1>5. /\ u \o r \in Seq(S) /\ Len(u \o r) = n-1
      /\ \A j \in 1..n-1 : (u \o r)[j] = IF j <= i-1 THEN s[j] ELSE s[j+1]
  <2>0. u \in Seq(S) /\ r \in Seq(S)
    BY <1>2, <1>3
  <2>1. /\ u \o r \in Seq(S) /\ Len(u \o r) = Len(u) + Len(r)
        /\ \A j \in 1..Len(u)+Len(r) :
              (u \o r)[j] = IF j <= Len(u) THEN u[j] ELSE r[j - Len(u)]
    BY <2>0, ConcatProperties
  <2>2. Len(u) + Len(r) = n-1
    BY <1>1, <1>2, <1>3
  <2>3. ASSUME NEW j \in 1..n-1 PROVE (u \o r)[j] = IF j <= i-1 THEN s[j] ELSE s[j+1]
    <3>1. CASE j <= i-1
      BY <2>1, <2>2, <3>1, <1>1, <1>2
    <3>2. CASE ~(j <= i-1)
      <4>1. j-(i-1) \in 1..n-i /\ i+(j-(i-1)) = j+1
        BY <3>2, <1>1
      <4>2. r[j-(i-1)] = s[j+1]
        BY <4>1, <1>3
      <4> QED
        BY <2>1, <2>2, <3>2, <4>2, <1>1, <1>2
    <3> QED
      BY <3>1, <3>2
  <2> QED
    BY <2>1, <2>2, <2>3
<1> DEFINE w == u \o r
<1>6. w \in Seq(S) /\ Len(w) = n-1
      /\ \A j \in 1..n-1 : w[j] = IF j <= i-1 THEN s[j] ELSE s[j+1]
  BY <1>5
<1> HIDE DEF w
<1>7. /\ v \o w \in Seq(S) /\ Len(v \o w) = n /\ (v \o w)[1] = s[i]
      /\ \A j \in 2..n : (v \o w)[j] = w[j-1]
  <2>1. /\ v \o w \in Seq(S) /\ Len(v \o w) = Len(v) + Len(w)
        /\ \A j \in 1..Len(v)+Len(w) :
              (v \o w)[j] = IF j <= Len(v) THEN v[j] ELSE w[j - Len(v)]
    <3>1. v \in Seq(S) /\ w \in Seq(S)
      BY <1>4, <1>6
    <3> QED
      BY <3>1, ConcatProperties
  <2>2. Len(v) = 1 /\ Len(w) = n-1 /\ n \in Nat /\ v[1] = s[i] /\ n >= 1
    BY <1>1, <1>4, <1>6
  <2>3. Len(v) + Len(w) = n
    BY <2>2
  <2>4. /\ Len(v \o w) = n
        /\ \A j \in 1..n : (v \o w)[j] = IF j <= 1 THEN v[j] ELSE w[j-1]
    BY <2>1, <2>2, <2>3
  <2> DEFINE z == v \o w
  <2>5. z \in Seq(S) /\ Len(z) = n /\ \A j \in 1..n : z[j] = IF j <= 1 THEN v[j] ELSE w[j-1]
    BY <2>1, <2>4
  <2> HIDE DEF z
  <2>6. z[1] = s[i] /\ \A j \in 2..n : z[j] = w[j-1]
    BY <2>2, <2>5
  <2> QED
    BY <2>5, <2>6 DEF z
<1>8. \A j \in 2..n : (v \o w)[j] = IF j <= i THEN s[j-1] ELSE s[j]
  BY <1>6, <1>7, <1>1
<1>9. v \o w = <<s[i]>> \o RemoveAt(s, i)
  BY DEF v, w, u, r, RemoveAt
<1> QED
  BY <1>7, <1>8, <1>9
-----------------------------------------------------------------------------
(* Calls, codes and entries. *)

LEMMA CallFields ==
  ASSUME NEW c \in Calls
  PROVE  /\ c.desc \in Descs /\ c.natts \in NattsOf[c.desc]
         /\ c = [desc |-> c.desc, natts |-> c.natts]
BY DEF Calls

LEMMA CallOf ==
  ASSUME NEW x \in Descs, NEW n \in NattsOf[x]
  PROVE  /\ [desc |-> x, natts |-> n] \in Calls
         /\ CodeFor([desc |-> x, natts |-> n]) \in Codes
BY DEF Calls, Codes

LEMMA CodeFields ==
  ASSUME NEW k \in Codes
  PROVE  k = [ops |-> k.ops, natts |-> k.natts, attrs |-> k.attrs]
BY DEF Codes, CodeFor

LEMMA EntryIsTyped ==
  ASSUME PtrInv, NEW x \in Descs, NEW n \in NattsOf[x], ptr[x] # NoPtr
  PROVE  EntryFor(x, n, ptr) \in FastEntries
<1>1. ptr[x] \in Ptrs /\ CodeFor([desc |-> x, natts |-> n]) \in Codes
  BY CallOf DEF PtrInv
<1>2. n \in UNION {NattsOf[y] : y \in Descs}
  OBVIOUS
<1> QED
  BY <1>1, <1>2 DEF EntryFor, FastEntries

LEMMA SameEntry ==
  ASSUME NEW e \in FastEntries, NEW f \in FastEntries
  PROVE  Uncoded(e) = Uncoded(f) <=>
            e.ptr = f.ptr /\ e.ops = f.ops /\ e.natts = f.natts /\ e.type = f.type
<1>1. ASSUME NEW g \in FastEntries
      PROVE  Uncoded(g) = [ptr |-> g.ptr, ops |-> g.ops, natts |-> g.natts,
                           type |-> g.type, code |-> 0]
  BY DEF Uncoded, FastEntries
<1>2. /\ Uncoded(e) = [ptr |-> e.ptr, ops |-> e.ops, natts |-> e.natts,
                       type |-> e.type, code |-> 0]
      /\ Uncoded(f) = [ptr |-> f.ptr, ops |-> f.ops, natts |-> f.natts,
                       type |-> f.type, code |-> 0]
  BY <1>1
<1> QED
  BY <1>2

\* An entry that matches a call of a running query has the code of that call.
LEMMA MatchIsExact ==
  ASSUME PtrInv, NEW c \in Calls, ptr[c.desc] # NoPtr, NEW e, IsEntry(e, ptr), FastMatches(e, c)
  PROVE  e = EntryFor(c.desc, c.natts, ptr) /\ e.code = CodeFor(c)
<1>0. PICK x \in Descs : \E n \in NattsOf[x] : ptr[x] # NoPtr /\ e = EntryFor(x, n, ptr)
  BY DEF IsEntry
<1>1. PICK n \in NattsOf[x] : ptr[x] # NoPtr /\ e = EntryFor(x, n, ptr)
  BY <1>0
<1>2. e.ptr = ptr[x] /\ e.natts = n
  BY <1>1 DEF EntryFor
<1>3. x = c.desc /\ n = c.natts
  BY <1>1, <1>2, CallFields DEF FastMatches, PtrInv
<1>4. CodeFor(c) = CodeFor([desc |-> x, natts |-> n])
  BY <1>3, CallFields
<1> QED
  BY <1>1, <1>3, <1>4 DEF EntryFor

\* A code of the cache that matches a call is the one the call needs.
LEMMA CacheIsExact ==
  ASSUME NEW c \in Calls, NEW k \in Codes PROVE CacheMatches(k, c) <=> k = CodeFor(c)
<1>1. CodeFor(c) \in Codes
  BY DEF Codes
<1>2. /\ k = [ops |-> k.ops, natts |-> k.natts, attrs |-> k.attrs]
      /\ CodeFor(c) = [ops |-> CodeFor(c).ops, natts |-> CodeFor(c).natts,
                       attrs |-> CodeFor(c).attrs]
  BY <1>1, CodeFields
<1> QED
  BY <1>2 DEF CacheMatches

-----------------------------------------------------------------------------
(* Queries. *)

LEMMA InitInv == Init => IInv
<1> SUFFICES ASSUME Init PROVE IInv
  OBVIOUS
<1>1. PtrInv
  BY DEF Init, PtrInv
<1>2. FastInv
  BY DEF Init, FastInv
<1>3. CacheInv
  BY DEF Init, CacheInv, Zero
<1>4. LastInv
  BY DEF Init, LastInv, NoCall, CallRunsOwnCode
<1> QED
  BY <1>1, <1>2, <1>3, <1>4 DEF IInv

LEMMA StartQueryInv ==
  ASSUME IInv, NEW q \in Queries, StartQuery(q) PROVE IInv'
<1>1. /\ status[q] = "new" /\ status' = [status EXCEPT ![q] = "running"]
      /\ UNCHANGED <<fast, cache, compiled, last>>
  BY DEF StartQuery
<1>2. PICK place \in [DescsOf(q) -> Ptrs \ UsedPtrs] :
        /\ \A x, y \in DescsOf(q) : place[x] = place[y] => x = y
        /\ ptr' = [x \in Descs |-> IF x \in DescsOf(q) THEN place[x] ELSE ptr[x]]
  BY DEF StartQuery
<1>3. \A x \in Descs : x \in DescsOf(q) <=> QueryOf[x] = q
  BY DEF DescsOf
<1>4. ASSUME NEW x \in Descs, QueryOf[x] = q
      PROVE  ptr'[x] = place[x] /\ ptr'[x] \in Ptrs \ UsedPtrs
  <2>1. x \in DescsOf(q)
    BY <1>3, <1>4
  <2> QED
    BY <1>2, <2>1
<1>5. ASSUME NEW x \in Descs, QueryOf[x] # q PROVE ptr'[x] = ptr[x]
  <2>1. x \notin DescsOf(q)
    BY <1>3, <1>5
  <2> QED
    BY <1>2, <2>1
<1>6. ASSUME NEW x \in Descs, NEW y \in Descs, QueryOf[x] = q PROVE ptr[y] # ptr'[x]
  <2>1. ptr'[x] \in Ptrs /\ ptr'[x] \notin UsedPtrs
    BY <1>4, <1>6
  <2> QED
    BY <2>1 DEF UsedPtrs
<1>7. /\ status' \in [Queries -> {"new", "running", "done"}]
      /\ status'[q] = "running" /\ \A p \in Queries : p # q => status'[p] = status[p]
  BY <1>1 DEF IInv, PtrInv
<1>8. ptr' \in [Descs -> Ptrs \cup {NoPtr}]
  <2>1. ASSUME NEW x \in Descs PROVE ptr'[x] \in Ptrs \cup {NoPtr}
    <3>1. CASE QueryOf[x] = q
      BY <1>4, <3>1
    <3>2. CASE QueryOf[x] # q
      BY <1>5, <3>2 DEF IInv, PtrInv
    <3> QED
      BY <3>1, <3>2
  <2> QED
    BY <1>2, <2>1
<1>9. ASSUME NEW x \in Descs PROVE ptr'[x] # NoPtr <=> status'[QueryOf[x]] = "running"
  <2>1. CASE QueryOf[x] = q
    BY <1>4, <1>7, <2>1
  <2>2. CASE QueryOf[x] # q
    BY <1>5, <1>7, <2>2 DEF IInv, PtrInv
  <2> QED
    BY <2>1, <2>2
<1>10. ASSUME NEW x \in Descs, NEW y \in Descs, ptr'[x] = ptr'[y], x # y
       PROVE  ptr'[x] = NoPtr
  <2>1. CASE QueryOf[x] = q /\ QueryOf[y] = q
    <3>1. x \in DescsOf(q) /\ y \in DescsOf(q)
      BY <1>3, <2>1
    <3>2. ptr'[x] = place[x] /\ ptr'[y] = place[y]
      BY <1>4, <2>1
    <3> QED
      BY <1>2, <1>10, <3>1, <3>2
  <2>2. CASE QueryOf[x] = q /\ QueryOf[y] # q
    <3>1. ptr'[y] = ptr[y] /\ ptr[y] # ptr'[x]
      BY <1>5, <1>6, <2>2
    <3> QED
      BY <1>10, <3>1
  <2>3. CASE QueryOf[x] # q /\ QueryOf[y] = q
    <3>1. ptr'[x] = ptr[x] /\ ptr[x] # ptr'[y]
      BY <1>5, <1>6, <2>3
    <3> QED
      BY <1>10, <3>1
  <2>4. CASE QueryOf[x] # q /\ QueryOf[y] # q
    <3>1. ptr'[x] = ptr[x] /\ ptr'[y] = ptr[y]
      BY <1>5, <2>4
    <3> QED
      BY <1>10, <3>1 DEF IInv, PtrInv
  <2> QED
    BY <2>1, <2>2, <2>3, <2>4
<1>11. PtrInv'
  BY <1>7, <1>8, <1>9, <1>10 DEF PtrInv
<1>12. ASSUME NEW e, IsEntry(e, ptr) PROVE IsEntry(e, ptr')
  <2>0. PICK x \in Descs : \E n \in NattsOf[x] : ptr[x] # NoPtr /\ e = EntryFor(x, n, ptr)
    BY <1>12 DEF IsEntry
  <2>1. PICK n \in NattsOf[x] : ptr[x] # NoPtr /\ e = EntryFor(x, n, ptr)
    BY <2>0
  <2>2. status[QueryOf[x]] = "running"
    BY <2>1 DEF IInv, PtrInv
  <2>3. ptr'[x] = ptr[x]
    BY <1>1, <1>5, <2>2
  <2> QED
    BY <2>1, <2>3 DEF IsEntry, EntryFor
<1>13. FastInv'
  BY <1>1, <1>12 DEF IInv, FastInv
<1>14. CacheInv' /\ LastInv'
  BY <1>1 DEF IInv, CacheInv, LastInv, CallRunsOwnCode
<1> QED
  BY <1>11, <1>13, <1>14 DEF IInv

LEMMA EndQueryInv ==
  ASSUME IInv, NEW q \in Queries, EndQuery(q) PROVE IInv'
<1>1. /\ status[q] = "running" /\ fast' = <<>>
      /\ ptr' = [x \in Descs |-> IF x \in DescsOf(q) THEN NoPtr ELSE ptr[x]]
      /\ status' = [status EXCEPT ![q] = "done"]
      /\ UNCHANGED <<cache, compiled, last>>
  BY DEF EndQuery, FastAfterRelease
<1>2. /\ status' \in [Queries -> {"new", "running", "done"}]
      /\ status'[q] = "done" /\ \A p \in Queries : p # q => status'[p] = status[p]
  BY <1>1 DEF IInv, PtrInv
<1>3. /\ ptr' \in [Descs -> Ptrs \cup {NoPtr}]
      /\ \A x \in Descs : ptr'[x] = IF QueryOf[x] = q THEN NoPtr ELSE ptr[x]
  BY <1>1 DEF DescsOf, IInv, PtrInv
<1>4. \A x \in Descs : ptr'[x] # NoPtr <=> status'[QueryOf[x]] = "running"
  BY <1>2, <1>3 DEF IInv, PtrInv
<1>5. \A x, y \in Descs : ptr'[x] = ptr'[y] => x = y \/ ptr'[x] = NoPtr
  BY <1>3 DEF IInv, PtrInv
<1>6. PtrInv'
  BY <1>2, <1>3, <1>4, <1>5 DEF PtrInv
<1>7. FastInv'
  BY <1>1 DEF FastInv
<1>8. CacheInv' /\ LastInv'
  BY <1>1 DEF IInv, CacheInv, LastInv, CallRunsOwnCode
<1> QED
  BY <1>6, <1>7, <1>8 DEF IInv
-----------------------------------------------------------------------------
(* Calls. *)

LEMMA HitIsUnique ==
  ASSUME FastInv, NEW c \in Calls, FastHits(c) # {}
  PROVE  FastHit(c) \in 1..Len(fast) /\ FastMatches(fast[FastHit(c)], c)
<1>1. DOMAIN fast = 1..Len(fast) /\ \A i \in 1..Len(fast) : fast[i] \in FastEntries
  BY LenProperties, ElementOfSeq DEF FastInv
<1>2. PICK i \in FastHits(c) : TRUE
  OBVIOUS
<1>3. ASSUME NEW j \in FastHits(c) PROVE i <= j
  <2>1. /\ i \in 1..Len(fast) /\ j \in 1..Len(fast)
        /\ FastMatches(fast[i], c) /\ FastMatches(fast[j], c)
    BY <1>1 DEF FastHits
  <2>2. Uncoded(fast[i]) = Uncoded(fast[j])
    BY <1>1, <2>1, SameEntry DEF FastMatches
  <2>3. i = j
    BY <2>1, <2>2 DEF FastInv
  <2> QED
    BY <2>1, <2>3
<1>4. FastHit(c) \in FastHits(c)
  BY <1>3 DEF FastHit
<1> QED
  BY <1>1, <1>4 DEF FastHits

LEMMA CacheHitIsUnique ==
  ASSUME CacheInv, DeformCache, NEW c \in Calls, CacheHits(c) # {}
  PROVE  CacheHit(c) \in 1..Len(cache) /\ cache[CacheHit(c)] = CodeFor(c)
<1>1. DOMAIN cache = 1..Len(cache) /\ \A i \in 1..Len(cache) : cache[i] \in Codes
  BY LenProperties, ElementOfSeq DEF CacheInv
<1>2. \A i \in CacheHits(c) : i \in 1..Len(cache) /\ cache[i] = CodeFor(c)
  BY <1>1, CacheIsExact DEF CacheHits
<1>3. PICK i \in CacheHits(c) : TRUE
  OBVIOUS
<1>4. ASSUME NEW j \in CacheHits(c) PROVE i <= j
  <2>1. /\ i \in 1..Len(cache) /\ j \in 1..Len(cache) /\ cache[i] = cache[j]
    BY <1>2, <1>3
  <2>2. i = j
    BY <2>1 DEF CacheInv
  <2> QED
    BY <2>1, <2>2
<1>5. CacheHit(c) \in CacheHits(c)
  BY <1>4 DEF CacheHit
<1> QED
  BY <1>2, <1>5

\* Moving an entry of the fast path to the front.
LEMMA FastMoved ==
  ASSUME IInv, NEW i \in 1..Len(fast), fast' = <<fast[i]>> \o RemoveAt(fast, i),
         UNCHANGED <<status, ptr>>
  PROVE  FastInv'
<1> DEFINE n == Len(fast)
           From(j) == IF j = 1 THEN i ELSE IF j <= i THEN j-1 ELSE j
<1>1. fast \in Seq(FastEntries) /\ n \in Nat
  BY LenProperties DEF IInv, FastInv
<1>2. /\ fast' \in Seq(FastEntries) /\ Len(fast') = n /\ fast'[1] = fast[i]
      /\ \A j \in 2..n : fast'[j] = IF j <= i THEN fast[j-1] ELSE fast[j]
  BY <1>1, MoveToFront
<1>3. \A j \in 1..n : From(j) \in 1..n /\ fast'[j] = fast[From(j)]
  BY <1>1, <1>2
<1>4. \A j, k \in 1..n : From(j) = From(k) => j = k
  BY <1>1
<1> HIDE DEF From
<1>5. /\ n <= FastSize /\ \A j \in 1..n : IsEntry(fast[j], ptr)
      /\ \A j, k \in 1..n : Uncoded(fast[j]) = Uncoded(fast[k]) => j = k
  BY DEF IInv, FastInv
<1>6. \A j \in 1..n : IsEntry(fast'[j], ptr')
  BY <1>3, <1>5
<1>7. \A j, k \in 1..n : Uncoded(fast'[j]) = Uncoded(fast'[k]) => j = k
  <2> SUFFICES ASSUME NEW j \in 1..n, NEW k \in 1..n, Uncoded(fast'[j]) = Uncoded(fast'[k])
               PROVE  j = k
    OBVIOUS
  <2>1. Uncoded(fast[From(j)]) = Uncoded(fast[From(k)])
    BY <1>3
  <2>2. From(j) = From(k)
    BY <1>3, <1>5, <2>1
  <2> QED
    BY <1>4, <2>2
<1> QED
  BY <1>2, <1>5, <1>6, <1>7 DEF FastInv

\* Inserting an entry for a call that no entry matches.
LEMMA FastInserted ==
  ASSUME IInv, NEW c \in Calls, ptr[c.desc] # NoPtr, FastHits(c) = {},
         fast' = FastInsert(c, CodeFor(c)), UNCHANGED <<status, ptr>>
  PROVE  FastInv'
<1> DEFINE e == FastEntry(c, CodeFor(c))
           n == Len(fast)
           m == IF n < FastSize THEN n ELSE FastSize - 1
<1>1. fast \in Seq(FastEntries) /\ n \in Nat /\ n <= FastSize /\ DOMAIN fast = 1..n
      /\ \A j \in 1..n : fast[j] \in FastEntries
  BY LenProperties, ElementOfSeq DEF IInv, FastInv
<1>2. c.desc \in Descs /\ c.natts \in NattsOf[c.desc] /\ e = EntryFor(c.desc, c.natts, ptr)
  BY CallFields DEF FastEntry, EntryFor
<1>3. e \in FastEntries /\ IsEntry(e, ptr)
  BY <1>2, EntryIsTyped DEF IInv, IsEntry
<1>4. m \in 0..n /\ m + 1 <= FastSize
  BY <1>1
<1>5. fast' = <<e>> \o SubSeq(fast, 1, m)
  BY DEF FastInsert
<1>6. \A j \in 1..n : Uncoded(fast[j]) # Uncoded(e)
  <2> SUFFICES ASSUME NEW j \in 1..n, Uncoded(fast[j]) = Uncoded(e) PROVE FALSE
    OBVIOUS
  <2>1. /\ fast[j].ptr = e.ptr /\ fast[j].ops = e.ops
        /\ fast[j].natts = e.natts /\ fast[j].type = e.type
    BY <1>1, <1>3, SameEntry
  <2>2. FastMatches(fast[j], c)
    BY <2>1 DEF FastMatches, FastEntry
  <2> QED
    BY <1>1, <2>2 DEF FastHits
<1> HIDE DEF e, m
<1>7. /\ fast' \in Seq(FastEntries) /\ Len(fast') = m + 1 /\ fast'[1] = e
      /\ \A j \in 2..m+1 : fast'[j] = fast[j-1]
  BY <1>1, <1>3, <1>4, <1>5, PushFront
<1>8. \A j \in 1..m+1 : j = 1 \/ (j-1 \in 1..n /\ j \in 2..m+1)
  BY <1>4, <1>1
<1>9. \A j \in 1..m+1 : IsEntry(fast'[j], ptr')
  BY <1>3, <1>7, <1>8 DEF IInv, FastInv
<1>10. ASSUME NEW j \in 1..m+1, NEW k \in 1..m+1, Uncoded(fast'[j]) = Uncoded(fast'[k])
       PROVE  j = k
  <2>1. CASE j = 1 /\ k # 1
    BY <1>6, <1>7, <1>8, <1>10, <2>1
  <2>2. CASE j # 1 /\ k = 1
    BY <1>6, <1>7, <1>8, <1>10, <2>2
  <2>3. CASE j # 1 /\ k # 1
    <3>1. fast'[j] = fast[j-1] /\ fast'[k] = fast[k-1] /\ j-1 \in 1..n /\ k-1 \in 1..n
      BY <1>7, <1>8, <2>3
    <3>2. j-1 = k-1
      BY <1>10, <3>1 DEF IInv, FastInv
    <3> QED
      BY <3>2, <1>4
  <2> QED
    BY <2>1, <2>2, <2>3
<1> QED
  BY <1>4, <1>7, <1>9, <1>10 DEF FastInv

\* What a call of running code leaves for LastInv.
LEMMA RunsOwn ==
  ASSUME NEW c \in Calls, NEW k \in {CodeFor(c), Interpreter}, Runs(c, k) PROVE LastInv'
BY DEF Runs, LastInv, CallRunsOwnCode, Codes

LEMMA CallFastInv ==
  ASSUME IInv, NEW c \in Calls, ptr[c.desc] # NoPtr, CallFast(c), UNCHANGED <<status, ptr>>
  PROVE  IInv'
<1>1. /\ FastHits(c) # {} /\ fast' = <<fast[FastHit(c)]>> \o RemoveAt(fast, FastHit(c))
      /\ Runs(c, fast[FastHit(c)].code) /\ UNCHANGED <<cache, compiled>>
  BY DEF CallFast
<1>2. FastHit(c) \in 1..Len(fast) /\ FastMatches(fast[FastHit(c)], c)
  BY <1>1, HitIsUnique DEF IInv
<1>3. fast[FastHit(c)].code = CodeFor(c)
  BY <1>2, MatchIsExact DEF IInv, FastInv
<1>4. FastInv'
  BY <1>1, <1>2, FastMoved
<1>5. LastInv'
  BY <1>1, <1>3, RunsOwn
<1>6. PtrInv' /\ CacheInv'
  BY <1>1 DEF IInv, PtrInv, CacheInv
<1> QED
  BY <1>4, <1>5, <1>6 DEF IInv

LEMMA CallCachedInv ==
  ASSUME IInv, NEW c \in Calls, ptr[c.desc] # NoPtr, CallCached(c), UNCHANGED <<status, ptr>>
  PROVE  IInv'
<1>1. /\ DeformCache /\ FastHits(c) = {} /\ CacheHits(c) # {}
      /\ fast' = FastInsert(c, cache[CacheHit(c)]) /\ Runs(c, cache[CacheHit(c)])
      /\ UNCHANGED <<cache, compiled>>
  BY DEF CallCached
<1>2. cache[CacheHit(c)] = CodeFor(c)
  BY <1>1, CacheHitIsUnique DEF IInv
<1>3. FastInv'
  BY <1>1, <1>2, FastInserted
<1>4. LastInv'
  BY <1>1, <1>2, RunsOwn
<1>5. PtrInv' /\ CacheInv'
  BY <1>1 DEF IInv, PtrInv, CacheInv
<1> QED
  BY <1>3, <1>4, <1>5 DEF IInv

LEMMA CallCompilesInv ==
  ASSUME IInv, NEW c \in Calls, ptr[c.desc] # NoPtr, CallCompiles(c), UNCHANGED <<status, ptr>>
  PROVE  IInv'
<1> DEFINE k == CodeFor(c)
<1>1. /\ Missing(c) /\ compiled' = [compiled EXCEPT ![k] = @ + 1]
      /\ cache' = IF DeformCache /\ CacheHasRoom(c) THEN Append(cache, k) ELSE cache
      /\ fast' = IF DeformCache THEN FastInsert(c, k) ELSE fast
      /\ Runs(c, k)
  BY DEF CallCompiles
<1>2. /\ k \in Codes /\ k.natts = c.natts /\ QueryOf[c.desc] \in Queries
      /\ c.natts \in Nat
  BY CallFields DEF Codes, CodeFor
<1> HIDE DEF k
<1>3. FastInv'
  <2>1. CASE DeformCache
    BY <1>1, <2>1, FastInserted DEF Missing, k
  <2>2. CASE ~DeformCache
    <3>1. fast' = fast
      BY <1>1, <2>2
    <3> QED
      BY <3>1 DEF IInv, FastInv, IsEntry, EntryFor
  <2> QED
    BY <2>1, <2>2
<1>4. PtrInv' /\ LastInv'
  BY <1>1, RunsOwn DEF IInv, PtrInv, k
<1>5. /\ cache \in Seq(Codes) /\ Len(cache) \in Nat /\ Len(cache) <= CacheSize
      /\ DOMAIN cache = 1..Len(cache) /\ \A i \in 1..Len(cache) : cache[i] \in Codes
  BY LenProperties, ElementOfSeq DEF IInv, CacheInv
<1>6. /\ compiled' \in [Codes -> Nat]
      /\ compiled'[k] = compiled[k] + 1
      /\ \A h \in Codes : h # k => compiled'[h] = compiled[h]
  BY <1>1, <1>2 DEF IInv, CacheInv
<1>7. DeformCache => \A i \in 1..Len(cache) : cache[i] # k
  BY <1>1, <1>5, CacheIsExact DEF Missing, CacheHits, k
<1>8. DeformCache =>
        /\ \A i \in 1..Len(cache) : compiled[cache[i]] = 1
        /\ \A i, j \in 1..Len(cache) : cache[i] = cache[j] => i = j
        /\ \A h \in Codes : compiled[h] > 0 =>
              (\E i \in 1..Len(cache) : cache[i] = h) \/ h.natts > MaxAttrs \/ Len(cache) = CacheSize
  BY DEF IInv, CacheInv
<1>9. compiled \in [Codes -> Nat] /\ CacheSize \in Nat /\ MaxAttrs \in Nat
  BY DEF IInv, CacheInv
<1>11. Len(cache) < CacheSize <=> Len(cache) # CacheSize
  <2>1. Len(cache) \in Nat /\ Len(cache) <= CacheSize
    BY <1>5
  <2> QED
    BY <1>9, <2>1
<1>10. CacheInv'
  <2>1. CASE DeformCache /\ CacheHasRoom(c)
    <3>1. cache' = Append(cache, k) /\ Len(cache) < CacheSize /\ c.natts <= MaxAttrs
      BY <1>1, <2>1 DEF CacheHasRoom
    <3>2. /\ cache' \in Seq(Codes) /\ Len(cache') = Len(cache) + 1
          /\ \A i \in 1..Len(cache) : cache'[i] = cache[i]
          /\ cache'[Len(cache)+1] = k
      BY <1>2, <1>5, <3>1, AppendProperties
    <3>3. \A i \in 1..Len(cache') : i \in 1..Len(cache) \/ i = Len(cache)+1
      BY <1>5, <3>2
    <3>4. compiled[k] = 0
      <4>1. ~(k.natts > MaxAttrs) /\ Len(cache) # CacheSize /\ compiled[k] \in Nat
        <5>1. Len(cache) # CacheSize
          BY <1>11, <3>1
        <5>2. ~(c.natts > MaxAttrs)
          BY <1>2, <3>1
        <5>3. compiled[k] \in Nat
          BY <1>2, <1>9
        <5> QED
          BY <1>2, <5>1, <5>2, <5>3
      <4>2. ~(compiled[k] > 0)
        BY <1>2, <1>7, <1>8, <2>1, <4>1
      <4> QED
        BY <4>1, <4>2
    <3>5. \A i \in 1..Len(cache') : compiled'[cache'[i]] = 1
      <4> SUFFICES ASSUME NEW i \in 1..Len(cache') PROVE compiled'[cache'[i]] = 1
        OBVIOUS
      <4>1. CASE i \in 1..Len(cache)
        <5>1. cache[i] \in Codes /\ cache[i] # k /\ compiled[cache[i]] = 1
          BY <1>5, <1>7, <1>8, <2>1, <4>1
        <5>2. cache'[i] = cache[i]
          BY <3>2, <4>1
        <5>3. compiled'[cache[i]] = compiled[cache[i]]
          BY <1>6, <5>1
        <5> QED
          BY <5>1, <5>2, <5>3
      <4>2. CASE i = Len(cache)+1
        BY <1>6, <3>2, <3>4, <4>2
      <4> QED
        BY <3>3, <4>1, <4>2
    <3>6. \A i, j \in 1..Len(cache') : cache'[i] = cache'[j] => i = j
      <4> SUFFICES ASSUME NEW i \in 1..Len(cache'), NEW j \in 1..Len(cache'),
                          cache'[i] = cache'[j]
                   PROVE  i = j
        OBVIOUS
      <4>1. CASE i \in 1..Len(cache) /\ j \in 1..Len(cache)
        BY <1>8, <2>1, <3>2, <4>1
      <4>2. CASE i = Len(cache)+1 \/ j = Len(cache)+1
        BY <1>7, <2>1, <3>2, <3>3, <4>2
      <4> QED
        BY <3>3, <4>1, <4>2
    <3>7. ASSUME NEW h \in Codes, compiled'[h] > 0
          PROVE  \/ \E i \in 1..Len(cache') : cache'[i] = h
                 \/ h.natts > MaxAttrs
                 \/ Len(cache') = CacheSize
      <4>1. CASE h = k
        <5>1. Len(cache)+1 \in 1..Len(cache')
          BY <1>5, <3>2
        <5> QED
          BY <3>2, <4>1, <5>1
      <4>2. CASE h # k
        <5>1. \/ \E i \in 1..Len(cache) : cache[i] = h
              \/ h.natts > MaxAttrs
          <6>1. compiled[h] > 0
            BY <1>6, <3>7, <4>2
          <6>2. Len(cache) # CacheSize
            BY <1>11, <3>1
          <6> QED
            BY <1>8, <2>1, <6>1, <6>2
        <5>2. \A i \in 1..Len(cache) : i \in 1..Len(cache')
          BY <1>5, <3>2
        <5> QED
          BY <3>2, <5>1, <5>2
      <4> QED
        BY <4>1, <4>2
    <3> QED
      BY <1>5, <1>6, <3>1, <3>2, <3>5, <3>6, <3>7 DEF CacheInv
  <2>2. CASE ~(DeformCache /\ CacheHasRoom(c))
    <3>1. cache' = cache
      BY <1>1, <2>2
    <3>2. DeformCache => k.natts > MaxAttrs \/ Len(cache) = CacheSize
      <4>1. DeformCache => Len(cache) = CacheSize \/ ~(c.natts <= MaxAttrs)
        BY <1>11, <2>2 DEF CacheHasRoom
      <4>2. ~(c.natts <= MaxAttrs) => c.natts > MaxAttrs
        BY <1>2, <1>9
      <4>3. k.natts = c.natts
        BY <1>2
      <4> QED
        BY <4>1, <4>2, <4>3
    <3>3. DeformCache => \A i \in 1..Len(cache) : compiled'[cache[i]] = 1
      BY <1>5, <1>6, <1>7, <1>8
    <3>4. ASSUME DeformCache, NEW h \in Codes, compiled'[h] > 0
          PROVE  \/ \E i \in 1..Len(cache) : cache[i] = h
                 \/ h.natts > MaxAttrs
                 \/ Len(cache) = CacheSize
      BY <1>6, <1>8, <3>2, <3>4
    <3> QED
      BY <1>5, <1>6, <1>8, <3>1, <3>3, <3>4 DEF CacheInv
  <2> QED
    BY <2>1, <2>2
<1> QED
  BY <1>3, <1>4, <1>10 DEF IInv

LEMMA CallInterpretsInv ==
  ASSUME IInv, NEW c \in Calls, CallInterprets(c), UNCHANGED <<status, ptr>>
  PROVE  IInv'
<1>1. Runs(c, Interpreter) /\ UNCHANGED <<fast, cache, compiled>>
  BY DEF CallInterprets
<1>2. PtrInv' /\ CacheInv'
  BY <1>1 DEF IInv, PtrInv, CacheInv
<1>3. FastInv'
  BY <1>1 DEF IInv, FastInv, IsEntry, EntryFor
<1>4. LastInv'
  BY <1>1, RunsOwn
<1> QED
  BY <1>2, <1>3, <1>4 DEF IInv

LEMMA CallInv ==
  ASSUME IInv, NEW c \in Calls, Call(c) PROVE IInv'
<1>1. /\ CallFast(c) \/ CallCached(c) \/ CallCompiles(c) \/ CallInterprets(c)
      /\ UNCHANGED <<status, ptr>> /\ status[QueryOf[c.desc]] = "running"
  BY DEF Call
<1>2. ptr[c.desc] # NoPtr
  BY <1>1, CallFields DEF IInv, PtrInv
<1> QED
  BY <1>1, <1>2, CallFastInv, CallCachedInv, CallCompilesInv, CallInterpretsInv

-----------------------------------------------------------------------------
(* The theorems. *)

LEMMA StepInv == IInv /\ [Next]_vars => IInv'
<1> SUFFICES ASSUME IInv, [Next]_vars PROVE IInv'
  OBVIOUS
<1>1. ASSUME NEW q \in Queries, StartQuery(q) \/ EndQuery(q) PROVE IInv'
  BY <1>1, StartQueryInv, EndQueryInv
<1>2. ASSUME NEW c \in Calls, Call(c) PROVE IInv'
  BY <1>2, CallInv
<1>3. CASE UNCHANGED vars
  <2>1. PtrInv' /\ CacheInv'
    BY <1>3 DEF vars, IInv, PtrInv, CacheInv
  <2>2. FastInv'
    BY <1>3 DEF vars, IInv, FastInv, IsEntry, EntryFor
  <2>3. LastInv'
    BY <1>3 DEF vars, IInv, LastInv, CallRunsOwnCode
  <2> QED
    BY <2>1, <2>2, <2>3 DEF IInv
<1> QED
  BY <1>1, <1>2, <1>3 DEF Next

LEMMA Invariance == Spec => []IInv
BY InitInv, StepInv, PTL DEF Spec

\* The types: the fast path and the cache of
\* pg_jitter_compiled_deform_dispatch stay within their sizes.
THEOREM Typing == Spec => []TypeOK
<1>1. IInv => TypeOK
  BY DEF IInv, PtrInv, FastInv, CacheInv, LastInv, TypeOK
<1> QED
  BY <1>1, Invariance, PTL

\* What pg_jitter_compiled_deform_dispatch runs for a slot is the code for the
\* slot's own attributes, or the interpreter: whatever memory descriptors are
\* given again, and whatever attributes collide in the hash.
THEOREM OwnCode == Spec => []CallRunsOwnCode
<1>1. IInv => CallRunsOwnCode
  BY DEF IInv, LastInv
<1> QED
  BY <1>1, Invariance, PTL

\* Every entry of the fast path points to a descriptor of a running query, and
\* no two entries are for the same call.
THEOREM FastPathExact == Spec => []FastPathIsExact
<1>1. IInv => FastPathIsExact
  <2> SUFFICES ASSUME IInv PROVE FastPathIsExact
    OBVIOUS
  <2>1. DOMAIN fast = 1..Len(fast)
    BY LenProperties DEF IInv, FastInv
  <2>2. ASSUME NEW i \in 1..Len(fast)
        PROVE  \E x \in Descs : ptr[x] = fast[i].ptr /\ status[QueryOf[x]] = "running"
    <3>1. PICK x \in Descs : \E n \in NattsOf[x] : ptr[x] # NoPtr /\ fast[i] = EntryFor(x, n, ptr)
      BY DEF IInv, FastInv, IsEntry
    <3>2. ptr[x] = fast[i].ptr
      BY <3>1 DEF EntryFor
    <3> QED
      BY <3>1, <3>2 DEF IInv, PtrInv
  <2>3. \A i, j \in 1..Len(fast) :
            [fast[i] EXCEPT !.code = 0] = [fast[j] EXCEPT !.code = 0] => i = j
    BY DEF IInv, FastInv, Uncoded
  <2> QED
    BY <2>1, <2>2, <2>3 DEF FastPathIsExact, Range
<1> QED
  BY <1>1, Invariance, PTL

\* With pg_jitter.deform_cache on, code is compiled a second time only when it
\* is for more columns than the cache takes or the cache was full.
THEOREM CompiledAgainOnlyUncached ==
  ASSUME DeformCache PROVE Spec => []CompiledAgain
<1>1. IInv => CompiledAgain
  <2> SUFFICES ASSUME IInv, NEW k \in Codes, compiled[k] > 1
               PROVE  k \notin Range(cache) /\ (k.natts > MaxAttrs \/ Len(cache) = CacheSize)
    BY DEF CompiledAgain
  <2>1. DOMAIN cache = 1..Len(cache) /\ compiled[k] \in Nat
    BY LenProperties DEF IInv, CacheInv
  <2>2. /\ \A i \in 1..Len(cache) : compiled[cache[i]] = 1
        /\ compiled[k] > 0 => \/ \E i \in 1..Len(cache) : cache[i] = k
                              \/ k.natts > MaxAttrs
                              \/ Len(cache) = CacheSize
    BY DEF IInv, CacheInv
  <2>3. ASSUME NEW i \in 1..Len(cache), cache[i] = k PROVE FALSE
    <3>1. compiled[k] = 1
      BY <2>2, <2>3
    <3> QED
      BY <3>1
  <2>4. k \notin Range(cache)
    BY <2>1, <2>3 DEF Range
  <2>5. compiled[k] > 0
    BY <2>1
  <2>6. k.natts > MaxAttrs \/ Len(cache) = CacheSize
    BY <2>2, <2>3, <2>5
  <2> QED
    BY <2>4, <2>6
<1> QED
  BY <1>1, Invariance, PTL
=============================================================================
