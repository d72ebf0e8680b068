--------------------------- MODULE DeformDispatch ---------------------------
(***************************************************************************)
(* pg_jitter_compiled_deform_dispatch: compiled expressions call it with a *)
(* slot to take the first natts columns of its tuple apart.  It compiles   *)
(* the code for that on demand and keeps it in two tables of the process:  *)
(*   - the cache, by hash of the attributes, a copy of which it keeps to   *)
(*     tell collisions apart, of limited size and for few columns only;    *)
(*   - the fast path, a short list by POINTER to the descriptor, the most  *)
(*     recently used first, emptied when any JIT context is released.      *)
(*                                                                         *)
(* Descriptors live as long as their query, and palloc gives their memory  *)
(* to descriptors of later queries.  Queries of one process may nest.      *)
(* The shared page, tried before the two tables, is in SharedDeform.  Code *)
(* is named by the kind of slot and the attributes it was compiled for.    *)
(***************************************************************************)
EXTENDS Integers, Sequences, SequencesExt

CONSTANTS
    Queries,      \* queries of the process
    Descs,        \* tuple descriptors
    QueryOf,      \* QueryOf[x]: the query of descriptor x
    OpsOf,        \* OpsOf[x]: the kind of its slot (tts_ops)
    TypeOf,       \* TypeOf[x]: its tdtypeid and tdtypmod
    NattsOf,      \* NattsOf[x]: the numbers of columns it is deformed to
    AttrsOf,      \* AttrsOf[x][n]: its first n attributes
    Hash,         \* Hash[a]: CRC32C of attributes a
    Ptrs, NoPtr,  \* places for descriptors, and a descriptor not allocated
    FastSize,     \* DISPATCH_FASTPATH_SIZE
    CacheSize,    \* DEFORM_DISPATCH_CACHE_SIZE
    MaxAttrs,     \* DEFORM_MAX_CACHED_ATTRS
    DeformCache,  \* pg_jitter.deform_cache
    MaxCompiles,  \* bound: compilations of the same code that are explored
    Interpreter   \* slot_getsomeattrs_int

ASSUME DeformDispatchAssumption ==
    /\ QueryOf \in [Descs -> Queries]
    /\ DOMAIN OpsOf = Descs /\ DOMAIN TypeOf = Descs
    /\ NattsOf \in [Descs -> SUBSET (Nat \ {0})]
    /\ NoPtr \notin Ptrs
    /\ FastSize \in Nat \ {0} /\ CacheSize \in Nat /\ MaxAttrs \in Nat
    /\ MaxCompiles \in Nat
    /\ DeformCache \in BOOLEAN

Calls == UNION {{[desc |-> x, natts |-> n] : n \in NattsOf[x]} : x \in Descs}

\* The code a call needs.
CodeFor(c) == [ops |-> OpsOf[c.desc], natts |-> c.natts,
               attrs |-> AttrsOf[c.desc][c.natts]]
Codes == {CodeFor(c) : c \in Calls}

VARIABLES
    status,       \* status[q]: "new", "running" or "done"
    ptr,          \* ptr[x]: where descriptor x is
    fast,         \* dispatch_fast: descriptor pointer, ops, type, natts, code
    cache,        \* deform_dispatch_cache: the codes in it
    compiled,     \* compiled[k]: how often code k has been compiled
    last          \* the last call, what ran for it, and what it needed

vars == <<status, ptr, fast, cache, compiled, last>>

Zero == [k \in Codes |-> 0]
NoCall == [ran |-> Interpreter, needs |-> Interpreter]

Init ==
    /\ status = [q \in Queries |-> "new"]
    /\ ptr = [x \in Descs |-> NoPtr]
    /\ fast = <<>>
    /\ cache = <<>>
    /\ compiled = Zero
    /\ last = NoCall

-----------------------------------------------------------------------------
(* Queries. *)

DescsOf(q) == {x \in Descs : QueryOf[x] = q}
UsedPtrs == {ptr[x] : x \in Descs} \ {NoPtr}

StartQuery(q) ==
    /\ status[q] = "new"
    /\ \E place \in [DescsOf(q) -> Ptrs \ UsedPtrs] :
            /\ \A x, y \in DescsOf(q) : place[x] = place[y] => x = y
            /\ ptr' = [x \in Descs |->
                        IF x \in DescsOf(q) THEN place[x] ELSE ptr[x]]
    /\ status' = [status EXCEPT ![q] = "running"]
    /\ UNCHANGED <<fast, cache, compiled, last>>

\* Release of the JIT context: the fast path of every backend is emptied.
FastAfterReleaseKept == fast
FastAfterRelease == <<>>

EndQuery(q) ==
    /\ status[q] = "running"
    /\ fast' = FastAfterRelease
    /\ ptr' = [x \in Descs |-> IF x \in DescsOf(q) THEN NoPtr ELSE ptr[x]]
    /\ status' = [status EXCEPT ![q] = "done"]
    /\ UNCHANGED <<cache, compiled, last>>

-----------------------------------------------------------------------------
(* One call. *)

FastMatches(e, c) ==
    /\ e.ptr = ptr[c.desc] /\ e.ops = OpsOf[c.desc] /\ e.natts = c.natts
    /\ e.type = TypeOf[c.desc]
FastHits(c) == {i \in DOMAIN fast : FastMatches(fast[i], c)}
FastHit(c) == CHOOSE i \in FastHits(c) : \A j \in FastHits(c) : i <= j

\* The comparison with the attributes kept is what tells collisions apart.
CacheMatchesHash(k, c) ==
    LET need == CodeFor(c)
    IN  /\ k.natts = need.natts /\ k.ops = need.ops
        /\ Hash[k.attrs] = Hash[need.attrs]
CacheMatches(k, c) ==
    LET need == CodeFor(c)
    IN  /\ k.natts = need.natts /\ k.ops = need.ops
        /\ Hash[k.attrs] = Hash[need.attrs]
        /\ k.attrs = need.attrs
CacheHits(c) == {i \in DOMAIN cache : CacheMatches(cache[i], c)}
CacheHit(c) == CHOOSE i \in CacheHits(c) : \A j \in CacheHits(c) : i <= j

FastEntry(c, k) ==
    [ptr |-> ptr[c.desc], ops |-> OpsOf[c.desc], natts |-> c.natts,
     type |-> TypeOf[c.desc], code |-> k]

\* Insertion in front; a full list loses its last entry.
FastInsertUncapped(c, k) == <<FastEntry(c, k)>> \o fast
FastInsert(c, k) ==
    <<FastEntry(c, k)>> \o SubSeq(fast, 1, IF Len(fast) < FastSize
                                           THEN Len(fast) ELSE FastSize - 1)

CacheHasRoomOffByOne(c) == Len(cache) < CacheSize /\ c.natts < MaxAttrs
CacheHasRoom(c) == Len(cache) < CacheSize /\ c.natts <= MaxAttrs

Runs(c, k) == last' = [ran |-> k, needs |-> CodeFor(c)]

CallFast(c) ==
    /\ DeformCache
    /\ FastHits(c) # {}
    /\ fast' = <<fast[FastHit(c)]>> \o RemoveAt(fast, FastHit(c))
    /\ Runs(c, fast[FastHit(c)].code)
    /\ UNCHANGED <<cache, compiled>>

CallCached(c) ==
    /\ DeformCache
    /\ FastHits(c) = {} /\ CacheHits(c) # {}
    /\ fast' = FastInsert(c, cache[CacheHit(c)])
    /\ Runs(c, cache[CacheHit(c)])
    /\ UNCHANGED <<cache, compiled>>

Missing(c) == DeformCache => FastHits(c) = {} /\ CacheHits(c) = {}

\* The new code is run, and with the cache on is entered in the tables; the
\* code itself is never freed.
CallCompiles(c) ==
    LET k == CodeFor(c)
    IN  /\ Missing(c)
        /\ compiled[k] < MaxCompiles
        /\ compiled' = [compiled EXCEPT ![k] = @ + 1]
        /\ cache' = IF DeformCache /\ CacheHasRoom(c)
                    THEN Append(cache, k) ELSE cache
        /\ fast' = IF DeformCache THEN FastInsert(c, k) ELSE fast
        /\ Runs(c, k)

\* No code: the interpreter does it, and nothing is remembered.
CallInterprets(c) ==
    /\ Missing(c)
    /\ Runs(c, Interpreter)
    /\ UNCHANGED <<fast, cache, compiled>>

Call(c) ==
    /\ status[QueryOf[c.desc]] = "running"
    /\ CallFast(c) \/ CallCached(c) \/ CallCompiles(c) \/ CallInterprets(c)
    /\ UNCHANGED <<status, ptr>>

Next ==
    \/ \E q \in Queries : StartQuery(q) \/ EndQuery(q)
    \/ \E c \in Calls : Call(c)

Spec == Init /\ [][Next]_vars

-----------------------------------------------------------------------------
(* Properties. *)

FastEntries == [ptr : Ptrs, ops : {OpsOf[x] : x \in Descs},
                natts : UNION {NattsOf[x] : x \in Descs},
                type : {TypeOf[x] : x \in Descs}, code : Codes]

\* The types of the variables; the tables are within their sizes.
TypeOK ==
    /\ status \in [Queries -> {"new", "running", "done"}]
    /\ ptr \in [Descs -> Ptrs \cup {NoPtr}]
    /\ fast \in Seq(FastEntries) /\ Len(fast) <= FastSize
    /\ cache \in Seq(Codes) /\ Len(cache) <= CacheSize
    /\ compiled \in [Codes -> Nat]
    /\ last \in [ran : Codes \cup {Interpreter},
                 needs : Codes \cup {Interpreter}]

\* What runs for a call takes the first natts columns of its descriptor apart:
\* no pointer that palloc has given to another descriptor, no collision of
\* hashes and no other number of columns makes it run code for another layout.
CallRunsOwnCode == last.ran \in {last.needs, Interpreter}

\* The entries of the fast path, and no two for the same call: else moving one
\* to the front would leave another behind and push out a live one.
FastPathIsExact ==
    /\ \A e \in Range(fast) : \E x \in Descs :
            ptr[x] = e.ptr /\ status[QueryOf[x]] = "running"
    /\ \A i, j \in DOMAIN fast :
            [fast[i] EXCEPT !.code = 0] = [fast[j] EXCEPT !.code = 0] => i = j

\* Code is never freed, so it must not be compiled again: that happens only to
\* code for more columns than the cache takes, or that found the cache full.
CompiledAgain ==
    \A k \in Codes : compiled[k] > 1 =>
        /\ k \notin Range(cache)
        /\ k.natts > MaxAttrs \/ Len(cache) = CacheSize
=============================================================================
