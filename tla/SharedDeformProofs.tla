------------------------- MODULE SharedDeformProofs -------------------------
(***************************************************************************)
(* SharedDeform for any queries, workers, descriptors, shapes and pages.   *)
(*                                                                         *)
(* The invariant says what the leader's place in compile_shared_deform has *)
(* made true of its header, where descriptors are, what the statics of the *)
(* leader stand for, and what a worker's place in attach_shared_deform has *)
(* made true of its page and statics.  Workers read a header while it is   *)
(* being filled.  What carries the argument is that a field once set never *)
(* changes: what a worker has taken over is what the header says, or was   *)
(* not there yet.                                                          *)
(***************************************************************************)
EXTENDS SharedDeform, TLAPS

Complete(h) == \E a \in Addrs, s \in Shapes : h = [addr |-> a, sizes |-> s, id |-> s, bytes |-> s]

\* The header that the leader is filling, after its first stores.
Filling(h) ==
    \/ lpc = "addr"  /\ h = EmptyHeader
    \/ lpc = "sizes" /\ h = [addr |-> la, sizes |-> NoShape, id |-> NoShape, bytes |-> NoShape]
    \/ lpc = "id"    /\ h = [addr |-> la, sizes |-> ShapeOf[lx], id |-> NoShape,
                             bytes |-> NoShape]
    \/ lpc = "bytes" /\ h = [addr |-> la, sizes |-> ShapeOf[lx], id |-> ShapeOf[lx],
                             bytes |-> NoShape]
    \/ lpc = "globals" /\ Complete(h)

Types ==
    /\ status \in [Queries -> {"new", "running", "done"}]
    /\ ptr \in [Descs -> Ptrs \cup {NoPtr}]
    /\ hdr = [q \in Queries |-> hdr[q]]
    /\ page \in [Processes -> [Addrs -> MaybeShapes \cup {Unmapped}]]
    /\ fn \in [Processes -> MaybeAddrs]
    /\ key \in [Processes -> MaybeShapes]
    /\ valid \in Ptrs \cup {NoPtr}
    /\ lpc \in {"idle", "addr", "sizes", "id", "bytes", "globals"}
    /\ lx \in Descs
    /\ la \in MaybeAddrs
    /\ wpc \in [Workers -> {"new", "ready", "alloc", "globals", "done"}]
    /\ wq \in [Workers -> Queries]
    /\ wseg \in [Workers -> Queries]

\* A header is empty, complete, or being filled.
HeaderInv ==
    \A q \in Queries : \/ hdr[q] = EmptyHeader
                       \/ Complete(hdr[q])
                       \/ lpc # "idle" /\ q = QueryOf[lx]

\* What the leader has while it compiles and publishes.
LeaderAt ==
    lpc # "idle" =>
        /\ la \in Addrs
        /\ page[Leader][la] = ShapeOf[lx]
        /\ status[QueryOf[lx]] = "running"
        /\ Filling(hdr[QueryOf[lx]])

\* Descriptors are where they are as long as their query runs.
PtrInv ==
    /\ \A x \in Descs : ptr[x] # NoPtr <=> status[QueryOf[x]] = "running"
    /\ \A x, y \in Descs : ptr[x] = ptr[y] => x = y \/ ptr[x] = NoPtr

\* The statics of the leader name a page it has filled for their shape, and a
\* descriptor of that shape which is still allocated.
StaticsInv ==
    /\ fn[Leader] = NoAddr <=> key[Leader] = NoShape
    /\ fn[Leader] # NoAddr => page[Leader][fn[Leader]] = key[Leader]
    /\ valid # NoPtr => \E x \in Descs : ptr[x] = valid /\ ShapeOf[x] = key[Leader]

\* What a worker has is of one segment, which it looks at until it lets go of
\* the page: either not yet there when it was read, or as the header says.
WorkerInv ==
    \A w \in Workers :
        /\ wpc[w] \notin {"ready"} => fn[w] = NoAddr
        /\ wpc[w] \in {"alloc", "globals"} =>
             hdr[wseg[w]].addr \in Addrs /\ hdr[wseg[w]].sizes # NoShape
        /\ wpc[w] = "globals" =>
             page[w][hdr[wseg[w]].addr] \in {NoShape, hdr[wseg[w]].bytes}
        /\ fn[w] # NoAddr =>
             page[w][fn[w]] \in {NoShape, hdr[wseg[w]].bytes} /\ key[w] \in {NoShape, hdr[wseg[w]].id}

IInv == /\ Types /\ HeaderInv /\ LeaderAt /\ PtrInv /\ (~Meta => StaticsInv)
        /\ WorkerInv /\ WorkerPagesAreOwned

USE SharedDeformAssumption DEF Processes

-----------------------------------------------------------------------------
LEMMA ShapesOf == \A x \in Descs : ShapeOf[x] \in Shapes /\ ShapeOf[x] # NoShape
                                   /\ ShapeOf[x] # Unmapped
BY DEF Shapes

LEMMA CompleteHeader ==
  ASSUME NEW h, Complete(h)
  PROVE  /\ h.addr \in Addrs /\ h.addr # NoAddr /\ h.bytes \in Shapes
         /\ h.id = h.bytes /\ h.sizes = h.bytes /\ h.bytes # NoShape /\ h.bytes # Unmapped
         /\ h # EmptyHeader
BY DEF Complete, EmptyHeader

LEMMA InitInv == Init => IInv
<1> SUFFICES ASSUME Init PROVE IInv
  OBVIOUS
<1>1. Types
  <2>1. (CHOOSE x \in Descs : TRUE) \in Descs
    OBVIOUS
  <2>2. (CHOOSE q \in Queries : TRUE) \in Queries
    OBVIOUS
  <2> QED
    BY <2>1, <2>2 DEF Init, Types, MaybeShapes, MaybeAddrs
<1>2. HeaderInv /\ LeaderAt /\ PtrInv
  BY DEF Init, HeaderInv, LeaderAt, PtrInv
<1>3. StaticsInv /\ WorkerInv
  BY DEF Init, StaticsInv, WorkerInv
<1>4. WorkerPagesAreOwned
  BY DEF Init, WorkerPagesAreOwned
<1> QED
  BY <1>1, <1>2, <1>3, <1>4 DEF IInv

\* What each worker has is not touched: for steps of the leader.
Untouched == \A w \in Workers : page'[w] = page[w] /\ fn'[w] = fn[w] /\ key'[w] = key[w]

\* A header's fields that are set stay as they are.
Grows(h, k) ==
    /\ h.addr \in Addrs => k.addr = h.addr
    /\ h.sizes # NoShape => k.sizes = h.sizes
    /\ h.id # NoShape => k.id = h.id
    /\ h.bytes # NoShape => k.bytes = h.bytes

\* A step that only adds to headers leaves the workers' invariant.
LEMMA WorkersKept ==
  ASSUME IInv, Types', Untouched, UNCHANGED <<wpc, wq, wseg>>,
         \A q \in Queries : Grows(hdr[q], hdr'[q])
  PROVE  WorkerInv' /\ WorkerPagesAreOwned'
<1>1. ASSUME NEW w \in Workers
      PROVE  /\ wpc[w] \notin {"ready"} => fn[w] = NoAddr
             /\ wpc[w] \in {"alloc", "globals"} =>
                  hdr'[wseg[w]].addr \in Addrs /\ hdr'[wseg[w]].sizes # NoShape
             /\ wpc[w] = "globals" =>
                  page[w][hdr'[wseg[w]].addr] \in {NoShape, hdr'[wseg[w]].bytes}
             /\ fn[w] # NoAddr =>
                  page[w][fn[w]] \in {NoShape, hdr'[wseg[w]].bytes} /\ key[w] \in {NoShape, hdr'[wseg[w]].id}
  <2>1. wseg[w] \in Queries
    BY DEF IInv, Types
  <2>2. Grows(hdr[wseg[w]], hdr'[wseg[w]])
    BY <2>1
  <2> QED
    BY <2>2 DEF IInv, WorkerInv, Grows
<1>2. WorkerInv'
  BY <1>1 DEF WorkerInv, Untouched
<1>3. ASSUME NEW w \in Workers, NEW a \in Addrs
      PROVE  page'[w][a] # Unmapped <=> \/ fn'[w] = a
                                        \/ wpc'[w] = "globals" /\ hdr'[wseg'[w]].addr = a
  <2>1. wseg[w] \in Queries
    BY DEF IInv, Types
  <2>2. page[w][a] # Unmapped <=> \/ fn[w] = a
                                  \/ wpc[w] = "globals" /\ hdr[wseg[w]].addr = a
    BY DEF IInv, WorkerPagesAreOwned
  <2>3. wpc[w] = "globals" => hdr'[wseg[w]].addr = hdr[wseg[w]].addr
    BY <2>1 DEF IInv, WorkerInv, Grows
  <2> QED
    BY <2>2, <2>3 DEF Untouched
<1>4. WorkerPagesAreOwned'
  BY <1>3 DEF WorkerPagesAreOwned
<1> QED
  BY <1>2, <1>4

\* Steps of workers leave what the leader has.
LEMMA LeaderKept ==
  ASSUME IInv, UNCHANGED <<status, ptr, hdr, valid, lpc, lx, la>>,
         page'[Leader] = page[Leader], fn'[Leader] = fn[Leader], key'[Leader] = key[Leader]
  PROVE  HeaderInv' /\ LeaderAt' /\ PtrInv' /\ (~Meta => StaticsInv)'
<1>1. HeaderInv' /\ PtrInv'
  BY DEF IInv, HeaderInv, PtrInv
<1>2. (~Meta => StaticsInv)'
  BY DEF IInv, StaticsInv
<1>3. LeaderAt'
  BY DEF IInv, LeaderAt, Filling
<1> QED
  BY <1>1, <1>2, <1>3

\* The invariants of one worker.
WorkerAt(w) ==
    /\ wpc[w] \notin {"ready"} => fn[w] = NoAddr
    /\ wpc[w] \in {"alloc", "globals"} =>
         hdr[wseg[w]].addr \in Addrs /\ hdr[wseg[w]].sizes # NoShape
    /\ wpc[w] = "globals" =>
         page[w][hdr[wseg[w]].addr] \in {NoShape, hdr[wseg[w]].bytes}
    /\ fn[w] # NoAddr =>
         page[w][fn[w]] \in {NoShape, hdr[wseg[w]].bytes} /\ key[w] \in {NoShape, hdr[wseg[w]].id}
PagesOwned(w) ==
    \A a \in Addrs :
        page[w][a] # Unmapped <=> \/ fn[w] = a
                                  \/ wpc[w] = "globals" /\ hdr[wseg[w]].addr = a

LEMMA OneWorker ==
  ASSUME IInv, NEW w \in Workers, Types', UNCHANGED <<status, ptr, hdr, valid, lpc, lx, la>>,
         \A p \in Processes : p # w => /\ page'[p] = page[p] /\ fn'[p] = fn[p]
                                       /\ key'[p] = key[p],
         \A v \in Workers : v # w => /\ wpc'[v] = wpc[v] /\ wq'[v] = wq[v]
                                     /\ wseg'[v] = wseg[v],
         WorkerAt(w)', PagesOwned(w)'
  PROVE  IInv'
<1>1. Leader \in Processes /\ Leader # w
  OBVIOUS
<1>2. HeaderInv' /\ LeaderAt' /\ PtrInv' /\ (~Meta => StaticsInv)'
  BY <1>1, LeaderKept
<1>3. WorkerInv'
  <2>1. \A v \in Workers : v # w => WorkerAt(v)'
    BY DEF IInv, WorkerInv, WorkerAt
  <2> QED
    BY <2>1 DEF WorkerInv, WorkerAt
<1>4. WorkerPagesAreOwned'
  <2>1. \A v \in Workers : v # w => PagesOwned(v)'
    BY DEF IInv, WorkerPagesAreOwned, PagesOwned
  <2> QED
    BY <2>1 DEF WorkerPagesAreOwned, PagesOwned
<1> QED
  BY <1>2, <1>3, <1>4 DEF IInv

-----------------------------------------------------------------------------
(* The workers. *)

LEMMA HeaderFields ==
  ASSUME IInv, NEW q \in Queries
  PROVE  hdr[q].addr \in MaybeAddrs /\ hdr[q].id \in MaybeShapes /\ hdr[q].bytes \in MaybeShapes
<1>1. CASE hdr[q] = EmptyHeader
  BY <1>1 DEF EmptyHeader, MaybeAddrs, MaybeShapes
<1>2. CASE Complete(hdr[q])
  BY <1>2, CompleteHeader DEF MaybeAddrs, MaybeShapes
<1>3. CASE lpc # "idle" /\ q = QueryOf[lx]
  <2>1. Filling(hdr[q]) /\ la \in Addrs /\ ShapeOf[lx] \in Shapes
    BY <1>3, ShapesOf DEF IInv, LeaderAt, Types
  <2> QED
    BY <2>1, CompleteHeader DEF Filling, EmptyHeader, MaybeAddrs, MaybeShapes
<1> QED
  BY <1>1, <1>2, <1>3 DEF IInv, HeaderInv

LEMMA LaunchWorkerInv ==
  ASSUME IInv, NEW w \in Workers, NEW q \in Queries, LaunchWorker(w, q) PROVE IInv'
<1>1. /\ lpc = "idle" /\ wpc[w] = "new" /\ fn[w] = NoAddr
      /\ wpc' = [wpc EXCEPT ![w] = "ready"] /\ wq' = [wq EXCEPT ![w] = q]
      /\ UNCHANGED <<status, ptr, hdr, page, fn, key, valid, lpc, lx, la, wseg>>
  BY DEF LaunchWorker, procVars, leadVars, IInv, WorkerInv
<1>2. /\ wpc' \in [Workers -> {"new", "ready", "alloc", "globals", "done"}]
      /\ wq' \in [Workers -> Queries]
      /\ wpc'[w] = "ready" /\ wq'[w] = q
      /\ \A v \in Workers : v # w => wpc'[v] = wpc[v] /\ wq'[v] = wq[v]
  BY <1>1 DEF IInv, Types
<1>3. Types'
  BY <1>1, <1>2 DEF IInv, Types
<1>4. WorkerAt(w)' /\ PagesOwned(w)'
  BY <1>1, <1>2 DEF IInv, WorkerPagesAreOwned, WorkerAt, PagesOwned
<1> QED
  BY <1>1, <1>2, <1>3, <1>4, OneWorker

LEMMA WCheckInv ==
  ASSUME IInv, NEW w \in Workers, NEW q \in Queries, WCheck(w, q) PROVE IInv'
<1>1. /\ wpc[w] = "ready" /\ fn[w] = NoAddr /\ hdr[q].addr # NoAddr /\ hdr[q].sizes # NoShape
      /\ wpc' = [wpc EXCEPT ![w] = "alloc"] /\ wseg' = [wseg EXCEPT ![w] = q]
      /\ UNCHANGED <<status, ptr, hdr, page, fn, key, valid, lpc, lx, la, wq>>
  BY DEF WCheck, HeaderUsable, NotAttached, procVars, leadVars
<1>2. /\ wpc' \in [Workers -> {"new", "ready", "alloc", "globals", "done"}]
      /\ wseg' \in [Workers -> Queries]
      /\ wpc'[w] = "alloc" /\ wseg'[w] = q
      /\ \A v \in Workers : v # w => wpc'[v] = wpc[v] /\ wseg'[v] = wseg[v]
  BY <1>1 DEF IInv, Types
<1>3. Types'
  BY <1>1, <1>2 DEF IInv, Types
<1>4. hdr[q].addr \in Addrs
  BY <1>1, HeaderFields DEF MaybeAddrs
<1>5. WorkerAt(w)' /\ PagesOwned(w)'
  BY <1>1, <1>2, <1>4 DEF IInv, WorkerPagesAreOwned, WorkerAt, PagesOwned
<1> QED
  BY <1>1, <1>2, <1>3, <1>5, OneWorker

LEMMA WCopyInv ==
  ASSUME IInv, NEW w \in Workers, WCopy(w) PROVE IInv'
<1> DEFINE h == hdr[wseg[w]]
<1>1. /\ wpc[w] = "alloc" /\ page[w][h.addr] = Unmapped
      /\ page' = [page EXCEPT ![w][h.addr] = h.bytes]
      /\ wpc' = [wpc EXCEPT ![w] = "globals"]
      /\ UNCHANGED <<status, ptr, hdr, fn, key, valid, lpc, lx, la, wq, wseg>>
  BY DEF WCopy, leadVars
<1>2. /\ fn[w] = NoAddr /\ h.addr \in Addrs /\ wseg[w] \in Queries /\ h.bytes \in MaybeShapes
      /\ h.bytes # Unmapped
  <2>1. fn[w] = NoAddr /\ h.addr \in Addrs /\ wseg[w] \in Queries
    BY <1>1 DEF IInv, WorkerInv, Types
  <2>2. h.bytes \in MaybeShapes
    BY <2>1, HeaderFields
  <2> QED
    BY <2>1, <2>2 DEF MaybeShapes
<1>3. /\ page' \in [Processes -> [Addrs -> MaybeShapes \cup {Unmapped}]]
      /\ page'[w][h.addr] = h.bytes
      /\ \A a \in Addrs : a # h.addr => page'[w][a] = page[w][a]
      /\ \A p \in Processes : p # w => page'[p] = page[p]
  BY <1>1, <1>2 DEF IInv, Types
<1>4. /\ wpc' \in [Workers -> {"new", "ready", "alloc", "globals", "done"}]
      /\ wpc'[w] = "globals" /\ \A v \in Workers : v # w => wpc'[v] = wpc[v]
  BY <1>1 DEF IInv, Types
<1>5. Types'
  BY <1>1, <1>3, <1>4 DEF IInv, Types
<1>6. WorkerAt(w)'
  <2>1. h.sizes # NoShape
    BY <1>1 DEF IInv, WorkerInv
  <2> QED
    BY <1>1, <1>2, <1>3, <1>4, <2>1 DEF WorkerAt
<1>7. PagesOwned(w)'
  BY <1>1, <1>2, <1>3, <1>4 DEF PagesOwned, IInv, WorkerPagesAreOwned
<1> QED
  BY <1>1, <1>3, <1>4, <1>5, <1>6, <1>7, OneWorker

LEMMA WAllocFailsInv ==
  ASSUME IInv, NEW w \in Workers, WAllocFails(w) PROVE IInv'
<1>1. /\ wpc[w] = "alloc" /\ wpc' = [wpc EXCEPT ![w] = "ready"]
      /\ UNCHANGED <<status, ptr, hdr, page, fn, key, valid, lpc, lx, la, wq, wseg>>
  BY DEF WAllocFails, leadVars, procVars
<1>2. /\ wpc' \in [Workers -> {"new", "ready", "alloc", "globals", "done"}]
      /\ wpc'[w] = "ready" /\ \A v \in Workers : v # w => wpc'[v] = wpc[v]
  BY <1>1 DEF IInv, Types
<1>3. Types'
  BY <1>1, <1>2 DEF IInv, Types
<1>4. WorkerAt(w)' /\ PagesOwned(w)'
  BY <1>1, <1>2 DEF IInv, WorkerInv, WorkerPagesAreOwned, WorkerAt, PagesOwned
<1> QED
  BY <1>1, <1>2, <1>3, <1>4, OneWorker

LEMMA WSetGlobalsInv ==
  ASSUME IInv, NEW w \in Workers, WSetGlobals(w) PROVE IInv'
<1> DEFINE h == hdr[wseg[w]]
<1>1. /\ wpc[w] = "globals"
      /\ fn' = [fn EXCEPT ![w] = h.addr] /\ key' = [key EXCEPT ![w] = h.id]
      /\ wpc' = [wpc EXCEPT ![w] = "ready"]
      /\ UNCHANGED <<status, ptr, hdr, page, valid, lpc, lx, la, wq, wseg>>
  BY DEF WSetGlobals, leadVars
<1>2. /\ fn[w] = NoAddr /\ h.addr \in Addrs /\ wseg[w] \in Queries
  BY <1>1 DEF IInv, WorkerInv, Types
<1>3. h.id \in MaybeShapes
  BY <1>2, HeaderFields
<1>4. /\ fn' \in [Processes -> MaybeAddrs] /\ key' \in [Processes -> MaybeShapes]
      /\ fn'[w] = h.addr /\ key'[w] = h.id
      /\ \A p \in Processes : p # w => fn'[p] = fn[p] /\ key'[p] = key[p]
  BY <1>1, <1>2, <1>3 DEF IInv, Types, MaybeAddrs
<1>5. /\ wpc' \in [Workers -> {"new", "ready", "alloc", "globals", "done"}]
      /\ wpc'[w] = "ready" /\ \A v \in Workers : v # w => wpc'[v] = wpc[v]
  BY <1>1 DEF IInv, Types
<1>6. Types'
  BY <1>1, <1>4, <1>5 DEF IInv, Types
<1>7. WorkerAt(w)'
  BY <1>1, <1>2, <1>4, <1>5 DEF WorkerAt, IInv, WorkerInv
<1>8. PagesOwned(w)'
  BY <1>1, <1>2, <1>4, <1>5 DEF PagesOwned, IInv, WorkerPagesAreOwned
<1> QED
  BY <1>1, <1>4, <1>5, <1>6, <1>7, <1>8, OneWorker

\* pg_jitter_reset_shared_deform unmaps the page that the statics name.
LEMMA ResetPages ==
  ASSUME IInv, NEW p \in Processes, ResetSharedDeform(p)
  PROVE  /\ page' \in [Processes -> [Addrs -> MaybeShapes \cup {Unmapped}]]
         /\ \A a \in Addrs : page'[p][a] = IF a = fn[p] THEN Unmapped ELSE page[p][a]
         /\ fn' \in [Processes -> MaybeAddrs] /\ fn'[p] = NoAddr
         /\ key' \in [Processes -> MaybeShapes] /\ key'[p] = NoShape
         /\ \A r \in Processes : r # p => /\ page'[r] = page[r] /\ fn'[r] = fn[r]
                                          /\ key'[r] = key[r]
<1>1. /\ fn' \in [Processes -> MaybeAddrs] /\ fn'[p] = NoAddr
      /\ key' \in [Processes -> MaybeShapes] /\ key'[p] = NoShape
      /\ \A r \in Processes : r # p => fn'[r] = fn[r] /\ key'[r] = key[r]
  BY DEF ResetSharedDeform, IInv, Types, MaybeAddrs, MaybeShapes
<1>2. CASE fn[p] = NoAddr
  BY <1>1, <1>2 DEF ResetSharedDeform, IInv, Types
<1>3. CASE fn[p] # NoAddr
  <2>1. fn[p] \in Addrs
    BY <1>3 DEF IInv, Types, MaybeAddrs
  <2>2. page' = [page EXCEPT ![p][fn[p]] = Unmapped]
    BY <1>3 DEF ResetSharedDeform
  <2>3. /\ page' \in [Processes -> [Addrs -> MaybeShapes \cup {Unmapped}]]
        /\ \A a \in Addrs : page'[p][a] = IF a = fn[p] THEN Unmapped ELSE page[p][a]
        /\ \A r \in Processes : r # p => page'[r] = page[r]
    BY <2>1, <2>2 DEF IInv, Types
  <2> QED
    BY <1>1, <2>3
<1> QED
  BY <1>2, <1>3

LEMMA WEndNestedInv ==
  ASSUME IInv, NEW w \in Workers, WEndNested(w) PROVE IInv'
<1>1. /\ wpc[w] = "ready" /\ ReleaseContext(w)
      /\ UNCHANGED <<status, ptr, hdr, lpc, lx, la, wpc, wq, wseg>>
  BY DEF WEndNested, leadVars, workVars
<1>2. CASE Meta
  <2>1. UNCHANGED <<page, fn, key, valid>>
    BY <1>1, <1>2 DEF ReleaseContext, procVars
  <2>2. Types'
    BY <1>1, <2>1 DEF IInv, Types
  <2>3. WorkerAt(w)' /\ PagesOwned(w)'
    BY <1>1, <2>1 DEF IInv, WorkerInv, WorkerPagesAreOwned, WorkerAt, PagesOwned
  <2> QED
    BY <1>1, <2>1, <2>2, <2>3, OneWorker
<1>3. CASE ~Meta
  <2>1. ResetSharedDeform(w) /\ w \in Processes /\ w # Leader
    BY <1>1, <1>3 DEF ReleaseContext
  <2>2. valid' = valid
    BY <2>1 DEF ResetSharedDeform
  <2>3. /\ page' \in [Processes -> [Addrs -> MaybeShapes \cup {Unmapped}]]
        /\ \A a \in Addrs : page'[w][a] = IF a = fn[w] THEN Unmapped ELSE page[w][a]
        /\ fn' \in [Processes -> MaybeAddrs] /\ fn'[w] = NoAddr
        /\ key' \in [Processes -> MaybeShapes] /\ key'[w] = NoShape
        /\ \A r \in Processes : r # w => /\ page'[r] = page[r] /\ fn'[r] = fn[r]
                                         /\ key'[r] = key[r]
    BY <2>1, ResetPages
  <2>4. Types'
    BY <1>1, <2>2, <2>3 DEF IInv, Types
  <2>5. WorkerAt(w)'
    BY <1>1, <2>3 DEF WorkerAt
  <2>6. PagesOwned(w)'
    BY <1>1, <2>3 DEF PagesOwned, IInv, WorkerPagesAreOwned
  <2> QED
    BY <1>1, <2>2, <2>3, <2>4, <2>5, <2>6, OneWorker
<1> QED
  BY <1>2, <1>3

LEMMA WExitInv ==
  ASSUME IInv, NEW w \in Workers, WExit(w) PROVE IInv'
<1>1. /\ wpc[w] \in {"ready", "alloc", "globals"}
      /\ wpc' = [wpc EXCEPT ![w] = "done"]
      /\ page' = [page EXCEPT ![w] = [a \in Addrs |-> Unmapped]]
      /\ fn' = [fn EXCEPT ![w] = NoAddr] /\ key' = [key EXCEPT ![w] = NoShape]
      /\ UNCHANGED <<status, ptr, hdr, valid, lpc, lx, la, wq, wseg>>
  BY DEF WExit, leadVars
<1>2. /\ page' \in [Processes -> [Addrs -> MaybeShapes \cup {Unmapped}]]
      /\ \A a \in Addrs : page'[w][a] = Unmapped
      /\ fn' \in [Processes -> MaybeAddrs] /\ fn'[w] = NoAddr
      /\ key' \in [Processes -> MaybeShapes] /\ key'[w] = NoShape
      /\ \A r \in Processes : r # w => /\ page'[r] = page[r] /\ fn'[r] = fn[r]
                                       /\ key'[r] = key[r]
  BY <1>1 DEF IInv, Types, MaybeAddrs, MaybeShapes
<1>3. /\ wpc' \in [Workers -> {"new", "ready", "alloc", "globals", "done"}]
      /\ wpc'[w] = "done" /\ \A v \in Workers : v # w => wpc'[v] = wpc[v]
  BY <1>1 DEF IInv, Types
<1>4. Types'
  BY <1>1, <1>2, <1>3 DEF IInv, Types
<1>5. WorkerAt(w)' /\ PagesOwned(w)'
  BY <1>1, <1>2, <1>3 DEF WorkerAt, PagesOwned
<1> QED
  BY <1>1, <1>2, <1>3, <1>4, <1>5, OneWorker

-----------------------------------------------------------------------------
(* The leader. *)

\* Steps that leave all headers and what the workers have.
LEMMA WorkersKeptHdr ==
  ASSUME IInv, Types', Untouched, UNCHANGED <<hdr, wpc, wq, wseg>>
  PROVE  WorkerInv' /\ WorkerPagesAreOwned'
BY WorkersKept DEF Grows

LEMMA StartQueryInv ==
  ASSUME IInv, NEW q \in Queries, StartQuery(q) PROVE IInv'
<1>1. /\ lpc = "idle" /\ status[q] = "new" /\ status' = [status EXCEPT ![q] = "running"]
      /\ UNCHANGED <<hdr, page, fn, key, valid, lpc, lx, la, wpc, wq, wseg>>
  BY DEF StartQuery, procVars, leadVars, workVars
<1>2. PICK place \in [DescsOf(q) -> Ptrs \ UsedPtrs] :
        /\ \A x, y \in DescsOf(q) : place[x] = place[y] => x = y
        /\ ptr' = [x \in Descs |-> IF x \in DescsOf(q) THEN place[x] ELSE ptr[x]]
  BY DEF StartQuery
<1>3. \A x \in Descs : x \in DescsOf(q) <=> QueryOf[x] = q
  BY DEF DescsOf
<1>13. ASSUME NEW x \in Descs, QueryOf[x] = q
       PROVE  ptr'[x] = place[x] /\ ptr'[x] \in Ptrs \ UsedPtrs
  <2>1. x \in DescsOf(q)
    BY <1>3, <1>13
  <2> QED
    BY <1>2, <2>1
<1>14. ASSUME NEW x \in Descs, QueryOf[x] # q PROVE ptr'[x] = ptr[x]
  <2>1. x \notin DescsOf(q)
    BY <1>3, <1>14
  <2> QED
    BY <1>2, <2>1
<1>15. ASSUME NEW x \in Descs, NEW y \in Descs, QueryOf[x] = q PROVE ptr[y] # ptr'[x]
  <2>1. ptr'[x] \in Ptrs /\ ptr'[x] \notin UsedPtrs
    BY <1>13, <1>15
  <2> QED
    BY <2>1 DEF UsedPtrs
<1>4. /\ status' \in [Queries -> {"new", "running", "done"}]
      /\ status'[q] = "running" /\ \A p \in Queries : p # q => status'[p] = status[p]
  BY <1>1 DEF IInv, Types
<1>5. ptr' \in [Descs -> Ptrs \cup {NoPtr}]
  <2>1. \A x \in Descs : ptr'[x] \in Ptrs \cup {NoPtr}
    <3> SUFFICES ASSUME NEW x \in Descs PROVE ptr'[x] \in Ptrs \cup {NoPtr}
      OBVIOUS
    <3>1. CASE QueryOf[x] = q
      BY <1>13, <3>1
    <3>2. CASE QueryOf[x] # q
      BY <1>14, <3>2 DEF IInv, Types
    <3> QED
      BY <3>1, <3>2
  <2> QED
    BY <1>2, <2>1
<1>6. Types'
  BY <1>1, <1>4, <1>5 DEF IInv, Types
<1>7. HeaderInv' /\ LeaderAt'
  BY <1>1 DEF IInv, HeaderInv, LeaderAt
<1>8. PtrInv'
  <2>1. ASSUME NEW x \in Descs PROVE ptr'[x] # NoPtr <=> status'[QueryOf[x]] = "running"
    <3>1. CASE QueryOf[x] = q
      BY <1>4, <1>13, <3>1
    <3>2. CASE QueryOf[x] # q
      BY <1>4, <1>14, <3>2 DEF IInv, PtrInv
    <3> QED
      BY <3>1, <3>2
  <2>2. \A x, y \in Descs : ptr'[x] = ptr'[y] => x = y \/ ptr'[x] = NoPtr
    <3> SUFFICES ASSUME NEW x \in Descs, NEW y \in Descs, ptr'[x] = ptr'[y], x # y
                 PROVE  ptr'[x] = NoPtr
      OBVIOUS
    <3>1. CASE QueryOf[x] = q /\ QueryOf[y] = q
      <4>1. x \in DescsOf(q) /\ y \in DescsOf(q)
        BY <1>3, <3>1
      <4>2. ptr'[x] = place[x] /\ ptr'[y] = place[y]
        BY <1>13, <3>1
      <4> QED
        BY <1>2, <4>1, <4>2
    <3>2. CASE QueryOf[x] = q /\ QueryOf[y] # q
      <4>1. ptr'[y] = ptr[y] /\ ptr[y] # ptr'[x]
        BY <1>14, <1>15, <3>2
      <4> QED
        BY <4>1
    <3>3. CASE QueryOf[x] # q /\ QueryOf[y] = q
      <4>1. ptr'[x] = ptr[x] /\ ptr[x] # ptr'[y]
        BY <1>14, <1>15, <3>3
      <4> QED
        BY <4>1
    <3>4. CASE QueryOf[x] # q /\ QueryOf[y] # q
      <4>1. ptr'[x] = ptr[x] /\ ptr'[y] = ptr[y]
        BY <1>14, <3>4
      <4> QED
        BY <4>1 DEF IInv, PtrInv
    <3> QED
      BY <3>1, <3>2, <3>3, <3>4
  <2> QED
    BY <2>1, <2>2 DEF PtrInv
<1>9. (~Meta => StaticsInv)'
  <2>1. ASSUME NEW x \in Descs, ptr[x] # NoPtr PROVE ptr'[x] = ptr[x]
    <3>1. status[QueryOf[x]] = "running"
      BY <2>1 DEF IInv, PtrInv
    <3>2. QueryOf[x] # q
      BY <1>1, <3>1
    <3> QED
      BY <1>14, <3>2
  <2> QED
    BY <1>1, <2>1 DEF IInv, StaticsInv
<1>10. WorkerInv' /\ WorkerPagesAreOwned'
  BY <1>1, <1>6, WorkersKeptHdr DEF Untouched
<1> QED
  BY <1>6, <1>7, <1>8, <1>9, <1>10 DEF IInv

LEMMA EndQueryInv ==
  ASSUME IInv, NEW q \in Queries, EndQuery(q) PROVE IInv'
<1>1. /\ lpc = "idle" /\ status[q] = "running" /\ ReleaseContext(Leader)
      /\ ptr' = [x \in Descs |-> IF x \in DescsOf(q) THEN NoPtr ELSE ptr[x]]
      /\ status' = [status EXCEPT ![q] = "done"]
      /\ UNCHANGED <<hdr, lpc, lx, la, wpc, wq, wseg>>
  BY DEF EndQuery, leadVars, workVars
<1>2. /\ status' \in [Queries -> {"new", "running", "done"}]
      /\ status'[q] = "done" /\ \A p \in Queries : p # q => status'[p] = status[p]
  BY <1>1 DEF IInv, Types
<1>3. /\ ptr' \in [Descs -> Ptrs \cup {NoPtr}]
      /\ \A x \in Descs : ptr'[x] = IF QueryOf[x] = q THEN NoPtr ELSE ptr[x]
  BY <1>1 DEF DescsOf, IInv, Types
<1>4. PtrInv'
  <2>1. \A x \in Descs : ptr'[x] # NoPtr <=> status'[QueryOf[x]] = "running"
    BY <1>2, <1>3 DEF IInv, PtrInv
  <2>2. \A x, y \in Descs : ptr'[x] = ptr'[y] => x = y \/ ptr'[x] = NoPtr
    BY <1>3 DEF IInv, PtrInv
  <2> QED
    BY <2>1, <2>2 DEF PtrInv
<1>5. HeaderInv' /\ LeaderAt'
  BY <1>1 DEF IInv, HeaderInv, LeaderAt
<1>6. /\ page' \in [Processes -> [Addrs -> MaybeShapes \cup {Unmapped}]]
      /\ fn' \in [Processes -> MaybeAddrs] /\ key' \in [Processes -> MaybeShapes]
      /\ valid' \in Ptrs \cup {NoPtr}
      /\ \A w \in Workers : page'[w] = page[w] /\ fn'[w] = fn[w] /\ key'[w] = key[w]
      /\ ~Meta => fn'[Leader] = NoAddr /\ key'[Leader] = NoShape /\ valid' = NoPtr
  <2>1. CASE Meta
    BY <1>1, <2>1 DEF ReleaseContext, procVars, IInv, Types
  <2>2. CASE ~Meta
    <3>1. ResetSharedDeform(Leader) /\ Leader \in Processes
      BY <1>1, <2>2 DEF ReleaseContext
    <3>2. valid' = NoPtr
      BY <3>1 DEF ResetSharedDeform
    <3>3. \A w \in Workers : w \in Processes /\ w # Leader
      OBVIOUS
    <3> QED
      BY <3>1, <3>2, <3>3, ResetPages
  <2> QED
    BY <2>1, <2>2
<1>7. Types'
  BY <1>1, <1>2, <1>3, <1>6 DEF IInv, Types
<1>8. (~Meta => StaticsInv)'
  BY <1>6 DEF StaticsInv
<1>9. WorkerInv' /\ WorkerPagesAreOwned'
  BY <1>1, <1>6, <1>7, WorkersKeptHdr DEF Untouched
<1> QED
  BY <1>4, <1>5, <1>7, <1>8, <1>9 DEF IInv

LEMMA CompilePageInv ==
  ASSUME IInv, NEW x \in Descs, NEW a \in Addrs, CompilePage(x, a) PROVE IInv'
<1>1. /\ lpc = "idle" /\ status[QueryOf[x]] = "running"
      /\ hdr[QueryOf[x]].addr = NoAddr /\ page[Leader][a] = Unmapped
      /\ page' = [page EXCEPT ![Leader][a] = ShapeOf[x]]
      /\ lx' = x /\ la' = a /\ lpc' = "addr"
      /\ UNCHANGED <<status, ptr, hdr, fn, key, valid, wpc, wq, wseg>>
  BY DEF CompilePage, HeaderIsFree, workVars
<1>2. /\ ShapeOf[x] \in MaybeShapes /\ QueryOf[x] \in Queries /\ Leader \in Processes
  BY ShapesOf DEF MaybeShapes
<1>3. /\ page' \in [Processes -> [Addrs -> MaybeShapes \cup {Unmapped}]]
      /\ page'[Leader][a] = ShapeOf[x]
      /\ \A b \in Addrs : b # a => page'[Leader][b] = page[Leader][b]
      /\ \A w \in Workers : page'[w] = page[w]
  BY <1>1, <1>2 DEF IInv, Types
<1>4. Types'
  BY <1>1, <1>3 DEF IInv, Types, MaybeAddrs
<1>5. hdr[QueryOf[x]] = EmptyHeader
  BY <1>1, <1>2, CompleteHeader DEF IInv, HeaderInv
<1>7. HeaderInv' /\ LeaderAt' /\ PtrInv'
  BY <1>1, <1>3, <1>5 DEF IInv, HeaderInv, LeaderAt, PtrInv, Filling, EmptyHeader
<1>8. (~Meta => StaticsInv)'
  <2> SUFFICES ASSUME ~Meta PROVE StaticsInv'
    OBVIOUS
  <2>1. StaticsInv
    BY DEF IInv
  <2>2. ASSUME fn[Leader] # NoAddr PROVE page'[Leader][fn[Leader]] = key[Leader]
    <3>1. /\ fn[Leader] \in Addrs /\ key[Leader] \in Shapes
          /\ page[Leader][fn[Leader]] = key[Leader]
      BY <1>2, <2>1, <2>2 DEF IInv, Types, MaybeAddrs, MaybeShapes, StaticsInv
    <3>2. fn[Leader] # a
      BY <1>1, <3>1
    <3> QED
      BY <1>3, <3>1, <3>2
  <2> QED
    BY <1>1, <2>1, <2>2 DEF StaticsInv
<1>9. WorkerInv' /\ WorkerPagesAreOwned'
  BY <1>1, <1>3, <1>4, WorkersKeptHdr DEF Untouched
<1> QED
  BY <1>4, <1>7, <1>8, <1>9 DEF IInv

\* A store to the header that the leader is filling.
LEMMA StoreInv ==
  ASSUME IInv, lpc # "idle", UNCHANGED <<status, ptr, page, fn, key, valid, lx, la, wpc, wq, wseg>>,
         NEW h, hdr' = [hdr EXCEPT ![QueryOf[lx]] = h],
         lpc' \in {"sizes", "id", "bytes", "globals"}, Filling(h)',
         Grows(hdr[QueryOf[lx]], h)
  PROVE  IInv'
<1> DEFINE q == QueryOf[lx]
<1>1. q \in Queries
  BY DEF IInv, Types
<1>2. /\ hdr' = [p \in Queries |-> hdr'[p]]
      /\ hdr'[q] = h /\ \A p \in Queries : p # q => hdr'[p] = hdr[p]
  BY <1>1 DEF IInv, Types
<1>3. Types'
  BY <1>2 DEF IInv, Types
<1>4. HeaderInv'
  BY <1>2 DEF IInv, HeaderInv
<1>5. LeaderAt'
  BY <1>1, <1>2 DEF IInv, LeaderAt
<1>6. PtrInv' /\ (~Meta => StaticsInv)'
  BY DEF IInv, PtrInv, StaticsInv
<1>7. \A p \in Queries : Grows(hdr[p], hdr'[p])
  BY <1>2 DEF Grows
<1>8. WorkerInv' /\ WorkerPagesAreOwned'
  BY <1>3, <1>7, WorkersKept DEF Untouched
<1> QED
  BY <1>3, <1>4, <1>5, <1>6, <1>8 DEF IInv

LEMMA PublishInv ==
  ASSUME IInv, PublishAddr \/ PublishSizes \/ PublishId \/ PublishBytes PROVE IInv'
<1> DEFINE q == QueryOf[lx]
           s == ShapeOf[lx]
<1>1. lpc # "idle" /\ UNCHANGED <<status, ptr, page, fn, key, valid, lx, la, wpc, wq, wseg>>
  BY DEF PublishAddr, PublishSizes, PublishId, PublishBytes, Publish, procVars, workVars
<1>2. Filling(hdr[q]) /\ la \in Addrs /\ s \in Shapes
  BY <1>1, ShapesOf DEF IInv, LeaderAt, Types
<1>3. CASE PublishAddr
  <2> DEFINE h == [addr |-> la, sizes |-> NoShape, id |-> NoShape, bytes |-> NoShape]
  <2>1. lpc = "addr" /\ lpc' = "sizes" /\ hdr' = [hdr EXCEPT ![q].addr = la]
    BY <1>3 DEF PublishAddr, Publish
  <2>2. hdr[q] = EmptyHeader
    BY <1>2, <2>1 DEF Filling
  <2>3. hdr' = [hdr EXCEPT ![q] = h]
    <3>1. [hdr[q] EXCEPT !.addr = la] = h
      BY <2>2 DEF EmptyHeader
    <3>2. hdr' = [hdr EXCEPT ![q] = [hdr[q] EXCEPT !.addr = la]]
      BY <2>1
    <3> QED
      BY <3>1, <3>2
  <2>4. Filling(h)'
    BY <1>1, <2>1 DEF Filling
  <2>5. Grows(hdr[q], h)
    BY <2>2 DEF EmptyHeader, Grows
  <2> QED
    BY <1>1, <2>1, <2>3, <2>4, <2>5, StoreInv
<1>4. CASE PublishSizes
  <2> DEFINE h == [addr |-> la, sizes |-> s, id |-> NoShape, bytes |-> NoShape]
  <2>1. lpc = "sizes" /\ lpc' = "id" /\ hdr' = [hdr EXCEPT ![q].sizes = s]
    BY <1>4 DEF PublishSizes, Publish
  <2>2. hdr[q] = [addr |-> la, sizes |-> NoShape, id |-> NoShape, bytes |-> NoShape]
    BY <1>2, <2>1 DEF Filling
  <2>3. hdr' = [hdr EXCEPT ![q] = h]
    <3>1. [hdr[q] EXCEPT !.sizes = s] = h
      BY <2>2
    <3>2. hdr' = [hdr EXCEPT ![q] = [hdr[q] EXCEPT !.sizes = s]]
      BY <2>1
    <3> QED
      BY <3>1, <3>2
  <2>4. Filling(h)'
    BY <1>1, <2>1 DEF Filling
  <2>5. Grows(hdr[q], h)
    BY <2>2 DEF Grows
  <2> QED
    BY <1>1, <2>1, <2>3, <2>4, <2>5, StoreInv
<1>5. CASE PublishId
  <2> DEFINE h == [addr |-> la, sizes |-> s, id |-> s, bytes |-> NoShape]
  <2>1. lpc = "id" /\ lpc' = "bytes" /\ hdr' = [hdr EXCEPT ![q].id = s]
    BY <1>5 DEF PublishId, Publish
  <2>2. hdr[q] = [addr |-> la, sizes |-> s, id |-> NoShape, bytes |-> NoShape]
    BY <1>2, <2>1 DEF Filling
  <2>3. hdr' = [hdr EXCEPT ![q] = h]
    <3>1. [hdr[q] EXCEPT !.id = s] = h
      BY <2>2
    <3>2. hdr' = [hdr EXCEPT ![q] = [hdr[q] EXCEPT !.id = s]]
      BY <2>1
    <3> QED
      BY <3>1, <3>2
  <2>4. Filling(h)'
    BY <1>1, <2>1 DEF Filling
  <2>5. Grows(hdr[q], h)
    BY <2>2 DEF Grows
  <2> QED
    BY <1>1, <2>1, <2>3, <2>4, <2>5, StoreInv
<1>6. CASE PublishBytes
  <2> DEFINE h == [addr |-> la, sizes |-> s, id |-> s, bytes |-> s]
  <2>1. lpc = "bytes" /\ lpc' = "globals" /\ hdr' = [hdr EXCEPT ![q].bytes = s]
    BY <1>6 DEF PublishBytes, Publish
  <2>2. hdr[q] = [addr |-> la, sizes |-> s, id |-> s, bytes |-> NoShape]
    BY <1>2, <2>1 DEF Filling
  <2>3. hdr' = [hdr EXCEPT ![q] = h]
    <3>1. [hdr[q] EXCEPT !.bytes = s] = h
      BY <2>2
    <3>2. hdr' = [hdr EXCEPT ![q] = [hdr[q] EXCEPT !.bytes = s]]
      BY <2>1
    <3> QED
      BY <3>1, <3>2
  <2>4. Filling(h)'
    BY <1>1, <1>2, <2>1 DEF Filling, Complete
  <2>5. Grows(hdr[q], h)
    BY <2>2 DEF Grows
  <2> QED
    BY <1>1, <2>1, <2>3, <2>4, <2>5, StoreInv
<1> QED
  BY <1>3, <1>4, <1>5, <1>6

LEMMA SetGlobalsInv ==
  ASSUME IInv, SetGlobals PROVE IInv'
<1>1. /\ lpc = "globals" /\ lpc' = "idle"
      /\ fn' = [fn EXCEPT ![Leader] = la] /\ key' = [key EXCEPT ![Leader] = ShapeOf[lx]]
      /\ valid' = ptr[lx]
      /\ UNCHANGED <<status, ptr, hdr, page, lx, la, wpc, wq, wseg>>
  BY DEF SetGlobals, workVars
<1>2. /\ la \in Addrs /\ page[Leader][la] = ShapeOf[lx] /\ Complete(hdr[QueryOf[lx]])
      /\ lx \in Descs /\ ptr[lx] \in Ptrs \cup {NoPtr}
      /\ ShapeOf[lx] \in Shapes /\ ShapeOf[lx] # NoShape
  BY <1>1, ShapesOf DEF IInv, LeaderAt, Filling, Types
<1>3. /\ fn' \in [Processes -> MaybeAddrs] /\ key' \in [Processes -> MaybeShapes]
      /\ fn'[Leader] = la /\ key'[Leader] = ShapeOf[lx]
      /\ \A w \in Workers : fn'[w] = fn[w] /\ key'[w] = key[w]
  BY <1>1, <1>2 DEF IInv, Types, MaybeAddrs, MaybeShapes
<1>4. Types'
  BY <1>1, <1>2, <1>3 DEF IInv, Types
<1>5. HeaderInv' /\ LeaderAt' /\ PtrInv'
  BY <1>1, <1>2 DEF IInv, HeaderInv, LeaderAt, PtrInv
<1>6. StaticsInv'
  BY <1>1, <1>2, <1>3 DEF StaticsInv
<1>7. WorkerInv' /\ WorkerPagesAreOwned'
  BY <1>1, <1>3, <1>4, WorkersKeptHdr DEF Untouched
<1> QED
  BY <1>4, <1>5, <1>6, <1>7 DEF IInv

\* A shape is its row and its layout.
LEMMA SameShape ==
  ASSUME NEW s \in Shapes, NEW t \in Shapes, s.row = t.row, s.layout = t.layout PROVE s = t
<1>1. s = [row |-> s.row, layout |-> s.layout] /\ t = [row |-> t.row, layout |-> t.layout]
  OBVIOUS
<1> QED
  BY <1>1

\* What the dispatcher of the leader runs has the shape of the slot.
LEMMA LeaderRuns ==
  ASSUME IInv, ~Meta, NEW x \in Descs, status[QueryOf[x]] = "running", RunsShared(Leader, x)
  PROVE  key[Leader] = ShapeOf[x] /\ page[Leader][fn[Leader]] = ShapeOf[x]
<1>1. ptr[x] # NoPtr /\ StaticsInv
  BY DEF IInv, PtrInv
<1>2. key[Leader] \in Shapes /\ fn[Leader] # NoAddr /\ key[Leader].row = ShapeOf[x].row
  BY DEF RunsShared, SameRow, IInv, Types, MaybeShapes
<1>3. key[Leader] = ShapeOf[x]
  <2>1. CASE valid = ptr[x]
    BY <1>1, <2>1 DEF IInv, StaticsInv, PtrInv
  <2>2. CASE SameHash(Leader, x)
    BY <1>2, <2>2, SameShape, ShapesOf DEF SameHash
  <2> QED
    BY <2>1, <2>2 DEF RunsShared
<1> QED
  BY <1>1, <1>2, <1>3 DEF StaticsInv

LEMMA DispatchInv ==
  ASSUME IInv, NEW x \in Descs, Dispatch(x) PROVE IInv'
<1>1. /\ status[QueryOf[x]] = "running" /\ RunsShared(Leader, x) /\ valid' = ptr[x]
      /\ UNCHANGED <<status, ptr, hdr, page, fn, key, lpc, lx, la, wpc, wq, wseg>>
  BY DEF Dispatch, leadVars, workVars
<1>2. Types'
  BY <1>1 DEF IInv, Types
<1>3. HeaderInv' /\ LeaderAt' /\ PtrInv'
  BY <1>1 DEF IInv, HeaderInv, LeaderAt, PtrInv, Filling
<1>4. (~Meta => StaticsInv)'
  BY <1>1, LeaderRuns DEF IInv, StaticsInv
<1>5. WorkerInv' /\ WorkerPagesAreOwned'
  BY <1>1, <1>2, WorkersKeptHdr DEF Untouched
<1> QED
  BY <1>2, <1>3, <1>4, <1>5 DEF IInv

-----------------------------------------------------------------------------
(* Every step, and the theorems. *)

LEMMA StepInv == IInv /\ [Next]_vars => IInv'
<1> SUFFICES ASSUME IInv, [Next]_vars PROVE IInv'
  OBVIOUS
<1>1. ASSUME NEW q \in Queries, StartQuery(q) \/ EndQuery(q) PROVE IInv'
  BY <1>1, StartQueryInv, EndQueryInv
<1>2. ASSUME NEW x \in Descs, Dispatch(x) PROVE IInv'
  BY <1>2, DispatchInv
<1>3. ASSUME NEW x \in Descs, NEW a \in Addrs, CompilePage(x, a) PROVE IInv'
  BY <1>3, CompilePageInv
<1>4. CASE PublishAddr \/ PublishSizes \/ PublishId \/ PublishBytes
  BY <1>4, PublishInv
<1>5. CASE SetGlobals
  BY <1>5, SetGlobalsInv
<1>6. ASSUME NEW w \in Workers, NEW q \in Queries, LaunchWorker(w, q) \/ WCheck(w, q)
      PROVE  IInv'
  BY <1>6, LaunchWorkerInv, WCheckInv
<1>7. ASSUME NEW w \in Workers, WCopy(w) \/ WAllocFails(w) \/ WSetGlobals(w)
      PROVE  IInv'
  BY <1>7, WCopyInv, WAllocFailsInv, WSetGlobalsInv
<1>8. ASSUME NEW w \in Workers, WEndNested(w) \/ WExit(w) PROVE IInv'
  BY <1>8, WEndNestedInv, WExitInv
<1>9. CASE UNCHANGED vars
  <2>1. Types' /\ HeaderInv' /\ LeaderAt'
    BY <1>9 DEF vars, procVars, leadVars, workVars, IInv, Types, HeaderInv, LeaderAt, Filling
  <2>2. PtrInv' /\ (~Meta => StaticsInv)'
    BY <1>9 DEF vars, procVars, leadVars, workVars, IInv, PtrInv, StaticsInv
  <2>3. WorkerInv' /\ WorkerPagesAreOwned'
    BY <1>9, <2>1, WorkersKeptHdr DEF vars, procVars, workVars, Untouched
  <2> QED
    BY <2>1, <2>2, <2>3 DEF IInv
<1> QED
  BY <1>1, <1>2, <1>3, <1>4, <1>5, <1>6, <1>7, <1>8, <1>9 DEF Next

LEMMA Invariance == Spec => []IInv
BY InitInv, StepInv, PTL DEF Spec

\* A header never holds fields in another order than the code sets them in.
LEMMA HeaderTypes ==
  ASSUME IInv, NEW q \in Queries PROVE hdr[q] \in Headers
<1>1. CASE hdr[q] = EmptyHeader
  BY <1>1 DEF Headers
<1>2. CASE Complete(hdr[q])
  BY <1>2 DEF Complete, Headers, MaybeShapes
<1>3. CASE lpc # "idle" /\ q = QueryOf[lx]
  <2>1. Filling(hdr[q]) /\ la \in Addrs /\ ShapeOf[lx] \in Shapes
    BY <1>3, ShapesOf DEF IInv, LeaderAt, Types
  <2>2. CASE hdr[q] = [addr |-> la, sizes |-> NoShape, id |-> NoShape, bytes |-> NoShape]
    BY <2>1, <2>2 DEF Headers
  <2>3. CASE \E i, b \in MaybeShapes :
               hdr[q] = [addr |-> la, sizes |-> ShapeOf[lx], id |-> i, bytes |-> b]
    BY <2>1, <2>3 DEF Headers
  <2> QED
    BY <1>1, <1>2, <2>1, <2>2, <2>3 DEF Filling, MaybeShapes
<1> QED
  BY <1>1, <1>2, <1>3 DEF IInv, HeaderInv

\* The types, of the header in particular: pg_jitter_compile_shared_deform
\* sets its address first, and the rest in one order, so that a worker finds
\* a header empty, filled up to some store, or complete.
THEOREM Typing == Spec => []TypeOK
<1>1. IInv => TypeOK
  <2> SUFFICES ASSUME IInv PROVE TypeOK
    OBVIOUS
  <2>1. hdr = [q \in Queries |-> hdr[q]] /\ \A q \in Queries : hdr[q] \in Headers
    BY HeaderTypes DEF IInv, Types
  <2>2. hdr \in [Queries -> Headers]
    BY <2>1
  <2> QED
    BY <2>2 DEF IInv, Types, TypeOK
<1> QED
  BY <1>1, Invariance, PTL

\* Where the backend releases the context (the meta provider does not reset
\* the shared deform), pg_jitter_compiled_deform_dispatch runs the leader's page
\* for a slot only when it was compiled for that slot's shape.
THEOREM LeaderOwnShape ==
  ASSUME ~Meta PROVE Spec => []LeaderRunsOwnShape
<1>1. IInv => LeaderRunsOwnShape
  BY LeaderRuns DEF LeaderRunsOwnShape
<1> QED
  BY <1>1, Invariance, PTL

\* Of a header only fields of one shape are set, in their order.
LEMMA HeaderShape ==
  ASSUME IInv, NEW q \in Queries
  PROVE  /\ hdr[q].id = NoShape => hdr[q].bytes = NoShape
         /\ hdr[q].id # NoShape => hdr[q].id \in Shapes /\ hdr[q].bytes \in {NoShape, hdr[q].id}
         /\ hdr[q].sizes # NoShape /\ hdr[q].bytes = NoShape => lpc \in {"id", "bytes"} /\ q = QueryOf[lx]
<1>1. CASE hdr[q] = EmptyHeader
  BY <1>1 DEF EmptyHeader
<1>2. CASE Complete(hdr[q])
  BY <1>2, CompleteHeader
<1>3. CASE lpc # "idle" /\ q = QueryOf[lx]
  <2>1. Filling(hdr[q]) /\ ShapeOf[lx] \in Shapes /\ ShapeOf[lx] # NoShape
    BY <1>3, ShapesOf DEF IInv, LeaderAt, Types
  <2> QED
    BY <1>3, <2>1, CompleteHeader DEF Filling, EmptyHeader
<1> QED
  BY <1>1, <1>2, <1>3 DEF IInv, HeaderInv

\* A worker may take a page over before its bytes are in the segment
\* (pg_jitter_compile_shared_deform stores them last), but the dispatcher
\* never runs code of another shape in it, whatever segment it came from.
THEOREM WorkerNoOtherShape == Spec => []WorkerRunsNoOtherShape
<1>1. IInv => WorkerRunsNoOtherShape
  <2> SUFFICES ASSUME IInv, NEW w \in Workers, NEW x \in DescsOf(wq[w]), RunsShared(w, x)
               PROVE  page[w][fn[w]] \in {ShapeOf[x], NoShape}
    BY DEF WorkerRunsNoOtherShape
  <2>1. x \in Descs /\ w # Leader /\ wseg[w] \in Queries
    BY DEF DescsOf, IInv, Types
  <2>2. fn[w] # NoAddr /\ key[w] # NoShape /\ key[w].row = ShapeOf[x].row
        /\ key[w].layout = ShapeOf[x].layout
    BY <2>1 DEF RunsShared, SameRow, SameHash
  <2>3. page[w][fn[w]] \in {NoShape, hdr[wseg[w]].bytes} /\ key[w] = hdr[wseg[w]].id
    BY <2>2 DEF IInv, WorkerInv
  <2>4. key[w] \in Shapes /\ hdr[wseg[w]].bytes \in {NoShape, key[w]}
    BY <2>1, <2>2, <2>3, HeaderShape
  <2>5. key[w] = ShapeOf[x]
    BY <2>1, <2>2, <2>4, SameShape, ShapesOf
  <2> QED
    BY <2>3, <2>4, <2>5
<1> QED
  BY <1>1, Invariance, PTL

\* pg_jitter_attach_shared_deform takes a page over without its bytes only in
\* the window of pg_jitter_compile_shared_deform between the stores of the
\* sizes and the copy of the bytes, in the segment it is publishing to.
THEOREM TornInWindow == Spec => TornOnlyWhilePublishing
<1> DEFINE Torn == \A w \in Workers : \A a \in Addrs :
             page'[w][a] = NoShape /\ page[w][a] # NoShape
               => lpc \in {"id", "bytes"} /\ wseg[w] = QueryOf[lx]
<1>1. IInv /\ [Next]_vars => [Torn]_vars
  <2> SUFFICES ASSUME IInv, Next, NEW w \in Workers, NEW a \in Addrs,
                      page'[w][a] = NoShape, page[w][a] # NoShape
               PROVE  lpc \in {"id", "bytes"} /\ wseg[w] = QueryOf[lx]
    BY DEF vars
  <2>1. w \in Processes /\ w # Leader /\ wseg[w] \in Queries /\ Leader \in Processes
    BY DEF IInv, Types
  <2>2. ASSUME NEW v \in Workers, WCopy(v) PROVE lpc \in {"id", "bytes"} /\ wseg[w] = QueryOf[lx]
    <3>1. /\ wpc[v] = "alloc" /\ page' = [page EXCEPT ![v][hdr[wseg[v]].addr] = hdr[wseg[v]].bytes]
      BY <2>2 DEF WCopy
    <3>2. v = w /\ hdr[wseg[w]].bytes = NoShape
      BY <2>1, <3>1 DEF IInv, Types
    <3>3. hdr[wseg[w]].sizes # NoShape
      BY <3>1, <3>2 DEF IInv, WorkerInv
    <3> QED
      BY <2>1, <3>2, <3>3, HeaderShape
  <2>3. ASSUME NEW p \in Processes, ResetSharedDeform(p) PROVE FALSE
    BY <2>1, <2>3, ResetPages
  <2>4. ASSUME NEW p \in Processes, ReleaseContext(p) PROVE FALSE
    BY <2>3, <2>4 DEF ReleaseContext, procVars
  <2>5. ASSUME NEW v \in Workers, WExit(v) PROVE FALSE
    <3>1. page' = [page EXCEPT ![v] = [b \in Addrs |-> Unmapped]]
      BY <2>5 DEF WExit
    <3> QED
      BY <2>1, <3>1 DEF IInv, Types
  <2>6. ASSUME NEW x \in Descs, NEW b \in Addrs, CompilePage(x, b) PROVE FALSE
    <3>1. page' = [page EXCEPT ![Leader][b] = ShapeOf[x]]
      BY <2>6 DEF CompilePage
    <3> QED
      BY <2>1, <3>1 DEF IInv, Types
  <2>7. page' # page
    OBVIOUS
  <2> QED
    BY <2>1, <2>2, <2>4, <2>5, <2>6, <2>7
       DEF Next, StartQuery, EndQuery, Dispatch, PublishAddr, PublishSizes, PublishId, PublishBytes, Publish,
           SetGlobals, LaunchWorker, WCheck, WAllocFails, WSetGlobals, WEndNested, procVars
<1> QED
  BY <1>1, Invariance, PTL DEF Spec, TornOnlyWhilePublishing

\* A worker has a page mapped exactly when its statics name it, or when
\* pg_jitter_attach_shared_deform is about to set them: none is leaked.
THEOREM PagesAreOwned == Spec => []WorkerPagesAreOwned
<1>1. IInv => WorkerPagesAreOwned
  BY DEF IInv
<1> QED
  BY <1>1, Invariance, PTL

\* The deform part of a header is never changed once its bytes are in the
\* segment: pg_jitter_compile_shared_deform fills a header once.
THEOREM HeadersAreStable ==
  Spec => [][\A q \in Queries : hdr[q].bytes # NoShape => hdr'[q] = hdr[q]]_vars
<1>1. IInv /\ [Next]_vars => [\A q \in Queries : hdr[q].bytes # NoShape => hdr'[q] = hdr[q]]_vars
  <2> SUFFICES ASSUME IInv, Next, NEW q \in Queries, hdr[q].bytes # NoShape
               PROVE  hdr'[q] = hdr[q]
    BY DEF vars
  <2>1. CASE PublishAddr \/ PublishSizes \/ PublishId \/ PublishBytes
    <3>1. /\ lpc \in {"addr", "sizes", "id", "bytes"}
          /\ \/ hdr' = [hdr EXCEPT ![QueryOf[lx]].addr = la]
             \/ hdr' = [hdr EXCEPT ![QueryOf[lx]].sizes = ShapeOf[lx]]
             \/ hdr' = [hdr EXCEPT ![QueryOf[lx]].id = ShapeOf[lx]]
             \/ hdr' = [hdr EXCEPT ![QueryOf[lx]].bytes = ShapeOf[lx]]
      BY <2>1 DEF PublishAddr, PublishSizes, PublishId, PublishBytes, Publish
    <3>2. Filling(hdr[QueryOf[lx]])
      BY <3>1 DEF IInv, LeaderAt
    <3>3. hdr[QueryOf[lx]].bytes = NoShape
      BY <3>1, <3>2 DEF Filling, EmptyHeader
    <3>4. q # QueryOf[lx]
      BY <3>3
    <3>5. hdr = [p \in Queries |-> hdr[p]]
      BY DEF IInv, Types
    <3> QED
      BY <3>1, <3>4, <3>5
  <2>2. CASE ~(PublishAddr \/ PublishSizes \/ PublishId \/ PublishBytes)
    <3>1. UNCHANGED hdr
      BY <2>2 DEF Next, StartQuery, EndQuery, Dispatch, CompilePage, SetGlobals,
                  LaunchWorker, WCheck, WCopy, WAllocFails, WSetGlobals, WEndNested, WExit
    <3> QED
      BY <3>1
  <2> QED
    BY <2>1, <2>2
<1> QED
  BY <1>1, Invariance, PTL DEF Spec
=============================================================================
