---------------------------- MODULE SharedDeform ----------------------------
(***************************************************************************)
(* Shared deform: the code that takes a wide tuple apart is compiled once, *)
(* by the leader, into a page at an address it chooses; the page's address *)
(* and description go into the header of the query's DSM segment, its      *)
(* bytes to the end of the segment, and a worker maps a page at the same   *)
(* address and fills it from there.  Neither side takes the spinlock.      *)
(*                                                                         *)
(* Each process has ONE shared deform page, known by static variables that *)
(* outlive queries.  pg_jitter_compiled_deform_dispatch runs it for a slot *)
(* whose descriptor it was compiled for, told by the row type and a hash   *)
(* of the attributes, or by the pointer to a descriptor it has checked.    *)
(*                                                                         *)
(* A descriptor's shape is its row (number of columns, kind of slot, type, *)
(* typmod) and its layout (the attributes, which the hash stands for).     *)
(* Machine code is named by the shape it was compiled for.                 *)
(***************************************************************************)
CONSTANTS
    Queries,      \* queries of the leader process, each with its segment
    Workers,      \* parallel worker processes
    Leader,       \* the leader process
    Descs,        \* tuple descriptors of the slots the queries deform
    QueryOf,      \* QueryOf[x]: the query x belongs to
    ShapeOf,      \* ShapeOf[x]: its shape, a record of row and layout
    Ptrs,         \* places where the leader's palloc may put a descriptor
    NoPtr,        \* the descriptor is not allocated
    Addrs,        \* addresses of pages
    NoAddr,       \* deform_addr = 0, shared_deform_fn = NULL
    NoShape,      \* a header field, a key or bytes not set
    Unmapped,     \* no page at this address
    Meta          \* the meta provider releases contexts, not the backend

Shapes == {ShapeOf[x] : x \in Descs}
Processes == Workers \cup {Leader}

ASSUME SharedDeformAssumption ==
    /\ Leader \notin Workers
    /\ Descs # {}
    /\ QueryOf \in [Descs -> Queries]
    /\ DOMAIN ShapeOf = Descs
    /\ \A s \in Shapes : s = [row |-> s.row, layout |-> s.layout]
    /\ NoPtr \notin Ptrs /\ NoAddr \notin Addrs
    /\ NoShape \notin Shapes /\ Unmapped \notin Shapes /\ Unmapped # NoShape
    /\ Meta \in BOOLEAN

VARIABLES
    status,       \* status[q]: "new", "running" or "done"
    ptr,          \* ptr[x]: where descriptor x is in the leader's memory
    hdr,          \* hdr[q]: deform part of the segment of q
    page,         \* page[p][a]: what process p has at address a
    fn,           \* fn[p]: shared_deform_fn, which is shared_deform_page too
    key,          \* key[p]: the shape in shared_deform_natts and the rest
    valid,        \* shared_deform_valid_desc of the leader
    lpc, lx, la,  \* where the leader is, with which descriptor and page
    wpc,          \* wpc[w]: where worker w is
    wq,           \* wq[w]: the query it works for
    wseg          \* wseg[w]: the query whose segment it looks at

leadVars == <<lpc, lx, la>>
procVars == <<page, fn, key, valid>>
workVars == <<wpc, wq, wseg>>
vars == <<status, ptr, hdr, procVars, leadVars, workVars>>

\* deform_addr; the sizes, offset and natts; hash, kind, type and typmod; and
\* the bytes at the end of the segment.
EmptyHeader ==
    [addr |-> NoAddr, sizes |-> NoShape, id |-> NoShape, bytes |-> NoShape]

Init ==
    /\ status = [q \in Queries |-> "new"]
    /\ ptr = [x \in Descs |-> NoPtr]
    /\ hdr = [q \in Queries |-> EmptyHeader]
    /\ page = [p \in Processes |-> [a \in Addrs |-> Unmapped]]
    /\ fn = [p \in Processes |-> NoAddr]
    /\ key = [p \in Processes |-> NoShape]
    /\ valid = NoPtr
    /\ lpc = "idle"
    /\ lx = CHOOSE x \in Descs : TRUE
    /\ la = NoAddr
    /\ wpc = [w \in Workers |-> "new"]
    /\ wq = [w \in Workers |-> CHOOSE q \in Queries : TRUE]
    /\ wseg = [w \in Workers |-> CHOOSE q \in Queries : TRUE]

-----------------------------------------------------------------------------
(* Queries of the leader. *)

DescsOf(q) == {x \in Descs : QueryOf[x] = q}
UsedPtrs == {ptr[x] : x \in Descs} \ {NoPtr}
WorkersOf(q) == {w \in Workers : wq[w] = q /\ wpc[w] \notin {"new", "done"}}

\* The plan is initialised: its descriptors are allocated where there is room.
StartQuery(q) ==
    /\ lpc = "idle"
    /\ status[q] = "new"
    /\ \E place \in [DescsOf(q) -> Ptrs \ UsedPtrs] :
            /\ \A x, y \in DescsOf(q) : place[x] = place[y] => x = y
            /\ ptr' = [x \in Descs |->
                        IF x \in DescsOf(q) THEN place[x] ELSE ptr[x]]
    /\ status' = [status EXCEPT ![q] = "running"]
    /\ UNCHANGED <<hdr, procVars, leadVars, workVars>>

\* pg_jitter_reset_shared_deform in process p.
ResetSharedDeform(p) ==
    /\ page' = IF fn[p] = NoAddr THEN page
               ELSE [page EXCEPT ![p][fn[p]] = Unmapped]
    /\ fn' = [fn EXCEPT ![p] = NoAddr]
    /\ key' = [key EXCEPT ![p] = NoShape]
    /\ valid' = IF p = Leader THEN NoPtr ELSE valid

\* Release of a JIT context that has a segment, in process p: the backend's
\* cleanup_shared_dsm resets the shared deform, meta_release_context does not.
ReleaseKeepsPage(p) == UNCHANGED procVars
ReleaseContext(p) == IF Meta THEN UNCHANGED procVars ELSE ResetSharedDeform(p)

EndQuery(q) ==
    /\ lpc = "idle"
    /\ status[q] = "running"
    /\ WorkersOf(q) = {}
    /\ ReleaseContext(Leader)
    /\ ptr' = [x \in Descs |-> IF x \in DescsOf(q) THEN NoPtr ELSE ptr[x]]
    /\ status' = [status EXCEPT ![q] = "done"]
    /\ UNCHANGED <<hdr, leadVars, workVars>>

-----------------------------------------------------------------------------
(* The leader: pg_jitter_compile_shared_deform. *)

HeaderIsFreeAlways(q) == TRUE
HeaderIsFree(q) == hdr[q].addr = NoAddr

\* The loop is compiled into a page of its own.  That it does not fit, that no
\* page can be had or that the second pass differs leaves everything as it was.
\* An expression may be compiled late, when workers of the query already run.
CompilePage(x, a) ==
    /\ lpc = "idle"
    /\ status[QueryOf[x]] = "running"
    /\ HeaderIsFree(QueryOf[x])
    /\ page[Leader][a] = Unmapped
    /\ page' = [page EXCEPT ![Leader][a] = ShapeOf[x]]
    /\ lx' = x
    /\ la' = a
    /\ lpc' = "addr"
    /\ UNCHANGED <<status, ptr, hdr, fn, key, valid, workVars>>

\* One of the stores to the segment, in the order of the code.
Publish(field, value, next) ==
    /\ hdr' = [hdr EXCEPT ![QueryOf[lx]][field] = value]
    /\ lpc' = next
    /\ UNCHANGED <<status, ptr, procVars, lx, la, workVars>>

PublishAddrNoSizes == lpc = "addr" /\ Publish("addr", la, "id")
PublishAddr  == lpc = "addr"  /\ Publish("addr", la, "sizes")
PublishSizes == lpc = "sizes" /\ Publish("sizes", ShapeOf[lx], "id")
PublishIdNoBytes == lpc = "id" /\ Publish("id", ShapeOf[lx], "globals")
PublishId    == lpc = "id"    /\ Publish("id", ShapeOf[lx], "bytes")
PublishBytes == lpc = "bytes" /\ Publish("bytes", ShapeOf[lx], "globals")

\* The leader's own statics; a page they named before is not looked at.
SetGlobals ==
    /\ lpc = "globals"
    /\ fn' = [fn EXCEPT ![Leader] = la]
    /\ key' = [key EXCEPT ![Leader] = ShapeOf[lx]]
    /\ valid' = ptr[lx]
    /\ lpc' = "idle"
    /\ UNCHANGED <<status, ptr, hdr, page, lx, la, workVars>>

-----------------------------------------------------------------------------
(* Dispatch: pg_jitter_compiled_deform_dispatch. *)

\* The shared page is run for the slot of descriptor x: its pointer has been
\* checked before, or the hash of its attributes is the one of the page.
SameRow(p, x) ==
    fn[p] # NoAddr /\ key[p] # NoShape /\ key[p].row = ShapeOf[x].row
SameHash(p, x) == key[p].layout = ShapeOf[x].layout
RunsShared(p, x) ==
    /\ SameRow(p, x)
    /\ (p = Leader /\ valid = ptr[x]) \/ SameHash(p, x)

\* The slot's descriptor becomes the one that is not checked again.
Dispatch(x) ==
    /\ lpc = "idle"
    /\ status[QueryOf[x]] = "running"
    /\ RunsShared(Leader, x)
    /\ valid' = ptr[x]
    /\ UNCHANGED <<status, ptr, hdr, page, fn, key, leadVars, workVars>>

-----------------------------------------------------------------------------
(* A worker: pg_jitter_attach_shared_deform, at every compile_expr. *)

LaunchWorker(w, q) ==
    /\ lpc = "idle"
    /\ status[q] = "running"
    /\ wpc[w] = "new"
    /\ wpc' = [wpc EXCEPT ![w] = "ready"]
    /\ wq' = [wq EXCEPT ![w] = q]
    /\ UNCHANGED <<status, ptr, hdr, procVars, leadVars, wseg>>

\* The header's fields are set and the process has no page yet.  The segment
\* is the one the slot named: its own query's, or another's (SharedCode).
HeaderUsable(q) == hdr[q].addr # NoAddr /\ hdr[q].sizes # NoShape

NotAttachedAlways(w) == TRUE
NotAttached(w) == fn[w] = NoAddr

WCheck(w, q) ==
    /\ wpc[w] = "ready"
    /\ status[q] = "running"
    /\ HeaderUsable(q)
    /\ NotAttached(w)
    /\ wseg' = [wseg EXCEPT ![w] = q]
    /\ wpc' = [wpc EXCEPT ![w] = "alloc"]
    /\ UNCHANGED <<status, ptr, hdr, procVars, leadVars, wq>>

\* A page at the leader's address, filled with the bytes in the segment.
WCopy(w) ==
    /\ wpc[w] = "alloc"
    /\ page[w][hdr[wseg[w]].addr] = Unmapped
    /\ page' = [page EXCEPT ![w][hdr[wseg[w]].addr] = hdr[wseg[w]].bytes]
    /\ wpc' = [wpc EXCEPT ![w] = "globals"]
    /\ UNCHANGED <<status, ptr, hdr, fn, key, valid, leadVars, wq, wseg>>

\* The address is taken in this process, or mprotect refuses.
WAllocFails(w) ==
    /\ wpc[w] = "alloc"
    /\ wpc' = [wpc EXCEPT ![w] = "ready"]
    /\ UNCHANGED <<status, ptr, hdr, procVars, leadVars, wq, wseg>>

WSetGlobals(w) ==
    /\ wpc[w] = "globals"
    /\ fn' = [fn EXCEPT ![w] = hdr[wseg[w]].addr]
    /\ key' = [key EXCEPT ![w] = hdr[wseg[w]].id]
    /\ wpc' = [wpc EXCEPT ![w] = "ready"]
    /\ UNCHANGED <<status, ptr, hdr, page, valid, leadVars, wq, wseg>>

\* A nested function returns: its context, which had a segment, is released.
WEndNested(w) ==
    /\ wpc[w] = "ready"
    /\ ReleaseContext(w)
    /\ UNCHANGED <<status, ptr, hdr, leadVars, workVars>>

WExit(w) ==
    /\ wpc[w] \in {"ready", "alloc", "globals"}
    /\ wpc' = [wpc EXCEPT ![w] = "done"]
    /\ page' = [page EXCEPT ![w] = [a \in Addrs |-> Unmapped]]
    /\ fn' = [fn EXCEPT ![w] = NoAddr]
    /\ key' = [key EXCEPT ![w] = NoShape]
    /\ UNCHANGED <<status, ptr, hdr, valid, leadVars, wq, wseg>>

-----------------------------------------------------------------------------
Next ==
    \/ \E q \in Queries : StartQuery(q) \/ EndQuery(q)
    \/ \E x \in Descs : Dispatch(x) \/ \E a \in Addrs : CompilePage(x, a)
    \/ PublishAddr \/ PublishSizes \/ PublishId \/ PublishBytes \/ SetGlobals
    \/ \E w \in Workers, q \in Queries : LaunchWorker(w, q) \/ WCheck(w, q)
    \/ \E w \in Workers :
            \/ WCopy(w) \/ WAllocFails(w) \/ WSetGlobals(w)
            \/ WEndNested(w) \/ WExit(w)

Spec == Init /\ [][Next]_vars

-----------------------------------------------------------------------------
(* Properties. *)

MaybeShapes == Shapes \cup {NoShape}
MaybeAddrs == Addrs \cup {NoAddr}

\* The deform part of a header after some of its stores, in their order.
Headers ==
    {EmptyHeader}
    \cup [addr : Addrs, sizes : {NoShape}, id : {NoShape}, bytes : {NoShape}]
    \cup {[addr |-> a, sizes |-> s, id |-> i, bytes |-> b] :
            a \in Addrs, s \in Shapes, i \in MaybeShapes, b \in MaybeShapes}

\* The types of the variables: a header's fields are set in the code's order.
TypeOK ==
    /\ status \in [Queries -> {"new", "running", "done"}]
    /\ ptr \in [Descs -> Ptrs \cup {NoPtr}]
    /\ hdr \in [Queries -> Headers]
    /\ page \in [Processes -> [Addrs -> MaybeShapes \cup {Unmapped}]]
    /\ fn \in [Processes -> MaybeAddrs]
    /\ key \in [Processes -> MaybeShapes]
    /\ valid \in Ptrs \cup {NoPtr}
    /\ lpc \in {"idle", "addr", "sizes", "id", "bytes", "globals"}
    /\ lx \in Descs
    /\ la \in MaybeAddrs
    /\ wpc \in [Workers -> {"new", "ready", "alloc", "globals", "done"}]
    /\ wq \in [Workers -> Queries]
    /\ wseg \in [Workers -> Queries]

\* What the dispatcher runs in the leader for a slot of a running query takes
\* that slot's tuples apart: a page is never run for another layout, however
\* the queries nest, whatever memory their descriptors are given again.
LeaderRunsOwnShape ==
    \A x \in Descs :
        status[QueryOf[x]] = "running" /\ RunsShared(Leader, x)
            => page[Leader][fn[Leader]] = ShapeOf[x]

\* The comment of compile_shared_deform: the page bytes are in the DSM for the
\* workers to map, so a page that a worker runs holds the leader's code.
WorkerRunsOwnShape ==
    \A w \in Workers : \A x \in DescsOf(wq[w]) :
        RunsShared(w, x) => page[w][fn[w]] = ShapeOf[x]

\* What is true of it: whatever segments a worker has looked at and however its
\* steps fall between the stores of a header, a page it runs for a slot holds the
\* code for that slot's shape, or has been taken over before its bytes were
\* there.  It never holds the code of another shape.
WorkerRunsNoOtherShape ==
    \A w \in Workers : \A x \in DescsOf(wq[w]) :
        RunsShared(w, x) => page[w][fn[w]] \in {ShapeOf[x], NoShape}

\* A step takes a page over without its bytes only while the leader is between
\* the stores of the sizes and the copy of the bytes, in that very segment: a
\* header that has been left by compile_shared_deform is safe to attach to.
TornOnlyWhilePublishing ==
    [][\A w \in Workers : \A a \in Addrs :
         page'[w][a] = NoShape /\ page[w][a] # NoShape
           => lpc \in {"id", "bytes"} /\ wseg[w] = QueryOf[lx]]_vars

\* A page of a worker is the one its statics name, or is about to be: no
\* second page is mapped beside it, whatever segments it looks at and however
\* its contexts come and go.
WorkerPagesAreOwned ==
    \A w \in Workers : \A a \in Addrs :
        page[w][a] # Unmapped <=>
            \/ fn[w] = a
            \/ wpc[w] = "globals" /\ hdr[wseg[w]].addr = a
=============================================================================
