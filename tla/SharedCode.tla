----------------------------- MODULE SharedCode -----------------------------
(***************************************************************************)
(* pg_jitter.parallel_mode = shared: a session's leader process compiles   *)
(* the expressions of a parallel query once and publishes the machine code *)
(* in a DSM segment; each parallel worker finds the segment through the    *)
(* leader's entry of the slot table in shared memory, looks its own        *)
(* expressions up and copies the code of those it finds.                   *)
(*                                                                         *)
(* The leader may run several queries at once (a function called by one    *)
(* query runs another), and each has a JIT context and may own a segment,  *)
(* but the process has ONE slot.  A leader may also compile late, when its *)
(* workers are already running (PostgreSQL builds the comparison of a      *)
(* hashed subplan's table when the subplan is first evaluated).            *)
(*                                                                         *)
(* Data left out: machine code is named by the fingerprint of the          *)
(* expression it was compiled from, so "this code computes that            *)
(* expression" is equality of names.  Sizes are in abstract units.         *)
(***************************************************************************)
EXTENDS Integers, Sequences

CONSTANTS
    PlanNodes,    \* plan node numbers
    Fingerprints, \* fingerprints of expressions
    Queries,      \* queries of the leader process, each with a JIT context
    Workers,      \* parallel worker processes
    Outer,        \* in a worker: the context of the query it works for
    WContexts,    \* in a worker: Outer and the contexts of nested functions
    Handles,      \* DSM handles
    NoHandle,     \* the empty slot, and a context without a segment
    Capacity,     \* size of a segment (pg_jitter.shared_code_max)
    Header,       \* size of its header
    Plan,         \* Plan[q]: what the leader compiles for q, in its order
    Early,        \* Early[q]: how many of them before q launches workers
    WPlan,        \* WPlan[q]: what a worker of q compiles, in its order
    NoTable,      \* processes that cannot use the slot table
    Leader,       \* the leader process
    DebugLogged,  \* DEBUG1 messages are written to the log or the client
    Interp,       \* no code: the interpreter evaluates the expression
    Partial       \* bytes of an entry whose memcpy has not been done

\* An expression: its node and fingerprint, the size of its entry, the size of
\* the shared deform code it asks for (0: none), and whether its code may be
\* shared (expr_allows_shared_code).
Exprs == [node : PlanNodes, fp : Fingerprints, size : Nat \ {0},
          deform : Nat, shared : BOOLEAN]

ASSUME SharedCodeAssumption ==
    /\ Queries # {}
    /\ NoHandle \notin Handles
    /\ Header \in Nat /\ Capacity \in Nat /\ Header <= Capacity
    /\ Leader \notin Workers
    /\ Outer \in WContexts
    /\ Plan \in [Queries -> Seq(Exprs)]
    /\ Early \in [Queries -> Nat]
    /\ WPlan \in [Queries -> Seq([ctx : WContexts, expr : Exprs])]
    /\ DebugLogged \in BOOLEAN
    /\ Interp \notin Fingerprints /\ Partial \notin Fingerprints

VARIABLES
    slot,         \* the leader's entry of the slot table
    made,         \* handles of the segments created so far
    mapped,       \* mapped[p]: the segments process p has attached
    lock,         \* lock[h]: the spinlock word of segment h
    used,         \* used[h]: bytes used by the header and the entries
    num,          \* num[h]: num_entries
    tail,         \* tail[h]: bytes reserved at the end for shared deform
    entries,      \* entries[h]: the entries in memory, published or not
    status,       \* status[q]: "new", "running" or "done"
    share,        \* share[q]: the segment of q's context in the leader
    ordinal,      \* ordinal[q]: expr_ordinal of that context
    lpc, lq,      \* where the leader is, and for which query
    wpc,          \* wpc[w]: where worker w is
    wq,           \* wq[w]: the query it works for
    wk,           \* wk[w]: the expression of WPlan it is at
    wordinal,     \* wordinal[w][c]: expr_ordinal of its context c
    wshare,       \* wshare[w][c]: the segment of its context c
    wseen,        \* wseen[w]: the handle it read from the slot
    wscan,        \* wscan[w]: loop index of its lookup
    wfound,       \* wfound[w]: index of the entry found, 0 for none
    wcode         \* wcode[w]: what the last expression was given to run

segVars  == <<made, lock, used, num, tail, entries>>
leadVars == <<status, share, ordinal, lpc, lq>>
workVars == <<wpc, wq, wk, wordinal, wshare, wseen, wscan, wfound, wcode>>
vars == <<slot, mapped, segVars, leadVars, workVars>>

-----------------------------------------------------------------------------
(* What the leader is compiling, and what a worker is at. *)

Expr  == Plan[lq][ordinal[lq]]
LSeg  == share[lq]
WItem(w) == WPlan[wq[w]][wk[w]]
WExpr(w) == WItem(w).expr
WCtx(w)  == WItem(w).ctx
WSeg(w)  == wshare[w][WCtx(w)]

\* get_expr_identity: the node, and a counter of the context that is taken
\* before it is incremented.
LIdentityOffByOne ==
    [node |-> Expr.node, idx |-> ordinal[lq] - 2, fp |-> Expr.fp]
LIdentity    == [node |-> Expr.node, idx |-> ordinal[lq] - 1, fp |-> Expr.fp]
WIdentity(w) == [node |-> WExpr(w).node, idx |-> wordinal[w][WCtx(w)] - 1,
                 fp |-> WExpr(w).fp]

Processes == Workers \cup {Leader}

\* A segment exists as long as some process has it attached.
Alive(h) == \E p \in Processes : h \in mapped[p]

Usable(h) == Capacity - tail[h]

\* The entry is the one looked up.
MatchesNoFingerprint(e, k) == e.node = k.node /\ e.idx = k.idx
Matches(e, k) == e.node = k.node /\ e.idx = k.idx /\ e.fp = k.fp

Init ==
    /\ slot = NoHandle
    /\ made = {}
    /\ mapped = [p \in Processes |-> {}]
    /\ lock = [h \in Handles |-> FALSE]
    /\ used = [h \in Handles |-> 0]
    /\ num = [h \in Handles |-> 0]
    /\ tail = [h \in Handles |-> 0]
    /\ entries = [h \in Handles |-> <<>>]
    /\ status = [q \in Queries |-> "new"]
    /\ share = [q \in Queries |-> NoHandle]
    /\ ordinal = [q \in Queries |-> 0]
    /\ lpc = "idle"
    /\ lq = CHOOSE q \in Queries : TRUE
    /\ wpc = [w \in Workers |-> "new"]
    /\ wq = [w \in Workers |-> CHOOSE q \in Queries : TRUE]
    /\ wk = [w \in Workers |-> 1]
    /\ wordinal = [w \in Workers |-> [c \in WContexts |-> 0]]
    /\ wshare = [w \in Workers |-> [c \in WContexts |-> NoHandle]]
    /\ wseen = [w \in Workers |-> NoHandle]
    /\ wscan = [w \in Workers |-> 1]
    /\ wfound = [w \in Workers |-> 0]
    /\ wcode = [w \in Workers |-> Interp]

-----------------------------------------------------------------------------
(* The leader: queries. *)

\* Gather starts a worker once the plan is initialised; each is a new process.
LaunchWorker(w, q) ==
    /\ lpc = "idle"
    /\ status[q] = "running"
    /\ ordinal[q] >= Early[q]
    /\ wpc[w] = "new"
    /\ wpc' = [wpc EXCEPT ![w] = "next"]
    /\ wq' = [wq EXCEPT ![w] = q]
    /\ UNCHANGED <<slot, mapped, segVars, leadVars, wk, wordinal, wshare,
                   wseen, wscan, wfound, wcode>>

WorkersGone(q) == \A w \in Workers : wq[w] = q => wpc[w] \in {"new", "done"}

\* cleanup_shared_dsm in the leader, for the context of query q.
CleanupLeavesSlot(q) ==
    /\ mapped' = [mapped EXCEPT ![Leader] = @ \ {share[q]}]
    /\ share' = [share EXCEPT ![q] = NoHandle]
    /\ UNCHANGED slot
CleanupKeepsMapping(q) ==
    /\ slot' = IF share[q] = NoHandle THEN slot ELSE NoHandle
    /\ share' = [share EXCEPT ![q] = NoHandle]
    /\ UNCHANGED mapped
CleanupSharedDsm(q) ==
    /\ slot' = IF share[q] = NoHandle THEN slot ELSE NoHandle
    /\ mapped' = [mapped EXCEPT ![Leader] = @ \ {share[q]}]
    /\ share' = [share EXCEPT ![q] = NoHandle]

\* The executor ends the query: its workers have been waited for.
EndQuery(q) ==
    /\ lpc = "idle"
    /\ status[q] = "running"
    /\ WorkersGone(q)
    /\ CleanupSharedDsm(q)
    /\ status' = [status EXCEPT ![q] = "done"]
    /\ UNCHANGED <<segVars, ordinal, lpc, lq, workVars>>

\* An ERROR outside compile_expr: a worker's, a cancel, an executor error.
CancelQuery(q) ==
    /\ lpc = "idle"
    /\ status[q] = "running"
    /\ lpc' = "error"
    /\ lq' = q
    /\ UNCHANGED <<slot, mapped, segVars, status, share, ordinal, workVars>>

\* Abort: the workers are terminated and waited for, then the resource owner
\* releases the JIT context.
AbortQuery ==
    /\ lpc = "error"
    /\ WorkersGone(lq)
    /\ CleanupSharedDsm(lq)
    /\ status' = [status EXCEPT ![lq] = "done"]
    /\ lpc' = "idle"
    /\ UNCHANGED <<segVars, ordinal, lq, workVars>>

-----------------------------------------------------------------------------
(* The leader: compile_expr. *)

\* get_context makes the JIT context at the first expression of a query;
\* get_expr_identity counts the expression.
BeginCompile(q) ==
    /\ lpc = "idle"
    /\ status[q] \in {"new", "running"}
    /\ ordinal[q] < Len(Plan[q])
    /\ status' = [status EXCEPT ![q] = "running"]
    /\ ordinal' = [ordinal EXCEPT ![q] = @ + 1]
    /\ lq' = q
    /\ lpc' = IF Plan[q][ordinal[q] + 1].shared THEN "init" ELSE "generate"
    /\ UNCHANGED <<slot, mapped, segVars, share, workVars>>

\* The context has its segment, or the slot table is unusable.
SkipInitSharedDsm ==
    /\ lpc = "init"
    /\ LSeg # NoHandle \/ Leader \in NoTable
    /\ lpc' = "deform"
    /\ UNCHANGED <<slot, mapped, segVars, status, share, ordinal, lq, workVars>>

\* dsm_create, dsm_pin_mapping, the header, and the handle into the slot.  The
\* deform fields of the header are not written: the segment is a new one, which
\* the operating system zeroes (min_dynamic_shared_memory = 0, the default).
InitSharedDsm(h) ==
    /\ lpc = "init"
    /\ LSeg = NoHandle /\ Leader \notin NoTable
    /\ h \in Handles \ made
    /\ made' = made \cup {h}
    /\ mapped' = [mapped EXCEPT ![Leader] = @ \cup {h}]
    /\ lock' = [lock EXCEPT ![h] = FALSE]
    /\ num' = [num EXCEPT ![h] = 0]
    /\ used' = [used EXCEPT ![h] = Header]
    /\ slot' = h
    /\ share' = [share EXCEPT ![lq] = h]
    /\ lpc' = "deform"
    /\ UNCHANGED <<tail, entries, status, ordinal, lq, workVars>>

\* dsm_create raises an ERROR: no segment, or no memory for one.
InitSharedDsmError ==
    /\ lpc = "init"
    /\ LSeg = NoHandle /\ Leader \notin NoTable
    /\ lpc' = "error"
    /\ UNCHANGED <<slot, mapped, segVars, status, share, ordinal, lq, workVars>>

\* compile_shared_deform, as far as the code store sees it: without the lock,
\* it reserves the end of the segment, once.
DeformFits(h) == used[h] + Expr.deform <= Capacity
DeformWanted(h) == tail[h] = 0 /\ DeformFits(h)

CompileSharedDeform ==
    /\ lpc = "deform"
    /\ LSeg # NoHandle /\ Expr.deform > 0 /\ DeformWanted(LSeg)
    /\ tail' = [tail EXCEPT ![LSeg] = Expr.deform]
    /\ lpc' = "generate"
    /\ UNCHANGED <<slot, mapped, made, lock, used, num, entries, status, share,
                   ordinal, lq, workVars>>

\* The expression needs no shared deform, there is one, it does not fit, or
\* its page could not be had.
SkipSharedDeform ==
    /\ lpc = "deform"
    /\ lpc' = "generate"
    /\ UNCHANGED <<slot, mapped, segVars, status, share, ordinal, lq, workVars>>

GenerateCode ==
    /\ lpc = "generate"
    /\ lpc' = IF Expr.shared /\ LSeg # NoHandle THEN "lock" ELSE "register"
    /\ UNCHANGED <<slot, mapped, segVars, status, share, ordinal, lq, workVars>>

\* No code: compile_expr returns false and the interpreter stays.
GenerateFails ==
    /\ lpc = "generate"
    /\ lpc' = "idle"
    /\ UNCHANGED <<slot, mapped, segVars, status, share, ordinal, lq, workVars>>

\* register_compiled_or_free and install_expr.
Register ==
    /\ lpc = "register"
    /\ lpc' = "idle"
    /\ UNCHANGED <<slot, mapped, segVars, status, share, ordinal, lq, workVars>>

\* Out of memory while linking the code: it is freed and the ERROR goes on.
RegisterError ==
    /\ lpc = "register"
    /\ lpc' = "error"
    /\ UNCHANGED <<slot, mapped, segVars, status, share, ordinal, lq, workVars>>

-----------------------------------------------------------------------------
(* The leader: store_shared_code. *)

AcquireWithoutTest(h) == lock' = [lock EXCEPT ![h] = TRUE]
Acquire(h) == lock[h] = FALSE /\ lock' = [lock EXCEPT ![h] = TRUE]
Release(h) == lock' = [lock EXCEPT ![h] = FALSE]

EntryFitsCapacity(h) == used[h] + Expr.size <= Capacity
EntryFits(h) == used[h] <= Usable(h) /\ Expr.size <= Usable(h) - used[h]

StoreLock ==
    /\ lpc = "lock"
    /\ Acquire(LSeg)
    /\ lpc' = IF EntryFits(LSeg) THEN "write" ELSE "full"
    /\ UNCHANGED <<slot, mapped, made, used, num, tail, entries, status, share,
                   ordinal, lq, workVars>>

StoreFullKeepsLock ==
    /\ lpc = "full"
    /\ lpc' = "register"
    /\ UNCHANGED <<slot, mapped, segVars, status, share, ordinal, lq, workVars>>

\* The rejection is logged with the lock held.  A message that is written out
\* ends in CHECK_FOR_INTERRUPTS, and a pending cancel leaves from there.
StoreFull ==
    /\ lpc = "full"
    /\ \E interrupted \in IF DebugLogged THEN BOOLEAN ELSE {FALSE} :
            IF interrupted
            THEN lpc' = "error" /\ UNCHANGED lock
            ELSE lpc' = "register" /\ Release(LSeg)
    /\ UNCHANGED <<slot, mapped, made, used, num, tail, entries, status, share,
                   ordinal, lq, workVars>>

\* The fields of the entry behind the used part, then its bytes.
StoreWriteAtHeader ==
    /\ lpc = "write"
    /\ entries' = [entries EXCEPT ![LSeg] = <<
            [node |-> LIdentity.node, idx |-> LIdentity.idx,
             fp |-> LIdentity.fp, size |-> Expr.size, code |-> Partial]>>]
    /\ lpc' = "copy"
    /\ UNCHANGED <<slot, mapped, made, lock, used, num, tail, status, share,
                   ordinal, lq, workVars>>
StoreWrite ==
    /\ lpc = "write"
    /\ entries' = [entries EXCEPT ![LSeg] = Append(@,
            [node |-> LIdentity.node, idx |-> LIdentity.idx,
             fp |-> LIdentity.fp, size |-> Expr.size, code |-> Partial])]
    /\ lpc' = "copy"
    /\ UNCHANGED <<slot, mapped, made, lock, used, num, tail, status, share,
                   ordinal, lq, workVars>>

StoreCopy ==
    /\ lpc = "copy"
    /\ entries' = [entries EXCEPT ![LSeg][num[LSeg] + 1].code = Expr.fp]
    /\ lpc' = "count"
    /\ UNCHANGED <<slot, mapped, made, lock, used, num, tail, status, share,
                   ordinal, lq, workVars>>

StoreCountOnly ==
    /\ lpc = "count"
    /\ num' = [num EXCEPT ![LSeg] = @ + 1]
    /\ lpc' = "unlock"
    /\ UNCHANGED <<slot, mapped, made, lock, used, tail, entries, status, share,
                   ordinal, lq, workVars>>
StoreCount ==
    /\ lpc = "count"
    /\ used' = [used EXCEPT ![LSeg] = @ + Expr.size]
    /\ num' = [num EXCEPT ![LSeg] = @ + 1]
    /\ lpc' = "unlock"
    /\ UNCHANGED <<slot, mapped, made, lock, tail, entries, status, share,
                   ordinal, lq, workVars>>

StoreUnlock ==
    /\ lpc = "unlock"
    /\ Release(LSeg)
    /\ lpc' = "register"
    /\ UNCHANGED <<slot, mapped, made, used, num, tail, entries, status, share,
                   ordinal, lq, workVars>>

-----------------------------------------------------------------------------
(* A worker: compile_expr for one expression after the other. *)

\* The identity, and the leader's slot if the context has no segment yet: the
\* slot is read with no lock.
WReadsSlot(w) == WExpr(w).shared /\ WSeg(w) = NoHandle /\ w \notin NoTable

WBegin(w) ==
    /\ wpc[w] = "next"
    /\ wk[w] <= Len(WPlan[wq[w]])
    /\ wordinal' = [wordinal EXCEPT ![w][WCtx(w)] = @ + 1]
    /\ IF WReadsSlot(w) /\ slot # NoHandle
       THEN /\ wseen' = [wseen EXCEPT ![w] = slot]
            /\ wpc' = [wpc EXCEPT ![w] = "attach"]
       ELSE /\ wpc' = [wpc EXCEPT ![w] =
                    IF WExpr(w).shared /\ WSeg(w) # NoHandle
                    THEN "lock" ELSE "local"]
            /\ UNCHANGED wseen
    /\ UNCHANGED <<slot, mapped, segVars, leadVars, wq, wk, wshare, wscan,
                   wfound, wcode>>

\* dsm_find_mapping refuses a segment the process has already; dsm_attach
\* returns NULL for one that no longer exists.
CanAttach(w, h) == h \notin mapped[w] /\ Alive(h)

WAttach(w) ==
    /\ wpc[w] = "attach"
    /\ CanAttach(w, wseen[w])
    /\ mapped' = [mapped EXCEPT ![w] = @ \cup {wseen[w]}]
    /\ wshare' = [wshare EXCEPT ![w][WCtx(w)] = wseen[w]]
    /\ wpc' = [wpc EXCEPT ![w] = "lock"]
    /\ wseen' = [wseen EXCEPT ![w] = NoHandle]
    /\ UNCHANGED <<slot, segVars, leadVars, wq, wk, wordinal, wscan, wfound,
                   wcode>>

WAttachRefused(w) ==
    /\ wpc[w] = "attach"
    /\ ~CanAttach(w, wseen[w])
    /\ wpc' = [wpc EXCEPT ![w] = "local"]
    /\ wseen' = [wseen EXCEPT ![w] = NoHandle]
    /\ UNCHANGED <<slot, mapped, segVars, leadVars, wq, wk, wordinal, wshare,
                   wscan, wfound, wcode>>

\* find_shared_code: the spinlock, the scan, and the answer.
FindLock(w) ==
    /\ wpc[w] = "lock"
    /\ Acquire(WSeg(w))
    /\ wpc' = [wpc EXCEPT ![w] = "scan"]
    /\ UNCHANGED <<slot, mapped, made, used, num, tail, entries, leadVars, wq,
                   wk, wordinal, wshare, wseen, wscan, wfound, wcode>>

ScanEndsEarly(w) ==
    LET h == WSeg(w)
    IN  used[h] > Usable(h) \/ wscan[w] >= num[h]
ScanEnds(w) ==
    LET h == WSeg(w)
    IN  used[h] > Usable(h) \/ wscan[w] > num[h]

FindNoEntry(w) ==
    /\ wpc[w] = "scan"
    /\ ScanEnds(w)
    /\ wpc' = [wpc EXCEPT ![w] = "unlock"]
    /\ UNCHANGED <<slot, mapped, segVars, leadVars, wq, wk, wordinal, wshare,
                   wseen, wscan, wfound, wcode>>

FindNextEntry(w) ==
    /\ wpc[w] = "scan"
    /\ ~ScanEnds(w)
    /\ IF Matches(entries[WSeg(w)][wscan[w]], WIdentity(w))
       THEN /\ wfound' = [wfound EXCEPT ![w] = wscan[w]]
            /\ wpc' = [wpc EXCEPT ![w] = "unlock"]
            /\ UNCHANGED wscan
       ELSE /\ wscan' = [wscan EXCEPT ![w] = @ + 1]
            /\ UNCHANGED <<wpc, wfound>>
    /\ UNCHANGED <<slot, mapped, segVars, leadVars, wq, wk, wordinal, wshare,
                   wseen, wcode>>

FindUnlockOnlyFound(w) ==
    /\ wpc[w] = "unlock"
    /\ IF wfound[w] = 0 THEN UNCHANGED lock ELSE Release(WSeg(w))
    /\ wpc' = [wpc EXCEPT ![w] = IF wfound[w] = 0 THEN "absent" ELSE "use"]
    /\ wscan' = [wscan EXCEPT ![w] = 1]
    /\ UNCHANGED <<slot, mapped, made, used, num, tail, entries, leadVars, wq,
                   wk, wordinal, wshare, wseen, wfound, wcode>>
FindUnlock(w) ==
    /\ wpc[w] = "unlock"
    /\ Release(WSeg(w))
    /\ wpc' = [wpc EXCEPT ![w] = IF wfound[w] = 0 THEN "absent" ELSE "use"]
    /\ wscan' = [wscan EXCEPT ![w] = 1]
    /\ UNCHANGED <<slot, mapped, made, used, num, tail, entries, leadVars, wq,
                   wk, wordinal, wshare, wseen, wfound, wcode>>

\* The expression of worker w runs code c from now on.
Installed(w, c) ==
    /\ wcode' = [wcode EXCEPT ![w] = c]
    /\ wk' = [wk EXCEPT ![w] = @ + 1]
    /\ wpc' = [wpc EXCEPT ![w] = "next"]
    /\ wfound' = [wfound EXCEPT ![w] = 0]

\* copy_to_executable and relocate, from the bytes behind the pointer that
\* find_shared_code returned: the lock is no longer held.
WUseShared(w) ==
    /\ wpc[w] = "use"
    /\ Installed(w, entries[WSeg(w)][wfound[w]].code)
    /\ UNCHANGED <<slot, mapped, segVars, leadVars, wq, wordinal, wshare,
                   wseen, wscan>>

\* No executable memory, or an address that cannot be relocated.
WUseFails(w) ==
    /\ wpc[w] = "use"
    /\ wpc' = [wpc EXCEPT ![w] = "local"]
    /\ wfound' = [wfound EXCEPT ![w] = 0]
    /\ UNCHANGED <<slot, mapped, segVars, leadVars, wq, wk, wordinal, wshare,
                   wseen, wscan, wcode>>

\* The worker compiles for itself, or has no code and interprets.
WCompileLocally(w) ==
    /\ wpc[w] \in {"local", "absent"}
    /\ \E c \in {WExpr(w).fp, Interp} : Installed(w, c)
    /\ UNCHANGED <<slot, mapped, segVars, leadVars, wq, wordinal, wshare,
                   wseen, wscan>>

-----------------------------------------------------------------------------
(* A worker: release of its contexts, and its end. *)

\* cleanup_shared_dsm for context c of a worker: is_leader is not set.
WCleanup(w, c) ==
    /\ mapped' = [mapped EXCEPT ![w] = @ \ {wshare[w][c]}]
    /\ wshare' = [wshare EXCEPT ![w][c] = NoHandle]
    /\ UNCHANGED slot

\* A nested function returns.
WEndNested(w, c) ==
    /\ wpc[w] = "next"
    /\ c # Outer /\ wshare[w][c] # NoHandle
    /\ WCleanup(w, c)
    /\ UNCHANGED <<segVars, leadVars, wpc, wq, wk, wordinal, wseen, wscan,
                   wfound, wcode>>

\* The process ends: all its mappings go.
WExit(w) ==
    /\ mapped' = [mapped EXCEPT ![w] = {}]
    /\ wshare' = [wshare EXCEPT ![w] = [c \in WContexts |-> NoHandle]]
    /\ wpc' = [wpc EXCEPT ![w] = "done"]
    /\ wk' = [wk EXCEPT ![w] = 1]
    /\ wordinal' = [wordinal EXCEPT ![w] = [c \in WContexts |-> 0]]
    /\ wseen' = [wseen EXCEPT ![w] = NoHandle]
    /\ wscan' = [wscan EXCEPT ![w] = 1]
    /\ wfound' = [wfound EXCEPT ![w] = 0]
    /\ wcode' = [wcode EXCEPT ![w] = Interp]
    /\ UNCHANGED <<slot, segVars, leadVars, wq>>

WFinish(w) ==
    /\ wpc[w] = "next"
    /\ wk[w] > Len(WPlan[wq[w]])
    /\ WExit(w)

\* Spinning on the lock and scanning are the parts of compile_expr in which a
\* worker looks at no interrupt and raises no ERROR.
Interruptible(w) == wpc[w] \in {"next", "attach", "use", "local", "absent"}

WFail(w) == Interruptible(w) /\ WExit(w)

\* The leader aborts the query: the worker gets SIGTERM.
WTerminate(w) == lpc = "error" /\ lq = wq[w] /\ Interruptible(w) /\ WExit(w)

-----------------------------------------------------------------------------
LeaderCompiles ==
    \/ SkipInitSharedDsm \/ (\E h \in Handles : InitSharedDsm(h))
    \/ InitSharedDsmError
    \/ CompileSharedDeform \/ SkipSharedDeform
    \/ GenerateCode \/ GenerateFails
    \/ StoreLock \/ StoreFull \/ StoreWrite \/ StoreCopy
    \/ StoreCount \/ StoreUnlock
    \/ Register \/ RegisterError

WorkerSteps(w) ==
    \/ WBegin(w) \/ WAttach(w) \/ WAttachRefused(w)
    \/ FindLock(w) \/ FindNoEntry(w) \/ FindNextEntry(w) \/ FindUnlock(w)
    \/ WUseShared(w) \/ WUseFails(w) \/ WCompileLocally(w) \/ WFinish(w)

Next ==
    \/ \E q \in Queries :
            BeginCompile(q) \/ EndQuery(q) \/ CancelQuery(q)
    \/ \E w \in Workers, q \in Queries : LaunchWorker(w, q)
    \/ LeaderCompiles
    \/ AbortQuery
    \/ \E w \in Workers : WorkerSteps(w) \/ WFail(w) \/ WTerminate(w)
    \/ \E w \in Workers, c \in WContexts : WEndNested(w, c)

\* The operating system runs every process that can take a step.  Nothing is
\* assumed about when queries start, end or fail, nor about a process that
\* keeps winning the spinlock.
Fairness ==
    /\ WF_vars(LeaderCompiles)
    /\ WF_vars(AbortQuery)
    /\ \A w \in Workers : WF_vars(WorkerSteps(w)) /\ WF_vars(WTerminate(w))

Spec == Init /\ [][Next]_vars
FairSpec == Spec /\ Fairness

-----------------------------------------------------------------------------
(* Properties. *)

Codes == Fingerprints \cup {Interp, Partial}
Segments == Handles \cup {NoHandle}
EntrySet == [node : PlanNodes, idx : Nat, fp : Fingerprints, size : Nat,
             code : Codes]

LeaderPcs == {"idle", "init", "deform", "generate", "lock", "full",
              "write", "copy", "count", "unlock", "register", "error"}
WorkerPcs == {"new", "next", "attach", "lock", "scan", "unlock",
              "absent", "use", "local", "done"}

SegTypeOK ==
    /\ made \subseteq Handles
    /\ lock \in [Handles -> BOOLEAN]
    /\ used \in [Handles -> Nat]
    /\ num \in [Handles -> Nat]
    /\ tail \in [Handles -> Nat]
    /\ entries \in [Handles -> Seq(EntrySet)]

LeadTypeOK ==
    /\ slot \in Segments
    /\ mapped \in [Processes -> SUBSET Handles]
    /\ status \in [Queries -> {"new", "running", "done"}]
    /\ share \in [Queries -> Segments]
    /\ ordinal \in [Queries -> Nat]
    /\ lpc \in LeaderPcs
    /\ lq \in Queries

WorkTypeOK ==
    /\ wpc \in [Workers -> WorkerPcs]
    /\ wq \in [Workers -> Queries]
    /\ wk \in [Workers -> Nat \ {0}]
    /\ wordinal \in [Workers -> [WContexts -> Nat]]
    /\ wshare \in [Workers -> [WContexts -> Segments]]
    /\ wseen \in [Workers -> Segments]
    /\ wscan \in [Workers -> Nat \ {0}]
    /\ wfound \in [Workers -> Nat]
    /\ wcode \in [Workers -> Codes]

\* The types of the variables: memory, leader, workers.
TypeOK == SegTypeOK /\ LeadTypeOK /\ WorkTypeOK

\* Process p is between the acquire and the release of h's spinlock.
Holds(p, h) ==
    IF p = Leader
    THEN LSeg = h /\ lpc \in {"full", "write", "copy", "count", "unlock"}
    ELSE wpc[p] \in {"scan", "unlock"} /\ WSeg(p) = h

\* The spinlock word of a segment is set exactly while one process is inside
\* store_shared_code or find_shared_code: no two are, and none leaves it set
\* behind, for nothing would ever clear it and every later lookup would spin.
LockHasOneHolder ==
    \A h \in Handles :
        /\ lock[h] <=> \E p \in Processes : Holds(p, h)
        /\ \A p, r \in Processes : Holds(p, h) /\ Holds(r, h) => p = r

\* While a worker scans, num_entries counts exactly the entries in memory,
\* every one of them complete: no lookup sees an entry that is being written.
LookupSeesCompleteEntries ==
    \A w \in Workers : \A h \in Handles :
        Holds(w, h) =>
            /\ Len(entries[h]) = num[h]
            /\ \A i \in 1 .. num[h] : entries[h][i].code = entries[h][i].fp

\* The entries grow from the front and the shared deform code sits at the end
\* of a segment, reserved with no lock: they never meet, and an entry is not
\* begun unless it ends before the reserved part.
NoOverlap ==
    /\ \A h \in Handles : used[h] + tail[h] <= Capacity
    /\ lpc \in {"write", "copy", "count"} =>
            used[LSeg] + Expr.size + tail[LSeg] <= Capacity

SizeOfFirst(s, n) ==
    LET sum[i \in 0 .. n] == IF i = 0 THEN 0 ELSE sum[i - 1] + s[i].size
    IN  sum[n]

\* A published entry is at the place where a scan that adds up the sizes
\* before it looks for it.
UsedIsSum ==
    \A h \in made :
        used[h] = Header + SizeOfFirst(entries[h], num[h])

\* What a worker runs for an expression computes that expression, although it
\* is found by node and ordinal in a segment that may belong to another query
\* and whose ordinals may have been counted differently.
InstalledIsOwn ==
    \A w \in Workers :
        wpc[w] = "next" /\ wk[w] > 1 =>
            wcode[w] \in {Interp, WPlan[wq[w]][wk[w] - 1].expr.fp}

\* The slot names a segment that a running query of the leader owns and keeps
\* attached: a worker never reads the handle of a segment nobody will clear.
SlotIsOwned ==
    slot # NoHandle =>
        /\ slot \in mapped[Leader]
        /\ \E q \in Queries : status[q] = "running" /\ share[q] = slot

\* Each of the mapped segments is the segment of exactly one context, and a
\* context that has a segment has it mapped.
Owns(segments, contexts, segOf) ==
    /\ \A h \in Handles : h \in segments <=> \E c \in contexts : segOf[c] = h
    /\ \A c, d \in contexts : segOf[c] = segOf[d] /\ c # d => segOf[c] = NoHandle

\* A pinned mapping is outside every resource owner, so only the context that
\* made it can undo it: each mapping of a process belongs to exactly one of its
\* live contexts, and a context that counts on a segment has it mapped.
MappingsAreOwned ==
    /\ Owns(mapped[Leader], Queries, share)
    /\ \A q \in Queries : share[q] # NoHandle => status[q] = "running"
    /\ \A w \in Workers : Owns(mapped[w], WContexts, wshare[w])

\* A step never changes or takes back an entry that has been published: the
\* bytes a lookup pointed to are copied after the lock is released.
PublishedIsStable ==
    [][\A h \in Handles :
            /\ num'[h] >= num[h]
            /\ \A i \in 1 .. num[h] : entries'[h][i] = entries[h][i]]_vars

\* The comment of attach_shared_dsm: a context does not attach to a segment
\* whose entries belong to another plan.
WorkersAttachTheirQuery ==
    \A w \in Workers : wshare[w][Outer] \in {NoHandle, share[wq[w]]}

\* The store is an append-only log with indivisible publications and lookups.
NoAnswerYet == [answer |-> "none"]
NoEntry == [entry |-> "none"]
AnswerOf(w) ==
    IF wpc[w] \notin {"use", "absent"} THEN NoAnswerYet
    ELSE [seg |-> WSeg(w), key |-> WIdentity(w),
          entry |-> IF wpc[w] = "use" THEN entries[WSeg(w)][wfound[w]]
                                      ELSE NoEntry]
Ordinals == UNION {0 .. Len(Plan[q]) + Len(WPlan[q]) : q \in Queries}
KeySet == [node : PlanNodes, idx : Ordinals, fp : Fingerprints]
PublishedSet ==
    UNION {{[node |-> Plan[q][k].node, idx |-> i, fp |-> Plan[q][k].fp,
             size |-> Plan[q][k].size, code |-> Plan[q][k].fp] :
                i \in Ordinals, k \in 1 .. Len(Plan[q])} : q \in Queries}
Store == INSTANCE CodeStore WITH
            Entries <- PublishedSet,
            Keys <- KeySet,
            NoAnswer <- NoAnswerYet,
            NotFound <- NoEntry,
            log <- [h \in Handles |-> SubSeq(entries[h], 1, num[h])],
            answer <- [w \in Workers |-> AnswerOf(w)]
ImplementsStore == Store!StoreSpec

\* A worker that waits for the spinlock gets it: nobody keeps it.
LookupsEnd == \A w \in Workers : wpc[w] = "lock" ~> wpc[w] # "lock"

\* A worker gets through all its expressions, whatever the leader does.
WorkersEnd == \A w \in Workers : wpc[w] = "next" ~> wpc[w] = "done"

\* An ERROR in the leader ends with the context released: the workers it waits
\* for do come to a point where they can be terminated.
AbortsEnd == lpc = "error" ~> lpc = "idle"
=============================================================================
