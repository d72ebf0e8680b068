----------------------------- MODULE JitContext -----------------------------
(***************************************************************************)
(* Who owns what a compilation leaves behind: the JIT context of a query,  *)
(* the code and the auxiliary memory it lists, its entry in a resource     *)
(* owner, the MIR state that MIR keeps for the query it compiles for, and  *)
(* the timing wrappers of the meta provider, across ERRORs at every point  *)
(* where compile_expr can raise one, subtransactions that catch them, and  *)
(* the abort protocols of PostgreSQL 14-16 and 17.                         *)
(*                                                                         *)
(* One backend process. A query is an EState and has its own resource      *)
(* owner (a portal) or that of the query whose expression runs it (SPI).   *)
(* The stack holds the expressions being evaluated, whose functions run    *)
(* other queries, and the subtransactions entered (PL/pgSQL blocks with an *)
(* EXCEPTION clause, savepoints). An ERROR unwinds to the innermost        *)
(* subtransaction, or ends the transaction.                                *)
(***************************************************************************)
EXTENDS Naturals, Sequences, FiniteSetsExt, Functions

CONSTANTS
    Queries,    \* executions of a query, each run once
    Exprs,      \* their expressions, all of one profile
    QueryOf,    \* the query of an expression
    Contexts,   \* addresses palloc gives to contexts; free ones are reused
    Codes,      \* blocks of executable code, or MIR states; reused as well
    Searching,  \* expressions whose setup needs auxiliary memory
    Samples,    \* meta_adaptive_samples
    MaxFrames,  \* bound of the stack
    MaxSubs,    \* bound of the subtransactions on it
    Providers,  \* jit_provider: "sljit", "mir", "meta"
    None

Direct  == "sljit"
Mir     == "mir"
Backends == {Direct, Mir}

ASSUME JitContextAssumption ==
    /\ QueryOf \in [Exprs -> Queries]
    /\ Searching \subseteq Exprs
    /\ Samples \in Nat \ {0}
    /\ MaxFrames \in Nat
    /\ MaxSubs \in Nat
    /\ Providers \subseteq {Direct, Mir, "meta"}
    /\ None \notin Queries \cup Contexts \cup Codes

VARIABLES
    session,  \* provider loaded and PostgreSQL 17 or not; set once
    query,    \* state, resource owner, nesting and es_jit of each query
    owner,    \* the JIT contexts each resource owner remembers
    context,  \* the contexts in memory
    mapped,   \* the blocks of code in use
    mir,      \* mir_current_state, mir_current_jctx
    pc,       \* where compile_expr is
    expr,     \* evalfunc and evalfunc_private of each ExprState
    timing,   \* the AdaptiveTimingCtx of each expression
    stats,    \* call_count of the profile in adaptive_stats
    timed,    \* calls timed and still to be found in stats
    stack,    \* evaluations and subtransactions
    status    \* "normal", "error" (being unwound), "abort" (owners release)

vars == <<session, query, owner, context, mapped, mir, pc, expr, timing, stats,
          timed, stack, status>>

Unopened(q) == [state |-> "new", owner |-> q, subs |-> 0, at |-> 0, jit |-> None]
NoContext == [live |-> FALSE, resowner |-> None, compiled |-> {}, aux |-> FALSE,
              timings |-> {}]
Idle      == [at |-> "idle", expr |-> None, code |-> None, backend |-> None]
NoMir     == [state |-> None, jctx |-> None]
NoCode    == [fn |-> "unready", code |-> None, wrapped |-> FALSE]
NoTiming  == [state |-> "none", count |-> 0, backend |-> None, raw |-> FALSE]

Init ==
    /\ session \in [provider : Providers, pg17 : BOOLEAN]
    /\ query = [q \in Queries |-> Unopened(q)]
    /\ owner = [q \in Queries |-> [remembers |-> {}, releasing |-> FALSE]]
    /\ context = [c \in Contexts |-> NoContext]
    /\ mapped = {}
    /\ mir = NoMir
    /\ pc = Idle
    /\ expr = [e \in Exprs |-> NoCode]
    /\ timing = [e \in Exprs |-> NoTiming]
    /\ stats = [b \in Backends |-> 0]
    /\ timed = [b \in Backends |-> 0]
    /\ stack = <<>>
    /\ status = "normal"

-----------------------------------------------------------------------------
(* PostgreSQL around the provider. *)

SubFrame        == [kind |-> "sub", expr |-> None, wrapped |-> FALSE]
EvalFrame(e, w) == [kind |-> "eval", expr |-> e, wrapped |-> w]
SubsOpen        == {i \in 1..Len(stack) : stack[i].kind = "sub"}
Evaluated(e)    == \E i \in 1..Len(stack) : stack[i].expr = e
Running(q, i)   == stack[i].kind = "eval" /\ QueryOf[stack[i].expr] = q
Active(q)       == \E i \in 1..Len(stack) : Running(q, i)

Ready == status = "normal" /\ pc.at = "idle"

\* An executor is entered from itself (a SubPlan), or when it does not run: an
\* SPI query by the function that started it, a portal by anyone.
MayRun(q) == /\ query[q].state = "open"
             /\ \/ Active(q) /\ Running(q, Len(stack))
                \/ ~Active(q) /\ (query[q].owner = q \/ query[q].at = Len(stack))

\* A query starts: from a portal, or from a function of a running expression
\* with the resource owner of that one's query.
Open(q, r) ==
    /\ Ready
    /\ query[q].state = "new"
    /\ \/ r = q
       \/ /\ stack # <<>>
          /\ \E p \in Queries :
               query[p].state = "open" /\ Running(p, Len(stack)) /\ r = query[p].owner
    /\ query' = [query EXCEPT ![q] =
                   [state |-> "open", owner |-> r, subs |-> Cardinality(SubsOpen),
                    at |-> IF r = q THEN 0 ELSE Len(stack), jit |-> None]]
    /\ UNCHANGED <<session, owner, context, mapped, mir, pc, expr, timing, stats, timed,
                   stack, status>>

\* A subtransaction starts.
BeginSub ==
    /\ Ready
    /\ Len(stack) < MaxFrames
    /\ Cardinality(SubsOpen) < MaxSubs
    /\ stack' = Append(stack, SubFrame)
    /\ UNCHANGED <<session, query, owner, context, mapped, mir, pc, expr, timing, stats,
                   timed, status>>

\* It commits; its portals go over to the transaction around it.
CommitSub ==
    /\ Ready
    /\ stack # <<>>
    /\ stack[Len(stack)].kind = "sub"
    /\ query' = [q \in Queries |->
                   IF query[q].subs = Cardinality(SubsOpen)
                   THEN [query[q] EXCEPT !.subs = @ - 1] ELSE query[q]]
    /\ stack' = SubSeq(stack, 1, Len(stack) - 1)
    /\ UNCHANGED <<session, owner, context, mapped, mir, pc, expr, timing, stats, timed,
                   status>>

\* The evaluation on top raises an ERROR.
Raise ==
    /\ Ready
    /\ stack # <<>>
    /\ stack[Len(stack)].kind = "eval"
    /\ status' = "error"
    /\ UNCHANGED <<session, query, owner, context, mapped, mir, pc, expr, timing, stats,
                   timed, stack>>

-----------------------------------------------------------------------------
(* Releasing a context. *)

MirKept(freed) == mir

\* sljit_code_free, mir_ctx_free for each entry of the list.
MirAfterFree(freed) == IF mir.state \in freed THEN NoMir ELSE mir

PendingOrDone(c, b) == {e \in context[c].timings : timing[e].backend = b}

\* The calls counted by the wrappers of context c that did not reach Samples.
Pending(c, b) == {e \in context[c].timings :
                    timing[e].state = "active" /\ timing[e].backend = b}

\* What each timing context has counted.
Counts == [e \in Exprs |-> timing[e].count]

Flushed(c, b) == IF session.provider = "meta"
                 THEN SumFunctionOnSet(Counts, Pending(c, b)) ELSE 0

\* release_context: pg_jitter_release_context, meta_release_context.
FreeContents(c) ==
    /\ mapped' = mapped \ context[c].compiled
    /\ mir' = MirAfterFree(context[c].compiled)
    /\ timing' = [e \in Exprs |->
                    IF e \in context[c].timings
                    THEN NoTiming ELSE timing[e]]
    /\ stats' = [b \in Backends |-> stats[b] + Flushed(c, b)]
    /\ context' = [context EXCEPT ![c] = NoContext]

\* ResourceOwnerForget, which raises an ERROR for a context it does not have
\* and for an owner that has begun to release.
Forget(o, c) ==
    IF c \in owner[o].remembers /\ ~owner[o].releasing
    THEN /\ owner' = [owner EXCEPT ![o].remembers = @ \ {c}]
         /\ UNCHANGED status
    ELSE status' = "refused" /\ UNCHANGED owner

\* ResourceOwnerForgetJIT: releasing owners are searched like any other.
ForgetJIT(o, c) ==
    IF c \in owner[o].remembers
    THEN /\ owner' = [owner EXCEPT ![o].remembers = @ \ {c}]
         /\ UNCHANGED status
    ELSE status' = "refused" /\ UNCHANGED owner

ForgetAtEndIn14Only(c) ==
    IF ~session.pg17 THEN ForgetJIT(context[c].resowner, c)
    ELSE UNCHANGED <<owner, status>>

\* Who forgets a context that jit_release_context releases at the end of its
\* query: the callback on PostgreSQL 17, else jit_release_context itself.
ForgetAtEnd(c) ==
    IF ~session.pg17 THEN ForgetJIT(context[c].resowner, c)
    ELSE IF context[c].resowner # None THEN Forget(context[c].resowner, c)
    ELSE UNCHANGED <<owner, status>>

ForgetAtAbortAgain(o, c) ==
    IF session.pg17 THEN Forget(context[c].resowner, c)
    ELSE ForgetJIT(context[c].resowner, c)

\* Who forgets one that owner o releases. PostgreSQL 17 removes it from o
\* before ResOwnerReleasePgJitterContext, which clears resowner so that the
\* callback does not forget; 14-16 leave it to jit_release_context.
ForgetAtAbort(o, c) ==
    IF session.pg17
    THEN owner' = [owner EXCEPT ![o].remembers = @ \ {c}] /\ UNCHANGED status
    ELSE ForgetJIT(context[c].resowner, c)

\* The memory of the executors of the queries in S is gone.
Ended(S) ==
    /\ query' = [q \in Queries |->
                   IF q \in S THEN [Unopened(q) EXCEPT !.state = "closed"] ELSE query[q]]
    /\ expr' = [e \in Exprs |-> IF QueryOf[e] \in S THEN NoCode ELSE expr[e]]

\* FreeExecutorState at the end of a query: jit_release_context, whose
\* callback forgets on PostgreSQL 17 and which forgets itself before.
Close(q) ==
    /\ Ready
    /\ query[q].state = "open"
    /\ ~Active(q)
    /\ query[q].owner # q => query[q].at = Len(stack)
    /\ Ended({q})
    /\ IF query[q].jit = None
       THEN UNCHANGED <<owner, context, mapped, mir, timing, stats, status>>
       ELSE LET c == query[q].jit
            IN  /\ FreeContents(c)
                /\ ForgetAtEnd(c)
    /\ UNCHANGED <<session, pc, timed, stack>>

\* The innermost subtransaction on the stack, 0 for the transaction itself.
Handler == Max(SubsOpen \cup {0})

\* The owners that go with it: of queries opened inside, and of those that
\* failed because they ran inside.
DoomedOwners == {query[q].owner : q \in {p \in Queries :
                   /\ query[p].state = "open"
                   /\ \/ SubsOpen = {}
                      \/ query[p].subs = Cardinality(SubsOpen)
                      \/ \E i \in Handler + 1..Len(stack) : Running(p, i)}}
Doomed == {q \in Queries : query[q].state = "open" /\ query[q].owner \in DoomedOwners}

\* An ERROR reaches its handler; FreeExecutorState is not called.
Unwind ==
    /\ status = "error"
    /\ Ended(Doomed)
    /\ owner' = [o \in Queries |->
                   IF o \in DoomedOwners
                   THEN [owner[o] EXCEPT !.releasing = TRUE] ELSE owner[o]]
    /\ stack' = SubSeq(stack, 1, IF Handler = 0 THEN 0 ELSE Handler - 1)
    /\ pc' = Idle
    /\ status' = "abort"
    /\ UNCHANGED <<session, context, mapped, mir, timing, stats, timed>>

\* ResourceOwnerRelease takes a context of o.
ReleaseByOwner(o, c) ==
    /\ status = "abort"
    /\ owner[o].releasing
    /\ c \in owner[o].remembers
    /\ FreeContents(c)
    /\ ForgetAtAbort(o, c)
    /\ UNCHANGED <<session, query, pc, expr, timed, stack>>

\* All is released: the handler continues.
Aborted ==
    /\ status = "abort"
    /\ \A o \in Queries : owner[o].releasing => owner[o].remembers = {}
    /\ owner' = [o \in Queries |-> [owner[o] EXCEPT !.releasing = FALSE]]
    /\ status' = "normal"
    /\ UNCHANGED <<session, query, context, mapped, mir, pc, expr, timing, stats, timed,
                   stack>>

-----------------------------------------------------------------------------
(* compile_expr. *)

Compiling(at) == status = "normal" /\ pc.at = at
Jit(e)        == query[QueryOf[e]].jit

Fail == status' = "error" /\ pc' = Idle

\* adaptive_select, with sljit as the choice of the heuristic: any backend with
\* enough samples (the costs are not modelled), or before that, now and then,
\* one never counted.
Measured == {b \in Backends : stats[b] >= Samples}
Selectable ==
    IF Direct \in Measured /\ Cardinality(Measured) >= 2
    THEN Measured
    ELSE {Direct} \cup {b \in Backends : stats[Direct] > 0 /\ stats[b] = 0}

\* meta_compile_expr with pg_jitter.backend = auto chooses a backend.
Chosen(b) == IF session.provider = "meta" THEN b \in Selectable ELSE b = session.provider

\* pg_jitter_get_context, meta_ensure_context: the context of the query, or a
\* new one that its owner remembers. There may be no memory, for the context or
\* for the entry in the owner; both are asked for first. Compilation is part of
\* the start of the query or, for a hashed SubPlan, of an evaluation.
GetContext(e, b) ==
    /\ Ready
    /\ expr[e].fn = "unready"
    /\ MayRun(QueryOf[e])
    /\ Active(QueryOf[e]) \/ query[QueryOf[e]].subs = Cardinality(SubsOpen)
    /\ Chosen(b)
    /\ \/ /\ Jit(e) # None
          /\ pc' = [at |-> "setup", expr |-> e, code |-> None, backend |-> b]
          /\ UNCHANGED <<query, owner, context, status>>
       \/ /\ Jit(e) = None
          /\ \E c \in Contexts :
               /\ ~context[c].live
               /\ context' = [context EXCEPT ![c] =
                                [NoContext EXCEPT !.live = TRUE,
                                                  !.resowner = query[QueryOf[e]].owner]]
               /\ owner' = [owner EXCEPT ![query[QueryOf[e]].owner].remembers = @ \cup {c}]
               /\ query' = [query EXCEPT ![QueryOf[e]].jit = c]
          /\ pc' = [at |-> "setup", expr |-> e, code |-> None, backend |-> b]
          /\ UNCHANGED status
       \/ /\ Jit(e) = None
          /\ Fail
          /\ UNCHANGED <<query, owner, context>>
    /\ UNCHANGED <<session, mapped, mir, expr, timing, stats, timed, stack>>

\* The interpreter takes the expression over.
Interpret == /\ expr' = [expr EXCEPT ![pc.expr].fn = "interpreted"]
             /\ pc' = Idle

\* The steps are prepared, with search tables in the auxiliary memory of the
\* context; the backend goes on, gives up, or finds no memory.
Setup ==
    /\ Compiling("setup")
    /\ context' = [context EXCEPT ![Jit(pc.expr)].aux = @ \/ pc.expr \in Searching]
    /\ \/ pc' = [pc EXCEPT !.at = "generate"] /\ UNCHANGED <<expr, status>>
       \/ Interpret /\ UNCHANGED status
       \/ Fail /\ UNCHANGED expr
    /\ UNCHANGED <<session, query, owner, mapped, mir, timing, stats, timed, stack>>

HasAnyMirState(c) == mir.jctx # None

\* mir_get_or_create_ctx: the state of the context compiled for last, if it is
\* this one.
HasMirState(c) == mir.jctx = c

\* sljit_generate_code, or a new MIR context: executable memory that nobody
\* lists yet.
Generate ==
    /\ Compiling("generate")
    /\ IF pc.backend = Mir /\ HasMirState(Jit(pc.expr))
       THEN /\ pc' = [pc EXCEPT !.at = "install", !.code = mir.state]
            /\ UNCHANGED mapped
       ELSE \E h \in Codes \ mapped :
              /\ mapped' = mapped \cup {h}
              /\ pc' = [pc EXCEPT !.at = "register", !.code = h]
    /\ UNCHANGED <<session, query, owner, context, mir, expr, timing, stats, timed, stack,
                   status>>

KeptOnError(h) == mapped

\* The free_fn of block h, called on an ERROR of its registration.
FreedOnError(h) == mapped \ {h}

\* pg_jitter_register_compiled_or_free: the entry of the list, or an ERROR in
\* allocating it.
Register ==
    /\ Compiling("register")
    /\ \/ /\ context' = [context EXCEPT ![Jit(pc.expr)].compiled = @ \cup {pc.code}]
          /\ mir' = IF pc.backend = Mir
                    THEN [state |-> pc.code, jctx |-> Jit(pc.expr)] ELSE mir
          /\ pc' = [pc EXCEPT !.at = "install"]
          /\ UNCHANGED <<mapped, status>>
       \/ /\ mapped' = FreedOnError(pc.code)
          /\ mir' = MirAfterFree({pc.code})
          /\ Fail
          /\ UNCHANGED context
    /\ UNCHANGED <<session, query, owner, expr, timing, stats, timed, stack>>

\* pg_jitter_install_expr. MIR generates between the registration of its state
\* and the installation, and may give up or find no memory.
Install ==
    /\ Compiling("install")
    /\ \/ /\ expr' = [expr EXCEPT ![pc.expr] =
                        [fn |-> "validate", code |-> pc.code, wrapped |-> FALSE]]
          /\ pc' = IF session.provider = "meta" THEN [pc EXCEPT !.at = "wrap"] ELSE Idle
          /\ UNCHANGED status
       \/ pc.backend = Mir /\ Interpret /\ UNCHANGED status
       \/ pc.backend = Mir /\ Fail /\ UNCHANGED expr
    /\ UNCHANGED <<session, query, owner, context, mapped, mir, timing, stats, timed, stack>>

\* meta_install_timing_wrapper, unless the backend has its samples. Its two
\* allocations fail before the wrapper is installed and after.
Wrap ==
    /\ Compiling("wrap")
    /\ \/ /\ stats[pc.backend] >= Samples
          /\ pc' = Idle
          /\ UNCHANGED <<context, expr, timing, status>>
       \/ /\ stats[pc.backend] < Samples
          /\ Fail
          /\ UNCHANGED <<context, expr, timing>>
       \/ /\ stats[pc.backend] < Samples
          /\ timing' = [timing EXCEPT ![pc.expr] =
                          [state |-> "active", count |-> 0, backend |-> pc.backend,
                           raw |-> FALSE]]
          /\ expr' = [expr EXCEPT ![pc.expr].wrapped = TRUE]
          /\ \/ /\ context' = [context EXCEPT ![Jit(pc.expr)].timings = @ \cup {pc.expr}]
                /\ pc' = Idle
                /\ UNCHANGED status
             \/ Fail /\ UNCHANGED context
    /\ UNCHANGED <<session, query, owner, mapped, mir, stats, timed, stack>>

-----------------------------------------------------------------------------
(* Evaluation. *)

\* evalfunc is called. The wrapper first puts back what it found, then the
\* validation wrapper, at its first call, replaces itself with the code, or
\* finds the expression no longer valid (an ERROR).
Evaluate(e) ==
    /\ Ready
    /\ expr[e].fn \in {"validate", "raw"}
    /\ MayRun(QueryOf[e])
    /\ ~Evaluated(e)
    /\ Len(stack) < MaxFrames
    /\ stack' = Append(stack, EvalFrame(e, expr[e].wrapped))
    /\ LET fn == IF ~expr[e].wrapped THEN expr[e].fn
                 ELSE IF timing[e].raw THEN "raw" ELSE "validate"
       IN  \/ /\ expr' = [expr EXCEPT ![e].wrapped = FALSE,
                                      ![e].fn = IF fn = "validate" THEN "raw" ELSE fn]
              /\ UNCHANGED status
           \/ /\ fn = "validate"
              /\ expr' = [expr EXCEPT ![e].wrapped = FALSE, ![e].fn = fn]
              /\ status' = "error"
    /\ UNCHANGED <<session, query, owner, context, mapped, mir, pc, timing, stats, timed>>

UnfinishedAt(n) == n <= Samples

\* The wrapper goes on after its n-th call.
Unfinished(n) == n < Samples

ReinstalledAlways(n) == TRUE

\* It installs itself again after the call.
Reinstalled(n) == Unfinished(n)

\* An SPI query that the function on top has started and not ended.
Borrowing(q) == /\ query[q].state = "open"
                /\ query[q].owner # q
                /\ query[q].at = Len(stack)

\* The evaluation returns. The wrapper counts the call and keeps the function
\* it finds; with enough samples it adds them to the statistics and stays
\* away, else it installs itself again.
Return ==
    LET top == stack[Len(stack)]
        e   == top.expr
        n   == timing[e].count + 1
    IN  /\ Ready
        /\ stack # <<>>
        /\ top.kind = "eval"
        /\ ~\E q \in Queries : Borrowing(q)
        /\ stack' = SubSeq(stack, 1, Len(stack) - 1)
        /\ IF ~top.wrapped
           THEN UNCHANGED <<expr, timing, stats, timed>>
           ELSE /\ timed' = [timed EXCEPT ![timing[e].backend] = @ + 1]
                /\ timing' = [timing EXCEPT
                                ![e].count = n,
                                ![e].raw   = expr[e].fn = "raw",
                                ![e].state = IF Unfinished(n) THEN @ ELSE "done"]
                /\ stats' = IF Unfinished(n) THEN stats
                            ELSE [stats EXCEPT ![timing[e].backend] = @ + n]
                /\ expr' = [expr EXCEPT ![e].wrapped = Reinstalled(n)]
        /\ UNCHANGED <<session, query, owner, context, mapped, mir, pc, status>>

\* pg_jitter_adaptive_stats_reset, called from SQL.
ResetStats ==
    /\ Ready
    /\ session.provider = "meta"
    /\ stats # [b \in Backends |-> 0]
    /\ stats' = [b \in Backends |-> 0]
    /\ timed' = [b \in Backends |-> timed[b] - stats[b]]
    /\ UNCHANGED <<session, query, owner, context, mapped, mir, pc, expr, timing, stack,
                   status>>

Next ==
    \/ \E q, r \in Queries : Open(q, r)
    \/ \E q \in Queries : Close(q)
    \/ BeginSub \/ CommitSub \/ Raise \/ Unwind \/ Aborted
    \/ \E o \in Queries, c \in Contexts : ReleaseByOwner(o, c)
    \/ \E e \in Exprs, b \in Backends : GetContext(e, b)
    \/ Setup \/ Generate \/ Register \/ Install \/ Wrap
    \/ \E e \in Exprs : Evaluate(e)
    \/ Return \/ ResetStats

Spec == Init /\ [][Next]_vars

-----------------------------------------------------------------------------
Frame == [kind : {"eval", "sub"}, expr : Exprs \cup {None}, wrapped : BOOLEAN]

\* Values of the variables.
TypeOK ==
    /\ session \in [provider : Providers, pg17 : BOOLEAN]
    /\ query \in [Queries -> [state : {"new", "open", "closed"}, owner : Queries, subs : Nat,
                              at : Nat, jit : Contexts \cup {None}]]
    /\ owner \in [Queries -> [remembers : SUBSET Contexts, releasing : BOOLEAN]]
    /\ context \in [Contexts -> [live : BOOLEAN, resowner : Queries \cup {None},
                                 compiled : SUBSET Codes, aux : BOOLEAN,
                                 timings : SUBSET Exprs]]
    /\ mapped \subseteq Codes
    /\ mir \in [state : Codes \cup {None}, jctx : Contexts \cup {None}]
    /\ pc \in [at : {"idle", "setup", "generate", "register", "install", "wrap"},
               expr : Exprs \cup {None}, code : Codes \cup {None},
               backend : Backends \cup {None}]
    /\ expr \in [Exprs -> [fn : {"unready", "interpreted", "validate", "raw"},
                           code : Codes \cup {None}, wrapped : BOOLEAN]]
    /\ timing \in [Exprs -> [state : {"none", "active", "done"}, count : 0..Samples,
                             backend : Backends \cup {None}, raw : BOOLEAN]]
    /\ stats \in [Backends -> Nat]
    /\ timed \in [Backends -> Nat]
    /\ stack \in Seq(Frame)
    /\ status \in {"normal", "error", "abort", "refused"}

IsOpen(e) == query[QueryOf[e]].state = "open"

\* As long as a query is open, the code of its expressions is mapped and listed
\* in its own context, whatever other queries are compiled, ended or aborted
\* meanwhile and wherever their contexts lay.
RunsLiveCode ==
    \A e \in Exprs :
        IsOpen(e) /\ expr[e].fn \in {"validate", "raw"} =>
            /\ expr[e].code \in mapped
            /\ Jit(e) # None
            /\ expr[e].code \in context[Jit(e)].compiled

\* A wrapper that is installed, or whose call is on the stack of an evaluation
\* that can return, writes to a timing context that is in its JIT context's
\* list and not freed.
WrapperIsLive ==
    status = "normal" =>
        \A e \in Exprs :
            IsOpen(e) /\ (expr[e].wrapped \/ EvalFrame(e, TRUE) \in Range(stack)) =>
                /\ timing[e].state = "active"
                /\ pc.at = "idle" => e \in context[Jit(e)].timings

\* A block of code that is mapped is listed by exactly one live context, or is
\* the one being registered; a listed one is mapped. Nothing is left behind by
\* an ERROR and nothing is freed twice.
CodeIsOwned ==
    /\ mapped = (UNION {context[c].compiled : c \in Contexts})
                \cup (IF pc.at = "register" THEN {pc.code} ELSE {})
    /\ pc.at = "register" => \A c \in Contexts : pc.code \notin context[c].compiled
    /\ \A c, d \in Contexts : context[c].compiled \cap context[d].compiled # {} => c = d
    /\ \A c \in Contexts : ~context[c].live => context[c] = NoContext

\* A context lives exactly as long as its owner remembers it, which is as long
\* as its query is open or the owner's release has not come to it.
OwnersAgree ==
    /\ \A c \in Contexts :
         context[c].live <=> \E o \in Queries : c \in owner[o].remembers
    /\ \A o \in Queries : \A c \in owner[o].remembers :
         /\ context[c].resowner = o
         /\ owner[o].releasing \/ \E q \in Queries : /\ query[q].state = "open"
                                                     /\ query[q].jit = c
                                                     /\ query[q].owner = o
    /\ \A p, q \in Queries :
         query[p].state = "open" /\ query[q].state = "open" /\ query[p].jit = query[q].jit =>
            p = q \/ query[p].jit = None

\* No resource owner is asked to forget a context that it does not remember,
\* or while it releases, in either protocol.
NotRefused == status # "refused"

\* The MIR state found for a context by its address is one that this context,
\* and not an earlier one at the address, has listed.
MirCurrentIsOwn ==
    mir.jctx # None => /\ context[mir.jctx].live
                       /\ mir.state \in context[mir.jctx].compiled

\* Each call that the wrappers have timed is in the statistics once, after the
\* wrapper of its expression is done or its context is released.
CountedOnce ==
    \A b \in Backends :
        timed[b] = stats[b] + SumFunctionOnSet(Counts,
                                {e \in Exprs : timing[e].state = "active"
                                               /\ timing[e].backend = b})
=============================================================================
