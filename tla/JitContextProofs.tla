--------------------------- MODULE JitContextProofs ---------------------------
(***************************************************************************)
(* JitContext for any queries, expressions, places, blocks of code and     *)
(* depth of nesting: who owns a context and its code (IInv), how           *)
(* evaluations nest (NestInv), where the timing wrappers are (WrapInv),    *)
(* and what they add up to (CountInv).                                     *)
(***************************************************************************)
EXTENDS JitContext, SumTheorems, TLAPS

\* A query, whose nesting (subs, at) does not matter for ownership.
IsQuery(r) ==
    /\ r = [state |-> r.state, owner |-> r.owner, subs |-> r.subs, at |-> r.at, jit |-> r.jit]
    /\ r.state \in {"new", "open", "closed"}
    /\ r.owner \in Queries
    /\ r.jit \in Contexts \cup {None}
AreQueries == query = [q \in Queries |-> query[q]] /\ \A q \in Queries : IsQuery(query[q])
OwnerRecords == [remembers : SUBSET Contexts, releasing : BOOLEAN]
ContextRecords == [live : BOOLEAN, resowner : Queries \cup {None}, compiled : SUBSET Codes,
                   aux : BOOLEAN, timings : SUBSET Exprs]
PcRecords == [at : {"idle", "setup", "generate", "register", "install", "wrap"},
              expr : Exprs \cup {None}, code : Codes \cup {None}, backend : Backends \cup {None}]
ExprRecords == [fn : {"unready", "interpreted", "validate", "raw"}, code : Codes \cup {None},
                wrapped : BOOLEAN]

\* The types ownership depends on.
Types ==
    /\ session \in [provider : Providers, pg17 : BOOLEAN]
    /\ AreQueries
    /\ owner \in [Queries -> OwnerRecords]
    /\ context \in [Contexts -> ContextRecords]
    /\ mapped \subseteq Codes
    /\ mir \in [state : Codes \cup {None}, jctx : Contexts \cup {None}]
    /\ pc \in PcRecords
    /\ expr \in [Exprs -> ExprRecords]
    /\ status \in {"normal", "error", "abort", "refused"}

\* What compile_expr has in its hands at each point.
CompileInv ==
    /\ pc.at # "idle" => /\ status = "normal"
                         /\ pc.expr \in Exprs
                         /\ IsOpen(pc.expr)
                         /\ Jit(pc.expr) # None
    /\ pc.at = "register" => pc.code \in Codes
    /\ pc.at \in {"install", "wrap"} => pc.code \in context[Jit(pc.expr)].compiled

\* Owners release only during an abort, and none of them has an open query.
ReleaseInv ==
    /\ status \in {"normal", "error"} => \A o \in Queries : ~owner[o].releasing
    /\ \A q \in Queries : query[q].state = "open" => ~owner[query[q].owner].releasing

\* The context of an open query is the one its owner remembers.
JitInv ==
    \A q \in Queries :
        query[q].state = "open" /\ query[q].jit # None =>
            query[q].jit \in owner[query[q].owner].remembers

\* Only an open query has expressions.
ReadyInv == \A e \in Exprs : expr[e].fn # "unready" => IsOpen(e)

IInv == /\ Types /\ CompileInv /\ ReadyInv /\ ReleaseInv /\ JitInv /\ CodeIsOwned
        /\ OwnersAgree /\ NotRefused /\ MirCurrentIsOwn /\ RunsLiveCode

USE JitContextAssumption DEF IsOpen, Jit

-----------------------------------------------------------------------------
LEMMA InitOwned == Init => IInv
<1> SUFFICES ASSUME Init PROVE IInv
  OBVIOUS
<1>1. Types
  BY DEF Init, Types, AreQueries, IsQuery, OwnerRecords, ContextRecords, PcRecords, ExprRecords, Unopened,
         NoContext, Idle, NoMir, NoCode
<1>2. CompileInv /\ ReadyInv /\ ReleaseInv /\ JitInv /\ NotRefused
  BY DEF Init, CompileInv, ReadyInv, NoCode, ReleaseInv, JitInv, NotRefused, Idle, Unopened
<1>3. CodeIsOwned /\ OwnersAgree
  BY DEF Init, CodeIsOwned, OwnersAgree, NoContext, Idle, Unopened
<1>4. MirCurrentIsOwn /\ RunsLiveCode
  BY DEF Init, MirCurrentIsOwn, RunsLiveCode, NoMir, IsOpen, Unopened
<1> QED
  BY <1>1, <1>2, <1>3, <1>4 DEF IInv

\* The same code is installed in the same expressions.
SameCode == \A e \in Exprs :
    /\ expr'[e].code = expr[e].code
    /\ expr'[e].fn = "unready" <=> expr[e].fn = "unready"
    /\ expr'[e].fn \in {"validate", "raw"} => expr[e].fn \in {"validate", "raw"}

\* Steps outside compile_expr that leave contexts, code and owners alone.
LEMMA FrameOwned ==
  ASSUME IInv, Types', SameCode, Ready, status' \in {"normal", "error"},
         UNCHANGED <<owner, context, mapped, mir, pc>>,
         \A q \in Queries : /\ query'[q].state = query[q].state
                           /\ query'[q].owner = query[q].owner
                           /\ query'[q].jit = query[q].jit
  PROVE  IInv'
<1> USE DEF IInv, Ready
<1>1. CompileInv' /\ NotRefused' /\ MirCurrentIsOwn'
  BY DEF CompileInv, NotRefused, MirCurrentIsOwn
<1>2. CodeIsOwned'
  BY DEF CodeIsOwned
<1>3. ReadyInv' /\ RunsLiveCode'
  BY DEF ReadyInv, RunsLiveCode, SameCode, Types
<1>4. ReleaseInv' /\ JitInv'
  BY DEF ReleaseInv, JitInv, Types
<1>5. OwnersAgree'
  <2>1. \A c \in Contexts :
          context'[c].live <=> \E o \in Queries : c \in owner'[o].remembers
    BY DEF OwnersAgree
  <2>2. \A o \in Queries : \A c \in owner'[o].remembers :
          /\ context'[c].resowner = o
          /\ owner'[o].releasing \/ \E q \in Queries : /\ query'[q].state = "open"
                                                      /\ query'[q].jit = c
                                                      /\ query'[q].owner = o
    <3> SUFFICES ASSUME NEW o \in Queries, NEW c \in owner[o].remembers
                 PROVE  /\ context[c].resowner = o
                        /\ owner[o].releasing \/ \E q \in Queries :
                              /\ query'[q].state = "open" /\ query'[q].jit = c
                              /\ query'[q].owner = o
      OBVIOUS
    <3>1. context[c].resowner = o
      BY DEF OwnersAgree
    <3>2. owner[o].releasing \/ \E q \in Queries : /\ query[q].state = "open"
                                                  /\ query[q].jit = c
                                                  /\ query[q].owner = o
      BY DEF OwnersAgree
    <3> QED
      BY <3>1, <3>2
  <2>3. \A p, q \in Queries :
          query[p].state = "open" /\ query[q].state = "open" /\ query[p].jit = query[q].jit =>
             p = q \/ query[p].jit = None
    BY DEF OwnersAgree
  <2>4. \A p, q \in Queries :
          query'[p].state = "open" /\ query'[q].state = "open" /\ query'[p].jit = query'[q].jit =>
             p = q \/ query'[p].jit = None
    BY <2>3
  <2> QED
    BY <2>1, <2>2, <2>4 DEF OwnersAgree
<1> QED
  BY <1>1, <1>2, <1>3, <1>4, <1>5

LEMMA OpenOwned ==
  ASSUME IInv, NEW q \in Queries, NEW r \in Queries, Open(q, r) PROVE IInv'
<1> USE DEF Open, Ready, IInv
<1>1. Types'
  <2>1. query' = [p \in Queries |-> query'[p]] /\ \A p \in Queries : p # q => query'[p] = query[p]
    BY DEF Types, AreQueries
  <2>2. query'[q] = [state |-> "open", owner |-> r, subs |-> Cardinality(SubsOpen),
                     at |-> IF r = q THEN 0 ELSE Len(stack), jit |-> None]
    BY DEF Types, AreQueries
  <2>3. IsQuery(query'[q])
    BY <2>2 DEF IsQuery
  <2> QED
    BY <2>1, <2>3 DEF Types, AreQueries
<1>2. /\ status = "normal" /\ status' = status /\ pc.at = "idle"
      /\ UNCHANGED <<owner, context, mapped, mir, pc, expr>>
      /\ query[q].state = "new"
      /\ query'[q].jit = None /\ query'[q].state = "open" /\ query'[q].owner = r
      /\ \A p \in Queries : p # q => query'[p] = query[p]
  BY DEF Types, AreQueries, IsQuery
<1>3. \A e \in Exprs : /\ QueryOf[e] # q => query'[QueryOf[e]] = query[QueryOf[e]]
                      /\ query[QueryOf[e]].state = "open" => QueryOf[e] # q
  BY <1>2 DEF Types
<1>4. CompileInv'
  BY <1>2 DEF CompileInv
<1>5. /\ ReadyInv' /\ NotRefused' /\ MirCurrentIsOwn' /\ CodeIsOwned'
  <2>1. ReadyInv'
    BY <1>2, <1>3 DEF ReadyInv
  <2>2. NotRefused' /\ MirCurrentIsOwn'
    BY <1>2 DEF NotRefused, MirCurrentIsOwn
  <2>3. CodeIsOwned'
    BY <1>2 DEF CodeIsOwned
  <2> QED
    BY <2>1, <2>2, <2>3
<1>9. RunsLiveCode'
  <2> SUFFICES ASSUME NEW e \in Exprs, (IsOpen(e))', expr'[e].fn \in {"validate", "raw"}
               PROVE  /\ expr'[e].code \in mapped' /\ Jit(e)' # None
                      /\ expr'[e].code \in context'[Jit(e)'].compiled
    BY DEF RunsLiveCode, Jit, IsOpen
  <2>1. IsOpen(e)
    BY <1>2 DEF ReadyInv
  <2> QED
    BY <1>2, <1>3, <2>1 DEF RunsLiveCode
<1>6. ~owner[r].releasing
  BY <1>2 DEF ReleaseInv
<1>7. ReleaseInv' /\ JitInv'
  BY <1>2, <1>6 DEF ReleaseInv, JitInv, Types, AreQueries, IsQuery
<1>8. OwnersAgree'
  BY <1>2 DEF OwnersAgree, Types, AreQueries, IsQuery
<1> QED
  BY <1>1, <1>4, <1>5, <1>7, <1>8, <1>9

LEMMA StackOwned ==
  ASSUME IInv, BeginSub \/ CommitSub \/ Raise \/ ResetStats PROVE IInv'
<1>1. CASE BeginSub
  BY <1>1, FrameOwned DEF BeginSub, IInv, Types, AreQueries, SameCode, Ready
<1>2. CASE CommitSub
  <2>1. Types'
    <3>1. ASSUME NEW q \in Queries PROVE IsQuery(query'[q])
      <4>1. IsQuery(query[q])
        BY DEF IInv, Types, AreQueries
      <4>2. IsQuery([query[q] EXCEPT !.subs = @ - 1])
        BY <4>1 DEF IsQuery
      <4> QED
        BY <1>2, <4>1, <4>2 DEF CommitSub
    <3>2. AreQueries'
      BY <1>2, <3>1 DEF CommitSub, AreQueries
    <3> QED
      BY <1>2, <3>2 DEF CommitSub, IInv, Types
  <2>2. \A q \in Queries : /\ query'[q].state = query[q].state
                           /\ query'[q].owner = query[q].owner
                           /\ query'[q].jit = query[q].jit
    BY <1>2 DEF CommitSub, IInv, Types, AreQueries, IsQuery
  <2>3. SameCode /\ Ready /\ status' = status /\ UNCHANGED <<owner, context, mapped, mir, pc>>
    BY <1>2 DEF CommitSub, SameCode
  <2> QED
    BY <2>1, <2>2, <2>3, FrameOwned DEF Ready
<1>3. CASE Raise
  BY <1>3, FrameOwned DEF Raise, IInv, Types, AreQueries, SameCode, Ready
<1>4. CASE ResetStats
  BY <1>4, FrameOwned DEF ResetStats, IInv, Types, AreQueries, SameCode, Ready
<1> QED
  BY <1>1, <1>2, <1>3, <1>4

\* Replacing what is called, but not the code, keeps the code installed.
LEMMA SameCodeKept ==
  ASSUME IInv, NEW e \in Exprs, NEW f \in {expr[e].fn, "validate", "raw"}, NEW w \in BOOLEAN,
         f = expr[e].fn \/ expr[e].fn \in {"validate", "raw"},
         expr' = [expr EXCEPT ![e].wrapped = w, ![e].fn = f]
  PROVE  expr' \in [Exprs -> ExprRecords] /\ SameCode
<1>1. expr \in [Exprs -> ExprRecords]
  BY DEF IInv, Types
<1>2. expr[e] \in ExprRecords /\ f \in {"unready", "interpreted", "validate", "raw"}
  BY <1>1 DEF ExprRecords
<1>3. /\ expr'[e] = [expr[e] EXCEPT !.wrapped = w, !.fn = f]
      /\ \A d \in Exprs : d # e => expr'[d] = expr[d]
  BY <1>1, <1>2 DEF ExprRecords
<1>4. expr'[e] \in ExprRecords /\ expr'[e].code = expr[e].code /\ expr'[e].fn = f
  <2> DEFINE r == [[expr[e] EXCEPT !.wrapped = w] EXCEPT !.fn = f]
  <2>1. r.code = expr[e].code /\ r.fn = f
    BY <1>2 DEF ExprRecords
  <2>2. r \in ExprRecords
    BY <1>2 DEF ExprRecords
  <2>3. expr'[e] = r
    BY <1>3
  <2> QED
    BY <2>1, <2>2, <2>3
<1>5. expr' \in [Exprs -> ExprRecords]
  BY <1>1, <1>3, <1>4
<1>6. SameCode
  BY <1>3, <1>4 DEF SameCode
<1> QED
  BY <1>5, <1>6

LEMMA EvaluateOwned ==
  ASSUME IInv, NEW e \in Exprs, Evaluate(e) PROVE IInv'
<1> DEFINE fn == IF ~expr[e].wrapped THEN expr[e].fn
                 ELSE IF timing[e].raw THEN "raw" ELSE "validate"
<1>1. /\ expr[e].fn \in {"validate", "raw"}
      /\ fn \in {"validate", "raw"}
      /\ \E f \in {"validate", "raw"} :
           expr' = [expr EXCEPT ![e].wrapped = FALSE, ![e].fn = f]
      /\ status' \in {"normal", "error"}
      /\ UNCHANGED <<session, query, owner, context, mapped, mir, pc>>
      /\ Ready
  BY DEF Evaluate, Ready
<1>3. expr' \in [Exprs -> ExprRecords] /\ SameCode
  BY <1>1, SameCodeKept
<1>4. Types'
  BY <1>1, <1>3 DEF IInv, Types, AreQueries
<1> QED
  BY <1>1, <1>3, <1>4, FrameOwned

LEMMA ReturnOwned ==
  ASSUME IInv, Return PROVE IInv'
<1> DEFINE e == stack[Len(stack)].expr
<1>1. /\ UNCHANGED <<session, query, owner, context, mapped, mir, pc, status>>
      /\ Ready
  BY DEF Return
<1>3. \/ expr' = expr
      \/ \E w \in BOOLEAN : expr' = [expr EXCEPT ![e].wrapped = w]
  <2> DEFINE n == timing[e].count + 1
  <2>1. CASE ~stack[Len(stack)].wrapped
    BY <2>1 DEF Return
  <2>2. CASE stack[Len(stack)].wrapped
    <3>1. expr' = [expr EXCEPT ![e].wrapped = Reinstalled(n)]
      BY <2>2 DEF Return
    <3>2. Reinstalled(n) \in BOOLEAN
      BY DEF Reinstalled, Unfinished
    <3> QED
      BY <3>1, <3>2
  <2> QED
    BY <2>1, <2>2
<1>4. expr' \in [Exprs -> ExprRecords] /\ SameCode
  <2>1. expr \in [Exprs -> ExprRecords]
    BY DEF IInv, Types
  <2>2. CASE expr' = expr
    BY <2>1, <2>2 DEF SameCode
  <2>3. ASSUME NEW w \in BOOLEAN, expr' = [expr EXCEPT ![e].wrapped = w]
        PROVE  expr' \in [Exprs -> ExprRecords] /\ SameCode
    <3>1. \A d \in Exprs : expr'[d] = expr[d] \/ expr'[d] = [expr[d] EXCEPT !.wrapped = w]
      BY <2>1, <2>3
    <3>2. \A d \in Exprs : [expr[d] EXCEPT !.wrapped = w] \in ExprRecords
      BY <2>1 DEF ExprRecords
    <3>3. \A d \in Exprs : /\ [expr[d] EXCEPT !.wrapped = w].code = expr[d].code
                          /\ [expr[d] EXCEPT !.wrapped = w].fn = expr[d].fn
      BY <2>1 DEF ExprRecords
    <3>4. expr' \in [Exprs -> ExprRecords]
      BY <2>1, <2>3, <3>1, <3>2
    <3>5. SameCode
      BY <3>1, <3>3 DEF SameCode
    <3> QED
      BY <3>4, <3>5
  <2> QED
    BY <1>3, <2>2, <2>3
<1>5. Types'
  BY <1>1, <1>4 DEF IInv, Types, AreQueries
<1>6. status' \in {"normal", "error"}
  BY <1>1 DEF Ready
<1> QED
  BY <1>1, <1>4, <1>5, <1>6, FrameOwned

-----------------------------------------------------------------------------
(* compile_expr. *)

LEMMA GetContextOwned ==
  ASSUME IInv, NEW e \in Exprs, NEW b \in Backends, GetContext(e, b) PROVE IInv'
<1> DEFINE q == QueryOf[e]
<1> USE DEF IInv, Ready
<1>1. /\ status = "normal" /\ pc.at = "idle" /\ q \in Queries /\ query[q].state = "open"
      /\ UNCHANGED <<session, mapped, mir, expr>>
  BY DEF GetContext, MayRun
<1>2. CASE query[q].jit # None /\ pc'.at = "setup" /\ pc'.expr = e /\ Types'
           /\ UNCHANGED <<query, owner, context, status>>
  <2>1. CompileInv' /\ CodeIsOwned' /\ NotRefused' /\ MirCurrentIsOwn'
    BY <1>1, <1>2 DEF CompileInv, CodeIsOwned, NotRefused, MirCurrentIsOwn
  <2>2. ReadyInv' /\ RunsLiveCode' /\ ReleaseInv' /\ JitInv' /\ OwnersAgree'
    BY <1>1, <1>2 DEF ReadyInv, RunsLiveCode, ReleaseInv, JitInv, OwnersAgree
  <2> QED
    BY <1>2, <2>1, <2>2
<1>3. CASE Fail /\ UNCHANGED <<query, owner, context>>
  <2>1. Types'
    BY <1>1, <1>3 DEF Types, AreQueries, Fail, Idle, PcRecords
  <2>2. pc'.at = "idle" /\ status' = "error"
    BY <1>3 DEF Fail, Idle
  <2>3. CompileInv' /\ CodeIsOwned' /\ NotRefused' /\ MirCurrentIsOwn'
    BY <1>1, <1>3, <2>2 DEF CompileInv, CodeIsOwned, NotRefused, MirCurrentIsOwn
  <2>4. ReadyInv' /\ RunsLiveCode' /\ ReleaseInv' /\ JitInv' /\ OwnersAgree'
    BY <1>1, <1>3, <2>2 DEF ReadyInv, RunsLiveCode, ReleaseInv, JitInv, OwnersAgree
  <2> QED
    BY <2>1, <2>3, <2>4
<1>4. ASSUME NEW c \in Contexts, ~context[c].live, query[q].jit = None, UNCHANGED status,
             context' = [context EXCEPT ![c] =
                           [NoContext EXCEPT !.live = TRUE, !.resowner = query[q].owner]],
             owner' = [owner EXCEPT ![query[q].owner].remembers = @ \cup {c}],
             query' = [query EXCEPT ![q].jit = c],
             pc' = [at |-> "setup", expr |-> e, code |-> None, backend |-> b]
      PROVE  IInv'
  <2> DEFINE o == query[q].owner
  <2>1. o \in Queries
    BY <1>1 DEF Types, AreQueries, IsQuery
  <2>2. /\ context' \in [Contexts -> ContextRecords]
        /\ context'[c].live /\ context'[c].resowner = o /\ context'[c].compiled = {}
        /\ \A d \in Contexts : d # c => context'[d] = context[d]
    BY <1>4, <2>1 DEF Types, ContextRecords, NoContext
  <2>3. /\ owner' \in [Queries -> OwnerRecords]
        /\ \A r \in Queries : owner'[r].releasing = owner[r].releasing
        /\ owner'[o].remembers = owner[o].remembers \cup {c}
        /\ \A r \in Queries : r # o => owner'[r].remembers = owner[r].remembers
    BY <1>4, <2>1 DEF Types, OwnerRecords
  <2>4. /\ AreQueries'
        /\ query'[q].jit = c /\ query'[q].state = "open" /\ query'[q].owner = o
        /\ \A p \in Queries : p # q => query'[p] = query[p]
    <3>1. IsQuery(query[q])
      BY <1>1 DEF Types, AreQueries
    <3>2. query'[q] = [query[q] EXCEPT !.jit = c]
      BY <1>1, <1>4 DEF Types, AreQueries
    <3>3. /\ IsQuery(query'[q]) /\ query'[q].jit = c
          /\ query'[q].state = query[q].state /\ query'[q].owner = query[q].owner
      BY <3>1, <3>2 DEF IsQuery
    <3>4. \A p \in Queries : p # q => query'[p] = query[p]
      BY <1>4 DEF Types, AreQueries
    <3>5. AreQueries'
      BY <1>4, <3>3, <3>4 DEF Types, AreQueries
    <3> QED
      BY <1>1, <3>3, <3>4, <3>5
  <2>5. Types'
    BY <1>1, <1>4, <2>2, <2>3, <2>4 DEF Types, PcRecords
  <2>6. context[c] = NoContext /\ \A r \in Queries : c \notin owner[r].remembers
    BY <1>4 DEF CodeIsOwned, OwnersAgree
  <2>7. \A p \in Queries : query[p].state = "open" => query[p].jit # c
    BY <2>6 DEF JitInv, Types, AreQueries, IsQuery
  <2>8. CompileInv' /\ NotRefused'
    BY <1>1, <1>4, <2>4 DEF CompileInv, NotRefused, Types
  <2>9. CodeIsOwned'
    <3>1. \A d \in Contexts : context'[d].compiled = context[d].compiled
      <4>1. context[c].compiled = {}
        BY <2>6 DEF NoContext
      <4> QED
        BY <2>2, <4>1
    <3> QED
      BY <1>1, <1>4, <2>2, <3>1 DEF CodeIsOwned
  <2>10. ReleaseInv' /\ JitInv'
    BY <1>1, <1>4, <2>3, <2>4, <2>1 DEF ReleaseInv, JitInv, Types, AreQueries, IsQuery
  <2>11. OwnersAgree'
    <3>1. \A d \in Contexts :
            context'[d].live <=> \E r \in Queries : d \in owner'[r].remembers
      BY <2>1, <2>2, <2>3, <2>6 DEF OwnersAgree
    <3>2. \A r \in Queries : \A d \in owner'[r].remembers :
            /\ context'[d].resowner = r
            /\ owner'[r].releasing \/ \E p \in Queries : /\ query'[p].state = "open"
                                                        /\ query'[p].jit = d
                                                        /\ query'[p].owner = r
      <4> SUFFICES ASSUME NEW r \in Queries, NEW d \in owner'[r].remembers
                   PROVE  /\ context'[d].resowner = r
                          /\ owner'[r].releasing \/ \E p \in Queries :
                                /\ query'[p].state = "open" /\ query'[p].jit = d
                                /\ query'[p].owner = r
        OBVIOUS
      <4>1. CASE d = c
        BY <1>1, <2>1, <2>2, <2>3, <2>4, <2>6, <4>1
      <4>2. CASE d # c
        <5>1. d \in owner[r].remembers /\ d \in Contexts
          <6>1. d \in owner[r].remembers
            BY <2>1, <2>3, <4>2
          <6>2. owner[r].remembers \subseteq Contexts
            BY DEF Types, OwnerRecords
          <6> QED
            BY <6>1, <6>2
        <5>2. context[d].resowner = r
          BY <5>1 DEF OwnersAgree
        <5>3. CASE owner[r].releasing
          BY <2>2, <2>3, <4>2, <5>1, <5>2, <5>3
        <5>4. CASE ~owner[r].releasing
          <6>1. PICK p \in Queries : /\ query[p].state = "open" /\ query[p].jit = d
                                    /\ query[p].owner = r
            BY <5>1, <5>4 DEF OwnersAgree
          <6>2. p # q
            BY <1>4, <5>1, <6>1
          <6> QED
            BY <2>2, <2>4, <4>2, <5>1, <5>2, <6>1, <6>2
        <5> QED
          BY <5>3, <5>4
      <4> QED
        BY <4>1, <4>2
    <3>3. \A p, r \in Queries :
            query'[p].state = "open" /\ query'[r].state = "open"
            /\ query'[p].jit = query'[r].jit => p = r \/ query'[p].jit = None
      BY <1>1, <2>4, <2>7 DEF OwnersAgree
    <3> QED
      BY <3>1, <3>2, <3>3 DEF OwnersAgree
  <2>12. MirCurrentIsOwn'
    BY <1>1, <1>4, <2>2 DEF MirCurrentIsOwn, Types
  <2>13. ReadyInv'
    BY <1>1, <2>4 DEF ReadyInv
  <2>14. RunsLiveCode'
    BY <1>1, <1>4, <2>2, <2>4, <2>7 DEF RunsLiveCode, Types
  <2> QED
    BY <2>5, <2>8, <2>9, <2>10, <2>11, <2>12, <2>13, <2>14
<1> QED
  <2>1. CASE /\ query[q].jit # None
             /\ pc' = [at |-> "setup", expr |-> e, code |-> None, backend |-> b]
             /\ UNCHANGED <<query, owner, context, status>>
    <3>1. Types'
      BY <1>1, <2>1 DEF Types, AreQueries, PcRecords
    <3> QED
      BY <1>2, <2>1, <3>1
  <2> QED
    BY <1>3, <1>4, <2>1 DEF GetContext

\* What is listed, code by code.
LEMMA CodesListed ==
  ASSUME NEW C, NEW S, NEW M, NEW X
  PROVE  M = (UNION {C[c].compiled : c \in S}) \cup X <=>
           \A h : h \in M <=> (\E c \in S : h \in C[c].compiled) \/ h \in X
OBVIOUS

\* Steps of compile_expr that neither map nor list code, and install what they
\* install from the list of their own context.
LEMMA CompileOwned ==
  ASSUME IInv, Types', CompileInv', status = "normal", status' \in {"normal", "error"},
         pc.at \notin {"idle", "register"}, pc'.at # "register",
         UNCHANGED <<query, owner, mapped, mir>>,
         \A c \in Contexts : /\ context'[c].live = context[c].live
                             /\ context'[c].resowner = context[c].resowner
                             /\ context'[c].compiled = context[c].compiled
                             /\ ~context'[c].live => context'[c] = NoContext,
         \A e \in Exprs : \/ /\ expr'[e].code = expr[e].code
                             /\ expr'[e].fn \in {"validate", "raw"} =>
                                  expr[e].fn \in {"validate", "raw"}
                             /\ expr'[e].fn # "unready" => e = pc.expr \/ expr[e].fn # "unready"
                          \/ e = pc.expr /\ pc.at = "install" /\ expr'[e].code = pc.code
  PROVE  IInv'
<1> USE DEF IInv
<1>1. /\ pc.expr \in Exprs /\ IsOpen(pc.expr) /\ Jit(pc.expr) # None
      /\ Jit(pc.expr) \in Contexts
  BY DEF CompileInv, Types, AreQueries, IsQuery
<1>2. NotRefused' /\ ReleaseInv' /\ JitInv'
  BY DEF NotRefused, ReleaseInv, JitInv
<1>3. ReadyInv'
  BY <1>1 DEF ReadyInv
<1>4. CodeIsOwned'
  <2>1. UNION {context'[c].compiled : c \in Contexts} = UNION {context[c].compiled : c \in Contexts}
    OBVIOUS
  <2> QED
    BY <2>1 DEF CodeIsOwned
<1>5. OwnersAgree'
  <2>1. \A c \in Contexts : context'[c].live <=> \E o \in Queries : c \in owner'[o].remembers
    BY DEF OwnersAgree
  <2>2. \A o \in Queries : owner[o].remembers \subseteq Contexts
    BY DEF Types, OwnerRecords
  <2>3. \A o \in Queries : \A c \in owner'[o].remembers :
          /\ context'[c].resowner = o
          /\ owner'[o].releasing \/ \E q \in Queries : /\ query'[q].state = "open"
                                                      /\ query'[q].jit = c
                                                      /\ query'[q].owner = o
    BY <2>2 DEF OwnersAgree
  <2> QED
    BY <2>1, <2>3 DEF OwnersAgree
<1>6. MirCurrentIsOwn'
  BY DEF MirCurrentIsOwn, Types
<1>7. RunsLiveCode'
  <2> SUFFICES ASSUME NEW e \in Exprs, IsOpen(e), expr'[e].fn \in {"validate", "raw"}
               PROVE  /\ expr'[e].code \in mapped /\ Jit(e) # None
                      /\ expr'[e].code \in context'[Jit(e)].compiled
    BY DEF RunsLiveCode
  <2>1. CASE expr'[e].code = expr[e].code /\ expr[e].fn \in {"validate", "raw"}
    <3>1. Jit(e) # None /\ expr[e].code \in mapped /\ expr[e].code \in context[Jit(e)].compiled
      BY <2>1 DEF RunsLiveCode
    <3>2. Jit(e) \in Contexts
      BY <3>1 DEF Types, AreQueries, IsQuery
    <3> QED
      BY <2>1, <3>1, <3>2
  <2>2. CASE e = pc.expr /\ pc.at = "install" /\ expr'[e].code = pc.code
    <3>1. pc.code \in context[Jit(e)].compiled
      BY <2>2 DEF CompileInv
    <3>2. pc.code \in mapped
      BY <1>1, <2>2, <3>1 DEF CodeIsOwned
    <3> QED
      BY <1>1, <2>2, <3>1, <3>2
  <2> QED
    BY <2>1, <2>2
<1> QED
  BY <1>2, <1>3, <1>4, <1>5, <1>6, <1>7

\* What a step of compile_expr finds.
LEMMA AtCompile ==
  ASSUME IInv, pc.at # "idle"
  PROVE  /\ status = "normal" /\ pc.expr \in Exprs /\ IsOpen(pc.expr)
         /\ Jit(pc.expr) \in Contexts /\ Jit(pc.expr) # None
         /\ context[Jit(pc.expr)].live /\ context[Jit(pc.expr)] \in ContextRecords
         /\ expr[pc.expr] \in ExprRecords
<1> DEFINE q == QueryOf[pc.expr]
<1>1. /\ status = "normal" /\ pc.expr \in Exprs /\ IsOpen(pc.expr)
      /\ Jit(pc.expr) \in Contexts /\ Jit(pc.expr) # None /\ q \in Queries
  BY DEF IInv, CompileInv, Types, AreQueries, IsQuery
<1>2. Jit(pc.expr) \in owner[query[q].owner].remembers /\ query[q].owner \in Queries
  BY <1>1 DEF IInv, JitInv, Types, AreQueries, IsQuery
<1>3. context[Jit(pc.expr)].live
  BY <1>1, <1>2 DEF IInv, OwnersAgree
<1> QED
  BY <1>1, <1>3 DEF IInv, Types

\* An expression's state is replaced.
LEMMA ExprChanged ==
  ASSUME IInv, NEW e \in Exprs, NEW r \in ExprRecords, expr' = [expr EXCEPT ![e] = r]
  PROVE  /\ expr' \in [Exprs -> ExprRecords]
         /\ expr'[e] = r /\ \A d \in Exprs : d # e => expr'[d] = expr[d]
BY DEF IInv, Types

\* The interpreter takes an expression over.
LEMMA Interpreted ==
  ASSUME IInv, pc.at # "idle", Interpret
  PROVE  /\ expr' \in [Exprs -> ExprRecords] /\ pc' = Idle
         /\ \A e \in Exprs : /\ expr'[e].code = expr[e].code
                             /\ expr'[e].fn \in {"validate", "raw"} =>
                                  expr[e].fn \in {"validate", "raw"}
                             /\ expr'[e].fn # "unready" => e = pc.expr \/ expr[e].fn # "unready"
<1> DEFINE r == [expr[pc.expr] EXCEPT !.fn = "interpreted"]
<1>1. r \in ExprRecords /\ r.code = expr[pc.expr].code /\ r.fn = "interpreted"
  BY AtCompile DEF ExprRecords
<1>2. expr' = [expr EXCEPT ![pc.expr] = r] /\ pc' = Idle
  BY DEF Interpret
<1> QED
  BY <1>1, <1>2, AtCompile, ExprChanged

LEMMA SetupOwned ==
  ASSUME IInv, Setup PROVE IInv'
<1> DEFINE j == Jit(pc.expr)
<1> USE DEF Setup, Compiling
<1>1. /\ status = "normal" /\ pc.at = "setup" /\ j \in Contexts /\ pc.expr \in Exprs
      /\ context[j].live /\ context[j] \in ContextRecords /\ IsOpen(pc.expr) /\ j # None
  BY AtCompile
<1>2. UNCHANGED <<session, query, owner, mapped, mir>>
  OBVIOUS
<1>3. /\ context' \in [Contexts -> ContextRecords]
      /\ \A c \in Contexts : /\ context'[c].live = context[c].live
                             /\ context'[c].resowner = context[c].resowner
                             /\ context'[c].compiled = context[c].compiled
                             /\ ~context'[c].live => context'[c] = NoContext
  <2>1. PICK a \in BOOLEAN : context' = [context EXCEPT ![j] = [context[j] EXCEPT !.aux = a]]
    <3>1. (context[j].aux \/ pc.expr \in Searching) \in BOOLEAN
      OBVIOUS
    <3> QED
      BY <3>1
  <2> DEFINE r == [context[j] EXCEPT !.aux = a]
  <2>2. /\ r \in ContextRecords /\ r.live = context[j].live /\ r.compiled = context[j].compiled
        /\ r.resowner = context[j].resowner
    BY <1>1 DEF ContextRecords
  <2>3. context'[j] = r /\ \A c \in Contexts : c # j => context'[c] = context[c]
    BY <1>1, <2>1 DEF IInv, Types
  <2>4. context' \in [Contexts -> ContextRecords]
    BY <1>1, <2>1, <2>2 DEF IInv, Types
  <2> QED
    BY <1>1, <2>2, <2>3, <2>4 DEF IInv, CodeIsOwned
<1>4. CASE pc' = [pc EXCEPT !.at = "generate"] /\ UNCHANGED <<expr, status>>
  <2>1. pc' \in PcRecords /\ pc'.at = "generate" /\ pc'.expr = pc.expr
    BY <1>4 DEF IInv, Types, PcRecords
  <2>2. Types'
    BY <1>2, <1>3, <1>4, <2>1 DEF IInv, Types, AreQueries
  <2>3. CompileInv'
    BY <1>1, <1>2, <1>4, <2>1 DEF CompileInv
  <2> QED
    BY <1>1, <1>2, <1>3, <1>4, <2>1, <2>2, <2>3, CompileOwned
<1>5. CASE Interpret /\ UNCHANGED status
  <2>1. /\ expr' \in [Exprs -> ExprRecords] /\ pc' = Idle
        /\ \A e \in Exprs : /\ expr'[e].code = expr[e].code
                            /\ expr'[e].fn \in {"validate", "raw"} =>
                                 expr[e].fn \in {"validate", "raw"}
                            /\ expr'[e].fn # "unready" => e = pc.expr \/ expr[e].fn # "unready"
    BY <1>1, <1>5, Interpreted
  <2>2. Types' /\ CompileInv'
    BY <1>2, <1>3, <1>5, <2>1 DEF IInv, Types, AreQueries, Idle, PcRecords, CompileInv
  <2> QED
    BY <1>1, <1>2, <1>3, <1>5, <2>1, <2>2, CompileOwned DEF Idle
<1>6. CASE Fail /\ UNCHANGED expr
  <2>1. Types' /\ CompileInv' /\ pc'.at = "idle" /\ status' = "error"
    BY <1>2, <1>3, <1>6 DEF IInv, Types, AreQueries, Idle, PcRecords, CompileInv, Fail
  <2> QED
    BY <1>1, <1>2, <1>3, <1>6, <2>1, CompileOwned
<1> QED
  BY <1>4, <1>5, <1>6

LEMMA InstallOwned ==
  ASSUME IInv, Install PROVE IInv'
<1> USE DEF Install, Compiling
<1>1. /\ status = "normal" /\ pc.at = "install" /\ Jit(pc.expr) \in Contexts /\ pc.expr \in Exprs
      /\ IsOpen(pc.expr) /\ Jit(pc.expr) # None
  BY AtCompile
<1>2. UNCHANGED <<session, query, owner, context, mapped, mir>>
  OBVIOUS
<1>3. \A c \in Contexts : ~context'[c].live => context'[c] = NoContext
  BY <1>2 DEF IInv, CodeIsOwned
<1>4. CASE /\ expr' = [expr EXCEPT ![pc.expr] =
                         [fn |-> "validate", code |-> pc.code, wrapped |-> FALSE]]
           /\ pc' = IF session.provider = "meta" THEN [pc EXCEPT !.at = "wrap"] ELSE Idle
           /\ UNCHANGED status
  <2> DEFINE r == [fn |-> "validate", code |-> pc.code, wrapped |-> FALSE]
  <2>1. r \in ExprRecords /\ r.code = pc.code
    BY DEF IInv, Types, PcRecords, ExprRecords
  <2>2. /\ expr' \in [Exprs -> ExprRecords] /\ expr'[pc.expr] = r
        /\ \A d \in Exprs : d # pc.expr => expr'[d] = expr[d]
    BY <1>1, <1>4, <2>1, ExprChanged
  <2>3. /\ pc' \in PcRecords /\ pc'.at \in {"wrap", "idle"}
        /\ pc'.at = "wrap" => pc'.expr = pc.expr /\ pc'.code = pc.code
    BY <1>4 DEF IInv, Types, PcRecords, Idle
  <2>4. Types'
    BY <1>2, <1>4, <2>2, <2>3 DEF IInv, Types, AreQueries
  <2>5. CompileInv'
    BY <1>1, <1>2, <1>4, <2>3 DEF IInv, CompileInv
  <2>6. \A e \in Exprs : \/ /\ expr'[e].code = expr[e].code
                            /\ expr'[e].fn = expr[e].fn
                         \/ e = pc.expr /\ expr'[e].code = pc.code
    BY <2>1, <2>2
  <2> QED
    BY <1>1, <1>2, <1>3, <1>4, <2>3, <2>4, <2>5, <2>6, CompileOwned
<1>5. CASE Interpret /\ UNCHANGED status
  <2>1. /\ expr' \in [Exprs -> ExprRecords] /\ pc' = Idle
        /\ \A e \in Exprs : /\ expr'[e].code = expr[e].code
                            /\ expr'[e].fn \in {"validate", "raw"} =>
                                 expr[e].fn \in {"validate", "raw"}
                            /\ expr'[e].fn # "unready" => e = pc.expr \/ expr[e].fn # "unready"
    BY <1>1, <1>5, Interpreted
  <2>2. Types' /\ CompileInv'
    BY <1>2, <1>5, <2>1 DEF IInv, Types, AreQueries, Idle, PcRecords, CompileInv
  <2> QED
    BY <1>1, <1>2, <1>3, <1>5, <2>1, <2>2, CompileOwned DEF Idle
<1>6. CASE Fail /\ UNCHANGED expr
  <2>1. Types' /\ CompileInv' /\ pc'.at = "idle" /\ status' = "error"
    BY <1>2, <1>6 DEF IInv, Types, AreQueries, Idle, PcRecords, CompileInv, Fail
  <2> QED
    BY <1>1, <1>2, <1>3, <1>6, <2>1, CompileOwned
<1> QED
  BY <1>4, <1>5, <1>6

LEMMA WrapOwned ==
  ASSUME IInv, Wrap PROVE IInv'
<1> DEFINE j == Jit(pc.expr)
<1> USE DEF Wrap, Compiling
<1>1. /\ status = "normal" /\ pc.at = "wrap" /\ j \in Contexts /\ pc.expr \in Exprs
      /\ IsOpen(pc.expr) /\ j # None /\ context[j].live /\ context[j] \in ContextRecords
      /\ expr[pc.expr] \in ExprRecords
  BY AtCompile
<1>2. UNCHANGED <<session, query, owner, mapped, mir>>
  OBVIOUS
<1>3. \/ context' = context
      \/ context' = [context EXCEPT ![j].timings = @ \cup {pc.expr}]
  OBVIOUS
<1>4. /\ context' \in [Contexts -> ContextRecords]
      /\ \A c \in Contexts : /\ context'[c].live = context[c].live
                             /\ context'[c].resowner = context[c].resowner
                             /\ context'[c].compiled = context[c].compiled
                             /\ ~context'[c].live => context'[c] = NoContext
  <2>1. CASE context' = context
    BY <2>1 DEF IInv, Types, CodeIsOwned
  <2>2. CASE context' = [context EXCEPT ![j].timings = @ \cup {pc.expr}]
    <3> DEFINE r == [context[j] EXCEPT !.timings = @ \cup {pc.expr}]
    <3>1. /\ r \in ContextRecords /\ r.live = context[j].live /\ r.compiled = context[j].compiled
          /\ r.resowner = context[j].resowner
      BY <1>1 DEF ContextRecords
    <3>2. context'[j] = r /\ \A c \in Contexts : c # j => context'[c] = context[c]
      BY <1>1, <2>2 DEF IInv, Types
    <3>3. context' \in [Contexts -> ContextRecords]
      BY <1>1, <2>2, <3>1 DEF IInv, Types
    <3> QED
      BY <1>1, <3>1, <3>2, <3>3 DEF IInv, CodeIsOwned
  <2> QED
    BY <1>3, <2>1, <2>2
<1>5. /\ expr' \in [Exprs -> ExprRecords]
      /\ \A e \in Exprs : /\ expr'[e].code = expr[e].code
                          /\ expr'[e].fn = expr[e].fn
  <2>1. CASE expr' = expr
    BY <2>1 DEF IInv, Types
  <2>2. CASE expr' = [expr EXCEPT ![pc.expr].wrapped = TRUE]
    <3> DEFINE r == [expr[pc.expr] EXCEPT !.wrapped = TRUE]
    <3>1. r \in ExprRecords /\ r.code = expr[pc.expr].code /\ r.fn = expr[pc.expr].fn
      BY <1>1 DEF ExprRecords
    <3>2. expr' = [expr EXCEPT ![pc.expr] = r]
      BY <2>2
    <3> QED
      BY <1>1, <3>1, <3>2, ExprChanged
  <2> QED
    BY <2>1, <2>2
<1>6. /\ pc' = Idle
      /\ status' \in {"normal", "error"}
  BY <1>1 DEF Fail
<1>7. Types' /\ CompileInv'
  BY <1>2, <1>4, <1>5, <1>6 DEF IInv, Types, AreQueries, Idle, PcRecords, CompileInv
<1> QED
  BY <1>1, <1>2, <1>4, <1>5, <1>6, <1>7, CompileOwned DEF Idle

LEMMA GenerateOwned ==
  ASSUME IInv, Generate PROVE IInv'
<1> DEFINE j == Jit(pc.expr)
<1> USE DEF IInv
<1>1. /\ status = "normal" /\ pc.at = "generate" /\ j \in Contexts /\ pc.expr \in Exprs
      /\ IsOpen(pc.expr) /\ j # None
  BY AtCompile DEF Generate, Compiling
<1>2. UNCHANGED <<session, query, owner, context, mir, expr, status>>
  BY DEF Generate
<1>3. CASE /\ HasMirState(j)
           /\ pc' = [pc EXCEPT !.at = "install", !.code = mir.state] /\ UNCHANGED mapped
  <2>1. mir.state \in context[j].compiled /\ mir.state \in Codes \cup {None}
    BY <1>1, <1>3 DEF MirCurrentIsOwn, HasMirState, Types
  <2>2. pc' \in PcRecords /\ pc'.at = "install" /\ pc'.expr = pc.expr /\ pc'.code = mir.state
    BY <1>3, <2>1 DEF Types, PcRecords
  <2>3. Types'
    BY <1>2, <1>3, <2>2 DEF Types, AreQueries
  <2>4. CompileInv'
    BY <1>1, <1>2, <2>1, <2>2 DEF CompileInv
  <2>5. \A c \in Contexts : ~context'[c].live => context'[c] = NoContext
    BY <1>2 DEF CodeIsOwned
  <2> QED
    BY <1>1, <1>2, <1>3, <2>2, <2>3, <2>4, <2>5, CompileOwned
<1>4. ASSUME NEW h \in Codes \ mapped, mapped' = mapped \cup {h},
             pc' = [pc EXCEPT !.at = "register", !.code = h]
      PROVE  IInv'
  <2>1. pc' \in PcRecords /\ pc'.at = "register" /\ pc'.expr = pc.expr /\ pc'.code = h
    BY <1>4 DEF Types, PcRecords
  <2>2. Types'
    BY <1>2, <1>4, <2>1 DEF Types, AreQueries
  <2>3. CompileInv'
    BY <1>1, <1>2, <1>4, <2>1 DEF CompileInv
  <2>7. ReadyInv' /\ NotRefused' /\ ReleaseInv' /\ JitInv' /\ OwnersAgree'
    BY <1>1, <1>2 DEF ReadyInv, NotRefused, ReleaseInv, JitInv, OwnersAgree
  <2>4. mapped = UNION {context[c].compiled : c \in Contexts}
    BY <1>1 DEF CodeIsOwned
  <2>5. CodeIsOwned'
    <3>1. \A c \in Contexts : h \notin context[c].compiled
      BY <2>4
    <3>2. mapped' = (UNION {context'[c].compiled : c \in Contexts}) \cup {h}
      BY <1>2, <1>4, <2>4
    <3> QED
      BY <1>2, <2>1, <3>1, <3>2 DEF CodeIsOwned
  <2>6. MirCurrentIsOwn' /\ RunsLiveCode'
    BY <1>2, <1>4 DEF MirCurrentIsOwn, RunsLiveCode
  <2> QED
    BY <2>2, <2>3, <2>5, <2>6, <2>7
<1> QED
  BY <1>1, <1>3, <1>4 DEF Generate

LEMMA RegisterOwned ==
  ASSUME IInv, Register PROVE IInv'
<1> DEFINE j == Jit(pc.expr)
           h == pc.code
<1>1. /\ status = "normal" /\ pc.at = "register" /\ j \in Contexts /\ pc.expr \in Exprs
      /\ IsOpen(pc.expr) /\ j # None /\ context[j].live /\ context[j] \in ContextRecords
      /\ h \in Codes
  BY AtCompile DEF IInv, CompileInv, Register, Compiling
<1>2. UNCHANGED <<session, query, owner, expr>> /\ status' \in {"normal", "error"}
  BY DEF Register, Compiling, Fail
<1>3. /\ mapped = (UNION {context[c].compiled : c \in Contexts}) \cup {h}
      /\ \A c \in Contexts : h \notin context[c].compiled
      /\ \A k : k \in mapped <=> (\E c \in Contexts : k \in context[c].compiled) \/ k \in {h}
  <2>1. mapped = (UNION {context[c].compiled : c \in Contexts}) \cup {h}
    BY <1>1 DEF IInv, CodeIsOwned
  <2>2. \A c \in Contexts : h \notin context[c].compiled
    BY <1>1 DEF IInv, CodeIsOwned
  <2> QED
    BY <2>1, <2>2, CodesListed
<1>4. NotRefused' /\ ReleaseInv' /\ JitInv' /\ ReadyInv'
  BY <1>1, <1>2 DEF IInv, NotRefused, ReleaseInv, JitInv, ReadyInv
<1>5. CASE /\ context' = [context EXCEPT ![j].compiled = @ \cup {h}]
           /\ mir' = IF pc.backend = Mir THEN [state |-> h, jctx |-> j] ELSE mir
           /\ pc' = [pc EXCEPT !.at = "install"]
           /\ UNCHANGED <<mapped, status>>
  <2> DEFINE r == [context[j] EXCEPT !.compiled = @ \cup {h}]
  <2>1. /\ r \in ContextRecords /\ r.live /\ r.compiled = context[j].compiled \cup {h}
        /\ r.resowner = context[j].resowner
    BY <1>1 DEF ContextRecords
  <2>2. /\ context' \in [Contexts -> ContextRecords]
        /\ context'[j] = r /\ \A c \in Contexts : c # j => context'[c] = context[c]
    BY <1>1, <1>5, <2>1 DEF IInv, Types
  <2>3. \A c \in Contexts : /\ context'[c].live = context[c].live
                            /\ context'[c].resowner = context[c].resowner
                            /\ context[c].compiled \subseteq context'[c].compiled
    BY <1>1, <2>1, <2>2
  <2>12. /\ context'[j].compiled = context[j].compiled \cup {h}
         /\ \A c \in Contexts : c # j => context'[c].compiled = context[c].compiled
         /\ h \notin context[j].compiled
    BY <1>1, <1>3, <2>1, <2>2
  <2>4. /\ pc' \in PcRecords /\ pc'.at = "install" /\ pc'.expr = pc.expr /\ pc'.code = h
    BY <1>5 DEF IInv, Types, PcRecords
  <2>5. mir' \in [state : Codes \cup {None}, jctx : Contexts \cup {None}]
    BY <1>1, <1>5 DEF IInv, Types
  <2>6. Types'
    BY <1>2, <1>5, <2>2, <2>4, <2>5 DEF IInv, Types, AreQueries
  <2>7. CompileInv'
    BY <1>1, <1>2, <1>5, <2>1, <2>2, <2>4 DEF CompileInv
  <2>8. CodeIsOwned'
    <3>1. mapped' = (UNION {context'[c].compiled : c \in Contexts}) \cup {}
      <4>1. \A k : (\E c \in Contexts : k \in context'[c].compiled) <=>
                    (\E c \in Contexts : k \in context[c].compiled) \/ k = h
        <5> SUFFICES ASSUME NEW k
                     PROVE  (\E c \in Contexts : k \in context'[c].compiled) <=>
                            (\E c \in Contexts : k \in context[c].compiled) \/ k = h
          OBVIOUS
        <5>1. k \in context'[j].compiled <=> k \in context[j].compiled \/ k = h
          BY <2>12
        <5>2. \A c \in Contexts :
                c # j => (k \in context'[c].compiled <=> k \in context[c].compiled)
          BY <2>12
        <5> HIDE DEF j, h
        <5> QED
          BY <1>1, <5>1, <5>2
      <4>2. \A k : k \in mapped' <=>
                    (\E c \in Contexts : k \in context'[c].compiled) \/ k \in {}
        BY <1>3, <1>5, <4>1
      <4> QED
        BY <4>2, CodesListed
    <3>2. \A c, d \in Contexts : context'[c].compiled \cap context'[d].compiled # {} => c = d
      <4> SUFFICES ASSUME NEW c \in Contexts, NEW d \in Contexts, c # d,
                          NEW k \in context'[c].compiled, k \in context'[d].compiled
                   PROVE  FALSE
        OBVIOUS
      <4>1. CASE k = h
        BY <1>3, <2>2, <4>1
      <4>2. CASE k # h
        <5>1. k \in context[c].compiled /\ k \in context[d].compiled
          <6>1. context[j].compiled = context'[j].compiled \ {h}
                /\ \A b \in Contexts : b # j => context'[b].compiled = context[b].compiled
            BY <2>12
          <6> HIDE DEF j, h
          <6> QED
            BY <4>2, <6>1
        <5> QED
          BY <5>1 DEF IInv, CodeIsOwned
      <4> QED
        BY <4>1, <4>2
    <3>3. \A c \in Contexts : ~context'[c].live => context'[c] = NoContext
      BY <1>1, <2>1, <2>2 DEF IInv, CodeIsOwned
    <3> QED
      BY <1>5, <2>4, <3>1, <3>2, <3>3 DEF CodeIsOwned
  <2>9. OwnersAgree'
    <3>1. \A o \in Queries : owner[o].remembers \subseteq Contexts
      BY DEF IInv, Types, OwnerRecords
    <3>2. \A c \in Contexts : context'[c].live <=> \E o \in Queries : c \in owner'[o].remembers
      BY <1>2, <2>3 DEF IInv, OwnersAgree
    <3>3. \A o \in Queries : \A c \in owner'[o].remembers :
            /\ context'[c].resowner = o
            /\ owner'[o].releasing \/ \E q \in Queries : /\ query'[q].state = "open"
                                                        /\ query'[q].jit = c
                                                        /\ query'[q].owner = o
      BY <1>2, <2>3, <3>1 DEF IInv, OwnersAgree
    <3> QED
      BY <1>2, <3>2, <3>3 DEF IInv, OwnersAgree
  <2>10. MirCurrentIsOwn'
    <3>1. CASE pc.backend = Mir
      BY <1>5, <2>1, <2>2, <3>1 DEF MirCurrentIsOwn
    <3>2. CASE pc.backend # Mir
      BY <1>5, <2>3, <3>2 DEF IInv, Types, MirCurrentIsOwn
    <3> QED
      BY <3>1, <3>2
  <2>11. RunsLiveCode'
    <3>1. \A e \in Exprs : Jit(e) \in Contexts \cup {None}
      BY DEF IInv, Types, AreQueries, IsQuery
    <3> QED
      BY <1>2, <1>5, <2>3, <3>1 DEF IInv, RunsLiveCode
  <2> QED
    BY <1>4, <2>6, <2>7, <2>8, <2>9, <2>10, <2>11 DEF IInv
<1>6. CASE mapped' = FreedOnError(h) /\ mir' = MirAfterFree({h}) /\ Fail /\ UNCHANGED context
  <2>1. mapped' = mapped \ {h} /\ pc' = Idle /\ status' = "error"
    BY <1>6 DEF FreedOnError, Fail
  <2>2. mir' = IF mir.state = h THEN NoMir ELSE mir
    BY <1>6 DEF MirAfterFree
  <2>3. Types'
    BY <1>2, <1>6, <2>1, <2>2 DEF IInv, Types, AreQueries, PcRecords, Idle, NoMir
  <2>4. CompileInv' /\ OwnersAgree'
    BY <1>2, <1>6, <2>1 DEF IInv, CompileInv, OwnersAgree, Idle
  <2>5. CodeIsOwned'
    <3>1. \A k : k \in mapped' <=> (\E c \in Contexts : k \in context[c].compiled) \/ k \in {}
      BY <1>3, <2>1
    <3>2. mapped' = (UNION {context[c].compiled : c \in Contexts}) \cup {}
      BY <3>1, CodesListed
    <3> QED
      BY <1>6, <2>1, <3>2 DEF IInv, CodeIsOwned, Idle
  <2>6. MirCurrentIsOwn'
    BY <1>6, <2>2 DEF IInv, MirCurrentIsOwn, NoMir
  <2>7. RunsLiveCode'
    <3>1. \A e \in Exprs : Jit(e) \in Contexts \cup {None}
      BY DEF IInv, Types, AreQueries, IsQuery
    <3> QED
      BY <1>2, <1>3, <1>6, <2>1, <3>1 DEF IInv, RunsLiveCode
  <2> QED
    BY <1>4, <2>3, <2>4, <2>5, <2>6, <2>7 DEF IInv
<1> QED
  BY <1>5, <1>6 DEF Register

-----------------------------------------------------------------------------
(* Queries end and contexts are released. *)

\* The queries of S end.
LEMMA QueriesEnded ==
  ASSUME IInv, NEW S, S \subseteq Queries, Ended(S)
  PROVE  /\ AreQueries' /\ expr' \in [Exprs -> ExprRecords] /\ ReadyInv'
         /\ \A q \in S : query'[q].state = "closed"
         /\ \A q \in Queries : q \notin S => query'[q] = query[q]
         /\ \A e \in Exprs : QueryOf[e] \notin S => expr'[e] = expr[e]
<1>1. ASSUME NEW q \in Queries
      PROVE  /\ IsQuery(query'[q])
             /\ q \in S => query'[q].state = "closed"
             /\ q \notin S => query'[q] = query[q]
  <2>1. CASE q \in S
    BY <2>1 DEF Ended, Unopened, IsQuery
  <2>2. CASE q \notin S
    BY <2>2 DEF Ended, IInv, Types, AreQueries
  <2> QED
    BY <2>1, <2>2
<1>2. AreQueries'
  BY <1>1 DEF AreQueries, Ended
<1>3. \A e \in Exprs : expr'[e] = IF QueryOf[e] \in S THEN NoCode ELSE expr[e]
  BY DEF Ended
<1>4. expr' \in [Exprs -> ExprRecords]
  <2>1. NoCode \in ExprRecords
    BY DEF NoCode, ExprRecords
  <2> QED
    BY <2>1 DEF Ended, IInv, Types
<1>5. ReadyInv'
  <2> SUFFICES ASSUME NEW e \in Exprs, expr'[e].fn # "unready"
               PROVE  query'[QueryOf[e]].state = "open"
    BY DEF ReadyInv
  <2>1. QueryOf[e] \notin S
    BY <1>3 DEF NoCode
  <2>2. query[QueryOf[e]].state = "open"
    BY <1>3, <2>1 DEF IInv, ReadyInv
  <2> QED
    BY <1>1, <2>1, <2>2
<1> QED
  BY <1>1, <1>2, <1>3, <1>4, <1>5

\* A context that its owner remembers is released and forgotten, with its query
\* or after it.
LEMMA ReleasedOwned ==
  ASSUME IInv, NEW c \in Contexts, NEW o \in Queries, c \in owner[o].remembers,
         FreeContents(c), owner' = [owner EXCEPT ![o].remembers = @ \ {c}],
         UNCHANGED <<session, pc, status>>, pc.at = "idle",
         AreQueries', expr' \in [Exprs -> ExprRecords], ReadyInv',
         \A q \in Queries :
            /\ query'[q].state = "open" => query'[q] = query[q] /\ query[q].jit # c
            /\ query[q].state = "open" => query'[q] = query[q] \/ query[q].jit = c,
         \A e \in Exprs : query'[QueryOf[e]].state = "open" => expr'[e] = expr[e]
  PROVE  IInv'
<1>1. /\ context' \in [Contexts -> ContextRecords]
      /\ context'[c] = NoContext
      /\ \A d \in Contexts : d # c => context'[d] = context[d]
  <2>1. NoContext \in ContextRecords
    BY DEF NoContext, ContextRecords
  <2> QED
    BY <2>1 DEF FreeContents, IInv, Types
<1>2. /\ owner' \in [Queries -> OwnerRecords]
      /\ \A p \in Queries : owner'[p].releasing = owner[p].releasing
      /\ owner'[o].remembers = owner[o].remembers \ {c}
      /\ \A p \in Queries : p # o => owner'[p].remembers = owner[p].remembers
  <2> DEFINE r == [owner[o] EXCEPT !.remembers = @ \ {c}]
  <2>1. /\ r \in OwnerRecords /\ r.releasing = owner[o].releasing
        /\ r.remembers = owner[o].remembers \ {c}
    BY DEF IInv, Types, OwnerRecords
  <2>2. owner'[o] = r /\ \A p \in Queries : p # o => owner'[p] = owner[p]
    BY DEF IInv, Types
  <2>3. owner' \in [Queries -> OwnerRecords]
    BY <2>1 DEF IInv, Types
  <2> QED
    BY <2>1, <2>2, <2>3
<1>3. context[c].resowner = o /\ \A p \in Queries : p # o => c \notin owner[p].remembers
  BY DEF IInv, OwnersAgree
<1>4. mapped' = mapped \ context[c].compiled
      /\ mir' = IF mir.state \in context[c].compiled THEN NoMir ELSE mir
  BY DEF FreeContents, MirAfterFree
<1>5. Types'
  <2>1. mir' \in [state : Codes \cup {None}, jctx : Contexts \cup {None}]
    BY <1>4 DEF IInv, Types, NoMir
  <2>2. mapped' \subseteq Codes
    BY <1>4 DEF IInv, Types
  <2> QED
    BY <1>1, <1>2, <2>1, <2>2 DEF IInv, Types
<1>6. CompileInv' /\ NotRefused'
  BY DEF IInv, CompileInv, NotRefused
<1>7. \A q \in Queries : query[q].owner \in Queries /\ query[q].jit \in Contexts \cup {None}
  BY DEF IInv, Types, AreQueries, IsQuery
<1>8. ReleaseInv'
  BY <1>2, <1>7 DEF IInv, ReleaseInv
<1>9. JitInv'
  <2> SUFFICES ASSUME NEW q \in Queries, query'[q].state = "open", query'[q].jit # None
               PROVE  query'[q].jit \in owner'[query'[q].owner].remembers
    BY DEF JitInv
  <2>1. query'[q] = query[q] /\ query[q].jit # c
    OBVIOUS
  <2>2. query[q].jit \in owner[query[q].owner].remembers
    BY <2>1 DEF IInv, JitInv
  <2> QED
    BY <1>2, <1>7, <2>1, <2>2
<1>10. CodeIsOwned'
  <2>1. \A k : k \in mapped <=> (\E d \in Contexts : k \in context[d].compiled) \/ k \in {}
    <3>1. mapped = (UNION {context[d].compiled : d \in Contexts}) \cup {}
      BY DEF IInv, CodeIsOwned
    <3> QED
      BY <3>1, CodesListed
  <2>2. \A d \in Contexts : d # c => context[d].compiled \cap context[c].compiled = {}
    BY DEF IInv, CodeIsOwned
  <2>3. context'[c].compiled = {}
    BY <1>1 DEF NoContext
  <2>4. \A k : k \in mapped' <=> (\E d \in Contexts : k \in context'[d].compiled) \/ k \in {}
    <3> SUFFICES ASSUME NEW k
                 PROVE  k \in mapped' <=> \E d \in Contexts : k \in context'[d].compiled
      OBVIOUS
    <3>1. ASSUME k \in mapped' PROVE \E d \in Contexts : k \in context'[d].compiled
      <4>1. k \in mapped /\ k \notin context[c].compiled
        BY <1>4, <3>1
      <4>2. PICK d \in Contexts : k \in context[d].compiled
        BY <2>1, <4>1
      <4> QED
        BY <1>1, <4>1, <4>2
    <3>2. ASSUME NEW d \in Contexts, k \in context'[d].compiled PROVE k \in mapped'
      <4>1. d # c /\ k \in context[d].compiled
        BY <1>1, <2>3, <3>2
      <4>2. k \notin context[c].compiled
        BY <2>2, <4>1
      <4> QED
        BY <1>4, <2>1, <4>1, <4>2
    <3> QED
      BY <3>1, <3>2
  <2>5. mapped' = (UNION {context'[d].compiled : d \in Contexts}) \cup {}
    BY <2>4, CodesListed
  <2>6. \A d, b \in Contexts : context'[d].compiled \cap context'[b].compiled # {} => d = b
    BY <1>1, <2>3 DEF IInv, CodeIsOwned
  <2>7. \A d \in Contexts : ~context'[d].live => context'[d] = NoContext
    BY <1>1 DEF IInv, CodeIsOwned
  <2> QED
    BY <2>5, <2>6, <2>7 DEF CodeIsOwned
<1>11. OwnersAgree'
  <2>1. \A d \in Contexts : context'[d].live <=> \E p \in Queries : d \in owner'[p].remembers
    <3> SUFFICES ASSUME NEW d \in Contexts
                 PROVE  context'[d].live <=> \E p \in Queries : d \in owner'[p].remembers
      OBVIOUS
    <3>1. CASE d = c
      <4>1. ~context'[c].live
        BY <1>1 DEF NoContext
      <4> QED
        BY <1>2, <1>3, <3>1, <4>1
    <3>2. CASE d # c
      <4>1. context[d].live <=> \E p \in Queries : d \in owner[p].remembers
        BY DEF IInv, OwnersAgree
      <4>2. \A p \in Queries : d \in owner'[p].remembers <=> d \in owner[p].remembers
        BY <1>2, <3>2
      <4> QED
        BY <1>1, <3>2, <4>1, <4>2
    <3> QED
      BY <3>1, <3>2
  <2>2. \A p \in Queries : \A d \in owner'[p].remembers :
          /\ context'[d].resowner = p
          /\ owner'[p].releasing \/ \E q \in Queries : /\ query'[q].state = "open"
                                                      /\ query'[q].jit = d
                                                      /\ query'[q].owner = p
    <3> SUFFICES ASSUME NEW p \in Queries, NEW d \in owner'[p].remembers
                 PROVE  /\ context'[d].resowner = p
                        /\ owner[p].releasing \/ \E q \in Queries :
                              /\ query'[q].state = "open" /\ query'[q].jit = d
                              /\ query'[q].owner = p
      BY <1>2
    <3>1. d \in owner[p].remembers /\ d # c
      BY <1>2, <1>3
    <3>2. d \in Contexts
      BY <3>1 DEF IInv, Types, OwnerRecords
    <3>3. context[d].resowner = p
      BY <3>1 DEF IInv, OwnersAgree
    <3>4. owner[p].releasing \/ \E q \in Queries :
            query[q].state = "open" /\ query[q].jit = d /\ query[q].owner = p
      BY <3>1 DEF IInv, OwnersAgree
    <3>5. \A q \in Queries : query[q].state = "open" /\ query[q].jit = d => query'[q] = query[q]
      BY <3>1
    <3> QED
      BY <1>1, <3>1, <3>2, <3>3, <3>4, <3>5
  <2>3. \A p, q \in Queries :
          query'[p].state = "open" /\ query'[q].state = "open" /\ query'[p].jit = query'[q].jit =>
             p = q \/ query'[p].jit = None
    BY DEF IInv, OwnersAgree
  <2> QED
    BY <2>1, <2>2, <2>3 DEF OwnersAgree
<1>12. MirCurrentIsOwn'
  <2> SUFFICES ASSUME mir'.jctx # None
               PROVE  context'[mir'.jctx].live /\ mir'.state \in context'[mir'.jctx].compiled
    BY DEF MirCurrentIsOwn
  <2>1. mir' = mir /\ mir.state \notin context[c].compiled
    BY <1>4 DEF NoMir
  <2>2. context[mir.jctx].live /\ mir.state \in context[mir.jctx].compiled /\ mir.jctx \in Contexts
    BY <2>1 DEF IInv, MirCurrentIsOwn, Types
  <2> QED
    BY <1>1, <2>1, <2>2
<1>13. RunsLiveCode'
  <2> SUFFICES ASSUME NEW e \in Exprs, query'[QueryOf[e]].state = "open",
                      expr'[e].fn \in {"validate", "raw"}
               PROVE  /\ expr'[e].code \in mapped' /\ query'[QueryOf[e]].jit # None
                      /\ expr'[e].code \in context'[query'[QueryOf[e]].jit].compiled
    BY DEF RunsLiveCode
  <2> DEFINE q == QueryOf[e]
  <2>1. query'[q] = query[q] /\ query[q].jit # c /\ expr'[e] = expr[e] /\ q \in Queries
    OBVIOUS
  <2>2. /\ expr[e].code \in mapped /\ query[q].jit # None
        /\ expr[e].code \in context[query[q].jit].compiled
    BY <2>1 DEF IInv, RunsLiveCode
  <2>3. query[q].jit \in Contexts
    BY <1>7, <2>1, <2>2
  <2>4. expr[e].code \notin context[c].compiled
    BY <2>1, <2>2, <2>3 DEF IInv, CodeIsOwned
  <2> QED
    BY <1>1, <1>4, <2>1, <2>2, <2>3, <2>4
<1> QED
  BY <1>5, <1>6, <1>8, <1>9, <1>10, <1>11, <1>12, <1>13 DEF IInv

\* Queries end and their contexts, if they have any, are left to their owners,
\* which begin to release.
LEMMA EndedOwned ==
  ASSUME IInv, Types', ReadyInv', ReleaseInv', NotRefused',
         pc.at = "idle", pc'.at = "idle", UNCHANGED <<context, mapped, mir>>,
         \A o \in Queries : owner'[o].remembers = owner[o].remembers,
         \A o \in Queries : owner[o].releasing => owner'[o].releasing,
         \A q \in Queries :
            /\ query'[q].state = "open" => query'[q] = query[q]
            /\ query[q].state = "open" => \/ query'[q] = query[q] \/ query[q].jit = None
                                          \/ owner'[query[q].owner].releasing,
         \A e \in Exprs : query'[QueryOf[e]].state = "open" => expr'[e] = expr[e]
  PROVE  IInv'
<1>1. CompileInv' /\ CodeIsOwned' /\ MirCurrentIsOwn'
  BY DEF IInv, CompileInv, CodeIsOwned, MirCurrentIsOwn
<1>2. \A q \in Queries : query[q].owner \in Queries
  BY DEF IInv, Types, AreQueries, IsQuery
<1>3. JitInv'
  BY <1>2 DEF IInv, JitInv
<1>4. OwnersAgree'
  <2>1. \A d \in Contexts : context'[d].live <=> \E p \in Queries : d \in owner'[p].remembers
    BY DEF IInv, OwnersAgree
  <2>2. \A p \in Queries : \A d \in owner'[p].remembers :
          /\ context'[d].resowner = p
          /\ owner'[p].releasing \/ \E q \in Queries : /\ query'[q].state = "open"
                                                      /\ query'[q].jit = d
                                                      /\ query'[q].owner = p
    <3> SUFFICES ASSUME NEW p \in Queries, NEW d \in owner[p].remembers, ~owner'[p].releasing
                 PROVE  \E q \in Queries :
                          query'[q].state = "open" /\ query'[q].jit = d /\ query'[q].owner = p
      BY DEF IInv, OwnersAgree
    <3>1. d # None
      BY DEF IInv, Types, OwnerRecords
    <3>2. PICK q \in Queries : query[q].state = "open" /\ query[q].jit = d /\ query[q].owner = p
      BY DEF IInv, OwnersAgree
    <3>3. query'[q] = query[q]
      BY <3>1, <3>2
    <3> QED
      BY <3>2, <3>3
  <2>3. \A p, q \in Queries :
          query'[p].state = "open" /\ query'[q].state = "open" /\ query'[p].jit = query'[q].jit =>
             p = q \/ query'[p].jit = None
    BY DEF IInv, OwnersAgree
  <2> QED
    BY <2>1, <2>2, <2>3 DEF OwnersAgree
<1>5. RunsLiveCode'
  BY DEF IInv, RunsLiveCode
<1> QED
  BY <1>1, <1>3, <1>4, <1>5 DEF IInv

LEMMA CloseOwned ==
  ASSUME IInv, NEW q \in Queries, Close(q) PROVE IInv'
<1>1. /\ status = "normal" /\ pc.at = "idle" /\ query[q].state = "open" /\ Ended({q})
      /\ UNCHANGED <<session, pc>>
  BY DEF Close, Ready
<1>2. /\ AreQueries' /\ expr' \in [Exprs -> ExprRecords] /\ ReadyInv'
      /\ query'[q].state = "closed"
      /\ \A p \in Queries : p # q => query'[p] = query[p]
      /\ \A e \in Exprs : QueryOf[e] # q => expr'[e] = expr[e]
  BY <1>1, QueriesEnded
<1>3. \A e \in Exprs : query'[QueryOf[e]].state = "open" => expr'[e] = expr[e]
  BY <1>2
<1>4. CASE query[q].jit = None
  <2>1. UNCHANGED <<owner, context, mapped, mir, status>>
    BY <1>4 DEF Close
  <2>2. Types' /\ NotRefused'
    BY <1>1, <1>2, <2>1 DEF IInv, Types, NotRefused
  <2>3. \A p \in Queries : query'[p].state = "open" => query'[p] = query[p]
    BY <1>2
  <2>4. ReleaseInv'
    BY <2>1, <2>3 DEF IInv, ReleaseInv
  <2>5. \A p \in Queries : query'[p] = query[p] \/ query[p].jit = None
    BY <1>2, <1>4
  <2> QED
    BY <1>1, <1>2, <1>3, <2>1, <2>2, <2>3, <2>4, <2>5, EndedOwned
<1>5. CASE query[q].jit # None
  <2> DEFINE c == query[q].jit
             o == query[q].owner
  <2>1. /\ c \in Contexts /\ o \in Queries /\ c \in owner[o].remembers
        /\ context[c].resowner = o /\ o # None
    <3>1. c \in Contexts /\ o \in Queries
      BY <1>5 DEF IInv, Types, AreQueries, IsQuery
    <3>2. c \in owner[o].remembers
      BY <1>1, <1>5 DEF IInv, JitInv
    <3> QED
      BY <3>1, <3>2 DEF IInv, OwnersAgree
  <2>2. ~owner[o].releasing
    BY <1>1 DEF IInv, ReleaseInv
  <2>3. FreeContents(c) /\ ForgetAtEnd(c)
    BY <1>5 DEF Close
  <2>4. owner' = [owner EXCEPT ![o].remembers = @ \ {c}] /\ UNCHANGED status
    BY <2>1, <2>2, <2>3 DEF ForgetAtEnd, Forget, ForgetJIT
  <2>5. \A p \in Queries : query[p].state = "open" /\ query[p].jit = c => p = q
    BY <1>1, <1>5 DEF IInv, OwnersAgree
  <2>6. \A p \in Queries :
          /\ query'[p].state = "open" => query'[p] = query[p] /\ query[p].jit # c
          /\ query[p].state = "open" => query'[p] = query[p] \/ query[p].jit = c
    BY <1>2, <2>5
  <2> HIDE DEF c, o
  <2> QED
    BY <1>1, <1>2, <1>3, <2>1, <2>3, <2>4, <2>6, ReleasedOwned
<1> QED
  BY <1>4, <1>5

LEMMA ReleaseByOwnerOwned ==
  ASSUME IInv, NEW o \in Queries, NEW c \in Contexts, ReleaseByOwner(o, c) PROVE IInv'
<1>1. /\ status = "abort" /\ owner[o].releasing /\ c \in owner[o].remembers
      /\ FreeContents(c) /\ ForgetAtAbort(o, c) /\ UNCHANGED <<session, query, pc, expr>>
  BY DEF ReleaseByOwner
<1>2. context[c].resowner = o
  BY <1>1 DEF IInv, OwnersAgree
<1>3. owner' = [owner EXCEPT ![o].remembers = @ \ {c}] /\ UNCHANGED status
  BY <1>1, <1>2 DEF ForgetAtAbort, ForgetJIT
<1>4. pc.at = "idle"
  BY <1>1 DEF IInv, CompileInv
<1>5. \A q \in Queries : query[q].state = "open" => query[q].jit # c
  <2> SUFFICES ASSUME NEW q \in Queries, query[q].state = "open", query[q].jit = c PROVE FALSE
    OBVIOUS
  <2>1. c # None /\ query[q].owner \in Queries
    BY DEF IInv, Types, AreQueries, IsQuery
  <2>2. c \in owner[query[q].owner].remembers
    BY <2>1 DEF IInv, JitInv
  <2>3. query[q].owner = o
    BY <1>2, <2>1, <2>2 DEF IInv, OwnersAgree
  <2> QED
    BY <1>1, <2>3 DEF IInv, ReleaseInv
<1>6. AreQueries' /\ expr' \in [Exprs -> ExprRecords] /\ ReadyInv'
  BY <1>1 DEF IInv, Types, AreQueries, ReadyInv
<1> QED
  BY <1>1, <1>3, <1>4, <1>5, <1>6, ReleasedOwned

\* The flag of an owner is set or cleared.
LEMMA OwnerReleases ==
  ASSUME IInv, NEW o \in Queries, NEW w \in BOOLEAN
  PROVE  /\ [owner[o] EXCEPT !.releasing = w] \in OwnerRecords
         /\ [owner[o] EXCEPT !.releasing = w].remembers = owner[o].remembers
         /\ [owner[o] EXCEPT !.releasing = w].releasing = w
<1>1. owner[o] \in OwnerRecords
  BY DEF IInv, Types
<1> QED
  BY <1>1 DEF OwnerRecords

LEMMA UnwindOwned ==
  ASSUME IInv, Unwind PROVE IInv'
<1>1. /\ status = "error" /\ status' = "abort" /\ pc' = Idle
      /\ Ended(Doomed) /\ UNCHANGED <<session, context, mapped, mir>>
      /\ owner' = [o \in Queries |-> IF o \in DoomedOwners
                                     THEN [owner[o] EXCEPT !.releasing = TRUE] ELSE owner[o]]
  BY DEF Unwind
<1>2. pc.at = "idle" /\ pc'.at = "idle" /\ pc' \in PcRecords
  BY <1>1 DEF IInv, CompileInv, Idle, PcRecords
<1>3. /\ AreQueries' /\ expr' \in [Exprs -> ExprRecords] /\ ReadyInv'
      /\ \A q \in Doomed : query'[q].state = "closed"
      /\ \A q \in Queries : q \notin Doomed => query'[q] = query[q]
      /\ \A e \in Exprs : QueryOf[e] \notin Doomed => expr'[e] = expr[e]
  <2>1. Doomed \subseteq Queries
    BY DEF Doomed
  <2> QED
    BY <1>1, <2>1, QueriesEnded
<1>4. /\ owner' \in [Queries -> OwnerRecords]
      /\ \A o \in Queries : /\ owner'[o].remembers = owner[o].remembers
                            /\ owner[o].releasing => owner'[o].releasing
                            /\ o \in DoomedOwners => owner'[o].releasing
                            /\ o \notin DoomedOwners => owner'[o] = owner[o]
  <2>1. ASSUME NEW o \in Queries
        PROVE  /\ owner'[o] \in OwnerRecords
               /\ owner'[o].remembers = owner[o].remembers
               /\ owner[o].releasing => owner'[o].releasing
               /\ o \in DoomedOwners => owner'[o].releasing
               /\ o \notin DoomedOwners => owner'[o] = owner[o]
    <3> DEFINE r == [owner[o] EXCEPT !.releasing = TRUE]
    <3>1. r \in OwnerRecords /\ r.remembers = owner[o].remembers /\ r.releasing
      <4>1. TRUE \in BOOLEAN
        OBVIOUS
      <4>2. /\ r \in OwnerRecords /\ r.remembers = owner[o].remembers
            /\ r.releasing = TRUE
        BY <4>1, OwnerReleases
      <4> QED
        BY <4>2
    <3>2. owner'[o] = IF o \in DoomedOwners THEN r ELSE owner[o]
      BY <1>1
    <3>3. owner[o] \in OwnerRecords
      BY DEF IInv, Types
    <3> QED
      BY <3>1, <3>2, <3>3
  <2> QED
    BY <1>1, <2>1
<1>5. Types' /\ NotRefused'
  BY <1>1, <1>2, <1>3, <1>4 DEF IInv, Types, NotRefused
<1>6. \A q \in Queries : query[q].owner \in Queries
  BY DEF IInv, Types, AreQueries, IsQuery
<1>7. \A q \in Queries : query'[q].state = "open" =>
        query'[q] = query[q] /\ query[q].owner \notin DoomedOwners
  BY <1>3 DEF Doomed
<1>8. \A q \in Queries : query[q].state = "open" =>
        query'[q] = query[q] \/ owner'[query[q].owner].releasing
  BY <1>3, <1>4, <1>6 DEF Doomed
<1>9. ReleaseInv'
  BY <1>1, <1>4, <1>6, <1>7 DEF IInv, ReleaseInv
<1>10. \A e \in Exprs : query'[QueryOf[e]].state = "open" => expr'[e] = expr[e]
  BY <1>3
<1> QED
  BY <1>1, <1>2, <1>3, <1>4, <1>5, <1>7, <1>8, <1>9, <1>10, EndedOwned

LEMMA AbortedOwned ==
  ASSUME IInv, Aborted PROVE IInv'
<1>1. /\ status = "abort" /\ status' = "normal"
      /\ \A o \in Queries : owner[o].releasing => owner[o].remembers = {}
      /\ owner' = [o \in Queries |-> [owner[o] EXCEPT !.releasing = FALSE]]
      /\ UNCHANGED <<session, query, context, mapped, mir, pc, expr>>
  BY DEF Aborted
<1>2. /\ owner' \in [Queries -> OwnerRecords]
      /\ \A o \in Queries : ~owner'[o].releasing /\ owner'[o].remembers = owner[o].remembers
  <2>1. ASSUME NEW o \in Queries
        PROVE  /\ owner'[o] \in OwnerRecords
               /\ ~owner'[o].releasing /\ owner'[o].remembers = owner[o].remembers
    <3> DEFINE r == [owner[o] EXCEPT !.releasing = FALSE]
    <3>1. FALSE \in BOOLEAN
      OBVIOUS
    <3>2. /\ r \in OwnerRecords /\ r.remembers = owner[o].remembers
          /\ r.releasing = FALSE
      BY <3>1, OwnerReleases
    <3>3. owner'[o] = r
      BY <1>1
    <3> QED
      BY <3>2, <3>3
  <2> QED
    BY <1>1, <2>1
<1>3. Types' /\ NotRefused'
  BY <1>1, <1>2 DEF IInv, Types, AreQueries, NotRefused
<1>4. CompileInv' /\ ReadyInv' /\ CodeIsOwned' /\ MirCurrentIsOwn' /\ RunsLiveCode'
  BY <1>1 DEF IInv, CompileInv, ReadyInv, CodeIsOwned, MirCurrentIsOwn, RunsLiveCode
<1>5. \A q \in Queries : query[q].owner \in Queries
  BY DEF IInv, Types, AreQueries, IsQuery
<1>6. ReleaseInv' /\ JitInv'
  BY <1>1, <1>2, <1>5 DEF IInv, ReleaseInv, JitInv
<1>7. OwnersAgree'
  <2>1. \A c \in Contexts : context[c].live <=> \E o \in Queries : c \in owner'[o].remembers
    BY <1>2 DEF IInv, OwnersAgree
  <2>2. \A o \in Queries : \A c \in owner'[o].remembers :
          /\ context[c].resowner = o
          /\ \E q \in Queries : /\ query[q].state = "open" /\ query[q].jit = c
                               /\ query[q].owner = o
    <3> SUFFICES ASSUME NEW o \in Queries, NEW c \in owner[o].remembers
                 PROVE  /\ context[c].resowner = o
                        /\ \E q \in Queries : /\ query[q].state = "open" /\ query[q].jit = c
                                             /\ query[q].owner = o
      BY <1>2
    <3>1. ~owner[o].releasing
      BY <1>1
    <3> QED
      BY <3>1 DEF IInv, OwnersAgree
  <2>3. \A p, q \in Queries :
          query[p].state = "open" /\ query[q].state = "open" /\ query[p].jit = query[q].jit =>
             p = q \/ query[p].jit = None
    BY DEF IInv, OwnersAgree
  <2>4. query' = query /\ context' = context
    BY <1>1
  <2> QED
    BY <2>1, <2>2, <2>3, <2>4 DEF OwnersAgree
<1> QED
  BY <1>3, <1>4, <1>6, <1>7 DEF IInv

-----------------------------------------------------------------------------
LEMMA StepOwned == IInv /\ [Next]_vars => IInv'
<1> SUFFICES ASSUME IInv, [Next]_vars PROVE IInv'
  OBVIOUS
<1>1. CASE UNCHANGED vars
  <2>1. Types' /\ CompileInv' /\ ReadyInv' /\ ReleaseInv' /\ JitInv'
    BY <1>1 DEF vars, IInv, Types, AreQueries, CompileInv, ReadyInv, ReleaseInv, JitInv
  <2>2. CodeIsOwned' /\ NotRefused' /\ MirCurrentIsOwn'
    BY <1>1 DEF vars, IInv, CodeIsOwned, NotRefused, MirCurrentIsOwn
  <2>3. OwnersAgree'
    <3>1. query' = query /\ owner' = owner /\ context' = context
      BY <1>1 DEF vars
    <3>2. OwnersAgree
      BY DEF IInv
    <3>3. \A c \in Contexts :
            context'[c].live <=> \E o \in Queries : c \in owner'[o].remembers
      BY <3>1, <3>2 DEF OwnersAgree
    <3>4. \A o \in Queries : \A c \in owner'[o].remembers :
            /\ context'[c].resowner = o
            /\ owner'[o].releasing \/ \E q \in Queries : /\ query'[q].state = "open"
                                                        /\ query'[q].jit = c
                                                        /\ query'[q].owner = o
      BY <3>1, <3>2 DEF OwnersAgree
    <3>5. \A p, q \in Queries :
            query'[p].state = "open" /\ query'[q].state = "open"
            /\ query'[p].jit = query'[q].jit => p = q \/ query'[p].jit = None
      BY <3>1, <3>2 DEF OwnersAgree
    <3> QED
      BY <3>3, <3>4, <3>5 DEF OwnersAgree
  <2>4. RunsLiveCode'
    BY <1>1 DEF vars, IInv, RunsLiveCode
  <2> QED
    BY <2>1, <2>2, <2>3, <2>4 DEF IInv
<1>2. CASE \E q, r \in Queries : Open(q, r)
  BY <1>2, OpenOwned
<1>3. CASE \E q \in Queries : Close(q)
  BY <1>3, CloseOwned
<1>4. CASE BeginSub \/ CommitSub \/ Raise \/ ResetStats
  BY <1>4, StackOwned
<1>5. CASE Unwind
  BY <1>5, UnwindOwned
<1>6. CASE Aborted
  BY <1>6, AbortedOwned
<1>7. CASE \E o \in Queries, c \in Contexts : ReleaseByOwner(o, c)
  BY <1>7, ReleaseByOwnerOwned
<1>8. CASE \E e \in Exprs, b \in Backends : GetContext(e, b)
  BY <1>8, GetContextOwned
<1>9. CASE Setup \/ Generate \/ Register \/ Install \/ Wrap
  BY <1>9, SetupOwned, GenerateOwned, RegisterOwned, InstallOwned, WrapOwned
<1>10. CASE \E e \in Exprs : Evaluate(e)
  BY <1>10, EvaluateOwned
<1>11. CASE Return
  BY <1>11, ReturnOwned
<1> QED
  BY <1>1, <1>2, <1>3, <1>4, <1>5, <1>6, <1>7, <1>8, <1>9, <1>10, <1>11 DEF Next

\* Whatever is opened, compiled, raised and released, in any order: who owns a
\* context, its code and the MIR state, and that the owner agrees
\* (pg_jitter_get_context, pg_jitter_register_compiled_or_free,
\* jit_release_context, ResOwnerReleasePgJitterContext).
THEOREM OwnershipInvariant == Spec => []IInv
BY InitOwned, StepOwned, PTL DEF Spec

\* Each mapped block of code is listed by exactly one live context, or in the
\* hands of the registration (pg_jitter_register_compiled_or_free and the free
\* functions of the list).
THEOREM CodeOwned == Spec => []CodeIsOwned
<1>1. IInv => CodeIsOwned
  BY DEF IInv
<1> QED
  BY <1>1, OwnershipInvariant, PTL

\* A context lives as long as its resource owner remembers it, and that one
\* remembers it until its query ends or its own release comes to it
\* (pg_jitter_get_context, pg_jitter_release_context).
THEOREM OwnersInAgreement == Spec => []OwnersAgree
<1>1. IInv => OwnersAgree
  BY DEF IInv
<1> QED
  BY <1>1, OwnershipInvariant, PTL

\* ResourceOwnerForget is only called for a context that the owner remembers,
\* and on PostgreSQL 17 never while the owner releases
\* (ResOwnerReleasePgJitterContext clears resowner first).
THEOREM NeverRefused == Spec => []NotRefused
<1>1. IInv => NotRefused
  BY DEF IInv
<1> QED
  BY <1>1, OwnershipInvariant, PTL

\* mir_get_or_create_ctx, which compares addresses, never takes the state of an
\* earlier context at the address, since mir_ctx_free clears the pair.
THEOREM MirStateOwn == Spec => []MirCurrentIsOwn
<1>1. IInv => MirCurrentIsOwn
  BY DEF IInv
<1> QED
  BY <1>1, OwnershipInvariant, PTL

\* What evalfunc of an expression of an open query runs is mapped and listed in
\* the context of its own query (pg_jitter_install_expr).
THEOREM CodeLive == Spec => []RunsLiveCode
<1>1. IInv => RunsLiveCode
  BY DEF IInv
<1> QED
  BY <1>1, OwnershipInvariant, PTL

-----------------------------------------------------------------------------
(* How evaluations, subtransactions and queries nest.                      *)

\* The query whose expression frame i evaluates, the frames that evaluate, and
\* the subtransactions below frame i.
FrameQuery(i) == QueryOf[stack[i].expr]
Evals == {i \in 1..Len(stack) : stack[i].kind = "eval"}
Below(i) == {k \in SubsOpen : k < i}

\* An expression is evaluated once at a time.
StackInv ==
    /\ stack \in Seq(Frame)
    /\ \A i \in Evals : stack[i].expr \in Exprs
    /\ \A i, j \in Evals : stack[i].expr = stack[j].expr => i = j

\* Frames are of open queries.
FramesOpen == \A i \in Evals : query[FrameQuery(i)].state = "open"

\* No subtransaction separates the frames of a resource owner.
Together ==
    \A i, j \in Evals :
        query[FrameQuery(i)].owner = query[FrameQuery(j)].owner =>
            \A k \in SubsOpen : ~(i < k /\ k < j)

\* The subtransactions a query was opened in are below the frames of its owner.
Inside ==
    \A q \in Queries : query[q].state = "open" =>
        /\ query[q].subs <= Cardinality(SubsOpen)
        /\ \A i \in Evals : query[FrameQuery(i)].owner = query[q].owner =>
                query[q].subs <= Cardinality(Below(i))

\* A query that borrows an owner was opened by a frame of it, ...
Borrows ==
    \A q \in Queries : query[q].state = "open" =>
        /\ query[query[q].owner].state # "new"
        /\ query[q].owner # q =>
                /\ query[q].at \in Evals
                /\ query[FrameQuery(query[q].at)].owner = query[q].owner

\* ... and runs above a frame of the query whose owner it is.
Above ==
    \A i \in Evals :
        query[FrameQuery(i)].owner # FrameQuery(i) =>
            \E j \in Evals : j < i /\ FrameQuery(j) = query[FrameQuery(i)].owner

Counters == \A q \in Queries : query[q].subs \in Nat /\ query[q].at \in Nat

NestInv == StackInv /\ FramesOpen /\ Together /\ Inside /\ Borrows /\ Above /\ Counters

LEMMA Shape ==
  ASSUME stack \in Seq(Frame)
  PROVE  /\ Len(stack) \in Nat
         /\ \A i \in 1..Len(stack) : stack[i] \in Frame
         /\ Evals \subseteq 1..Len(stack) /\ SubsOpen \subseteq 1..Len(stack)
         /\ Evals \cap SubsOpen = {} /\ Evals \cup SubsOpen = 1..Len(stack)
         /\ IsFiniteSet(SubsOpen) /\ Cardinality(SubsOpen) \in Nat
<1>1. /\ Len(stack) \in Nat
      /\ \A i \in 1..Len(stack) : stack[i] \in Frame
  OBVIOUS
<1>2. \A i \in 1..Len(stack) : stack[i].kind \in {"eval", "sub"}
  BY <1>1 DEF Frame
<1>3. Evals \subseteq 1..Len(stack) /\ SubsOpen \subseteq 1..Len(stack)
      /\ Evals \cap SubsOpen = {} /\ Evals \cup SubsOpen = 1..Len(stack)
  BY <1>2 DEF Evals, SubsOpen
<1>4. IsFiniteSet(1..Len(stack))
  BY <1>1, FS_Interval
<1>5. IsFiniteSet(SubsOpen)
  BY <1>3, <1>4, FS_Subset
<1> QED
  BY <1>1, <1>3, <1>5, FS_CardinalityType

LEMMA BelowCount ==
  ASSUME stack \in Seq(Frame), NEW i
  PROVE  /\ IsFiniteSet(Below(i)) /\ Cardinality(Below(i)) \in Nat
         /\ Cardinality(Below(i)) <= Cardinality(SubsOpen)
         /\ \A k \in SubsOpen : k \notin Below(i) => Cardinality(Below(i)) < Cardinality(SubsOpen)
<1>1. Below(i) \in SUBSET SubsOpen
  BY DEF Below
<1>2. IsFiniteSet(SubsOpen) /\ Cardinality(SubsOpen) \in Nat
  BY Shape
<1>3. /\ IsFiniteSet(Below(i)) /\ Cardinality(Below(i)) <= Cardinality(SubsOpen)
      /\ Cardinality(SubsOpen) = Cardinality(Below(i)) => SubsOpen = Below(i)
  BY <1>1, <1>2, FS_Subset
<1>4. Cardinality(Below(i)) \in Nat
  BY <1>3, FS_CardinalityType
<1> QED
  BY <1>2, <1>3, <1>4

\* The stack with one frame more, and cut to m frames.
LEMMA Pushed ==
  ASSUME stack \in Seq(Frame), NEW f \in Frame, stack' = Append(stack, f)
  PROVE  /\ stack' \in Seq(Frame) /\ Len(stack') = Len(stack) + 1 /\ Len(stack) \in Nat
         /\ stack'[Len(stack) + 1] = f
         /\ \A i \in 1..Len(stack) : stack'[i] = stack[i]
         /\ Evals' = IF f.kind = "eval" THEN Evals \cup {Len(stack) + 1} ELSE Evals
         /\ SubsOpen' = IF f.kind = "sub" THEN SubsOpen \cup {Len(stack) + 1} ELSE SubsOpen
         /\ \A i \in 1..Len(stack) : Below(i)' = Below(i)
<1> DEFINE n == Len(stack)
<1>1. /\ stack' \in Seq(Frame) /\ Len(stack') = n + 1 /\ n \in Nat
      /\ stack'[n + 1] = f
      /\ \A i \in 1..n : stack'[i] = stack[i]
  OBVIOUS
<1>2. 1..(n + 1) = (1..n) \cup {n + 1} /\ n + 1 \notin 1..n
  BY <1>1
<1>3. f.kind \in {"eval", "sub"}
  BY DEF Frame
<1>4. Evals' = IF f.kind = "eval" THEN Evals \cup {n + 1} ELSE Evals
  <2>1. \A i \in 1..n : i \in Evals' <=> i \in Evals
    BY <1>1, <1>2 DEF Evals
  <2>2. n + 1 \in Evals' <=> f.kind = "eval"
    BY <1>1, <1>2 DEF Evals
  <2>3. Evals \subseteq 1..n /\ Evals' \subseteq 1..(n + 1)
    BY <1>1 DEF Evals
  <2> HIDE DEF n
  <2>4. CASE f.kind = "eval"
    <3>1. Evals' = Evals \cup {n + 1}
      BY <1>2, <2>1, <2>2, <2>3, <2>4
    <3> QED
      BY <2>4, <3>1
  <2>5. CASE f.kind # "eval"
    <3>1. Evals' = Evals
      BY <1>2, <2>1, <2>2, <2>3, <2>5
    <3> QED
      BY <2>5, <3>1
  <2> QED
    BY <2>4, <2>5
<1>5. SubsOpen' = IF f.kind = "sub" THEN SubsOpen \cup {n + 1} ELSE SubsOpen
  <2>1. \A i \in 1..n : i \in SubsOpen' <=> i \in SubsOpen
    BY <1>1, <1>2 DEF SubsOpen
  <2>2. n + 1 \in SubsOpen' <=> f.kind = "sub"
    BY <1>1, <1>2 DEF SubsOpen
  <2>3. SubsOpen \subseteq 1..n /\ SubsOpen' \subseteq 1..(n + 1)
    BY <1>1 DEF SubsOpen
  <2> HIDE DEF n
  <2>4. CASE f.kind = "sub"
    <3>1. SubsOpen' = SubsOpen \cup {n + 1}
      BY <1>2, <2>1, <2>2, <2>3, <2>4
    <3> QED
      BY <2>4, <3>1
  <2>5. CASE f.kind # "sub"
    <3>1. SubsOpen' = SubsOpen
      BY <1>2, <2>1, <2>2, <2>3, <2>5
    <3> QED
      BY <2>5, <3>1
  <2> QED
    BY <2>4, <2>5
<1>6. \A i \in 1..n : Below(i)' = Below(i)
  <2>1. SubsOpen \subseteq 1..n
    BY DEF SubsOpen
  <2> HIDE DEF n
  <2> QED
    BY <1>1, <1>5, <2>1 DEF Below
<1> QED
  BY <1>1, <1>4, <1>5, <1>6

LEMMA Cut ==
  ASSUME stack \in Seq(Frame), NEW m \in 0..Len(stack), stack' = SubSeq(stack, 1, m)
  PROVE  /\ stack' \in Seq(Frame) /\ Len(stack') = m /\ m \in Nat
         /\ \A i \in 1..m : stack'[i] = stack[i]
         /\ Evals' = {i \in Evals : i <= m} /\ SubsOpen' = {i \in SubsOpen : i <= m}
         /\ \A i \in 1..m : Below(i)' = Below(i)
<1>1. /\ stack' \in Seq(Frame) /\ Len(stack') = m /\ m \in Nat /\ Len(stack) \in Nat
      /\ \A i \in 1..m : stack'[i] = stack[i]
  OBVIOUS
<1>2. \A i : i \in 1..m <=> i \in 1..Len(stack) /\ i <= m
  BY <1>1
<1>3. Evals' = {i \in Evals : i <= m} /\ SubsOpen' = {i \in SubsOpen : i <= m}
  BY <1>1, <1>2 DEF Evals, SubsOpen
<1>4. \A i \in 1..m : Below(i)' = Below(i)
  <2> SUFFICES ASSUME NEW i \in 1..m
               PROVE  {k \in SubsOpen' : k < i} = {k \in SubsOpen : k < i}
    BY DEF Below
  <2>1. SubsOpen \subseteq 1..Len(stack)
    BY DEF SubsOpen
  <2>2. \A k \in 1..Len(stack) : k < i => k <= m
    BY <1>1
  <2>3. \A k \in SubsOpen : k < i => k <= m
    BY <2>1, <2>2
  <2> QED
    BY <1>3, <2>3
<1> QED
  BY <1>1, <1>3, <1>4

\* Handler is the last of the subtransactions.
LEMMA LastSub ==
  ASSUME stack \in Seq(Frame)
  PROVE  /\ Handler \in 0..Len(stack)
         /\ SubsOpen = {} => Handler = 0
         /\ SubsOpen # {} => Handler \in SubsOpen
         /\ \A k \in SubsOpen : k <= Handler
<1> DEFINE S == SubsOpen \cup {0}
           P == {T \in SUBSET S : T # {} => \E x \in T : \A y \in T : x >= y}
<1>1. IsFiniteSet(S) /\ SubsOpen \subseteq 1..Len(stack) /\ Len(stack) \in Nat
  BY Shape, FS_AddElement
<1>2. S \subseteq Nat
  BY <1>1
<1>3. {} \in P
  OBVIOUS
<1>4. \A T \in SUBSET S : \A x \in S \ T : T \in P => T \cup {x} \in P
  <2> SUFFICES ASSUME NEW T \in SUBSET S, NEW x \in S \ T, T \in P
               PROVE  \E z \in T \cup {x} : \A y \in T \cup {x} : z >= y
    OBVIOUS
  <2>1. CASE T = {}
    BY <1>2, <2>1
  <2>2. CASE T # {}
    <3>1. PICK z \in T : \A y \in T : z >= y
      BY <2>2
    <3>2. CASE z >= x
      BY <3>1, <3>2
    <3>3. CASE ~(z >= x)
      <4>1. \A y \in T \cup {x} : x >= y
        BY <1>2, <3>1, <3>3
      <4> QED
        BY <4>1
    <3> QED
      BY <3>2, <3>3
  <2> QED
    BY <2>1, <2>2
<1> HIDE DEF P
<1>5. S \in P
  BY <1>1, <1>3, <1>4, Grow
<1>6. \E x \in S : \A y \in S : x >= y
  BY <1>5 DEF P
<1>7. Handler \in S /\ \A y \in S : Handler >= y
  BY <1>6 DEF Handler, Max
<1>8. SubsOpen \subseteq S /\ 0 \in S
  OBVIOUS
<1>9. Handler \in SubsOpen \/ Handler = 0
  BY <1>7
<1>10. \A k \in SubsOpen : k <= Handler /\ k > 0
  <2>1. \A k \in 1..Len(stack) : k > 0 /\ (Handler >= k => k <= Handler)
    BY <1>1, <1>2, <1>7
  <2> QED
    BY <1>1, <1>7, <2>1
<1>11. Handler \in 0..Len(stack)
  <2>1. 0 \in 0..Len(stack) /\ 1..Len(stack) \subseteq 0..Len(stack)
    BY <1>1
  <2> QED
    BY <1>1, <1>9, <2>1
<1>12. SubsOpen # {} => Handler \in SubsOpen
  <2> SUFFICES ASSUME NEW k \in SubsOpen, Handler = 0 PROVE FALSE
    BY <1>9
  <2>1. k \in Nat /\ k > 0 /\ k <= 0
    BY <1>1, <1>10
  <2> QED
    BY <2>1
<1> QED
  BY <1>9, <1>10, <1>11, <1>12

LEMMA FramesTyped ==
  ASSUME Types, StackInv
  PROVE  /\ \A i \in Evals : FrameQuery(i) \in Queries
         /\ \A q \in Queries : query[q].owner \in Queries
<1>1. \A i \in Evals : FrameQuery(i) \in Queries
  BY DEF StackInv, FrameQuery
<1> QED
  BY <1>1 DEF Types, AreQueries, IsQuery

\* Frames are taken from the top of the stack, queries end, subtransactions
\* are left.
LEMMA Fewer ==
  ASSUME Types, NestInv, StackInv', Counters',
         Evals' \subseteq Evals, SubsOpen' \subseteq SubsOpen,
         \A i \in Evals' : /\ stack'[i].expr = stack[i].expr
                           /\ \A j \in Evals : j < i => j \in Evals'
                           /\ Cardinality(Below(i)') = Cardinality(Below(i))
                           /\ query'[FrameQuery(i)].state = "open"
                           /\ query'[FrameQuery(i)].owner = query[FrameQuery(i)].owner,
         \A q \in Queries : query[q].state # "new" => query'[q].state # "new",
         \A q \in Queries : query'[q].state = "open" =>
             /\ query[q].state = "open"
             /\ query'[q].owner = query[q].owner
             /\ query'[q].at = query[q].at
             /\ query'[q].subs <= query[q].subs
             /\ query'[q].subs <= Cardinality(SubsOpen')
             /\ query[q].owner # q => query[q].at \in Evals'
  PROVE  NestInv'
<1>1. /\ \A i \in Evals : FrameQuery(i) \in Queries
      /\ \A q \in Queries : query[q].owner \in Queries
  BY FramesTyped DEF NestInv
<1>2. \A i \in Evals' : FrameQuery(i)' = FrameQuery(i)
  BY DEF FrameQuery
<1>3. FramesOpen'
  BY <1>2 DEF FramesOpen
<1>4. Together'
  <2> SUFFICES ASSUME NEW i \in Evals', NEW j \in Evals',
                      query[FrameQuery(i)].owner = query[FrameQuery(j)].owner,
                      NEW k \in SubsOpen'
               PROVE  ~(i < k /\ k < j)
    BY <1>2 DEF Together
  <2> QED
    BY DEF NestInv, Together
<1>5. Inside'
  <2> SUFFICES ASSUME NEW q \in Queries, query'[q].state = "open", NEW i \in Evals',
                      query[FrameQuery(i)].owner = query[q].owner
               PROVE  query'[q].subs <= Cardinality(Below(i))
    BY <1>2 DEF Inside
  <2>1. query[q].subs <= Cardinality(Below(i))
    BY DEF NestInv, Inside
  <2>2. Cardinality(Below(i)) \in Nat
    BY BelowCount DEF NestInv, StackInv
  <2> QED
    BY <2>1, <2>2 DEF NestInv, Counters
<1>6. Borrows'
  <2> SUFFICES ASSUME NEW q \in Queries, query'[q].state = "open"
               PROVE  /\ query'[query[q].owner].state # "new"
                      /\ query[q].owner # q =>
                            /\ query[q].at \in Evals'
                            /\ query[FrameQuery(query[q].at)].owner = query[q].owner
    BY <1>2 DEF Borrows
  <2> QED
    BY <1>1 DEF NestInv, Borrows
<1>7. Above'
  <2> SUFFICES ASSUME NEW i \in Evals', query[FrameQuery(i)].owner # FrameQuery(i)
               PROVE  \E j \in Evals' : j < i /\ FrameQuery(j) = query[FrameQuery(i)].owner
    BY <1>2 DEF Above
  <2>1. PICK j \in Evals : j < i /\ FrameQuery(j) = query[FrameQuery(i)].owner
    BY DEF NestInv, Above
  <2> QED
    BY <2>1
<1> QED
  BY <1>3, <1>4, <1>5, <1>6, <1>7 DEF NestInv

\* Steps that leave the stack and the place of every query alone.
LEMMA SameNest ==
  ASSUME Types, NestInv, UNCHANGED stack,
         \A q \in Queries : /\ query'[q].state = query[q].state
                            /\ query'[q].owner = query[q].owner
                            /\ query'[q].subs = query[q].subs
                            /\ query'[q].at = query[q].at
  PROVE  NestInv'
<1>1. /\ \A i \in Evals : FrameQuery(i) \in Queries
      /\ \A q \in Queries : query[q].owner \in Queries
  BY FramesTyped DEF NestInv
<1>2. Evals' = Evals /\ SubsOpen' = SubsOpen
  BY DEF Evals, SubsOpen
<1>3. \A i : Below(i)' = Below(i)
  BY <1>2 DEF Below
<1>4. Counters' /\ StackInv'
  BY <1>2 DEF NestInv, Counters, StackInv
<1>5. \A i \in Evals' : /\ stack'[i].expr = stack[i].expr
                        /\ \A j \in Evals : j < i => j \in Evals'
                        /\ Cardinality(Below(i)') = Cardinality(Below(i))
                        /\ query'[FrameQuery(i)].state = "open"
                        /\ query'[FrameQuery(i)].owner = query[FrameQuery(i)].owner
  BY <1>1, <1>2, <1>3 DEF NestInv, FramesOpen
<1>6. \A q \in Queries : query[q].state # "new" => query'[q].state # "new"
  OBVIOUS
<1>7. \A q \in Queries : query'[q].state = "open" =>
             /\ query[q].state = "open"
             /\ query'[q].owner = query[q].owner
             /\ query'[q].at = query[q].at
             /\ query'[q].subs <= query[q].subs
             /\ query'[q].subs <= Cardinality(SubsOpen')
             /\ query[q].owner # q => query[q].at \in Evals'
  BY <1>2 DEF NestInv, Inside, Borrows, Counters
<1>8. Evals' \subseteq Evals /\ SubsOpen' \subseteq SubsOpen
  BY <1>2
<1> QED
  BY <1>4, <1>5, <1>6, <1>7, <1>8, Fewer

LEMMA OpenNest ==
  ASSUME Types, NestInv, NEW q \in Queries, NEW r \in Queries, Open(q, r)
  PROVE  NestInv'
<1> DEFINE n == Len(stack)
<1>1. /\ \A i \in Evals : FrameQuery(i) \in Queries
      /\ \A p \in Queries : query[p].owner \in Queries
  BY FramesTyped DEF NestInv
<1>2. Evals' = Evals /\ SubsOpen' = SubsOpen /\ \A i : Below(i)' = Below(i)
  BY DEF Evals, SubsOpen, Below, Open
<1>3. /\ query[q].state = "new"
      /\ query'[q].state = "open" /\ query'[q].owner = r
      /\ query'[q].subs = Cardinality(SubsOpen)
      /\ query'[q].at = IF r = q THEN 0 ELSE n
      /\ \A p \in Queries : p # q => query'[p] = query[p]
  BY DEF Open, Types, AreQueries
<1>4. \A i \in Evals : /\ FrameQuery(i)' = FrameQuery(i)
                       /\ FrameQuery(i) # q /\ query'[FrameQuery(i)] = query[FrameQuery(i)]
  BY <1>1, <1>3 DEF FrameQuery, Open, NestInv, FramesOpen
<1>5. /\ n \in Nat /\ IsFiniteSet(SubsOpen) /\ Cardinality(SubsOpen) \in Nat
      /\ SubsOpen \subseteq 1..n /\ Evals \subseteq 1..n /\ Evals \cap SubsOpen = {}
  BY Shape DEF NestInv, StackInv
<1>6. Counters'
  <2>1. \A p \in Queries : p # q => query'[p].subs \in Nat /\ query'[p].at \in Nat
    BY <1>3 DEF NestInv, Counters
  <2>2. query'[q].subs \in Nat /\ query'[q].at \in Nat
    BY <1>3, <1>5
  <2> QED
    BY <2>1, <2>2 DEF Counters
<1>7. StackInv' /\ FramesOpen' /\ Together' /\ Above'
  <2>1. StackInv'
    BY <1>2 DEF NestInv, StackInv, Open
  <2>2. FramesOpen' /\ Together'
    BY <1>2, <1>4 DEF NestInv, FramesOpen, Together
  <2>3. Above'
    BY <1>2, <1>4 DEF NestInv, Above
  <2> QED
    BY <2>1, <2>2, <2>3
<1>8. CASE r = q
  <2>1. \A i \in Evals : query[FrameQuery(i)].owner # q
    BY <1>4 DEF NestInv, Above
  <2>2. Inside'
    <3> SUFFICES ASSUME NEW p \in Queries, query'[p].state = "open"
                 PROVE  /\ query'[p].subs <= Cardinality(SubsOpen)
                        /\ \A i \in Evals : query[FrameQuery(i)].owner = query'[p].owner =>
                              query'[p].subs <= Cardinality(Below(i))
      BY <1>2, <1>4 DEF Inside
    <3>1. CASE p = q
      BY <1>3, <1>5, <1>8, <2>1, <3>1
    <3>2. CASE p # q
      BY <1>3, <3>2 DEF NestInv, Inside
    <3> QED
      BY <3>1, <3>2
  <2>3. Borrows'
    <3> SUFFICES ASSUME NEW p \in Queries, query'[p].state = "open"
                 PROVE  /\ query'[query'[p].owner].state # "new"
                        /\ query'[p].owner # p =>
                              /\ query'[p].at \in Evals
                              /\ query'[FrameQuery(query'[p].at)].owner = query'[p].owner
      BY <1>2, <1>4 DEF Borrows
    <3>1. CASE p = q
      BY <1>3, <1>8, <3>1
    <3>2. CASE p # q
      BY <1>1, <1>3, <1>4, <3>2 DEF NestInv, Borrows
    <3> QED
      BY <3>1, <3>2
  <2> QED
    BY <1>6, <1>7, <2>2, <2>3 DEF NestInv
<1>9. CASE r # q
  <2>1. PICK p \in Queries :
          stack # <<>> /\ query[p].state = "open" /\ Running(p, n) /\ r = query[p].owner
    BY <1>9 DEF Open
  <2>2. n \in Evals /\ FrameQuery(n) = p
    <3>1. n \in 1..n
      BY <2>1, <1>5 DEF NestInv, StackInv
    <3> QED
      BY <2>1, <3>1 DEF Running, Evals, FrameQuery
  <2>3. \A i \in Evals : query[FrameQuery(i)].owner = r => Below(i) = SubsOpen
    <3> SUFFICES ASSUME NEW i \in Evals, query[FrameQuery(i)].owner = r, NEW k \in SubsOpen
                 PROVE  k < i
      BY DEF Below
    <3>1. ~(i < k /\ k < n)
      BY <2>1, <2>2 DEF NestInv, Together
    <3>2. k \in 1..n /\ i \in 1..n /\ k # i /\ k # n
      BY <1>5, <2>2
    <3> QED
      BY <1>5, <3>1, <3>2
  <2>4. query[r].state # "new"
    BY <2>1 DEF NestInv, Borrows
  <2>5. Inside'
    <3> SUFFICES ASSUME NEW s \in Queries, query'[s].state = "open"
                 PROVE  /\ query'[s].subs <= Cardinality(SubsOpen)
                        /\ \A i \in Evals : query[FrameQuery(i)].owner = query'[s].owner =>
                              query'[s].subs <= Cardinality(Below(i))
      BY <1>2, <1>4 DEF Inside
    <3>1. CASE s = q
      BY <1>3, <1>5, <2>3, <3>1
    <3>2. CASE s # q
      BY <1>3, <3>2 DEF NestInv, Inside
    <3> QED
      BY <3>1, <3>2
  <2>6. Borrows'
    <3> SUFFICES ASSUME NEW s \in Queries, query'[s].state = "open"
                 PROVE  /\ query'[query'[s].owner].state # "new"
                        /\ query'[s].owner # s =>
                              /\ query'[s].at \in Evals
                              /\ query'[FrameQuery(query'[s].at)].owner = query'[s].owner
      BY <1>2, <1>4 DEF Borrows
    <3>1. CASE s = q
      BY <1>3, <1>4, <1>9, <2>1, <2>2, <2>4, <3>1
    <3>2. CASE s # q
      BY <1>1, <1>3, <1>4, <3>2 DEF NestInv, Borrows
    <3> QED
      BY <3>1, <3>2
  <2> QED
    BY <1>6, <1>7, <2>5, <2>6 DEF NestInv
<1> QED
  BY <1>8, <1>9

LEMMA BeginSubNest ==
  ASSUME Types, NestInv, BeginSub PROVE NestInv'
<1>0. PICK n : n = Len(stack)
  OBVIOUS
<1>1. /\ \A i \in Evals : FrameQuery(i) \in Queries
      /\ \A p \in Queries : query[p].owner \in Queries
  BY FramesTyped DEF NestInv
<1>2. query' = query /\ stack' = Append(stack, SubFrame)
  BY DEF BeginSub
<1>3. SubFrame \in Frame /\ SubFrame.kind = "sub"
  BY DEF SubFrame, Frame
<1>4. /\ stack' \in Seq(Frame) /\ n \in Nat
      /\ \A i \in 1..n : stack'[i] = stack[i]
      /\ Evals' = Evals /\ SubsOpen' = SubsOpen \cup {n + 1}
      /\ \A i \in 1..n : Below(i)' = Below(i)
  BY <1>0, <1>2, <1>3, Pushed DEF NestInv, StackInv
<1>5. /\ IsFiniteSet(SubsOpen) /\ Cardinality(SubsOpen) \in Nat
      /\ SubsOpen \subseteq 1..n /\ Evals \subseteq 1..n
  BY <1>0, Shape DEF NestInv, StackInv
<1>6. Cardinality(SubsOpen') = Cardinality(SubsOpen) + 1
  <2>1. n + 1 \notin SubsOpen
    BY <1>4, <1>5
  <2>2. Cardinality(SubsOpen \cup {n + 1}) = Cardinality(SubsOpen) + 1
    BY <1>5, <2>1, FS_AddElement
  <2> QED
    BY <1>4, <2>2
<1>7. \A i \in Evals : FrameQuery(i)' = FrameQuery(i)
  BY <1>4, <1>5 DEF FrameQuery
<1>8. StackInv' /\ FramesOpen' /\ Above' /\ Counters'
  <2>1. StackInv'
    <3>1. \A i \in Evals : stack'[i] = stack[i]
      BY <1>4, <1>5
    <3> QED
      BY <1>4, <3>1 DEF NestInv, StackInv
  <2>2. FramesOpen' /\ Above' /\ Counters'
    BY <1>2, <1>4, <1>7 DEF NestInv, FramesOpen, Above, Counters
  <2> QED
    BY <2>1, <2>2
<1>9. Together'
  <2> SUFFICES ASSUME NEW i \in Evals, NEW j \in Evals,
                      query[FrameQuery(i)].owner = query[FrameQuery(j)].owner,
                      NEW k \in SubsOpen \cup {n + 1}
               PROVE  ~(i < k /\ k < j)
    BY <1>2, <1>4, <1>7 DEF Together
  <2>1. CASE k \in SubsOpen
    BY <2>1 DEF NestInv, Together
  <2>2. CASE k = n + 1
    BY <1>4, <1>5, <2>2
  <2> QED
    BY <2>1, <2>2
<1>10. Inside'
  <2> SUFFICES ASSUME NEW q \in Queries, query[q].state = "open"
               PROVE  /\ query[q].subs <= Cardinality(SubsOpen')
                      /\ \A i \in Evals : query[FrameQuery(i)].owner = query[q].owner =>
                            query[q].subs <= Cardinality(Below(i)')
    BY <1>2, <1>4, <1>7 DEF Inside
  <2>1. query[q].subs <= Cardinality(SubsOpen) /\ query[q].subs \in Nat
    BY DEF NestInv, Inside, Counters
  <2>2. \A i \in Evals : Below(i)' = Below(i)
    BY <1>4, <1>5
  <2> QED
    BY <1>5, <1>6, <2>1, <2>2 DEF NestInv, Inside
<1>11. Borrows'
  BY <1>2, <1>4, <1>7 DEF NestInv, Borrows
<1> QED
  BY <1>8, <1>9, <1>10, <1>11 DEF NestInv

LEMMA CommitSubNest ==
  ASSUME Types, NestInv, CommitSub PROVE NestInv'
<1>0. PICK n : n = Len(stack)
  OBVIOUS
<1>1. /\ \A i \in Evals : FrameQuery(i) \in Queries
      /\ \A p \in Queries : query[p].owner \in Queries
  BY FramesTyped DEF NestInv
<1>2. /\ n \in Nat /\ IsFiniteSet(SubsOpen) /\ Cardinality(SubsOpen) \in Nat
      /\ SubsOpen \subseteq 1..n /\ Evals \subseteq 1..n /\ Evals \cap SubsOpen = {}
  BY <1>0, Shape DEF NestInv, StackInv
<1>3. n \in SubsOpen /\ n - 1 \in 0..n
  <2>1. n \in 1..n
    BY <1>0 DEF CommitSub, NestInv, StackInv
  <2> QED
    BY <1>0, <1>2, <2>1 DEF CommitSub, SubsOpen
<1>4. /\ stack' \in Seq(Frame)
      /\ \A i \in 1..(n - 1) : stack'[i] = stack[i]
      /\ Evals' = {i \in Evals : i <= n - 1} /\ SubsOpen' = {i \in SubsOpen : i <= n - 1}
      /\ \A i \in 1..(n - 1) : Below(i)' = Below(i)
  <2>1. stack' = SubSeq(stack, 1, n - 1) /\ stack \in Seq(Frame)
    BY <1>0 DEF CommitSub, NestInv, StackInv
  <2> QED
    BY <1>0, <1>3, <2>1, Cut
<1>5. Evals' = Evals /\ Evals \subseteq 1..(n - 1) /\ SubsOpen' = SubsOpen \ {n}
  <2>1. \A i \in 1..n : (i <= n - 1 <=> i # n) /\ (i # n => i \in 1..(n - 1))
    BY <1>2
  <2>2. \A i \in Evals : i # n
    BY <1>2, <1>3
  <2>3. Evals' = Evals /\ Evals \subseteq 1..(n - 1)
    BY <1>2, <1>4, <2>1, <2>2
  <2>4. SubsOpen' = SubsOpen \ {n}
    BY <1>2, <1>4, <2>1
  <2> QED
    BY <2>3, <2>4
<1>6. Cardinality(SubsOpen') = Cardinality(SubsOpen) - 1 /\ Cardinality(SubsOpen) # 0
  BY <1>2, <1>3, <1>5, FS_RemoveElement, FS_EmptySet
<1>7. \A q \in Queries :
        /\ query'[q].state = query[q].state
        /\ query'[q].owner = query[q].owner
        /\ query'[q].at = query[q].at
        /\ query'[q].subs = IF query[q].subs = Cardinality(SubsOpen)
                            THEN query[q].subs - 1 ELSE query[q].subs
  BY DEF CommitSub, Types, AreQueries, IsQuery
<1>8. Counters' /\ StackInv'
  <2>1. Counters'
    BY <1>2, <1>6, <1>7 DEF NestInv, Counters
  <2>2. StackInv'
    BY <1>4, <1>5 DEF NestInv, StackInv
  <2> QED
    BY <2>1, <2>2
<1>9. \A i \in Evals' : /\ stack'[i].expr = stack[i].expr
                        /\ \A j \in Evals : j < i => j \in Evals'
                        /\ Cardinality(Below(i)') = Cardinality(Below(i))
                        /\ query'[FrameQuery(i)].state = "open"
                        /\ query'[FrameQuery(i)].owner = query[FrameQuery(i)].owner
  BY <1>1, <1>4, <1>5, <1>7 DEF NestInv, FramesOpen
<1>10. \A q \in Queries : query[q].state # "new" => query'[q].state # "new"
  BY <1>7
<1>11. ASSUME NEW q \in Queries, query'[q].state = "open"
       PROVE  /\ query[q].state = "open"
              /\ query'[q].owner = query[q].owner
              /\ query'[q].at = query[q].at
              /\ query'[q].subs <= query[q].subs
              /\ query'[q].subs <= Cardinality(SubsOpen')
              /\ query[q].owner # q => query[q].at \in Evals'
  <2>1. query[q].subs \in Nat /\ query[q].subs <= Cardinality(SubsOpen)
    BY <1>7, <1>11 DEF NestInv, Inside, Counters
  <2>2. query'[q].subs <= query[q].subs /\ query'[q].subs <= Cardinality(SubsOpen')
    BY <1>2, <1>6, <1>7, <2>1
  <2> QED
    BY <1>5, <1>7, <1>11, <2>2 DEF NestInv, Borrows
<1>12. Evals' \subseteq Evals /\ SubsOpen' \subseteq SubsOpen
  BY <1>5
<1> QED
  BY <1>8, <1>9, <1>10, <1>11, <1>12, Fewer

LEMMA ReturnNest ==
  ASSUME Types, NestInv, Return PROVE NestInv'
<1>0. PICK n : n = Len(stack)
  OBVIOUS
<1>1. /\ \A i \in Evals : FrameQuery(i) \in Queries
      /\ \A p \in Queries : query[p].owner \in Queries
  BY FramesTyped DEF NestInv
<1>2. /\ n \in Nat /\ IsFiniteSet(SubsOpen) /\ Cardinality(SubsOpen) \in Nat
      /\ SubsOpen \subseteq 1..n /\ Evals \subseteq 1..n /\ Evals \cap SubsOpen = {}
  BY <1>0, Shape DEF NestInv, StackInv
<1>3. n \in Evals /\ n - 1 \in 0..n
  <2>1. n \in 1..n
    BY <1>0 DEF Return, NestInv, StackInv
  <2> QED
    BY <1>0, <1>2, <2>1 DEF Return, Evals
<1>4. /\ stack' \in Seq(Frame)
      /\ \A i \in 1..(n - 1) : stack'[i] = stack[i]
      /\ Evals' = {i \in Evals : i <= n - 1} /\ SubsOpen' = {i \in SubsOpen : i <= n - 1}
      /\ \A i \in 1..(n - 1) : Below(i)' = Below(i)
  <2>1. stack' = SubSeq(stack, 1, n - 1) /\ stack \in Seq(Frame)
    BY <1>0 DEF Return, NestInv, StackInv
  <2> QED
    BY <1>0, <1>3, <2>1, Cut
<1>5. query' = query /\ \A q \in Queries : ~Borrowing(q)
  BY DEF Return
<1>6. \A q \in Queries : query[q].state = "open" /\ query[q].owner # q => query[q].at # n
  BY <1>0, <1>5 DEF Borrowing
<1>7. Evals' = Evals \ {n} /\ Evals' \subseteq 1..(n - 1) /\ SubsOpen' = SubsOpen
  <2>1. \A i \in 1..n : (i <= n - 1 <=> i # n) /\ (i # n => i \in 1..(n - 1))
    BY <1>2
  <2>2. \A i \in SubsOpen : i # n
    BY <1>2, <1>3
  <2>3. Evals' = Evals \ {n} /\ Evals' \subseteq 1..(n - 1)
    BY <1>2, <1>4, <2>1
  <2>4. SubsOpen' = SubsOpen
    BY <1>2, <1>4, <2>1, <2>2
  <2> QED
    BY <2>3, <2>4
<1>8. Counters' /\ StackInv'
  <2>1. \A i \in Evals' : stack'[i] = stack[i] /\ i \in Evals
    BY <1>4, <1>7
  <2>2. StackInv'
    BY <1>4, <2>1 DEF NestInv, StackInv
  <2>3. Counters'
    BY <1>5 DEF NestInv, Counters
  <2> QED
    BY <2>2, <2>3
<1>9. \A i \in Evals' : /\ stack'[i].expr = stack[i].expr
                        /\ \A j \in Evals : j < i => j \in Evals'
                        /\ Cardinality(Below(i)') = Cardinality(Below(i))
                        /\ query'[FrameQuery(i)].state = "open"
                        /\ query'[FrameQuery(i)].owner = query[FrameQuery(i)].owner
  <2>1. \A i \in 1..(n - 1) : \A j \in 1..n : j < i => j # n
    BY <1>2
  <2> QED
    BY <1>2, <1>4, <1>5, <1>7, <2>1 DEF NestInv, FramesOpen
<1>10. \A q \in Queries : query[q].state # "new" => query'[q].state # "new"
  BY <1>5
<1>11. \A q \in Queries : query'[q].state = "open" =>
              /\ query[q].state = "open"
              /\ query'[q].owner = query[q].owner
              /\ query'[q].at = query[q].at
              /\ query'[q].subs <= query[q].subs
              /\ query'[q].subs <= Cardinality(SubsOpen')
              /\ query[q].owner # q => query[q].at \in Evals'
  <2> SUFFICES ASSUME NEW q \in Queries, query[q].state = "open"
               PROVE  /\ query[q].subs <= query[q].subs
                      /\ query[q].subs <= Cardinality(SubsOpen')
                      /\ query[q].owner # q => query[q].at \in Evals'
    BY <1>5
  <2>1. query[q].subs <= query[q].subs
    BY DEF NestInv, Counters
  <2>2. query[q].subs <= Cardinality(SubsOpen')
    BY <1>7 DEF NestInv, Inside
  <2>3. query[q].owner # q => query[q].at \in Evals'
    BY <1>6, <1>7 DEF NestInv, Borrows
  <2> QED
    BY <2>1, <2>2, <2>3
<1>12. Evals' \subseteq Evals /\ SubsOpen' \subseteq SubsOpen
  BY <1>7
<1> QED
  BY <1>8, <1>9, <1>10, <1>11, <1>12, Fewer

\* A query that ends while none of its frames is there.
LEMMA ClosedNest ==
  ASSUME Types, NestInv, NEW q \in Queries, ~Active(q), UNCHANGED stack,
         query'[q] = [Unopened(q) EXCEPT !.state = "closed"],
         \A p \in Queries : p # q => query'[p] = query[p]
  PROVE  NestInv'
<1>1. /\ \A i \in Evals : FrameQuery(i) \in Queries
      /\ \A p \in Queries : query[p].owner \in Queries
  BY FramesTyped DEF NestInv
<1>2. Evals' = Evals /\ SubsOpen' = SubsOpen /\ \A i : Below(i)' = Below(i)
  BY DEF Evals, SubsOpen, Below
<1>3. \A i \in Evals : FrameQuery(i) # q
  BY DEF Active, Running, Evals, FrameQuery
<1>4. query'[q].state = "closed" /\ query'[q].subs = 0 /\ query'[q].at = 0
  BY DEF Unopened
<1>5. Counters' /\ StackInv'
  <2>1. StackInv'
    BY <1>2 DEF NestInv, StackInv
  <2>2. \A p \in Queries : query'[p].subs \in Nat /\ query'[p].at \in Nat
    <3> SUFFICES ASSUME NEW p \in Queries
                 PROVE  query'[p].subs \in Nat /\ query'[p].at \in Nat
      OBVIOUS
    <3>1. CASE p = q
      <4>1. query'[p].subs = 0 /\ query'[p].at = 0
        BY <1>4, <3>1
      <4> QED
        BY <4>1
    <3>2. CASE p # q
      <4>1. query'[p] = query[p]
        BY <3>2
      <4> QED
        BY <4>1 DEF NestInv, Counters
    <3> QED
      BY <3>1, <3>2
  <2> QED
    BY <2>1, <2>2 DEF Counters
<1>6. \A i \in Evals' : /\ stack'[i].expr = stack[i].expr
                        /\ \A j \in Evals : j < i => j \in Evals'
                        /\ Cardinality(Below(i)') = Cardinality(Below(i))
                        /\ query'[FrameQuery(i)].state = "open"
                        /\ query'[FrameQuery(i)].owner = query[FrameQuery(i)].owner
  BY <1>1, <1>2, <1>3 DEF NestInv, FramesOpen
<1>7. \A p \in Queries : query[p].state # "new" => query'[p].state # "new"
  BY <1>4
<1>8. ASSUME NEW p \in Queries, query'[p].state = "open"
      PROVE   /\ query[p].state = "open"
              /\ query'[p].owner = query[p].owner
              /\ query'[p].at = query[p].at
              /\ query'[p].subs <= query[p].subs
              /\ query'[p].subs <= Cardinality(SubsOpen')
              /\ query[p].owner # p => query[p].at \in Evals'
  <2>1. query'[p] = query[p]
    BY <1>4, <1>8
  <2>2. query[p].subs <= query[p].subs
    BY DEF NestInv, Counters
  <2> QED
    BY <1>2, <1>8, <2>1, <2>2 DEF NestInv, Inside, Borrows
<1>9. Evals' \subseteq Evals /\ SubsOpen' \subseteq SubsOpen
  BY <1>2
<1> QED
  BY <1>5, <1>6, <1>7, <1>8, <1>9, Fewer

LEMMA EvaluateNest ==
  ASSUME Types, NestInv, NEW e \in Exprs, Evaluate(e) PROVE NestInv'
<1>0. PICK n : n = Len(stack)
  OBVIOUS
<1> DEFINE q == QueryOf[e]
           o == query[q].owner
<1>1. /\ \A i \in Evals : FrameQuery(i) \in Queries
      /\ \A p \in Queries : query[p].owner \in Queries
      /\ q \in Queries
  BY FramesTyped DEF NestInv
<1>2. /\ n \in Nat /\ IsFiniteSet(SubsOpen) /\ Cardinality(SubsOpen) \in Nat
      /\ SubsOpen \subseteq 1..n /\ Evals \subseteq 1..n /\ Evals \cap SubsOpen = {}
      /\ n + 1 \notin 1..n
  BY <1>0, Shape DEF NestInv, StackInv
<1>3. /\ query[q].state = "open" /\ query' = query /\ ~Evaluated(e)
      /\ \/ Active(q) /\ Running(q, n)
         \/ ~Active(q) /\ (o = q \/ query[q].at = n)
  BY <1>0 DEF Evaluate, MayRun
<1>4. PICK f \in Frame : stack' = Append(stack, f) /\ f.kind = "eval" /\ f.expr = e
  <2> DEFINE f == EvalFrame(e, expr[e].wrapped)
  <2>1. expr[e].wrapped \in BOOLEAN
    BY DEF Types, ExprRecords
  <2>2. f \in Frame /\ f.kind = "eval" /\ f.expr = e
    BY <2>1 DEF EvalFrame, Frame
  <2>3. stack' = Append(stack, f)
    BY DEF Evaluate
  <2> QED
    BY <2>2, <2>3
<1>5. /\ stack' \in Seq(Frame) /\ stack'[n + 1] = f
      /\ \A i \in 1..n : stack'[i] = stack[i]
      /\ Evals' = Evals \cup {n + 1} /\ SubsOpen' = SubsOpen
      /\ \A i \in 1..n : Below(i)' = Below(i)
  BY <1>0, <1>4, Pushed DEF NestInv, StackInv
<1>6. Below(n + 1)' = SubsOpen
  <2>1. \A k \in SubsOpen : k < n + 1
    BY <1>2
  <2> QED
    BY <1>5, <2>1 DEF Below
<1>7. /\ \A i \in Evals : FrameQuery(i)' = FrameQuery(i)
      /\ FrameQuery(n + 1)' = q
  BY <1>2, <1>4, <1>5 DEF FrameQuery
\* The top of the stack is a frame of its owner, or there is none.
<1>8. \/ n \in Evals /\ query[FrameQuery(n)].owner = o
      \/ o = q /\ \A i \in Evals : query[FrameQuery(i)].owner # o
  <2>1. CASE Active(q) /\ Running(q, n)
    <3>1. n \in 1..n
      BY <1>0, <1>2, <2>1 DEF Active
    <3> QED
      BY <1>0, <2>1, <3>1 DEF Running, Evals, FrameQuery
  <2>2. CASE ~Active(q) /\ o = q
    <3>1. \A i \in Evals : FrameQuery(i) # q
      BY <2>2 DEF Active, Running, Evals, FrameQuery
    <3>2. \A i \in Evals : query[FrameQuery(i)].owner # q
      BY <3>1 DEF NestInv, Above
    <3> QED
      BY <2>2, <3>2
  <2>3. CASE o # q /\ query[q].at = n
    BY <1>1, <1>3, <2>3 DEF NestInv, Borrows
  <2> QED
    BY <1>3, <2>1, <2>2, <2>3
<1> HIDE DEF q, o
<1>9. StackInv' /\ FramesOpen' /\ Counters'
  <2>1. \A i \in Evals : stack[i].expr # e /\ stack'[i] = stack[i]
    BY <1>0, <1>2, <1>3, <1>5 DEF Evaluated, Evals
  <2>2. StackInv'
    <3>1. \A i \in Evals' : stack'[i].expr \in Exprs
      BY <1>4, <1>5, <2>1 DEF NestInv, StackInv
    <3>2. \A i, j \in Evals' : stack'[i].expr = stack'[j].expr => i = j
      <4> SUFFICES ASSUME NEW i \in Evals \cup {n + 1}, NEW j \in Evals \cup {n + 1},
                          stack'[i].expr = stack'[j].expr
                   PROVE  i = j
        BY <1>5
      <4>1. stack'[n + 1].expr = e
        BY <1>4, <1>5
      <4>2. CASE i \in Evals /\ j \in Evals
        BY <2>1, <4>2 DEF NestInv, StackInv
      <4>3. CASE i = n + 1 \/ j = n + 1
        BY <2>1, <4>1, <4>3
      <4> QED
        BY <4>2, <4>3
    <3> QED
      BY <1>5, <3>1, <3>2 DEF StackInv
  <2>3. FramesOpen' /\ Counters'
    BY <1>3, <1>5, <1>7 DEF NestInv, FramesOpen, Counters
  <2> QED
    BY <2>2, <2>3
<1>10. Together'
  <2> SUFFICES ASSUME NEW i \in Evals \cup {n + 1}, NEW j \in Evals \cup {n + 1},
                      query[FrameQuery(i)'].owner = query[FrameQuery(j)'].owner,
                      NEW k \in SubsOpen, i < k, k < j
               PROVE  FALSE
    BY <1>3, <1>5 DEF Together
  <2>1. i \in Evals
    BY <1>2
  <2>2. CASE j \in Evals
    BY <1>7, <2>1, <2>2 DEF NestInv, Together
  <2>3. CASE j = n + 1
    <3>1. query[FrameQuery(i)].owner = o
      BY <1>7, <2>1, <2>3 DEF o
    <3>2. n \in Evals /\ query[FrameQuery(n)].owner = o
      BY <1>8, <2>1, <3>1
    <3>3. ~(i < k /\ k < n)
      BY <2>1, <3>1, <3>2 DEF NestInv, Together
    <3>4. k # n /\ k \in 1..n
      BY <1>2, <3>2
    <3> QED
      BY <1>2, <3>3, <3>4
  <2> QED
    BY <2>2, <2>3
<1>11. Inside'
  <2> SUFFICES ASSUME NEW p \in Queries, query[p].state = "open"
               PROVE  /\ query[p].subs <= Cardinality(SubsOpen)
                      /\ \A i \in Evals \cup {n + 1} : query[FrameQuery(i)'].owner = query[p].owner =>
                            query[p].subs <= Cardinality(Below(i)')
    BY <1>3, <1>5 DEF Inside
  <2>1. \A i \in Evals : Below(i)' = Below(i)
    BY <1>2, <1>5
  <2> QED
    BY <1>6, <1>7, <2>1 DEF NestInv, Inside
<1>12. Borrows'
  BY <1>3, <1>5, <1>7 DEF NestInv, Borrows
<1>13. Above'
  <2> SUFFICES ASSUME NEW i \in Evals \cup {n + 1},
                      query[FrameQuery(i)'].owner # FrameQuery(i)'
               PROVE  \E j \in Evals : j < i /\ FrameQuery(j) = query[FrameQuery(i)'].owner
    BY <1>3, <1>5, <1>7 DEF Above
  <2>1. CASE i \in Evals
    BY <1>7, <2>1 DEF NestInv, Above
  <2>2. CASE i = n + 1
    <3>1. o # q /\ query[FrameQuery(i)'].owner = o
      BY <1>7, <2>2 DEF o
    <3>2. n \in Evals /\ query[FrameQuery(n)].owner = o
      BY <1>8, <3>1
    <3>3. n < n + 1 /\ \A j \in Evals : j < n + 1
      BY <1>2
    <3>4. CASE FrameQuery(n) = o
      BY <2>2, <3>1, <3>2, <3>3, <3>4
    <3>5. CASE FrameQuery(n) # o
      <4>1. PICK j \in Evals : j < n /\ FrameQuery(j) = o
        BY <3>2, <3>5 DEF NestInv, Above
      <4> QED
        BY <2>2, <3>1, <3>3, <4>1
    <3> QED
      BY <3>4, <3>5
  <2> QED
    BY <2>1, <2>2
<1> QED
  BY <1>9, <1>10, <1>11, <1>12, <1>13 DEF NestInv

\* What an ERROR in the state with an innermost subtransaction takes along.
LEMMA Dooms ==
  ASSUME Types, NestInv
  PROVE  /\ \A i \in Evals : Handler < i => FrameQuery(i) \in Doomed
         /\ SubsOpen = {} => \A q \in Queries : query[q].state = "open" => q \in Doomed
         /\ \A q \in Queries : query[q].state = "open" /\ query[q].subs = Cardinality(SubsOpen) => q \in Doomed
         /\ \A q \in Queries : \A i \in Evals :
              query[q].state = "open" /\ Handler < i /\ query[FrameQuery(i)].owner = query[q].owner
                => q \in Doomed
<1>1. \A i \in Evals : FrameQuery(i) \in Queries /\ query[FrameQuery(i)].state = "open"
  BY FramesTyped DEF NestInv, FramesOpen
<1>2. Handler \in 0..Len(stack) /\ Len(stack) \in Nat /\ Evals \subseteq 1..Len(stack)
  BY LastSub, Shape DEF NestInv, StackInv
<1>3. \A i \in Evals : Handler < i => query[FrameQuery(i)].owner \in DoomedOwners
  <2> SUFFICES ASSUME NEW i \in Evals, Handler < i
               PROVE  query[FrameQuery(i)].owner \in DoomedOwners
    OBVIOUS
  <2>1. i \in Handler + 1..Len(stack)
    BY <1>2
  <2>2. Running(FrameQuery(i), i)
    BY DEF Running, FrameQuery, Evals
  <2> QED
    BY <1>1, <2>1, <2>2 DEF DoomedOwners
<1>4. \A q \in Queries : query[q].state = "open"
           /\ (SubsOpen = {} \/ query[q].subs = Cardinality(SubsOpen)) => q \in Doomed
  BY DEF Doomed, DoomedOwners
<1> QED
  BY <1>1, <1>3, <1>4 DEF Doomed

\* Queries that have frames below the innermost subtransaction go on.
LEMMA Spared ==
  ASSUME Types, NestInv, NEW i \in Evals, i < Handler
  PROVE  FrameQuery(i) \notin Doomed
<1> DEFINE o == query[FrameQuery(i)].owner
<1>1. \A j \in Evals : FrameQuery(j) \in Queries
  BY FramesTyped DEF NestInv
<1>2. /\ Handler \in 0..Len(stack) /\ Len(stack) \in Nat /\ Evals \subseteq 1..Len(stack)
      /\ SubsOpen # {} /\ Handler \in SubsOpen
  BY LastSub, Shape DEF NestInv, StackInv
<1>3. Handler \notin Below(i)
  BY <1>2 DEF Below
<1>4. /\ Cardinality(Below(i)) < Cardinality(SubsOpen)
      /\ Cardinality(Below(i)) \in Nat /\ Cardinality(SubsOpen) \in Nat
  BY <1>2, <1>3, BelowCount, Shape DEF NestInv, StackInv
<1> SUFFICES ASSUME o \in DoomedOwners PROVE FALSE
  BY DEF Doomed
<1>5. PICK p \in Queries :
        /\ o = query[p].owner
        /\ query[p].state = "open"
        /\ \/ SubsOpen = {}
           \/ query[p].subs = Cardinality(SubsOpen)
           \/ \E j \in Handler + 1..Len(stack) : Running(p, j)
  BY DEF DoomedOwners
<1>6. query[p].subs <= Cardinality(Below(i))
  BY <1>5 DEF NestInv, Inside
<1>7. query[p].subs # Cardinality(SubsOpen)
  BY <1>4, <1>6 DEF NestInv, Counters
<1>8. PICK j \in Handler + 1..Len(stack) : Running(p, j)
  BY <1>2, <1>5, <1>7
<1>9. j \in Evals /\ FrameQuery(j) = p
  <2>1. j \in 1..Len(stack)
    BY <1>2
  <2> QED
    BY <1>8, <2>1 DEF Evals, Running, FrameQuery
<1>10. ~(i < Handler /\ Handler < j)
  BY <1>2, <1>5, <1>9 DEF NestInv, Together
<1> QED
  BY <1>2, <1>10

LEMMA UnwindNest ==
  ASSUME Types, NestInv, Unwind,
         \A q \in Doomed : query'[q] = [Unopened(q) EXCEPT !.state = "closed"],
         \A q \in Queries : q \notin Doomed => query'[q] = query[q]
  PROVE  NestInv'
<1>0. PICK h : h = IF Handler = 0 THEN 0 ELSE Handler - 1
  OBVIOUS
<1>1. /\ \A i \in Evals : FrameQuery(i) \in Queries
      /\ \A p \in Queries : query[p].owner \in Queries
  BY FramesTyped DEF NestInv
<1>2. /\ Handler \in 0..Len(stack) /\ Len(stack) \in Nat
      /\ Evals \subseteq 1..Len(stack) /\ SubsOpen \subseteq 1..Len(stack)
      /\ Evals \cap SubsOpen = {}
      /\ IsFiniteSet(SubsOpen) /\ Cardinality(SubsOpen) \in Nat
      /\ SubsOpen = {} => Handler = 0
      /\ SubsOpen # {} => Handler \in SubsOpen
      /\ \A k \in SubsOpen : k <= Handler
  BY LastSub, Shape DEF NestInv, StackInv
<1>3. h \in 0..Len(stack)
  BY <1>0, <1>2
<1>4. /\ stack' \in Seq(Frame)
      /\ \A i \in 1..h : stack'[i] = stack[i]
      /\ Evals' = {i \in Evals : i <= h} /\ SubsOpen' = {i \in SubsOpen : i <= h}
      /\ \A i \in 1..h : Below(i)' = Below(i)
  <2>1. stack' = SubSeq(stack, 1, h) /\ stack \in Seq(Frame)
    BY <1>0 DEF Unwind, NestInv, StackInv
  <2> QED
    BY <1>3, <2>1, Cut
<1>5. \A i \in 1..Len(stack) : i <= h => i < Handler /\ i \in 1..h
  BY <1>0, <1>2
<1>6. \A i \in Evals' : i \in Evals /\ i < Handler /\ i \in 1..h /\ FrameQuery(i) \notin Doomed
  <2>1. \A i \in Evals' : i \in Evals /\ i < Handler /\ i \in 1..h
    BY <1>2, <1>4, <1>5
  <2> QED
    BY <2>1, Spared
<1>7. Counters'
  <2> SUFFICES ASSUME NEW q \in Queries PROVE query'[q].subs \in Nat /\ query'[q].at \in Nat
    BY DEF Counters
  <2>1. CASE q \in Doomed
    <3>1. query'[q].subs = 0 /\ query'[q].at = 0
      BY <2>1 DEF Unopened
    <3> QED
      BY <3>1
  <2>2. CASE q \notin Doomed
    <3>1. query'[q] = query[q]
      BY <2>2
    <3> QED
      BY <3>1 DEF NestInv, Counters
  <2> QED
    BY <2>1, <2>2
<1>8. StackInv'
  <2>1. \A i \in Evals' : stack'[i] = stack[i] /\ i \in Evals
    BY <1>4, <1>6
  <2> QED
    BY <1>4, <2>1 DEF NestInv, StackInv
<1>9. ASSUME NEW i \in Evals'
      PROVE  /\ stack'[i].expr = stack[i].expr
             /\ \A j \in Evals : j < i => j \in Evals'
             /\ Cardinality(Below(i)') = Cardinality(Below(i))
             /\ query'[FrameQuery(i)].state = "open"
             /\ query'[FrameQuery(i)].owner = query[FrameQuery(i)].owner
  <2>1. query'[FrameQuery(i)] = query[FrameQuery(i)] /\ query[FrameQuery(i)].state = "open"
    BY <1>1, <1>6 DEF NestInv, FramesOpen
  <2>2. \A j \in Evals : j < i => j <= h
    <3>1. \A j \in 1..Len(stack) : j < i => j <= h
      BY <1>2, <1>3, <1>6
    <3> QED
      BY <1>2, <3>1
  <2>3. \A j \in Evals : j < i => j \in Evals'
    BY <1>4, <2>2
  <2> QED
    BY <1>4, <1>6, <2>1, <2>3
<1>10. \A q \in Doomed : query'[q].state = "closed"
  BY DEF Unopened
<1>11. \A q \in Queries : query[q].state # "new" => query'[q].state # "new"
  BY <1>10
<1>12. ASSUME NEW q \in Queries, query'[q].state = "open"
       PROVE  /\ query[q].state = "open"
              /\ query'[q].owner = query[q].owner
              /\ query'[q].at = query[q].at
              /\ query'[q].subs <= query[q].subs
              /\ query'[q].subs <= Cardinality(SubsOpen')
              /\ query[q].owner # q => query[q].at \in Evals'
  <2>1. q \notin Doomed
    BY <1>10, <1>12
  <2>2. query'[q] = query[q] /\ query[q].state = "open"
    BY <1>12, <2>1
  <2>3. query[q].subs \in Nat /\ query[q].subs <= Cardinality(SubsOpen)
    BY <2>2 DEF NestInv, Counters, Inside
  <2>4. SubsOpen # {} /\ query[q].subs # Cardinality(SubsOpen)
    BY <2>1, <2>2, Dooms
  <2>5. Cardinality(SubsOpen') = Cardinality(SubsOpen) - 1
    <3>1. Handler \in SubsOpen /\ Handler # 0 /\ Handler \in Nat
      BY <1>2, <2>4
    <3>2. \A k \in 1..Len(stack) : k <= Handler => (k <= h <=> k # Handler)
      BY <1>0, <1>2, <3>1
    <3>3. SubsOpen' = SubsOpen \ {Handler}
      BY <1>2, <1>4, <3>2
    <3>4. Cardinality(SubsOpen \ {Handler}) = Cardinality(SubsOpen) - 1
      BY <1>2, <3>1, FS_RemoveElement
    <3> QED
      BY <3>3, <3>4
  <2>6. query[q].subs <= Cardinality(SubsOpen')
    BY <1>2, <2>3, <2>4, <2>5
  <2>7. ASSUME query[q].owner # q PROVE query[q].at \in Evals'
    <3>1. /\ query[q].at \in Evals
          /\ query[FrameQuery(query[q].at)].owner = query[q].owner
      BY <2>2, <2>7 DEF NestInv, Borrows
    <3>2. ~(Handler < query[q].at)
      BY <2>1, <2>2, <3>1, Dooms
    <3>3. query[q].at # Handler
      BY <1>2, <2>4, <3>1
    <3>4. query[q].at <= h
      BY <1>0, <1>2, <3>1, <3>2, <3>3
    <3> QED
      BY <1>4, <3>1, <3>4
  <2>8. query[q].subs <= query[q].subs
    BY <2>3
  <2> QED
    BY <2>2, <2>6, <2>7, <2>8
<1>13. Evals' \subseteq Evals /\ SubsOpen' \subseteq SubsOpen
  BY <1>4
<1> QED
  BY <1>7, <1>8, <1>9, <1>11, <1>12, <1>13, Fewer

LEMMA InitNest == Init => NestInv
<1> SUFFICES ASSUME Init PROVE NestInv
  OBVIOUS
<1>1. stack = <<>> /\ query = [q \in Queries |-> Unopened(q)]
  BY DEF Init
<1>2. stack \in Seq(Frame) /\ Evals = {} /\ SubsOpen = {}
  BY <1>1 DEF Evals, SubsOpen
<1>3. \A q \in Queries : query[q].state = "new" /\ query[q].subs = 0 /\ query[q].at = 0
  BY <1>1 DEF Unopened
<1>4. Counters
  BY <1>3 DEF Counters
<1>5. StackInv /\ FramesOpen /\ Together /\ Above
  BY <1>2 DEF StackInv, FramesOpen, Together, Above
<1>6. Inside /\ Borrows
  BY <1>3 DEF Inside, Borrows
<1> QED
  BY <1>4, <1>5, <1>6 DEF NestInv

\* What is released or compiled leaves queries where they are.
LEMMA GetContextKeeps ==
  ASSUME Types, NEW e \in Exprs, NEW b \in Backends, GetContext(e, b)
  PROVE  \A q \in Queries : /\ query'[q].state = query[q].state
                            /\ query'[q].owner = query[q].owner
                            /\ query'[q].subs = query[q].subs
                            /\ query'[q].at = query[q].at
<1>1. CASE query' = query
  BY <1>1
<1>2. ASSUME NEW c \in Contexts, query' = [query EXCEPT ![QueryOf[e]].jit = c]
      PROVE  \A q \in Queries : /\ query'[q].state = query[q].state
                                /\ query'[q].owner = query[q].owner
                                /\ query'[q].subs = query[q].subs
                                /\ query'[q].at = query[q].at
  BY <1>2 DEF Types, AreQueries, IsQuery
<1> QED
  BY <1>1, <1>2 DEF GetContext

LEMMA StepNest == IInv /\ IInv' /\ NestInv /\ [Next]_vars => NestInv'
<1> SUFFICES ASSUME IInv, IInv', NestInv, [Next]_vars PROVE NestInv'
  OBVIOUS
<1>0. Types
  BY DEF IInv
<1>1. CASE UNCHANGED <<query, stack>>
  BY <1>0, <1>1, SameNest
<1>2. CASE \E q, r \in Queries : Open(q, r)
  BY <1>0, <1>2, OpenNest
<1>3. CASE \E q \in Queries : Close(q)
  <2>1. PICK q \in Queries : Close(q)
    BY <1>3
  <2>2. Ended({q}) /\ ~Active(q) /\ stack' = stack
    BY <2>1 DEF Close
  <2>3. /\ query'[q] = [Unopened(q) EXCEPT !.state = "closed"]
        /\ \A p \in Queries : p # q => query'[p] = query[p]
    BY <2>2 DEF Ended
  <2> QED
    BY <1>0, <2>2, <2>3, ClosedNest
<1>4. CASE BeginSub \/ CommitSub \/ Return
  BY <1>0, <1>4, BeginSubNest, CommitSubNest, ReturnNest
<1>5. CASE Unwind
  <2>1. Ended(Doomed)
    BY <1>5 DEF Unwind
  <2>2. Doomed \subseteq Queries
    BY DEF Doomed
  <2>3. /\ \A q \in Doomed : query'[q] = [Unopened(q) EXCEPT !.state = "closed"]
        /\ \A q \in Queries : q \notin Doomed => query'[q] = query[q]
    BY <2>1, <2>2 DEF Ended
  <2> QED
    BY <1>0, <1>5, <2>3, UnwindNest
<1>6. CASE \E e \in Exprs, b \in Backends : GetContext(e, b)
  <2>1. PICK e \in Exprs, b \in Backends : GetContext(e, b)
    BY <1>6
  <2>2. stack' = stack
    BY <2>1 DEF GetContext
  <2> QED
    BY <1>0, <2>1, <2>2, GetContextKeeps, SameNest
<1>7. CASE \E e \in Exprs : Evaluate(e)
  BY <1>0, <1>7, EvaluateNest
<1>8. CASE Raise \/ Aborted \/ ResetStats \/ Setup \/ Generate \/ Register \/ Install \/ Wrap
  BY <1>1, <1>8 DEF Raise, Aborted, ResetStats, Setup, Generate, Register, Install, Wrap
<1>9. CASE \E o \in Queries, c \in Contexts : ReleaseByOwner(o, c)
  BY <1>1, <1>9 DEF ReleaseByOwner
<1>10. CASE UNCHANGED vars
  BY <1>1, <1>10 DEF vars
<1> QED
  BY <1>2, <1>3, <1>4, <1>5, <1>6, <1>7, <1>8, <1>9, <1>10 DEF Next

-----------------------------------------------------------------------------
(* The timing wrappers.                                                    *)

TimingRecords == [state : {"none", "active", "done"}, count : 0..Samples,
                  backend : Backends \cup {None}, raw : BOOLEAN]

\* A query that an ERROR on top of the stack ends, and has not ended yet.
MayStart(q) == (stack # <<>> /\ Running(q, Len(stack))) \/ query[q].subs = Cardinality(SubsOpen)
Condemned(q) == status = "error" /\ MayStart(q)

\* The timing context of e is in the list of its JIT context.
InList(e) == Jit(e) \in Contexts /\ e \in context[Jit(e)].timings

\* compile_expr works for a query that may start, on an expression that nobody
\* evaluates.
CompilePlace ==
    pc.at # "idle" =>
        /\ MayStart(QueryOf[pc.expr])
        /\ \A i \in Evals : stack[i].expr # pc.expr
        /\ pc.backend \in Backends
        /\ IF pc.at = "wrap"
           THEN /\ session.provider = "meta" /\ ~expr[pc.expr].wrapped
                /\ expr[pc.expr].fn # "unready" /\ timing[pc.expr].state = "none"
           ELSE expr[pc.expr].fn = "unready"

\* What is evaluated is installed, without its wrapper for the time.
FramesTimed ==
    \A i \in Evals :
        /\ expr[stack[i].expr].fn # "unready" /\ ~expr[stack[i].expr].wrapped
        /\ stack[i].wrapped => timing[stack[i].expr].state = "active" /\ InList(stack[i].expr)

Installed ==
    \A e \in Exprs : expr[e].wrapped =>
        /\ IsOpen(e) /\ expr[e].fn # "unready" /\ timing[e].state = "active"
        /\ Condemned(QueryOf[e]) \/ InList(e)

Listed ==
    \A c \in Contexts : \A e \in context[c].timings :
        /\ IsOpen(e) => Jit(e) = c
        /\ query[QueryOf[e]].state # "closed" => timing[e].state # "none"

TimingInv ==
    /\ timing \in [Exprs -> TimingRecords]
    /\ \A e \in Exprs :
        /\ expr[e].fn = "unready" /\ query[QueryOf[e]].state # "closed" => timing[e].state = "none"
        /\ timing[e].state = "none" => timing[e] = NoTiming
        /\ timing[e].state = "active" => /\ session.provider = "meta"
                                         /\ timing[e].backend \in Backends
                                         /\ timing[e].count < Samples

WrapInv == CompilePlace /\ FramesTimed /\ Installed /\ Listed /\ TimingInv

LEMMA InitWrap == Init => WrapInv
<1> SUFFICES ASSUME Init PROVE WrapInv
  OBVIOUS
<1>1. /\ pc.at = "idle"
      /\ \A e \in Exprs : ~expr[e].wrapped /\ expr[e].fn = "unready" /\ timing[e] = NoTiming
      /\ \A c \in Contexts : context[c].timings = {}
      /\ timing = [e \in Exprs |-> NoTiming]
  BY DEF Init, Idle, NoCode, NoContext
<1>2. NoTiming \in TimingRecords /\ NoTiming.state = "none"
  BY DEF NoTiming, TimingRecords
<1>3. Evals = {}
  BY DEF Init, Evals
<1>4. CompilePlace /\ FramesTimed /\ Installed /\ Listed
  BY <1>1, <1>3 DEF CompilePlace, FramesTimed, Installed, Listed
<1>5. TimingInv
  BY <1>1, <1>2 DEF TimingInv
<1> QED
  BY <1>4, <1>5 DEF WrapInv

\* A query that is new has nothing compiled.
LEMMA NewIsBare ==
  ASSUME IInv, WrapInv, NEW e \in Exprs, query[QueryOf[e]].state = "new"
  PROVE  /\ expr[e].fn = "unready" /\ ~expr[e].wrapped /\ timing[e].state = "none"
         /\ \A c \in Contexts : e \notin context[c].timings
<1>1. expr[e].fn = "unready"
  BY DEF IInv, ReadyInv
<1>2. timing[e].state = "none"
  BY <1>1 DEF WrapInv, TimingInv
<1> QED
  BY <1>1, <1>2 DEF WrapInv, Installed, Listed

\* Steps outside compile_expr that leave contexts, code and wrappers alone.
LEMMA OtherWrap ==
  ASSUME IInv, NestInv, WrapInv, status # "error", pc'.at = "idle",
         UNCHANGED <<session, expr, timing, context>>,
         \A i \in Evals' : i \in Evals /\ stack'[i] = stack[i],
         \A q \in Queries :
            \/ query'[q].state = query[q].state /\ query'[q].jit = query[q].jit
            \/ query[q].state = "new" /\ query'[q].state = "open"
  PROVE  WrapInv'
<1>1. \A e \in Exprs : QueryOf[e] \in Queries
  OBVIOUS
<1>2. \A i \in Evals : stack[i].expr \in Exprs
  BY DEF NestInv, StackInv
<1>3. \A e \in Exprs : query[QueryOf[e]].state # "new" =>
        query'[QueryOf[e]].state = query[QueryOf[e]].state /\ Jit(e)' = Jit(e)
  BY <1>1
<1>4. \A e \in Exprs : expr[e].fn # "unready" => query[QueryOf[e]].state # "new"
  BY NewIsBare
<1>5. CompilePlace'
  BY DEF CompilePlace
<1>6. FramesTimed'
  <2> SUFFICES ASSUME NEW i \in Evals'
               PROVE  /\ expr[stack[i].expr].fn # "unready" /\ ~expr[stack[i].expr].wrapped
                      /\ stack[i].wrapped => timing[stack[i].expr].state = "active"
                                              /\ InList(stack[i].expr)'
    BY DEF FramesTimed
  <2>1. i \in Evals
    OBVIOUS
  <2>2. stack[i].expr \in Exprs /\ expr[stack[i].expr].fn # "unready"
    BY <1>2, <2>1 DEF WrapInv, FramesTimed
  <2>3. Jit(stack[i].expr)' = Jit(stack[i].expr)
    BY <1>3, <1>4, <2>2
  <2> QED
    BY <2>1, <2>2, <2>3 DEF WrapInv, FramesTimed, InList
<1>7. Installed'
  <2> SUFFICES ASSUME NEW e \in Exprs, expr[e].wrapped
               PROVE  /\ IsOpen(e)' /\ expr[e].fn # "unready" /\ timing[e].state = "active"
                      /\ InList(e)'
    BY DEF Installed
  <2>1. IsOpen(e) /\ expr[e].fn # "unready" /\ timing[e].state = "active" /\ InList(e)
    BY DEF WrapInv, Installed, Condemned
  <2> QED
    BY <1>3, <2>1 DEF InList
<1>8. Listed'
  <2> SUFFICES ASSUME NEW c \in Contexts, NEW e \in context[c].timings
               PROVE  /\ IsOpen(e)' => Jit(e)' = c
                      /\ query'[QueryOf[e]].state # "closed" => timing[e].state # "none"
    BY DEF Listed
  <2>1. e \in Exprs
    BY DEF IInv, Types, ContextRecords
  <2>2. query[QueryOf[e]].state # "new"
    BY <2>1, NewIsBare
  <2> QED
    BY <1>3, <2>1, <2>2 DEF WrapInv, Listed
<1>9. TimingInv'
  <2> SUFFICES ASSUME NEW e \in Exprs, expr[e].fn = "unready", query'[QueryOf[e]].state # "closed"
               PROVE  timing[e].state = "none"
    BY DEF WrapInv, TimingInv
  <2>1. query[QueryOf[e]].state # "closed"
    BY <1>3
  <2> QED
    BY <2>1 DEF WrapInv, TimingInv
<1> QED
  BY <1>5, <1>6, <1>7, <1>8, <1>9 DEF WrapInv

\* The queries in S end, and the contexts in C are freed with their timings.
EndStep(S, C) ==
    /\ pc'.at = "idle" /\ UNCHANGED session
    /\ \A q \in S : query'[q].state = "closed"
    /\ \A q \in Queries : q \notin S => query'[q] = query[q]
    /\ \A e \in Exprs : QueryOf[e] \in S => expr'[e] = NoCode
    /\ \A e \in Exprs : QueryOf[e] \notin S => expr'[e] = expr[e]
    /\ \A c \in C : context'[c].timings = {}
    /\ \A c \in Contexts : c \notin C => context'[c].timings = context[c].timings
    /\ timing' \in [Exprs -> TimingRecords]
    /\ \A c \in C : \A e \in context[c].timings :
            query'[QueryOf[e]].state # "open" /\ timing'[e] = NoTiming
    /\ \A e \in Exprs : (\A c \in C : e \notin context[c].timings) => timing'[e] = timing[e]
    /\ \A i \in Evals' : i \in Evals /\ stack'[i] = stack[i] /\ FrameQuery(i) \notin S
    /\ \A e \in Exprs : expr[e].wrapped /\ QueryOf[e] \notin S => ~Condemned(QueryOf[e])

LEMMA EndWrap ==
  ASSUME IInv, NestInv, WrapInv, NEW S \in SUBSET Queries, NEW C \in SUBSET Contexts,
         EndStep(S, C)
  PROVE  WrapInv'
<1>0. /\ pc'.at = "idle" /\ UNCHANGED session
      /\ \A q \in S : query'[q].state = "closed"
      /\ \A q \in Queries : q \notin S => query'[q] = query[q]
      /\ \A e \in Exprs : QueryOf[e] \in S => expr'[e] = NoCode
      /\ \A e \in Exprs : QueryOf[e] \notin S => expr'[e] = expr[e]
      /\ \A c \in C : context'[c].timings = {}
      /\ \A c \in Contexts : c \notin C => context'[c].timings = context[c].timings
      /\ timing' \in [Exprs -> TimingRecords]
      /\ \A c \in C : \A e \in context[c].timings :
              query'[QueryOf[e]].state # "open" /\ timing'[e] = NoTiming
      /\ \A e \in Exprs : (\A c \in C : e \notin context[c].timings) => timing'[e] = timing[e]
      /\ \A i \in Evals' : i \in Evals /\ stack'[i] = stack[i] /\ FrameQuery(i) \notin S
      /\ \A e \in Exprs : expr[e].wrapped /\ QueryOf[e] \notin S => ~Condemned(QueryOf[e])
  BY DEF EndStep
<1> USE <1>0
<1>1. \A i \in Evals : stack[i].expr \in Exprs /\ query[FrameQuery(i)].state = "open"
  BY DEF NestInv, StackInv, FramesOpen
<1>2. \A e \in Exprs : query'[QueryOf[e]].state = "open" =>
        /\ QueryOf[e] \notin S /\ query'[QueryOf[e]] = query[QueryOf[e]]
        /\ expr'[e] = expr[e]
        /\ timing'[e] = timing[e] /\ \A c \in C : e \notin context[c].timings
  <2> SUFFICES ASSUME NEW e \in Exprs, query'[QueryOf[e]].state = "open"
               PROVE  /\ QueryOf[e] \notin S /\ query'[QueryOf[e]] = query[QueryOf[e]]
                      /\ expr'[e] = expr[e]
                      /\ timing'[e] = timing[e] /\ \A c \in C : e \notin context[c].timings
    OBVIOUS
  <2>1. QueryOf[e] \in Queries /\ QueryOf[e] \notin S
    OBVIOUS
  <2>2. \A c \in C : e \notin context[c].timings
    OBVIOUS
  <2> QED
    BY <2>1, <2>2
\* An expression of a query that stays open keeps its entry.
<1>3. \A e \in Exprs : query'[QueryOf[e]].state = "open" /\ InList(e) => InList(e)'
  <2> SUFFICES ASSUME NEW e \in Exprs, query'[QueryOf[e]].state = "open", InList(e)
               PROVE  InList(e)'
    OBVIOUS
  <2>1. Jit(e)' = Jit(e) /\ Jit(e) \in Contexts /\ Jit(e) \notin C
    BY <1>2 DEF InList
  <2> QED
    BY <2>1 DEF InList
<1>4. CompilePlace'
  BY DEF CompilePlace
<1>5. FramesTimed'
  <2> SUFFICES ASSUME NEW i \in Evals'
               PROVE  /\ expr'[stack'[i].expr].fn # "unready" /\ ~expr'[stack'[i].expr].wrapped
                      /\ stack'[i].wrapped => timing'[stack'[i].expr].state = "active"
                                              /\ InList(stack[i].expr)'
    BY DEF FramesTimed
  <2>1. PICK e \in Exprs : e = stack[i].expr /\ QueryOf[e] \notin S /\ query[QueryOf[e]].state = "open"
    BY <1>1 DEF FrameQuery
  <2>2. /\ expr[e].fn # "unready" /\ ~expr[e].wrapped
        /\ stack[i].wrapped => timing[e].state = "active" /\ InList(e)
    BY <2>1 DEF WrapInv, FramesTimed
  <2>3. query'[QueryOf[e]].state = "open"
    BY <2>1
  <2>4. expr'[e] = expr[e] /\ timing'[e] = timing[e] /\ (InList(e) => InList(e)')
    BY <1>2, <1>3, <2>3
  <2>5. stack'[i] = stack[i] /\ stack'[i].expr = e
    BY <2>1
  <2>6. stack'[i].wrapped => InList(stack[i].expr)'
    BY <2>2, <2>4, <2>5 DEF InList
  <2> QED
    BY <2>2, <2>4, <2>5, <2>6
<1>6. Installed'
  <2> SUFFICES ASSUME NEW e \in Exprs, expr'[e].wrapped
               PROVE  /\ IsOpen(e)' /\ expr'[e].fn # "unready" /\ timing'[e].state = "active"
                      /\ InList(e)'
    BY DEF Installed
  <2>1. QueryOf[e] \notin S /\ expr'[e] = expr[e] /\ query'[QueryOf[e]] = query[QueryOf[e]]
    BY DEF NoCode
  <2>2. IsOpen(e) /\ expr[e].fn # "unready" /\ timing[e].state = "active" /\ InList(e)
    BY <2>1 DEF WrapInv, Installed
  <2>3. query'[QueryOf[e]].state = "open"
    BY <2>1, <2>2
  <2> QED
    BY <1>2, <1>3, <2>1, <2>2, <2>3
<1>7. Listed'
  <2> SUFFICES ASSUME NEW c \in Contexts, NEW e \in context'[c].timings
               PROVE  /\ IsOpen(e)' => Jit(e)' = c
                      /\ query'[QueryOf[e]].state # "closed" => timing'[e].state # "none"
    BY DEF Listed
  <2>1. c \notin C /\ e \in context[c].timings
    OBVIOUS
  <2>2. e \in Exprs
    BY <2>1 DEF IInv, Types, ContextRecords
  <2>3. IsOpen(e)' => Jit(e)' = c
    BY <1>2, <2>1, <2>2 DEF WrapInv, Listed
  <2>4. ASSUME query'[QueryOf[e]].state # "closed"
        PROVE  timing'[e].state # "none"
    <3>1. QueryOf[e] \in Queries /\ query'[QueryOf[e]] = query[QueryOf[e]]
      BY <2>2, <2>4
    <3>2. query[QueryOf[e]].state # "new"
      BY <2>1, <2>2, NewIsBare
    <3>3. query[QueryOf[e]].state \in {"new", "open", "closed"}
      BY <3>1 DEF IInv, Types, AreQueries, IsQuery
    <3>4. query'[QueryOf[e]].state = "open"
      BY <2>4, <3>1, <3>2, <3>3
    <3>5. timing'[e] = timing[e]
      BY <1>2, <2>2, <3>4
    <3> QED
      BY <2>1, <2>4, <3>1, <3>5 DEF WrapInv, Listed
  <2> QED
    BY <2>3, <2>4
<1>8. TimingInv'
  <2>1. \A e \in Exprs : timing'[e] = timing[e] \/ timing'[e] = NoTiming
    OBVIOUS
  <2>2. NoTiming.state = "none"
    BY DEF NoTiming
  <2>3. ASSUME NEW e \in Exprs, expr'[e].fn = "unready", query'[QueryOf[e]].state # "closed"
        PROVE  timing'[e].state = "none"
    <3>1. expr'[e] = expr[e] /\ query'[QueryOf[e]] = query[QueryOf[e]]
      BY <2>3
    <3>2. timing[e].state = "none"
      BY <2>3, <3>1 DEF WrapInv, TimingInv
    <3> QED
      BY <2>1, <2>2, <3>2
  <2>4. ASSUME NEW e \in Exprs, timing'[e].state = "none" PROVE timing'[e] = NoTiming
    BY <2>1, <2>4 DEF WrapInv, TimingInv
  <2>5. ASSUME NEW e \in Exprs, timing'[e].state = "active"
        PROVE  /\ session'.provider = "meta"
               /\ timing'[e].backend \in Backends
               /\ timing'[e].count < Samples
    <3>1. timing'[e] = timing[e] /\ timing[e].state = "active"
      BY <2>1, <2>2, <2>5
    <3> QED
      BY <3>1 DEF WrapInv, TimingInv
  <2> QED
    BY <2>3, <2>4, <2>5 DEF TimingInv
<1> QED
  BY <1>4, <1>5, <1>6, <1>7, <1>8 DEF WrapInv

\* Steps of compile_expr that change no timing: it may hand pc.expr over.
LEMMA KeptWrap ==
  ASSUME IInv, NestInv, WrapInv, status = "normal", UNCHANGED <<session, timing, stack>>,
         context' \in [Contexts -> ContextRecords],
         \A q \in Queries : /\ query'[q].state = query[q].state
                            /\ query'[q].jit = query[q].jit \/ query[q].jit = None,
         \A c \in Contexts : context'[c].timings = context[c].timings,
         \A e \in Exprs : \/ expr'[e] = expr[e]
                          \/ /\ pc.at # "idle" /\ e = pc.expr
                             /\ expr'[e].fn # "unready" /\ ~expr'[e].wrapped
  PROVE  FramesTimed' /\ Installed' /\ Listed' /\ TimingInv'
<1>1. \A i \in Evals : /\ stack[i].expr \in Exprs
                       /\ pc.at # "idle" => stack[i].expr # pc.expr
  BY DEF NestInv, StackInv, WrapInv, CompilePlace
<1>2. None \notin Contexts
  OBVIOUS
<1>3. \A e \in Exprs : /\ IsOpen(e)' = IsOpen(e)
                       /\ InList(e) => InList(e)'
  <2> SUFFICES ASSUME NEW e \in Exprs
               PROVE  /\ IsOpen(e)' = IsOpen(e)
                      /\ InList(e) => InList(e)'
    OBVIOUS
  <2>1. QueryOf[e] \in Queries
    OBVIOUS
  <2> QED
    BY <1>2, <2>1 DEF InList
<1>4. Evals' = Evals
  BY DEF Evals
<1>5. FramesTimed'
  <2> SUFFICES ASSUME NEW i \in Evals
               PROVE  /\ expr'[stack[i].expr].fn # "unready" /\ ~expr'[stack[i].expr].wrapped
                      /\ stack[i].wrapped => timing[stack[i].expr].state = "active"
                                             /\ InList(stack[i].expr)'
    BY <1>4 DEF FramesTimed
  <2>1. stack[i].expr \in Exprs /\ expr'[stack[i].expr] = expr[stack[i].expr]
    BY <1>1
  <2>2. InList(stack[i].expr) => InList(stack[i].expr)'
    BY <1>3, <2>1
  <2> QED
    BY <2>1, <2>2 DEF WrapInv, FramesTimed
<1>6. Installed'
  <2> SUFFICES ASSUME NEW e \in Exprs, expr'[e].wrapped
               PROVE  /\ IsOpen(e)' /\ expr'[e].fn # "unready" /\ timing[e].state = "active"
                      /\ InList(e)'
    BY DEF Installed
  <2>1. expr'[e] = expr[e]
    OBVIOUS
  <2>2. IsOpen(e) /\ expr[e].fn # "unready" /\ timing[e].state = "active" /\ InList(e)
    BY <2>1 DEF WrapInv, Installed, Condemned
  <2> QED
    BY <1>3, <2>1, <2>2
<1>7. Listed'
  <2> SUFFICES ASSUME NEW c \in Contexts, NEW e \in context[c].timings
               PROVE  /\ IsOpen(e)' => Jit(e)' = c
                      /\ query'[QueryOf[e]].state # "closed" => timing[e].state # "none"
    BY DEF Listed
  <2>1. e \in Exprs /\ QueryOf[e] \in Queries
    BY DEF IInv, Types, ContextRecords
  <2>2. IsOpen(e) => Jit(e) = c
    BY DEF WrapInv, Listed
  <2>3. query[QueryOf[e]].state # "closed" => timing[e].state # "none"
    BY DEF WrapInv, Listed
  <2> QED
    BY <1>2, <2>1, <2>2, <2>3
<1>8. TimingInv'
  <2>1. ASSUME NEW e \in Exprs, expr'[e].fn = "unready", query'[QueryOf[e]].state # "closed"
        PROVE  timing[e].state = "none"
    BY <2>1 DEF WrapInv, TimingInv
  <2>2. timing' = timing /\ session' = session
    OBVIOUS
  <2> QED
    BY <2>1, <2>2 DEF WrapInv, TimingInv
<1> QED
  BY <1>5, <1>6, <1>7, <1>8

LEMMA FreedTimings ==
  ASSUME IInv, WrapInv, NEW c \in Contexts, FreeContents(c)
  PROVE  /\ context'[c].timings = {}
         /\ \A d \in Contexts : d # c => context'[d].timings = context[d].timings
         /\ timing' \in [Exprs -> TimingRecords]
         /\ \A e \in Exprs : IF e \in context[c].timings THEN timing'[e] = NoTiming
                             ELSE timing'[e] = timing[e]
         /\ context[c].timings \in SUBSET Exprs
<1>1. NoTiming \in TimingRecords /\ NoContext.timings = {}
  BY DEF NoTiming, TimingRecords, NoContext
<1>2. timing \in [Exprs -> TimingRecords]
  BY DEF WrapInv, TimingInv
<1>3. context \in [Contexts -> ContextRecords]
  BY DEF IInv, Types
<1>4. context[c].timings \in SUBSET Exprs
  BY <1>3 DEF ContextRecords
<1>5. /\ context' = [context EXCEPT ![c] = NoContext]
      /\ timing' = [e \in Exprs |-> IF e \in context[c].timings THEN NoTiming ELSE timing[e]]
  BY DEF FreeContents
<1>6. timing' \in [Exprs -> TimingRecords]
  BY <1>1, <1>2, <1>5
<1> QED
  BY <1>1, <1>3, <1>4, <1>5, <1>6

LEMMA ReleaseByOwnerWrap ==
  ASSUME IInv, IInv', NestInv, WrapInv, NEW o \in Queries, NEW c \in Contexts, ReleaseByOwner(o, c)
  PROVE  WrapInv'
<1>1. /\ status = "abort" /\ owner[o].releasing /\ c \in owner[o].remembers /\ FreeContents(c)
      /\ UNCHANGED <<session, query, pc, expr, stack>>
  BY DEF ReleaseByOwner
<1>2. pc'.at = "idle"
  BY <1>1 DEF IInv, CompileInv
<1>3. \A q \in Queries : query[q].state = "open" => query[q].jit # c
  <2> SUFFICES ASSUME NEW q \in Queries, query[q].state = "open", query[q].jit = c PROVE FALSE
    OBVIOUS
  <2>1. c # None /\ query[q].owner \in Queries
    BY DEF IInv, Types, AreQueries, IsQuery
  <2>2. c \in owner[query[q].owner].remembers
    BY <2>1 DEF IInv, JitInv
  <2>3. query[q].owner = o
    BY <1>1, <2>1, <2>2 DEF IInv, OwnersAgree
  <2> QED
    BY <1>1, <2>3 DEF IInv, ReleaseInv
<1>4. /\ context'[c].timings = {}
      /\ \A d \in Contexts : d # c => context'[d].timings = context[d].timings
      /\ timing' \in [Exprs -> TimingRecords]
      /\ \A e \in Exprs : IF e \in context[c].timings THEN timing'[e] = NoTiming
                          ELSE timing'[e] = timing[e]
      /\ context[c].timings \in SUBSET Exprs
  BY <1>1, FreedTimings
<1>5. \A e \in context[c].timings :
            query'[QueryOf[e]].state # "open" /\ timing'[e] = NoTiming
  <2> SUFFICES ASSUME NEW e \in context[c].timings PROVE query[QueryOf[e]].state # "open"
    BY <1>1, <1>4
  <2>1. e \in Exprs /\ QueryOf[e] \in Queries
    BY <1>4
  <2>2. IsOpen(e) => Jit(e) = c
    BY DEF WrapInv, Listed
  <2> QED
    BY <1>3, <2>1, <2>2
<1>6. \A i \in Evals' : i \in Evals /\ stack'[i] = stack[i] /\ FrameQuery(i) \notin {}
  BY <1>1 DEF Evals
<1>7. \A e \in Exprs : expr[e].wrapped /\ QueryOf[e] \notin {} => ~Condemned(QueryOf[e])
  BY <1>1 DEF Condemned
<1>8. {} \in SUBSET Queries /\ {c} \in SUBSET Contexts
  OBVIOUS
<1>9. /\ \A d \in {c} : context'[d].timings = {}
      /\ \A d \in Contexts : d \notin {c} => context'[d].timings = context[d].timings
      /\ \A d \in {c} : \A e \in context[d].timings :
            query'[QueryOf[e]].state # "open" /\ timing'[e] = NoTiming
      /\ \A e \in Exprs : (\A d \in {c} : e \notin context[d].timings) => timing'[e] = timing[e]
  BY <1>4, <1>5
<1>10. /\ \A q \in {} : query'[q].state = "closed"
       /\ \A q \in Queries : q \notin {} => query'[q] = query[q]
       /\ \A e \in Exprs : QueryOf[e] \in {} => expr'[e] = NoCode
       /\ \A e \in Exprs : QueryOf[e] \notin {} => expr'[e] = expr[e]
  BY <1>1
<1>11. session' = session
  BY <1>1
<1>12. EndStep({}, {c})
  BY <1>2, <1>4, <1>6, <1>7, <1>9, <1>10, <1>11 DEF EndStep
<1> QED
  BY <1>8, <1>12, EndWrap

LEMMA EndedFacts ==
  ASSUME NEW S \in SUBSET Queries, Ended(S)
  PROVE  /\ \A q \in S : query'[q].state = "closed"
         /\ \A q \in Queries : q \notin S => query'[q] = query[q]
         /\ \A e \in Exprs : QueryOf[e] \in S => expr'[e] = NoCode
         /\ \A e \in Exprs : QueryOf[e] \notin S => expr'[e] = expr[e]
<1>1. \A q \in S : query'[q].state = "closed"
  BY DEF Ended, Unopened
<1>2. /\ \A q \in Queries : q \notin S => query'[q] = query[q]
      /\ \A e \in Exprs : expr'[e] = IF QueryOf[e] \in S THEN NoCode ELSE expr[e]
  BY DEF Ended
<1> QED
  BY <1>1, <1>2

LEMMA CloseWrap ==
  ASSUME IInv, NestInv, WrapInv, NEW q \in Queries, Close(q)
  PROVE  WrapInv'
<1>1. /\ status = "normal" /\ pc'.at = "idle" /\ query[q].state = "open" /\ ~Active(q)
      /\ Ended({q}) /\ UNCHANGED <<session, stack>>
  BY DEF Close, Ready
<1>2. {q} \in SUBSET Queries
  OBVIOUS
<1>3. /\ \A p \in {q} : query'[p].state = "closed"
      /\ \A p \in Queries : p \notin {q} => query'[p] = query[p]
      /\ \A e \in Exprs : QueryOf[e] \in {q} => expr'[e] = NoCode
      /\ \A e \in Exprs : QueryOf[e] \notin {q} => expr'[e] = expr[e]
  BY <1>1, <1>2, EndedFacts
<1>4. \A i \in Evals' : i \in Evals /\ stack'[i] = stack[i] /\ FrameQuery(i) \notin {q}
  BY <1>1 DEF Active, Running, Evals, FrameQuery
<1>5. \A e \in Exprs : expr[e].wrapped /\ QueryOf[e] \notin {q} => ~Condemned(QueryOf[e])
  BY <1>1 DEF Condemned
<1>6. session' = session /\ pc'.at = "idle"
  BY <1>1
<1>7. CASE query[q].jit = None
  <2>1. {} \in SUBSET Contexts
    OBVIOUS
  <2>2. context' = context /\ timing' = timing
    BY <1>7 DEF Close
  <2>3. /\ \A d \in {} : context'[d].timings = {}
        /\ \A d \in Contexts : d \notin {} => context'[d].timings = context[d].timings
        /\ \A d \in {} : \A e \in context[d].timings :
              query'[QueryOf[e]].state # "open" /\ timing'[e] = NoTiming
        /\ \A e \in Exprs : (\A d \in {} : e \notin context[d].timings) => timing'[e] = timing[e]
    BY <2>2
  <2>4. timing' \in [Exprs -> TimingRecords]
    BY <2>2 DEF WrapInv, TimingInv
  <2>5. EndStep({q}, {})
    BY <1>3, <1>4, <1>5, <1>6, <2>3, <2>4 DEF EndStep
  <2> QED
    BY <1>2, <2>1, <2>5, EndWrap
<1>8. CASE query[q].jit # None
  <2>0. PICK c \in Contexts : c = query[q].jit
    BY <1>8 DEF IInv, Types, AreQueries, IsQuery
  <2>1. {c} \in SUBSET Contexts /\ FreeContents(c)
    BY <1>8, <2>0 DEF Close
  <2>2. /\ context'[c].timings = {}
        /\ \A d \in Contexts : d # c => context'[d].timings = context[d].timings
        /\ timing' \in [Exprs -> TimingRecords]
        /\ \A e \in Exprs : IF e \in context[c].timings THEN timing'[e] = NoTiming
                            ELSE timing'[e] = timing[e]
        /\ context[c].timings \in SUBSET Exprs
    BY <2>1, FreedTimings
  <2>3. \A p \in Queries : query[p].state = "open" /\ query[p].jit = c => p = q
    BY <1>1, <1>8, <2>0 DEF IInv, OwnersAgree
  <2>4. \A e \in context[c].timings :
            query'[QueryOf[e]].state # "open" /\ timing'[e] = NoTiming
    <3> SUFFICES ASSUME NEW e \in context[c].timings
                 PROVE  query'[QueryOf[e]].state # "open"
      BY <2>2
    <3>1. e \in Exprs /\ QueryOf[e] \in Queries
      BY <2>2
    <3>2. IsOpen(e) => Jit(e) = c
      BY DEF WrapInv, Listed
    <3>3. CASE QueryOf[e] = q
      BY <1>3, <3>3
    <3>4. CASE QueryOf[e] # q
      BY <1>3, <2>3, <3>1, <3>2, <3>4
    <3> QED
      BY <3>3, <3>4
  <2>5. /\ \A d \in {c} : context'[d].timings = {}
        /\ \A d \in Contexts : d \notin {c} => context'[d].timings = context[d].timings
        /\ \A d \in {c} : \A e \in context[d].timings :
              query'[QueryOf[e]].state # "open" /\ timing'[e] = NoTiming
        /\ \A e \in Exprs : (\A d \in {c} : e \notin context[d].timings) => timing'[e] = timing[e]
    BY <2>2, <2>4
  <2>6. EndStep({q}, {c})
    BY <1>3, <1>4, <1>5, <1>6, <2>2, <2>5 DEF EndStep
  <2> QED
    BY <1>2, <2>1, <2>6, EndWrap
<1> QED
  BY <1>7, <1>8

LEMMA UnwindWrap ==
  ASSUME IInv, NestInv, WrapInv, Unwind
  PROVE  WrapInv'
<1>0. PICK h : h = IF Handler = 0 THEN 0 ELSE Handler - 1
  OBVIOUS
<1>1. /\ status = "error" /\ pc'.at = "idle" /\ Ended(Doomed)
      /\ UNCHANGED <<session, context, timing>>
  BY DEF Unwind, Idle
<1>2. Doomed \in SUBSET Queries
  BY DEF Doomed
<1>3. /\ \A p \in Doomed : query'[p].state = "closed"
      /\ \A p \in Queries : p \notin Doomed => query'[p] = query[p]
      /\ \A e \in Exprs : QueryOf[e] \in Doomed => expr'[e] = NoCode
      /\ \A e \in Exprs : QueryOf[e] \notin Doomed => expr'[e] = expr[e]
  BY <1>1, <1>2, EndedFacts
<1>4. /\ Handler \in 0..Len(stack) /\ Len(stack) \in Nat
      /\ Evals \subseteq 1..Len(stack) /\ SubsOpen \subseteq 1..Len(stack)
      /\ Evals \cap SubsOpen = {}
      /\ SubsOpen = {} => Handler = 0
      /\ SubsOpen # {} => Handler \in SubsOpen
  BY LastSub, Shape DEF NestInv, StackInv
<1>5. h \in 0..Len(stack)
  BY <1>0, <1>4
<1>6. /\ \A i \in 1..h : stack'[i] = stack[i]
      /\ Evals' = {i \in Evals : i <= h}
  <2>1. stack' = SubSeq(stack, 1, h) /\ stack \in Seq(Frame)
    BY <1>0 DEF Unwind, NestInv, StackInv
  <2> QED
    BY <1>5, <2>1, Cut
<1>7. \A i \in 1..Len(stack) : i <= h => i < Handler /\ i \in 1..h
  BY <1>0, <1>4
<1>8. \A i \in Evals' : i \in Evals /\ stack'[i] = stack[i] /\ FrameQuery(i) \notin Doomed
  <2>1. \A i \in Evals' : i \in Evals /\ i < Handler /\ i \in 1..h
    BY <1>4, <1>6, <1>7
  <2> QED
    BY <1>6, <2>1, Spared DEF IInv
<1>9. \A e \in Exprs : expr[e].wrapped /\ QueryOf[e] \notin Doomed => ~Condemned(QueryOf[e])
  <2> SUFFICES ASSUME NEW e \in Exprs, expr[e].wrapped, MayStart(QueryOf[e])
               PROVE  QueryOf[e] \in Doomed
    BY DEF Condemned
  <2>1. QueryOf[e] \in Queries /\ query[QueryOf[e]].state = "open"
    BY DEF WrapInv, Installed
  <2>2. CASE query[QueryOf[e]].subs = Cardinality(SubsOpen)
    BY <2>1, <2>2, Dooms DEF IInv
  <2>3. CASE stack # <<>> /\ Running(QueryOf[e], Len(stack))
    <3>0. PICK n : n = Len(stack)
      OBVIOUS
    <3>1. n \in 1..Len(stack)
      BY <2>3, <3>0 DEF NestInv, StackInv
    <3>2. n \in Evals /\ FrameQuery(n) = QueryOf[e]
      BY <2>3, <3>0, <3>1 DEF Running, Evals, FrameQuery
    <3>3. Handler < n
      BY <1>4, <3>0, <3>2
    <3> QED
      BY <3>2, <3>3, Dooms DEF IInv
  <2> QED
    BY <2>2, <2>3 DEF MayStart
<1>10. /\ {} \in SUBSET Contexts
       /\ \A d \in {} : context'[d].timings = {}
       /\ \A d \in Contexts : d \notin {} => context'[d].timings = context[d].timings
       /\ \A d \in {} : \A e \in context[d].timings :
             query'[QueryOf[e]].state # "open" /\ timing'[e] = NoTiming
       /\ \A e \in Exprs : (\A d \in {} : e \notin context[d].timings) => timing'[e] = timing[e]
       /\ timing' \in [Exprs -> TimingRecords]
       /\ session' = session /\ pc'.at = "idle"
  <2>1. timing \in [Exprs -> TimingRecords]
    BY DEF WrapInv, TimingInv
  <2> QED
    BY <1>1, <2>1
<1>11. EndStep(Doomed, {})
  BY <1>3, <1>8, <1>9, <1>10 DEF EndStep
<1> QED
  BY <1>2, <1>10, <1>11, EndWrap

LEMMA SamePlace ==
  ASSUME UNCHANGED stack, NEW q \in Queries, query'[q].subs = query[q].subs
  PROVE  /\ Evals' = Evals /\ MayStart(q)' = MayStart(q)
BY DEF Evals, MayStart, Running, SubsOpen

LEMMA GetContextWrap ==
  ASSUME IInv, IInv', NestInv, WrapInv, NEW e \in Exprs, NEW b \in Backends, GetContext(e, b)
  PROVE  WrapInv'
<1> DEFINE q == QueryOf[e]
<1>1. /\ status = "normal" /\ pc.at = "idle" /\ expr[e].fn = "unready"
      /\ q \in Queries /\ MayRun(q)
      /\ Active(q) \/ query[q].subs = Cardinality(SubsOpen)
      /\ UNCHANGED <<session, expr, timing, stack>>
  BY DEF GetContext, Ready
<1>2. \A p \in Queries : /\ query'[p].state = query[p].state
                         /\ query'[p].subs = query[p].subs
  BY GetContextKeeps DEF IInv
<1>3. MayStart(q)
  <2>1. CASE Active(q)
    <3>1. Running(q, Len(stack))
      BY <1>1, <2>1 DEF MayRun
    <3>2. stack # <<>>
      BY <2>1 DEF Active, NestInv, StackInv
    <3> QED
      BY <3>1, <3>2 DEF MayStart
  <2>2. CASE query[q].subs = Cardinality(SubsOpen)
    BY <2>2 DEF MayStart
  <2> QED
    BY <1>1, <2>1, <2>2
<1>4. /\ \A p \in Queries : query'[p].jit = query[p].jit \/ query[p].jit = None
      /\ \A c \in Contexts : context'[c].timings = context[c].timings
  <2>1. CASE UNCHANGED <<query, context>>
    BY <2>1
  <2>2. ASSUME NEW c \in Contexts, ~context[c].live, Jit(e) = None,
               context' = [context EXCEPT ![c] =
                             [NoContext EXCEPT !.live = TRUE, !.resowner = query[q].owner]],
               query' = [query EXCEPT ![q].jit = c]
        PROVE  /\ \A p \in Queries : query'[p].jit = query[p].jit \/ query[p].jit = None
               /\ \A d \in Contexts : context'[d].timings = context[d].timings
    <3>1. \A p \in Queries : p # q => query'[p] = query[p]
      BY <2>2 DEF IInv, Types, AreQueries
    <3>2. context[c] = NoContext
      BY <2>2 DEF IInv, CodeIsOwned
    <3>3. context'[c].timings = {} /\ NoContext.timings = {}
      BY <2>2 DEF IInv, Types, NoContext
    <3>4. \A d \in Contexts : d # c => context'[d] = context[d]
      BY <2>2 DEF IInv, Types
    <3> QED
      BY <2>2, <3>1, <3>2, <3>3, <3>4
  <2> QED
    BY <2>1, <2>2 DEF GetContext
<1>5. context' \in [Contexts -> ContextRecords]
  BY DEF IInv, Types
<1>6. FramesTimed' /\ Installed' /\ Listed' /\ TimingInv'
  BY <1>1, <1>2, <1>4, <1>5, KeptWrap
<1>7. Evals' = Evals /\ MayStart(q)' = MayStart(q)
  BY <1>1, <1>2, SamePlace
<1>8. CompilePlace'
  <2>1. CASE pc'.at = "idle"
    BY <2>1 DEF CompilePlace
  <2>2. CASE pc' = [at |-> "setup", expr |-> e, code |-> None, backend |-> b]
    <3>1. pc'.at = "setup" /\ pc'.expr = e /\ pc'.backend = b
      BY <2>2
    <3>2. \A i \in Evals : stack[i].expr # e
      BY <1>1 DEF WrapInv, FramesTimed
    <3>3. MayStart(QueryOf[pc.expr])' /\ expr'[pc'.expr].fn = "unready"
      BY <1>1, <1>3, <1>7, <3>1 DEF MayStart, Running, SubsOpen
    <3> QED
      BY <1>1, <1>7, <3>1, <3>2, <3>3 DEF CompilePlace
  <2>3. pc'.at = "idle" \/ pc' = [at |-> "setup", expr |-> e, code |-> None, backend |-> b]
    BY DEF GetContext, Fail, Idle
  <2> QED
    BY <2>1, <2>2, <2>3
<1> QED
  BY <1>6, <1>8 DEF WrapInv

\* What a step of compile_expr before the wrapper leaves of its place.
LEMMA NextPlace ==
  ASSUME IInv, WrapInv, UNCHANGED <<session, query, stack, timing>>, pc.at # "idle",
         \/ pc'.at = "idle"
         \/ /\ pc'.expr = pc.expr /\ pc'.backend = pc.backend
            /\ \/ /\ pc'.at # "wrap" /\ pc.at # "wrap" /\ expr'[pc.expr] = expr[pc.expr]
               \/ /\ pc'.at = "wrap" /\ session.provider = "meta" /\ pc.at # "wrap"
                  /\ ~expr'[pc.expr].wrapped /\ expr'[pc.expr].fn # "unready"
  PROVE  CompilePlace'
<1>1. CASE pc'.at = "idle"
  BY <1>1 DEF CompilePlace
<1>2. CASE pc'.at # "idle"
  <2>1. /\ MayStart(QueryOf[pc.expr])
        /\ \A i \in Evals : stack[i].expr # pc.expr
        /\ pc.backend \in Backends
        /\ pc.expr \in Exprs
    BY DEF WrapInv, CompilePlace, IInv, CompileInv
  <2>2. pc'.expr = pc.expr /\ pc'.backend = pc.backend
    BY <1>2
  <2>3. MayStart(QueryOf[pc.expr])' /\ Evals' = Evals
    BY <2>1, <2>2 DEF MayStart, Running, SubsOpen, Evals
  <2>4. pc.at # "wrap" => timing[pc.expr].state = "none" /\ expr[pc.expr].fn = "unready"
    <3>1. query[QueryOf[pc.expr]].state = "open"
      BY DEF IInv, CompileInv
    <3> QED
      BY <2>1, <3>1 DEF WrapInv, CompilePlace, TimingInv
  <2> QED
    BY <1>2, <2>1, <2>2, <2>3, <2>4 DEF CompilePlace
<1> QED
  BY <1>1, <1>2

LEMMA CompileWrap ==
  ASSUME IInv, IInv', NestInv, WrapInv, Setup \/ Generate \/ Register \/ Install
  PROVE  WrapInv'
<1>1. /\ status = "normal" /\ pc.at \in {"setup", "generate", "register", "install"}
      /\ UNCHANGED <<session, query, stack, timing>>
  BY DEF Setup, Generate, Register, Install, Compiling
<1>2. pc.expr \in Exprs /\ IsOpen(pc.expr) /\ Jit(pc.expr) \in Contexts
  <2>1. pc.expr \in Exprs /\ IsOpen(pc.expr) /\ Jit(pc.expr) # None
    BY <1>1 DEF IInv, CompileInv
  <2> QED
    BY <2>1 DEF IInv, Types, AreQueries, IsQuery
<1>3. expr[pc.expr].fn = "unready" /\ ~expr[pc.expr].wrapped
  <2>1. expr[pc.expr].fn = "unready"
    BY <1>1 DEF WrapInv, CompilePlace
  <2> QED
    BY <1>2, <2>1 DEF WrapInv, Installed
<1>4. context \in [Contexts -> ContextRecords] /\ expr \in [Exprs -> ExprRecords] /\ pc \in PcRecords
  BY DEF IInv, Types
<1>5. \A c \in Contexts : context'[c].timings = context[c].timings
  <2>1. CASE Setup
    BY <1>2, <1>4, <2>1 DEF Setup, ContextRecords
  <2>2. CASE Register
    BY <1>2, <1>4, <2>2 DEF Register, ContextRecords
  <2>3. CASE Generate \/ Install
    BY <2>3 DEF Generate, Install
  <2> QED
    BY <2>1, <2>2, <2>3
<1>6. /\ expr[pc.expr] \in ExprRecords
      /\ [expr[pc.expr] EXCEPT !.fn = "interpreted"].fn = "interpreted"
      /\ [expr[pc.expr] EXCEPT !.fn = "interpreted"].wrapped = expr[pc.expr].wrapped
  BY <1>2, <1>4 DEF ExprRecords
<1>7. Interpret => /\ \A e \in Exprs : e # pc.expr => expr'[e] = expr[e]
                   /\ expr'[pc.expr].fn = "interpreted"
                   /\ expr'[pc.expr].wrapped = expr[pc.expr].wrapped
                   /\ pc'.at = "idle"
  <2> SUFFICES ASSUME Interpret
               PROVE  /\ \A e \in Exprs : e # pc.expr => expr'[e] = expr[e]
                      /\ expr'[pc.expr].fn = "interpreted"
                      /\ expr'[pc.expr].wrapped = expr[pc.expr].wrapped
                      /\ pc'.at = "idle"
    OBVIOUS
  <2>1. /\ \A e \in Exprs : e # pc.expr => expr'[e] = expr[e]
        /\ expr'[pc.expr] = [expr[pc.expr] EXCEPT !.fn = "interpreted"]
    BY <1>2, <1>4 DEF Interpret
  <2>2. pc'.at = "idle"
    BY DEF Interpret, Idle
  <2> QED
    BY <1>6, <2>1, <2>2
<1>8. Fail => pc'.at = "idle"
  BY DEF Fail, Idle
<1>9. /\ \A e \in Exprs : \/ expr'[e] = expr[e]
                          \/ /\ pc.at # "idle" /\ e = pc.expr
                             /\ expr'[e].fn # "unready" /\ ~expr'[e].wrapped
      /\ \/ pc'.at = "idle"
         \/ /\ pc'.expr = pc.expr /\ pc'.backend = pc.backend
            /\ \/ /\ pc'.at # "wrap" /\ pc.at # "wrap" /\ expr'[pc.expr] = expr[pc.expr]
               \/ /\ pc'.at = "wrap" /\ session.provider = "meta" /\ pc.at # "wrap"
                  /\ ~expr'[pc.expr].wrapped /\ expr'[pc.expr].fn # "unready"
  <2>1. CASE Setup
    <3>1. CASE Interpret
      BY <1>1, <1>3, <1>7, <3>1
    <3>2. CASE Fail /\ UNCHANGED expr
      BY <1>8, <3>2
    <3>3. CASE pc' = [pc EXCEPT !.at = "generate"] /\ UNCHANGED expr
      <4>1. pc'.at = "generate" /\ pc'.expr = pc.expr /\ pc'.backend = pc.backend
        BY <1>4, <3>3 DEF PcRecords
      <4> QED
        BY <1>1, <3>3, <4>1
    <3> QED
      BY <2>1, <3>1, <3>2, <3>3 DEF Setup
  <2>2. CASE Generate
    <3>1. expr' = expr
      BY <2>2 DEF Generate
    <3>2. /\ pc'.expr = pc.expr /\ pc'.backend = pc.backend
          /\ pc'.at \in {"register", "install"}
      BY <1>4, <2>2 DEF Generate, PcRecords
    <3> QED
      BY <1>1, <3>1, <3>2
  <2>3. CASE Register
    <3>1. expr' = expr
      BY <2>3 DEF Register
    <3>2. CASE Fail
      BY <1>8, <3>1, <3>2
    <3>3. CASE pc' = [pc EXCEPT !.at = "install"]
      <4>1. pc'.at = "install" /\ pc'.expr = pc.expr /\ pc'.backend = pc.backend
        BY <1>4, <3>3 DEF PcRecords
      <4> QED
        BY <1>1, <3>1, <4>1
    <3> QED
      BY <2>3, <3>2, <3>3 DEF Register
  <2>4. CASE Install
    <3>1. CASE Interpret
      BY <1>1, <1>3, <1>7, <3>1
    <3>2. CASE Fail /\ UNCHANGED expr
      BY <1>8, <3>2
    <3>3. CASE /\ expr' = [expr EXCEPT ![pc.expr] =
                        [fn |-> "validate", code |-> pc.code, wrapped |-> FALSE]]
               /\ pc' = IF session.provider = "meta" THEN [pc EXCEPT !.at = "wrap"] ELSE Idle
      <4>1. /\ \A e \in Exprs : e # pc.expr => expr'[e] = expr[e]
            /\ expr'[pc.expr].fn = "validate" /\ ~expr'[pc.expr].wrapped
        BY <1>2, <1>4, <3>3
      <4>2. CASE session.provider # "meta"
        <5>1. pc'.at = "idle"
          BY <3>3, <4>2 DEF Idle
        <5> QED
          BY <1>1, <4>1, <5>1
      <4>3. CASE session.provider = "meta"
        <5>1. pc'.at = "wrap" /\ pc'.expr = pc.expr /\ pc'.backend = pc.backend
          BY <1>4, <3>3, <4>3 DEF PcRecords
        <5> QED
          BY <1>1, <4>1, <4>3, <5>1
      <4> QED
        BY <4>2, <4>3
    <3> QED
      BY <2>4, <3>1, <3>2, <3>3 DEF Install
  <2> QED
    BY <2>1, <2>2, <2>3, <2>4
<1>10. context' \in [Contexts -> ContextRecords]
  BY DEF IInv, Types
<1>11. FramesTimed' /\ Installed' /\ Listed' /\ TimingInv'
  BY <1>1, <1>5, <1>9, <1>10, KeptWrap
<1>12. CompilePlace'
  BY <1>1, <1>9, NextPlace
<1> QED
  BY <1>11, <1>12 DEF WrapInv

LEMMA WrapWrap ==
  ASSUME IInv, IInv', NestInv, WrapInv, Wrap
  PROVE  WrapInv'
<1>0. PICK e : e = pc.expr
  OBVIOUS
<1>1. /\ status = "normal" /\ pc.at = "wrap" /\ UNCHANGED <<session, query, stack>>
  BY DEF Wrap, Compiling
<1>2. e \in Exprs /\ IsOpen(e) /\ Jit(e) \in Contexts
  <2>1. e \in Exprs /\ IsOpen(e) /\ Jit(e) # None
    BY <1>0, <1>1 DEF IInv, CompileInv
  <2> QED
    BY <2>1 DEF IInv, Types, AreQueries, IsQuery
<1>3. /\ session.provider = "meta" /\ ~expr[e].wrapped
      /\ expr[e].fn # "unready" /\ timing[e].state = "none"
      /\ MayStart(QueryOf[e]) /\ pc.backend \in Backends
      /\ \A i \in Evals : stack[i].expr # e
  BY <1>0, <1>1 DEF WrapInv, CompilePlace
<1>4. context' \in [Contexts -> ContextRecords]
  BY DEF IInv, Types
<1>5. pc'.at = "idle"
  BY DEF Wrap, Fail, Idle
<1>6. CompilePlace'
  BY <1>5 DEF CompilePlace
<1>7. CASE UNCHANGED <<context, expr, timing>>
  <2>1. FramesTimed' /\ Installed' /\ Listed' /\ TimingInv'
    BY <1>1, <1>4, <1>7, KeptWrap
  <2> QED
    BY <1>6, <2>1 DEF WrapInv
<1>8. CASE /\ timing' = [timing EXCEPT ![e] =
                          [state |-> "active", count |-> 0, backend |-> pc.backend,
                           raw |-> FALSE]]
           /\ expr' = [expr EXCEPT ![e].wrapped = TRUE]
           /\ \/ /\ context' = [context EXCEPT ![Jit(e)].timings = @ \cup {e}]
                 /\ status' = "normal"
              \/ status' = "error" /\ context' = context
  <2> DEFINE T == [state |-> "active", count |-> 0, backend |-> pc.backend, raw |-> FALSE]
  <2>1. /\ T \in TimingRecords /\ T.state = "active" /\ T.backend = pc.backend /\ T.count = 0
        /\ 0 < Samples
    BY <1>3 DEF TimingRecords
  <2>2. timing \in [Exprs -> TimingRecords]
    BY DEF WrapInv, TimingInv
  <2>3. /\ timing' \in [Exprs -> TimingRecords]
        /\ \A d \in Exprs : d # e => timing'[d] = timing[d]
        /\ timing'[e].state = "active" /\ timing'[e].backend = pc.backend /\ timing'[e].count = 0
    <3>1. timing' = [timing EXCEPT ![e] = T]
      BY <1>8
    <3> HIDE DEF T
    <3>2. /\ timing' \in [Exprs -> TimingRecords] /\ timing'[e] = T
          /\ \A d \in Exprs : d # e => timing'[d] = timing[d]
      BY <1>2, <2>1, <2>2, <3>1
    <3> QED
      BY <2>1, <3>2
  <2>4. /\ \A d \in Exprs : d # e => expr'[d] = expr[d]
        /\ expr'[e].fn = expr[e].fn
    BY <1>2, <1>8 DEF IInv, Types, ExprRecords
  <2>5. /\ \A c \in Contexts : c # Jit(e) => context'[c].timings = context[c].timings
        /\ context'[Jit(e)].timings \in {context[Jit(e)].timings, context[Jit(e)].timings \cup {e}}
        /\ status' # "error" => context'[Jit(e)].timings = context[Jit(e)].timings \cup {e}
    BY <1>2, <1>8 DEF IInv, Types, ContextRecords
  <2>6. \A d \in Exprs : /\ Jit(d)' = Jit(d) /\ IsOpen(d)' = IsOpen(d)
                         /\ InList(d) => InList(d)'
    BY <1>1, <2>5 DEF InList
  <2>7. FramesTimed'
    <3>1. Evals' = Evals
      BY <1>1 DEF Evals
    <3> SUFFICES ASSUME NEW i \in Evals
                 PROVE  /\ expr'[stack[i].expr].fn # "unready" /\ ~expr'[stack[i].expr].wrapped
                        /\ stack[i].wrapped => timing'[stack[i].expr].state = "active"
                                               /\ InList(stack[i].expr)'
      BY <1>1, <3>1 DEF FramesTimed
    <3>2. PICK d \in Exprs : d = stack[i].expr
      BY DEF NestInv, StackInv
    <3>3. d # e /\ expr'[d] = expr[d] /\ timing'[d] = timing[d]
      BY <1>3, <2>3, <2>4, <3>2
    <3>4. InList(stack[i].expr)' = InList(d)'
      BY <1>1, <3>2 DEF InList
    <3> QED
      BY <2>6, <3>2, <3>3, <3>4 DEF WrapInv, FramesTimed
  <2>8. Installed'
    <3> SUFFICES ASSUME NEW d \in Exprs, expr'[d].wrapped
                 PROVE  /\ IsOpen(d)' /\ expr'[d].fn # "unready" /\ timing'[d].state = "active"
                        /\ Condemned(QueryOf[d])' \/ InList(d)'
      BY DEF Installed
    <3>1. CASE d = e
      <4>1. status' = "error" \/ InList(e)'
        BY <1>2, <2>5, <2>6 DEF InList
      <4>2. MayStart(QueryOf[e])'
        BY <1>1, <1>2, <1>3, SamePlace
      <4> QED
        BY <1>2, <1>3, <2>3, <2>4, <2>6, <3>1, <4>1, <4>2 DEF Condemned
    <3>2. CASE d # e
      <4>1. expr'[d] = expr[d] /\ timing'[d] = timing[d]
        BY <2>3, <2>4, <3>2
      <4>2. IsOpen(d) /\ expr[d].fn # "unready" /\ timing[d].state = "active" /\ InList(d)
        BY <1>1, <4>1 DEF WrapInv, Installed, Condemned
      <4> QED
        BY <2>6, <4>1, <4>2
    <3> QED
      BY <3>1, <3>2
  <2>9. Listed'
    <3> SUFFICES ASSUME NEW c \in Contexts, NEW d \in context'[c].timings
                 PROVE  /\ IsOpen(d)' => Jit(d)' = c
                        /\ query'[QueryOf[d]].state # "closed" => timing'[d].state # "none"
      BY DEF Listed
    <3>1. d \in Exprs
      BY <1>4 DEF ContextRecords
    <3>2. d \in context[c].timings \/ (d = e /\ c = Jit(e))
      BY <2>5
    <3>3. CASE d = e
      <4>1. c = Jit(e)
        BY <1>2, <3>2, <3>3 DEF WrapInv, Listed
      <4> QED
        BY <2>3, <2>6, <3>3, <4>1, <1>2
    <3>4. CASE d # e
      <4>1. d \in context[c].timings /\ timing'[d] = timing[d]
        BY <2>3, <3>1, <3>2, <3>4
      <4> QED
        BY <1>1, <2>6, <3>1, <4>1 DEF WrapInv, Listed
    <3> QED
      BY <3>3, <3>4
  <2>10. TimingInv'
    <3> SUFFICES ASSUME NEW d \in Exprs
                 PROVE  /\ expr'[d].fn = "unready" /\ query'[QueryOf[d]].state # "closed"
                            => timing'[d].state = "none"
                        /\ timing'[d].state = "none" => timing'[d] = NoTiming
                        /\ timing'[d].state = "active" => /\ session'.provider = "meta"
                                                          /\ timing'[d].backend \in Backends
                                                          /\ timing'[d].count < Samples
      BY <2>3 DEF TimingInv
    <3>1. CASE d = e
      BY <1>1, <1>3, <2>1, <2>3, <2>4, <3>1
    <3>2. CASE d # e
      <4>1. expr'[d] = expr[d] /\ timing'[d] = timing[d]
        BY <2>3, <2>4, <3>2
      <4> QED
        BY <1>1, <4>1 DEF WrapInv, TimingInv
    <3> QED
      BY <3>1, <3>2
  <2> QED
    BY <1>6, <2>7, <2>8, <2>9, <2>10 DEF WrapInv
<1> QED
  BY <1>0, <1>1, <1>7, <1>8 DEF Wrap, Fail

LEMMA EvaluateWrap ==
  ASSUME IInv, IInv', NestInv, WrapInv, NEW e \in Exprs, Evaluate(e)
  PROVE  WrapInv'
<1>0. PICK n : n = Len(stack)
  OBVIOUS
<1> DEFINE fn == IF ~expr[e].wrapped THEN expr[e].fn
                 ELSE IF timing[e].raw THEN "raw" ELSE "validate"
<1>1. /\ status = "normal" /\ pc.at = "idle" /\ pc' = pc
      /\ expr[e].fn \in {"validate", "raw"}
      /\ UNCHANGED <<session, query, context, timing>>
      /\ \E f \in {"validate", "raw"} :
           expr' = [expr EXCEPT ![e].wrapped = FALSE, ![e].fn = f]
      /\ ~Evaluated(e)
      /\ stack' = Append(stack, EvalFrame(e, expr[e].wrapped))
  BY DEF Evaluate, Ready
<1>2. /\ \A d \in Exprs : d # e => expr'[d] = expr[d]
      /\ expr'[e].fn # "unready" /\ ~expr'[e].wrapped
  <2>1. PICK f \in {"validate", "raw"} :
           expr' = [expr EXCEPT ![e].wrapped = FALSE, ![e].fn = f]
    BY <1>1
  <2>2. expr \in [Exprs -> ExprRecords]
    BY DEF IInv, Types
  <2>3. /\ \A d \in Exprs : d # e => expr'[d] = expr[d]
        /\ expr'[e] = [[expr[e] EXCEPT !.wrapped = FALSE] EXCEPT !.fn = f]
    BY <2>1, <2>2
  <2>4. [[expr[e] EXCEPT !.wrapped = FALSE] EXCEPT !.fn = f].fn = f
        /\ [[expr[e] EXCEPT !.wrapped = FALSE] EXCEPT !.fn = f].wrapped = FALSE
    BY <2>2 DEF ExprRecords
  <2> QED
    BY <2>3, <2>4
<1>3. PICK f \in Frame : /\ stack' = Append(stack, f) /\ f.kind = "eval" /\ f.expr = e
                         /\ f.wrapped = expr[e].wrapped
  <2> DEFINE f == EvalFrame(e, expr[e].wrapped)
  <2>1. expr[e].wrapped \in BOOLEAN
    BY DEF IInv, Types, ExprRecords
  <2>2. f \in Frame /\ f.kind = "eval" /\ f.expr = e /\ f.wrapped = expr[e].wrapped
    BY <2>1 DEF EvalFrame, Frame
  <2> QED
    BY <1>1, <2>2
<1>4. /\ stack'[n + 1] = f
      /\ \A i \in 1..n : stack'[i] = stack[i]
      /\ Evals' = Evals \cup {n + 1}
  BY <1>0, <1>3, Pushed DEF NestInv, StackInv
<1>5. \A d \in Exprs : IsOpen(d)' = IsOpen(d) /\ Jit(d)' = Jit(d) /\ InList(d)' = InList(d)
  BY <1>1 DEF InList
<1>6. \A d \in Exprs : expr[d].wrapped => IsOpen(d) /\ expr[d].fn # "unready"
                                          /\ timing[d].state = "active" /\ InList(d)
  BY <1>1 DEF WrapInv, Installed, Condemned
<1>7. FramesTimed'
  <2> SUFFICES ASSUME NEW i \in Evals \cup {n + 1}
               PROVE  /\ expr'[stack'[i].expr].fn # "unready" /\ ~expr'[stack'[i].expr].wrapped
                      /\ stack'[i].wrapped => timing'[stack'[i].expr].state = "active"
                                              /\ InList(stack[i].expr)'
    BY <1>4 DEF FramesTimed
  <2>1. CASE i \in Evals
    <3>1. i \in 1..n /\ stack'[i] = stack[i]
      BY <1>0, <1>4, <2>1 DEF Evals
    <3>2. PICK d \in Exprs : d = stack[i].expr
      BY <2>1 DEF NestInv, StackInv
    <3>3. d # e
      BY <1>0, <1>1, <3>1, <3>2 DEF Evaluated
    <3>4. /\ expr[d].fn # "unready" /\ ~expr[d].wrapped
          /\ stack[i].wrapped => timing[d].state = "active" /\ InList(d)
      BY <2>1, <3>2 DEF WrapInv, FramesTimed
    <3>5. InList(stack[i].expr)' = InList(d)
      <4>1. InList(stack[i].expr)' = InList(d)'
        BY <3>1, <3>2 DEF InList
      <4> QED
        BY <1>5, <4>1
    <3> QED
      BY <1>1, <1>2, <3>1, <3>2, <3>3, <3>4, <3>5
  <2>2. CASE i = n + 1
    <3>1. stack'[i] = f /\ f.expr = e
      BY <1>3, <1>4, <2>2
    <3>2. InList(stack[i].expr)' = InList(e)
      <4>1. InList(stack[i].expr)' = InList(e)'
        BY <3>1 DEF InList
      <4> QED
        BY <1>5, <4>1
    <3> QED
      BY <1>1, <1>2, <1>3, <1>6, <3>1, <3>2
  <2> QED
    BY <2>1, <2>2
<1>8. Installed'
  <2> SUFFICES ASSUME NEW d \in Exprs, expr'[d].wrapped
               PROVE  /\ IsOpen(d)' /\ expr'[d].fn # "unready" /\ timing'[d].state = "active"
                      /\ InList(d)'
    BY DEF Installed
  <2>1. expr'[d] = expr[d]
    BY <1>2
  <2> QED
    BY <1>1, <1>5, <1>6, <2>1
<1>9. Listed' /\ CompilePlace'
  BY <1>1, <1>5 DEF WrapInv, Listed, CompilePlace
<1>10. TimingInv'
  BY <1>1, <1>2 DEF WrapInv, TimingInv
<1> QED
  BY <1>7, <1>8, <1>9, <1>10 DEF WrapInv

LEMMA ReturnWrap ==
  ASSUME IInv, IInv', NestInv, WrapInv, Return
  PROVE  WrapInv'
<1>0. PICK n : n = Len(stack)
  OBVIOUS
<1>1. /\ status = "normal" /\ pc.at = "idle" /\ pc' = pc /\ status' = status
      /\ UNCHANGED <<session, query, context>>
      /\ stack # <<>> /\ stack[n].kind = "eval"
      /\ stack' = SubSeq(stack, 1, n - 1)
  BY <1>0 DEF Return, Ready
<1>2. n \in Evals /\ n - 1 \in 0..n
  <2>1. n \in Nat /\ n \in 1..n
    BY <1>0, <1>1 DEF NestInv, StackInv
  <2> QED
    BY <1>0, <1>1, <2>1 DEF Evals
<1>3. /\ \A i \in 1..(n - 1) : stack'[i] = stack[i]
      /\ Evals' = {i \in Evals : i <= n - 1}
  BY <1>0, <1>1, <1>2, Cut DEF NestInv, StackInv
<1>4. PICK e \in Exprs : e = stack[n].expr
  BY <1>2 DEF NestInv, StackInv
<1>5. \A i \in Evals' : i \in Evals /\ stack'[i] = stack[i] /\ stack[i].expr # e /\ i # n
  <2>1. \A i \in 1..n : i <= n - 1 => i # n /\ i \in 1..(n - 1)
    BY <1>2
  <2>2. \A i \in Evals' : i \in Evals /\ stack'[i] = stack[i] /\ i # n
    BY <1>0, <1>3, <2>1 DEF Evals
  <2> QED
    BY <1>2, <1>4, <2>2 DEF NestInv, StackInv
<1>6. /\ expr[e].fn # "unready" /\ ~expr[e].wrapped
      /\ stack[n].wrapped => timing[e].state = "active" /\ InList(e)
  BY <1>2, <1>4 DEF WrapInv, FramesTimed
<1>7. \A d \in Exprs : IsOpen(d)' = IsOpen(d) /\ Jit(d)' = Jit(d) /\ InList(d)' = InList(d)
  BY <1>1 DEF InList
<1>8. IsOpen(e)
  BY <1>2, <1>4 DEF NestInv, FramesOpen, FrameQuery
<1>9. /\ \A d \in Exprs : d # e => expr'[d] = expr[d] /\ timing'[d] = timing[d]
      /\ timing' \in [Exprs -> TimingRecords]
      /\ expr'[e].fn # "unready"
      /\ timing'[e].state # "none" \/ timing'[e] = timing[e]
      /\ expr'[e].wrapped => timing'[e].state = "active" /\ InList(e)
      /\ timing'[e].state = "active" =>
            /\ timing[e].state = "active" /\ timing'[e].backend = timing[e].backend
            /\ timing'[e].count < Samples
  <2>1. timing \in [Exprs -> TimingRecords] /\ expr \in [Exprs -> ExprRecords]
    BY DEF WrapInv, TimingInv, IInv, Types
  <2>2. CASE ~stack[n].wrapped
    <3>1. expr' = expr /\ timing' = timing
      BY <1>0, <2>2 DEF Return
    <3> QED
      BY <1>6, <2>1, <3>1 DEF WrapInv, TimingInv
  <2>3. CASE stack[n].wrapped
    <3> DEFINE m == timing[e].count + 1
    <3>1. /\ timing' = [timing EXCEPT ![e].count = m,
                                      ![e].raw   = expr[e].fn = "raw",
                                      ![e].state = IF Unfinished(m) THEN @ ELSE "done"]
          /\ expr' = [expr EXCEPT ![e].wrapped = Reinstalled(m)]
      BY <1>0, <1>4, <2>3 DEF Return
    <3>2. /\ timing[e].state = "active" /\ InList(e) /\ timing[e].count < Samples
          /\ timing[e].count \in 0..Samples
      BY <1>6, <2>1, <2>3 DEF WrapInv, TimingInv, TimingRecords
    <3>3. m \in 0..Samples
      BY <3>2
    <3> HIDE DEF m
    <3>4. PICK s \in {"active", "done"} :
            s = IF Unfinished(m) THEN timing[e].state ELSE "done"
      BY <3>2
    <3>5. PICK r \in BOOLEAN : r = (expr[e].fn = "raw")
      OBVIOUS
    <3> DEFINE t == [[[timing[e] EXCEPT !.count = m] EXCEPT !.raw = r] EXCEPT !.state = s]
    <3>6. /\ t \in TimingRecords /\ t.count = m /\ t.state = s /\ t.backend = timing[e].backend
      BY <2>1, <3>3 DEF TimingRecords
    <3>7. timing' = [timing EXCEPT ![e] = t]
      BY <2>1, <3>1, <3>4, <3>5 DEF TimingRecords
    <3> HIDE DEF t
    <3>8. /\ timing' \in [Exprs -> TimingRecords] /\ timing'[e] = t
          /\ \A d \in Exprs : d # e => timing'[d] = timing[d]
      BY <2>1, <3>6, <3>7
    <3>9. PICK w \in BOOLEAN : w = Reinstalled(m)
      <4>1. Reinstalled(m) \in BOOLEAN
        BY DEF Reinstalled, Unfinished
      <4> QED
        BY <4>1
    <3>10. /\ \A d \in Exprs : d # e => expr'[d] = expr[d]
           /\ expr'[e].fn = expr[e].fn /\ expr'[e].wrapped = w
      BY <2>1, <3>1, <3>9 DEF ExprRecords
    <3>11. w => s = "active"
      BY <3>2, <3>4, <3>9 DEF Reinstalled
    <3>12. s = "active" => m < Samples
      BY <3>4 DEF Unfinished
    <3> QED
      BY <1>6, <3>2, <3>6, <3>8, <3>10, <3>11, <3>12
  <2> QED
    BY <2>2, <2>3
<1>10. FramesTimed'
  <2> SUFFICES ASSUME NEW i \in Evals'
               PROVE  /\ expr'[stack'[i].expr].fn # "unready" /\ ~expr'[stack'[i].expr].wrapped
                      /\ stack'[i].wrapped => timing'[stack'[i].expr].state = "active"
                                              /\ InList(stack[i].expr)'
    BY DEF FramesTimed
  <2>1. PICK d \in Exprs : d = stack[i].expr /\ d # e /\ stack'[i] = stack[i] /\ i \in Evals
    BY <1>5 DEF NestInv, StackInv
  <2>2. /\ expr[d].fn # "unready" /\ ~expr[d].wrapped
        /\ stack[i].wrapped => timing[d].state = "active" /\ InList(d)
    BY <2>1 DEF WrapInv, FramesTimed
  <2>3. InList(stack[i].expr)' = InList(d)
    <3>1. InList(stack[i].expr)' = InList(d)'
      BY <2>1 DEF InList
    <3> QED
      BY <1>7, <3>1
  <2> QED
    BY <1>9, <2>1, <2>2, <2>3
<1>11. Installed'
  <2> SUFFICES ASSUME NEW d \in Exprs, expr'[d].wrapped
               PROVE  /\ IsOpen(d)' /\ expr'[d].fn # "unready" /\ timing'[d].state = "active"
                      /\ InList(d)'
    BY DEF Installed
  <2>1. CASE d = e
    BY <1>7, <1>8, <1>9, <2>1
  <2>2. CASE d # e
    <3>1. expr'[d] = expr[d] /\ timing'[d] = timing[d]
      BY <1>9, <2>2
    <3>2. IsOpen(d) /\ expr[d].fn # "unready" /\ timing[d].state = "active" /\ InList(d)
      BY <1>1, <3>1 DEF WrapInv, Installed, Condemned
    <3> QED
      BY <1>7, <3>1, <3>2
  <2> QED
    BY <2>1, <2>2
<1>12. Listed'
  <2> SUFFICES ASSUME NEW c \in Contexts, NEW d \in context[c].timings
               PROVE  /\ IsOpen(d)' => Jit(d)' = c
                      /\ query'[QueryOf[d]].state # "closed" => timing'[d].state # "none"
    BY <1>1 DEF Listed
  <2>1. d \in Exprs
    BY DEF IInv, Types, ContextRecords
  <2>2. timing'[d].state # "none" \/ timing'[d] = timing[d]
    BY <1>9, <2>1
  <2> QED
    BY <1>1, <1>7, <2>1, <2>2 DEF WrapInv, Listed
<1>13. TimingInv'
  <2> SUFFICES ASSUME NEW d \in Exprs
               PROVE  /\ expr'[d].fn = "unready" /\ query'[QueryOf[d]].state # "closed"
                          => timing'[d].state = "none"
                      /\ timing'[d].state = "none" => timing'[d] = NoTiming
                      /\ timing'[d].state = "active" => /\ session'.provider = "meta"
                                                        /\ timing'[d].backend \in Backends
                                                        /\ timing'[d].count < Samples
    BY <1>9 DEF TimingInv
  <2>1. CASE d = e
    <3>1. timing'[d].state = "none" => timing'[d] = NoTiming
      BY <1>9, <2>1 DEF WrapInv, TimingInv
    <3> QED
      BY <1>1, <1>9, <2>1, <3>1 DEF WrapInv, TimingInv
  <2>2. CASE d # e
    <3>1. expr'[d] = expr[d] /\ timing'[d] = timing[d]
      BY <1>9, <2>2
    <3> QED
      BY <1>1, <3>1 DEF WrapInv, TimingInv
  <2> QED
    BY <2>1, <2>2
<1>14. CompilePlace'
  BY <1>1 DEF CompilePlace
<1> QED
  BY <1>10, <1>11, <1>12, <1>13, <1>14 DEF WrapInv

LEMMA NestingWrap ==
  ASSUME IInv, IInv', NestInv, WrapInv,
         (\E q, r \in Queries : Open(q, r)) \/ BeginSub \/ CommitSub \/ Raise \/ Aborted \/ ResetStats
  PROVE  WrapInv'
<1>1. /\ status # "error" /\ pc.at = "idle" /\ pc' = pc
      /\ UNCHANGED <<session, expr, timing, context>>
  <2>1. pc.at = "idle"
    BY DEF Open, BeginSub, CommitSub, Raise, Aborted, ResetStats, Ready, IInv, CompileInv
  <2> QED
    BY <2>1 DEF Open, BeginSub, CommitSub, Raise, Aborted, ResetStats, Ready
<1>2. \A i \in Evals' : i \in Evals /\ stack'[i] = stack[i]
  <2>1. CASE stack' = stack
    BY <2>1 DEF Evals
  <2>2. CASE BeginSub
    <3>1. SubFrame \in Frame /\ SubFrame.kind = "sub" /\ stack' = Append(stack, SubFrame)
      BY <2>2 DEF BeginSub, SubFrame, Frame
    <3>2. Evals' = Evals /\ \A i \in 1..Len(stack) : stack'[i] = stack[i]
      BY <3>1, Pushed DEF NestInv, StackInv
    <3> QED
      BY <3>2 DEF Evals
  <2>3. CASE CommitSub
    <3>0. PICK m : m = Len(stack) - 1
      OBVIOUS
    <3>1. m \in 0..Len(stack) /\ stack' = SubSeq(stack, 1, m)
      BY <2>3, <3>0 DEF CommitSub, NestInv, StackInv
    <3>2. Evals' = {i \in Evals : i <= m} /\ \A i \in 1..m : stack'[i] = stack[i]
      BY <3>1, Cut DEF NestInv, StackInv
    <3>3. \A i \in 1..Len(stack) : i <= m => i \in 1..m
      BY <3>1
    <3> QED
      BY <3>2, <3>3 DEF Evals
  <2> QED
    BY <2>1, <2>2, <2>3 DEF Open, Raise, Aborted, ResetStats
<1>3. \A q \in Queries :
            \/ query'[q].state = query[q].state /\ query'[q].jit = query[q].jit
            \/ query[q].state = "new" /\ query'[q].state = "open"
  <2>1. CASE query' = query
    BY <2>1
  <2>2. CASE CommitSub
    BY <2>2 DEF CommitSub, IInv, Types, AreQueries, IsQuery
  <2>3. ASSUME NEW q \in Queries, NEW r \in Queries, Open(q, r)
        PROVE  \A p \in Queries :
            \/ query'[p].state = query[p].state /\ query'[p].jit = query[p].jit
            \/ query[p].state = "new" /\ query'[p].state = "open"
    BY <2>3 DEF Open, IInv, Types, AreQueries
  <2> QED
    BY <2>1, <2>2, <2>3 DEF BeginSub, Raise, Aborted, ResetStats
<1> QED
  BY <1>1, <1>2, <1>3, OtherWrap

LEMMA StepWrap == IInv /\ IInv' /\ NestInv /\ WrapInv /\ [Next]_vars => WrapInv'
<1> SUFFICES ASSUME IInv, IInv', NestInv, WrapInv, [Next]_vars PROVE WrapInv'
  OBVIOUS
<1>1. CASE (\E q, r \in Queries : Open(q, r)) \/ BeginSub \/ CommitSub \/ Raise \/ Aborted \/ ResetStats
  BY <1>1, NestingWrap
<1>2. CASE \E q \in Queries : Close(q)
  BY <1>2, CloseWrap
<1>3. CASE Unwind
  BY <1>3, UnwindWrap
<1>4. CASE \E o \in Queries, c \in Contexts : ReleaseByOwner(o, c)
  BY <1>4, ReleaseByOwnerWrap
<1>5. CASE \E e \in Exprs, b \in Backends : GetContext(e, b)
  BY <1>5, GetContextWrap
<1>6. CASE Setup \/ Generate \/ Register \/ Install
  BY <1>6, CompileWrap
<1>7. CASE Wrap
  BY <1>7, WrapWrap
<1>8. CASE \E e \in Exprs : Evaluate(e)
  BY <1>8, EvaluateWrap
<1>9. CASE Return
  BY <1>9, ReturnWrap
<1>10. CASE UNCHANGED vars
  <2>1. Evals' = Evals /\ SubsOpen' = SubsOpen
    BY <1>10 DEF vars, Evals, SubsOpen
  <2>2. CompilePlace' /\ FramesTimed' /\ Installed'
    <3>1. CompilePlace'
      BY <1>10, <2>1 DEF vars, WrapInv, CompilePlace, MayStart, Running
    <3>2. FramesTimed'
      BY <1>10, <2>1 DEF vars, WrapInv, FramesTimed, InList
    <3>3. Installed'
      BY <1>10, <2>1 DEF vars, WrapInv, Installed, InList, Condemned, MayStart, Running
    <3> QED
      BY <3>1, <3>2, <3>3
  <2>3. Listed' /\ TimingInv'
    BY <1>10 DEF vars, WrapInv, Listed, TimingInv
  <2> QED
    BY <2>2, <2>3 DEF WrapInv
<1> QED
  BY <1>1, <1>2, <1>3, <1>4, <1>5, <1>6, <1>7, <1>8, <1>9, <1>10 DEF Next

\* How evaluations nest over queries, subtransactions and resource owners,
\* which decides what an ERROR takes along, and where the timing contexts are.
THEOREM NestingInvariant == Spec => [](IInv /\ NestInv /\ WrapInv)
<1>1. Init => IInv /\ NestInv /\ WrapInv
  BY InitOwned, InitNest, InitWrap
<1>2. IInv /\ NestInv /\ WrapInv /\ [Next]_vars => (IInv /\ NestInv /\ WrapInv)'
  BY StepOwned, StepNest, StepWrap
<1> QED
  BY <1>1, <1>2, PTL DEF Spec

\* The wrapper that meta_install_timing_wrapper puts in front of the code never
\* writes to a timing context that meta_release_context has freed: not after an
\* ERROR, nor when an expression that is evaluated runs other queries.
THEOREM WrapperLive == Spec => []WrapperIsLive
<1>1. IInv /\ NestInv /\ WrapInv => WrapperIsLive
  <2> SUFFICES ASSUME NestInv, WrapInv, status = "normal", NEW e \in Exprs,
                      expr[e].wrapped \/ EvalFrame(e, TRUE) \in Range(stack)
               PROVE  timing[e].state = "active" /\ e \in context[Jit(e)].timings
    BY DEF WrapperIsLive
  <2>1. CASE expr[e].wrapped
    BY <2>1 DEF WrapInv, Installed, Condemned, InList
  <2>2. CASE EvalFrame(e, TRUE) \in Range(stack)
    <3>1. PICK i \in DOMAIN stack : stack[i] = EvalFrame(e, TRUE)
      BY <2>2 DEF Range
    <3>2. i \in Evals /\ stack[i].expr = e /\ stack[i].wrapped
      BY <3>1 DEF Evals, EvalFrame, NestInv, StackInv
    <3> QED
      BY <3>2 DEF WrapInv, FramesTimed, InList
  <2> QED
    BY <2>1, <2>2
<1> QED
  BY <1>1, NestingInvariant, PTL

-----------------------------------------------------------------------------
(* The statistics.                                                         *)

Actives(b) == {e \in Exprs : timing[e].state = "active" /\ timing[e].backend = b}

CountInv ==
    /\ stats \in [Backends -> Nat] /\ timed \in [Backends -> Nat]
    /\ IsFiniteSet({e \in Exprs : timing[e].state = "active"})
    /\ \A b \in Backends : timed[b] = stats[b] + SumFunctionOnSet(Counts, Actives(b))

LEMMA ActivesCount ==
  ASSUME TimingInv, CountInv, NEW b
  PROVE  /\ IsFiniteSet(Actives(b)) /\ Actives(b) \in SUBSET Exprs
         /\ \A e \in Exprs : Counts[e] = timing[e].count /\ Counts[e] \in Nat
         /\ SumFunctionOnSet(Counts, Actives(b)) \in Nat
<1>1. Actives(b) \in SUBSET {e \in Exprs : timing[e].state = "active"}
  BY DEF Actives
<1>2. IsFiniteSet(Actives(b))
  BY <1>1, FS_Subset DEF CountInv
<1>3. \A e \in Exprs : Counts[e] = timing[e].count /\ Counts[e] \in Nat
  BY DEF Counts, TimingInv, TimingRecords
<1>4. SumFunctionOnSet(Counts, Actives(b)) \in Nat
  <2>1. \A x \in Actives(b) : Counts[x] \in Nat
    BY <1>3 DEF Actives
  <2>2. Actives(b) \in SUBSET Actives(b)
    OBVIOUS
  <2> HIDE DEF Actives
  <2> QED
    BY <1>2, <2>1, <2>2, SumType
<1> QED
  BY <1>1, <1>2, <1>3, <1>4

LEMMA InitCount == Init => CountInv
<1> SUFFICES ASSUME Init PROVE CountInv
  OBVIOUS
<1>1. /\ \A e \in Exprs : timing[e].state = "none"
      /\ stats = [b \in Backends |-> 0] /\ timed = [b \in Backends |-> 0]
  BY DEF Init, NoTiming
<1>2. {e \in Exprs : timing[e].state = "active"} = {} /\ \A b : Actives(b) = {}
  BY <1>1 DEF Actives
<1>3. \A b \in Backends : SumFunctionOnSet(Counts, Actives(b)) = 0
  BY <1>2, SumEmpty
<1>4. IsFiniteSet({e \in Exprs : timing[e].state = "active"})
  BY <1>2, FS_EmptySet
<1>5. /\ stats \in [Backends -> Nat] /\ timed \in [Backends -> Nat]
      /\ \A b \in Backends : stats[b] = 0 /\ timed[b] = 0
  BY <1>1
<1>6. \A b \in Backends : timed[b] = stats[b] + SumFunctionOnSet(Counts, Actives(b))
  BY <1>3, <1>5
<1> QED
  BY <1>4, <1>5, <1>6 DEF CountInv

LEMMA SameCount ==
  ASSUME CountInv, UNCHANGED <<timing, stats, timed>>
  PROVE  CountInv'
<1>1. Counts' = Counts
  BY DEF Counts
<1>2. \A b : Actives(b)' = Actives(b)
  BY DEF Actives
<1> QED
  BY <1>1, <1>2 DEF CountInv

\* meta_release_context adds what the wrappers of the context have counted.
LEMMA FreeCount ==
  ASSUME IInv, WrapInv, CountInv, WrapInv', NEW c \in Contexts, FreeContents(c), UNCHANGED <<session, timed>>
  PROVE  CountInv'
<1>1. /\ \A e \in Exprs : IF e \in context[c].timings THEN timing'[e] = NoTiming
                          ELSE timing'[e] = timing[e]
      /\ context[c].timings \in SUBSET Exprs
  BY FreedTimings
<1>2. stats' = [b \in Backends |-> stats[b] + Flushed(c, b)]
  BY DEF FreeContents
<1>3. NoTiming.state = "none"
  BY DEF NoTiming
<1>4. IsFiniteSet({e \in Exprs : timing'[e].state = "active"})
  <2>1. {e \in Exprs : timing'[e].state = "active"}
            \in SUBSET {e \in Exprs : timing[e].state = "active"}
    BY <1>1, <1>3
  <2> QED
    BY <2>1, FS_Subset DEF CountInv
<1>5. ASSUME NEW b \in Backends
      PROVE  /\ Flushed(c, b) \in Nat
             /\ timed[b] = stats[b] + Flushed(c, b) + SumFunctionOnSet(Counts', Actives(b)')
  <2>1. /\ IsFiniteSet(Actives(b)) /\ Actives(b) \in SUBSET Exprs
        /\ \A e \in Exprs : Counts[e] = timing[e].count /\ Counts[e] \in Nat
        /\ SumFunctionOnSet(Counts, Actives(b)) \in Nat
    BY ActivesCount DEF WrapInv
  <2>2. /\ timed[b] = stats[b] + SumFunctionOnSet(Counts, Actives(b))
        /\ timed[b] \in Nat /\ stats[b] \in Nat
    BY DEF CountInv
  <2>3. /\ Actives(b)' = Actives(b) \ Pending(c, b) /\ Pending(c, b) \in SUBSET Actives(b)
        /\ \A e \in Actives(b)' : timing'[e] = timing[e]
    BY <1>1, <1>3 DEF Actives, Pending
  <2>4. \A e \in Actives(b)' : Counts[e] = Counts'[e] /\ Counts[e] \in Nat
    BY <2>1, <2>3 DEF Counts
  <2>5. IsFiniteSet(Actives(b)') /\ IsFiniteSet(Pending(c, b))
    <3>1. Actives(b)' \in SUBSET Actives(b)
      BY <2>3
    <3> QED
      BY <2>1, <2>3, <3>1, FS_Subset
  <2>6. SumFunctionOnSet(Counts', Actives(b)') = SumFunctionOnSet(Counts, Actives(b)')
    <3>1. PICK S : S = Actives(b)'
      OBVIOUS
    <3>2. PICK h : h = Counts'
      OBVIOUS
    <3>3. IsFiniteSet(S) /\ \A e \in S : Counts[e] = h[e] /\ Counts[e] \in Nat
      BY <2>4, <2>5, <3>1, <3>2
    <3>4. SumFunctionOnSet(Counts, S) = SumFunctionOnSet(h, S)
      BY <3>3, SumSame
    <3> QED
      BY <3>1, <3>2, <3>4
  <2>7. /\ SumFunctionOnSet(Counts, Actives(b))
             = SumFunctionOnSet(Counts, Pending(c, b)) + SumFunctionOnSet(Counts, Actives(b)')
        /\ SumFunctionOnSet(Counts, Pending(c, b)) \in Nat
        /\ SumFunctionOnSet(Counts, Actives(b)') \in Nat
    <3>1. PICK S : S = Pending(c, b)
      OBVIOUS
    <3>2. PICK T : T = Actives(b)'
      OBVIOUS
    <3>3. /\ S \cap T = {} /\ S \cup T = Actives(b)
          /\ IsFiniteSet(S) /\ IsFiniteSet(T)
          /\ \A x \in S \cup T : Counts[x] \in Nat
          /\ S \in SUBSET S /\ T \in SUBSET T
      BY <2>1, <2>3, <2>5, <3>1, <3>2
    <3>4. SumFunctionOnSet(Counts, S \cup T) = SumFunctionOnSet(Counts, S) + SumFunctionOnSet(Counts, T)
      BY <3>3, SumDisjoint
    <3>5. SumFunctionOnSet(Counts, S) \in Nat /\ SumFunctionOnSet(Counts, T) \in Nat
      BY <3>3, SumType
    <3> QED
      BY <3>1, <3>2, <3>3, <3>4, <3>5
  <2>8. CASE session.provider = "meta"
    <3>1. Flushed(c, b) = SumFunctionOnSet(Counts, Pending(c, b))
      BY <2>8 DEF Flushed
    <3> QED
      BY <2>2, <2>6, <2>7, <3>1
  <2>9. CASE session.provider # "meta"
    <3>1. Flushed(c, b) = 0
      BY <2>9 DEF Flushed
    <3>2. Actives(b) = {} /\ Actives(b)' = {}
      <4>1. Actives(b) = {}
        BY <2>9 DEF WrapInv, TimingInv, Actives
      <4> QED
        BY <2>3, <4>1
    <3> QED
      BY <2>2, <2>6, <3>1, <3>2
  <2> QED
    BY <2>8, <2>9
<1>6. stats' \in [Backends -> Nat]
  <2>1. \A b \in Backends : stats[b] + Flushed(c, b) \in Nat
    BY <1>5 DEF CountInv
  <2> QED
    BY <1>2, <2>1
<1>7. \A b \in Backends : timed'[b] = stats'[b] + SumFunctionOnSet(Counts', Actives(b)')
  BY <1>2, <1>5
<1>8. timed' \in [Backends -> Nat]
  BY DEF CountInv
<1> QED
  BY <1>4, <1>6, <1>7, <1>8 DEF CountInv

LEMMA WrapCount ==
  ASSUME IInv, WrapInv, CountInv, WrapInv', Wrap
  PROVE  CountInv'
<1>1. stats' = stats /\ timed' = timed
  BY DEF Wrap
<1>2. CASE timing' = timing
  BY <1>1, <1>2, SameCount
<1>3. CASE timing' = [timing EXCEPT ![pc.expr] =
                          [state |-> "active", count |-> 0, backend |-> pc.backend,
                           raw |-> FALSE]]
  <2>0. PICK e : e = pc.expr
    OBVIOUS
  <2>1. /\ e \in Exprs /\ timing[e].state = "none" /\ pc.backend \in Backends
    BY <2>0 DEF Wrap, Compiling, WrapInv, CompilePlace, IInv, CompileInv
  <2>2. /\ timing'[e].state = "active" /\ timing'[e].backend = pc.backend /\ timing'[e].count = 0
        /\ \A d \in Exprs : d # e => timing'[d] = timing[d]
    BY <1>3, <2>0, <2>1 DEF WrapInv, TimingInv
  <2>3. IsFiniteSet({d \in Exprs : timing'[d].state = "active"})
    <3>1. {d \in Exprs : timing'[d].state = "active"}
            = {d \in Exprs : timing[d].state = "active"} \cup {e}
      BY <2>1, <2>2
    <3>2. PICK A : A = {d \in Exprs : timing[d].state = "active"}
      OBVIOUS
    <3>3. IsFiniteSet(A)
      BY <3>2 DEF CountInv
    <3>4. IsFiniteSet(A \cup {e})
      BY <3>3, FS_AddElement
    <3> QED
      BY <3>1, <3>2, <3>4
  <2>4. ASSUME NEW b \in Backends
        PROVE  SumFunctionOnSet(Counts', Actives(b)') = SumFunctionOnSet(Counts, Actives(b))
    <3>1. /\ IsFiniteSet(Actives(b)) /\ Actives(b) \in SUBSET Exprs
          /\ \A d \in Exprs : Counts[d] = timing[d].count /\ Counts[d] \in Nat
          /\ SumFunctionOnSet(Counts, Actives(b)) \in Nat
      BY ActivesCount DEF WrapInv
    <3>2. /\ e \notin Actives(b)
          /\ Actives(b)' = IF b = pc.backend THEN Actives(b) \cup {e} ELSE Actives(b)
      BY <2>1, <2>2 DEF Actives
    <3>3. PICK h : h = Counts'
      OBVIOUS
    <3>4. (\A d \in Actives(b) : Counts[d] = h[d] /\ Counts[d] \in Nat) /\ h[e] = 0
      BY <2>1, <2>2, <3>1, <3>2, <3>3 DEF Counts
    <3>5. SumFunctionOnSet(Counts, Actives(b)) = SumFunctionOnSet(h, Actives(b))
      <4>1. PICK S : S = Actives(b)
        OBVIOUS
      <4>2. IsFiniteSet(S) /\ \A d \in S : Counts[d] = h[d] /\ Counts[d] \in Nat
        BY <3>1, <3>4, <4>1
      <4> QED
        BY <4>1, <4>2, SumSame
    <3>6. SumFunctionOnSet(h, Actives(b) \cup {e}) = SumFunctionOnSet(h, Actives(b)) + h[e]
      <4>1. PICK S : S = Actives(b)
        OBVIOUS
      <4>2. IsFiniteSet(S) /\ e \notin S /\ \A d \in S \cup {e} : h[d] \in Nat
        BY <3>1, <3>2, <3>4, <4>1
      <4> QED
        BY <4>1, <4>2, SumAdd
    <3>7. CASE b = pc.backend
      <4>1. Actives(b)' = Actives(b) \cup {e}
        BY <3>2, <3>7
      <4> QED
        BY <3>1, <3>3, <3>4, <3>5, <3>6, <4>1
    <3>8. CASE b # pc.backend
      <4>1. Actives(b)' = Actives(b)
        BY <3>2, <3>8
      <4> QED
        BY <3>3, <3>5, <4>1
    <3> QED
      BY <3>7, <3>8
  <2> QED
    BY <1>1, <2>3, <2>4 DEF CountInv
<1> QED
  BY <1>2, <1>3 DEF Wrap

LEMMA ReturnCount ==
  ASSUME IInv, NestInv, WrapInv, CountInv, Return
  PROVE  CountInv'
<1>0. PICK n : n = Len(stack)
  OBVIOUS
<1>1. n \in Evals
  <2>1. n \in 1..n
    BY <1>0 DEF Return, NestInv, StackInv
  <2> QED
    BY <1>0, <2>1 DEF Return, Evals
<1>2. PICK e \in Exprs : e = stack[n].expr
  BY <1>1 DEF NestInv, StackInv
<1>3. CASE ~stack[n].wrapped
  <2>1. UNCHANGED <<timing, stats, timed>>
    BY <1>0, <1>3 DEF Return
  <2> QED
    BY <2>1, SameCount
<1>4. CASE stack[n].wrapped
  <2>1. PICK m : m = timing[e].count + 1
    OBVIOUS
  <2>2. PICK a : a = timing[e].backend
    OBVIOUS
  <2>3. /\ timing[e].state = "active" /\ a \in Backends /\ timing[e].count \in Nat /\ m \in Nat
        /\ timing \in [Exprs -> TimingRecords]
    BY <1>1, <1>2, <1>4, <2>1, <2>2 DEF WrapInv, FramesTimed, TimingInv, TimingRecords
  <2>4. /\ timed' = [timed EXCEPT ![a] = @ + 1]
        /\ timing' = [timing EXCEPT ![e].count = m,
                                    ![e].raw   = expr[e].fn = "raw",
                                    ![e].state = IF Unfinished(m) THEN @ ELSE "done"]
        /\ stats' = IF Unfinished(m) THEN stats ELSE [stats EXCEPT ![a] = @ + m]
    BY <1>0, <1>2, <1>4, <2>1, <2>2 DEF Return
  <2>5. /\ \A d \in Exprs : d # e => timing'[d] = timing[d]
        /\ timing'[e].count = m /\ timing'[e].backend = a
        /\ timing'[e].state = IF Unfinished(m) THEN "active" ELSE "done"
    <3>1. PICK s \in {"active", "done"} :
            s = IF Unfinished(m) THEN timing[e].state ELSE "done"
      BY <2>3
    <3>2. PICK r : r = (expr[e].fn = "raw")
      OBVIOUS
    <3> DEFINE t == [[[timing[e] EXCEPT !.count = m] EXCEPT !.raw = r] EXCEPT !.state = s]
    <3>3. t.count = m /\ t.state = s /\ t.backend = timing[e].backend
      BY <2>3 DEF TimingRecords
    <3>4. timing' = [timing EXCEPT ![e] = t]
      BY <2>3, <2>4, <3>1, <3>2 DEF TimingRecords
    <3> HIDE DEF t
    <3>5. timing'[e] = t /\ \A d \in Exprs : d # e => timing'[d] = timing[d]
      BY <2>3, <3>4
    <3> QED
      BY <2>2, <2>3, <3>1, <3>3, <3>5
  <2>6. IsFiniteSet({d \in Exprs : timing'[d].state = "active"})
    <3>1. {d \in Exprs : timing'[d].state = "active"}
            \in SUBSET {d \in Exprs : timing[d].state = "active"}
      BY <2>3, <2>5
    <3> QED
      BY <3>1, FS_Subset DEF CountInv
  <2>7. /\ stats \in [Backends -> Nat] /\ timed \in [Backends -> Nat]
        /\ \A b \in Backends : timed[b] = stats[b] + SumFunctionOnSet(Counts, Actives(b))
    BY DEF CountInv
  <2>8. stats' \in [Backends -> Nat] /\ timed' \in [Backends -> Nat]
    <3>1. timed[a] + 1 \in Nat /\ stats[a] + m \in Nat
      BY <2>3, <2>7
    <3> QED
      BY <2>3, <2>4, <2>7, <3>1
\* What the wrappers other than that of e have counted stays.
  <2>9. ASSUME NEW b \in Backends
        PROVE  /\ SumFunctionOnSet(Counts', Actives(b) \ {e}) = SumFunctionOnSet(Counts, Actives(b) \ {e})
               /\ SumFunctionOnSet(Counts, Actives(b) \ {e}) \in Nat
               /\ e \in Actives(b) =>
                    /\ SumFunctionOnSet(Counts, Actives(b))
                            = timing[e].count + SumFunctionOnSet(Counts, Actives(b) \ {e})
                    /\ SumFunctionOnSet(Counts', Actives(b))
                            = m + SumFunctionOnSet(Counts, Actives(b) \ {e})
    <3>1. /\ IsFiniteSet(Actives(b)) /\ Actives(b) \in SUBSET Exprs
          /\ \A d \in Exprs : Counts[d] = timing[d].count /\ Counts[d] \in Nat
      BY ActivesCount DEF WrapInv
    <3>2. PICK S : S = Actives(b)
      OBVIOUS
    <3>3. PICK h : h = Counts'
      OBVIOUS
    <3>4. (\A d \in S : d # e => h[d] = Counts[d]) /\ h[e] = m
      BY <2>3, <2>5, <3>1, <3>2, <3>3 DEF Counts
    <3>5. (\A d \in S : h[d] \in Nat /\ Counts[d] \in Nat) /\ S \in SUBSET S /\ S \ {e} \in SUBSET S
      BY <2>3, <3>1, <3>2, <3>4
    <3>6. IsFiniteSet(S) /\ IsFiniteSet(S \ {e})
      BY <3>1, <3>2, FS_RemoveElement
    <3>7. SumFunctionOnSet(Counts, S \ {e}) = SumFunctionOnSet(h, S \ {e})
      <4>1. \A d \in S \ {e} : Counts[d] = h[d] /\ Counts[d] \in Nat
        BY <3>4, <3>5
      <4> QED
        BY <3>6, <4>1, SumSame
    <3>8. SumFunctionOnSet(Counts, S \ {e}) \in Nat
      BY <3>5, <3>6, SumType
    <3>9. e \in S => /\ SumFunctionOnSet(Counts, S) = Counts[e] + SumFunctionOnSet(Counts, S \ {e})
                     /\ SumFunctionOnSet(h, S) = h[e] + SumFunctionOnSet(h, S \ {e})
      BY <3>5, <3>6, SumPick
    <3> QED
      BY <3>1, <3>2, <3>3, <3>4, <3>7, <3>8, <3>9
  <2>10. \A b \in Backends : e \in Actives(b) <=> b = a
    BY <2>2, <2>3 DEF Actives
  <2>11. ASSUME NEW b \in Backends
         PROVE  timed'[b] = stats'[b] + SumFunctionOnSet(Counts', Actives(b)')
    <3>1. timed[b] = stats[b] + SumFunctionOnSet(Counts, Actives(b)) /\ stats[b] \in Nat
      BY <2>7
    <3>2. CASE b # a
      <4>1. timed'[b] = timed[b] /\ stats'[b] = stats[b]
        BY <2>4, <2>7, <3>2
      <4>2. Actives(b)' = Actives(b)
        BY <2>2, <2>5, <2>3, <3>2 DEF Actives
      <4>3. Actives(b) \ {e} = Actives(b)
        BY <2>10, <3>2
      <4> QED
        BY <2>9, <3>1, <4>1, <4>2, <4>3
    <3>3. CASE b = a /\ Unfinished(m)
      <4>1. timed'[b] = timed[b] + 1 /\ stats'[b] = stats[b]
        BY <2>4, <2>7, <3>3
      <4>2. Actives(b)' = Actives(b)
        BY <2>2, <2>5, <2>3, <3>3 DEF Actives
      <4>3. e \in Actives(b)
        BY <2>10, <3>3
      <4>4. /\ SumFunctionOnSet(Counts, Actives(b) \ {e}) \in Nat
            /\ SumFunctionOnSet(Counts, Actives(b))
                            = timing[e].count + SumFunctionOnSet(Counts, Actives(b) \ {e})
            /\ SumFunctionOnSet(Counts', Actives(b)')
                            = m + SumFunctionOnSet(Counts, Actives(b) \ {e})
        BY <2>9, <4>2, <4>3
      <4> QED
        BY <2>1, <2>3, <3>1, <4>1, <4>4
    <3>4. CASE b = a /\ ~Unfinished(m)
      <4>1. timed'[b] = timed[b] + 1 /\ stats'[b] = stats[b] + m
        BY <2>4, <2>7, <3>4
      <4>2. Actives(b)' = Actives(b) \ {e}
        BY <2>2, <2>5, <2>3, <3>4 DEF Actives
      <4>3. e \in Actives(b)
        BY <2>10, <3>4
      <4>4. /\ SumFunctionOnSet(Counts, Actives(b) \ {e}) \in Nat
            /\ SumFunctionOnSet(Counts, Actives(b))
                            = timing[e].count + SumFunctionOnSet(Counts, Actives(b) \ {e})
            /\ SumFunctionOnSet(Counts', Actives(b)')
                            = SumFunctionOnSet(Counts, Actives(b) \ {e})
        BY <2>9, <4>2, <4>3
      <4> QED
        BY <2>1, <2>3, <3>1, <4>1, <4>4
    <3> QED
      BY <3>2, <3>3, <3>4
  <2> QED
    BY <2>6, <2>8, <2>11 DEF CountInv
<1> QED
  BY <1>3, <1>4

LEMMA ResetCount ==
  ASSUME WrapInv, CountInv, ResetStats
  PROVE  CountInv'
<1>1. /\ stats' = [b \in Backends |-> 0] /\ timed' = [b \in Backends |-> timed[b] - stats[b]]
      /\ timing' = timing
  BY DEF ResetStats
<1>2. Counts' = Counts /\ \A b : Actives(b)' = Actives(b)
  BY <1>1 DEF Counts, Actives
<1>3. \A b \in Backends : timed'[b] = SumFunctionOnSet(Counts, Actives(b)) /\ timed'[b] \in Nat
  <2> SUFFICES ASSUME NEW b \in Backends
               PROVE  timed'[b] = SumFunctionOnSet(Counts, Actives(b)) /\ timed'[b] \in Nat
    OBVIOUS
  <2>1. SumFunctionOnSet(Counts, Actives(b)) \in Nat
    BY ActivesCount DEF WrapInv
  <2>2. /\ timed[b] = stats[b] + SumFunctionOnSet(Counts, Actives(b))
        /\ stats[b] \in Nat
    BY DEF CountInv
  <2>3. timed'[b] = timed[b] - stats[b]
    BY <1>1
  <2> QED
    BY <2>1, <2>2, <2>3
<1>4. stats' \in [Backends -> Nat] /\ \A b \in Backends : stats'[b] = 0
  BY <1>1
<1>5. timed' \in [Backends -> Nat]
  BY <1>1, <1>3
<1>6. \A b \in Backends : timed'[b] = stats'[b] + SumFunctionOnSet(Counts, Actives(b))
  BY <1>3, <1>4
<1> QED
  BY <1>1, <1>2, <1>4, <1>5, <1>6 DEF CountInv

LEMMA StepCount == IInv /\ NestInv /\ WrapInv /\ WrapInv' /\ CountInv /\ [Next]_vars => CountInv'
<1> SUFFICES ASSUME IInv, NestInv, WrapInv, WrapInv', CountInv, [Next]_vars PROVE CountInv'
  OBVIOUS
<1>1. CASE UNCHANGED <<timing, stats, timed>>
  BY <1>1, SameCount
<1>2. CASE \E q \in Queries : Close(q)
  <2>1. PICK q \in Queries : Close(q)
    BY <1>2
  <2>2. CASE query[q].jit = None
    BY <1>1, <2>1, <2>2 DEF Close
  <2>3. CASE query[q].jit # None
    <3>1. PICK c \in Contexts : c = query[q].jit
      BY <2>3 DEF IInv, Types, AreQueries, IsQuery
    <3>2. FreeContents(c) /\ UNCHANGED <<session, timed>>
      BY <2>1, <2>3, <3>1 DEF Close
    <3> QED
      BY <3>2, FreeCount
  <2> QED
    BY <2>2, <2>3
<1>3. CASE \E o \in Queries, c \in Contexts : ReleaseByOwner(o, c)
  <2>1. PICK c \in Contexts : FreeContents(c) /\ UNCHANGED <<session, timed>>
    BY <1>3 DEF ReleaseByOwner
  <2> QED
    BY <2>1, FreeCount
<1>4. CASE Wrap \/ Return \/ ResetStats
  BY <1>4, WrapCount, ReturnCount, ResetCount
<1>5. CASE \E q, r \in Queries : Open(q, r)
  BY <1>1, <1>5 DEF Open
<1>6. CASE \E e \in Exprs, b \in Backends : GetContext(e, b)
  BY <1>1, <1>6 DEF GetContext
<1>7. CASE \E e \in Exprs : Evaluate(e)
  BY <1>1, <1>7 DEF Evaluate
<1>8. CASE BeginSub \/ CommitSub \/ Raise \/ Unwind \/ Aborted
  BY <1>1, <1>8 DEF BeginSub, CommitSub, Raise, Unwind, Aborted
<1>9. CASE Setup \/ Generate \/ Register \/ Install
  BY <1>1, <1>9 DEF Setup, Generate, Register, Install
<1>10. CASE UNCHANGED vars
  BY <1>1, <1>10 DEF vars
<1> QED
  BY <1>2, <1>3, <1>4, <1>5, <1>6, <1>7, <1>8, <1>9, <1>10 DEF Next

\* Every call that a timing wrapper has counted reaches the statistics once,
\* when it has its samples or when meta_release_context flushes it.
THEOREM CountingInvariant == Spec => []CountInv
<1>1. Init => CountInv
  BY InitCount
<1>2. (IInv /\ NestInv /\ WrapInv) /\ (IInv /\ NestInv /\ WrapInv)' /\ CountInv /\ [Next]_vars => CountInv'
  BY StepCount
<1> QED
  BY <1>1, <1>2, NestingInvariant, PTL DEF Spec

\* Each call that a wrapper has timed is in the adaptive statistics of its
\* backend exactly once, or still in the timing context of its wrapper, also
\* when an ERROR or the end of its query takes the wrapper away
\* (meta_adaptive_timing_wrapper, meta_release_context).
THEOREM CountedAlways == Spec => []CountedOnce
<1>1. CountInv => CountedOnce
  BY DEF CountInv, CountedOnce, Actives
<1> QED
  BY <1>1, CountingInvariant, PTL

\* Every variable keeps its type; what is in the timing contexts and how deep
\* evaluations nest needs the invariants above (meta_adaptive_timing_wrapper stops the
\* count at the number of samples).
THEOREM TypeCorrect == Spec => []TypeOK
<1>1. (IInv /\ NestInv /\ WrapInv) /\ CountInv => TypeOK
  <2> SUFFICES ASSUME IInv, NestInv, WrapInv, CountInv PROVE TypeOK
    OBVIOUS
  <2>1. query \in [Queries -> [state : {"new", "open", "closed"}, owner : Queries, subs : Nat,
                               at : Nat, jit : Contexts \cup {None}]]
    <3>1. ASSUME NEW q \in Queries
          PROVE  query[q] \in [state : {"new", "open", "closed"}, owner : Queries, subs : Nat,
                               at : Nat, jit : Contexts \cup {None}]
      <4>1. IsQuery(query[q]) /\ query[q].subs \in Nat /\ query[q].at \in Nat
        BY DEF IInv, Types, AreQueries, NestInv, Counters
      <4> QED
        BY <4>1 DEF IsQuery
    <3> QED
      BY <3>1 DEF IInv, Types, AreQueries
  <2>2. stack \in Seq(Frame) /\ stats \in [Backends -> Nat] /\ timed \in [Backends -> Nat]
    BY DEF NestInv, StackInv, CountInv
  <2>3. timing \in [Exprs -> TimingRecords]
    BY DEF WrapInv, TimingInv
  <2> QED
    BY <2>1, <2>2, <2>3 DEF TypeOK, IInv, Types, OwnerRecords, ContextRecords, PcRecords,
                            ExprRecords, TimingRecords
<1> QED
  BY <1>1, NestingInvariant, CountingInvariant, PTL
=============================================================================
