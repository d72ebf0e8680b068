-------------------------- MODULE SharedCodeProofs --------------------------
(***************************************************************************)
(* Every variable of SharedCode keeps its type.  The types alone are not   *)
(* inductive: a step of the leader reads Plan[lq] at ordinal[lq], a lookup *)
(* reads an entry by an index, and both stay in range only because of      *)
(* where the processes are.  ControlInv adds that: where the leader is and *)
(* what it has then (LeaderAt), the same for each worker (WorkerAt), and   *)
(* how many entries are in memory (MemoryAt).  Each action preserves it,   *)
(* in a lemma of its own.  On top of ControlInv, from the second half on:  *)
(* each safety property of SharedCode for any number of queries, workers,  *)
(* segments and expressions, and that SharedCode implements CodeStore.     *)
(***************************************************************************)
EXTENDS SharedCode, SequenceTheorems, SumTheorems, TLAPS

\* Where the leader is inside compile_expr, and inside store_shared_code.
Compiling == {"init", "deform", "generate", "lock", "full", "write", "copy",
              "count", "unlock", "register"}
Storing == {"lock", "full", "write", "copy", "count", "unlock"}

\* Where a worker is inside compile_expr, and uses a segment there.
WCompiling == {"attach", "lock", "scan", "unlock", "absent", "use", "local"}
WFinding == {"lock", "scan", "unlock", "use"}

LeaderAt ==
    /\ \A q \in Queries : ordinal[q] <= Len(Plan[q])
    /\ lpc \in Compiling => status[lq] = "running" /\ ordinal[lq] > 0
    /\ lpc = "error" => status[lq] = "running"
    /\ lpc \in Storing => LSeg \in Handles

WorkerAt ==
    \A w \in Workers :
        /\ wpc[w] \in WCompiling =>
                /\ wk[w] <= Len(WPlan[wq[w]])
                /\ wordinal[w][WCtx(w)] > 0
        /\ wpc[w] \in WFinding => WSeg(w) \in Handles
        /\ wpc[w] = "attach" => wseen[w] \in Handles /\ WSeg(w) = NoHandle

\* The leader has begun an entry in segment h and not counted it.
Writing(h) == LSeg = h /\ lpc \in {"copy", "count"}

\* The entries are at least as many as num_entries says, one more while one is
\* being written; a worker that found an entry points to one of them.
MemoryAt ==
    /\ \A h \in Handles : Len(entries[h]) =
            IF Writing(h) THEN num[h] + 1 ELSE num[h]
    /\ \A h \in Handles \ made : num[h] = 0
    /\ \A q \in Queries : share[q] \in made \cup {NoHandle}
    /\ \A w \in Workers :
        /\ wpc[w] \notin {"unlock", "use"} => wfound[w] = 0
        /\ wpc[w] \in {"unlock", "use"} => wfound[w] <= num[WSeg(w)]
        /\ wpc[w] = "use" => wfound[w] # 0

ControlInv == TypeOK /\ LeaderAt /\ WorkerAt /\ MemoryAt

LEMMA ControlInit == Init => ControlInv
  BY SharedCodeAssumption
  DEF Init, ControlInv, TypeOK, SegTypeOK, LeadTypeOK, WorkTypeOK, LeaderAt,
      WorkerAt, MemoryAt, Segments, Compiling, Storing, WCompiling, WFinding,
      LeaderPcs, WorkerPcs, Codes, Exprs, Writing

LEMMA ExprType ==
    ASSUME ControlInv, lpc \in Compiling
    PROVE  Expr \in Exprs
  <1>1. lq \in Queries /\ ordinal[lq] \in Nat
    BY DEF ControlInv, TypeOK, LeadTypeOK, WorkTypeOK
  <1>2. Plan[lq] \in Seq(Exprs)
    BY <1>1, SharedCodeAssumption
  <1>3. ordinal[lq] > 0 /\ ordinal[lq] <= Len(Plan[lq])
    BY <1>1 DEF ControlInv, LeaderAt
  <1> HIDE DEF Exprs
  <1> QED
    BY <1>1, <1>2, <1>3 DEF Expr

LEMMA WItemType ==
    ASSUME ControlInv, NEW w \in Workers, wpc[w] \in WCompiling
    PROVE  /\ WExpr(w) \in Exprs
           /\ WCtx(w) \in WContexts
  <1> DEFINE Items == [ctx : WContexts, expr : Exprs]
  <1>1. wq[w] \in Queries /\ wk[w] \in Nat \ {0}
    BY DEF ControlInv, TypeOK, LeadTypeOK, WorkTypeOK
  <1>2. WPlan[wq[w]] \in Seq(Items)
    BY <1>1, SharedCodeAssumption
  <1>3. wk[w] <= Len(WPlan[wq[w]])
    BY <1>1 DEF ControlInv, WorkerAt
  <1> HIDE DEF Items
  <1>4. WItem(w) \in Items
    BY <1>1, <1>2, <1>3 DEF WItem
  <1> USE DEF Items
  <1> QED
    BY <1>4 DEF WExpr, WCtx

LEMMA PlanLengths ==
    \A q \in Queries : Len(Plan[q]) \in Nat /\ Len(WPlan[q]) \in Nat
  BY SharedCodeAssumption


LEMMA BeginCompileStep ==
    ASSUME ControlInv, NEW q \in Queries, BeginCompile(q)
    PROVE  ControlInv'
  <1> USE DEF ControlInv, TypeOK, BeginCompile
  <1>1. SegTypeOK' /\ WorkTypeOK'
    BY DEF SegTypeOK, WorkTypeOK, LeadTypeOK, segVars, workVars
  <1>2. LeadTypeOK'
    BY DEF LeadTypeOK, LeaderPcs
  <1>3. LeaderAt'
    <2>1. ordinal[q] \in Nat /\ Len(Plan[q]) \in Nat
      BY PlanLengths DEF LeadTypeOK
    <2>2. lpc' \in {"init", "generate"} /\ status'[lq'] = "running"
      BY DEF LeadTypeOK
    <2>3. ordinal'[lq'] > 0
      BY <2>1 DEF LeadTypeOK
    <2>4. \A r \in Queries : ordinal'[r] <= Len(Plan[r])
      BY <2>1 DEF LeadTypeOK, LeaderAt
    <2> QED
      BY <2>2, <2>3, <2>4 DEF LeaderAt, Storing
  <1>4. WorkerAt' /\ MemoryAt'
    BY DEF WorkerAt, MemoryAt, Writing, WFinding, WSeg, WCtx, WItem, segVars,
           workVars
  <1> QED
    BY <1>1, <1>2, <1>3, <1>4

LEMMA InitSharedDsmStep ==
    ASSUME ControlInv, NEW h \in Handles, InitSharedDsm(h)
    PROVE  ControlInv'
  <1> USE DEF ControlInv, TypeOK, InitSharedDsm
  <1>1. SegTypeOK'
    BY SharedCodeAssumption DEF SegTypeOK
  <1>2. LeadTypeOK' /\ WorkTypeOK'
    BY DEF LeadTypeOK, WorkTypeOK, Segments, LeaderPcs, workVars
  <1>3. LeaderAt' /\ WorkerAt'
    BY DEF LeadTypeOK, LeaderAt, WorkerAt, Compiling, Storing, WSeg, WCtx,
           WItem, workVars
  <1>4. MemoryAt'
    <2>1. \A g \in Handles : num'[g] = num[g]
      BY DEF SegTypeOK, MemoryAt
    <2>2. \A w \in Workers : WSeg(w)' = WSeg(w) /\ wpc'[w] = wpc[w]
                                /\ wfound'[w] = wfound[w]
      BY DEF WSeg, WCtx, WItem, workVars
    <2>3. \A w \in Workers : wpc[w] \in {"unlock", "use"} => WSeg(w) \in Handles
      BY DEF WorkerAt, WFinding
    <2>4. \A p \in Queries : share'[p] \in made' \cup {NoHandle}
      BY DEF MemoryAt, LeadTypeOK
    <2>5. \A w \in Workers : wpc'[w] \in {"unlock", "use"} => wfound'[w] <= num'[WSeg(w)']
      BY <2>1, <2>2, <2>3 DEF MemoryAt
    <2>6. \A g \in Handles \ made' : num'[g] = 0
      BY <2>1 DEF MemoryAt
    <2>7. \A g \in Handles : Writing(g)' = Writing(g) /\ Writing(g) = FALSE
      BY DEF Writing
    <2> QED
      BY <2>1, <2>2, <2>4, <2>5, <2>6, <2>7 DEF MemoryAt
  <1> QED
    BY <1>1, <1>2, <1>3, <1>4

LEMMA CompileSharedDeformStep ==
    ASSUME ControlInv, CompileSharedDeform
    PROVE  ControlInv'
  <1> USE DEF ControlInv, TypeOK, CompileSharedDeform
  <1>1. Expr.deform \in Nat
    BY ExprType DEF Exprs, Compiling
  <1>2. SegTypeOK' /\ LeadTypeOK' /\ WorkTypeOK'
    BY <1>1 DEF SegTypeOK, LeadTypeOK, WorkTypeOK, LeaderPcs, workVars
  <1>3. LeaderAt' /\ WorkerAt' /\ MemoryAt'
    BY DEF LeadTypeOK, LeaderAt, WorkerAt, MemoryAt, Writing, Compiling, Storing,
           LSeg, WSeg, WCtx, WItem, workVars
  <1> QED
    BY <1>2, <1>3

\* store_shared_code writes the fields of a new entry, which is an entry.
LEMMA StoreWriteStep ==
    ASSUME ControlInv, StoreWrite
    PROVE  ControlInv'
  <1> DEFINE e == [node |-> LIdentity.node, idx |-> LIdentity.idx,
                   fp |-> LIdentity.fp, size |-> Expr.size, code |-> Partial]
  <1> USE DEF ControlInv, TypeOK
  <1>1. LSeg \in Handles /\ ordinal[lq] - 1 \in Nat
    BY DEF StoreWrite, LeadTypeOK, LeaderAt, Storing, Compiling
  <1>2. Expr \in Exprs
    BY ExprType DEF StoreWrite, Compiling
  <1>3. e \in EntrySet
    BY <1>1, <1>2 DEF EntrySet, Exprs, LIdentity, Codes
  <1>4. entries' = [entries EXCEPT ![LSeg] = Append(entries[LSeg], e)]
    BY DEF StoreWrite
  <1> HIDE DEF e
  <1>5. entries[LSeg] \in Seq(EntrySet)
    BY <1>1 DEF SegTypeOK
  <1>6. /\ Append(entries[LSeg], e) \in Seq(EntrySet)
        /\ Len(Append(entries[LSeg], e)) = Len(entries[LSeg]) + 1
    BY <1>3, <1>5
  <1>7. SegTypeOK'
    BY <1>1, <1>4, <1>6 DEF StoreWrite, SegTypeOK
  <1>8. LeadTypeOK' /\ WorkTypeOK' /\ LeaderAt' /\ WorkerAt'
    BY DEF StoreWrite, LeadTypeOK, WorkTypeOK, LeaderPcs, LeaderAt, WorkerAt,
           Compiling, Storing, LSeg, WSeg, WCtx, WItem, workVars
  <1>9. MemoryAt'
    <2>1. Len(entries[LSeg]) \in Nat /\ num[LSeg] \in Nat
      BY <1>1, <1>5 DEF SegTypeOK
    <2>2. \A h \in Handles : Len(entries'[h]) =
            IF h = LSeg THEN Len(entries[h]) + 1 ELSE Len(entries[h])
      BY <1>4, <1>6 DEF SegTypeOK
    <2>3. \A h \in Handles : ~Writing(h) /\ (Writing(h)' <=> h = LSeg)
      BY DEF Writing, StoreWrite, LSeg
    <2>4. LSeg' = LSeg /\ num' = num /\ share' = share /\ made' = made
      BY DEF StoreWrite, LSeg
    <2>5. \A w \in Workers : WSeg(w)' = WSeg(w) /\ wpc'[w] = wpc[w]
                                /\ wfound'[w] = wfound[w]
      BY DEF StoreWrite, WSeg, WCtx, WItem, workVars
    <2>6. \A h \in Handles : Len(entries'[h]) =
            IF Writing(h)' THEN num'[h] + 1 ELSE num'[h]
      BY <2>2, <2>3, <2>4 DEF MemoryAt
    <2> QED
      BY <2>4, <2>5, <2>6 DEF MemoryAt
  <1> QED
    BY <1>7, <1>8, <1>9

LEMMA StoreCopyStep ==
    ASSUME ControlInv, StoreCopy
    PROVE  ControlInv'
  <1> USE DEF ControlInv, TypeOK
  <1>1. LSeg \in Handles
    BY DEF StoreCopy, LeaderAt, Storing
  <1>2. Expr \in Exprs
    BY ExprType DEF StoreCopy, Compiling
  <1> DEFINE s == entries[LSeg]
             t == [s EXCEPT ![num[LSeg] + 1].code = Expr.fp]
  <1>3. s \in Seq(EntrySet) /\ Len(s) \in Nat /\ Len(s) = num[LSeg] + 1
    BY <1>1 DEF SegTypeOK, MemoryAt, Writing, StoreCopy
  <1>4. s[Len(s)] \in EntrySet
    BY <1>1, <1>3 DEF SegTypeOK
  <1>5. [s[Len(s)] EXCEPT !.code = Expr.fp] \in EntrySet
    BY <1>2, <1>4 DEF EntrySet, Exprs, Codes
  <1>6. t = [s EXCEPT ![Len(s)] = [s[Len(s)] EXCEPT !.code = Expr.fp]]
    BY <1>3
  <1>7. entries' = [entries EXCEPT ![LSeg] = t]
    BY DEF StoreCopy
  <1>8. t \in Seq(EntrySet) /\ Len(t) = Len(s)
    <2> DEFINE e == [s[Len(s)] EXCEPT !.code = Expr.fp]
    <2>1. Len(s) \in 1 .. Len(s) /\ e \in EntrySet
      BY <1>1, <1>3, <1>5 DEF SegTypeOK
    <2> HIDE DEF e, s
    <2>2. [s EXCEPT ![Len(s)] = e] \in Seq(EntrySet) /\ Len([s EXCEPT ![Len(s)] = e]) = Len(s)
      BY <1>3, <2>1, ExceptSeq
    <2> QED
      BY <1>6, <2>2 DEF e
  <1> HIDE DEF t
  <1>9. SegTypeOK'
    BY <1>1, <1>7, <1>8 DEF StoreCopy, SegTypeOK
  <1>10. LeadTypeOK' /\ WorkTypeOK' /\ LeaderAt' /\ WorkerAt'
    BY DEF StoreCopy, LeadTypeOK, WorkTypeOK, LeaderPcs, LeaderAt, WorkerAt,
           Compiling, Storing, LSeg, WSeg, WCtx, WItem, workVars
  <1>11. MemoryAt'
    <2>1. \A h \in Handles : Len(entries'[h]) = Len(entries[h])
      BY <1>1, <1>7, <1>8 DEF SegTypeOK
    <2> QED
      BY <1>1, <2>1
      DEF StoreCopy, MemoryAt, Writing, LSeg, WSeg, WCtx, WItem, workVars
  <1> QED
    BY <1>9, <1>10, <1>11

LEMMA StoreCountStep ==
    ASSUME ControlInv, StoreCount
    PROVE  ControlInv'
  <1> USE DEF ControlInv, TypeOK
  <1>1. LSeg \in Handles
    BY DEF StoreCount, LeaderAt, Storing
  <1>2. Expr.size \in Nat
    BY ExprType DEF StoreCount, Compiling, Exprs
  <1>3. SegTypeOK'
    BY <1>1, <1>2 DEF StoreCount, SegTypeOK
  <1>4. LeadTypeOK' /\ WorkTypeOK' /\ LeaderAt' /\ WorkerAt'
    BY DEF StoreCount, LeadTypeOK, WorkTypeOK, LeaderPcs, LeaderAt, WorkerAt,
           Compiling, Storing, LSeg, WSeg, WCtx, WItem, workVars
  <1>5. MemoryAt'
    <2>1. \A h \in Handles : ~Writing(h)' /\ (Writing(h) <=> h = LSeg)
      BY DEF Writing, StoreCount, LSeg
    <2>2. LSeg \in made
      BY <1>1, SharedCodeAssumption DEF MemoryAt, LSeg, LeadTypeOK
    <2>3. num' = [num EXCEPT ![LSeg] = num[LSeg] + 1]
      BY DEF StoreCount
    <2>4. \A h \in Handles : num'[h] >= num[h] /\ num'[h] = Len(entries[h])
      BY <1>1, <2>1, <2>3 DEF SegTypeOK, MemoryAt
    <2>5. \A w \in Workers :
            /\ WSeg(w)' = WSeg(w) /\ wpc'[w] = wpc[w] /\ wfound'[w] = wfound[w]
            /\ wpc[w] \in {"unlock", "use"} => WSeg(w) \in Handles
      BY DEF StoreCount, WSeg, WCtx, WItem, workVars, WorkerAt, WFinding
    <2>6. \A w \in Workers :
            wpc'[w] \in {"unlock", "use"} => wfound'[w] <= num'[WSeg(w)']
      <3> SUFFICES ASSUME NEW w \in Workers, wpc[w] \in {"unlock", "use"}
                   PROVE  wfound[w] <= num'[WSeg(w)]
        BY <2>5
      <3>1. WSeg(w) \in Handles
        BY <2>5
      <3>2. wfound[w] <= num[WSeg(w)] /\ num'[WSeg(w)] >= num[WSeg(w)]
        BY <2>4, <3>1 DEF MemoryAt
      <3>3. wfound[w] \in Nat /\ num[WSeg(w)] \in Nat /\ num'[WSeg(w)] \in Nat
        BY <1>3, <3>1 DEF SegTypeOK, WorkTypeOK
      <3> QED
        BY <3>2, <3>3
    <2>7. \A h \in Handles \ made' : num'[h] = 0
      BY <2>2, <2>3 DEF StoreCount, MemoryAt, SegTypeOK
    <2> QED
      BY <2>1, <2>4, <2>5, <2>6, <2>7 DEF StoreCount, MemoryAt
  <1> QED
    BY <1>3, <1>4, <1>5

LEMMA WBeginStep ==
    ASSUME ControlInv, NEW w \in Workers, WBegin(w)
    PROVE  ControlInv'
  <1> USE DEF ControlInv, TypeOK
  <1> DEFINE Items == [ctx : WContexts, expr : Exprs]
  <1>1. wq[w] \in Queries /\ wk[w] \in Nat \ {0} /\ wk[w] <= Len(WPlan[wq[w]])
    BY DEF WBegin, WorkTypeOK
  <1>2. WPlan[wq[w]] \in Seq(Items)
    BY <1>1, SharedCodeAssumption
  <1>3. WCtx(w) \in WContexts
    <2> HIDE DEF Items
    <2>1. WItem(w) \in Items
      BY <1>1, <1>2 DEF WItem
    <2> QED
      BY <2>1 DEF Items, WCtx
  <1>4. SegTypeOK' /\ LeadTypeOK'
    BY DEF WBegin, SegTypeOK, LeadTypeOK, segVars, leadVars
  <1>5. wordinal'[w][WCtx(w)] > 0 /\ wordinal' \in [Workers -> [WContexts -> Nat]]
    BY <1>3 DEF WBegin, WorkTypeOK
  <1>6. WorkTypeOK'
    <2>1. wpc' \in [Workers -> WorkerPcs]
      BY DEF WBegin, WorkTypeOK, WorkerPcs
    <2>2. wseen' \in [Workers -> Segments]
      BY DEF WBegin, WorkTypeOK, LeadTypeOK
    <2> QED
      BY <1>5, <2>1, <2>2 DEF WBegin, WorkTypeOK, LeadTypeOK
  <1>7. LeaderAt'
    BY DEF WBegin, LeaderAt, LSeg, leadVars
  <1>8. \A v \in Workers : WCtx(v)' = WCtx(v) /\ WSeg(v)' = WSeg(v)
    BY DEF WBegin, WSeg, WCtx, WItem
  <1>9. WorkerAt'
    <2>1. \A v \in Workers \ {w} :
            /\ wpc'[v] = wpc[v] /\ wseen'[v] = wseen[v]
            /\ wordinal'[v] = wordinal[v]
      BY DEF WBegin, WorkTypeOK
    <2>2. wpc'[w] = "attach" => wseen'[w] \in Handles /\ WSeg(w) = NoHandle
      BY DEF WBegin, WReadsSlot, WorkTypeOK, LeadTypeOK, Segments
    <2>3. WSeg(w) \in Segments
      BY <1>3 DEF WSeg, WorkTypeOK
    <2>4. wpc'[w] \in WFinding => WSeg(w) \in Handles
      BY <2>3 DEF WBegin, WFinding, WorkTypeOK, Segments
    <2>5. wk' = wk /\ wq' = wq
      BY DEF WBegin
    <2> QED
      BY <1>1, <1>5, <1>8, <2>1, <2>2, <2>4, <2>5 DEF WorkerAt
  <1>10. MemoryAt'
    <2>1. /\ entries' = entries /\ num' = num /\ made' = made /\ share' = share
          /\ wfound' = wfound
          /\ \A h \in Handles : Writing(h)' = Writing(h)
      BY DEF WBegin, Writing, LSeg, segVars, leadVars
    <2>2. \A v \in Workers :
            /\ v = w => wpc[v] = "next" /\ wpc'[v] \notin {"unlock", "use"}
            /\ v # w => wpc'[v] = wpc[v]
      BY DEF WBegin, WorkTypeOK
    <2> QED
      BY <1>8, <2>1, <2>2 DEF MemoryAt
  <1> QED
    BY <1>4, <1>6, <1>7, <1>9, <1>10

LEMMA WAttachStep ==
    ASSUME ControlInv, NEW w \in Workers, WAttach(w)
    PROVE  ControlInv'
  <1> USE DEF ControlInv, TypeOK
  <1>1. WCtx(w) \in WContexts /\ wseen[w] \in Handles
    BY WItemType DEF WAttach, WCompiling, WorkerAt
  <1>2. SegTypeOK' /\ LeadTypeOK'
    BY <1>1 DEF WAttach, SegTypeOK, LeadTypeOK, segVars, leadVars, Processes
  <1>3. WorkTypeOK'
    BY <1>1 DEF WAttach, WorkTypeOK, LeadTypeOK, WorkerPcs, Segments
  <1>4. LeaderAt'
    BY DEF WAttach, LeaderAt, LSeg, leadVars
  <1>5. WSeg(w)' = wseen[w] /\ \A v \in Workers \ {w} : WSeg(v)' = WSeg(v)
    BY <1>1 DEF WAttach, WSeg, WCtx, WItem, WorkTypeOK
  <1>6. \A v \in Workers :
            /\ v = w => wpc'[v] = "lock" /\ wpc[v] = "attach"
            /\ v # w => wpc'[v] = wpc[v] /\ wseen'[v] = wseen[v]
    BY DEF WAttach, WorkTypeOK
  <1>7. WorkerAt'
    BY <1>1, <1>5, <1>6 DEF WAttach, WorkerAt, WCompiling, WCtx, WItem
  <1>8. MemoryAt'
    <2>1. /\ entries' = entries /\ num' = num /\ made' = made /\ share' = share
          /\ wfound' = wfound
          /\ \A h \in Handles : Writing(h)' = Writing(h)
      BY DEF WAttach, Writing, LSeg, segVars, leadVars
    <2> QED
      BY <1>5, <1>6, <2>1 DEF MemoryAt
  <1> QED
    BY <1>2, <1>3, <1>4, <1>7, <1>8

\* What the lookup steps of a worker leave alone.
LEMMA WorkerOnlyStep ==
    ASSUME ControlInv, UNCHANGED <<slot, mapped, made, used, num, tail, entries,
                                   leadVars>>,
           lock' \in [Handles -> BOOLEAN]
    PROVE  /\ SegTypeOK' /\ LeadTypeOK' /\ LeaderAt'
           /\ \A h \in Handles : Writing(h)' = Writing(h)
  BY DEF ControlInv, TypeOK, SegTypeOK, LeadTypeOK, LeaderAt, LSeg, Writing,
         leadVars

LEMMA FindNoEntryStep ==
    ASSUME ControlInv, NEW w \in Workers, FindNoEntry(w)
    PROVE  ControlInv'
  <1> USE DEF ControlInv, TypeOK
  <1>1. /\ SegTypeOK' /\ LeadTypeOK' /\ LeaderAt'
        /\ \A h \in Handles : Writing(h)' = Writing(h)
    BY WorkerOnlyStep DEF FindNoEntry, SegTypeOK, segVars
  <1>2. WorkTypeOK' /\ WorkerAt'
    BY DEF FindNoEntry, WorkTypeOK, LeadTypeOK, WorkerAt, WorkerPcs, WCompiling,
           WFinding, WSeg, WCtx, WItem
  <1>3. MemoryAt'
    <2>1. WSeg(w) \in Handles /\ wfound[w] = 0
      BY DEF FindNoEntry, WorkerAt, WFinding, MemoryAt
    <2>2. wfound[w] <= num[WSeg(w)]
      BY <2>1 DEF SegTypeOK
    <2>3. \A v \in Workers : WSeg(v)' = WSeg(v)
      BY DEF FindNoEntry, WSeg, WCtx, WItem
    <2>4. \A v \in Workers :
            /\ v = w => wpc'[v] = "unlock"
            /\ v # w => wpc'[v] = wpc[v]
      BY DEF FindNoEntry, WorkTypeOK
    <2> QED
      BY <1>1, <2>2, <2>3, <2>4 DEF FindNoEntry, MemoryAt, segVars, leadVars
  <1> QED
    BY <1>1, <1>2, <1>3

LEMMA FindNextEntryStep ==
    ASSUME ControlInv, NEW w \in Workers, FindNextEntry(w)
    PROVE  ControlInv'
  <1> USE DEF ControlInv, TypeOK
  <1>1. /\ SegTypeOK' /\ LeadTypeOK' /\ LeaderAt'
        /\ \A h \in Handles : Writing(h)' = Writing(h)
    BY WorkerOnlyStep DEF FindNextEntry, SegTypeOK, segVars
  <1>2. WorkTypeOK'
    <2>1. wpc' \in [Workers -> WorkerPcs]
      BY DEF FindNextEntry, WorkTypeOK, WorkerPcs
    <2>2. wfound' \in [Workers -> Nat] /\ wscan' \in [Workers -> Nat \ {0}]
      <3>1. wscan[w] \in Nat \ {0} /\ wscan[w] + 1 \in Nat \ {0}
        BY DEF WorkTypeOK
      <3>2. \/ wfound' = [wfound EXCEPT ![w] = wscan[w]] /\ wscan' = wscan
            \/ wscan' = [wscan EXCEPT ![w] = wscan[w] + 1] /\ wfound' = wfound
        BY DEF FindNextEntry
      <3> QED
        BY <3>1, <3>2 DEF WorkTypeOK
    <2> QED
      BY <2>1, <2>2 DEF FindNextEntry, WorkTypeOK, LeadTypeOK
  <1>3. \A v \in Workers :
            /\ WSeg(v)' = WSeg(v) /\ WCtx(v)' = WCtx(v)
            /\ v = w => wpc[v] = "scan" /\ wpc'[v] \in {"scan", "unlock"}
            /\ v # w => wpc'[v] = wpc[v] /\ wfound'[v] = wfound[v]
    BY DEF FindNextEntry, WSeg, WCtx, WItem, WorkTypeOK
  <1>4. WorkerAt'
    BY <1>3 DEF FindNextEntry, WorkerAt, WCompiling, WFinding
  <1>5. MemoryAt'
    <2>1. WSeg(w) \in Handles /\ wfound[w] = 0
      BY DEF FindNextEntry, WorkerAt, WFinding, MemoryAt
    <2>2. wscan[w] <= num[WSeg(w)]
      BY <2>1 DEF FindNextEntry, ScanEnds, SegTypeOK, WorkTypeOK
    <2>3. IF wpc'[w] = "unlock" THEN wfound'[w] <= num[WSeg(w)]
                                ELSE wfound'[w] = 0
      BY <2>1, <2>2 DEF FindNextEntry, WorkTypeOK
    <2> QED
      BY <1>1, <1>3, <2>3 DEF FindNextEntry, MemoryAt, segVars, leadVars
  <1> QED
    BY <1>1, <1>2, <1>4, <1>5

LEMMA FindUnlockStep ==
    ASSUME ControlInv, NEW w \in Workers, FindUnlock(w)
    PROVE  ControlInv'
  <1> USE DEF ControlInv, TypeOK
  <1>1. lock' \in [Handles -> BOOLEAN]
    BY DEF FindUnlock, Release, SegTypeOK
  <1>2. /\ SegTypeOK' /\ LeadTypeOK' /\ LeaderAt'
        /\ \A h \in Handles : Writing(h)' = Writing(h)
    BY <1>1, WorkerOnlyStep DEF FindUnlock
  <1>3. WorkTypeOK'
    BY DEF FindUnlock, WorkTypeOK, LeadTypeOK, WorkerPcs
  <1>4. \A v \in Workers :
            /\ WSeg(v)' = WSeg(v) /\ WCtx(v)' = WCtx(v)
            /\ v = w => /\ wpc[v] = "unlock"
                        /\ wpc'[v] = IF wfound[w] = 0 THEN "absent" ELSE "use"
            /\ v # w => wpc'[v] = wpc[v]
    BY DEF FindUnlock, WSeg, WCtx, WItem, WorkTypeOK
  <1>5. WorkerAt'
    BY <1>4 DEF FindUnlock, WorkerAt, WCompiling, WFinding
  <1>6. MemoryAt'
    BY <1>2, <1>4 DEF FindUnlock, MemoryAt, leadVars
  <1> QED
    BY <1>2, <1>3, <1>5, <1>6

\* The four steps that give a worker's expression its code, or end the worker.
LEMMA InstalledStep ==
    ASSUME ControlInv, NEW w \in Workers, NEW c \in Codes, Installed(w, c),
           UNCHANGED <<slot, mapped, segVars, leadVars, wq, wordinal, wshare,
                       wseen, wscan>>
    PROVE  ControlInv'
  <1> USE DEF ControlInv, TypeOK
  <1>1. /\ SegTypeOK' /\ LeadTypeOK' /\ LeaderAt'
        /\ \A h \in Handles : Writing(h)' = Writing(h)
    BY WorkerOnlyStep DEF SegTypeOK, segVars
  <1>2. wk' \in [Workers -> Nat \ {0}]
    BY DEF Installed, WorkTypeOK
  <1>3. WorkTypeOK'
    BY <1>2 DEF Installed, WorkTypeOK, LeadTypeOK, WorkerPcs
  <1>4. \A v \in Workers \ {w} :
            /\ WSeg(v)' = WSeg(v) /\ WCtx(v)' = WCtx(v)
            /\ wpc'[v] = wpc[v] /\ wk'[v] = wk[v] /\ wfound'[v] = wfound[v]
    BY DEF Installed, WSeg, WCtx, WItem, WorkTypeOK
  <1>5. wpc'[w] = "next" /\ wfound'[w] = 0
    BY DEF Installed, WorkTypeOK
  <1>6. WorkerAt'
    BY <1>4, <1>5 DEF WorkerAt, WCompiling, WFinding
  <1>7. MemoryAt'
    BY <1>1, <1>4, <1>5 DEF MemoryAt, segVars, leadVars
  <1> QED
    BY <1>1, <1>3, <1>6, <1>7

LEMMA WUseSharedStep ==
    ASSUME ControlInv, NEW w \in Workers, WUseShared(w)
    PROVE  ControlInv'
  <1> DEFINE h == WSeg(w)
  <1>1. h \in Handles /\ wfound[w] \in Nat \ {0} /\ wfound[w] <= num[h]
    BY DEF ControlInv, TypeOK, WorkTypeOK, WorkerAt, MemoryAt, WUseShared,
           WFinding
  <1>2. /\ entries[h] \in Seq(EntrySet) /\ num[h] \in Nat
        /\ num[h] <= Len(entries[h])
    BY <1>1 DEF ControlInv, TypeOK, SegTypeOK, MemoryAt
  <1>3. entries[h][wfound[w]] \in EntrySet
    <2> HIDE DEF h
    <2> QED
      BY <1>1, <1>2
  <1>4. entries[h][wfound[w]].code \in Codes
    BY <1>3 DEF EntrySet
  <1> QED
    BY <1>4, InstalledStep DEF WUseShared

LEMMA WCompileLocallyStep ==
    ASSUME ControlInv, NEW w \in Workers, WCompileLocally(w)
    PROVE  ControlInv'
  <1>1. WExpr(w) \in Exprs
    BY WItemType DEF WCompileLocally, WCompiling
  <1>2. {WExpr(w).fp, Interp} \subseteq Codes
    BY <1>1 DEF Exprs, Codes
  <1> QED
    BY <1>2, InstalledStep DEF WCompileLocally

LEMMA WExitStep ==
    ASSUME ControlInv, NEW w \in Workers, WExit(w)
    PROVE  ControlInv'
  <1> USE DEF ControlInv, TypeOK
  <1>1. mapped' \in [Processes -> SUBSET Handles]
    BY DEF WExit, LeadTypeOK
  <1>2. SegTypeOK' /\ LeadTypeOK'
    BY <1>1 DEF WExit, SegTypeOK, LeadTypeOK, segVars, leadVars
  <1>3. LeaderAt' /\ \A h \in Handles : Writing(h)' = Writing(h)
    BY DEF WExit, LeaderAt, LSeg, Writing, leadVars
  <1>4. /\ wshare' \in [Workers -> [WContexts -> Segments]]
        /\ wordinal' \in [Workers -> [WContexts -> Nat]]
    BY DEF WExit, WorkTypeOK, Segments
  <1>5. /\ wpc' \in [Workers -> WorkerPcs] /\ wk' \in [Workers -> Nat \ {0}]
        /\ wseen' \in [Workers -> Segments] /\ wscan' \in [Workers -> Nat \ {0}]
    BY DEF WExit, WorkTypeOK, WorkerPcs, Segments
  <1>6. wfound' \in [Workers -> Nat] /\ wcode' \in [Workers -> Codes]
    BY DEF WExit, WorkTypeOK, Codes
  <1>7. WorkTypeOK'
    BY <1>4, <1>5, <1>6 DEF WExit, WorkTypeOK, LeadTypeOK
  <1>8. \A v \in Workers \ {w} :
            /\ WSeg(v)' = WSeg(v) /\ WCtx(v)' = WCtx(v)
            /\ wpc'[v] = wpc[v] /\ wk'[v] = wk[v] /\ wfound'[v] = wfound[v]
            /\ wseen'[v] = wseen[v] /\ wordinal'[v] = wordinal[v]
    BY DEF WExit, WSeg, WCtx, WItem, WorkTypeOK
  <1>9. wpc'[w] = "done" /\ wfound'[w] = 0
    BY DEF WExit, WorkTypeOK
  <1>10. WorkerAt'
    BY <1>8, <1>9 DEF WExit, WorkerAt, WCompiling, WFinding
  <1>11. MemoryAt'
    BY <1>3, <1>8, <1>9 DEF WExit, MemoryAt, segVars, leadVars
  <1> QED
    BY <1>2, <1>3, <1>7, <1>10, <1>11

LEMMA ControlStep == ControlInv /\ [Next]_vars => ControlInv'
  <1> SUFFICES ASSUME ControlInv, [Next]_vars PROVE ControlInv'
    OBVIOUS
  <1>1. ASSUME NEW q \in Queries, BeginCompile(q) PROVE ControlInv'
    BY <1>1, BeginCompileStep
  <1>2. ASSUME NEW h \in Handles, InitSharedDsm(h) PROVE ControlInv'
    BY <1>2, InitSharedDsmStep
  <1>3. ASSUME CompileSharedDeform PROVE ControlInv'
    BY <1>3, CompileSharedDeformStep
  <1>4. ASSUME StoreWrite PROVE ControlInv'
    BY <1>4, StoreWriteStep
  <1>5. ASSUME StoreCopy PROVE ControlInv'
    BY <1>5, StoreCopyStep
  <1>6. ASSUME StoreCount PROVE ControlInv'
    BY <1>6, StoreCountStep
  <1>7. ASSUME NEW w \in Workers, WBegin(w) PROVE ControlInv'
    BY <1>7, WBeginStep
  <1>8. ASSUME NEW w \in Workers, WAttach(w) PROVE ControlInv'
    BY <1>8, WAttachStep
  <1>9. ASSUME NEW w \in Workers, FindNoEntry(w) PROVE ControlInv'
    BY <1>9, FindNoEntryStep
  <1>10. ASSUME NEW w \in Workers, FindNextEntry(w) PROVE ControlInv'
    BY <1>10, FindNextEntryStep
  <1>11. ASSUME NEW w \in Workers, FindUnlock(w) PROVE ControlInv'
    BY <1>11, FindUnlockStep
  <1>12. ASSUME NEW w \in Workers, WUseShared(w) PROVE ControlInv'
    BY <1>12, WUseSharedStep
  <1>13. ASSUME NEW w \in Workers, WCompileLocally(w) PROVE ControlInv'
    BY <1>13, WCompileLocallyStep
  <1>14. ASSUME NEW w \in Workers, WFinish(w) PROVE ControlInv'
    BY <1>14, WExitStep DEF WFinish
  <1>15. ASSUME NEW w \in Workers, WFail(w) PROVE ControlInv'
    BY <1>15, WExitStep DEF WFail
  <1>16. ASSUME NEW w \in Workers, WTerminate(w) PROVE ControlInv'
    BY <1>16, WExitStep DEF WTerminate
  <1>35. CASE UNCHANGED vars
    BY <1>35 DEF vars, segVars, leadVars, workVars, ControlInv, TypeOK, SegTypeOK,
        LeadTypeOK, WorkTypeOK, LeaderAt, WorkerAt, MemoryAt, Writing, LSeg,
        WSeg, WCtx, WItem
  \* The rest disturbs little: one step each, from the whole invariant.
  <1> USE SharedCodeAssumption, PlanLengths
      DEF ControlInv, TypeOK, SegTypeOK, LeadTypeOK, WorkTypeOK, LeaderAt,
          WorkerAt, MemoryAt, Segments, Compiling, Storing, WCompiling,
          WFinding, LeaderPcs, WorkerPcs, Writing, LSeg, WSeg, WCtx, WItem, segVars,
          leadVars, workVars
  <1>17. ASSUME NEW q \in Queries, EndQuery(q) PROVE ControlInv'
    BY <1>17 DEF EndQuery, CleanupSharedDsm
  <1>18. ASSUME NEW q \in Queries, CancelQuery(q) PROVE ControlInv'
    BY <1>18 DEF CancelQuery
  <1>19. ASSUME NEW w \in Workers, NEW q \in Queries, LaunchWorker(w, q) PROVE ControlInv'
    BY <1>19 DEF LaunchWorker
  <1>20. ASSUME AbortQuery PROVE ControlInv'
    BY <1>20 DEF AbortQuery, CleanupSharedDsm
  <1>21. ASSUME SkipInitSharedDsm PROVE ControlInv'
    BY <1>21 DEF SkipInitSharedDsm
  <1>22. ASSUME InitSharedDsmError PROVE ControlInv'
    BY <1>22 DEF InitSharedDsmError
  <1>23. ASSUME SkipSharedDeform PROVE ControlInv'
    BY <1>23 DEF SkipSharedDeform
  <1>24. ASSUME GenerateCode PROVE ControlInv'
    BY <1>24 DEF GenerateCode
  <1>25. ASSUME GenerateFails PROVE ControlInv'
    BY <1>25 DEF GenerateFails
  <1>26. ASSUME StoreLock PROVE ControlInv'
    BY <1>26 DEF StoreLock, Acquire
  <1>27. ASSUME StoreFull PROVE ControlInv'
    BY <1>27 DEF StoreFull, Release
  <1>28. ASSUME StoreUnlock PROVE ControlInv'
    BY <1>28 DEF StoreUnlock, Release
  <1>29. ASSUME Register PROVE ControlInv'
    BY <1>29 DEF Register
  <1>30. ASSUME RegisterError PROVE ControlInv'
    BY <1>30 DEF RegisterError
  <1>31. ASSUME NEW w \in Workers, WAttachRefused(w) PROVE ControlInv'
    BY <1>31 DEF WAttachRefused
  <1>32. ASSUME NEW w \in Workers, FindLock(w) PROVE ControlInv'
    BY <1>32 DEF FindLock, Acquire
  <1>33. ASSUME NEW w \in Workers, WUseFails(w) PROVE ControlInv'
    BY <1>33 DEF WUseFails
  <1>34. ASSUME NEW w \in Workers, NEW c \in WContexts, WEndNested(w, c) PROVE ControlInv'
    BY <1>34 DEF WEndNested, WCleanup
  <1> QED
    BY <1>1, <1>2, <1>3, <1>4, <1>5, <1>6, <1>7, <1>8, <1>9, <1>10, <1>11,
       <1>12, <1>13, <1>14, <1>15, <1>16, <1>17, <1>18, <1>19, <1>20, <1>21,
       <1>22, <1>23, <1>24, <1>25, <1>26, <1>27, <1>28, <1>29, <1>30, <1>31,
       <1>32, <1>33, <1>34, <1>35
    DEF Next, LeaderCompiles, WorkerSteps

\* Where each process is, and what it has there, holds in every state.
LEMMA ControlCorrect == Spec => []ControlInv
  BY ControlInit, ControlStep, PTL DEF Spec

\* Every variable keeps its type: in particular no step of compile_expr indexes
\* a plan, a segment or an entry that is not there.
THEOREM TypeCorrect == Spec => []TypeOK
  <1>1. ControlInv => TypeOK
    BY DEF ControlInv
  <1> QED
    BY ControlCorrect, <1>1, PTL

-----------------------------------------------------------------------------
(* Room: a segment that does not exist yet has nothing in it. *)

RoomInv ==
    /\ NoOverlap
    /\ \A h \in Handles \ made : used[h] = 0 /\ tail[h] = 0

LEMMA RoomStep ==
    ASSUME ControlInv, RoomInv, [Next]_vars
    PROVE  RoomInv'
  <1> USE SharedCodeAssumption
      DEF ControlInv, TypeOK, SegTypeOK, LeadTypeOK, LeaderAt, RoomInv, NoOverlap,
          LSeg, Expr, Storing, segVars, leadVars, workVars
  <1>1. ASSUME NEW q \in Queries, BeginCompile(q) PROVE RoomInv'
    BY <1>1 DEF BeginCompile
  <1>2. ASSUME NEW q \in Queries, EndQuery(q) PROVE RoomInv'
    BY <1>2 DEF EndQuery, CleanupSharedDsm
  <1>3. ASSUME NEW q \in Queries, CancelQuery(q) PROVE RoomInv'
    BY <1>3 DEF CancelQuery
  <1>4. ASSUME NEW w \in Workers, NEW q \in Queries, LaunchWorker(w, q) PROVE RoomInv'
    BY <1>4 DEF LaunchWorker
  <1>5. ASSUME AbortQuery PROVE RoomInv'
    BY <1>5 DEF AbortQuery, CleanupSharedDsm
  <1>6. ASSUME SkipInitSharedDsm PROVE RoomInv'
    BY <1>6 DEF SkipInitSharedDsm
  <1>7. ASSUME NEW h \in Handles, InitSharedDsm(h) PROVE RoomInv'
    <2>1. \A g \in Handles :
            /\ tail'[g] = tail[g]
            /\ used'[g] = IF g = h THEN Header ELSE used[g]
      BY <1>7 DEF InitSharedDsm
    <2>2. tail[h] = 0
      BY <1>7 DEF InitSharedDsm
    <2>3. \A g \in Handles : used'[g] + tail'[g] <= Capacity
      <3>1. \A g \in Handles : used[g] + tail[g] <= Capacity
        OBVIOUS
      <3>2. Header + 0 <= Capacity
        OBVIOUS
      <3> HIDE DEF RoomInv, ControlInv
      <3> QED
        BY <2>1, <2>2, <3>1, <3>2
    <2> QED
      BY <1>7, <2>1, <2>3 DEF InitSharedDsm
  <1>8. ASSUME InitSharedDsmError PROVE RoomInv'
    BY <1>8 DEF InitSharedDsmError
  <1>9. ASSUME CompileSharedDeform PROVE RoomInv'
    <2>1. LSeg \in made /\ LSeg \in Handles /\ Expr.deform \in Nat
      BY <1>9, ExprType, SharedCodeAssumption
      DEF CompileSharedDeform, Compiling, Exprs, MemoryAt, Segments
    <2>2. used[LSeg] + Expr.deform <= Capacity
      BY <1>9 DEF CompileSharedDeform, DeformWanted, DeformFits
    <2>3. tail' = [tail EXCEPT ![LSeg] = Expr.deform] /\ used' = used /\ made' = made
      BY <1>9 DEF CompileSharedDeform
    <2>4. \A h \in Handles : used'[h] + tail'[h] <= Capacity
      BY <2>1, <2>2, <2>3
    <2> QED
      BY <1>9, <2>1, <2>3, <2>4 DEF CompileSharedDeform
  <1>10. ASSUME SkipSharedDeform PROVE RoomInv'
    BY <1>10 DEF SkipSharedDeform
  <1>11. ASSUME GenerateCode PROVE RoomInv'
    BY <1>11 DEF GenerateCode
  <1>12. ASSUME GenerateFails PROVE RoomInv'
    BY <1>12 DEF GenerateFails
  <1>13. ASSUME StoreLock PROVE RoomInv'
    <2>1. LSeg \in Handles /\ Expr.size \in Nat
      BY <1>13, ExprType DEF StoreLock, Compiling, Exprs
    <2>2. lpc' = "write" => used[LSeg] + Expr.size + tail[LSeg] <= Capacity
      <3>1. used[LSeg] \in Nat /\ tail[LSeg] \in Nat
        BY <2>1
      <3>2. lpc' = "write" => EntryFits(LSeg)
        BY <1>13 DEF StoreLock
      <3> HIDE DEF LSeg, Expr, RoomInv, ControlInv
      <3> QED
        BY <2>1, <3>1, <3>2 DEF EntryFits, Usable
    <2> QED
      BY <1>13, <2>2 DEF StoreLock
  <1>14. ASSUME StoreFull PROVE RoomInv'
    BY <1>14 DEF StoreFull, Release
  <1>15. ASSUME StoreWrite PROVE RoomInv'
    BY <1>15 DEF StoreWrite
  <1>16. ASSUME StoreCopy PROVE RoomInv'
    BY <1>16 DEF StoreCopy
  <1>17. ASSUME StoreCount PROVE RoomInv'
    <2>1. LSeg \in made /\ LSeg \in Handles /\ Expr.size \in Nat
      BY <1>17, ExprType, SharedCodeAssumption
      DEF StoreCount, Compiling, Exprs, MemoryAt, Segments
    <2>2. used[LSeg] + Expr.size + tail[LSeg] <= Capacity
      BY <1>17 DEF StoreCount
    <2>3. used' = [used EXCEPT ![LSeg] = used[LSeg] + Expr.size] /\ tail' = tail /\ made' = made
      BY <1>17 DEF StoreCount
    <2>4. \A h \in Handles : used'[h] + tail'[h] <= Capacity
      <3>1. \A h \in Handles : used[h] + tail[h] <= Capacity
        OBVIOUS
      <3>2. used \in [Handles -> Nat] /\ tail \in [Handles -> Nat]
        OBVIOUS
      <3> HIDE DEF LSeg, Expr, RoomInv, ControlInv
      <3> QED
        BY <2>1, <2>2, <2>3, <3>1, <3>2
    <2> QED
      BY <1>17, <2>1, <2>3, <2>4 DEF StoreCount
  <1>18. ASSUME StoreUnlock PROVE RoomInv'
    BY <1>18 DEF StoreUnlock, Release
  <1>19. ASSUME Register PROVE RoomInv'
    BY <1>19 DEF Register
  <1>20. ASSUME RegisterError PROVE RoomInv'
    BY <1>20 DEF RegisterError
  <1>21. ASSUME NEW w \in Workers, WBegin(w) PROVE RoomInv'
    BY <1>21 DEF WBegin, WReadsSlot
  <1>22. ASSUME NEW w \in Workers, WAttach(w) PROVE RoomInv'
    BY <1>22 DEF WAttach, CanAttach
  <1>23. ASSUME NEW w \in Workers, WAttachRefused(w) PROVE RoomInv'
    BY <1>23 DEF WAttachRefused
  <1>24. ASSUME NEW w \in Workers, FindLock(w) PROVE RoomInv'
    BY <1>24 DEF FindLock, Acquire
  <1>25. ASSUME NEW w \in Workers, FindNoEntry(w) PROVE RoomInv'
    BY <1>25 DEF FindNoEntry
  <1>26. ASSUME NEW w \in Workers, FindNextEntry(w) PROVE RoomInv'
    BY <1>26 DEF FindNextEntry
  <1>27. ASSUME NEW w \in Workers, FindUnlock(w) PROVE RoomInv'
    BY <1>27 DEF FindUnlock, Release
  <1>28. ASSUME NEW w \in Workers, WUseShared(w) PROVE RoomInv'
    BY <1>28 DEF WUseShared, Installed
  <1>29. ASSUME NEW w \in Workers, WUseFails(w) PROVE RoomInv'
    BY <1>29 DEF WUseFails
  <1>30. ASSUME NEW w \in Workers, WCompileLocally(w) PROVE RoomInv'
    BY <1>30 DEF WCompileLocally, Installed
  <1>31. ASSUME NEW w \in Workers, WFinish(w) PROVE RoomInv'
    BY <1>31 DEF WFinish, WExit
  <1>32. ASSUME NEW w \in Workers, WFail(w) PROVE RoomInv'
    BY <1>32 DEF WFail, WExit
  <1>33. ASSUME NEW w \in Workers, WTerminate(w) PROVE RoomInv'
    BY <1>33 DEF WTerminate, WExit
  <1>34. ASSUME NEW w \in Workers, NEW c \in WContexts, WEndNested(w, c) PROVE RoomInv'
    BY <1>34 DEF WEndNested, WCleanup
  <1>35. CASE UNCHANGED vars
    BY <1>35 DEF vars
  <1> QED
    BY <1>1, <1>2, <1>3, <1>4, <1>5, <1>6, <1>7, <1>8, <1>9, <1>10, <1>11,
       <1>12, <1>13, <1>14, <1>15, <1>16, <1>17, <1>18, <1>19, <1>20, <1>21,
       <1>22, <1>23, <1>24, <1>25, <1>26, <1>27, <1>28, <1>29, <1>30, <1>31,
       <1>32, <1>33, <1>34, <1>35
    DEF Next, LeaderCompiles, WorkerSteps

LEMMA RoomCorrect == Spec => []RoomInv
  <1>1. Init => RoomInv
    BY SharedCodeAssumption DEF Init, RoomInv, NoOverlap
  <1>2. ControlInv /\ RoomInv /\ [Next]_vars => RoomInv'
    BY RoomStep
  <1> QED
    BY <1>1, <1>2, ControlCorrect, PTL DEF Spec

\* A segment never holds more than its capacity, and the bytes store_shared_code
\* is about to write end before the reserved shared deform code.
THEOREM NoOverlapSafe == Spec => []NoOverlap
  <1>1. RoomInv => NoOverlap
    BY DEF RoomInv
  <1> QED
    BY <1>1, RoomCorrect, PTL

-----------------------------------------------------------------------------
(* Ownership: of the slot and of the pinned mappings. *)

LeaderOwns ==
    /\ Owns(mapped[Leader], Queries, share)
    /\ \A q \in Queries : share[q] # NoHandle => status[q] = "running"
    /\ SlotIsOwned

WorkersOwn == \A w \in Workers : Owns(mapped[w], WContexts, wshare[w])

OwnInv == LeaderOwns /\ WorkersOwn

\* A context gets a segment, gives its segment up, or all of them do.
LEMMA OwnsAdd ==
    ASSUME NEW C, NEW M, NEW f, NEW g, NEW c \in C, NEW h \in Handles,
           Owns(M, C, f), f[c] = NoHandle, h \notin M,
           g[c] = h, \A d \in C \ {c} : g[d] = f[d]
    PROVE  Owns(M \cup {h}, C, g)
  <1>1. ASSUME NEW k \in Handles
        PROVE  k \in M \cup {h} <=> \E d \in C : g[d] = k
    <2>1. CASE k = h
      BY <2>1
    <2>2. ASSUME k # h, k \in M PROVE \E d \in C : g[d] = k
      <3>1. PICK d \in C : f[d] = k
        BY <2>2 DEF Owns
      <3> QED
        BY <3>1, SharedCodeAssumption
    <2>3. ASSUME k # h, NEW d \in C, g[d] = k PROVE k \in M
      BY <2>3 DEF Owns
    <2> QED
      BY <2>1, <2>2, <2>3
  <1>2. \A d \in C : f[d] # h
    BY DEF Owns
  <1>3. ASSUME NEW d \in C, NEW e \in C, g[d] = g[e], d # e PROVE g[d] = NoHandle
    <2>1. d # c /\ e # c
      BY <1>2, <1>3
    <2> QED
      BY <1>3, <2>1 DEF Owns
  <1> QED
    BY <1>1, <1>3 DEF Owns

LEMMA OwnsRemove ==
    ASSUME NEW C, NEW M, NEW f, NEW g, NEW c \in C, Owns(M, C, f),
           g[c] = NoHandle, \A d \in C \ {c} : g[d] = f[d]
    PROVE  Owns(M \ {f[c]}, C, g)
  <1>1. ASSUME NEW k \in Handles
        PROVE  k \in M \ {f[c]} <=> \E d \in C : g[d] = k
    <2>1. ASSUME k \in M, k # f[c] PROVE \E d \in C : g[d] = k
      <3>1. PICK d \in C : f[d] = k
        BY <2>1 DEF Owns
      <3> QED
        BY <2>1, <3>1
    <2>2. ASSUME NEW d \in C, g[d] = k PROVE k \in M /\ k # f[c]
      BY <2>2, SharedCodeAssumption DEF Owns
    <2> QED
      BY <2>1, <2>2
  <1> QED
    BY <1>1 DEF Owns

LEMMA OwnsNothing ==
    ASSUME NEW C, NEW f, \A c \in C : f[c] = NoHandle
    PROVE  Owns({}, C, f)
  BY SharedCodeAssumption DEF Owns

\* Only these variables matter to each half.
LEMMA LeaderOwnsFrame ==
    ASSUME LeaderOwns, UNCHANGED <<slot, share, status>>,
           mapped'[Leader] = mapped[Leader]
    PROVE  LeaderOwns'
  BY DEF LeaderOwns, SlotIsOwned

LEMMA WorkersOwnFrame ==
    ASSUME WorkersOwn, UNCHANGED wshare,
           \A w \in Workers : mapped'[w] = mapped[w]
    PROVE  WorkersOwn'
  BY DEF WorkersOwn

\* cleanup_shared_dsm in the leader, of the context of a query that ends.
LEMMA CleanupOwns ==
    ASSUME ControlInv, OwnInv, NEW q \in Queries, CleanupSharedDsm(q),
           status' = [status EXCEPT ![q] = "done"]
    PROVE  LeaderOwns' /\ \A w \in Workers : mapped'[w] = mapped[w]
  <1>1. /\ slot' = IF share[q] = NoHandle THEN slot ELSE NoHandle
        /\ mapped'[Leader] = mapped[Leader] \ {share[q]}
        /\ \A w \in Workers : mapped'[w] = mapped[w]
        /\ share'[q] = NoHandle
        /\ \A r \in Queries \ {q} : share'[r] = share[r] /\ status'[r] = status[r]
    BY SharedCodeAssumption
    DEF CleanupSharedDsm, ControlInv, TypeOK, LeadTypeOK, Processes
  <1>2. Owns(mapped'[Leader], Queries, share')
    BY <1>1, OwnsRemove DEF OwnInv, LeaderOwns
  <1>3. \A r \in Queries : share'[r] # NoHandle => status'[r] = "running"
    BY <1>1 DEF OwnInv, LeaderOwns
  <1>4. SlotIsOwned'
    BY <1>1 DEF OwnInv, LeaderOwns, SlotIsOwned
  <1> QED
    BY <1>1, <1>2, <1>3, <1>4 DEF LeaderOwns

\* The process has no context that uses a segment it has not mapped.
LEMMA ExitOwns ==
    ASSUME ControlInv, OwnInv, NEW w \in Workers, WExit(w)
    PROVE  OwnInv'
  <1>1. /\ mapped'[Leader] = mapped[Leader] /\ mapped'[w] = {}
        /\ \A v \in Workers \ {w} : mapped'[v] = mapped[v] /\ wshare'[v] = wshare[v]
        /\ \A c \in WContexts : wshare'[w][c] = NoHandle
    BY SharedCodeAssumption
    DEF WExit, ControlInv, TypeOK, LeadTypeOK, WorkTypeOK, Processes
  <1>2. WorkersOwn'
    BY <1>1, OwnsNothing DEF OwnInv, WorkersOwn
  <1>3. LeaderOwns'
    BY <1>1, LeaderOwnsFrame DEF OwnInv, WExit, leadVars
  <1> QED
    BY <1>2, <1>3 DEF OwnInv

LEMMA OwnStep ==
    ASSUME ControlInv, OwnInv, [Next]_vars
    PROVE  OwnInv'
  <1>1. ASSUME NEW q \in Queries, BeginCompile(q) PROVE OwnInv'
    <2>1. status'[q] = "running" /\ \A r \in Queries \ {q} : status'[r] = status[r]
      BY <1>1 DEF BeginCompile, ControlInv, TypeOK, LeadTypeOK
    <2>2. UNCHANGED <<slot, mapped, share, wshare>>
      BY <1>1 DEF BeginCompile, workVars
    <2> QED
      BY <2>1, <2>2, WorkersOwnFrame DEF OwnInv, LeaderOwns, SlotIsOwned
  <1>2. ASSUME NEW q \in Queries, EndQuery(q) PROVE OwnInv'
    BY <1>2, CleanupOwns, WorkersOwnFrame DEF EndQuery, OwnInv, workVars
  <1>3. ASSUME NEW q \in Queries, CancelQuery(q) PROVE OwnInv'
    BY <1>3, LeaderOwnsFrame, WorkersOwnFrame DEF OwnInv, CancelQuery, segVars, leadVars,
        workVars
  <1>4. ASSUME NEW w \in Workers, NEW q \in Queries, LaunchWorker(w, q) PROVE OwnInv'
    BY <1>4, LeaderOwnsFrame, WorkersOwnFrame DEF OwnInv, LaunchWorker, segVars, leadVars,
        workVars
  <1>5. ASSUME AbortQuery PROVE OwnInv'
    BY <1>5, CleanupOwns, WorkersOwnFrame
    DEF AbortQuery, OwnInv, workVars, ControlInv, TypeOK, LeadTypeOK
  <1>6. ASSUME SkipInitSharedDsm PROVE OwnInv'
    BY <1>6, LeaderOwnsFrame, WorkersOwnFrame DEF OwnInv, SkipInitSharedDsm, segVars, leadVars,
        workVars
  <1>7. ASSUME NEW h \in Handles, InitSharedDsm(h) PROVE OwnInv'
    <2>1. /\ slot' = h /\ status' = status /\ wshare' = wshare
          /\ mapped'[Leader] = mapped[Leader] \cup {h}
          /\ \A w \in Workers : mapped'[w] = mapped[w]
          /\ share'[lq] = h /\ \A q \in Queries \ {lq} : share'[q] = share[q]
      BY <1>7, SharedCodeAssumption
      DEF InitSharedDsm, ControlInv, TypeOK, LeadTypeOK, Processes, workVars
    <2>2. /\ lq \in Queries /\ status[lq] = "running" /\ share[lq] = NoHandle
          /\ \A q \in Queries : share[q] # h
      BY <1>7, SharedCodeAssumption
      DEF InitSharedDsm, LSeg, ControlInv, TypeOK, LeadTypeOK, LeaderAt, MemoryAt,
          Compiling
    <2>3. Owns(mapped'[Leader], Queries, share')
      <3>1. h \notin mapped[Leader]
        BY <2>2 DEF OwnInv, LeaderOwns, Owns
      <3> QED
        BY <2>1, <2>2, <3>1, OwnsAdd DEF OwnInv, LeaderOwns
    <2>4. LeaderOwns'
      BY <2>1, <2>2, <2>3 DEF OwnInv, LeaderOwns, SlotIsOwned
    <2> QED
      BY <2>1, <2>4, WorkersOwnFrame DEF OwnInv
  <1>8. ASSUME InitSharedDsmError PROVE OwnInv'
    BY <1>8, LeaderOwnsFrame, WorkersOwnFrame DEF OwnInv, InitSharedDsmError, segVars, leadVars,
        workVars
  <1>9. ASSUME CompileSharedDeform PROVE OwnInv'
    BY <1>9, LeaderOwnsFrame, WorkersOwnFrame DEF OwnInv, CompileSharedDeform, segVars, leadVars,
        workVars
  <1>10. ASSUME SkipSharedDeform PROVE OwnInv'
    BY <1>10, LeaderOwnsFrame, WorkersOwnFrame DEF OwnInv, SkipSharedDeform, segVars, leadVars,
        workVars
  <1>11. ASSUME GenerateCode PROVE OwnInv'
    BY <1>11, LeaderOwnsFrame, WorkersOwnFrame DEF OwnInv, GenerateCode, segVars, leadVars,
        workVars
  <1>12. ASSUME GenerateFails PROVE OwnInv'
    BY <1>12, LeaderOwnsFrame, WorkersOwnFrame DEF OwnInv, GenerateFails, segVars, leadVars,
        workVars
  <1>13. ASSUME StoreLock PROVE OwnInv'
    BY <1>13, LeaderOwnsFrame, WorkersOwnFrame DEF OwnInv, StoreLock, segVars, leadVars,
        workVars
  <1>14. ASSUME StoreFull PROVE OwnInv'
    BY <1>14, LeaderOwnsFrame, WorkersOwnFrame DEF OwnInv, StoreFull, segVars, leadVars,
        workVars
  <1>15. ASSUME StoreWrite PROVE OwnInv'
    BY <1>15, LeaderOwnsFrame, WorkersOwnFrame DEF OwnInv, StoreWrite, segVars, leadVars,
        workVars
  <1>16. ASSUME StoreCopy PROVE OwnInv'
    BY <1>16, LeaderOwnsFrame, WorkersOwnFrame DEF OwnInv, StoreCopy, segVars, leadVars,
        workVars
  <1>17. ASSUME StoreCount PROVE OwnInv'
    BY <1>17, LeaderOwnsFrame, WorkersOwnFrame DEF OwnInv, StoreCount, segVars, leadVars,
        workVars
  <1>18. ASSUME StoreUnlock PROVE OwnInv'
    BY <1>18, LeaderOwnsFrame, WorkersOwnFrame DEF OwnInv, StoreUnlock, segVars, leadVars,
        workVars
  <1>19. ASSUME Register PROVE OwnInv'
    BY <1>19, LeaderOwnsFrame, WorkersOwnFrame DEF OwnInv, Register, segVars, leadVars,
        workVars
  <1>20. ASSUME RegisterError PROVE OwnInv'
    BY <1>20, LeaderOwnsFrame, WorkersOwnFrame DEF OwnInv, RegisterError, segVars, leadVars,
        workVars
  <1>21. ASSUME NEW w \in Workers, WBegin(w) PROVE OwnInv'
    BY <1>21, LeaderOwnsFrame, WorkersOwnFrame DEF OwnInv, WBegin, segVars, leadVars,
        workVars
  <1>22. ASSUME NEW w \in Workers, WAttach(w) PROVE OwnInv'
    <2> DEFINE h == wseen[w]
               c == WCtx(w)
    <2>1. c \in WContexts /\ h \in Handles /\ wshare[w][c] = NoHandle /\ h \notin mapped[w]
      BY <1>22, WItemType DEF WAttach, CanAttach, WCompiling, ControlInv, WorkerAt, WSeg
    <2>2. /\ mapped'[w] = mapped[w] \cup {h} /\ mapped'[Leader] = mapped[Leader]
          /\ \A v \in Workers \ {w} : mapped'[v] = mapped[v] /\ wshare'[v] = wshare[v]
          /\ wshare'[w][c] = h
          /\ \A d \in WContexts \ {c} : wshare'[w][d] = wshare[w][d]
      BY <1>22, <2>1, SharedCodeAssumption
      DEF WAttach, ControlInv, TypeOK, LeadTypeOK, WorkTypeOK, Processes
    <2> HIDE DEF h, c
    <2>3. Owns(mapped'[w], WContexts, wshare'[w])
      BY <2>1, <2>2, OwnsAdd DEF OwnInv, WorkersOwn
    <2>4. WorkersOwn'
      BY <2>2, <2>3 DEF OwnInv, WorkersOwn
    <2> QED
      BY <1>22, <2>2, <2>4, LeaderOwnsFrame DEF OwnInv, WAttach, leadVars
  <1>23. ASSUME NEW w \in Workers, WAttachRefused(w) PROVE OwnInv'
    BY <1>23, LeaderOwnsFrame, WorkersOwnFrame DEF OwnInv, WAttachRefused, segVars, leadVars,
        workVars
  <1>24. ASSUME NEW w \in Workers, FindLock(w) PROVE OwnInv'
    BY <1>24, LeaderOwnsFrame, WorkersOwnFrame DEF OwnInv, FindLock, segVars, leadVars,
        workVars
  <1>25. ASSUME NEW w \in Workers, FindNoEntry(w) PROVE OwnInv'
    BY <1>25, LeaderOwnsFrame, WorkersOwnFrame DEF OwnInv, FindNoEntry, segVars, leadVars,
        workVars
  <1>26. ASSUME NEW w \in Workers, FindNextEntry(w) PROVE OwnInv'
    BY <1>26, LeaderOwnsFrame, WorkersOwnFrame DEF OwnInv, FindNextEntry, segVars, leadVars,
        workVars
  <1>27. ASSUME NEW w \in Workers, FindUnlock(w) PROVE OwnInv'
    BY <1>27, LeaderOwnsFrame, WorkersOwnFrame DEF OwnInv, FindUnlock, segVars, leadVars,
        workVars
  <1>28. ASSUME NEW w \in Workers, WUseShared(w) PROVE OwnInv'
    BY <1>28, LeaderOwnsFrame, WorkersOwnFrame DEF OwnInv, WUseShared, segVars, leadVars,
        workVars, Installed
  <1>29. ASSUME NEW w \in Workers, WUseFails(w) PROVE OwnInv'
    BY <1>29, LeaderOwnsFrame, WorkersOwnFrame DEF OwnInv, WUseFails, segVars, leadVars,
        workVars
  <1>30. ASSUME NEW w \in Workers, WCompileLocally(w) PROVE OwnInv'
    BY <1>30, LeaderOwnsFrame, WorkersOwnFrame DEF OwnInv, WCompileLocally, segVars, leadVars,
        workVars, Installed
  <1>31. ASSUME NEW w \in Workers, WFinish(w) PROVE OwnInv'
    BY <1>31, ExitOwns DEF WFinish
  <1>32. ASSUME NEW w \in Workers, WFail(w) PROVE OwnInv'
    BY <1>32, ExitOwns DEF WFail
  <1>33. ASSUME NEW w \in Workers, WTerminate(w) PROVE OwnInv'
    BY <1>33, ExitOwns DEF WTerminate
  <1>34. ASSUME NEW w \in Workers, NEW c \in WContexts, WEndNested(w, c) PROVE OwnInv'
    <2>1. /\ mapped'[w] = mapped[w] \ {wshare[w][c]}
          /\ mapped'[Leader] = mapped[Leader]
          /\ \A v \in Workers \ {w} : mapped'[v] = mapped[v] /\ wshare'[v] = wshare[v]
          /\ wshare'[w][c] = NoHandle
          /\ \A d \in WContexts \ {c} : wshare'[w][d] = wshare[w][d]
      BY <1>34, SharedCodeAssumption
      DEF WEndNested, WCleanup, ControlInv, TypeOK, LeadTypeOK, WorkTypeOK,
          Processes
    <2>2. Owns(mapped'[w], WContexts, wshare'[w])
      BY <2>1, OwnsRemove DEF OwnInv, WorkersOwn
    <2>3. WorkersOwn'
      BY <2>1, <2>2 DEF OwnInv, WorkersOwn
    <2> QED
      BY <1>34, <2>1, <2>3, LeaderOwnsFrame DEF OwnInv, WEndNested, WCleanup, leadVars
  <1>35. CASE UNCHANGED vars
    BY <1>35, LeaderOwnsFrame, WorkersOwnFrame DEF OwnInv, vars, leadVars, workVars
  <1> QED
    BY <1>1, <1>2, <1>3, <1>4, <1>5, <1>6, <1>7, <1>8, <1>9, <1>10, <1>11,
       <1>12, <1>13, <1>14, <1>15, <1>16, <1>17, <1>18, <1>19, <1>20, <1>21,
       <1>22, <1>23, <1>24, <1>25, <1>26, <1>27, <1>28, <1>29, <1>30, <1>31,
       <1>32, <1>33, <1>34, <1>35
    DEF Next, LeaderCompiles, WorkerSteps

LEMMA OwnCorrect == Spec => []OwnInv
  <1>1. Init => OwnInv
    BY SharedCodeAssumption
    DEF Init, OwnInv, LeaderOwns, WorkersOwn, Owns, SlotIsOwned, Processes
  <1>2. ControlInv /\ OwnInv /\ [Next]_vars => OwnInv'
    BY OwnStep
  <1> QED
    BY <1>1, <1>2, ControlCorrect, PTL DEF Spec

\* cleanup_shared_dsm of the context that made a mapping undoes it, and no other
\* does: whatever the interleaving of queries, workers and errors.
THEOREM MappingsSafe == Spec => []MappingsAreOwned
  <1>1. OwnInv => MappingsAreOwned
    BY DEF OwnInv, LeaderOwns, WorkersOwn, MappingsAreOwned
  <1> QED
    BY <1>1, OwnCorrect, PTL

\* The handle in the leader's slot is never that of a segment whose context has
\* been released.
THEOREM SlotSafe == Spec => []SlotIsOwned
  <1>1. OwnInv => SlotIsOwned
    BY DEF OwnInv, LeaderOwns
  <1> QED
    BY <1>1, OwnCorrect, PTL

-----------------------------------------------------------------------------
(* Published entries are never touched again. *)

Stable ==
    \A h \in Handles :
        /\ num'[h] >= num[h]
        /\ \A i \in 1 .. num[h] : entries'[h][i] = entries[h][i]

LEMMA StableStep ==
    ASSUME ControlInv, [Next]_vars
    PROVE  Stable
  <1> USE DEF ControlInv, TypeOK, SegTypeOK, LeadTypeOK, LeaderAt, MemoryAt, Stable,
          Writing, LSeg, Storing, segVars
  <1>1. ASSUME NEW q \in Queries, BeginCompile(q) PROVE Stable
    BY <1>1 DEF BeginCompile
  <1>2. ASSUME NEW q \in Queries, EndQuery(q) PROVE Stable
    BY <1>2 DEF EndQuery, CleanupSharedDsm
  <1>3. ASSUME NEW q \in Queries, CancelQuery(q) PROVE Stable
    BY <1>3 DEF CancelQuery
  <1>4. ASSUME NEW w \in Workers, NEW q \in Queries, LaunchWorker(w, q) PROVE Stable
    BY <1>4 DEF LaunchWorker
  <1>5. ASSUME AbortQuery PROVE Stable
    BY <1>5 DEF AbortQuery, CleanupSharedDsm
  <1>6. ASSUME SkipInitSharedDsm PROVE Stable
    BY <1>6 DEF SkipInitSharedDsm
  <1>7. ASSUME NEW h \in Handles, InitSharedDsm(h) PROVE Stable
    BY <1>7 DEF InitSharedDsm
  <1>8. ASSUME InitSharedDsmError PROVE Stable
    BY <1>8 DEF InitSharedDsmError
  <1>9. ASSUME CompileSharedDeform PROVE Stable
    BY <1>9 DEF CompileSharedDeform, DeformWanted, DeformFits
  <1>10. ASSUME SkipSharedDeform PROVE Stable
    BY <1>10 DEF SkipSharedDeform
  <1>11. ASSUME GenerateCode PROVE Stable
    BY <1>11 DEF GenerateCode
  <1>12. ASSUME GenerateFails PROVE Stable
    BY <1>12 DEF GenerateFails
  <1>13. ASSUME StoreLock PROVE Stable
    BY <1>13 DEF StoreLock, Acquire, EntryFits, Usable
  <1>14. ASSUME StoreFull PROVE Stable
    BY <1>14 DEF StoreFull, Release
  <1>15. ASSUME StoreWrite PROVE Stable
    BY <1>15 DEF StoreWrite
  <1>16. ASSUME StoreCopy PROVE Stable
    BY <1>16 DEF StoreCopy
  <1>17. ASSUME StoreCount PROVE Stable
    BY <1>17 DEF StoreCount
  <1>18. ASSUME StoreUnlock PROVE Stable
    BY <1>18 DEF StoreUnlock, Release
  <1>19. ASSUME Register PROVE Stable
    BY <1>19 DEF Register
  <1>20. ASSUME RegisterError PROVE Stable
    BY <1>20 DEF RegisterError
  <1>21. ASSUME NEW w \in Workers, WBegin(w) PROVE Stable
    BY <1>21 DEF WBegin, WReadsSlot
  <1>22. ASSUME NEW w \in Workers, WAttach(w) PROVE Stable
    BY <1>22 DEF WAttach, CanAttach
  <1>23. ASSUME NEW w \in Workers, WAttachRefused(w) PROVE Stable
    BY <1>23 DEF WAttachRefused
  <1>24. ASSUME NEW w \in Workers, FindLock(w) PROVE Stable
    BY <1>24 DEF FindLock, Acquire
  <1>25. ASSUME NEW w \in Workers, FindNoEntry(w) PROVE Stable
    BY <1>25 DEF FindNoEntry
  <1>26. ASSUME NEW w \in Workers, FindNextEntry(w) PROVE Stable
    BY <1>26 DEF FindNextEntry
  <1>27. ASSUME NEW w \in Workers, FindUnlock(w) PROVE Stable
    BY <1>27 DEF FindUnlock, Release
  <1>28. ASSUME NEW w \in Workers, WUseShared(w) PROVE Stable
    BY <1>28 DEF WUseShared, Installed
  <1>29. ASSUME NEW w \in Workers, WUseFails(w) PROVE Stable
    BY <1>29 DEF WUseFails
  <1>30. ASSUME NEW w \in Workers, WCompileLocally(w) PROVE Stable
    BY <1>30 DEF WCompileLocally, Installed
  <1>31. ASSUME NEW w \in Workers, WFinish(w) PROVE Stable
    BY <1>31 DEF WFinish, WExit
  <1>32. ASSUME NEW w \in Workers, WFail(w) PROVE Stable
    BY <1>32 DEF WFail, WExit
  <1>33. ASSUME NEW w \in Workers, WTerminate(w) PROVE Stable
    BY <1>33 DEF WTerminate, WExit
  <1>34. ASSUME NEW w \in Workers, NEW c \in WContexts, WEndNested(w, c) PROVE Stable
    BY <1>34 DEF WEndNested, WCleanup
  <1>35. CASE UNCHANGED vars
    BY <1>35 DEF vars
  <1> QED
    BY <1>1, <1>2, <1>3, <1>4, <1>5, <1>6, <1>7, <1>8, <1>9, <1>10, <1>11,
       <1>12, <1>13, <1>14, <1>15, <1>16, <1>17, <1>18, <1>19, <1>20, <1>21,
       <1>22, <1>23, <1>24, <1>25, <1>26, <1>27, <1>28, <1>29, <1>30, <1>31,
       <1>32, <1>33, <1>34, <1>35
    DEF Next, LeaderCompiles, WorkerSteps

\* store_shared_code appends: bytes that a worker copies after it has released
\* the lock are those that it found.
THEOREM PublishedSafe == Spec => PublishedIsStable
  <1>1. ControlInv /\ [Next]_vars =>
            [\A h \in Handles :
                /\ num'[h] >= num[h]
                /\ \A i \in 1 .. num[h] : entries'[h][i] = entries[h][i]]_vars
    BY StableStep DEF Stable
  <1> QED
    BY <1>1, ControlCorrect, PTL DEF Spec, PublishedIsStable

-----------------------------------------------------------------------------
(* What workers run. *)

\* Published entries are complete; the one being written is the expression's.
CompleteInv ==
    /\ \A h \in Handles : \A i \in 1 .. num[h] :
            entries[h][i].code = entries[h][i].fp
    /\ lpc = "copy" => entries[LSeg][num[LSeg] + 1].fp = Expr.fp
    /\ lpc = "count" => entries[LSeg][num[LSeg] + 1].code
                            = entries[LSeg][num[LSeg] + 1].fp

\* What a worker found, and what it installed, is its expression's.
CodeAt(w) ==
    /\ wpc[w] = "new" => wk[w] = 1
    /\ wpc[w] \in {"unlock", "use"} /\ wfound[w] # 0 =>
            entries[WSeg(w)][wfound[w]].fp = WExpr(w).fp
    /\ wpc[w] = "next" /\ wk[w] > 1 =>
            wcode[w] \in {Interp, WPlan[wq[w]][wk[w] - 1].expr.fp}
CodeInv == \A w \in Workers : CodeAt(w)

LEMMA CompleteFrame ==
    ASSUME CompleteInv, UNCHANGED <<num, entries>>,
           \/ UNCHANGED <<lpc, lq, share, ordinal>>
           \/ lpc' \notin {"copy", "count"}
    PROVE  CompleteInv'
  BY DEF CompleteInv, LSeg, Expr

LEMMA CodeFrame ==
    ASSUME ControlInv, CodeInv, Stable, UNCHANGED workVars
    PROVE  CodeInv'
  <1> SUFFICES ASSUME NEW w \in Workers, wpc[w] \in {"unlock", "use"}, wfound[w] # 0
               PROVE  entries'[WSeg(w)][wfound[w]] = entries[WSeg(w)][wfound[w]]
    BY DEF CodeInv, CodeAt, workVars, WSeg, WExpr, WCtx, WItem
  <1>1. WSeg(w) \in Handles /\ wfound[w] \in Nat /\ wfound[w] <= num[WSeg(w)]
    BY DEF ControlInv, TypeOK, WorkTypeOK, WorkerAt, WFinding, MemoryAt
  <1>2. num[WSeg(w)] \in Nat
    BY <1>1 DEF ControlInv, TypeOK, SegTypeOK
  <1> HIDE DEF WSeg
  <1> QED
    BY <1>1, <1>2 DEF Stable

LEMMA CompleteStep ==
    ASSUME ControlInv, CompleteInv, Stable, [Next]_vars
    PROVE  CompleteInv'
  <1>1. ASSUME NEW q \in Queries, BeginCompile(q) PROVE CompleteInv'
    BY <1>1, CompleteFrame DEF BeginCompile, segVars, leadVars
  <1>2. ASSUME NEW q \in Queries, EndQuery(q) PROVE CompleteInv'
    BY <1>2, CompleteFrame DEF EndQuery, segVars, leadVars
  <1>3. ASSUME NEW q \in Queries, CancelQuery(q) PROVE CompleteInv'
    BY <1>3, CompleteFrame DEF CancelQuery, segVars, leadVars
  <1>4. ASSUME NEW w \in Workers, NEW q \in Queries, LaunchWorker(w, q) PROVE CompleteInv'
    BY <1>4, CompleteFrame DEF LaunchWorker, segVars, leadVars
  <1>5. ASSUME AbortQuery PROVE CompleteInv'
    BY <1>5, CompleteFrame DEF AbortQuery, segVars, leadVars
  <1>6. ASSUME SkipInitSharedDsm PROVE CompleteInv'
    BY <1>6, CompleteFrame DEF SkipInitSharedDsm, segVars, leadVars
  <1>7. ASSUME NEW h \in Handles, InitSharedDsm(h) PROVE CompleteInv'
    <2>1. \A g \in Handles : num'[g] = num[g]
      BY <1>7 DEF InitSharedDsm, ControlInv, TypeOK, SegTypeOK, MemoryAt
    <2> QED
      BY <1>7, <2>1 DEF InitSharedDsm, CompleteInv
  <1>8. ASSUME InitSharedDsmError PROVE CompleteInv'
    BY <1>8, CompleteFrame DEF InitSharedDsmError, segVars, leadVars
  <1>9. ASSUME CompileSharedDeform PROVE CompleteInv'
    BY <1>9, CompleteFrame DEF CompileSharedDeform, segVars, leadVars
  <1>10. ASSUME SkipSharedDeform PROVE CompleteInv'
    BY <1>10, CompleteFrame DEF SkipSharedDeform, segVars, leadVars
  <1>11. ASSUME GenerateCode PROVE CompleteInv'
    BY <1>11, CompleteFrame DEF GenerateCode, segVars, leadVars
  <1>12. ASSUME GenerateFails PROVE CompleteInv'
    BY <1>12, CompleteFrame DEF GenerateFails, segVars, leadVars
  <1>13. ASSUME StoreLock PROVE CompleteInv'
    BY <1>13, CompleteFrame DEF StoreLock, segVars, leadVars
  <1>14. ASSUME StoreFull PROVE CompleteInv'
    BY <1>14, CompleteFrame DEF StoreFull, segVars, leadVars
  <1>15. ASSUME StoreWrite PROVE CompleteInv'
    <2>1. LSeg \in Handles /\ num[LSeg] \in Nat /\ LSeg' = LSeg /\ Expr' = Expr
      BY <1>15 DEF StoreWrite, ControlInv, TypeOK, SegTypeOK, LeaderAt, Storing, LSeg, Expr
    <2>2. entries[LSeg] \in Seq(EntrySet) /\ Len(entries[LSeg]) = num[LSeg]
      BY <1>15, <2>1 DEF StoreWrite, ControlInv, TypeOK, SegTypeOK, MemoryAt, Writing
    <2>3. entries'[LSeg][num[LSeg] + 1].fp = Expr.fp
      <3> DEFINE e == [node |-> LIdentity.node, idx |-> LIdentity.idx,
                       fp |-> LIdentity.fp, size |-> Expr.size, code |-> Partial]
      <3>1. entries'[LSeg] = Append(entries[LSeg], e)
        BY <1>15, <2>1 DEF StoreWrite, ControlInv, TypeOK, SegTypeOK
      <3>2. e.fp = Expr.fp
        BY DEF LIdentity
      <3> HIDE DEF e
      <3>3. Append(entries[LSeg], e)[Len(entries[LSeg]) + 1] = e
        BY <2>2
      <3> QED
        BY <2>2, <3>1, <3>2, <3>3
    <2>4. num' = num /\ lpc' = "copy"
      BY <1>15 DEF StoreWrite
    <2>5. \A h \in Handles : \A i \in 1 .. num'[h] :
            entries'[h][i].code = entries'[h][i].fp
      BY <2>4 DEF Stable, CompleteInv
    <2>6. entries'[LSeg'][num'[LSeg'] + 1].fp = Expr'.fp
      BY <2>1, <2>3, <2>4
    <2> QED
      BY <2>4, <2>5, <2>6 DEF CompleteInv
  <1>16. ASSUME StoreCopy PROVE CompleteInv'
    <2>1. LSeg \in Handles /\ num[LSeg] \in Nat /\ LSeg' = LSeg
      BY <1>16 DEF StoreCopy, ControlInv, TypeOK, SegTypeOK, LeaderAt, Storing, LSeg
    <2>2. entries[LSeg] \in Seq(EntrySet) /\ Len(entries[LSeg]) = num[LSeg] + 1
      BY <1>16, <2>1 DEF StoreCopy, ControlInv, TypeOK, SegTypeOK, MemoryAt, Writing
    <2> DEFINE i == num[LSeg] + 1
    <2>3. entries[LSeg][i] \in EntrySet
      BY <2>1, <2>2
    <2>4. entries'[LSeg][i] = [entries[LSeg][i] EXCEPT !.code = Expr.fp]
      <3>1. entries'[LSeg] = [entries[LSeg] EXCEPT ![i] =
                                    [entries[LSeg][i] EXCEPT !.code = Expr.fp]]
        BY <1>16, <2>1 DEF StoreCopy, ControlInv, TypeOK, SegTypeOK
      <3>2. i \in DOMAIN entries[LSeg]
        BY <2>1, <2>2
      <3> QED
        BY <3>1, <3>2
    <2>5. entries'[LSeg][i].code = Expr.fp /\ entries'[LSeg][i].fp = entries[LSeg][i].fp
      BY <2>3, <2>4 DEF EntrySet
    <2>6. entries'[LSeg][i].code = entries'[LSeg][i].fp
      BY <1>16, <2>5 DEF StoreCopy, CompleteInv
    <2>7. \A h \in Handles : \A j \in 1 .. num'[h] :
            entries'[h][j] = entries[h][j] /\ num'[h] = num[h]
      BY <1>16 DEF Stable, StoreCopy
    <2> QED
      BY <1>16, <2>1, <2>6, <2>7 DEF StoreCopy, CompleteInv
  <1>17. ASSUME StoreCount PROVE CompleteInv'
    <2>1. LSeg \in Handles /\ \A h \in Handles : num[h] \in Nat
      BY <1>17 DEF StoreCount, ControlInv, TypeOK, SegTypeOK, LeaderAt, Storing
    <2>2. \A h \in Handles : num'[h] = IF h = LSeg THEN num[h] + 1 ELSE num[h]
      BY <1>17 DEF StoreCount, ControlInv, TypeOK, SegTypeOK
    <2>3. \A h \in Handles : \A i \in 1 .. num'[h] :
            i \in 1 .. num[h] \/ (h = LSeg /\ i = num[LSeg] + 1)
      BY <2>1, <2>2
    <2> QED
      BY <1>17, <2>3 DEF StoreCount, CompleteInv
  <1>18. ASSUME StoreUnlock PROVE CompleteInv'
    BY <1>18, CompleteFrame DEF StoreUnlock, segVars, leadVars
  <1>19. ASSUME Register PROVE CompleteInv'
    BY <1>19, CompleteFrame DEF Register, segVars, leadVars
  <1>20. ASSUME RegisterError PROVE CompleteInv'
    BY <1>20, CompleteFrame DEF RegisterError, segVars, leadVars
  <1>21. ASSUME NEW w \in Workers, WBegin(w) PROVE CompleteInv'
    BY <1>21, CompleteFrame DEF WBegin, segVars, leadVars
  <1>22. ASSUME NEW w \in Workers, WAttach(w) PROVE CompleteInv'
    BY <1>22, CompleteFrame DEF WAttach, segVars, leadVars
  <1>23. ASSUME NEW w \in Workers, WAttachRefused(w) PROVE CompleteInv'
    BY <1>23, CompleteFrame DEF WAttachRefused, segVars, leadVars
  <1>24. ASSUME NEW w \in Workers, FindLock(w) PROVE CompleteInv'
    BY <1>24, CompleteFrame DEF FindLock, segVars, leadVars
  <1>25. ASSUME NEW w \in Workers, FindNoEntry(w) PROVE CompleteInv'
    BY <1>25, CompleteFrame DEF FindNoEntry, segVars, leadVars
  <1>26. ASSUME NEW w \in Workers, FindNextEntry(w) PROVE CompleteInv'
    BY <1>26, CompleteFrame DEF FindNextEntry, segVars, leadVars
  <1>27. ASSUME NEW w \in Workers, FindUnlock(w) PROVE CompleteInv'
    BY <1>27, CompleteFrame DEF FindUnlock, segVars, leadVars
  <1>28. ASSUME NEW w \in Workers, WUseShared(w) PROVE CompleteInv'
    BY <1>28, CompleteFrame DEF WUseShared, Installed, segVars, leadVars
  <1>29. ASSUME NEW w \in Workers, WUseFails(w) PROVE CompleteInv'
    BY <1>29, CompleteFrame DEF WUseFails, segVars, leadVars
  <1>30. ASSUME NEW w \in Workers, WCompileLocally(w) PROVE CompleteInv'
    BY <1>30, CompleteFrame DEF WCompileLocally, Installed, segVars, leadVars
  <1>31. ASSUME NEW w \in Workers, WFinish(w) PROVE CompleteInv'
    BY <1>31, CompleteFrame DEF WFinish, WExit, segVars, leadVars
  <1>32. ASSUME NEW w \in Workers, WFail(w) PROVE CompleteInv'
    BY <1>32, CompleteFrame DEF WFail, WExit, segVars, leadVars
  <1>33. ASSUME NEW w \in Workers, WTerminate(w) PROVE CompleteInv'
    BY <1>33, CompleteFrame DEF WTerminate, WExit, segVars, leadVars
  <1>34. ASSUME NEW w \in Workers, NEW c \in WContexts, WEndNested(w, c) PROVE CompleteInv'
    BY <1>34, CompleteFrame DEF WEndNested, segVars, leadVars
  <1>35. CASE UNCHANGED vars
    BY <1>35, CompleteFrame DEF vars, segVars, leadVars
  <1> QED
    BY <1>1, <1>2, <1>3, <1>4, <1>5, <1>6, <1>7, <1>8, <1>9, <1>10, <1>11,
       <1>12, <1>13, <1>14, <1>15, <1>16, <1>17, <1>18, <1>19, <1>20, <1>21,
       <1>22, <1>23, <1>24, <1>25, <1>26, <1>27, <1>28, <1>29, <1>30, <1>31,
       <1>32, <1>33, <1>34, <1>35
    DEF Next, LeaderCompiles, WorkerSteps

LEMMA CodeStep ==
    ASSUME ControlInv, CompleteInv, CodeInv, Stable, [Next]_vars
    PROVE  CodeInv'
  <1>1. ASSUME NEW q \in Queries, BeginCompile(q) PROVE CodeInv'
    BY <1>1, CodeFrame DEF BeginCompile
  <1>2. ASSUME NEW q \in Queries, EndQuery(q) PROVE CodeInv'
    BY <1>2, CodeFrame DEF EndQuery
  <1>3. ASSUME NEW q \in Queries, CancelQuery(q) PROVE CodeInv'
    BY <1>3, CodeFrame DEF CancelQuery
  <1>4. ASSUME NEW w \in Workers, NEW q \in Queries, LaunchWorker(w, q) PROVE CodeInv'
    <2>1. \A v \in Workers \ {w} :
            /\ wpc'[v] = wpc[v] /\ wk'[v] = wk[v] /\ wq'[v] = wq[v]
            /\ wfound'[v] = wfound[v] /\ wcode'[v] = wcode[v]
            /\ WSeg(v)' = WSeg(v) /\ WExpr(v)' = WExpr(v)
      BY <1>4 DEF LaunchWorker, ControlInv, TypeOK, WorkTypeOK, WSeg, WExpr, WCtx, WItem
    <2>2. CodeAt(w)'
      <3>1. wpc'[w] = "next" /\ wk'[w] = 1
        BY <1>4 DEF LaunchWorker, CodeInv, CodeAt, ControlInv, TypeOK, WorkTypeOK
      <3> QED
        BY <3>1 DEF CodeAt
    <2> QED
      BY <1>4, <2>1, <2>2 DEF LaunchWorker, CodeInv, CodeAt, segVars
  <1>5. ASSUME AbortQuery PROVE CodeInv'
    BY <1>5, CodeFrame DEF AbortQuery
  <1>6. ASSUME SkipInitSharedDsm PROVE CodeInv'
    BY <1>6, CodeFrame DEF SkipInitSharedDsm
  <1>7. ASSUME NEW h \in Handles, InitSharedDsm(h) PROVE CodeInv'
    BY <1>7, CodeFrame DEF InitSharedDsm
  <1>8. ASSUME InitSharedDsmError PROVE CodeInv'
    BY <1>8, CodeFrame DEF InitSharedDsmError
  <1>9. ASSUME CompileSharedDeform PROVE CodeInv'
    BY <1>9, CodeFrame DEF CompileSharedDeform
  <1>10. ASSUME SkipSharedDeform PROVE CodeInv'
    BY <1>10, CodeFrame DEF SkipSharedDeform
  <1>11. ASSUME GenerateCode PROVE CodeInv'
    BY <1>11, CodeFrame DEF GenerateCode
  <1>12. ASSUME GenerateFails PROVE CodeInv'
    BY <1>12, CodeFrame DEF GenerateFails
  <1>13. ASSUME StoreLock PROVE CodeInv'
    BY <1>13, CodeFrame DEF StoreLock
  <1>14. ASSUME StoreFull PROVE CodeInv'
    BY <1>14, CodeFrame DEF StoreFull
  <1>15. ASSUME StoreWrite PROVE CodeInv'
    BY <1>15, CodeFrame DEF StoreWrite
  <1>16. ASSUME StoreCopy PROVE CodeInv'
    BY <1>16, CodeFrame DEF StoreCopy
  <1>17. ASSUME StoreCount PROVE CodeInv'
    BY <1>17, CodeFrame DEF StoreCount
  <1>18. ASSUME StoreUnlock PROVE CodeInv'
    BY <1>18, CodeFrame DEF StoreUnlock
  <1>19. ASSUME Register PROVE CodeInv'
    BY <1>19, CodeFrame DEF Register
  <1>20. ASSUME RegisterError PROVE CodeInv'
    BY <1>20, CodeFrame DEF RegisterError
  <1>21. ASSUME NEW w \in Workers, WBegin(w) PROVE CodeInv'
    <2>1. \A v \in Workers \ {w} :
            /\ wpc'[v] = wpc[v] /\ wk'[v] = wk[v] /\ wq'[v] = wq[v]
            /\ wfound'[v] = wfound[v] /\ wcode'[v] = wcode[v]
            /\ WSeg(v)' = WSeg(v) /\ WExpr(v)' = WExpr(v)
      BY <1>21 DEF WBegin, ControlInv, TypeOK, WorkTypeOK, WSeg, WExpr, WCtx, WItem
    <2>2. CodeAt(w)'
      BY <1>21 DEF WBegin, CodeInv, CodeAt, ControlInv, TypeOK, WorkTypeOK, MemoryAt,
         WSeg, WExpr, WCtx, WItem
    <2> QED
      BY <1>21, <2>1, <2>2 DEF WBegin, CodeInv, CodeAt, segVars
  <1>22. ASSUME NEW w \in Workers, WAttach(w) PROVE CodeInv'
    <2>1. \A v \in Workers \ {w} :
            /\ wpc'[v] = wpc[v] /\ wk'[v] = wk[v] /\ wq'[v] = wq[v]
            /\ wfound'[v] = wfound[v] /\ wcode'[v] = wcode[v]
            /\ WSeg(v)' = WSeg(v) /\ WExpr(v)' = WExpr(v)
      BY <1>22 DEF WAttach, ControlInv, TypeOK, WorkTypeOK, WSeg, WExpr, WCtx, WItem
    <2>2. CodeAt(w)'
      BY <1>22 DEF WAttach, CodeInv, CodeAt, ControlInv, TypeOK, WorkTypeOK, MemoryAt,
         WSeg, WExpr, WCtx, WItem
    <2> QED
      BY <1>22, <2>1, <2>2 DEF WAttach, CodeInv, CodeAt, segVars
  <1>23. ASSUME NEW w \in Workers, WAttachRefused(w) PROVE CodeInv'
    <2>1. \A v \in Workers \ {w} :
            /\ wpc'[v] = wpc[v] /\ wk'[v] = wk[v] /\ wq'[v] = wq[v]
            /\ wfound'[v] = wfound[v] /\ wcode'[v] = wcode[v]
            /\ WSeg(v)' = WSeg(v) /\ WExpr(v)' = WExpr(v)
      BY <1>23 DEF WAttachRefused, ControlInv, TypeOK, WorkTypeOK, WSeg, WExpr, WCtx, WItem
    <2>2. CodeAt(w)'
      BY <1>23 DEF WAttachRefused, CodeInv, CodeAt, ControlInv, TypeOK, WorkTypeOK, MemoryAt,
         WSeg, WExpr, WCtx, WItem
    <2> QED
      BY <1>23, <2>1, <2>2 DEF WAttachRefused, CodeInv, CodeAt, segVars
  <1>24. ASSUME NEW w \in Workers, FindLock(w) PROVE CodeInv'
    <2>1. \A v \in Workers \ {w} :
            /\ wpc'[v] = wpc[v] /\ wk'[v] = wk[v] /\ wq'[v] = wq[v]
            /\ wfound'[v] = wfound[v] /\ wcode'[v] = wcode[v]
            /\ WSeg(v)' = WSeg(v) /\ WExpr(v)' = WExpr(v)
      BY <1>24 DEF FindLock, ControlInv, TypeOK, WorkTypeOK, WSeg, WExpr, WCtx, WItem
    <2>2. CodeAt(w)'
      BY <1>24 DEF FindLock, CodeInv, CodeAt, ControlInv, TypeOK, WorkTypeOK, MemoryAt,
         WSeg, WExpr, WCtx, WItem
    <2> QED
      BY <1>24, <2>1, <2>2 DEF FindLock, CodeInv, CodeAt, segVars
  <1>25. ASSUME NEW w \in Workers, FindNoEntry(w) PROVE CodeInv'
    <2>1. \A v \in Workers \ {w} :
            /\ wpc'[v] = wpc[v] /\ wk'[v] = wk[v] /\ wq'[v] = wq[v]
            /\ wfound'[v] = wfound[v] /\ wcode'[v] = wcode[v]
            /\ WSeg(v)' = WSeg(v) /\ WExpr(v)' = WExpr(v)
      BY <1>25 DEF FindNoEntry, ControlInv, TypeOK, WorkTypeOK, WSeg, WExpr, WCtx, WItem
    <2>2. CodeAt(w)'
      BY <1>25 DEF FindNoEntry, CodeInv, CodeAt, ControlInv, TypeOK, WorkTypeOK, MemoryAt,
         WSeg, WExpr, WCtx, WItem
    <2> QED
      BY <1>25, <2>1, <2>2 DEF FindNoEntry, CodeInv, CodeAt, segVars
  <1>26. ASSUME NEW w \in Workers, FindNextEntry(w) PROVE CodeInv'
    <2>1. \A v \in Workers \ {w} :
            /\ wpc'[v] = wpc[v] /\ wk'[v] = wk[v] /\ wq'[v] = wq[v]
            /\ wfound'[v] = wfound[v] /\ wcode'[v] = wcode[v]
            /\ WSeg(v)' = WSeg(v) /\ WExpr(v)' = WExpr(v)
      BY <1>26 DEF FindNextEntry, ControlInv, TypeOK, WorkTypeOK, WSeg, WExpr, WCtx, WItem
    <2>2. CodeAt(w)'
      <3>1. /\ wpc[w] = "scan" /\ wpc'[w] \in {"scan", "unlock"}
            /\ WSeg(w)' = WSeg(w) /\ WExpr(w)' = WExpr(w) /\ entries' = entries
            /\ wfound[w] = 0
        BY <1>26 DEF FindNextEntry, ControlInv, TypeOK, WorkTypeOK, MemoryAt, WSeg,
           WExpr, WCtx, WItem, segVars
      <3>2. wfound'[w] # 0 => entries[WSeg(w)][wfound'[w]].fp = WExpr(w).fp
        BY <1>26, <3>1 DEF FindNextEntry, Matches, WIdentity, ControlInv, TypeOK,
           WorkTypeOK
      <3> QED
        BY <3>1, <3>2 DEF CodeAt
    <2> QED
      BY <1>26, <2>1, <2>2 DEF FindNextEntry, CodeInv, CodeAt, segVars
  <1>27. ASSUME NEW w \in Workers, FindUnlock(w) PROVE CodeInv'
    <2>1. \A v \in Workers \ {w} :
            /\ wpc'[v] = wpc[v] /\ wk'[v] = wk[v] /\ wq'[v] = wq[v]
            /\ wfound'[v] = wfound[v] /\ wcode'[v] = wcode[v]
            /\ WSeg(v)' = WSeg(v) /\ WExpr(v)' = WExpr(v)
      BY <1>27 DEF FindUnlock, ControlInv, TypeOK, WorkTypeOK, WSeg, WExpr, WCtx, WItem
    <2>2. CodeAt(w)'
      BY <1>27 DEF FindUnlock, CodeInv, CodeAt, ControlInv, TypeOK, WorkTypeOK, MemoryAt,
         WSeg, WExpr, WCtx, WItem
    <2> QED
      BY <1>27, <2>1, <2>2 DEF FindUnlock, CodeInv, CodeAt, segVars
  <1>28. ASSUME NEW w \in Workers, WUseShared(w) PROVE CodeInv'
    <2>1. \A v \in Workers \ {w} :
            /\ wpc'[v] = wpc[v] /\ wk'[v] = wk[v] /\ wq'[v] = wq[v]
            /\ wfound'[v] = wfound[v] /\ wcode'[v] = wcode[v]
            /\ WSeg(v)' = WSeg(v) /\ WExpr(v)' = WExpr(v)
      BY <1>28 DEF WUseShared, Installed, ControlInv, TypeOK, WorkTypeOK, WSeg, WExpr, WCtx, WItem
    <2>0. entries[WSeg(w)][wfound[w]].code = WExpr(w).fp
      <3>1. /\ WSeg(w) \in Handles /\ wfound[w] \in Nat \ {0}
            /\ wfound[w] <= num[WSeg(w)] /\ num[WSeg(w)] \in Nat
        BY <1>28 DEF WUseShared, ControlInv, TypeOK, SegTypeOK, WorkTypeOK, WorkerAt,
           WFinding, MemoryAt
      <3>2. entries[WSeg(w)][wfound[w]].fp = WExpr(w).fp
        BY <1>28, <3>1 DEF WUseShared, CodeInv, CodeAt
      <3> QED
        BY <3>1, <3>2 DEF CompleteInv
    <2>2. CodeAt(w)'
      <3>1. /\ wpc'[w] = "next" /\ wq' = wq /\ wk'[w] - 1 = wk[w]
            /\ wcode'[w] = WExpr(w).fp
        BY <1>28, <2>0 DEF WUseShared, Installed, ControlInv, TypeOK, WorkTypeOK
      <3>2. WPlan[wq'[w]][wk'[w] - 1].expr = WExpr(w)
        BY <3>1 DEF WExpr, WItem
      <3> QED
        BY <3>1, <3>2 DEF CodeAt
    <2>3. entries' = entries
      BY <1>28 DEF WUseShared, segVars
    <2> QED
      BY <2>1, <2>2, <2>3 DEF CodeInv, CodeAt
  <1>29. ASSUME NEW w \in Workers, WUseFails(w) PROVE CodeInv'
    <2>1. \A v \in Workers \ {w} :
            /\ wpc'[v] = wpc[v] /\ wk'[v] = wk[v] /\ wq'[v] = wq[v]
            /\ wfound'[v] = wfound[v] /\ wcode'[v] = wcode[v]
            /\ WSeg(v)' = WSeg(v) /\ WExpr(v)' = WExpr(v)
      BY <1>29 DEF WUseFails, ControlInv, TypeOK, WorkTypeOK, WSeg, WExpr, WCtx, WItem
    <2>2. CodeAt(w)'
      BY <1>29 DEF WUseFails, CodeInv, CodeAt, ControlInv, TypeOK, WorkTypeOK, MemoryAt,
         WSeg, WExpr, WCtx, WItem
    <2> QED
      BY <1>29, <2>1, <2>2 DEF WUseFails, CodeInv, CodeAt, segVars
  <1>30. ASSUME NEW w \in Workers, WCompileLocally(w) PROVE CodeInv'
    <2>1. \A v \in Workers \ {w} :
            /\ wpc'[v] = wpc[v] /\ wk'[v] = wk[v] /\ wq'[v] = wq[v]
            /\ wfound'[v] = wfound[v] /\ wcode'[v] = wcode[v]
            /\ WSeg(v)' = WSeg(v) /\ WExpr(v)' = WExpr(v)
      BY <1>30 DEF WCompileLocally, Installed, ControlInv, TypeOK, WorkTypeOK, WSeg, WExpr, WCtx, WItem
    <2>2. CodeAt(w)'
      <3>1. /\ wpc'[w] = "next" /\ wq' = wq /\ wk'[w] - 1 = wk[w]
            /\ wcode'[w] \in {Interp, WExpr(w).fp}
        BY <1>30 DEF WCompileLocally, Installed, ControlInv, TypeOK, WorkTypeOK
      <3>2. WPlan[wq'[w]][wk'[w] - 1].expr = WExpr(w)
        BY <3>1 DEF WExpr, WItem
      <3> QED
        BY <3>1, <3>2 DEF CodeAt
    <2>3. entries' = entries
      BY <1>30 DEF WCompileLocally, segVars
    <2> QED
      BY <2>1, <2>2, <2>3 DEF CodeInv, CodeAt
  <1>31. ASSUME NEW w \in Workers, WFinish(w) PROVE CodeInv'
    <2>1. \A v \in Workers \ {w} :
            /\ wpc'[v] = wpc[v] /\ wk'[v] = wk[v] /\ wq'[v] = wq[v]
            /\ wfound'[v] = wfound[v] /\ wcode'[v] = wcode[v]
            /\ WSeg(v)' = WSeg(v) /\ WExpr(v)' = WExpr(v)
      BY <1>31 DEF WFinish, WExit, ControlInv, TypeOK, WorkTypeOK, WSeg, WExpr, WCtx, WItem
    <2>2. CodeAt(w)'
      BY <1>31 DEF WFinish, WExit, CodeInv, CodeAt, ControlInv, TypeOK, WorkTypeOK, MemoryAt,
         WSeg, WExpr, WCtx, WItem
    <2>3. entries' = entries
      BY <1>31 DEF WFinish, WExit, segVars
    <2> QED
      BY <2>1, <2>2, <2>3 DEF CodeInv, CodeAt
  <1>32. ASSUME NEW w \in Workers, WFail(w) PROVE CodeInv'
    <2>1. \A v \in Workers \ {w} :
            /\ wpc'[v] = wpc[v] /\ wk'[v] = wk[v] /\ wq'[v] = wq[v]
            /\ wfound'[v] = wfound[v] /\ wcode'[v] = wcode[v]
            /\ WSeg(v)' = WSeg(v) /\ WExpr(v)' = WExpr(v)
      BY <1>32 DEF WFail, WExit, ControlInv, TypeOK, WorkTypeOK, WSeg, WExpr, WCtx, WItem
    <2>2. CodeAt(w)'
      BY <1>32 DEF WFail, WExit, CodeInv, CodeAt, ControlInv, TypeOK, WorkTypeOK, MemoryAt,
         WSeg, WExpr, WCtx, WItem
    <2>3. entries' = entries
      BY <1>32 DEF WFail, WExit, segVars
    <2> QED
      BY <2>1, <2>2, <2>3 DEF CodeInv, CodeAt
  <1>33. ASSUME NEW w \in Workers, WTerminate(w) PROVE CodeInv'
    <2>1. \A v \in Workers \ {w} :
            /\ wpc'[v] = wpc[v] /\ wk'[v] = wk[v] /\ wq'[v] = wq[v]
            /\ wfound'[v] = wfound[v] /\ wcode'[v] = wcode[v]
            /\ WSeg(v)' = WSeg(v) /\ WExpr(v)' = WExpr(v)
      BY <1>33 DEF WTerminate, WExit, ControlInv, TypeOK, WorkTypeOK, WSeg, WExpr, WCtx, WItem
    <2>2. CodeAt(w)'
      BY <1>33 DEF WTerminate, WExit, CodeInv, CodeAt, ControlInv, TypeOK, WorkTypeOK, MemoryAt,
         WSeg, WExpr, WCtx, WItem
    <2>3. entries' = entries
      BY <1>33 DEF WTerminate, WExit, segVars
    <2> QED
      BY <2>1, <2>2, <2>3 DEF CodeInv, CodeAt
  <1>34. ASSUME NEW w \in Workers, NEW c \in WContexts, WEndNested(w, c) PROVE CodeInv'
    <2>1. \A v \in Workers :
            wpc[v] \in {"unlock", "use"} => WSeg(v)' = WSeg(v)
      BY <1>34 DEF WEndNested, WCleanup, ControlInv, TypeOK, WorkTypeOK, WSeg, WCtx, WItem
    <2> QED
      BY <1>34, <2>1 DEF WEndNested, CodeInv, CodeAt, WExpr, WItem, segVars
  <1>35. CASE UNCHANGED vars
    BY <1>35, CodeFrame DEF vars
  <1> QED
    BY <1>1, <1>2, <1>3, <1>4, <1>5, <1>6, <1>7, <1>8, <1>9, <1>10, <1>11,
       <1>12, <1>13, <1>14, <1>15, <1>16, <1>17, <1>18, <1>19, <1>20, <1>21,
       <1>22, <1>23, <1>24, <1>25, <1>26, <1>27, <1>28, <1>29, <1>30, <1>31,
       <1>32, <1>33, <1>34, <1>35
    DEF Next, LeaderCompiles, WorkerSteps

LEMMA CompleteCorrect == Spec => []CompleteInv
  <1>1. Init => CompleteInv
    BY DEF Init, CompleteInv
  <1>2. ControlInv /\ CompleteInv /\ [Next]_vars => CompleteInv'
    BY CompleteStep, StableStep
  <1> QED
    BY <1>1, <1>2, ControlCorrect, PTL DEF Spec

\* Code found by node, ordinal and fingerprint is the code of the expression it
\* was looked up for, in whatever segment the worker has attached.
THEOREM InstalledSafe == Spec => []InstalledIsOwn
  <1>1. Init => CodeInv
    BY DEF Init, CodeInv, CodeAt
  <1>2. ControlInv /\ CompleteInv /\ CodeInv /\ [Next]_vars => CodeInv'
    BY CodeStep, StableStep
  <1>3. CodeInv => InstalledIsOwn
    BY DEF CodeInv, CodeAt, InstalledIsOwn
  <1> QED
    BY <1>1, <1>2, <1>3, ControlCorrect, CompleteCorrect, PTL DEF Spec

-----------------------------------------------------------------------------
(* The spinlock. *)

\* A process knows only segments that exist.
SegmentsMade ==
    /\ slot \in made \cup {NoHandle}
    /\ \A w \in Workers : wseen[w] \in made \cup {NoHandle}
    /\ \A w \in Workers, c \in WContexts : wshare[w][c] \in made \cup {NoHandle}

\* Two processes are never between acquire and release, whatever becomes of the
\* message that store_shared_code logs there; nobody leaves the lock behind if
\* it is not written out.
Exclusive ==
    \A h \in Handles :
        /\ \A p \in Processes : Holds(p, h) => lock[h]
        /\ \A p, r \in Processes : Holds(p, h) /\ Holds(r, h) => p = r
NeverStuck ==
    DebugLogged = FALSE => \A h \in Handles : lock[h] => \E p \in Processes : Holds(p, h)
LockKept == Exclusive /\ NeverStuck

LockInv == LockKept /\ SegmentsMade

LEMMA LockFrame ==
    ASSUME LockKept, UNCHANGED lock,
           \A p \in Processes, h \in Handles : Holds(p, h)' = Holds(p, h)
    PROVE  LockKept'
  BY DEF LockKept, Exclusive, NeverStuck

LEMMA LockAcquired ==
    ASSUME ControlInv, LockKept, NEW h \in Handles, Acquire(h),
           NEW p \in Processes,
           \A g \in Handles : ~Holds(p, g) /\ (Holds(p, g)' <=> g = h),
           \A r \in Processes \ {p}, g \in Handles : Holds(r, g)' = Holds(r, g)
    PROVE  LockKept'
  <1>1. /\ lock[h] = FALSE /\ lock'[h] = TRUE
        /\ \A g \in Handles \ {h} : lock'[g] = lock[g]
    BY DEF ControlInv, TypeOK, SegTypeOK, Acquire
  <1>2. \A r \in Processes : ~Holds(r, h)
    BY <1>1 DEF LockKept, Exclusive
  <1>3. \A r \in Processes : Holds(r, h)' <=> r = p
    BY <1>2
  <1>4. \A r \in Processes, g \in Handles \ {h} : Holds(r, g)' <=> Holds(r, g)
    OBVIOUS
  <1>5. Exclusive'
    BY <1>1, <1>3, <1>4 DEF LockKept, Exclusive
  <1>6. NeverStuck'
    BY <1>1, <1>3, <1>4 DEF LockKept, NeverStuck
  <1> QED
    BY <1>5, <1>6 DEF LockKept

LEMMA LockReleased ==
    ASSUME ControlInv, LockKept, NEW h \in Handles, Release(h),
           NEW p \in Processes,
           \A g \in Handles : ~Holds(p, g)' /\ (Holds(p, g) <=> g = h),
           \A r \in Processes \ {p}, g \in Handles : Holds(r, g)' = Holds(r, g)
    PROVE  LockKept'
  <1>1. /\ lock'[h] = FALSE
        /\ \A g \in Handles \ {h} : lock'[g] = lock[g]
    BY DEF ControlInv, TypeOK, SegTypeOK, Release
  <1>2. \A r \in Processes : ~Holds(r, h)'
    BY DEF LockKept, Exclusive
  <1>3. \A r \in Processes, g \in Handles \ {h} : Holds(r, g)' <=> Holds(r, g)
    OBVIOUS
  <1>4. Exclusive'
    BY <1>1, <1>2, <1>3 DEF LockKept, Exclusive
  <1>5. NeverStuck'
    BY <1>1, <1>3 DEF LockKept, NeverStuck
  <1> QED
    BY <1>4, <1>5 DEF LockKept

\* Steps of the leader leave the workers alone, and the other way round.
LEMMA LeaderStepHolds ==
    ASSUME UNCHANGED <<wpc, wq, wk, wshare>>
    PROVE  \A p \in Processes \ {Leader}, h \in Handles : Holds(p, h)' = Holds(p, h)
  BY DEF Holds, WSeg, WCtx, WItem

LEMMA WorkerStepHolds ==
    ASSUME ControlInv, NEW w \in Workers, UNCHANGED <<lpc, lq, share, wq>>,
           \A v \in Workers \ {w} :
                wpc'[v] = wpc[v] /\ wk'[v] = wk[v] /\ wshare'[v] = wshare[v]
    PROVE  \A p \in Processes \ {w}, h \in Handles : Holds(p, h)' = Holds(p, h)
  BY DEF Holds, Processes, LSeg, WSeg, WCtx, WItem

LEMMA LockStep ==
    ASSUME ControlInv, LockInv, [Next]_vars
    PROVE  LockInv'
  <1>1. ASSUME NEW q \in Queries, BeginCompile(q) PROVE LockInv'
    BY <1>1, LockFrame, LeaderStepHolds, SharedCodeAssumption
    DEF Holds, Processes, LSeg, SegmentsMade, LockInv, BeginCompile, segVars, leadVars, workVars
  <1>2. ASSUME NEW q \in Queries, EndQuery(q) PROVE LockInv'
    BY <1>2, LockFrame, LeaderStepHolds, SharedCodeAssumption
    DEF Holds, Processes, LSeg, SegmentsMade, LockInv, EndQuery, CleanupSharedDsm, segVars, leadVars, workVars
  <1>3. ASSUME NEW q \in Queries, CancelQuery(q) PROVE LockInv'
    BY <1>3, LockFrame, LeaderStepHolds, SharedCodeAssumption
    DEF Holds, Processes, LSeg, SegmentsMade, LockInv, CancelQuery, segVars, leadVars, workVars
  <1>4. ASSUME NEW w \in Workers, NEW q \in Queries, LaunchWorker(w, q) PROVE LockInv'
    <2>1. \A v \in Workers \ {w} :
            wpc'[v] = wpc[v] /\ wq'[v] = wq[v]
      BY <1>4 DEF LaunchWorker, ControlInv, TypeOK, WorkTypeOK
    <2>2. wpc[w] = "new" /\ wpc'[w] = "next"
      BY <1>4 DEF LaunchWorker, ControlInv, TypeOK, WorkTypeOK
    <2>3. \A p \in Processes, h \in Handles : Holds(p, h)' = Holds(p, h)
      BY <1>4, <2>1, <2>2 DEF LaunchWorker, Holds, Processes, LSeg, WSeg, WCtx,
         WItem, leadVars
    <2> QED
      BY <1>4, <2>3, LockFrame DEF LaunchWorker, LockInv, SegmentsMade, segVars
  <1>5. ASSUME AbortQuery PROVE LockInv'
    BY <1>5, LockFrame, LeaderStepHolds, SharedCodeAssumption
    DEF Holds, Processes, LSeg, SegmentsMade, LockInv, AbortQuery, CleanupSharedDsm, segVars, leadVars, workVars
  <1>6. ASSUME SkipInitSharedDsm PROVE LockInv'
    BY <1>6, LockFrame, LeaderStepHolds, SharedCodeAssumption
    DEF Holds, Processes, LSeg, SegmentsMade, LockInv, SkipInitSharedDsm, segVars, leadVars, workVars
  <1>7. ASSUME NEW h \in Handles, InitSharedDsm(h) PROVE LockInv'
    <2>1. share[lq] = NoHandle /\ share' = [share EXCEPT ![lq] = h] /\ lq \in Queries
      BY <1>7 DEF InitSharedDsm, LSeg, ControlInv, TypeOK, LeadTypeOK
    <2>2. \A g \in Handles : ~Holds(Leader, g) /\ ~Holds(Leader, g)'
      BY <1>7 DEF InitSharedDsm, Holds
    <2>3. \A w \in Workers, g \in Handles : Holds(w, g)' = Holds(w, g)
      BY <1>7, LeaderStepHolds, SharedCodeAssumption
      DEF InitSharedDsm, workVars, Processes
    <2>4. \A w \in Workers : ~Holds(w, h)
      <3> SUFFICES ASSUME NEW w \in Workers, Holds(w, h) PROVE FALSE
        OBVIOUS
      <3>1. wpc[w] \in {"scan", "unlock"} /\ WSeg(w) = h
        BY SharedCodeAssumption DEF Holds
      <3>2. WCtx(w) \in WContexts
        BY <3>1, WItemType DEF WCompiling
      <3> QED
        BY <1>7, <3>1, <3>2, SharedCodeAssumption
        DEF InitSharedDsm, LockInv, SegmentsMade, WSeg
    <2>5. \A g \in Handles : lock'[g] = IF g = h THEN FALSE ELSE lock[g]
      BY <1>7 DEF InitSharedDsm, ControlInv, TypeOK, SegTypeOK
    <2>6. LockKept'
      <3>1. \A p \in Processes, g \in Handles : Holds(p, g)' <=> Holds(p, g)
        BY <2>2, <2>3 DEF Processes
      <3>2. \A p \in Processes : ~Holds(p, h)
        BY <2>2, <2>4 DEF Processes
      <3>3. Exclusive'
        BY <2>5, <3>1, <3>2 DEF LockInv, LockKept, Exclusive
      <3>4. NeverStuck'
        BY <2>5, <3>1, <3>2 DEF LockInv, LockKept, NeverStuck
      <3> QED
        BY <3>3, <3>4 DEF LockKept
    <2>7. SegmentsMade'
      BY <1>7 DEF InitSharedDsm, LockInv, SegmentsMade, workVars
    <2> QED
      BY <2>6, <2>7 DEF LockInv
  <1>8. ASSUME InitSharedDsmError PROVE LockInv'
    BY <1>8, LockFrame, LeaderStepHolds, SharedCodeAssumption
    DEF Holds, Processes, LSeg, SegmentsMade, LockInv, InitSharedDsmError, segVars, leadVars, workVars
  <1>9. ASSUME CompileSharedDeform PROVE LockInv'
    BY <1>9, LockFrame, LeaderStepHolds, SharedCodeAssumption
    DEF Holds, Processes, LSeg, SegmentsMade, LockInv, CompileSharedDeform, DeformWanted, DeformFits, segVars, leadVars, workVars
  <1>10. ASSUME SkipSharedDeform PROVE LockInv'
    BY <1>10, LockFrame, LeaderStepHolds, SharedCodeAssumption
    DEF Holds, Processes, LSeg, SegmentsMade, LockInv, SkipSharedDeform, segVars, leadVars, workVars
  <1>11. ASSUME GenerateCode PROVE LockInv'
    BY <1>11, LockFrame, LeaderStepHolds, SharedCodeAssumption
    DEF Holds, Processes, LSeg, SegmentsMade, LockInv, GenerateCode, segVars, leadVars, workVars
  <1>12. ASSUME GenerateFails PROVE LockInv'
    BY <1>12, LockFrame, LeaderStepHolds, SharedCodeAssumption
    DEF Holds, Processes, LSeg, SegmentsMade, LockInv, GenerateFails, segVars, leadVars, workVars
  <1>13. ASSUME StoreLock PROVE LockInv'
    <2>1. LSeg \in Handles /\ Leader \in Processes
      BY <1>13 DEF StoreLock, ControlInv, LeaderAt, Storing, Processes
    <2>2. \A g \in Handles : ~Holds(Leader, g) /\ (Holds(Leader, g)' <=> g = LSeg)
      BY <1>13 DEF Holds, StoreLock, LSeg
    <2>3. \A p \in Processes \ {Leader}, h \in Handles : Holds(p, h)' = Holds(p, h)
      BY <1>13, LeaderStepHolds DEF StoreLock, workVars
    <2>4. LockKept'
      BY <1>13, <2>1, <2>2, <2>3, LockAcquired DEF StoreLock, LockInv
    <2>5. SegmentsMade'
      BY <1>13 DEF StoreLock, LockInv, SegmentsMade, workVars
    <2> QED
      BY <2>4, <2>5 DEF LockInv
  <1>14. ASSUME StoreFull PROVE LockInv'
    <2>1. LSeg \in Handles /\ Leader \in Processes
      BY <1>14 DEF StoreFull, ControlInv, LeaderAt, Storing, Processes
    <2>2. \A g \in Handles : ~Holds(Leader, g)' /\ (Holds(Leader, g) <=> g = LSeg)
      BY <1>14 DEF Holds, StoreFull, LSeg
    <2>3. \A p \in Processes \ {Leader}, h \in Handles : Holds(p, h)' = Holds(p, h)
      BY <1>14, LeaderStepHolds DEF StoreFull, workVars
    <2>4. LockKept'
      <3>1. CASE Release(LSeg)
        BY <1>14, <2>1, <2>2, <2>3, <3>1, LockReleased DEF LockInv
      <3>2. CASE DebugLogged /\ UNCHANGED lock
        BY <2>2, <2>3, <3>2 DEF LockInv, LockKept, Exclusive, NeverStuck
      <3> QED
        BY <1>14, <3>1, <3>2, SharedCodeAssumption DEF StoreFull
    <2>5. SegmentsMade'
      BY <1>14 DEF StoreFull, LockInv, SegmentsMade, workVars
    <2> QED
      BY <2>4, <2>5 DEF LockInv
  <1>15. ASSUME StoreWrite PROVE LockInv'
    BY <1>15, LockFrame, LeaderStepHolds, SharedCodeAssumption
    DEF Holds, Processes, LSeg, SegmentsMade, LockInv, StoreWrite, segVars, leadVars, workVars
  <1>16. ASSUME StoreCopy PROVE LockInv'
    BY <1>16, LockFrame, LeaderStepHolds, SharedCodeAssumption
    DEF Holds, Processes, LSeg, SegmentsMade, LockInv, StoreCopy, segVars, leadVars, workVars
  <1>17. ASSUME StoreCount PROVE LockInv'
    BY <1>17, LockFrame, LeaderStepHolds, SharedCodeAssumption
    DEF Holds, Processes, LSeg, SegmentsMade, LockInv, StoreCount, segVars, leadVars, workVars
  <1>18. ASSUME StoreUnlock PROVE LockInv'
    <2>1. LSeg \in Handles /\ Leader \in Processes
      BY <1>18 DEF StoreUnlock, ControlInv, LeaderAt, Storing, Processes
    <2>2. \A g \in Handles : ~Holds(Leader, g)' /\ (Holds(Leader, g) <=> g = LSeg)
      BY <1>18 DEF Holds, StoreUnlock, LSeg
    <2>3. \A p \in Processes \ {Leader}, h \in Handles : Holds(p, h)' = Holds(p, h)
      BY <1>18, LeaderStepHolds DEF StoreUnlock, workVars
    <2>4. LockKept'
      BY <1>18, <2>1, <2>2, <2>3, LockReleased DEF StoreUnlock, LockInv
    <2>5. SegmentsMade'
      BY <1>18 DEF StoreUnlock, LockInv, SegmentsMade, workVars
    <2> QED
      BY <2>4, <2>5 DEF LockInv
  <1>19. ASSUME Register PROVE LockInv'
    BY <1>19, LockFrame, LeaderStepHolds, SharedCodeAssumption
    DEF Holds, Processes, LSeg, SegmentsMade, LockInv, Register, segVars, leadVars, workVars
  <1>20. ASSUME RegisterError PROVE LockInv'
    BY <1>20, LockFrame, LeaderStepHolds, SharedCodeAssumption
    DEF Holds, Processes, LSeg, SegmentsMade, LockInv, RegisterError, segVars, leadVars, workVars
  <1>21. ASSUME NEW w \in Workers, WBegin(w) PROVE LockInv'
    <2>1. \A v \in Workers \ {w} :
            wpc'[v] = wpc[v] /\ wk'[v] = wk[v] /\ wshare'[v] = wshare[v]
      BY <1>21 DEF WBegin, WReadsSlot, ControlInv, TypeOK, WorkTypeOK
    <2>2. \A p \in Processes \ {w}, h \in Handles : Holds(p, h)' = Holds(p, h)
      BY <1>21, <2>1, WorkerStepHolds DEF WBegin, WReadsSlot, leadVars
    <2>3. \A h \in Handles : Holds(w, h)' = Holds(w, h)
      BY <1>21, SharedCodeAssumption
      DEF Holds, WBegin, WReadsSlot, WSeg, WCtx, WItem, ControlInv, TypeOK, WorkTypeOK
    <2>4. LockKept'
      BY <1>21, <2>2, <2>3, LockFrame DEF WBegin, WReadsSlot, LockInv, segVars
    <2>5. SegmentsMade'
      BY <1>21 DEF WBegin, WReadsSlot, LockInv, SegmentsMade, ControlInv, TypeOK, WorkTypeOK,
         segVars
    <2> QED
      BY <2>4, <2>5 DEF LockInv
  <1>22. ASSUME NEW w \in Workers, WAttach(w) PROVE LockInv'
    <2>1. \A v \in Workers \ {w} :
            wpc'[v] = wpc[v] /\ wk'[v] = wk[v] /\ wshare'[v] = wshare[v]
      BY <1>22 DEF WAttach, CanAttach, ControlInv, TypeOK, WorkTypeOK
    <2>2. \A p \in Processes \ {w}, h \in Handles : Holds(p, h)' = Holds(p, h)
      BY <1>22, <2>1, WorkerStepHolds DEF WAttach, CanAttach, leadVars
    <2>3. \A h \in Handles : Holds(w, h)' = Holds(w, h)
      BY <1>22, SharedCodeAssumption
      DEF Holds, WAttach, CanAttach, WSeg, WCtx, WItem, ControlInv, TypeOK, WorkTypeOK
    <2>4. LockKept'
      BY <1>22, <2>2, <2>3, LockFrame DEF WAttach, CanAttach, LockInv, segVars
    <2>5. SegmentsMade'
      BY <1>22 DEF WAttach, CanAttach, LockInv, SegmentsMade, ControlInv, TypeOK, WorkTypeOK,
         segVars
    <2> QED
      BY <2>4, <2>5 DEF LockInv
  <1>23. ASSUME NEW w \in Workers, WAttachRefused(w) PROVE LockInv'
    <2>1. \A v \in Workers \ {w} :
            wpc'[v] = wpc[v] /\ wk'[v] = wk[v] /\ wshare'[v] = wshare[v]
      BY <1>23 DEF WAttachRefused, ControlInv, TypeOK, WorkTypeOK
    <2>2. \A p \in Processes \ {w}, h \in Handles : Holds(p, h)' = Holds(p, h)
      BY <1>23, <2>1, WorkerStepHolds DEF WAttachRefused, leadVars
    <2>3. \A h \in Handles : Holds(w, h)' = Holds(w, h)
      BY <1>23, SharedCodeAssumption
      DEF Holds, WAttachRefused, WSeg, WCtx, WItem, ControlInv, TypeOK, WorkTypeOK
    <2>4. LockKept'
      BY <1>23, <2>2, <2>3, LockFrame DEF WAttachRefused, LockInv, segVars
    <2>5. SegmentsMade'
      BY <1>23 DEF WAttachRefused, LockInv, SegmentsMade, ControlInv, TypeOK, WorkTypeOK,
         segVars
    <2> QED
      BY <2>4, <2>5 DEF LockInv
  <1>24. ASSUME NEW w \in Workers, FindLock(w) PROVE LockInv'
    <2>1. \A v \in Workers \ {w} :
            wpc'[v] = wpc[v] /\ wk'[v] = wk[v] /\ wshare'[v] = wshare[v]
      BY <1>24 DEF FindLock, ControlInv, TypeOK, WorkTypeOK
    <2>2. \A p \in Processes \ {w}, h \in Handles : Holds(p, h)' = Holds(p, h)
      BY <1>24, <2>1, WorkerStepHolds DEF FindLock, leadVars
    <2>3. WSeg(w) \in Handles /\ w # Leader /\ w \in Processes
      BY <1>24, SharedCodeAssumption
      DEF FindLock, ControlInv, WorkerAt, WFinding, Processes
    <2>4. \A g \in Handles : /\ WSeg(w)' = WSeg(w)
                             /\ ~Holds(w, g) /\ (Holds(w, g)' <=> g = WSeg(w))
      BY <1>24, <2>3
      DEF Holds, FindLock, WSeg, WCtx, WItem, ControlInv, TypeOK, WorkTypeOK
    <2>5. LockKept'
      BY <1>24, <2>2, <2>3, <2>4, LockAcquired DEF FindLock, LockInv
    <2>6. SegmentsMade'
      BY <1>24 DEF FindLock, LockInv, SegmentsMade
    <2> QED
      BY <2>5, <2>6 DEF LockInv
  <1>25. ASSUME NEW w \in Workers, FindNoEntry(w) PROVE LockInv'
    <2>1. \A v \in Workers \ {w} :
            wpc'[v] = wpc[v] /\ wk'[v] = wk[v] /\ wshare'[v] = wshare[v]
      BY <1>25 DEF FindNoEntry, ControlInv, TypeOK, WorkTypeOK
    <2>2. \A p \in Processes \ {w}, h \in Handles : Holds(p, h)' = Holds(p, h)
      BY <1>25, <2>1, WorkerStepHolds DEF FindNoEntry, leadVars
    <2>3. \A h \in Handles : Holds(w, h)' = Holds(w, h)
      BY <1>25, SharedCodeAssumption
      DEF Holds, FindNoEntry, WSeg, WCtx, WItem, ControlInv, TypeOK, WorkTypeOK
    <2>4. LockKept'
      BY <1>25, <2>2, <2>3, LockFrame DEF FindNoEntry, LockInv, segVars
    <2>5. SegmentsMade'
      BY <1>25 DEF FindNoEntry, LockInv, SegmentsMade, ControlInv, TypeOK, WorkTypeOK,
         segVars
    <2> QED
      BY <2>4, <2>5 DEF LockInv
  <1>26. ASSUME NEW w \in Workers, FindNextEntry(w) PROVE LockInv'
    <2>1. \A v \in Workers \ {w} :
            wpc'[v] = wpc[v] /\ wk'[v] = wk[v] /\ wshare'[v] = wshare[v]
      BY <1>26 DEF FindNextEntry, ControlInv, TypeOK, WorkTypeOK
    <2>2. \A p \in Processes \ {w}, h \in Handles : Holds(p, h)' = Holds(p, h)
      BY <1>26, <2>1, WorkerStepHolds DEF FindNextEntry, leadVars
    <2>3. \A h \in Handles : Holds(w, h)' = Holds(w, h)
      BY <1>26, SharedCodeAssumption
      DEF Holds, FindNextEntry, WSeg, WCtx, WItem, ControlInv, TypeOK, WorkTypeOK
    <2>4. LockKept'
      BY <1>26, <2>2, <2>3, LockFrame DEF FindNextEntry, LockInv, segVars
    <2>5. SegmentsMade'
      BY <1>26 DEF FindNextEntry, LockInv, SegmentsMade, ControlInv, TypeOK, WorkTypeOK,
         segVars
    <2> QED
      BY <2>4, <2>5 DEF LockInv
  <1>27. ASSUME NEW w \in Workers, FindUnlock(w) PROVE LockInv'
    <2>1. \A v \in Workers \ {w} :
            wpc'[v] = wpc[v] /\ wk'[v] = wk[v] /\ wshare'[v] = wshare[v]
      BY <1>27 DEF FindUnlock, ControlInv, TypeOK, WorkTypeOK
    <2>2. \A p \in Processes \ {w}, h \in Handles : Holds(p, h)' = Holds(p, h)
      BY <1>27, <2>1, WorkerStepHolds DEF FindUnlock, leadVars
    <2>3. WSeg(w) \in Handles /\ w # Leader /\ w \in Processes
      BY <1>27, SharedCodeAssumption
      DEF FindUnlock, ControlInv, WorkerAt, WFinding, Processes
    <2>4. \A g \in Handles : /\ WSeg(w)' = WSeg(w)
                             /\ ~Holds(w, g)' /\ (Holds(w, g) <=> g = WSeg(w))
      BY <1>27, <2>3
      DEF Holds, FindUnlock, WSeg, WCtx, WItem, ControlInv, TypeOK, WorkTypeOK
    <2>5. LockKept'
      BY <1>27, <2>2, <2>3, <2>4, LockReleased DEF FindUnlock, LockInv
    <2>6. SegmentsMade'
      BY <1>27 DEF FindUnlock, LockInv, SegmentsMade
    <2> QED
      BY <2>5, <2>6 DEF LockInv
  <1>28. ASSUME NEW w \in Workers, WUseShared(w) PROVE LockInv'
    <2>1. \A v \in Workers \ {w} :
            wpc'[v] = wpc[v] /\ wk'[v] = wk[v] /\ wshare'[v] = wshare[v]
      BY <1>28 DEF WUseShared, Installed, ControlInv, TypeOK, WorkTypeOK
    <2>2. \A p \in Processes \ {w}, h \in Handles : Holds(p, h)' = Holds(p, h)
      BY <1>28, <2>1, WorkerStepHolds DEF WUseShared, Installed, leadVars
    <2>3. \A h \in Handles : Holds(w, h)' = Holds(w, h)
      BY <1>28, SharedCodeAssumption
      DEF Holds, WUseShared, Installed, WSeg, WCtx, WItem, ControlInv, TypeOK, WorkTypeOK
    <2>4. LockKept'
      BY <1>28, <2>2, <2>3, LockFrame DEF WUseShared, Installed, LockInv, segVars
    <2>5. SegmentsMade'
      BY <1>28 DEF WUseShared, Installed, LockInv, SegmentsMade, ControlInv, TypeOK, WorkTypeOK,
         segVars
    <2> QED
      BY <2>4, <2>5 DEF LockInv
  <1>29. ASSUME NEW w \in Workers, WUseFails(w) PROVE LockInv'
    <2>1. \A v \in Workers \ {w} :
            wpc'[v] = wpc[v] /\ wk'[v] = wk[v] /\ wshare'[v] = wshare[v]
      BY <1>29 DEF WUseFails, ControlInv, TypeOK, WorkTypeOK
    <2>2. \A p \in Processes \ {w}, h \in Handles : Holds(p, h)' = Holds(p, h)
      BY <1>29, <2>1, WorkerStepHolds DEF WUseFails, leadVars
    <2>3. \A h \in Handles : Holds(w, h)' = Holds(w, h)
      BY <1>29, SharedCodeAssumption
      DEF Holds, WUseFails, WSeg, WCtx, WItem, ControlInv, TypeOK, WorkTypeOK
    <2>4. LockKept'
      BY <1>29, <2>2, <2>3, LockFrame DEF WUseFails, LockInv, segVars
    <2>5. SegmentsMade'
      BY <1>29 DEF WUseFails, LockInv, SegmentsMade, ControlInv, TypeOK, WorkTypeOK,
         segVars
    <2> QED
      BY <2>4, <2>5 DEF LockInv
  <1>30. ASSUME NEW w \in Workers, WCompileLocally(w) PROVE LockInv'
    <2>1. \A v \in Workers \ {w} :
            wpc'[v] = wpc[v] /\ wk'[v] = wk[v] /\ wshare'[v] = wshare[v]
      BY <1>30 DEF WCompileLocally, Installed, ControlInv, TypeOK, WorkTypeOK
    <2>2. \A p \in Processes \ {w}, h \in Handles : Holds(p, h)' = Holds(p, h)
      BY <1>30, <2>1, WorkerStepHolds DEF WCompileLocally, Installed, leadVars
    <2>3. \A h \in Handles : Holds(w, h)' = Holds(w, h)
      BY <1>30, SharedCodeAssumption
      DEF Holds, WCompileLocally, Installed, WSeg, WCtx, WItem, ControlInv, TypeOK, WorkTypeOK
    <2>4. LockKept'
      BY <1>30, <2>2, <2>3, LockFrame DEF WCompileLocally, Installed, LockInv, segVars
    <2>5. SegmentsMade'
      BY <1>30 DEF WCompileLocally, Installed, LockInv, SegmentsMade, ControlInv, TypeOK, WorkTypeOK,
         segVars
    <2> QED
      BY <2>4, <2>5 DEF LockInv
  <1>31. ASSUME NEW w \in Workers, WFinish(w) PROVE LockInv'
    <2>1. \A v \in Workers \ {w} :
            wpc'[v] = wpc[v] /\ wk'[v] = wk[v] /\ wshare'[v] = wshare[v]
      BY <1>31 DEF WFinish, WExit, ControlInv, TypeOK, WorkTypeOK
    <2>2. \A p \in Processes \ {w}, h \in Handles : Holds(p, h)' = Holds(p, h)
      BY <1>31, <2>1, WorkerStepHolds DEF WFinish, WExit, leadVars
    <2>3. \A h \in Handles : Holds(w, h)' = Holds(w, h)
      BY <1>31, SharedCodeAssumption
      DEF Holds, WFinish, WExit, WSeg, WCtx, WItem, ControlInv, TypeOK, WorkTypeOK
    <2>4. LockKept'
      BY <1>31, <2>2, <2>3, LockFrame DEF WFinish, WExit, LockInv, segVars
    <2>5. SegmentsMade'
      BY <1>31 DEF WFinish, WExit, LockInv, SegmentsMade, ControlInv, TypeOK, WorkTypeOK,
         segVars
    <2> QED
      BY <2>4, <2>5 DEF LockInv
  <1>32. ASSUME NEW w \in Workers, WFail(w) PROVE LockInv'
    <2>1. \A v \in Workers \ {w} :
            wpc'[v] = wpc[v] /\ wk'[v] = wk[v] /\ wshare'[v] = wshare[v]
      BY <1>32 DEF WFail, WExit, Interruptible, ControlInv, TypeOK, WorkTypeOK
    <2>2. \A p \in Processes \ {w}, h \in Handles : Holds(p, h)' = Holds(p, h)
      BY <1>32, <2>1, WorkerStepHolds DEF WFail, WExit, Interruptible, leadVars
    <2>3. \A h \in Handles : Holds(w, h)' = Holds(w, h)
      BY <1>32, SharedCodeAssumption
      DEF Holds, WFail, WExit, Interruptible, WSeg, WCtx, WItem, ControlInv, TypeOK, WorkTypeOK
    <2>4. LockKept'
      BY <1>32, <2>2, <2>3, LockFrame DEF WFail, WExit, Interruptible, LockInv, segVars
    <2>5. SegmentsMade'
      BY <1>32 DEF WFail, WExit, Interruptible, LockInv, SegmentsMade, ControlInv, TypeOK, WorkTypeOK,
         segVars
    <2> QED
      BY <2>4, <2>5 DEF LockInv
  <1>33. ASSUME NEW w \in Workers, WTerminate(w) PROVE LockInv'
    <2>1. \A v \in Workers \ {w} :
            wpc'[v] = wpc[v] /\ wk'[v] = wk[v] /\ wshare'[v] = wshare[v]
      BY <1>33 DEF WTerminate, WExit, Interruptible, ControlInv, TypeOK, WorkTypeOK
    <2>2. \A p \in Processes \ {w}, h \in Handles : Holds(p, h)' = Holds(p, h)
      BY <1>33, <2>1, WorkerStepHolds DEF WTerminate, WExit, Interruptible, leadVars
    <2>3. \A h \in Handles : Holds(w, h)' = Holds(w, h)
      BY <1>33, SharedCodeAssumption
      DEF Holds, WTerminate, WExit, Interruptible, WSeg, WCtx, WItem, ControlInv, TypeOK, WorkTypeOK
    <2>4. LockKept'
      BY <1>33, <2>2, <2>3, LockFrame DEF WTerminate, WExit, Interruptible, LockInv, segVars
    <2>5. SegmentsMade'
      BY <1>33 DEF WTerminate, WExit, Interruptible, LockInv, SegmentsMade, ControlInv, TypeOK, WorkTypeOK,
         segVars
    <2> QED
      BY <2>4, <2>5 DEF LockInv
  <1>34. ASSUME NEW w \in Workers, NEW c \in WContexts, WEndNested(w, c) PROVE LockInv'
    <2>1. \A v \in Workers \ {w} :
            wpc'[v] = wpc[v] /\ wk'[v] = wk[v] /\ wshare'[v] = wshare[v]
      BY <1>34 DEF WEndNested, WCleanup, ControlInv, TypeOK, WorkTypeOK
    <2>2. \A p \in Processes \ {w}, h \in Handles : Holds(p, h)' = Holds(p, h)
      BY <1>34, <2>1, WorkerStepHolds DEF WEndNested, WCleanup, leadVars
    <2>3. \A h \in Handles : Holds(w, h)' = Holds(w, h)
      BY <1>34, SharedCodeAssumption
      DEF Holds, WEndNested, WCleanup, WSeg, WCtx, WItem, ControlInv, TypeOK, WorkTypeOK
    <2>4. LockKept'
      BY <1>34, <2>2, <2>3, LockFrame DEF WEndNested, WCleanup, LockInv, segVars
    <2>5. SegmentsMade'
      BY <1>34 DEF WEndNested, WCleanup, LockInv, SegmentsMade, ControlInv, TypeOK, WorkTypeOK,
         segVars
    <2> QED
      BY <2>4, <2>5 DEF LockInv
  <1>35. CASE UNCHANGED vars
    BY <1>35, LockFrame DEF vars, LockInv, SegmentsMade, Holds, LSeg, WSeg, WCtx,
        WItem, segVars, leadVars, workVars
  <1> QED
    BY <1>1, <1>2, <1>3, <1>4, <1>5, <1>6, <1>7, <1>8, <1>9, <1>10, <1>11,
       <1>12, <1>13, <1>14, <1>15, <1>16, <1>17, <1>18, <1>19, <1>20, <1>21,
       <1>22, <1>23, <1>24, <1>25, <1>26, <1>27, <1>28, <1>29, <1>30, <1>31,
       <1>32, <1>33, <1>34, <1>35
    DEF Next, LeaderCompiles, WorkerSteps

LEMMA LockCorrect == Spec => []LockInv
  <1>1. Init => LockInv
    BY SharedCodeAssumption
    DEF Init, LockInv, LockKept, Exclusive, NeverStuck, SegmentsMade, Holds, Processes, LSeg,
        WSeg
  <1>2. ControlInv /\ LockInv /\ [Next]_vars => LockInv'
    BY LockStep
  <1> QED
    BY <1>1, <1>2, ControlCorrect, PTL DEF Spec

\* Every path through store_shared_code and find_shared_code releases the lock
\* it took, and only one process is between the two.
THEOREM LockSafe ==
    ASSUME DebugLogged = FALSE
    PROVE  Spec => []LockHasOneHolder
  <1>1. LockInv => LockHasOneHolder
    BY DEF LockInv, LockKept, Exclusive, NeverStuck, LockHasOneHolder
  <1> QED
    BY <1>1, LockCorrect, PTL

\* The scan of find_shared_code sees complete entries only.
THEOREM LookupSafe == Spec => []LookupSeesCompleteEntries
  <1>1. ControlInv /\ CompleteInv /\ LockInv => LookupSeesCompleteEntries
    <2> SUFFICES ASSUME ControlInv, CompleteInv, LockInv,
                        NEW w \in Workers, NEW h \in Handles, Holds(w, h)
                 PROVE  Len(entries[h]) = num[h]
      BY DEF LookupSeesCompleteEntries, CompleteInv
    <2>1. ~Holds(Leader, h)
      BY SharedCodeAssumption DEF LockInv, LockKept, Exclusive, Processes
    <2>2. ~Writing(h)
      BY <2>1 DEF Holds, Writing
    <2> QED
      BY <2>2 DEF ControlInv, MemoryAt
  <1> QED
    BY <1>1, ControlCorrect, CompleteCorrect, LockCorrect, PTL

-----------------------------------------------------------------------------
(* The sizes of the entries before an entry. *)

\* f[i] is the size of the first i entries of s.
IsTally(f, s, n) == f = [i \in 0 .. n |-> IF i = 0 THEN 0 ELSE f[i - 1] + s[i].size]

\* The first n entries of s and t have the same sizes.
SameSizes(s, t, n) == \A i \in 1 .. n : s[i].size = t[i].size

LEMMA TallyExists ==
    ASSUME NEW s, NEW n \in Nat
    PROVE  \E f : IsTally(f, s, n)
  <1> DEFINE G == {a \in 0 .. n : \E f : IsTally(f, s, a)}
  <1>1. 0 \in G
    <2> DEFINE f == [i \in 0 .. 0 |-> 0]
    <2>1. IsTally(f, s, 0)
      BY DEF IsTally
    <2> QED
      BY <2>1
  <1>2. ASSUME NEW a \in 1 .. n, a - 1 \in G
        PROVE  a \in G
    <2>1. PICK f : IsTally(f, s, a - 1)
      BY <1>2
    <2> DEFINE g == [i \in 0 .. a |-> IF i = 0 THEN 0 ELSE f[i - 1] + s[i].size]
    <2>2. \A i \in 0 .. a - 1 : f[i] = IF i = 0 THEN 0 ELSE f[i - 1] + s[i].size
      BY <2>1 DEF IsTally
    <2>3. \A i \in 0 .. a - 1 : g[i] = f[i]
      BY <2>2
    <2>4. \A i \in 0 .. a : i # 0 => i - 1 \in 0 .. a - 1
      OBVIOUS
    <2>5. g = [i \in 0 .. a |-> IF i = 0 THEN 0 ELSE g[i - 1] + s[i].size]
      <3>1. \A i \in 0 .. a : i # 0 => f[i - 1] = g[i - 1]
        BY <2>3, <2>4
      <3> QED
        BY <3>1
    <2> HIDE DEF g
    <2>6. IsTally(g, s, a)
      BY <2>5 DEF IsTally
    <2> QED
      BY <1>2, <2>6
  <1> HIDE DEF G
  <1>3. 0 .. n \subseteq G
    BY <1>1, <1>2, Climb
  <1>4. n \in G
    BY <1>3
  <1> QED
    BY <1>4 DEF G

LEMMA TallySame ==
    ASSUME NEW s, NEW t, NEW n \in Nat, NEW m \in Nat, n <= m, SameSizes(s, t, n),
           NEW f, IsTally(f, s, n), NEW g, IsTally(g, t, m)
    PROVE  \A i \in 0 .. n : f[i] = g[i]
  <1> DEFINE G == {i \in 0 .. n : f[i] = g[i]}
  <1>1. \A i \in 0 .. n : f[i] = IF i = 0 THEN 0 ELSE f[i - 1] + s[i].size
    BY DEF IsTally
  <1>2. \A i \in 0 .. n : g[i] = IF i = 0 THEN 0 ELSE g[i - 1] + t[i].size
    BY DEF IsTally
  <1>3. 0 \in G
    BY <1>1, <1>2
  <1>4. \A a \in 1 .. n : a - 1 \in G => a \in G
    BY <1>1, <1>2 DEF SameSizes
  <1> HIDE DEF G
  <1>5. 0 .. n \subseteq G
    BY <1>3, <1>4, Climb
  <1> QED
    BY <1>5 DEF G

LEMMA SizeIs ==
    ASSUME NEW s, NEW n \in Nat
    PROVE  \E f : IsTally(f, s, n) /\ SizeOfFirst(s, n) = f[n]
  <1> DEFINE f == CHOOSE h : IsTally(h, s, n)
  <1>1. IsTally(f, s, n)
    BY TallyExists
  <1>2. SizeOfFirst(s, n) = f[n]
    BY DEF SizeOfFirst, IsTally
  <1> QED
    BY <1>1, <1>2

LEMMA SizeSame ==
    ASSUME NEW s, NEW t, NEW n \in Nat, SameSizes(s, t, n)
    PROVE  SizeOfFirst(s, n) = SizeOfFirst(t, n)
  <1>1. PICK f : IsTally(f, s, n) /\ SizeOfFirst(s, n) = f[n]
    BY SizeIs
  <1>2. PICK g : IsTally(g, t, n) /\ SizeOfFirst(t, n) = g[n]
    BY SizeIs
  <1>3. n <= n /\ n \in 0 .. n
    OBVIOUS
  <1>4. \A i \in 0 .. n : f[i] = g[i]
    BY <1>1, <1>2, <1>3, TallySame
  <1> QED
    BY <1>1, <1>2, <1>3, <1>4

LEMMA SizeNone ==
    ASSUME NEW s
    PROVE  SizeOfFirst(s, 0) = 0
  <1>1. PICK f : IsTally(f, s, 0) /\ SizeOfFirst(s, 0) = f[0]
    BY SizeIs
  <1> QED
    BY <1>1 DEF IsTally

LEMMA SizeNext ==
    ASSUME NEW s, NEW n \in Nat
    PROVE  SizeOfFirst(s, n + 1) = SizeOfFirst(s, n) + s[n + 1].size
  <1>1. PICK f : IsTally(f, s, n) /\ SizeOfFirst(s, n) = f[n]
    BY SizeIs
  <1>2. PICK g : IsTally(g, s, n + 1) /\ SizeOfFirst(s, n + 1) = g[n + 1]
    BY SizeIs
  <1>3. n <= n + 1 /\ n \in 0 .. n /\ n + 1 \in 0 .. n + 1 /\ n + 1 # 0
    OBVIOUS
  <1>6. SameSizes(s, s, n)
    BY DEF SameSizes
  <1>4. \A i \in 0 .. n : f[i] = g[i]
    BY <1>1, <1>2, <1>3, <1>6, TallySame
  <1>5. g[n + 1] = g[(n + 1) - 1] + s[n + 1].size
    BY <1>2, <1>3 DEF IsTally
  <1> QED
    BY <1>1, <1>2, <1>3, <1>4, <1>5
LEMMA SizeType ==
    ASSUME NEW s, NEW n \in Nat, \A i \in 1 .. n : s[i].size \in Nat
    PROVE  SizeOfFirst(s, n) \in Nat
  <1> DEFINE G == {a \in 0 .. n : SizeOfFirst(s, a) \in Nat}
  <1>1. 0 \in G
    BY SizeNone
  <1>2. ASSUME NEW a \in 1 .. n, a - 1 \in G
        PROVE  a \in G
    <2>1. a - 1 \in Nat /\ (a - 1) + 1 = a
      OBVIOUS
    <2>2. SizeOfFirst(s, a) = SizeOfFirst(s, a - 1) + s[a].size
      BY <2>1, SizeNext
    <2> QED
      BY <1>2, <2>2
  <1> HIDE DEF G
  <1>3. 0 .. n \subseteq G
    BY <1>1, <1>2, Climb
  <1>4. n \in G
    BY <1>3
  <1> QED
    BY <1>4 DEF G

-----------------------------------------------------------------------------
(* What store_shared_code has put into a segment. *)

\* A step that neither writes to the store nor enters or leaves the writing.
Quiet ==
    /\ UNCHANGED <<made, used, num, entries>>
    /\ \/ UNCHANGED <<lpc, lq, share, ordinal>>
       \/ lpc \notin {"copy", "count"} /\ lpc' \notin {"copy", "count"}

LEMMA StoreChanges ==
    ASSUME [Next]_vars
    PROVE  Quiet \/ (\E h \in Handles : InitSharedDsm(h)) \/ StoreWrite \/ StoreCopy \/ StoreCount
  <1> USE DEF Quiet, segVars, leadVars
  <1>1. ASSUME NEW q \in Queries, BeginCompile(q) PROVE Quiet
    BY <1>1 DEF BeginCompile
  <1>2. ASSUME NEW q \in Queries, EndQuery(q) PROVE Quiet
    BY <1>2 DEF EndQuery, CleanupSharedDsm
  <1>3. ASSUME NEW q \in Queries, CancelQuery(q) PROVE Quiet
    BY <1>3 DEF CancelQuery
  <1>4. ASSUME NEW w \in Workers, NEW q \in Queries, LaunchWorker(w, q) PROVE Quiet
    BY <1>4 DEF LaunchWorker
  <1>5. ASSUME AbortQuery PROVE Quiet
    BY <1>5 DEF AbortQuery, CleanupSharedDsm
  <1>6. ASSUME SkipInitSharedDsm PROVE Quiet
    BY <1>6 DEF SkipInitSharedDsm
  <1>7. ASSUME InitSharedDsmError PROVE Quiet
    BY <1>7 DEF InitSharedDsmError
  <1>8. ASSUME CompileSharedDeform PROVE Quiet
    BY <1>8 DEF CompileSharedDeform
  <1>9. ASSUME SkipSharedDeform PROVE Quiet
    BY <1>9 DEF SkipSharedDeform
  <1>10. ASSUME GenerateCode PROVE Quiet
    BY <1>10 DEF GenerateCode
  <1>11. ASSUME GenerateFails PROVE Quiet
    BY <1>11 DEF GenerateFails
  <1>12. ASSUME StoreLock PROVE Quiet
    BY <1>12 DEF StoreLock
  <1>13. ASSUME StoreFull PROVE Quiet
    BY <1>13 DEF StoreFull
  <1>14. ASSUME StoreUnlock PROVE Quiet
    BY <1>14 DEF StoreUnlock
  <1>15. ASSUME Register PROVE Quiet
    BY <1>15 DEF Register
  <1>16. ASSUME RegisterError PROVE Quiet
    BY <1>16 DEF RegisterError
  <1>17. ASSUME NEW w \in Workers, WorkerSteps(w) \/ WFail(w) \/ WTerminate(w) PROVE Quiet
    BY <1>17 DEF WorkerSteps, WBegin, WAttach, WAttachRefused, FindLock, FindNoEntry, FindNextEntry, FindUnlock, WUseShared, WUseFails, WCompileLocally, WFinish, WFail, WTerminate, Installed, WExit
  <1>18. ASSUME NEW w \in Workers, NEW c \in WContexts, WEndNested(w, c) PROVE Quiet
    BY <1>18 DEF WEndNested, WCleanup
  <1>19. CASE UNCHANGED vars
    BY <1>19 DEF vars
  <1> QED
    BY <1>1, <1>2, <1>3, <1>4, <1>5, <1>6, <1>7, <1>8, <1>9, <1>10, <1>11, <1>12, <1>13, <1>14, <1>15, <1>16, <1>17, <1>18, <1>19
    DEF Next, LeaderCompiles

\* The entry that the leader writes, in store_shared_code's order.
Begun == [node |-> LIdentity.node, idx |-> LIdentity.idx, fp |-> LIdentity.fp,
          size |-> Expr.size, code |-> IF lpc = "copy" THEN Partial ELSE Expr.fp]
EntryInv == lpc \in {"copy", "count"} => entries[LSeg][num[LSeg] + 1] = Begun

SumInv == \A h \in made : used[h] = Header + SizeOfFirst(entries[h], num[h])

LEMMA EntryStep ==
    ASSUME ControlInv, EntryInv, [Next]_vars
    PROVE  EntryInv'
  <1>1. CASE Quiet
    BY <1>1 DEF Quiet, EntryInv, Begun, LIdentity, Expr, LSeg
  <1>2. CASE \E h \in Handles : InitSharedDsm(h)
    BY <1>2 DEF InitSharedDsm, EntryInv
  <1>3. CASE StoreWrite
    <2> DEFINE e == [node |-> LIdentity.node, idx |-> LIdentity.idx,
                     fp |-> LIdentity.fp, size |-> Expr.size, code |-> Partial]
    <2>1. LSeg \in Handles /\ LSeg' = LSeg /\ num' = num /\ lpc = "write" /\ lpc' = "copy"
      BY <1>3 DEF StoreWrite, ControlInv, LeaderAt, Storing, LSeg
    <2>2. entries[LSeg] \in Seq(EntrySet) /\ Len(entries[LSeg]) = num[LSeg] /\ num[LSeg] \in Nat
      BY <2>1 DEF ControlInv, TypeOK, SegTypeOK, MemoryAt, Writing
    <2>3. entries'[LSeg] = Append(entries[LSeg], e)
      BY <1>3, <2>1 DEF StoreWrite, ControlInv, TypeOK, SegTypeOK
    <2>4. e = Begun'
      BY <1>3 DEF StoreWrite, Begun, LIdentity, Expr
    <2> HIDE DEF e
    <2>5. Append(entries[LSeg], e)[num[LSeg] + 1] = e
      BY <2>2
    <2> QED
      BY <2>1, <2>3, <2>4, <2>5 DEF EntryInv
  <1>4. CASE StoreCopy
    <2>1. /\ LSeg \in Handles /\ LSeg' = LSeg /\ num' = num /\ lpc = "copy" /\ lpc' = "count"
          /\ entries' = [entries EXCEPT ![LSeg][num[LSeg] + 1].code = Expr.fp]
      BY <1>4 DEF StoreCopy, ControlInv, LeaderAt, Storing, LSeg
    <2>2. /\ entries[LSeg] \in Seq(EntrySet) /\ Len(entries[LSeg]) = num[LSeg] + 1
          /\ num[LSeg] \in Nat
      BY <2>1 DEF ControlInv, TypeOK, SegTypeOK, MemoryAt, Writing
    <2>3. num[LSeg] + 1 \in DOMAIN entries[LSeg] /\ LSeg \in DOMAIN entries
      BY <2>1, <2>2 DEF ControlInv, TypeOK, SegTypeOK
    <2>4. entries'[LSeg][num[LSeg] + 1] = [entries[LSeg][num[LSeg] + 1] EXCEPT !.code = Expr.fp]
      BY <2>1, <2>3
    <2>5. entries[LSeg][num[LSeg] + 1] = Begun
      BY <2>1 DEF EntryInv
    <2>6. [Begun EXCEPT !.code = Expr.fp] = Begun'
      BY <1>4, <2>1 DEF StoreCopy, Begun, LIdentity, Expr
    <2> QED
      BY <2>1, <2>4, <2>5, <2>6 DEF EntryInv
  <1>5. CASE StoreCount
    BY <1>5 DEF StoreCount, EntryInv
  <1> QED
    BY <1>1, <1>2, <1>3, <1>4, <1>5, StoreChanges

LEMMA SumStep ==
    ASSUME ControlInv, EntryInv, SumInv, Stable, [Next]_vars
    PROVE  SumInv'
  <1>0. \A h \in Handles : num[h] \in Nat /\ num'[h] \in Nat \cup {num'[h]}
    BY DEF ControlInv, TypeOK, SegTypeOK
  <1>1. \A h \in Handles : SameSizes(entries[h], entries'[h], num[h])
    BY <1>0 DEF Stable, SameSizes
  <1>2. \A h \in Handles : SizeOfFirst(entries[h], num[h]) = SizeOfFirst(entries'[h], num[h])
    BY <1>0, <1>1, SizeSame
  <1>3. made \subseteq Handles
    BY DEF ControlInv, TypeOK, SegTypeOK
  <1>4. CASE UNCHANGED <<made, used, num>>
    BY <1>2, <1>3, <1>4 DEF SumInv
  <1>5. ASSUME NEW h \in Handles, InitSharedDsm(h)
        PROVE  SumInv'
    <2>1. /\ made' = made \cup {h} /\ h \notin made /\ num'[h] = 0 /\ used'[h] = Header
          /\ \A g \in Handles \ {h} : num'[g] = num[g] /\ used'[g] = used[g]
      BY <1>5 DEF InitSharedDsm, ControlInv, TypeOK, SegTypeOK
    <2>2. used'[h] = Header + SizeOfFirst(entries'[h], num'[h])
      BY <2>1, SizeNone, SharedCodeAssumption
    <2> QED
      BY <1>2, <1>3, <2>1, <2>2 DEF SumInv
  <1>6. CASE StoreCount
    <2>1. /\ LSeg \in Handles /\ lpc = "count" /\ entries' = entries /\ made' = made
          /\ num'[LSeg] = num[LSeg] + 1 /\ used'[LSeg] = used[LSeg] + Expr.size
          /\ \A g \in Handles \ {LSeg} : num'[g] = num[g] /\ used'[g] = used[g]
      BY <1>6 DEF StoreCount, ControlInv, TypeOK, SegTypeOK, LeaderAt, Storing
    <2>2. entries[LSeg][num[LSeg] + 1].size = Expr.size
      BY <2>1 DEF EntryInv, Begun
    <2>3. SizeOfFirst(entries[LSeg], num[LSeg] + 1)
                = SizeOfFirst(entries[LSeg], num[LSeg]) + Expr.size
      BY <1>0, <2>1, <2>2, SizeNext
    <2>4. LSeg \in made => used'[LSeg] = Header + SizeOfFirst(entries'[LSeg], num'[LSeg])
      <3> SUFFICES ASSUME LSeg \in made
                   PROVE  used'[LSeg] = Header + SizeOfFirst(entries'[LSeg], num'[LSeg])
        OBVIOUS
      <3>1. used[LSeg] = Header + SizeOfFirst(entries[LSeg], num[LSeg])
        BY DEF SumInv
      <3>2. PICK x : x = SizeOfFirst(entries[LSeg], num[LSeg])
        OBVIOUS
      <3>3. Expr.size \in Nat /\ Header \in Nat
        BY <2>1, ExprType, SharedCodeAssumption DEF Exprs, Compiling
      <3>4. x \in Nat
        <4>1. \A i \in 1 .. num[LSeg] : entries[LSeg][i].size \in Nat
          <5>1. entries[LSeg] \in Seq(EntrySet) /\ Len(entries[LSeg]) = num[LSeg] + 1
            BY <2>1 DEF ControlInv, TypeOK, SegTypeOK, MemoryAt, Writing
          <5>2. \A i \in 1 .. num[LSeg] : entries[LSeg][i] \in EntrySet
            BY <1>0, <2>1, <5>1
          <5> QED
            BY <5>2 DEF EntrySet
        <4> QED
          BY <1>0, <2>1, <3>2, <4>1, SizeType
      <3> QED
        BY <2>1, <2>3, <3>1, <3>2, <3>3, <3>4
    <2> QED
      BY <1>2, <1>3, <2>1, <2>4 DEF SumInv
  <1> QED
    BY <1>4, <1>5, <1>6, StoreChanges DEF Quiet, StoreWrite, StoreCopy

\* find_shared_code walks to an entry by the sizes before it, and starts to
\* write behind bytes_used: the two places are the same.
THEOREM SumSafe == Spec => []UsedIsSum
  <1>1. Init => EntryInv /\ SumInv
    BY DEF Init, EntryInv, SumInv
  <1>2. ControlInv /\ EntryInv /\ [Next]_vars => EntryInv'
    BY EntryStep
  <1>3. ControlInv /\ EntryInv /\ SumInv /\ [Next]_vars => SumInv'
    BY SumStep, StableStep
  <1>4. SumInv => UsedIsSum
    BY DEF SumInv, UsedIsSum
  <1> QED
    BY <1>1, <1>2, <1>3, <1>4, ControlCorrect, PTL DEF Spec

-----------------------------------------------------------------------------
(* Lookups. *)

\* What worker w goes by, unless the step is one of its own.
Rests(w) ==
    /\ wpc'[w] = wpc[w] /\ wq'[w] = wq[w] /\ wk'[w] = wk[w]
    /\ wordinal'[w] = wordinal[w] /\ wshare'[w] = wshare[w]
    /\ wscan'[w] = wscan[w] /\ wfound'[w] = wfound[w]
Acts(w) ==
    \/ \E q \in Queries : LaunchWorker(w, q)
    \/ WorkerSteps(w) \/ WFail(w) \/ WTerminate(w)
    \/ \E c \in WContexts : WEndNested(w, c)

LEMMA OthersRest ==
    ASSUME ControlInv, NEW w \in Workers, NEW v \in Workers \ {w}, Acts(v)
    PROVE  Rests(w)
  <1> USE DEF ControlInv, TypeOK, WorkTypeOK, Rests
  <1>1. ASSUME NEW q \in Queries, LaunchWorker(v, q) PROVE Rests(w)
    BY <1>1 DEF LaunchWorker
  <1>2. CASE WBegin(v)
    BY <1>2 DEF WBegin, WReadsSlot
  <1>3. CASE WAttach(v)
    BY <1>3 DEF WAttach, CanAttach
  <1>4. CASE WAttachRefused(v)
    BY <1>4 DEF WAttachRefused
  <1>5. CASE FindLock(v)
    BY <1>5 DEF FindLock
  <1>6. CASE FindNoEntry(v)
    BY <1>6 DEF FindNoEntry
  <1>7. CASE FindNextEntry(v)
    BY <1>7 DEF FindNextEntry
  <1>8. CASE FindUnlock(v)
    BY <1>8 DEF FindUnlock
  <1>9. CASE WUseShared(v)
    BY <1>9 DEF WUseShared, Installed
  <1>10. CASE WUseFails(v)
    BY <1>10 DEF WUseFails
  <1>11. CASE WCompileLocally(v)
    BY <1>11 DEF WCompileLocally, Installed
  <1>12. CASE WFinish(v)
    BY <1>12 DEF WFinish, WExit
  <1>13. CASE WFail(v)
    BY <1>13 DEF WFail, WExit
  <1>14. CASE WTerminate(v)
    BY <1>14 DEF WTerminate, WExit
  <1>15. ASSUME NEW c \in WContexts, WEndNested(v, c) PROVE Rests(w)
    BY <1>15 DEF WEndNested, WCleanup
  <1> QED
    BY <1>1, <1>2, <1>3, <1>4, <1>5, <1>6, <1>7, <1>8, <1>9, <1>10, <1>11, <1>12, <1>13, <1>14, <1>15 DEF Acts, WorkerSteps

LEMMA WorkerMoves ==
    ASSUME ControlInv, [Next]_vars, NEW w \in Workers
    PROVE  Rests(w) \/ Acts(w)
  <1>1. CASE UNCHANGED workVars
    BY <1>1 DEF workVars, Rests
  <1>2. ASSUME NEW v \in Workers, Acts(v) PROVE Rests(w) \/ Acts(w)
    <2>1. CASE v = w
      BY <1>2, <2>1
    <2>2. CASE v # w
      BY <1>2, <2>2, OthersRest
    <2> QED
      BY <2>1, <2>2
  <1>3. ASSUME NEW q \in Queries, BeginCompile(q) PROVE UNCHANGED workVars
    BY <1>3 DEF BeginCompile
  <1>4. ASSUME NEW q \in Queries, EndQuery(q) PROVE UNCHANGED workVars
    BY <1>4 DEF EndQuery
  <1>5. ASSUME NEW q \in Queries, CancelQuery(q) PROVE UNCHANGED workVars
    BY <1>5 DEF CancelQuery
  <1>6. ASSUME AbortQuery PROVE UNCHANGED workVars
    BY <1>6 DEF AbortQuery
  <1>7. ASSUME SkipInitSharedDsm PROVE UNCHANGED workVars
    BY <1>7 DEF SkipInitSharedDsm
  <1>8. ASSUME NEW h \in Handles, InitSharedDsm(h) PROVE UNCHANGED workVars
    BY <1>8 DEF InitSharedDsm
  <1>9. ASSUME InitSharedDsmError PROVE UNCHANGED workVars
    BY <1>9 DEF InitSharedDsmError
  <1>10. ASSUME CompileSharedDeform PROVE UNCHANGED workVars
    BY <1>10 DEF CompileSharedDeform
  <1>11. ASSUME SkipSharedDeform PROVE UNCHANGED workVars
    BY <1>11 DEF SkipSharedDeform
  <1>12. ASSUME GenerateCode PROVE UNCHANGED workVars
    BY <1>12 DEF GenerateCode
  <1>13. ASSUME GenerateFails PROVE UNCHANGED workVars
    BY <1>13 DEF GenerateFails
  <1>14. ASSUME StoreLock PROVE UNCHANGED workVars
    BY <1>14 DEF StoreLock
  <1>15. ASSUME StoreFull PROVE UNCHANGED workVars
    BY <1>15 DEF StoreFull
  <1>16. ASSUME StoreWrite PROVE UNCHANGED workVars
    BY <1>16 DEF StoreWrite
  <1>17. ASSUME StoreCopy PROVE UNCHANGED workVars
    BY <1>17 DEF StoreCopy
  <1>18. ASSUME StoreCount PROVE UNCHANGED workVars
    BY <1>18 DEF StoreCount
  <1>19. ASSUME StoreUnlock PROVE UNCHANGED workVars
    BY <1>19 DEF StoreUnlock
  <1>20. ASSUME Register PROVE UNCHANGED workVars
    BY <1>20 DEF Register
  <1>21. ASSUME RegisterError PROVE UNCHANGED workVars
    BY <1>21 DEF RegisterError
  <1>22. CASE UNCHANGED vars
    BY <1>1, <1>22 DEF vars
  <1> QED
    BY <1>1, <1>2, <1>3, <1>4, <1>5, <1>6, <1>7, <1>8, <1>9, <1>10, <1>11, <1>12, <1>13, <1>14, <1>15, <1>16, <1>17, <1>18, <1>19, <1>20, <1>21, <1>22
    DEF Next, LeaderCompiles, Acts

\* A worker's step writes nothing into a segment but the spinlock.
LEMMA ActsLeaveStore ==
    ASSUME NEW w \in Workers, Acts(w)
    PROVE  UNCHANGED <<made, used, num, tail, entries>>
  BY DEF Acts, WorkerSteps, LaunchWorker, WEndNested, segVars, Installed, WExit,
         WBegin, WAttach, WAttachRefused, FindLock, FindNoEntry, FindNextEntry, FindUnlock, WUseShared, WUseFails, WCompileLocally, WFinish, WFail, WTerminate

\* The first n entries of the segment are not what w looks for.
Misses(w, n) == \A i \in 1 .. n : ~Matches(entries[WSeg(w)][i], WIdentity(w))

\* How far a lookup has come.
LookAt(w) ==
    /\ \A c \in WContexts :
            wordinal[w][c] <= IF wpc[w] \in WCompiling THEN wk[w] ELSE wk[w] - 1
    /\ wpc[w] \notin {"scan", "unlock"} => wscan[w] = 1
    /\ wpc[w] = "scan" => Misses(w, wscan[w] - 1) /\ wscan[w] <= num[WSeg(w)] + 1
    /\ wpc[w] = "unlock" /\ wfound[w] = 0 => Misses(w, num[WSeg(w)])
    /\ wpc[w] \in {"unlock", "use"} /\ wfound[w] # 0 =>
            Matches(entries[WSeg(w)][wfound[w]], WIdentity(w))
LookInv == \A w \in Workers : LookAt(w)

\* The leader counts an entry only with the lock.
LEMMA NumHeld ==
    ASSUME ControlInv, LockInv, [Next]_vars, NEW w \in Workers, wpc[w] \in {"scan", "unlock"}
    PROVE  num'[WSeg(w)] = num[WSeg(w)]
  <1>1. WSeg(w) \in Handles /\ w # Leader /\ w \in Processes /\ Leader \in Processes
    BY SharedCodeAssumption DEF ControlInv, WorkerAt, WFinding, Processes
  <1>2. Holds(w, WSeg(w))
    BY <1>1 DEF Holds
  <1>3. CASE UNCHANGED num
    BY <1>3
  <1>4. ASSUME NEW h \in Handles, InitSharedDsm(h) PROVE num'[WSeg(w)] = num[WSeg(w)]
    BY <1>1, <1>4 DEF InitSharedDsm, ControlInv, TypeOK, SegTypeOK, MemoryAt
  <1>5. CASE StoreCount
    <2>1. LSeg \in Handles /\ Holds(Leader, LSeg) /\ num' = [num EXCEPT ![LSeg] = @ + 1]
      BY <1>5 DEF StoreCount, Holds, ControlInv, LeaderAt, Storing
    <2>2. LSeg # WSeg(w)
      BY <1>1, <1>2, <2>1 DEF LockInv, LockKept, Exclusive
    <2> QED
      BY <1>1, <2>1, <2>2 DEF ControlInv, TypeOK, SegTypeOK
  <1> QED
    BY <1>3, <1>4, <1>5, StoreChanges DEF Quiet, StoreWrite, StoreCopy

LEMMA LookRests ==
    ASSUME ControlInv, LockInv, Stable, [Next]_vars,
           NEW w \in Workers, LookAt(w), Rests(w)
    PROVE  LookAt(w)'
  <1>1. WSeg(w)' = WSeg(w) /\ WIdentity(w)' = WIdentity(w)
    BY DEF Rests, WSeg, WCtx, WItem, WIdentity, WExpr
  <1>2. CASE wpc[w] \notin {"scan", "unlock", "use"}
    BY <1>2 DEF Rests, LookAt
  <1>3. CASE wpc[w] \in {"scan", "unlock", "use"}
    <2>1. /\ WSeg(w) \in Handles /\ num[WSeg(w)] \in Nat
          /\ wscan[w] \in Nat \ {0} /\ wfound[w] \in Nat /\ wfound[w] <= num[WSeg(w)]
      BY <1>3 DEF ControlInv, TypeOK, SegTypeOK, WorkTypeOK, WorkerAt, WFinding, MemoryAt
    <2>2. \A i \in 1 .. num[WSeg(w)] : entries'[WSeg(w)][i] = entries[WSeg(w)][i]
      BY <2>1 DEF Stable
    <2>3. PICK h, k : h = WSeg(w) /\ k = WIdentity(w)
      OBVIOUS
    <2>4. CASE wpc[w] = "use"
      BY <1>1, <2>1, <2>2, <2>4 DEF Rests, LookAt, Matches
    <2>5. CASE wpc[w] \in {"scan", "unlock"}
      <3>1. num'[h] = num[h]
        BY <2>3, <2>5, NumHeld
      <3>2. \A n \in 0 .. num[h] : Misses(w, n) => Misses(w, n)'
        BY <1>1, <2>1, <2>2, <2>3 DEF Misses, Matches
      <3> QED
        BY <1>1, <2>1, <2>2, <2>3, <2>5, <3>1, <3>2 DEF Rests, LookAt, Matches
    <2> QED
      BY <1>3, <2>4, <2>5
  <1> QED
    BY <1>2, <1>3

\* A worker that is not in a lookup has come nowhere.
LEMMA LookIdle ==
    ASSUME NEW w \in Workers,
           wpc'[w] \notin {"scan", "unlock", "use"}, wscan'[w] = 1,
           \A c \in WContexts :
                wordinal'[w][c] <= IF wpc'[w] \in WCompiling THEN wk'[w] ELSE wk'[w] - 1
    PROVE  LookAt(w)'
  BY DEF LookAt

LEMMA LookActs ==
    ASSUME ControlInv, RoomInv, NEW w \in Workers, LookAt(w), Acts(w)
    PROVE  LookAt(w)'
  <1> USE DEF ControlInv, TypeOK, WorkTypeOK
  <1>0. /\ wk[w] \in Nat \ {0} /\ wordinal[w] \in [WContexts -> Nat]
        /\ UNCHANGED <<num, entries>>
    BY ActsLeaveStore
  <1>1. ASSUME NEW q \in Queries, LaunchWorker(w, q) PROVE LookAt(w)'
    <2>1. /\ wpc[w] = "new" /\ wpc'[w] = "next" /\ wscan' = wscan /\ wordinal' = wordinal
          /\ wk' = wk
      BY <1>1 DEF LaunchWorker
    <2> QED
      BY <1>0, <2>1, LookIdle DEF LookAt, WCompiling
  <1>2. CASE WBegin(w)
    <2>1. /\ wpc[w] = "next" /\ wpc'[w] \in {"attach", "lock", "local"}
          /\ wscan' = wscan /\ wk' = wk
          /\ wordinal' = [wordinal EXCEPT ![w][WCtx(w)] = @ + 1]
      BY <1>2 DEF WBegin
    <2>2. \A c \in WContexts : wordinal'[w][c] <= wordinal[w][c] + 1 /\ wordinal'[w][c] \in Nat
      BY <1>0, <2>1
    <2>3. \A c \in WContexts : wordinal[w][c] <= wk[w] - 1
      BY <2>1 DEF LookAt, WCompiling
    <2> QED
      BY <1>0, <2>1, <2>2, <2>3, LookIdle DEF LookAt, WCompiling
  <1>3. CASE WAttach(w) \/ WAttachRefused(w) \/ WUseFails(w)
    <2>1. /\ wpc[w] \in {"attach", "use"} /\ wpc'[w] \in {"lock", "local"}
          /\ wscan' = wscan /\ wk' = wk /\ wordinal' = wordinal
      BY <1>3 DEF WAttach, WAttachRefused, WUseFails
    <2> QED
      BY <1>0, <2>1, LookIdle DEF LookAt, WCompiling
  <1>4. CASE FindLock(w)
    <2>1. /\ wpc[w] = "lock" /\ wpc'[w] = "scan" /\ wscan' = wscan /\ wk' = wk
          /\ wordinal' = wordinal /\ UNCHANGED <<wshare, wq, wfound>>
      BY <1>4 DEF FindLock
    <2>2. wscan[w] = 1 /\ WSeg(w)' = WSeg(w) /\ num[WSeg(w)] \in Nat
      BY <2>1 DEF LookAt, WSeg, WCtx, WItem, WorkerAt, WFinding, SegTypeOK
    <2>3. Misses(w, 0)'
      BY DEF Misses
    <2> QED
      BY <1>0, <2>1, <2>2, <2>3 DEF LookAt, WCompiling
  <1>5. CASE FindNoEntry(w)
    <2>1. /\ wpc[w] = "scan" /\ wpc'[w] = "unlock" /\ wscan' = wscan /\ wk' = wk
          /\ wordinal' = wordinal /\ UNCHANGED <<wshare, wq, wfound>> /\ ScanEnds(w)
      BY <1>5 DEF FindNoEntry, leadVars
    <2>2. WSeg(w) \in Handles /\ num[WSeg(w)] \in Nat /\ wfound[w] = 0 /\ wscan[w] \in Nat
      BY <2>1 DEF WorkerAt, WFinding, SegTypeOK, MemoryAt
    <2>3. /\ used[WSeg(w)] + tail[WSeg(w)] <= Capacity
          /\ used[WSeg(w)] \in Nat /\ tail[WSeg(w)] \in Nat /\ Capacity \in Nat
      BY <2>2, SharedCodeAssumption DEF RoomInv, NoOverlap, SegTypeOK
    <2>4. wscan[w] > num[WSeg(w)]
      BY <2>1, <2>2, <2>3 DEF ScanEnds, Usable
    <2>5. Misses(w, num[WSeg(w)])
      BY <2>1, <2>2, <2>4 DEF LookAt, Misses
    <2>6. /\ WSeg(w)' = WSeg(w) /\ WIdentity(w)' = WIdentity(w)
          /\ wfound'[w] = 0 /\ wpc'[w] = "unlock"
      BY <2>1, <2>2 DEF WSeg, WCtx, WItem, WIdentity, WExpr
    <2>7. Misses(w, num[WSeg(w)])'
      BY <1>0, <2>5, <2>6 DEF Misses, Matches
    <2> QED
      BY <1>0, <2>1, <2>6, <2>7 DEF LookAt, WCompiling
  <1>6. CASE FindNextEntry(w)
    <2>1. /\ wpc[w] = "scan" /\ wk' = wk
          /\ wordinal' = wordinal /\ UNCHANGED <<wshare, wq>> /\ ~ScanEnds(w)
      BY <1>6 DEF FindNextEntry, leadVars
    <2>2. /\ WSeg(w) \in Handles /\ num[WSeg(w)] \in Nat /\ wfound[w] = 0
          /\ wscan[w] \in Nat \ {0} /\ wscan[w] <= num[WSeg(w)]
      BY <2>1 DEF WorkerAt, WFinding, SegTypeOK, MemoryAt, ScanEnds
    <2>3. WSeg(w)' = WSeg(w) /\ WIdentity(w)' = WIdentity(w)
      BY <2>1 DEF WSeg, WCtx, WItem, WIdentity, WExpr
    <2>4. CASE Matches(entries[WSeg(w)][wscan[w]], WIdentity(w))
      <3>1. wfound'[w] = wscan[w] /\ wpc'[w] = "unlock"
        BY <1>6, <2>4 DEF FindNextEntry
      <3>2. Matches(entries[WSeg(w)][wfound[w]], WIdentity(w))'
        BY <1>0, <2>3, <2>4, <3>1 DEF Matches
      <3> QED
        BY <1>0, <2>1, <2>2, <3>1, <3>2 DEF LookAt, WCompiling
    <2>5. CASE ~Matches(entries[WSeg(w)][wscan[w]], WIdentity(w))
      <3>1. wscan'[w] = wscan[w] + 1 /\ wpc'[w] = "scan"
        BY <1>6, <2>1, <2>5 DEF FindNextEntry
      <3>2. Misses(w, wscan[w])
        <4>1. Misses(w, wscan[w] - 1)
          BY <2>1 DEF LookAt
        <4>2. PICK n \in Nat \ {0} : n = wscan[w]
          BY <2>2
        <4>3. \A i \in 1 .. n : i \in 1 .. (n - 1) \/ i = n
          <5> HIDE DEF ControlInv, TypeOK, WorkTypeOK
          <5> QED
            BY <4>2
        <4> QED
          BY <2>5, <4>1, <4>2, <4>3 DEF Misses
      <3>3. wscan'[w] - 1 = wscan[w]
        BY <2>2, <3>1
      <3>4. Misses(w, wscan[w] - 1)'
        BY <1>0, <2>3, <3>2, <3>3 DEF Misses, Matches
      <3> QED
        BY <1>0, <2>1, <2>2, <2>3, <3>1, <3>4 DEF LookAt, WCompiling
    <2> QED
      BY <2>4, <2>5
  <1>7. CASE FindUnlock(w)
    <2>1. /\ wpc[w] = "unlock" /\ wk' = wk /\ wordinal' = wordinal
          /\ UNCHANGED <<wshare, wq, wfound>> /\ wscan'[w] = 1
          /\ wpc'[w] = IF wfound[w] = 0 THEN "absent" ELSE "use"
      BY <1>7 DEF FindUnlock
    <2>2. WSeg(w)' = WSeg(w) /\ WIdentity(w)' = WIdentity(w)
      BY <2>1 DEF WSeg, WCtx, WItem, WIdentity, WExpr
    <2>3. wfound[w] # 0 => Matches(entries[WSeg(w)][wfound[w]], WIdentity(w))'
      BY <1>0, <2>1, <2>2 DEF LookAt, Matches
    <2> QED
      BY <1>0, <2>1, <2>3 DEF LookAt, WCompiling
  <1>8. CASE WUseShared(w) \/ WCompileLocally(w)
    <2>1. /\ wpc[w] \in {"use", "local", "absent"} /\ wpc'[w] = "next"
          /\ wscan' = wscan /\ wk'[w] = wk[w] + 1 /\ wordinal' = wordinal
      BY <1>8 DEF WUseShared, WCompileLocally, Installed
    <2> QED
      BY <1>0, <2>1, LookIdle DEF LookAt, WCompiling
  <1>9. CASE WFinish(w) \/ WFail(w) \/ WTerminate(w)
    <2>1. /\ wpc'[w] = "done" /\ wscan'[w] = 1 /\ wk'[w] = 1
          /\ wordinal'[w] = [c \in WContexts |-> 0]
      BY <1>9 DEF WFinish, WFail, WTerminate, WExit
    <2> QED
      BY <2>1, LookIdle DEF WCompiling
  <1>10. ASSUME NEW c \in WContexts, WEndNested(w, c) PROVE LookAt(w)'
    <2>1. /\ wpc[w] = "next" /\ wpc' = wpc /\ wscan' = wscan /\ wk' = wk /\ wordinal' = wordinal
      BY <1>10 DEF WEndNested
    <2> QED
      BY <1>0, <2>1, LookIdle DEF LookAt, WCompiling
  <1> QED
    BY <1>1, <1>2, <1>3, <1>4, <1>5, <1>6, <1>7, <1>8, <1>9, <1>10 DEF Acts, WorkerSteps

LEMMA LookCorrect == Spec => []LookInv
  <1>1. Init => LookInv
    BY DEF Init, LookInv, LookAt, WCompiling
  <1>2. /\ ControlInv /\ RoomInv /\ LockInv /\ LookInv /\ [Next]_vars
        => LookInv'
    BY StableStep, WorkerMoves, LookRests, LookActs DEF LookInv
  <1>3. Spec => []RoomInv
    BY RoomCorrect
  <1> QED
    BY <1>1, <1>2, <1>3, ControlCorrect, LockCorrect, PTL DEF Spec

-----------------------------------------------------------------------------
(* The log that CodeStore sees, and the answers. *)

Log == [h \in Handles |-> SubSeq(entries[h], 1, num[h])]
Answer == [w \in Workers |-> AnswerOf(w)]

LEMMA PrefixSame ==
    ASSUME NEW s \in Seq(EntrySet), NEW t \in Seq(EntrySet), NEW n \in Nat,
           n <= Len(s), n <= Len(t), \A i \in 1 .. n : t[i] = s[i]
    PROVE  SubSeq(t, 1, n) = SubSeq(s, 1, n)
  <1> HIDE DEF EntrySet
  <1>1. \A i \in 1 .. n : s[i] \in EntrySet /\ t[i] \in EntrySet
    OBVIOUS
  <1>2. /\ SubSeq(s, 1, n) \in Seq(EntrySet) /\ Len(SubSeq(s, 1, n)) = n
        /\ \A i \in 1 .. n : SubSeq(s, 1, n)[i] = s[i]
    BY <1>1
  <1>3. /\ SubSeq(t, 1, n) \in Seq(EntrySet) /\ Len(SubSeq(t, 1, n)) = n
        /\ \A i \in 1 .. n : SubSeq(t, 1, n)[i] = t[i]
    BY <1>1
  <1> QED
    BY <1>2, <1>3, SeqEqual

LEMMA PrefixNext ==
    ASSUME NEW s \in Seq(EntrySet), NEW n \in Nat, n + 1 <= Len(s)
    PROVE  SubSeq(s, 1, n + 1) = Append(SubSeq(s, 1, n), s[n + 1])
  <1> HIDE DEF EntrySet
  <1>1. \A i \in 1 .. n + 1 : s[i] \in EntrySet
    OBVIOUS
  <1>2. /\ SubSeq(s, 1, n) \in Seq(EntrySet) /\ Len(SubSeq(s, 1, n)) = n
        /\ \A i \in 1 .. n : SubSeq(s, 1, n)[i] = s[i]
    BY <1>1
  <1>3. /\ SubSeq(s, 1, n + 1) \in Seq(EntrySet) /\ Len(SubSeq(s, 1, n + 1)) = n + 1
        /\ \A i \in 1 .. n + 1 : SubSeq(s, 1, n + 1)[i] = s[i]
    BY <1>1
  <1> DEFINE a == Append(SubSeq(s, 1, n), s[n + 1])
  <1>4. /\ a \in Seq(EntrySet) /\ Len(a) = n + 1
        /\ \A i \in 1 .. n + 1 : a[i] = s[i]
    <2>1. n + 1 \in 1 .. n + 1
      OBVIOUS
    <2>2. s[n + 1] \in EntrySet
      BY <1>1, <2>1
    <2>3. PICK p : p = SubSeq(s, 1, n)
      OBVIOUS
    <2>4. /\ Append(p, s[n + 1]) \in Seq(EntrySet) /\ Len(Append(p, s[n + 1])) = n + 1
          /\ \A i \in 1 .. n : Append(p, s[n + 1])[i] = p[i]
          /\ Append(p, s[n + 1])[n + 1] = s[n + 1]
      BY <1>2, <2>2, <2>3
    <2> QED
      BY <1>2, <2>3, <2>4
  <1> HIDE DEF a
  <1>5. a = SubSeq(s, 1, n + 1)
    BY <1>3, <1>4, SeqEqual
  <1> QED
    BY <1>5 DEF a

LEMMA EntriesType ==
    ASSUME ControlInv, NEW h \in Handles
    PROVE  entries[h] \in Seq(EntrySet) /\ num[h] \in Nat /\ num[h] <= Len(entries[h])
  BY DEF ControlInv, TypeOK, SegTypeOK, MemoryAt

LEMMA LogSame ==
    ASSUME ControlInv, ControlInv', Stable, UNCHANGED num
    PROVE  UNCHANGED Log
  <1>1. ASSUME NEW h \in Handles
        PROVE  SubSeq(entries'[h], 1, num'[h]) = SubSeq(entries[h], 1, num[h])
    <2>1. entries[h] \in Seq(EntrySet) /\ num[h] \in Nat /\ num[h] <= Len(entries[h])
      BY EntriesType
    <2>2. entries'[h] \in Seq(EntrySet) /\ num[h] <= Len(entries'[h])
      BY <2>1 DEF ControlInv, TypeOK, SegTypeOK, MemoryAt
    <2>3. \A i \in 1 .. num[h] : entries'[h][i] = entries[h][i]
      BY DEF Stable
    <2> QED
      BY <2>1, <2>2, <2>3, PrefixSame
  <1> QED
    BY <1>1 DEF Log

LEMMA Between ==
    ASSUME NEW o \in Nat, o > 0, NEW a \in Nat, NEW b \in Nat, o <= a \/ o <= b
    PROVE  o - 1 \in 0 .. a + b
  OBVIOUS

LEMMA OrdinalIn ==
    ASSUME NEW q \in Queries, NEW i \in 0 .. Len(Plan[q]) + Len(WPlan[q])
    PROVE  i \in Ordinals
  <1> DEFINE S(r) == 0 .. Len(Plan[r]) + Len(WPlan[r])
  <1>1. S(q) \in {S(r) : r \in Queries} /\ i \in S(q)
    OBVIOUS
  <1>2. Ordinals = UNION {S(r) : r \in Queries}
    BY DEF Ordinals
  <1> HIDE DEF S
  <1> QED
    BY <1>1, <1>2

\* What the leader counts is an entry of the plan.
LEMMA CountedIsPlanned ==
    ASSUME ControlInv, EntryInv, lpc = "count"
    PROVE  entries[LSeg][num[LSeg] + 1] \in PublishedSet
  <1>1. lq \in Queries /\ ordinal[lq] \in Nat /\ ordinal[lq] > 0 /\ ordinal[lq] <= Len(Plan[lq])
    BY DEF ControlInv, TypeOK, LeadTypeOK, LeaderAt, Compiling
  <1>2. Len(Plan[lq]) \in Nat /\ Len(WPlan[lq]) \in Nat
    BY <1>1, PlanLengths
  <1>3. ordinal[lq] - 1 \in Ordinals
    <2>1. ordinal[lq] - 1 \in 0 .. Len(Plan[lq]) + Len(WPlan[lq])
      BY <1>1, <1>2, Between
    <2> QED
      BY <1>1, <2>1, OrdinalIn
  <1>4. PICK k \in 1 .. Len(Plan[lq]) : k = ordinal[lq]
    BY <1>1, <1>2
  <1>5. Begun = [node |-> Plan[lq][k].node, idx |-> ordinal[lq] - 1, fp |-> Plan[lq][k].fp,
                 size |-> Plan[lq][k].size, code |-> Plan[lq][k].fp]
    BY <1>4 DEF Begun, LIdentity, Expr
  <1>6. Begun \in PublishedSet
    BY <1>1, <1>3, <1>4, <1>5 DEF PublishedSet
  <1> QED
    BY <1>6 DEF EntryInv

LEMMA CountPublishes ==
    ASSUME ControlInv, EntryInv, StoreCount
    PROVE  \E h \in Handles, e \in PublishedSet : Log' = [Log EXCEPT ![h] = Append(@, e)]
  <1>1. /\ LSeg \in Handles /\ lpc = "count" /\ entries' = entries
        /\ num' = [num EXCEPT ![LSeg] = num[LSeg] + 1]
    BY DEF StoreCount, ControlInv, LeaderAt, Storing
  <1>2. PICK h \in Handles : h = LSeg
    BY <1>1
  <1>3. /\ entries[h] \in Seq(EntrySet) /\ num[h] \in Nat /\ num[h] + 1 <= Len(entries[h])
        /\ num \in [Handles -> Nat]
    BY <1>1, <1>2 DEF ControlInv, TypeOK, SegTypeOK, MemoryAt, Writing
  <1>4. SubSeq(entries[h], 1, num[h] + 1)
            = Append(SubSeq(entries[h], 1, num[h]), entries[h][num[h] + 1])
    BY <1>3, PrefixNext
  <1>5. Log' = [Log EXCEPT ![h] = Append(@, entries[h][num[h] + 1])]
    BY <1>1, <1>2, <1>3, <1>4 DEF Log
  <1> QED
    BY <1>1, <1>2, <1>5, CountedIsPlanned

LEMMA AnswerRests ==
    ASSUME ControlInv, Stable, NEW w \in Workers, Rests(w)
    PROVE  AnswerOf(w)' = AnswerOf(w)
  <1>1. WSeg(w)' = WSeg(w) /\ WIdentity(w)' = WIdentity(w) /\ wpc'[w] = wpc[w]
    BY DEF Rests, WSeg, WCtx, WItem, WIdentity, WExpr
  <1>2. wpc[w] = "use" => entries'[WSeg(w)][wfound[w]] = entries[WSeg(w)][wfound[w]]
    <2> SUFFICES ASSUME wpc[w] = "use"
                 PROVE  entries'[WSeg(w)][wfound[w]] = entries[WSeg(w)][wfound[w]]
      OBVIOUS
    <2>1. WSeg(w) \in Handles
      BY DEF ControlInv, WorkerAt, WFinding
    <2>2. num[WSeg(w)] \in Nat /\ wfound[w] \in Nat /\ wfound[w] # 0 /\ wfound[w] <= num[WSeg(w)]
      BY <2>1 DEF ControlInv, TypeOK, WorkTypeOK, SegTypeOK, MemoryAt
    <2> QED
      BY <2>1, <2>2 DEF Stable
  <1> QED
    BY <1>1, <1>2 DEF AnswerOf, Rests

LEMMA AnswerOthers ==
    ASSUME ControlInv, Stable, NEW w \in Workers, \A v \in Workers \ {w} : Rests(v)
    PROVE  Answer' = [Answer EXCEPT ![w] = AnswerOf(w)']
  <1>1. \A v \in Workers \ {w} : AnswerOf(v)' = AnswerOf(v)
    BY AnswerRests
  <1>2. PICK a : a = AnswerOf(w)'
    OBVIOUS
  <1>3. Answer' = [v \in Workers |-> IF v = w THEN a ELSE AnswerOf(v)]
    BY <1>1, <1>2 DEF Answer
  <1> QED
    BY <1>2, <1>3 DEF Answer

\* A worker's own step gives it an answer, or takes the one it has.
LEMMA ActsAnswer ==
    ASSUME ControlInv, NEW w \in Workers, Acts(w)
    PROVE  \/ FindUnlock(w)
           \/ wpc'[w] \notin {"use", "absent"}
  BY DEF Acts, WorkerSteps, LaunchWorker, WEndNested, Installed, WExit, WBegin, WAttach,
         WAttachRefused, FindLock, FindNoEntry, FindNextEntry, WUseShared, WUseFails,
         WCompileLocally, WFinish, WFail, WTerminate, ControlInv, TypeOK, WorkTypeOK

\* The identity a worker looks up is one of those counted.
LEMMA IdentityIn ==
    ASSUME ControlInv, NEW w \in Workers, LookAt(w), wpc[w] \in WCompiling
    PROVE  WIdentity(w) \in KeySet
  <1>1. /\ wq[w] \in Queries /\ wk[w] \in Nat \ {0} /\ wordinal[w] \in [WContexts -> Nat]
        /\ wk[w] <= Len(WPlan[wq[w]]) /\ wordinal[w][WCtx(w)] > 0
    BY DEF ControlInv, TypeOK, WorkTypeOK, WorkerAt
  <1>2. WExpr(w) \in Exprs /\ WCtx(w) \in WContexts
    BY WItemType
  <1>3. wordinal[w][WCtx(w)] <= wk[w] /\ wordinal[w][WCtx(w)] \in Nat
    BY <1>1, <1>2 DEF LookAt
  <1>4. Len(Plan[wq[w]]) \in Nat /\ Len(WPlan[wq[w]]) \in Nat
    BY <1>1, PlanLengths
  <1>5. wordinal[w][WCtx(w)] - 1 \in 0 .. Len(Plan[wq[w]]) + Len(WPlan[wq[w]])
    <2>1. wordinal[w][WCtx(w)] <= Len(WPlan[wq[w]])
      BY <1>1, <1>3, <1>4
    <2> QED
      BY <1>1, <1>3, <1>4, <2>1, Between
  <1>6. wordinal[w][WCtx(w)] - 1 \in Ordinals
    BY <1>1, <1>5, OrdinalIn
  <1> QED
    BY <1>2, <1>6 DEF WIdentity, KeySet, Exprs

\* find_shared_code gives what CodeStore may: an entry with the key, or none
\* when there is none, at the moment it releases the lock.
LEMMA UnlockAnswers ==
    ASSUME ControlInv, NEW w \in Workers, LookAt(w), FindUnlock(w)
    PROVE  /\ AnswerOf(w) = NoAnswerYet
           /\ WSeg(w) \in Handles /\ WIdentity(w) \in KeySet
           /\ \E a \in Store!Answers(WSeg(w), WIdentity(w)) :
                AnswerOf(w)' = [seg |-> WSeg(w), key |-> WIdentity(w), entry |-> a]
  <1>1. /\ wpc[w] = "unlock" /\ UNCHANGED <<wk, wordinal, wshare, wq, wfound, entries, num>>
        /\ wpc'[w] = IF wfound[w] = 0 THEN "absent" ELSE "use"
    BY DEF FindUnlock, ControlInv, TypeOK, WorkTypeOK
  <1>2. WSeg(w)' = WSeg(w) /\ WIdentity(w)' = WIdentity(w)
    BY <1>1 DEF WSeg, WCtx, WItem, WIdentity, WExpr
  <1>3. WSeg(w) \in Handles /\ WIdentity(w) \in KeySet /\ AnswerOf(w) = NoAnswerYet
    BY <1>1, IdentityIn DEF ControlInv, WorkerAt, WFinding, WCompiling, AnswerOf
  <1>4. PICK h, k : h = WSeg(w) /\ k = WIdentity(w) /\ h \in Handles /\ k \in KeySet
    BY <1>3
  <1>5. /\ Log[h] = SubSeq(entries[h], 1, num[h])
        /\ Len(Log[h]) = num[h] /\ num[h] \in Nat /\ Log[h] \in Seq(EntrySet)
        /\ \A i \in 1 .. num[h] : Log[h][i] = entries[h][i]
    <2>1. entries[h] \in Seq(EntrySet) /\ num[h] \in Nat /\ num[h] <= Len(entries[h])
      BY <1>4, EntriesType
    <2>2. PICK s : s = entries[h]
      OBVIOUS
    <2>3. PICK n : n = num[h]
      OBVIOUS
    <2>4. \A i \in 1 .. n : s[i] \in EntrySet
      BY <2>1, <2>2, <2>3
    <2>5. /\ SubSeq(s, 1, n) \in Seq(EntrySet) /\ Len(SubSeq(s, 1, n)) = n
          /\ \A i \in 1 .. n : SubSeq(s, 1, n)[i] = s[i]
      <3> HIDE DEF EntrySet
      <3> QED
        BY <2>1, <2>3, <2>4
    <2> QED
      BY <1>4, <2>1, <2>2, <2>3, <2>5 DEF Log
  <1> DEFINE Hits == {i \in DOMAIN Log[h] : Store!KeyOf(Log[h][i]) = k}
  <1>6. Store!Answers(h, k) = IF Hits = {} THEN {NoEntry} ELSE {Log[h][i] : i \in Hits}
    BY <1>4 DEF Store!Answers, Log
  <1>7. \A i \in 1 .. num[h] : i \in Hits <=> Matches(entries[h][i], k)
    <2>1. \A i \in 1 .. num[h] : i \in DOMAIN Log[h]
      BY <1>5
    <2>2. k = [node |-> k.node, idx |-> k.idx, fp |-> k.fp]
      BY <1>4 DEF WIdentity
    <2> QED
      BY <1>5, <2>1, <2>2 DEF Store!KeyOf, Matches
  <1>8. Hits \subseteq 1 .. num[h]
    BY <1>5
  <1> HIDE DEF Hits
  <1>9. CASE wfound[w] = 0
    <2>1. Misses(w, num[h])
      BY <1>1, <1>4, <1>9 DEF LookAt
    <2>2. Hits = {}
      BY <1>4, <1>7, <1>8, <2>1 DEF Misses
    <2>3. AnswerOf(w)' = [seg |-> h, key |-> k, entry |-> NoEntry]
      BY <1>1, <1>2, <1>4, <1>9 DEF AnswerOf
    <2> QED
      BY <1>3, <1>4, <1>6, <2>2, <2>3
  <1>10. CASE wfound[w] # 0
    <2>1. Matches(entries[h][wfound[w]], k)
      BY <1>1, <1>4, <1>10 DEF LookAt
    <2>2. wfound[w] \in 1 .. num[h]
      BY <1>1, <1>4, <1>5, <1>10 DEF ControlInv, TypeOK, WorkTypeOK, MemoryAt
    <2>3. wfound[w] \in Hits /\ Log[h][wfound[w]] = entries[h][wfound[w]]
      BY <1>5, <1>7, <2>1, <2>2
    <2>4. entries[h][wfound[w]] \in Store!Answers(h, k)
      BY <1>6, <2>3
    <2>5. AnswerOf(w)' = [seg |-> h, key |-> k, entry |-> entries[h][wfound[w]]]
      BY <1>1, <1>2, <1>4, <1>10 DEF AnswerOf
    <2> QED
      BY <1>3, <1>4, <2>4, <2>5
  <1> QED
    BY <1>9, <1>10

LEMMA ActStores ==
    ASSUME ControlInv, ControlInv', LookInv, Stable, NEW w \in Workers, Acts(w)
    PROVE  \/ UNCHANGED <<Log, Answer>>
           \/ \E h \in Handles, k \in KeySet : Store!Lookup(w, h, k)
           \/ Store!Consume(w)
  <1>1. UNCHANGED Log
    BY ActsLeaveStore, LogSame
  <1>2. Answer' = [Answer EXCEPT ![w] = AnswerOf(w)']
    <2>1. \A v \in Workers \ {w} : Rests(v)
      BY OthersRest
    <2> QED
      BY <2>1, AnswerOthers
  <1>3. Answer[w] = AnswerOf(w) /\ DOMAIN Answer = Workers
    BY DEF Answer
  <1>4. CASE FindUnlock(w)
    <2>1. LookAt(w)
      BY DEF LookInv
    <2>2. PICK h \in Handles, k \in KeySet :
                /\ AnswerOf(w) = NoAnswerYet
                /\ \E a \in Store!Answers(h, k) :
                        AnswerOf(w)' = [seg |-> h, key |-> k, entry |-> a]
      BY <1>4, <2>1, UnlockAnswers
    <2>3. Store!Lookup(w, h, k)
      BY <1>1, <1>2, <1>3, <2>2 DEF Store!Lookup, Log, Answer
    <2> QED
      BY <2>3
  <1>5. CASE wpc'[w] \notin {"use", "absent"}
    <2>1. AnswerOf(w)' = NoAnswerYet
      BY <1>5 DEF AnswerOf
    <2>2. CASE AnswerOf(w) = NoAnswerYet
      <3>1. Answer' = Answer
        BY <1>2, <1>3, <2>1, <2>2 DEF Answer
      <3> QED
        BY <1>1, <3>1
    <2>3. CASE AnswerOf(w) # NoAnswerYet
      BY <1>1, <1>2, <1>3, <2>1, <2>3 DEF Store!Consume, Log, Answer
    <2> QED
      BY <2>2, <2>3
  <1> QED
    BY <1>4, <1>5, ActsAnswer

LEMMA StoreStep ==
    ASSUME ControlInv, ControlInv', EntryInv, LookInv, Stable, [Next]_vars
    PROVE  [Store!StoreNext]_<<Log, Answer>>
  <1>1. ASSUME NEW w \in Workers, Acts(w)
        PROVE  [Store!StoreNext]_<<Log, Answer>>
    BY <1>1, ActStores DEF Store!StoreNext
  <1>2. CASE \A w \in Workers : ~Acts(w)
    <2>1. \A w \in Workers : Rests(w)
      BY <1>2, WorkerMoves
    <2>2. UNCHANGED Answer
      BY <2>1, AnswerRests DEF Answer
    <2>3. CASE StoreCount
      <3>1. PICK h \in Handles, e \in PublishedSet : Log' = [Log EXCEPT ![h] = Append(@, e)]
        BY <2>3, CountPublishes
      <3>2. Store!Publish(h, e)
        BY <2>2, <3>1 DEF Store!Publish, Log, Answer
      <3> QED
        BY <3>2 DEF Store!StoreNext
    <2>4. CASE UNCHANGED num
      BY <2>2, <2>4, LogSame
    <2>5. ASSUME NEW h \in Handles, InitSharedDsm(h)
          PROVE  UNCHANGED num
      BY <2>5 DEF InitSharedDsm, ControlInv, TypeOK, SegTypeOK, MemoryAt
    <2> QED
      BY <2>3, <2>4, <2>5, StoreChanges DEF Quiet, StoreWrite, StoreCopy
  <1> QED
    BY <1>1, <1>2

LEMMA StoreStart == Init => Store!StoreInit
  <1> SUFFICES ASSUME Init PROVE Store!StoreInit
    OBVIOUS
  <1>1. \A h \in Handles : SubSeq(entries[h], 1, num[h]) = <<>>
    BY SubSeqEmpty DEF Init
  <1>2. \A w \in Workers : AnswerOf(w) = NoAnswerYet
    BY DEF Init, AnswerOf
  <1> QED
    BY <1>1, <1>2 DEF Store!StoreInit

\* The lock, the header, the count that is written after the bytes and the scan
\* amount to indivisible publications and lookups: what find_shared_code finds
\* was published, and it finds nothing only when nothing with the key was.
THEOREM StoreImplemented == Spec => ImplementsStore
  <1>1. Init => EntryInv
    BY DEF Init, EntryInv
  <1>2. ControlInv /\ EntryInv /\ [Next]_vars => EntryInv'
    BY EntryStep
  <1>3. ControlInv /\ ControlInv' /\ EntryInv /\ LookInv /\ [Next]_vars
            => [Store!StoreNext]_<<Log, Answer>>
    BY StoreStep, StableStep
  <1>4. [Store!StoreNext]_<<Log, Answer>> => [Store!StoreNext]_Store!storeVars
    BY DEF Store!storeVars, Log, Answer
  <1> QED
    BY <1>1, <1>2, <1>3, <1>4, StoreStart, ControlCorrect, LookCorrect, PTL
    DEF Spec, ImplementsStore, Store!StoreSpec
=============================================================================
