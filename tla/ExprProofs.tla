----------------------------- MODULE ExprProofs -----------------------------
(***************************************************************************)
(* Proofs about ExprRun, for every program, backend and value of the       *)
(* constants.                                                              *)
(***************************************************************************)
EXTENDS Conditions, WellFoundedInduction, TLAPS

Fields == {"pc", "val", "nul", "any", "ec", "tts", "grp", "mcx", "cptr", "hreg"}
\* A machine has its fields, and a flag for each cell.
HasShape(mm) == DOMAIN mm = Fields /\ DOMAIN mm.val = DOMAIN mm.nul
\* A machine made of b has its shape and its slots: which slot the context
\* has, what the slots hold, which arrays are cached.
Keeps(b, mm) ==
  /\ HasShape(mm) /\ mm.tts = b.tts /\ mm.cptr = b.cptr
  /\ "slot" \in DOMAIN b.ec => "slot" \in DOMAIN mm.ec /\ mm.ec.slot = b.ec.slot

\* The elementary changes of a machine keep shape and slots.
LEMMA KeepsSelf ==
  ASSUME NEW mm, HasShape(mm) PROVE Keeps(mm, mm)
BY DEF Keeps
LEMMA KeepsOn ==
  ASSUME NEW b, NEW mm, Keeps(b, mm)
  PROVE  /\ Keeps(b, Skip(mm)) /\ Keeps(b, Raise(mm))
         /\ \A t : Keeps(b, Goto(mm, t))
         /\ \A c, v : Keeps(b, SetVal(mm, c, v))
         /\ \A c, n : Keeps(b, SetNul(mm, c, n))
         /\ \A c, v, n : Keeps(b, SetRes(mm, c, v, n)) /\ Keeps(b, SetTrans(mm, c, v, n))
         /\ \A a, v : Keeps(b, [mm EXCEPT !.any[a] = v])
         /\ \A v : Keeps(b, [mm EXCEPT !.mcx = v]) /\ Keeps(b, [mm EXCEPT !.hreg = v])
BY DEF Keeps, HasShape, Fields, SetVal, SetNul, SetRes, Skip, Goto, Raise, SetTrans

\* So its shape alone.
LEMMA ShapeKept ==
  ASSUME NEW mm, HasShape(mm)
  PROVE  /\ HasShape(Skip(mm)) /\ HasShape(Raise(mm))
         /\ \A t : HasShape(Goto(mm, t))
         /\ \A c, v : HasShape(SetVal(mm, c, v))
         /\ \A c, n : HasShape(SetNul(mm, c, n))
         /\ \A c, v, n : HasShape(SetRes(mm, c, v, n)) /\ HasShape(SetTrans(mm, c, v, n))
         /\ \A a, v : HasShape([mm EXCEPT !.any[a] = v])
         /\ \A v : HasShape([mm EXCEPT !.mcx = v]) /\ HasShape([mm EXCEPT !.hreg = v])
BY DEF HasShape, Fields, SetVal, SetNul, SetRes, Skip, Goto, Raise, SetTrans

LEMMA SljitBooleanKeeps ==
  ASSUME NEW b, NEW mm, Keeps(b, mm), NEW op PROVE Keeps(b, SljitBoolean(mm, op))
BY KeepsOn DEF SljitBoolean, SljitBoolAnd, SljitBoolOr, SljitBoolEnd, SljitBoolNot, SljitQual, SljitJump, SljitJumpIfNull,
   SljitJumpIfNotNull, SljitJumpIfNotTrue, JumpIf, SljitNullTest, SljitBoolTest
LEMMA FallbackBooleanKeeps ==
  ASSUME NEW b, NEW mm, Keeps(b, mm), NEW op PROVE Keeps(b, FallbackBoolean(mm, op))
BY KeepsOn DEF FallbackBoolean, FallbackBoolAnd, FallbackBoolOr, FallbackBool, FallbackBoolNot, FallbackQual, FallbackJump,
   JumpIf, FallbackNullTest, FallbackBoolTest
LEMMA MirBooleanKeeps ==
  ASSUME NEW b, NEW mm, Keeps(b, mm), NEW op PROVE Keeps(b, MirBoolean(mm, op))
BY KeepsOn DEF MirBoolean, MirBoolAnd, MirBoolOr, MirBoolNot, MirQual, MirJump, MirJumpIfNull, MirJumpIfNotNull, MirJumpIfNotTrue,
   JumpIf, MirNullTest, MirBoolTest

\* Columns: only a FETCHSOME touches slots.
Keeping(b, mm, op) == op.opc # "FETCHSOME" => Keeps(b, mm)
LEMMA InterpColumnKeeps ==
  ASSUME NEW b, NEW mm, Keeps(b, mm), NEW op PROVE Keeping(b, InterpColumn(mm, op), op)
BY KeepsOn DEF Keeping, InterpColumn, InterpDone, InterpVar, InterpAssignTmp, InterpConst, InterpSysVar, InterpMakeReadOnly
LEMMA FallbackColumnKeeps ==
  ASSUME NEW b, NEW mm, Keeps(b, mm), NEW op PROVE Keeping(b, FallbackColumn(mm, op), op)
BY KeepsOn, InterpColumnKeeps DEF Keeping, FallbackColumn, FallbackVar, FallbackAssignVar, FallbackAssignTmp, FallbackConst,
   FallbackMakeReadOnly
LEMMA MirColumnKeeps ==
  ASSUME NEW b, NEW mm, Keeps(b, mm), NEW op PROVE Keeping(b, MirColumn(mm, op), op)
BY KeepsOn, FallbackColumnKeeps DEF Keeping, MirColumn, MirDone, MirVar, MirAssignVar, MirAssignTmp, MirConst, MirSysVar
LEMMA CopyColumnsKeeps ==
  ASSUME NEW b, NEW mm, Keeps(b, mm), NEW ss PROVE Keeps(b, CopyColumns(mm, ss)) /\ Keeps(b, SljitAssignVarLoop(mm, ss))
BY DEF CopyColumns, SljitAssignVarLoop, Keeps, HasShape, Fields
LEMMA SljitColumnKeeps ==
  ASSUME NEW b, NEW mm, Keeps(b, mm), NEW ss PROVE Keeping(b, SljitColumn(mm, ss), ss[mm.pc])
BY KeepsOn, CopyColumnsKeeps DEF Keeping, SljitColumn, SljitDone, SljitVar, SljitAssignVar, SljitAssignTmp, SljitConst, SljitSysVar,
   InterpSysVar, SljitMakeReadOnly
\* A FETCHSOME, whoever executes it: more columns of its slot, then on.
Fetched(b, mm, op) ==
  /\ HasShape(mm) /\ mm.pc = b.pc + 1 /\ mm.tts = GetSomeAttrs(b, SlotOf(b, op), op.last).tts /\ mm.ec = b.ec
  /\ DOMAIN mm.cptr = DOMAIN b.cptr
LEMMA FetchSome ==
  ASSUME NEW mm, HasShape(mm), NEW op
  PROVE  /\ Fetched(mm, InterpFetchSome(mm, op), op) /\ Fetched(mm, MirFetchSome(mm, op), op)
         /\ Fetched(mm, SljitFetchSome(mm, op), op)
         /\ SljitFetchSome(mm, op).cptr = [mm.cptr EXCEPT ![op.slot] = SlotOf(mm, op)]
         /\ mm.tts[SlotOf(mm, op)].nvalid \in Nat /\ op.last \in Nat => Fetched(mm, FallbackFetchSome(mm, op), op)
         /\ HasShape(FallbackFetchSome(mm, op))
<1> DEFINE s == SlotOf(mm, op)
           some == GetSomeAttrs(mm, s, op.last)
<1>1. HasShape(some) /\ some.pc = mm.pc /\ some.ec = mm.ec /\ some.cptr = mm.cptr
  BY DEF GetSomeAttrs, HasShape, Fields
<1>2. mm.tts[s].nvalid >= op.last => some = mm
  BY DEF GetSomeAttrs
<1>3. \A q : HasShape(q) /\ q.pc = mm.pc /\ q.ec = mm.ec /\ q.tts = some.tts /\ DOMAIN q.cptr = DOMAIN mm.cptr
              => Fetched(mm, Skip(q), op)
  BY DEF Fetched, Skip, HasShape, Fields
<1> DEFINE cached == [some EXCEPT !.cptr[op.slot] = s]
<1>4. /\ HasShape(cached) /\ cached.pc = mm.pc /\ cached.ec = mm.ec /\ cached.tts = some.tts
      /\ cached.cptr = [mm.cptr EXCEPT ![op.slot] = s] /\ Skip(cached).cptr = cached.cptr
  <2> HIDE DEF some
  <2> QED
    BY <1>1 DEF Skip, HasShape, Fields
<1>5. SljitFetchSome(mm, op) = Skip(cached)
  BY <1>2 DEF SljitFetchSome
<1>6. InterpFetchSome(mm, op) = Skip(some) /\ MirFetchSome(mm, op) = Skip(some)
  BY <1>2 DEF InterpFetchSome, MirFetchSome
<1>7. mm.tts[s].nvalid \in Nat /\ op.last \in Nat => FallbackFetchSome(mm, op) = Skip(some)
  <2> HIDE DEF s
  <2>1. mm.tts[s].nvalid \in Nat /\ op.last \in Nat => mm.tts[s].nvalid < op.last \/ mm.tts[s].nvalid >= op.last
    OBVIOUS
  <2> QED
    BY <1>2, <2>1 DEF FallbackFetchSome, s
<1>8. FallbackFetchSome(mm, op) \in {Skip(some), Skip(mm)}
  BY DEF FallbackFetchSome
<1>9. HasShape(Skip(some)) /\ HasShape(Skip(mm))
  <2> HIDE DEF some
  <2> QED
    BY <1>1 DEF Skip, HasShape, Fields
<1> HIDE DEF some, cached
<1>10. Fetched(mm, Skip(some), op) /\ Fetched(mm, Skip(cached), op)
  BY <1>1, <1>3, <1>4
<1> QED
  BY <1>4, <1>5, <1>6, <1>7, <1>10, <1>8, <1>9

\* Values of the context.
LEMMA InterpContextKeeps ==
  ASSUME NEW b, NEW mm, Keeps(b, mm), NEW op
  PROVE  Keeps(b, InterpContext(mm, op)) /\ Keeps(b, InterpParamExec(mm, op)) /\ Keeps(b, InterpGroupingFunc(mm, op))
<1>1. Keeps(b, [mm EXCEPT !.ec.param[op.param].lazy = FALSE])
  BY DEF Keeps, HasShape, Fields
<1> QED
  BY <1>1, KeepsOn DEF InterpContext, InterpTestVal, InterpParamExec, InterpAggRef, InterpWindowFunc, InterpReturningExpr,
     InterpGroupingFunc
LEMMA FallbackContextKeeps ==
  ASSUME NEW b, NEW mm, Keeps(b, mm), NEW op PROVE Keeps(b, FallbackContext(mm, op))
BY KeepsOn, InterpContextKeeps DEF FallbackContext, FallbackTestVal, FallbackAggRef, FallbackReturningExpr
LEMMA MirContextKeeps ==
  ASSUME NEW b, NEW mm, Keeps(b, mm), NEW op PROVE Keeps(b, MirContext(mm, op))
BY KeepsOn, InterpContextKeeps, FallbackContextKeeps DEF MirContext, MirCaseTestVal, MirParamExec, MirAggRef, MirWindowFunc,
   MirReturningExpr, MirGroupingFunc
LEMMA SljitContextKeeps ==
  ASSUME NEW b, NEW mm, Keeps(b, mm), NEW op PROVE Keeps(b, SljitContext(mm, op))
BY KeepsOn, InterpContextKeeps DEF SljitContext, SljitCaseTestVal, SljitDomainTestVal, SljitParamExec, SljitAggRef, SljitWindowFunc,
   SljitReturningExpr, SljitGroupingFunc
\* Compares.
LEMMA InterpCompareKeeps ==
  ASSUME NEW b, NEW mm, Keeps(b, mm), NEW op PROVE Keeps(b, InterpCompare(mm, op))
BY KeepsOn DEF InterpCompare, InterpDistinct, InterpNullIf, InterpRowCompareStep, InterpCompared, JumpIf, InterpRowCompareFinal,
   InterpMinMax, InterpScalarArrayOp, StoreCall, InterpHashedSaop, InterpDomainNotNull, InterpDomainCheck
LEMMA FallbackCompareKeeps ==
  ASSUME NEW b, NEW mm, Keeps(b, mm), NEW op PROVE Keeps(b, FallbackCompare(mm, op))
BY KeepsOn, InterpCompareKeeps DEF FallbackCompare, FallbackDistinct, FallbackNullIf, FallbackRowCompareStep, FallbackCompared,
   JumpIf, FallbackRowCompareFinal
LEMMA ListKeeps ==
  ASSUME NEW b, NEW mm, Keeps(b, mm), NEW op, NEW found
  PROVE  /\ Keeps(b, ScalarArrayOpLoop(mm, op)) /\ Keeps(b, InterpHashedSaop(mm, op)) /\ Keeps(b, InterpMinMax(mm, op))
         /\ Keeps(b, SljitStoreFound(mm, op, found)) /\ Keeps(b, MirStoreFound(mm, op, found))
BY KeepsOn DEF ScalarArrayOpLoop, InterpHashedSaop, InterpMinMax, SljitStoreFound, MirStoreFound
LEMMA SearchKeeps ==
  ASSUME NEW b, NEW mm, Keeps(b, mm), NEW op
  PROVE  Keeps(b, MirHashedSaop(mm, op)) /\ Keeps(b, SljitHashedSaop(mm, op))
<1>1. Keeps(b, SljitTreeSearch(mm, op)) /\ Keeps(b, MirTreeSearch(mm, op))
  BY ListKeeps DEF SljitTreeSearch, MirTreeSearch
<1>2. Keeps(b, SljitSimdScan(mm, op)) /\ Keeps(b, SljitCrc32Search(mm, op)) /\ Keeps(b, SljitTextSearch(mm, op))
  BY ListKeeps DEF SljitSimdScan, SljitCrc32Search, SljitTextSearch
<1>3. Keeps(b, MirTextSearch(mm, op))
  BY ListKeeps DEF MirTextSearch
<1> QED
  BY <1>1, <1>2, <1>3, ListKeeps DEF MirHashedSaop, SljitHashedSaop
LEMMA MinMaxKeeps ==
  ASSUME NEW b, NEW mm, Keeps(b, mm), NEW op
  PROVE  Keeps(b, MirMinMax(mm, op)) /\ Keeps(b, SljitMinMax(mm, op))
BY KeepsOn, ListKeeps DEF MirMinMax, SljitMinMax
LEMMA MirComparisonKeeps ==
  ASSUME NEW b, NEW mm, Keeps(b, mm), NEW op PROVE Keeps(b, MirComparison(mm, op))
BY KeepsOn, FallbackCompareKeeps, ListKeeps, SearchKeeps, MinMaxKeeps DEF MirComparison, MirRowCompareStep, MirCompared, JumpIf,
   MirRowCompareFinal, MirScalarArrayOp
LEMMA SljitCompareKeeps ==
  ASSUME NEW b, NEW mm, Keeps(b, mm), NEW op PROVE Keeps(b, SljitCompare(mm, op))
<1>1. Keeps(b, SljitDistinct(mm, op)) /\ Keeps(b, SljitNullIf(mm, op)) /\ Keeps(b, SljitRowCompareFinal(mm, op))
  BY KeepsOn DEF SljitDistinct, SljitNullIf, SljitRowCompareFinal
<1>2. Keeps(b, SljitRowCompareStep(mm, op)) /\ Keeps(b, SljitScalarArrayOp(mm, op))
  BY KeepsOn, ListKeeps DEF SljitRowCompareStep, SljitCompared, JumpIf, SljitScalarArrayOp
<1>3. Keeps(b, SljitDomainNotNull(mm, op)) /\ Keeps(b, SljitDomainCheck(mm, op))
  BY KeepsOn DEF SljitDomainNotNull, InterpDomainNotNull, SljitDomainCheck, InterpDomainCheck
<1> QED
  BY <1>1, <1>2, <1>3, SearchKeeps, MinMaxKeeps DEF SljitCompare

\* Calls.
LEMMA InterpCallKeeps ==
  ASSUME NEW b, NEW mm, Keeps(b, mm), NEW op PROVE Keeps(b, InterpCall(mm, op))
BY KeepsOn DEF InterpCall, InterpFuncExprStrict, InterpFuncExpr, StoreCall, InterpIoCoerce, StoreValue, InterpIoCoerceSafe,
   InterpReadSafe, StoreSoft, InterpHelperUnlessNull, InterpIsJson, InterpHelper, InterpNextValue, StoreNotNull,
   InterpCoercionFinish, InterpSubscripts, JumpUnless, JumpIf, InterpJsonPath, StoreAndJump
LEMMA FallbackCallKeeps ==
  ASSUME NEW b, NEW mm, Keeps(b, mm), NEW op PROVE Keeps(b, FallbackCall(mm, op))
BY KeepsOn, InterpCallKeeps DEF FallbackCall, FallbackFuncExpr, StoreCall, FallbackIoCoerce, FallbackSubscripts, JumpUnless, JumpIf
LEMMA MirCallKeeps ==
  ASSUME NEW b, NEW mm, Keeps(b, mm), NEW op PROVE Keeps(b, MirCall(mm, op))
BY KeepsOn, FallbackCallKeeps DEF MirCall, MirFuncExpr, MirStrictNull, StoreNotNull, MirCallDirect, MirLikeHelper, MirRegex, MirJsonbField, StoreCall,
   MirCallV1, MirIoCoerce, MirIoCoerceSafe, MirReadSafe, MirStoreSoft, MirFieldSelect, MirArrayExpr, InterpHelper,
   InterpFuncExpr, MirSqlValue, MirIsJson, MirSubscripts, JumpUnless, JumpIf, MirSbsref, MirJsonPath, StoreAndJump,
   MirParamCallback, MirHelper2
LEMMA SljitCallKeeps ==
  ASSUME NEW b, NEW mm, Keeps(b, mm), NEW op PROVE Keeps(b, SljitCall(mm, op))
BY KeepsOn, ZenonT(30) DEF SljitCall, SljitFuncExpr, SljitStrictNull, SljitCallInline, StoreNotNull, SljitCallDirect, SljitLikePrefix,
   SljitLikeHelper, SljitRegex, SljitJsonbField, StoreCall, SljitCallV1, SljitCoercionFinish, InterpCoercionFinish,
   SljitIoCoerce, SljitIoCoerceSafe, SljitReadSafe, SljitStoreSoft, SljitFieldSelect, SljitConvertRowtype,
   SljitSubscripts, JumpUnless, JumpIf, SljitSbsref, SljitJsonPath, SljitDispatch, SljitParamCallback, InterpHelper,
   InterpFuncExpr, SljitNextValue, SljitRow, SljitArrayExpr, SljitSqlValue, SljitIsJson, SljitHelper2, SljitHelper3

\* Hashes.
LEMMA InterpHashKeeps ==
  ASSUME NEW b, NEW mm, Keeps(b, mm), NEW op PROVE Keeps(b, InterpHash(mm, op))
BY KeepsOn DEF InterpHash, InterpHashInit, InterpHashFirst, InterpHashFirstStrict, InterpHashNext, InterpHashNextStrict
LEMMA FallbackHashStepKeeps ==
  ASSUME NEW b, NEW mm, Keeps(b, mm), NEW op PROVE Keeps(b, FallbackHashStep(mm, op))
BY KeepsOn DEF FallbackHashStep, FallbackHashInit, FallbackHash
LEMMA MirHashKeeps ==
  ASSUME NEW b, NEW mm, Keeps(b, mm), NEW op PROVE Keeps(b, MirHash(mm, op))
BY KeepsOn DEF MirHash, MirHashInit, MirHashFirst, MirHashFirstStrict, MirHashNext, MirHashNextStrict
LEMMA SljitHashKeeps ==
  ASSUME NEW b, NEW mm, Keeps(b, mm), NEW op PROVE Keeps(b, SljitHash(mm, op))
BY KeepsOn DEF SljitHash, SljitHashInit, StoreHash, SljitHashFirst, SljitHashFirstStrict, SljitHashNext, SljitHashNextStrict

\* Aggregates.
LEMMA GroupKeeps ==
  ASSUME NEW b, NEW mm, Keeps(b, mm), NEW op, NEW g, NEW v, NEW n
  PROVE  /\ Keeps(b, [SetTrans(mm, g, v, n) EXCEPT !.grp[g].no = FALSE])
         /\ Keeps(b, [mm EXCEPT !.grp[g].first = FALSE, !.grp[g].last = v])
         /\ Keeps(b, [mm EXCEPT !.grp[g].v = v])
BY DEF Keeps, HasShape, Fields, SetTrans
LEMMA SharedAggregateKeeps ==
  ASSUME NEW b, NEW mm, Keeps(b, mm), NEW op
  PROVE  Keeps(b, InitGroup(mm, op)) /\ Keeps(b, InterpPresorted(mm, op)) /\ Keeps(b, InterpAdvance(mm, op))
<1>1. Keeps(b, InitGroup(mm, op))
  BY KeepsOn, GroupKeeps, ZenonT(30) DEF InitGroup
<1>2. Keeps(b, InterpPresorted(mm, op))
  BY KeepsOn, GroupKeeps, ZenonT(30) DEF InterpPresorted, JumpIf
<1>3. Keeps(b, InterpAdvance(mm, op))
  BY KeepsOn DEF InterpAdvance, StoreTrans
<1> QED
  BY <1>1, <1>2, <1>3
LEMMA InterpAggregateKeeps ==
  ASSUME NEW b, NEW mm, Keeps(b, mm), NEW op PROVE Keeps(b, InterpAggregate(mm, op))
BY KeepsOn, SharedAggregateKeeps DEF InterpAggregate, InterpDeserialize, InterpFuncExpr, StoreCall, InterpStrictInput, JumpIf,
   InterpPerGroup, InterpAggTrans
LEMMA AggTransKeeps ==
  ASSUME NEW b, NEW mm, Keeps(b, mm), NEW op
  PROVE  Keeps(b, AggTransCall(mm, op)) /\ Keeps(b, SljitAggCall(mm, op))
<1> DEFINE inner == [mm EXCEPT !.mcx = "tuple"]
           r == Apply(op.fn, TransArgs(mm, op))
<1>1. Keeps(b, inner) /\ Keeps(b, SetTrans(inner, op.grp, r.v, r.n))
  BY KeepsOn
<1>2. Keeps(b, [SetTrans(inner, op.grp, r.v, r.n) EXCEPT !.mcx = mm.mcx]) /\ Keeps(b, Raise(inner))
  BY <1>1, KeepsOn
<1>3. Keeps(b, Skip([SetTrans(inner, op.grp, r.v, r.n) EXCEPT !.mcx = mm.mcx]))
  BY <1>2, KeepsOn
<1> QED
  BY <1>2, <1>3 DEF AggTransCall, AggTransEnd, AggByRefFinish, SljitAggCall, SljitAfterCall
LEMMA FallbackAggregateKeeps ==
  ASSUME NEW b, NEW mm, Keeps(b, mm), NEW op PROVE Keeps(b, FallbackAggregate(mm, op))
BY KeepsOn, SharedAggregateKeeps, AggTransKeeps DEF FallbackAggregate, FallbackDeserialize, StoreCall, FallbackStrictInput, JumpIf,
   FallbackPerGroup, FallbackPresorted, FallbackAggTrans, AggTransInitStrict, AggTransStrict
LEMMA MirAggTransKeeps ==
  ASSUME NEW b, NEW mm, Keeps(b, mm), NEW op PROVE Keeps(b, MirAggTrans(mm, op))
<1>1. Keeps(b, MirCount(mm, op)) /\ Keeps(b, MirInt4MinMax(mm, op)) /\ Keeps(b, MirIntAvg(mm, op))
  BY KeepsOn, ZenonT(30) DEF MirCount, MirInt4MinMax, MirIntAvg
<1>2. Keeps(b, MirInt4Sum(mm, op))
  BY KeepsOn, GroupKeeps, ZenonT(30) DEF MirInt4Sum
<1> QED
  BY <1>1, <1>2, KeepsOn, SharedAggregateKeeps, AggTransKeeps DEF MirAggTrans
LEMMA MirAggregateKeeps ==
  ASSUME NEW b, NEW mm, Keeps(b, mm), NEW op PROVE Keeps(b, MirAggregate(mm, op))
BY MirAggTransKeeps, SharedAggregateKeeps, FallbackAggregateKeeps DEF MirAggregate, MirPresorted
LEMMA SljitAdvanceKeeps ==
  ASSUME NEW b, NEW mm, Keeps(b, mm), NEW op PROVE Keeps(b, SljitAdvance(mm, op))
<1>1. Keeps(b, SljitNumericAvgAccum(mm, op)) /\ Keeps(b, SljitInt8AvgAccum(mm, op)) /\ Keeps(b, SljitCount(mm, op))
  BY KeepsOn, SharedAggregateKeeps DEF SljitNumericAvgAccum, SljitInt8AvgAccum, SljitCount
<1>2. Keeps(b, SljitIntSum(mm, op))
  BY KeepsOn, GroupKeeps, ZenonT(30) DEF SljitIntSum
<1>3. \A keep, v : Keeps(b, KeepOr(mm, op, keep, v))
  BY KeepsOn DEF KeepOr
<1>4. /\ Keeps(b, SljitInt4MinMax(mm, op)) /\ Keeps(b, SljitInt8MinMax(mm, op)) /\ Keeps(b, SljitInt2MinMax(mm, op))
      /\ Keeps(b, SljitFloatMinMax(mm, op)) /\ Keeps(b, SljitDateOidMinMax(mm, op)) /\ Keeps(b, SljitTimeMinMax(mm, op))
  BY <1>3 DEF SljitInt4MinMax, SljitInt8MinMax, SljitInt2MinMax, SljitFloatMinMax, SljitDateOidMinMax, SljitTimeMinMax
<1>5. /\ Keeps(b, SljitFloat8Sum(mm, op)) /\ Keeps(b, SljitFloat4Sum(mm, op))
      /\ Keeps(b, SljitFloatAccum(mm, op)) /\ Keeps(b, SljitIntAvgAccum(mm, op))
  BY KeepsOn DEF SljitFloat8Sum, SljitFloat4Sum, SljitFloatAccum, SljitIntAvgAccum
<1> QED
  BY <1>1, <1>2, <1>4, <1>5, AggTransKeeps DEF SljitAdvance
LEMMA SljitAggregateKeeps ==
  ASSUME NEW b, NEW mm, Keeps(b, mm), NEW op PROVE Keeps(b, SljitAggregate(mm, op))
BY KeepsOn, SharedAggregateKeeps, SljitAdvanceKeeps DEF SljitAggregate, SljitDeserialize, StoreCall, SljitStrictInput, JumpIf,
   SljitPerGroup, SljitPresorted, SljitAggTrans
(***************************************************************************)
(* The invariant: machines keep their shape, steps keep the fields their   *)
(* opcode needs although compilation writes over some of them.             *)
(***************************************************************************)
StepsHold(ss) ==
  /\ DOMAIN ss \subseteq Nat \ {0}
  /\ \A i \in DOMAIN ss : HasFields(ss[i]) /\ (IsLast(ss[i]) => ss[i].jump = i + 1)
IInv == HasShape(m) /\ HasShape(ref) /\ StepsHold(steps) /\ backend \in AllBackends

LEMMA InterpretShape ==
  ASSUME NEW mm, HasShape(mm), NEW op PROVE HasShape(Interpret(mm, op))
<1>1. Keeps(mm, InterpBoolean(mm, op))
  BY KeepsSelf, KeepsOn DEF InterpBoolean, InterpBoolAnd, InterpBoolOr, InterpBoolLast, InterpBoolStep, InterpBoolNot, InterpQual,
     InterpJump, InterpJumpIfNull, InterpJumpIfNotNull, InterpJumpIfNotTrue, JumpIf, InterpNullTest, InterpBoolTest
<1>2. HasShape(InterpColumn(mm, op))
  <2>1. CASE op.opc = "FETCHSOME"
    BY <2>1, FetchSome DEF InterpColumn, Fetched
  <2>2. CASE op.opc # "FETCHSOME"
    BY <2>2, KeepsSelf, InterpColumnKeeps DEF Keeping, Keeps
  <2> QED
    BY <2>1, <2>2
<1>3. /\ Keeps(mm, InterpContext(mm, op)) /\ Keeps(mm, InterpCompare(mm, op)) /\ Keeps(mm, InterpCall(mm, op))
      /\ Keeps(mm, InterpHash(mm, op)) /\ Keeps(mm, InterpAggregate(mm, op))
  BY KeepsSelf, InterpContextKeeps, InterpCompareKeeps, InterpCallKeeps, InterpHashKeeps, InterpAggregateKeeps
<1>4. \A q : Keeps(mm, q) => HasShape(q)
  BY DEF Keeps
<1> QED
  BY <1>1, <1>2, <1>3, <1>4 DEF Interpret
LEMMA LandedKeeps ==
  ASSUME NEW b, NEW mm, Keeps(b, mm), NEW ss PROVE Keeps(b, Landed(mm, ss))
BY DEF Landed, Keeps, HasShape, Fields
LEMMA ByBackendKeeps ==
  ASSUME NEW mm, NEW x, NEW y, NEW z, Keeps(mm, x), Keeps(mm, y), Keeps(mm, z) PROVE Keeps(mm, ByBackend(x, y, z))
BY LandedKeeps DEF ByBackend
LEMMA OnRowShape ==
  ASSUME NEW mm, HasShape(mm), NEW r PROVE HasShape(OnRow(mm, r))
BY DEF OnRow, HasShape, Fields

\* A pointer of a search written over a step leaves the fields of the step;
\* the jump of an AND or OR is not the field it lands on.
LEMMA OverwrittenFields ==
  ASSUME NEW op
  PROVE  /\ DOMAIN Overwritten(op) = DOMAIN op
         /\ \A f \in DOMAIN op : f \notin {"jump", "any"} => Overwritten(op)[f] = op[f]
BY DEF Overwritten
LEMMA OverwrittenHolds ==
  ASSUME NEW op, HasFields(op), NEW i \in Nat, IsLast(op) => op.jump = i + 1
  PROVE  HasFields(Overwritten(op)) /\ (IsLast(Overwritten(op)) => Overwritten(op).jump = i + 1)
<1>1. CASE op.opc \in {"BOOL_AND", "BOOL_OR"}
  <2>1. Overwritten(op) = [op EXCEPT !.any = "desc"]
    BY <1>1 DEF Overwritten
  <2>2. DOMAIN Overwritten(op) = DOMAIN op /\ \A f \in DOMAIN op : f # "any" => Overwritten(op)[f] = op[f]
    BY <2>1
  <2>3. {"opc", "place", "any", "jump"} \subseteq DOMAIN op /\ op.place \in {"first", "middle", "last"}
    BY <1>1 DEF HasFields, JumpOpcodes
  <2>4. Overwritten(op).opc = op.opc /\ Overwritten(op).place = op.place /\ Overwritten(op).jump = op.jump
    BY <2>2, <2>3
  <2>5. HasFields(Overwritten(op))
    BY <1>1, <2>2, <2>3, <2>4 DEF HasFields
  <2> QED
    BY <1>1, <2>4, <2>5 DEF IsLast
<1>2. CASE op.opc \notin {"BOOL_AND", "BOOL_OR"}
  <2>1. /\ "opc" \in DOMAIN op
        /\ op.opc = "NULLTEST" => "isnull" \in DOMAIN op /\ op.isnull \in BOOLEAN
        /\ op.opc = "BOOLTEST" => {"truth", "negated"} \subseteq DOMAIN op /\ op.truth \in BOOLEAN /\ op.negated \in BOOLEAN
        /\ op.opc = "FETCHSOME" => {"slot", "last"} \subseteq DOMAIN op /\ op.slot \in SlotKinds /\ op.last \in Nat
        /\ op.opc \in {"VAR", "ASSIGN_VAR"} => {"slot", "att"} \subseteq DOMAIN op /\ op.slot \in SlotKinds /\ op.att \in Nat
        /\ op.opc = "ASSIGN_VAR" => "resno" \in DOMAIN op /\ op.resno \in Nat
    BY DEF HasFields
  <2>2. Overwritten(op).opc = op.opc
    BY <2>1, OverwrittenFields
  <2>3. op.opc = "NULLTEST" => Overwritten(op).isnull = op.isnull
    BY <2>1, OverwrittenFields
  <2>4. op.opc = "BOOLTEST" => Overwritten(op).truth = op.truth /\ Overwritten(op).negated = op.negated
    BY <2>1, OverwrittenFields
  <2>5. op.opc = "FETCHSOME" => Overwritten(op).slot = op.slot /\ Overwritten(op).last = op.last
    BY <2>1, OverwrittenFields
  <2>6. /\ op.opc \in {"VAR", "ASSIGN_VAR"} => Overwritten(op).slot = op.slot /\ Overwritten(op).att = op.att
        /\ op.opc = "ASSIGN_VAR" => Overwritten(op).resno = op.resno
    BY <2>1, OverwrittenFields
  <2>7. DOMAIN Overwritten(op) = DOMAIN op
    BY OverwrittenFields
  <2>8. HasFields(Overwritten(op))
    <3> DEFINE new == Overwritten(op)
    <3> HIDE DEF new
    <3>1. /\ new.opc = op.opc /\ DOMAIN new = DOMAIN op
          /\ op.opc = "NULLTEST" => new.isnull = op.isnull
          /\ op.opc = "BOOLTEST" => new.truth = op.truth /\ new.negated = op.negated
          /\ op.opc = "FETCHSOME" => new.slot = op.slot /\ new.last = op.last
          /\ op.opc \in {"VAR", "ASSIGN_VAR"} => new.slot = op.slot /\ new.att = op.att
          /\ op.opc = "ASSIGN_VAR" => new.resno = op.resno
      BY <2>2, <2>3, <2>4, <2>5, <2>6, <2>7 DEF new
    <3>2. HasFields(new)
      BY <1>2, <2>1, <3>1 DEF HasFields
    <3> QED
      BY <3>2 DEF new
  <2> QED
    BY <1>2, <2>2, <2>8 DEF IsLast
<1> QED
  BY <1>1, <1>2

LEMMA PrepareHolds ==
  ASSUME StepsHold(steps), Prepare PROVE StepsHold(steps')
<1> DEFINE op(i) == SetupArrays(steps, cases')[i]
<1>1. \A i \in DOMAIN steps : HasFields(op(i)) /\ (IsLast(op(i)) => op(i).jump = i + 1)
  BY OverwrittenHolds DEF SetupArrays, StepsHold
<1>2. \A i \in DOMAIN steps : op(i).opc = "HASHED_SAOP" => HasFields(PlanList(op(i))) /\ ~IsLast(PlanList(op(i)))
  <2> SUFFICES ASSUME NEW i \in DOMAIN steps, op(i).opc = "HASHED_SAOP"
               PROVE  HasFields(PlanList(op(i))) /\ ~IsLast(PlanList(op(i)))
    OBVIOUS
  <2>1. "opc" \in DOMAIN op(i)
    BY <1>1 DEF HasFields
  <2>2. \A plan : "opc" \in DOMAIN WithPlan(op(i), plan) /\ WithPlan(op(i), plan).opc = "HASHED_SAOP"
    BY <2>1 DEF WithPlan
  <2>3. "opc" \in DOMAIN PlanList(op(i)) /\ PlanList(op(i)).opc = "HASHED_SAOP"
    BY <2>1, <2>2 DEF PlanList
  <2> QED
    BY <2>3 DEF HasFields, JumpOpcodes, IsLast
<1>3. DOMAIN steps' = DOMAIN steps /\ \A i \in DOMAIN steps :
        steps'[i] = IF op(i).opc = "HASHED_SAOP" THEN PlanList(op(i)) ELSE op(i)
  BY DEF Prepare
<1> QED
  BY <1>1, <1>2, <1>3 DEF StepsHold

(***************************************************************************)
(* Boolean steps: each code generator against the interpreter.             *)
(***************************************************************************)
SameStep(a, b, op) ==
  /\ SameEffect(a, b) /\ DOMAIN a.val = DOMAIN b.val /\ DOMAIN a.any = DOMAIN b.any
  /\ IF IsLast(op) THEN \A f \in DOMAIN b.any : f # op.any => a.any[f] = b.any[f] ELSE a.any = b.any
LEMMA SameStepReflexive ==
  ASSUME NEW a, NEW op PROVE SameStep(a, a, op)
BY DEF SameStep, SameEffect, SameResult

\* A step in a memory in which a cell tested by IS TRUE and its kin holds a
\* boolean or is NULL; the others test for zero.
Testable(mm, op) ==
  /\ HasShape(mm) /\ HasFields(op) /\ op.opc \in Booleans
  /\ mm.nul[op.res] \in BOOLEAN /\ (op.opc = "BOOLTEST" => mm.nul[op.res] \/ mm.val[op.res] \in {0, 1})
  /\ IsLast(op) => op.jump = mm.pc + 1

\* AND and OR before the last operand: the same machine (sljit, MIR, C).
LEMMA BoolMiddle ==
  ASSUME NEW mm, NEW op, Testable(mm, op), op.opc \in {"BOOL_AND", "BOOL_OR"}, op.place # "last"
  PROVE  /\ SljitBoolean(mm, op) = InterpBoolean(mm, op)
         /\ MirBoolean(mm, op) = InterpBoolean(mm, op)
         /\ FallbackBoolean(mm, op) = InterpBoolean(mm, op)
<1>1. CASE op.opc = "BOOL_AND"
  BY <1>1 DEF Testable, SljitBoolean, MirBoolean, FallbackBoolean, InterpBoolean, SljitBoolAnd, SljitBoolEnd, MirBoolAnd,
     FallbackBoolAnd, FallbackBool, InterpBoolAnd, InterpBoolStep, JumpIf, IsTrue
<1>2. CASE op.opc = "BOOL_OR"
  BY <1>2 DEF Testable, SljitBoolean, MirBoolean, FallbackBoolean, InterpBoolean, SljitBoolOr, SljitBoolEnd, MirBoolOr,
     FallbackBoolOr, FallbackBool, InterpBoolOr, InterpBoolStep, JumpIf, IsTrue
<1> QED
  BY <1>1, <1>2

\* After the last operand the code jumps where the interpreter goes on, and
\* may write NULL into a cell that is NULL.
LEMMA BoolLast ==
  ASSUME NEW mm, NEW op, Testable(mm, op), op.opc \in {"BOOL_AND", "BOOL_OR"}, op.place = "last"
  PROVE  /\ SameStep(SljitBoolean(mm, op), InterpBoolean(mm, op), op)
         /\ SameStep(MirBoolean(mm, op), InterpBoolean(mm, op), op)
         /\ SameStep(FallbackBoolean(mm, op), InterpBoolean(mm, op), op)
<1> DEFINE any(v) == [mm EXCEPT !.any[op.any] = v]
           decides == op.opc = "BOOL_OR"
           quit == ~mm.nul[op.res] /\ IsTrue(mm.val[op.res]) = decides
<1>1. IsLast(op) /\ Goto(mm, op.jump) = Skip(mm)
  BY DEF Testable, IsLast, Goto, Skip, HasShape, Fields
<1>2. CASE mm.nul[op.res]
  <2>1. InterpBoolean(mm, op) = Skip(mm)
    BY <1>2 DEF InterpBoolean, InterpBoolAnd, InterpBoolOr, InterpBoolLast
  <2>2. SljitBoolean(mm, op) \in {Skip(any(TRUE)), Skip(SetRes(any(TRUE), op.res, 0, TRUE))}
    BY <1>2 DEF SljitBoolean, SljitBoolAnd, SljitBoolOr, SljitBoolEnd
  <2>3. MirBoolean(mm, op) \in {Skip(any(TRUE)), Skip(SetRes(any(TRUE), op.res, 0, TRUE))}
    BY <1>2 DEF MirBoolean, MirBoolAnd, MirBoolOr
  <2>4. FallbackBoolean(mm, op) \in {Skip(any(TRUE)), Skip(SetRes(any(TRUE), op.res, 0, TRUE))}
    BY <1>2 DEF FallbackBoolean, FallbackBoolAnd, FallbackBoolOr, FallbackBool
  <2>5. SameEffect(Skip(any(TRUE)), Skip(mm)) /\ SameEffect(Skip(SetRes(any(TRUE), op.res, 0, TRUE)), Skip(mm))
    BY <1>2 DEF SameEffect, SameResult, Res, Skip, SetRes, Testable, HasShape, Fields
  <2>6. /\ Skip(mm).any = mm.any /\ Skip(any(TRUE)).any = [mm.any EXCEPT ![op.any] = TRUE]
        /\ Skip(SetRes(any(TRUE), op.res, 0, TRUE)).any = [mm.any EXCEPT ![op.any] = TRUE]
    BY DEF Skip, SetRes, Testable, HasShape, Fields
  <2>7. /\ \A f \in DOMAIN mm.any : f # op.any => [mm.any EXCEPT ![op.any] = TRUE][f] = mm.any[f]
        /\ DOMAIN [mm.any EXCEPT ![op.any] = TRUE] = DOMAIN mm.any
        /\ DOMAIN Skip(any(TRUE)).val = DOMAIN Skip(mm).val
        /\ DOMAIN Skip(SetRes(any(TRUE), op.res, 0, TRUE)).val = DOMAIN Skip(mm).val
    BY DEF Skip, SetRes, Testable, HasShape, Fields
  <2>8. SameStep(Skip(any(TRUE)), Skip(mm), op)
    BY <1>1, <2>5, <2>6, <2>7, ZenonT(30) DEF SameStep
  <2>9. SameStep(Skip(SetRes(any(TRUE), op.res, 0, TRUE)), Skip(mm), op)
    BY <1>1, <2>5, <2>6, <2>7, ZenonT(30) DEF SameStep
  <2> HIDE DEF any, decides, quit
  <2> QED
    BY <2>1, <2>2, <2>3, <2>4, <2>8, <2>9
<1>3. CASE quit
  <2>1. InterpBoolean(mm, op) = Skip(mm)
    BY <1>3 DEF Testable, InterpBoolean, InterpBoolAnd, InterpBoolOr, InterpBoolLast
  <2>2. SljitBoolean(mm, op) = Skip(mm)
    BY <1>1, <1>3 DEF Testable, SljitBoolean, SljitBoolAnd, SljitBoolOr, IsTrue
  <2>3. MirBoolean(mm, op) = Skip(mm)
    BY <1>1, <1>3 DEF Testable, MirBoolean, MirBoolAnd, MirBoolOr, IsTrue
  <2>4. FallbackBoolean(mm, op) = Skip(mm)
    BY <1>1, <1>3 DEF Testable, FallbackBoolean, FallbackBoolAnd, FallbackBoolOr, FallbackBool, IsTrue
  <2> QED
    BY <2>1, <2>2, <2>3, <2>4, SameStepReflexive
<1>4. CASE ~mm.nul[op.res] /\ ~quit
  <2> DEFINE after == IF mm.any[op.any] THEN Skip(SetRes(mm, op.res, 0, TRUE)) ELSE Skip(mm)
  <2>1. InterpBoolean(mm, op) = after
    BY <1>4 DEF Testable, InterpBoolean, InterpBoolAnd, InterpBoolOr, InterpBoolLast
  <2>2. SljitBoolean(mm, op) = after
    BY <1>4 DEF Testable, SljitBoolean, SljitBoolAnd, SljitBoolOr, SljitBoolEnd, IsTrue
  <2>3. MirBoolean(mm, op) = after
    BY <1>4 DEF Testable, MirBoolean, MirBoolAnd, MirBoolOr, IsTrue
  <2>4. FallbackBoolean(mm, op) = after
    BY <1>4 DEF Testable, FallbackBoolean, FallbackBoolAnd, FallbackBoolOr, FallbackBool, IsTrue
  <2> QED
    BY <2>1, <2>2, <2>3, <2>4, SameStepReflexive
<1> QED
  BY <1>2, <1>3, <1>4 DEF Testable

\* NOT, the tail of a WHERE clause, jumps and null tests: the same machine.
LEMMA BoolSimple ==
  ASSUME NEW mm, NEW op, Testable(mm, op),
         op.opc \in {"BOOL_NOT", "QUAL", "JUMP", "JUMP_IF_NULL", "JUMP_IF_NOT_NULL", "JUMP_IF_NOT_TRUE", "NULLTEST"}
  PROVE  /\ SljitBoolean(mm, op) = InterpBoolean(mm, op)
         /\ MirBoolean(mm, op) = InterpBoolean(mm, op)
         /\ op.opc # "JUMP_IF_NOT_TRUE" => FallbackBoolean(mm, op) = InterpBoolean(mm, op)
<1>1. CASE op.opc = "BOOL_NOT"
  BY <1>1 DEF SljitBoolean, MirBoolean, FallbackBoolean, InterpBoolean, SljitBoolNot, MirBoolNot, FallbackBoolNot, InterpBoolNot
<1>2. CASE op.opc = "QUAL"
  <2>1. SetVal(SetNul(mm, op.res, FALSE), op.res, 0) = SetRes(mm, op.res, 0, FALSE)
    BY DEF SetVal, SetNul, SetRes, Testable, HasShape, Fields
  <2> QED
    BY <1>2, <2>1 DEF SljitBoolean, MirBoolean, FallbackBoolean, InterpBoolean, SljitQual, MirQual, FallbackQual, InterpQual, IsTrue
<1>3. CASE op.opc \in {"JUMP", "JUMP_IF_NULL", "JUMP_IF_NOT_NULL"}
  BY <1>3 DEF SljitBoolean, MirBoolean, FallbackBoolean, InterpBoolean, SljitJump, SljitJumpIfNull, SljitJumpIfNotNull, MirJump,
     MirJumpIfNull, MirJumpIfNotNull, FallbackJump, InterpJump, InterpJumpIfNull, InterpJumpIfNotNull
<1>4. CASE op.opc = "JUMP_IF_NOT_TRUE"
  BY <1>4 DEF SljitBoolean, MirBoolean, InterpBoolean, SljitJumpIfNotTrue, MirJumpIfNotTrue, InterpJumpIfNotTrue, JumpIf, IsTrue
<1>5. CASE op.opc = "NULLTEST"
  <2>1. BoolDatum(mm.nul[op.res] = op.isnull)
          = IF op.isnull THEN BoolDatum(mm.nul[op.res]) ELSE 1 - BoolDatum(mm.nul[op.res])
    BY <1>5 DEF Testable, HasFields, BoolDatum
  <2> QED
    BY <1>5, <2>1 DEF SljitBoolean, MirBoolean, FallbackBoolean, InterpBoolean, SljitNullTest, MirNullTest, FallbackNullTest,
       InterpNullTest
<1> QED
  BY <1>1, <1>2, <1>3, <1>4, <1>5

\* IS TRUE, IS FALSE and their negations: sljit computes the truth value,
\* MIR and C leave a value that is the answer already.
LEMMA BoolTests ==
  ASSUME NEW mm, NEW op, Testable(mm, op), op.opc = "BOOLTEST"
  PROVE  /\ SameStep(SljitBoolean(mm, op), InterpBoolean(mm, op), op)
         /\ SameStep(MirBoolean(mm, op), InterpBoolean(mm, op), op)
         /\ SameStep(FallbackBoolean(mm, op), InterpBoolean(mm, op), op)
<1> DEFINE answer == BoolDatum((~mm.nul[op.res] /\ IsTrue(mm.val[op.res]) = op.truth) # op.negated)
           left == IF mm.nul[op.res] THEN Skip(SetRes(mm, op.res, BoolDatum(op.negated), FALSE))
                   ELSE IF op.truth # op.negated THEN Skip(mm) ELSE Skip(SetVal(mm, op.res, NotDatum(mm.val[op.res])))
<1>1. InterpBoolean(mm, op) = Skip(SetRes(mm, op.res, answer, FALSE))
  BY DEF InterpBoolean, InterpBoolTest
<1>2. SljitBoolean(mm, op) = InterpBoolean(mm, op)
  <2>1. CASE mm.nul[op.res]
    <3>1. answer = BoolDatum(op.negated)
      BY <2>1 DEF Testable, HasFields, BoolDatum
    <3> QED
      BY <1>1, <2>1, <3>1 DEF SljitBoolean, SljitBoolTest
  <2>2. CASE ~mm.nul[op.res]
    <3> DEFINE t == BoolDatum(IsTrue(mm.val[op.res]))
    <3>1. answer = IF op.truth = op.negated THEN 1 - t ELSE t
      BY <2>2 DEF Testable, HasFields, BoolDatum, IsTrue
    <3> QED
      BY <1>1, <2>2, <3>1 DEF SljitBoolean, SljitBoolTest
  <2> QED
    BY <2>1, <2>2
<1>3. MirBoolean(mm, op) = left /\ FallbackBoolean(mm, op) = left
  BY DEF MirBoolean, MirBoolTest, FallbackBoolean, FallbackBoolTest
<1>4. SameEffect(left, Skip(SetRes(mm, op.res, answer, FALSE))) /\ left.any = mm.any
  <2>1. CASE mm.nul[op.res]
    <3>1. answer = BoolDatum(op.negated)
      BY <2>1 DEF Testable, HasFields, BoolDatum
    <3>2. left = Skip(SetRes(mm, op.res, answer, FALSE)) /\ left.any = mm.any
      BY <2>1, <3>1 DEF Skip, SetRes, Testable, HasShape, Fields
    <3> QED
      BY <3>2 DEF SameEffect, SameResult
  <2>2. CASE ~mm.nul[op.res]
    <3>1. answer = IF op.truth # op.negated THEN mm.val[op.res] ELSE NotDatum(mm.val[op.res])
      BY <2>2 DEF Testable, HasFields, BoolDatum, NotDatum, IsTrue
    <3>2. left.pc = mm.pc + 1 /\ left.any = mm.any /\ left.ec = mm.ec /\ left.tts = mm.tts /\ left.grp = mm.grp /\ left.mcx = mm.mcx
      BY <2>2 DEF Skip, SetVal, Testable, HasShape, Fields
    <3>3. /\ left.nul = mm.nul
          /\ left.val = IF op.truth # op.negated THEN mm.val ELSE [mm.val EXCEPT ![op.res] = NotDatum(mm.val[op.res])]
      BY <2>2 DEF Skip, SetVal, Testable, HasShape, Fields
    <3> DEFINE b == Skip(SetRes(mm, op.res, answer, FALSE))
    <3>4. /\ b.pc = mm.pc + 1 /\ b.ec = mm.ec /\ b.tts = mm.tts /\ b.grp = mm.grp /\ b.mcx = mm.mcx
          /\ b.val = [mm.val EXCEPT ![op.res] = answer] /\ b.nul = [mm.nul EXCEPT ![op.res] = FALSE]
      BY DEF Skip, SetRes, Testable, HasShape, Fields
    <3>5. \A c \in DOMAIN mm.nul : left.val[c] = b.val[c] /\ left.nul[c] = b.nul[c]
      <4> HIDE DEF answer, left, b
      <4> SUFFICES ASSUME NEW c \in DOMAIN mm.nul PROVE left.val[c] = b.val[c] /\ left.nul[c] = b.nul[c]
        OBVIOUS
      <4>1. c \in DOMAIN mm.val
        BY DEF Testable, HasShape
      <4>2. CASE c = op.res
        BY <2>2, <3>1, <3>3, <3>4, <4>1, <4>2 DEF Testable
      <4>3. CASE c # op.res
        BY <3>3, <3>4, <4>1, <4>3
      <4> QED
        BY <4>2, <4>3
    <3>6. DOMAIN b.nul = DOMAIN mm.nul
      BY <3>4
    <3> QED
      BY <3>2, <3>4, <3>5, <3>6, ZenonT(30) DEF SameEffect, SameResult, Res
  <2> QED
    BY <2>1, <2>2 DEF Testable
<1>5. InterpBoolean(mm, op).any = mm.any /\ DOMAIN InterpBoolean(mm, op).val = DOMAIN mm.val
  BY <1>1 DEF Skip, SetRes, Testable, HasShape, Fields
<1>6. DOMAIN left.val = DOMAIN mm.val
  BY DEF Skip, SetRes, SetVal, Testable, HasShape, Fields
<1> QED
  BY <1>1, <1>2, <1>3, <1>4, <1>5, <1>6, SameStepReflexive, ZenonT(30) DEF SameStep

\* Whatever generated the code, a boolean step does what the interpreter's
\* step does (sljit_compile_expr, mir_compile_expr, pg_jitter_fallback_step).
THEOREM BooleanCode ==
  ASSUME NEW mm, NEW op, Testable(mm, op)
  PROVE  /\ SameStep(SljitBoolean(mm, op), InterpBoolean(mm, op), op)
         /\ SameStep(MirBoolean(mm, op), InterpBoolean(mm, op), op)
         /\ op.opc # "JUMP_IF_NOT_TRUE" => SameStep(FallbackBoolean(mm, op), InterpBoolean(mm, op), op)
<1>1. CASE op.opc \in {"BOOL_AND", "BOOL_OR"} /\ op.place # "last"
  BY <1>1, BoolMiddle, SameStepReflexive
<1>2. CASE op.opc \in {"BOOL_AND", "BOOL_OR"} /\ op.place = "last"
  BY <1>2, BoolLast
<1>3. CASE op.opc = "BOOLTEST"
  BY <1>3, BoolTests
<1>4. CASE op.opc \notin {"BOOL_AND", "BOOL_OR", "BOOLTEST"}
  BY <1>4, BoolSimple, SameStepReflexive DEF Testable, Booleans
<1> QED
  BY <1>1, <1>2, <1>3, <1>4

\* Where the elementary changes leave the program counter.
LEMMA PcOf ==
  ASSUME NEW mm, HasShape(mm)
  PROVE  /\ Skip(mm).pc = mm.pc + 1
         /\ \A t : Goto(mm, t).pc = t
         /\ \A c, v : SetVal(mm, c, v).pc = mm.pc
BY DEF Skip, SetVal, Goto, HasShape, Fields

\* A boolean step goes on or to its jump target, so never into a batch of
\* columns: batches do not reach over jump targets (sljit_compile_expr).
LEMMA BooleanLanding ==
  ASSUME NEW ss, StepsHold(ss), NEW mm, HasShape(mm), mm.pc \in DOMAIN ss, ss[mm.pc].opc \in Booleans
  PROVE  Landed(SljitBoolean(mm, ss[mm.pc]), ss) = SljitBoolean(mm, ss[mm.pc])
<1> DEFINE op == ss[mm.pc]
           r == SljitBoolean(mm, op)
           jumps == op.opc \in JumpOpcodes /\ "jump" \in DOMAIN op
<1>1. HasFields(op) /\ mm.pc \in Nat \ {0}
  BY DEF StepsHold
<1>2. r.pc = mm.pc + 1 \/ (jumps /\ r.pc = op.jump)
  <2>1. CASE op.opc = "BOOL_NOT"
    <3>1. r = Skip(SetVal(mm, op.res, NotDatum(mm.val[op.res])))
      BY <2>1 DEF SljitBoolean, SljitBoolNot
    <3>2. HasShape(SetVal(mm, op.res, NotDatum(mm.val[op.res])))
      BY ShapeKept
    <3> QED
      BY <3>1, <3>2, PcOf
  <2>2. CASE op.opc \in {"NULLTEST", "BOOLTEST"}
    <3>1. PICK v : r = Skip(SetRes(mm, op.res, v, FALSE))
      BY <2>2 DEF SljitBoolean, SljitNullTest, SljitBoolTest
    <3>2. HasShape(SetRes(mm, op.res, v, FALSE))
      BY ShapeKept
    <3>3. SetRes(mm, op.res, v, FALSE).pc = mm.pc
      BY DEF SetRes, HasShape, Fields
    <3> QED
      BY <3>1, <3>2, <3>3, PcOf
  <2>3. CASE op.opc \in {"BOOL_AND", "BOOL_OR"}
    <3> DEFINE m1 == IF op.place = "first" THEN [mm EXCEPT !.any[op.any] = FALSE] ELSE mm
               m2 == [m1 EXCEPT !.any[op.any] = TRUE]
    <3>1. HasShape(m1) /\ m1.pc = mm.pc
      BY DEF HasShape, Fields
    <3>2. HasShape(m2) /\ m2.pc = mm.pc
      <4> HIDE DEF m1
      <4> QED
        BY <3>1 DEF HasShape, Fields
    <3>3. \A q : HasShape(q) /\ q.pc = mm.pc => SljitBoolEnd(q, op).pc = mm.pc + 1
      <4> SUFFICES ASSUME NEW q, HasShape(q), q.pc = mm.pc PROVE SljitBoolEnd(q, op).pc = mm.pc + 1
        OBVIOUS
      <4>1. HasShape(SetRes(q, op.res, 0, TRUE)) /\ SetRes(q, op.res, 0, TRUE).pc = mm.pc
        BY DEF SetRes, HasShape, Fields
      <4>2. Skip(q).pc = mm.pc + 1 /\ Skip(SetRes(q, op.res, 0, TRUE)).pc = mm.pc + 1
        BY <4>1, PcOf
      <4> QED
        BY <4>2 DEF SljitBoolEnd
    <3>4. r \in {SljitBoolEnd(m1, op), SljitBoolEnd(m2, op), Goto(m1, op.jump)}
      BY <2>3 DEF SljitBoolean, SljitBoolAnd, SljitBoolOr
    <3>5. Goto(m1, op.jump).pc = op.jump
      BY <3>1, PcOf
    <3>6. jumps
      BY <1>1, <2>3 DEF JumpOpcodes, HasFields
    <3> QED
      BY <3>1, <3>2, <3>3, <3>4, <3>5, <3>6
  <2>4. CASE op.opc \in {"QUAL", "JUMP", "JUMP_IF_NULL", "JUMP_IF_NOT_NULL", "JUMP_IF_NOT_TRUE"}
    <3> DEFINE cleared == SetVal(SetNul(mm, op.res, FALSE), op.res, 0)
    <3>1. r \in {Skip(mm), Goto(mm, op.jump), Goto(cleared, op.jump)}
      BY <2>4 DEF SljitBoolean, SljitQual, SljitJump, SljitJumpIfNull, SljitJumpIfNotNull, SljitJumpIfNotTrue, JumpIf
    <3>2. jumps
      BY <1>1, <2>4 DEF JumpOpcodes, HasFields
    <3>3. HasShape(SetNul(mm, op.res, FALSE))
      BY ShapeKept
    <3>4. HasShape(cleared)
      BY <3>3, ShapeKept
    <3>5. Goto(cleared, op.jump).pc = op.jump
      BY <3>4, PcOf
    <3> QED
      BY <3>1, <3>2, <3>5, PcOf
  <2> QED
    BY <2>1, <2>2, <2>3, <2>4 DEF Booleans
<1>3. CASE r.pc = mm.pc + 1
  <2>1. ~TakenIn(ss, r.pc)
    BY <1>1, <1>3 DEF TakenIn, Booleans
  <2> QED
    BY <2>1 DEF Landed
<1>4. CASE jumps /\ r.pc = op.jump /\ r.pc \in DOMAIN ss
  <2>1. IsJumpTarget(ss, r.pc)
    BY <1>4 DEF IsJumpTarget
  <2>2. r.pc \in Nat
    BY <1>4 DEF StepsHold
  <2>3. ~InBatch(ss, r.pc - 1, r.pc)
    BY <2>1, <2>2 DEF InBatch
  <2> QED
    BY <2>3 DEF Landed, TakenIn
<1>5. CASE r.pc \notin DOMAIN ss
  BY <1>5 DEF Landed
<1> QED
  BY <1>2, <1>3, <1>4, <1>5

(***************************************************************************)
(* The invariant is inductive.                                             *)
(***************************************************************************)
LEMMA InitHolds == Init => IInv
<1> SUFFICES ASSUME Init PROVE IInv
  OBVIOUS
<1>1. HasShape(m) /\ ref = m
  BY DEF Init, InitOf, FreshMachine, HasShape, Fields
<1>2. WellFormed(Programs[prog]) /\ steps = Programs[prog].steps
  BY ProgramsAreWellFormed DEF Init, InitOf
<1>3. StepsHold(steps)
  <2>1. DOMAIN steps \subseteq Nat \ {0}
    BY <1>2 DEF WellFormed
  <2>2. \A i \in DOMAIN steps : HasFields(steps[i]) /\ (IsLast(steps[i]) => steps[i].jump = i + 1)
    BY <1>2 DEF WellFormed, IsLast
  <2> QED
    BY <2>1, <2>2 DEF StepsHold
<1>4. backend \in AllBackends
  BY BackendsExist DEF Init
<1> QED
  BY <1>1, <1>3, <1>4 DEF IInv

\* Every family of opcodes keeps the shape of the machine, for each
\* backend, and every step but FETCHSOME the slots.
LEMMA RunKeeps ==
  ASSUME HasShape(m), RunColumn \/ RunBoolean \/ RunContext \/ RunCompare \/ RunCall \/ RunHash \/ RunAggregate,
         Here.opc # "FETCHSOME"
  PROVE  Keeps(m, m')
<1>1. CASE RunColumn
  <2>1. Keeps(m, SljitColumn(m, steps)) /\ Keeps(m, MirColumn(m, Here)) /\ Keeps(m, FallbackColumn(m, Here))
    BY KeepsSelf, SljitColumnKeeps, MirColumnKeeps, FallbackColumnKeeps DEF Keeping, Here
  <2> QED
    BY <1>1, <2>1, ByBackendKeeps DEF RunColumn, Run
<1>2. CASE RunBoolean
  BY <1>2, KeepsSelf, ByBackendKeeps, SljitBooleanKeeps, MirBooleanKeeps, FallbackBooleanKeeps DEF RunBoolean, Run
<1>3. CASE RunContext
  BY <1>3, KeepsSelf, ByBackendKeeps, SljitContextKeeps, MirContextKeeps, FallbackContextKeeps DEF RunContext, Run
<1>4. CASE RunCompare
  BY <1>4, KeepsSelf, ByBackendKeeps, SljitCompareKeeps, MirComparisonKeeps, FallbackCompareKeeps DEF RunCompare, Run
<1>5. CASE RunCall
  BY <1>5, KeepsSelf, ByBackendKeeps, SljitCallKeeps, MirCallKeeps, FallbackCallKeeps DEF RunCall, Run
<1>6. CASE RunHash
  BY <1>6, KeepsSelf, ByBackendKeeps, SljitHashKeeps, MirHashKeeps, FallbackHashStepKeeps DEF RunHash, Run
<1>7. CASE RunAggregate
  BY <1>7, KeepsSelf, ByBackendKeeps, SljitAggregateKeeps, MirAggregateKeeps, FallbackAggregateKeeps DEF RunAggregate, Run
<1> QED
  BY <1>1, <1>2, <1>3, <1>4, <1>5, <1>6, <1>7
\* A FETCHSOME is one of these.
LEMMA RunFetch ==
  ASSUME RunColumn \/ RunBoolean \/ RunContext \/ RunCompare \/ RunCall \/ RunHash \/ RunAggregate, Here.opc = "FETCHSOME"
  PROVE  m' = ByBackend(SljitFetchSome(m, Here), MirFetchSome(m, Here), FallbackFetchSome(m, Here))
<1>1. \A family, after : Run(family, after) => "FETCHSOME" \in family
  BY DEF Run, RunsOpcode, Here
<1>2. RunColumn
  BY <1>1 DEF RunBoolean, RunContext, RunCompare, RunCall, RunHash, RunAggregate, Booleans, Contexts, Compares, Calls, Hashes, Aggregates
<1> QED
  BY <1>2 DEF RunColumn, Run, SljitColumn, MirColumn, FallbackColumn, Here
LEMMA RunShape ==
  ASSUME HasShape(m), RunColumn \/ RunBoolean \/ RunContext \/ RunCompare \/ RunCall \/ RunHash \/ RunAggregate
  PROVE  HasShape(m') /\ UNCHANGED <<ref, steps, backend>>
<1>1. HasShape(m')
  <2>1. CASE Here.opc = "FETCHSOME"
    <3>1. \A q : HasShape(q) => HasShape(Landed(q, steps))
      BY DEF Landed, HasShape, Fields
    <3>2. HasShape(SljitFetchSome(m, Here)) /\ HasShape(MirFetchSome(m, Here)) /\ HasShape(FallbackFetchSome(m, Here))
      BY FetchSome DEF Fetched
    <3> QED
      BY <2>1, <3>1, <3>2, RunFetch DEF ByBackend
  <2>2. CASE Here.opc # "FETCHSOME"
    BY <2>2, RunKeeps DEF Keeps
  <2> QED
    BY <2>1, <2>2
<1> QED
  BY <1>1 DEF RunColumn, RunBoolean, RunContext, RunCompare, RunCall, RunHash, RunAggregate, Run

LEMMA SearchStepKeeps ==
  ASSUME HasShape(m), RunCaseSearch PROVE Keeps(m, m') /\ HasShape(m') /\ UNCHANGED <<ref, steps, backend>>
<1>1. \A var, else, info, found :
        Keeps(m, SljitCaseSearch(m, var, else, info, found)) /\ Keeps(m, MirCaseSearch(m, var, else, info, found))
  BY KeepsSelf, KeepsOn DEF SljitCaseSearch, MirCaseSearch
<1>2. PICK var, else, info, found :
        m' \in {Landed(SljitCaseSearch(m, var, else, info, found), steps), MirCaseSearch(m, var, else, info, found)}
  BY DEF RunCaseSearch
<1>3. Keeps(m, m')
  BY <1>1, <1>2, LandedKeeps
<1> QED
  BY <1>3, ZenonT(30) DEF RunCaseSearch, Keeps

LEMMA NextHolds == IInv /\ [Next]_vars => IInv'
<1> SUFFICES ASSUME IInv, [Next]_vars PROVE IInv'
  OBVIOUS
<1>1. CASE Compile
  BY <1>1, PrepareHolds DEF IInv, Compile
<1>2. CASE StartRow
  <2>1. PICK r : m' = OnRow(m, r) /\ ref' = OnRow(ref, r)
    BY <1>2 DEF StartRow, StartRowOf
  <2>2. HasShape(m') /\ HasShape(ref')
    BY <2>1, OnRowShape DEF IInv
  <2> QED
    BY <1>2, <2>2 DEF IInv, StartRow
<1>3. CASE Execute
  <2>1. CASE RunColumn \/ RunBoolean \/ RunContext \/ RunCompare \/ RunCall \/ RunHash \/ RunAggregate
    BY <2>1, RunShape DEF IInv
  <2>2. CASE RunCaseSearch
    BY <2>2, SearchStepKeeps DEF IInv
  <2>3. CASE RunInterpreter
    BY <2>3, InterpretShape DEF IInv, RunInterpreter
  <2>4. CASE Finish
    BY <2>4 DEF IInv, Finish
  <2> QED
    BY <1>3, <2>1, <2>2, <2>3, <2>4 DEF Execute
<1>4. CASE RefStep
  BY <1>4, InterpretShape DEF IInv, RefStep
<1>5. CASE RowDone
  BY <1>5 DEF IInv, RowDone
<1>6. CASE UNCHANGED vars
  BY <1>6 DEF IInv, vars
<1> QED
  BY <1>1, <1>2, <1>3, <1>4, <1>5, <1>6 DEF Next

\* Through every row, whatever the rows hold: machines keep a Datum and a
\* flag for each cell, and no step that compilation writes a pointer over
\* loses what its code reads (pg_jitter_setup_case_bsearch_arrays).
THEOREM StepsSurvive == Spec => []IInv
BY InitHolds, NextHolds, PTL DEF Spec

(***************************************************************************)
(* Every boolean step of every run.                                        *)
(***************************************************************************)
\* While a boolean step is next and no search replaces it, nothing else runs.
LEMMA OnlyBoolean ==
  ASSUME IInv, RunsOpcode(Booleans), Next PROVE RunBoolean
<1>1. phase = "run" /\ mode = "jit" /\ m.pc \in DOMAIN steps /\ Here.opc \in Booleans /\ SearchesHere = {}
  BY DEF RunsOpcode, Here
<1>2. ~Compile /\ ~StartRow /\ ~RefStep /\ ~RowDone /\ ~RunInterpreter
  BY <1>1 DEF Compile, StartRow, RefStep, RowDone, RunInterpreter
<1>3. ~RunCaseSearch
  BY <1>1 DEF RunCaseSearch
<1>4. ~Finish
  BY <1>1 DEF Finish, Over, Returned, Raised, IInv, StepsHold
<1>5. \A family, after : Run(family, after) => Here.opc \in family
  BY DEF Run, RunsOpcode, Here
<1>6. ~RunColumn /\ ~RunContext /\ ~RunCompare /\ ~RunCall /\ ~RunHash /\ ~RunAggregate
  BY <1>1, <1>5 DEF RunColumn, RunContext, RunCompare, RunCall, RunHash, RunAggregate, Booleans, Columns, Contexts, Compares, Calls,
     Hashes, Aggregates
<1> QED
  BY <1>2, <1>3, <1>4, <1>6 DEF Next, Execute

\* BooleanStepsAgree, a run's property: AND, OR, NOT, the tail of a WHERE
\* clause, jumps, IS NULL and IS TRUE in compiled code go where the
\* interpreter goes and leave its cells and anynull flags, for every
\* program, every row and every memory that earlier rows left, with each
\* code generator (sljit_compile_expr, mir_compile_expr,
\* pg_jitter_fallback_step).
THEOREM BooleansAgree == Spec => BooleanStepsAgree
<1> DEFINE op == steps[m.pc]
           Agrees ==
             RunsOpcode(Booleans) /\ m.nul[op.res] \in BOOLEAN
               /\ (op.opc = "BOOLTEST" => m.nul[op.res] \/ m.val[op.res] \in {0, 1})
               /\ ~(backend = "fallback" /\ op.opc = "JUMP_IF_NOT_TRUE")
             => /\ SameEffect(m', InterpBoolean(m, op))
                /\ IsLast(op) \/ m'.any = InterpBoolean(m, op).any
<1>1. IInv /\ Next => Agrees
  <2> SUFFICES ASSUME IInv, Next, RunsOpcode(Booleans), m.nul[op.res] \in BOOLEAN,
                      op.opc = "BOOLTEST" => m.nul[op.res] \/ m.val[op.res] \in {0, 1},
                      ~(backend = "fallback" /\ op.opc = "JUMP_IF_NOT_TRUE")
               PROVE  SameStep(m', InterpBoolean(m, op), op)
    BY DEF SameStep
  <2>1. RunBoolean
    BY OnlyBoolean
  <2>2. Testable(m, op)
    BY DEF Testable, IInv, StepsHold, RunsOpcode
  <2>3. Landed(SljitBoolean(m, op), steps) = SljitBoolean(m, op)
    BY BooleanLanding DEF IInv, RunsOpcode
  <2>4. m' \in {SljitBoolean(m, op), MirBoolean(m, op)} \/ (op.opc # "JUMP_IF_NOT_TRUE" /\ m' = FallbackBoolean(m, op))
    BY <2>1, <2>3 DEF RunBoolean, Run, ByBackend, Here, IInv, AllBackends
  <2> QED
    BY <2>2, <2>4, BooleanCode
<1>2. IInv /\ [Next]_vars => [Agrees]_vars
  BY <1>1
<1> QED
  BY <1>2, StepsSurvive, PTL DEF Spec, BooleanStepsAgree

(***************************************************************************)
(* The detection of CASEs scans the steps; a scan is a recursive function  *)
(* that looks further on only.                                             *)
(***************************************************************************)
\* The form of induction: a set of natural numbers has a least one.
LEMMA LeastNumber ==
  ASSUME NEW T \in SUBSET Nat, T # {} PROVE \E x \in T : \A y \in T : x <= y
<1>1. PICK x \in T : \A y \in T : ~(<<y, x>> \in OpToRel(<, Nat))
  BY NatLessThanWellFounded, WFMin
<1>2. \A y \in T : ~(y < x)
  BY <1>1 DEF OpToRel
<1> QED
  BY <1>2
\* The scan g stops, or adds what it finds, and goes on.
Turn(g, i, Stop, Emit, what, next) ==
  IF i \in Stop THEN <<>> ELSE IF i \in Emit THEN <<what[i]>> \o g[next[i]] ELSE g[next[i]]
Scans(g, n, Stop, Emit, what, next) == g = [i \in 1..(n + 1) |-> Turn(g, i, Stop, Emit, what, next)]
GoesOn(n, Stop, next) == \A i \in 1..(n + 1) : i \notin Stop => next[i] \in 1..(n + 1) /\ i < next[i]
LEMMA ScanExists ==
  ASSUME NEW n \in Nat, NEW Stop, NEW Emit, NEW what, NEW next, GoesOn(n, Stop, next)
  PROVE  \E g : Scans(g, n, Stop, Emit, what, next)
<1> DEFINE D == 1..(n + 1)
           T(h, i) == Turn(h, i, Stop, Emit, what, next)
           From(h, k) == \A i \in D : n + 1 - i < k => h[i] = T(h, i)
<1>1. \A k \in Nat : \E h : From(h, k)
  <2> DEFINE Bad == {k \in Nat : ~\E h : From(h, k)}
  <2> SUFFICES ASSUME Bad # {} PROVE FALSE
    OBVIOUS
  <2>1. PICK k \in Bad : \A y \in Bad : k <= y
    BY LeastNumber
  <2>2. CASE k = 0
    BY <2>1, <2>2
  <2>3. CASE k # 0
    <3>1. k - 1 \in Nat /\ k - 1 \notin Bad
      BY <2>1, <2>3
    <3>2. PICK h : From(h, k - 1)
      BY <3>1
    <3> DEFINE f == [i \in D |-> T(h, i)]
    <3>3. \A i \in D : n + 1 - i < k => f[i] = T(f, i)
      <4> SUFFICES ASSUME NEW i \in D, n + 1 - i < k PROVE T(h, i) = T(f, i)
        OBVIOUS
      <4>1. i \notin Stop => next[i] \in D /\ n + 1 - next[i] < k - 1
        BY <2>1 DEF GoesOn
      <4>2. i \notin Stop => h[next[i]] = f[next[i]]
        BY <3>2, <4>1
      <4> QED
        BY <4>2 DEF Turn
    <3> QED
      BY <2>1, <3>3
  <2> QED
    BY <2>2, <2>3
<1>2. PICK h : From(h, n + 1)
  <2> HIDE DEF From
  <2>1. n + 1 \in Nat
    OBVIOUS
  <2> QED
    BY <1>1, <2>1
<1> DEFINE g == [i \in D |-> T(h, i)]
<1>3. \A i \in D : T(h, i) = T(g, i)
  <2> SUFFICES ASSUME NEW i \in D PROVE T(h, i) = T(g, i)
    OBVIOUS
  <2>1. i \notin Stop => next[i] \in D /\ n + 1 - next[i] < n + 1
    BY DEF GoesOn
  <2>2. i \notin Stop => h[next[i]] = g[next[i]]
    BY <1>2, <2>1
  <2> QED
    BY <2>2 DEF Turn
<1>4. g = [i \in D |-> T(g, i)]
  BY <1>3
<1> QED
  BY <1>4 DEF Scans

\* What the scan from i on finds, it finds at i or further on.
Found(i, n, Stop, Emit, what) == {what[k] : k \in {k \in i..(n + 1) : k \in Emit /\ k \notin Stop}}
LEMMA ScanFinds ==
  ASSUME NEW n \in Nat, NEW Stop, NEW Emit, NEW what, NEW next, GoesOn(n, Stop, next),
         NEW g, Scans(g, n, Stop, Emit, what, next)
  PROVE  \A i \in 1..(n + 1) : g[i] \in Seq(Found(i, n, Stop, Emit, what))
<1> DEFINE F(i) == Found(i, n, Stop, Emit, what)
           Bad == {k \in Nat : \E i \in 1..(n + 1) : n + 1 - i = k /\ g[i] \notin Seq(F(i))}
<1> SUFFICES ASSUME NEW i0 \in 1..(n + 1), g[i0] \notin Seq(F(i0)) PROVE FALSE
  OBVIOUS
<1>1. n + 1 - i0 \in Bad
  OBVIOUS
<1>2. PICK k \in Bad : \A y \in Bad : k <= y
  BY <1>1, LeastNumber
<1>3. PICK i \in 1..(n + 1) : n + 1 - i = k /\ g[i] \notin Seq(F(i))
  BY <1>2
<1>4. g[i] = Turn(g, i, Stop, Emit, what, next)
  BY DEF Scans
<1>5. CASE i \in Stop
  BY <1>3, <1>4, <1>5 DEF Turn
<1>6. CASE i \notin Stop
  <2>1. next[i] \in 1..(n + 1) /\ i < next[i]
    BY <1>6 DEF GoesOn
  <2>2. n + 1 - next[i] \in Nat /\ n + 1 - next[i] < k
    BY <1>3, <2>1
  <2>3. n + 1 - next[i] \notin Bad
    <3> DEFINE x == n + 1 - next[i]
    <3> HIDE DEF Bad, x
    <3>1. x \in Nat /\ x < k /\ k \in Nat
      BY <1>3, <2>2 DEF x
    <3>2. ~(k <= x)
      BY <3>1
    <3>3. x \notin Bad
      BY <1>2, <3>2
    <3> QED
      BY <3>3 DEF x
  <2>4. g[next[i]] \in Seq(F(next[i]))
    BY <2>1, <2>2, <2>3
  <2>5. F(next[i]) \subseteq F(i)
    BY <2>1 DEF Found
  <2> HIDE DEF F
  <2>6. g[next[i]] \in Seq(F(i))
    BY <2>4, <2>5
  <2>7. CASE i \in Emit
    <3>1. what[i] \in F(i)
      BY <1>6, <2>7 DEF F, Found
    <3>2. <<what[i]>> \o g[next[i]] \in Seq(F(i))
      BY <2>6, <3>1
    <3> QED
      BY <1>3, <1>4, <1>6, <2>7, <3>2 DEF Turn
  <2>8. CASE i \notin Emit
    BY <1>3, <1>4, <1>6, <2>6, <2>8 DEF Turn
  <2> QED
    BY <2>7, <2>8
<1> QED
  BY <1>5, <1>6

\* The steps as PostgreSQL built them: jumps go forward.
Forward(ss) ==
  /\ Len(ss) \in Nat /\ DOMAIN ss = 1..Len(ss)
  /\ \A i \in DOMAIN ss : HasFields(ss[i]) /\ \A t \in JumpsOf(ss[i]) : t \in (i + 1)..Len(ss)
LEMMA JumpsForward ==
  ASSUME NEW ss, Forward(ss), NEW i \in 1..Len(ss), ss[i].opc = "JUMP" PROVE ss[i].jump \in (i + 1)..Len(ss)
<1>1. "jump" \in DOMAIN ss[i]
  BY DEF Forward, HasFields, JumpOpcodes
<1>2. ss[i].jump \in JumpsOf(ss[i])
  BY <1>1 DEF JumpsOf
<1> QED
  BY <1>2 DEF Forward
\* A CASE has at least one branch, and its ELSE is further on.
LEMMA Branches1 ==
  ASSUME NEW ss, Forward(ss), NEW init, NEW i \in 1..Len(ss) PROVE BranchCount(ss, init, i) \in 1..Len(ss)
<1> DEFINE n == Len(ss)
           C(k) == ContinuesCase(ss, init, i, i + 5 * k)
           Ends == {k \in Nat : k >= 1 /\ ~C(k)}
           Good(c) == (\A k \in 1..(c - 1) : C(k)) /\ ~\A k \in 1..((c + 1) - 1) : C(k)
<1>1. n \in Nat /\ n >= 1
  BY DEF Forward
<1>2. n \in Ends
  <2>1. ~(i + 5 * n + 4 <= n)
    BY <1>1
  <2> QED
    BY <1>1, <2>1 DEF ContinuesCase, IsBranch
<1>3. PICK c \in Ends : \A y \in Ends : c <= y
  <2> HIDE DEF Ends
  <2>1. Ends \subseteq Nat
    BY DEF Ends
  <2> QED
    BY <1>2, <2>1, LeastNumber
<1>4. c \in 1..n /\ ~C(c)
  BY <1>1, <1>2, <1>3
<1>5. \A k \in 1..(c - 1) : C(k)
  <2> SUFFICES ASSUME NEW k \in 1..(c - 1), ~C(k) PROVE FALSE
    OBVIOUS
  <2>1. k \in Ends /\ k < c
    BY <1>4
  <2> QED
    BY <1>3, <1>4, <2>1
<1>6. Good(c)
  <2> HIDE DEF C
  <2> QED
    BY <1>4, <1>5
<1>7. BranchCount(ss, init, i) = CHOOSE x \in 1..n : Good(x)
  BY DEF BranchCount
<1> HIDE DEF Good
<1> QED
  BY <1>4, <1>6, <1>7
\* Every CASE found begins with a load and a call.
Calls2(ss) == {i \in 1..Len(ss) : i + 1 \in DOMAIN ss /\ ss[i + 1].opc = "FUNCEXPR"}
LEMMA CasesStart ==
  ASSUME NEW ss, Forward(ss), NEW init
  PROVE  \E S : DetectCases(ss, init) \in Seq(S) /\ \A x \in S : x.start \in Calls2(ss)
<1> DEFINE n == Len(ss)
           D == 1..(n + 1)
           Info(i) == CaseInfo(ss, init, i)
           Stop == {i \in D : i > n - 5}
           Emit == {i \in D : IsCase(ss, init, i) /\ Searchable(Info(i))}
           what == [i \in D |-> Info(i)]
           next == [i \in D |-> IF ~IsCase(ss, init, i) THEN i + 1 ELSE IF Searchable(Info(i)) THEN Info(i).end ELSE Info(i).else]
           Once(g) == [i \in D |-> IF i > n - 5 THEN <<>>
                                   ELSE IF ~IsCase(ss, init, i) THEN g[i + 1]
                                   ELSE LET info == CaseInfo(ss, init, i)
                                        IN  IF Searchable(info) THEN <<info>> \o g[info.end] ELSE g[info.else]]
           Scan == CHOOSE g : g = Once(g)
<1>1. n \in Nat
  BY DEF Forward
<1>2. \A i \in D : IsCase(ss, init, i) => Info(i).start = i /\ Info(i).end \in D /\ i < Info(i).end /\ Info(i).else \in D /\ i < Info(i).else
                                           /\ i \in Calls2(ss)
  <2> SUFFICES ASSUME NEW i \in D, IsCase(ss, init, i)
               PROVE  Info(i).start = i /\ Info(i).end \in D /\ i < Info(i).end /\ Info(i).else \in D /\ i < Info(i).else
                        /\ i \in Calls2(ss)
    OBVIOUS
  <2>1. Info(i).start = i /\ Info(i).end = ss[i + 4].jump /\ Info(i).else = i + 5 * BranchCount(ss, init, i)
    BY DEF CaseInfo
  <2>2. i + 4 <= n /\ ss[i + 4].opc = "JUMP" /\ ss[i + 1].opc = "FUNCEXPR" /\ i + 5 * BranchCount(ss, init, i) <= n
    BY DEF IsCase, IsBranch, IsStrictCall, IsConstElse
  <2>3. BranchCount(ss, init, i) \in 1..n
    BY <1>1, <2>2, Branches1
  <2>4. ss[i + 4].jump \in (i + 5)..n
    <3> DEFINE j == i + 4
    <3>1. j \in 1..n /\ ss[j].opc = "JUMP"
      BY <1>1, <2>2
    <3> HIDE DEF j
    <3>2. ss[j].jump \in (j + 1)..n
      BY <3>1, JumpsForward
    <3> QED
      BY <3>2 DEF j
  <2>5. i \in Calls2(ss)
    BY <1>1, <2>2 DEF Calls2, Forward
  <2> HIDE DEF Info
  <2> QED
    BY <1>1, <2>1, <2>2, <2>3, <2>4, <2>5
<1>3. GoesOn(n, Stop, next)
  <2> SUFFICES ASSUME NEW i \in D, i \notin Stop PROVE next[i] \in D /\ i < next[i]
    BY DEF GoesOn
  <2>1. i + 1 \in D /\ i < i + 1
    BY <1>1
  <2> HIDE DEF Info
  <2> QED
    BY <1>2, <2>1
<1>4. \A g : Scans(g, n, Stop, Emit, what, next) <=> g = Once(g)
  <2> SUFFICES ASSUME NEW g PROVE \A i \in D : Turn(g, i, Stop, Emit, what, next) = Once(g)[i]
    BY DEF Scans
  <2> HIDE DEF Info
  <2> SUFFICES ASSUME NEW i \in D PROVE Turn(g, i, Stop, Emit, what, next) = Once(g)[i]
    OBVIOUS
  <2>1. CASE i > n - 5
    BY <2>1 DEF Turn
  <2>2. CASE ~(i > n - 5) /\ ~IsCase(ss, init, i)
    BY <2>2 DEF Turn
  <2>3. CASE ~(i > n - 5) /\ IsCase(ss, init, i)
    BY <2>3 DEF Turn, Info
  <2> QED
    BY <2>1, <2>2, <2>3
<1>5. Scans(Scan, n, Stop, Emit, what, next)
  <2>1. \E g : Scans(g, n, Stop, Emit, what, next)
    BY <1>1, <1>3, ScanExists
  <2> HIDE DEF Once, Stop, Emit, what, next
  <2> QED
    BY <1>4, <2>1
<1>6. DetectCases(ss, init) = Scan[1]
  BY DEF DetectCases
<1> DEFINE S == Found(1, n, Stop, Emit, what)
<1>7. Scan[1] \in Seq(S)
  <2>1. 1 \in D
    BY <1>1
  <2> HIDE DEF Scan, Stop, Emit, what, next
  <2> QED
    BY <1>1, <1>3, <1>5, <2>1, ScanFinds
<1>8. \A x \in S : x.start \in Calls2(ss)
  <2> SUFFICES ASSUME NEW k \in D, k \in Emit PROVE what[k].start \in Calls2(ss)
    BY DEF Found
  <2> HIDE DEF Info
  <2> QED
    BY <1>2
<1> QED
  BY <1>6, <1>7, <1>8

\* The jump that ends a branch of a CASE of ranges.
LEMMA ThenEnds ==
  ASSUME NEW ss, Forward(ss), NEW j \in 1..(Len(ss) + 1), NEW ends,
         \/ ThenEnd(ss, j, ends) # 0
         \/ \E s \in (j + 7)..Len(ss) : ss[s].opc = "JUMP" /\ ss[s].jump \in ends
  PROVE  /\ ThenEnd(ss, j, ends) \in (j + 7)..Len(ss) /\ ss[ThenEnd(ss, j, ends)].opc = "JUMP"
         /\ ss[ThenEnd(ss, j, ends)].jump \in ends
<1> DEFINE jumps == {s \in (j + 7)..Len(ss) : ss[s].opc = "JUMP" /\ ss[s].jump \in ends}
<1>1. ThenEnd(ss, j, ends) = IF jumps = {} THEN 0 ELSE CHOOSE s \in jumps : \A t \in jumps : s <= t
  BY DEF ThenEnd
<1>2. jumps # {}
  BY <1>1
<1>3. jumps \subseteq Nat
  BY DEF Forward
<1>4. \E s \in jumps : \A t \in jumps : s <= t
  <2> HIDE DEF jumps
  <2> QED
    BY <1>2, <1>3, LeastNumber
<1>5. ThenEnd(ss, j, ends) \in jumps
  <2> HIDE DEF jumps
  <2> QED
    BY <1>1, <1>2, <1>4
<1> QED
  BY <1>5
\* The branches of a CASE of ranges, in the order of the steps, each with
\* its jump to the end.
Whole(ss, j, end) == ThenEnd(ss, j, {end}) # 0
LEMMA RangesStart ==
  ASSUME NEW ss, Forward(ss), NEW init, NEW i \in 1..Len(ss), IsRange(ss, init, i)
  PROVE  LET first == ThenEnd(ss, i, 1..(Len(ss) + 1))
             end == ss[first].jump
             starts == RangeStarts(ss, init, i)
         IN  /\ first \in (i + 7)..Len(ss) /\ end \in (first + 1)..Len(ss)
             /\ Len(starts) \in Nat \ {0} /\ starts[1] = i
             /\ \A k \in 1..Len(starts) : starts[k] \in i..(Len(ss) + 1) /\ Whole(ss, starts[k], end)
<1> DEFINE n == Len(ss)
           D == 1..(n + 1)
           first == ThenEnd(ss, i, 1..(n + 1))
           end == ss[first].jump
           Stop == {j \in D : ~ContinuesRange(ss, init, i, j, end)}
           what == [j \in D |-> j]
           next == [j \in D |-> ThenEnd(ss, j, {end}) + 1]
           Once(g) == [j \in D |-> IF ContinuesRange(ss, init, i, j, end) THEN <<j>> \o g[ThenEnd(ss, j, {end}) + 1] ELSE <<>>]
           From == CHOOSE g : g = Once(g)
<1>1. n \in Nat /\ i \in D
  BY DEF Forward
<1>2. first \in (i + 7)..n /\ ss[first].opc = "JUMP"
  <2>1. PICK s \in (i + 7)..n : ss[s].opc = "JUMP"
    BY DEF IsRange
  <2>2. ss[s].jump \in (s + 1)..n
    BY <1>1, <2>1, JumpsForward
  <2>3. ss[s].jump \in 1..(n + 1)
    BY <1>1, <2>1, <2>2
  <2> QED
    BY <1>1, <2>1, <2>3, ThenEnds
<1>3. end \in (first + 1)..n
  BY <1>1, <1>2, JumpsForward
<1>4. Whole(ss, i, end)
  <2>1. ThenEnd(ss, i, {end}) \in (i + 7)..n
    BY <1>1, <1>2, ThenEnds
  <2> QED
    BY <1>1, <2>1 DEF Whole
<1> HIDE DEF first, end
<1>5. GoesOn(n, Stop, next)
  <2> SUFFICES ASSUME NEW j \in D, j \notin Stop PROVE next[j] \in D /\ j < next[j]
    BY DEF GoesOn
  <2>1. ThenEnd(ss, j, {end}) # 0
    BY DEF ContinuesRange
  <2>2. ThenEnd(ss, j, {end}) \in (j + 7)..n
    BY <2>1, ThenEnds
  <2> QED
    BY <1>1, <2>2
<1>6. \A g : Scans(g, n, Stop, D, what, next) <=> g = Once(g)
  <2> SUFFICES ASSUME NEW g PROVE \A j \in D : Turn(g, j, Stop, D, what, next) = Once(g)[j]
    BY DEF Scans
  <2> QED
    BY DEF Turn
<1>7. Scans(From, n, Stop, D, what, next)
  <2>1. \E g : Scans(g, n, Stop, D, what, next)
    BY <1>1, <1>5, ScanExists
  <2> HIDE DEF Once, Stop, D, what, next
  <2> QED
    BY <1>6, <2>1
<1>8. RangeStarts(ss, init, i) = <<i>> \o From[first + 1]
  BY DEF RangeStarts, first, end
<1> DEFINE S == Found(first + 1, n, Stop, D, what)
           W == {j \in i..(n + 1) : Whole(ss, j, end)}
<1>9. From[first + 1] \in Seq(S)
  <2>1. first + 1 \in D
    BY <1>1, <1>2
  <2> HIDE DEF From, Stop, what, next
  <2> QED
    BY <1>1, <1>5, <1>7, <2>1, ScanFinds
<1>10. S \subseteq W
  <2> SUFFICES ASSUME NEW j \in (first + 1)..(n + 1), j \in D, j \notin Stop PROVE what[j] \in W
    BY DEF Found
  <2>1. Whole(ss, j, end)
    BY DEF ContinuesRange, Whole
  <2>2. j \in i..(n + 1)
    BY <1>1, <1>2
  <2> QED
    BY <2>1, <2>2
<1>11. From[first + 1] \in Seq(W)
  <2> HIDE DEF S, W, From
  <2> QED
    BY <1>9, <1>10
<1>12. i \in W
  BY <1>1, <1>4
<1> DEFINE starts == <<i>> \o From[first + 1]
<1>13. starts \in Seq(W) /\ Len(starts) \in Nat \ {0} /\ starts[1] = i /\ \A k \in 1..Len(starts) : starts[k] \in W
  <2> HIDE DEF W, From
  <2> QED
    BY <1>11, <1>12
<1> HIDE DEF From, starts
<1>14. RangeStarts(ss, init, i) = starts
  BY <1>8 DEF starts
<1> QED
  BY <1>2, <1>3, <1>13, <1>14 DEF first, end

LEMMA RangeCasesStart ==
  ASSUME NEW ss, Forward(ss), NEW init
  PROVE  \E S : DetectRanges(ss, init) \in Seq(S) /\ \A x \in S : x.start \in Calls2(ss)
<1> DEFINE n == Len(ss)
           D == 1..(n + 1)
           Starts(i) == RangeStarts(ss, init, i)
           End(i) == ss[ThenEnd(ss, i, 1..(n + 1))].jump
           Else(i) == ThenEnd(ss, Starts(i)[Len(Starts(i))], {End(i)}) + 1
           IsConst(s) == s <= Len(ss) /\ ss[s].opc = "CONST" /\ ~ss[s].n
           Tried(i) == Len(Starts(i)) >= MinBranches /\ IsContiguous(ss, init, Starts(i)) /\ IsConst(Else(i))
           Taken(i) == \A k \in DOMAIN Starts(i) : IsConst(Starts(i)[k] + 7)
           Info(i) == RangeInfo(ss, init, Starts(i), Else(i), End(i))
           Stop == {i \in D : i + 7 > n}
           Emit == {i \in D : IsRange(ss, init, i) /\ Tried(i) /\ Taken(i)}
           what == [i \in D |-> Info(i)]
           next == [i \in D |-> IF ~IsRange(ss, init, i) THEN i + 1 ELSE IF ~Tried(i) THEN Else(i) ELSE End(i)]
           Once(g) == [i \in D |->
             IF i + 7 > n THEN <<>>
             ELSE IF ~IsRange(ss, init, i) THEN g[i + 1]
             ELSE IF ~Tried(i) THEN g[Else(i)]
             ELSE IF Taken(i) THEN <<Info(i)>> \o g[End(i)] ELSE g[End(i)]]
           Scan == CHOOSE g : g = Once(g)
<1>1. n \in Nat
  BY DEF Forward
<1>2. \A i \in D : i + 7 <= n /\ IsRange(ss, init, i) =>
        End(i) \in D /\ i < End(i) /\ Else(i) \in D /\ i < Else(i) /\ Info(i).start = i /\ i \in Calls2(ss)
  <2> SUFFICES ASSUME NEW i \in D, i + 7 <= n, IsRange(ss, init, i)
               PROVE  End(i) \in D /\ i < End(i) /\ Else(i) \in D /\ i < Else(i) /\ Info(i).start = i /\ i \in Calls2(ss)
    OBVIOUS
  <2> DEFINE first == ThenEnd(ss, i, 1..(n + 1))
             last == Starts(i)[Len(Starts(i))]
  <2>1. i \in 1..n
    BY <1>1
  <2>2. /\ first \in (i + 7)..n /\ End(i) \in (first + 1)..n
        /\ Len(Starts(i)) \in Nat \ {0} /\ Starts(i)[1] = i
        /\ \A k \in 1..Len(Starts(i)) : Starts(i)[k] \in i..(n + 1) /\ Whole(ss, Starts(i)[k], End(i))
    BY <2>1, RangesStart
  <2>3. last \in i..(n + 1) /\ ThenEnd(ss, last, {End(i)}) # 0
    <3> DEFINE l == Len(Starts(i))
    <3>1. l \in 1..l
      <4> HIDE DEF Starts
      <4> QED
        BY <2>2
    <3> HIDE DEF Starts, End
    <3>2. Starts(i)[l] \in i..(n + 1) /\ Whole(ss, Starts(i)[l], End(i))
      BY <2>2, <3>1
    <3> QED
      BY <3>2 DEF Whole
  <2>4. ThenEnd(ss, last, {End(i)}) \in (last + 7)..n
    <3> HIDE DEF Starts, End, last
    <3>1. last \in 1..(n + 1)
      BY <1>1, <2>1, <2>3
    <3> QED
      BY <2>3, <3>1, ThenEnds
  <2>5. Info(i).start = i
    <3>1. Info(i).start = Starts(i)[1]
      BY DEF RangeInfo
    <3> QED
      BY <2>2, <3>1
  <2>6. i \in Calls2(ss)
    BY <1>1, <2>1 DEF IsRange, IsRangePrefix, IsStrictCall, Calls2, Forward
  <2>7. End(i) \in D /\ i < End(i)
    <3> HIDE DEF End, first
    <3> QED
      BY <1>1, <2>1, <2>2
  <2>8. Else(i) \in D /\ i < Else(i)
    <3> DEFINE t == ThenEnd(ss, last, {End(i)})
    <3>1. Else(i) = t + 1
      OBVIOUS
    <3> HIDE DEF t, Else, last
    <3> QED
      BY <1>1, <2>1, <2>3, <2>4, <3>1 DEF t
  <2> QED
    BY <2>5, <2>6, <2>7, <2>8
<1> HIDE DEF Starts, End, Else, IsConst, Tried, Taken, Info
<1>3. GoesOn(n, Stop, next)
  <2> SUFFICES ASSUME NEW i \in D, i \notin Stop PROVE next[i] \in D /\ i < next[i]
    BY DEF GoesOn
  <2>1. i + 1 \in D /\ i < i + 1 /\ i + 7 <= n
    BY <1>1
  <2> QED
    BY <1>2, <2>1
<1>4. \A g : Scans(g, n, Stop, Emit, what, next) <=> g = Once(g)
  <2> SUFFICES ASSUME NEW g PROVE \A i \in D : Turn(g, i, Stop, Emit, what, next) = Once(g)[i]
    BY DEF Scans
  <2> SUFFICES ASSUME NEW i \in D PROVE Turn(g, i, Stop, Emit, what, next) = Once(g)[i]
    OBVIOUS
  <2>1. CASE i + 7 > n
    BY <2>1 DEF Turn
  <2>2. CASE ~(i + 7 > n) /\ ~IsRange(ss, init, i)
    BY <2>2 DEF Turn
  <2>3. CASE ~(i + 7 > n) /\ IsRange(ss, init, i)
    BY <2>3 DEF Turn
  <2> QED
    BY <2>1, <2>2, <2>3
<1>5. Scans(Scan, n, Stop, Emit, what, next)
  <2>1. \E g : Scans(g, n, Stop, Emit, what, next)
    BY <1>1, <1>3, ScanExists
  <2> HIDE DEF Once, Stop, Emit, what, next
  <2> QED
    BY <1>4, <2>1
<1>6. DetectRanges(ss, init) = Scan[1]
  BY DEF DetectRanges, Starts, End, Else, IsConst, Tried, Taken, Info
<1> DEFINE S == Found(1, n, Stop, Emit, what)
<1>7. Scan[1] \in Seq(S)
  <2>1. 1 \in D
    BY <1>1
  <2> HIDE DEF Scan, Stop, Emit, what, next
  <2> QED
    BY <1>1, <1>3, <1>5, <2>1, ScanFinds
<1>8. \A x \in S : x.start \in Calls2(ss)
  <2> SUFFICES ASSUME NEW k \in D, k \in Emit, k \notin Stop PROVE what[k].start \in Calls2(ss)
    BY DEF Found
  <2>1. k + 7 <= n
    BY <1>1
  <2> QED
    BY <1>2, <2>1
<1> QED
  BY <1>6, <1>7, <1>8

\* Where a binary search replaces steps the program had a load and the call
\* that compares the first branch, for every program whose jumps go forward
\* and whatever constants the cells hold (pg_jitter_detect_case_bsearch).
THEOREM SearchesAtCalls ==
  ASSUME NEW ss, Forward(ss), NEW init
  PROVE  \A k \in DOMAIN DetectCaseBsearch(ss, init) : DetectCaseBsearch(ss, init)[k].start \in Calls2(ss)
<1>1. PICK A : DetectCases(ss, init) \in Seq(A) /\ \A x \in A : x.start \in Calls2(ss)
  BY CasesStart
<1>2. PICK B : DetectRanges(ss, init) \in Seq(B) /\ \A x \in B : x.start \in Calls2(ss)
  BY RangeCasesStart
<1>3. DetectCases(ss, init) \in Seq(A \cup B) /\ DetectRanges(ss, init) \in Seq(A \cup B)
  BY <1>1, <1>2
<1>4. DetectCaseBsearch(ss, init) \in Seq(A \cup B)
  BY <1>3 DEF DetectCaseBsearch
<1>5. \A k \in DOMAIN DetectCaseBsearch(ss, init) : DetectCaseBsearch(ss, init)[k] \in A \cup B
  BY <1>4
<1> QED
  BY <1>1, <1>2, <1>5

(***************************************************************************)
(* Columns.  The invariant of a row: the slots hold columns of the tuple   *)
(* of the row, and every FETCHSOME that is behind the program counter has  *)
(* had its effect, or all have.  Since the FETCHSOMEs come first, a step   *)
(* that is none has all of them behind it, wherever it jumps.              *)
(***************************************************************************)
FetchSteps == {j \in DOMAIN steps : steps[j].opc = "FETCHSOME"}
Columnar(op) == op.opc \in {"VAR", "ASSIGN_VAR"}
SlotsHold(mm, p) ==
  /\ DOMAIN mm.tts = DOMAIN p.tts /\ DOMAIN mm.cptr = SlotKinds
  /\ \A s \in DOMAIN mm.tts : HoldsTuple(mm.tts[s]) /\ DOMAIN mm.tts[s].val = DOMAIN p.tts[s].val
ContextHolds(mm) == "slot" \in DOMAIN mm.ec /\ \A k \in SlotKinds : mm.ec.slot[k] \in DOMAIN mm.tts
IsFetched(mm, j) ==
  LET s == mm.ec.slot[steps[j].slot]
  IN  steps[j].last <= mm.tts[s].nvalid /\ (backend = "sljit" => mm.cptr[steps[j].slot] = s)
AllFetched(mm) == \A j \in FetchSteps : IsFetched(mm, j)
FetchedSoFar(mm) == mm.pc \in Nat /\ \A j \in FetchSteps : j < mm.pc => IsFetched(mm, j)
Unfetched(i) == Columnar(steps[i]) /\ \A j \in DOMAIN steps : ~Fetches(steps[j], steps[i].slot)
NoneToFetch(mm) == \A i \in DOMAIN steps : Unfetched(i) => steps[i].att <= mm.tts[mm.ec.slot[steps[i].slot]].nvalid
InRow(mm) == ContextHolds(mm) /\ NoneToFetch(mm) /\ (AllFetched(mm) \/ FetchedSoFar(mm))
SearchesStart(ss, found) ==
  \A k \in DOMAIN found : found[k].start + 1 \in DOMAIN ss /\ ss[found[k].start + 1].opc # "FETCHSOME"
ColumnSteps(ss, p) == FetchesComeFirst(ss) /\ ColumnsAreFetched(ss, p)
CInv ==
  /\ prog \in DOMAIN Programs /\ DOMAIN steps = 1..Len(Programs[prog].steps) /\ ColumnSteps(steps, Programs[prog])
  /\ SearchesStart(steps, cases)
  /\ IF phase = "new" THEN steps = Programs[prog].steps /\ mode = "none" ELSE mode \in {"jit", "interp"}
  /\ mode # "interp" => SlotsHold(m, Programs[prog])
  /\ phase = "run" /\ mode # "interp" => InRow(m)

\* Deforming adds columns of the tuple.
LEMMA MoreColumns ==
  ASSUME NEW mm, HasShape(mm), NEW p, SlotsHold(mm, p), NEW s \in DOMAIN mm.tts, NEW last \in Nat
  PROVE  LET t == GetSomeAttrs(mm, s, last).tts
         IN  /\ DOMAIN t = DOMAIN p.tts
             /\ \A x \in DOMAIN t : HoldsTuple(t[x]) /\ DOMAIN t[x].val = DOMAIN p.tts[x].val
             /\ \A x \in DOMAIN t : mm.tts[x].nvalid <= t[x].nvalid
             /\ last <= t[s].nvalid
<1> DEFINE t == GetSomeAttrs(mm, s, last).tts
           o == mm.tts[s]
           new == [o EXCEPT !.nvalid = last, !.val = [a \in DOMAIN @ |-> IF a <= last THEN o.tuple[a].v ELSE @[a]],
                            !.nul = [a \in DOMAIN @ |-> IF a <= last THEN o.tuple[a].n ELSE @[a]]]
<1>1. \A x \in DOMAIN mm.tts : HoldsTuple(mm.tts[x]) /\ mm.tts[x].nvalid \in Nat
  BY DEF SlotsHold, HoldsTuple
<1>2. CASE o.nvalid >= last
  <2>1. t = mm.tts
    BY <1>2 DEF GetSomeAttrs
  <2> QED
    BY <1>1, <1>2, <2>1 DEF SlotsHold
<1>3. CASE ~(o.nvalid >= last)
  <2>1. t = [mm.tts EXCEPT ![s] = new]
    BY <1>3 DEF GetSomeAttrs, HasShape, Fields
  <2>2. HoldsTuple(o) /\ o.nvalid < last
    BY <1>1, <1>3
  <2>3. /\ DOMAIN new = SlotFields /\ new.nvalid = last /\ new.tuple = o.tuple
        /\ new.val = [a \in DOMAIN o.val |-> IF a <= last THEN o.tuple[a].v ELSE o.val[a]]
        /\ new.nul = [a \in DOMAIN o.nul |-> IF a <= last THEN o.tuple[a].n ELSE o.nul[a]]
    BY <2>2 DEF HoldsTuple, SlotFields
  <2>4. HoldsTuple(new) /\ DOMAIN new.val = DOMAIN o.val
    <3> HIDE DEF new
    <3> QED
      BY <2>2, <2>3 DEF HoldsTuple
  <2> HIDE DEF new
  <2>5. DOMAIN t = DOMAIN mm.tts /\ t[s] = new /\ \A x \in DOMAIN mm.tts : x # s => t[x] = mm.tts[x]
    BY <2>1
  <2> HIDE DEF t
  <2>6. \A x \in DOMAIN mm.tts : HoldsTuple(t[x]) /\ DOMAIN t[x].val = DOMAIN mm.tts[x].val
    BY <1>1, <2>4, <2>5
  <2>7. \A x \in DOMAIN mm.tts : mm.tts[x].nvalid <= t[x].nvalid
    BY <1>1, <2>2, <2>3, <2>5
  <2>8. last <= t[s].nvalid
    BY <2>3, <2>5
  <2> QED
    BY <2>5, <2>6, <2>7, <2>8 DEF SlotsHold, t
<1> QED
  BY <1>2, <1>3

\* The tuple of a new row, with some columns taken apart already.
LEMMA NewTuples ==
  ASSUME NEW mm, HasShape(mm), NEW p, SlotsHold(mm, p), SlotsAreReady(p), NEW r \in p.rows
  PROVE  /\ SlotsHold(OnRow(mm, r), p) /\ ContextHolds(OnRow(mm, r)) /\ OnRow(mm, r).pc = 1 /\ OnRow(mm, r).ec = r.ec
         /\ \A s \in DOMAIN p.tts \cap DOMAIN r.tuple : OnRow(mm, r).tts[s].nvalid = r.nvalid
<1> DEFINE q == OnRow(mm, r)
<1>1. /\ q.pc = 1 /\ q.ec = r.ec /\ q.cptr = [k \in SlotKinds |-> "none"]
      /\ q.tts = [s \in DOMAIN mm.tts |-> IF s \in DOMAIN r.tuple THEN Filled(mm.tts[s], r.tuple[s], r.nvalid) ELSE mm.tts[s]]
  BY DEF OnRow, HasShape, Fields
<1>2. \A o, tuple : HoldsTuple(o) =>
        HoldsTuple(Filled(o, tuple, r.nvalid)) /\ DOMAIN Filled(o, tuple, r.nvalid).val = DOMAIN o.val
          /\ Filled(o, tuple, r.nvalid).nvalid = r.nvalid
  <2> SUFFICES ASSUME NEW o, NEW tuple, HoldsTuple(o)
               PROVE  HoldsTuple(Filled(o, tuple, r.nvalid)) /\ DOMAIN Filled(o, tuple, r.nvalid).val = DOMAIN o.val
                        /\ Filled(o, tuple, r.nvalid).nvalid = r.nvalid
    OBVIOUS
  <2> DEFINE new == Filled(o, tuple, r.nvalid)
  <2>1. r.nvalid \in Nat
    BY DEF SlotsAreReady
  <2>2. /\ DOMAIN new = SlotFields /\ new.nvalid = r.nvalid /\ new.tuple = tuple
        /\ new.val = [a \in DOMAIN o.val |-> IF a <= r.nvalid THEN tuple[a].v ELSE o.val[a]]
        /\ new.nul = [a \in DOMAIN o.nul |-> IF a <= r.nvalid THEN tuple[a].n ELSE o.nul[a]]
    BY DEF HoldsTuple, SlotFields, Filled
  <2> HIDE DEF new
  <2>3. HoldsTuple(new) /\ DOMAIN new.val = DOMAIN o.val
    BY <2>1, <2>2 DEF HoldsTuple
  <2> QED
    BY <2>2, <2>3 DEF new
<1> HIDE DEF q
<1>3. DOMAIN q.tts = DOMAIN p.tts /\ DOMAIN mm.tts = DOMAIN p.tts
  BY <1>1 DEF SlotsHold
<1>4. \A s \in DOMAIN p.tts : HoldsTuple(q.tts[s]) /\ DOMAIN q.tts[s].val = DOMAIN p.tts[s].val
  <2> SUFFICES ASSUME NEW s \in DOMAIN p.tts PROVE HoldsTuple(q.tts[s]) /\ DOMAIN q.tts[s].val = DOMAIN p.tts[s].val
    OBVIOUS
  <2>1. HoldsTuple(mm.tts[s]) /\ DOMAIN mm.tts[s].val = DOMAIN p.tts[s].val
    BY <1>3 DEF SlotsHold
  <2>2. q.tts[s] = IF s \in DOMAIN r.tuple THEN Filled(mm.tts[s], r.tuple[s], r.nvalid) ELSE mm.tts[s]
    BY <1>1, <1>3
  <2> QED
    BY <1>2, <2>1, <2>2
<1>5. \A s \in DOMAIN p.tts \cap DOMAIN r.tuple : q.tts[s].nvalid = r.nvalid
  <2> SUFFICES ASSUME NEW s \in DOMAIN p.tts, s \in DOMAIN r.tuple PROVE q.tts[s].nvalid = r.nvalid
    OBVIOUS
  <2>1. HoldsTuple(mm.tts[s])
    BY <1>3 DEF SlotsHold
  <2>2. q.tts[s] = Filled(mm.tts[s], r.tuple[s], r.nvalid)
    BY <1>1, <1>3
  <2> QED
    BY <1>2, <2>1, <2>2
<1>6. SlotsHold(q, p)
  BY <1>1, <1>3, <1>4 DEF SlotsHold
<1>7. ContextHolds(q)
  BY <1>1, <1>3 DEF ContextHolds, SlotsAreReady
<1> QED
  BY <1>1, <1>5, <1>6, <1>7 DEF q

\* Behind a step that is no FETCHSOME are all of them.
LEMMA Behind ==
  ASSUME StepsHold(steps), FetchesComeFirst(steps), NEW mm, NEW i \in DOMAIN steps, steps[i].opc # "FETCHSOME",
         \A j \in FetchSteps : j < i => IsFetched(mm, j)
  PROVE  AllFetched(mm)
<1> SUFFICES ASSUME NEW j \in FetchSteps PROVE j < i
  BY DEF AllFetched
<1>1. i \in Nat /\ j \in Nat /\ j # i /\ j \in DOMAIN steps /\ steps[j].opc = "FETCHSOME"
  BY DEF StepsHold, FetchSteps
<1>2. ~(i < j)
  BY <1>1 DEF FetchesComeFirst
<1> QED
  BY <1>1, <1>2
\* A step that keeps the slots, in a row or wherever it goes then.
LEMMA KeptRow ==
  ASSUME StepsHold(steps), ColumnSteps(steps, Programs[prog]), NEW p, SlotsHold(m, p), InRow(m), HasShape(m),
         m.pc \in DOMAIN steps, steps[m.pc].opc # "FETCHSOME", NEW q, Keeps(m, q)
  PROVE  SlotsHold(q, p) /\ InRow(q)
<1>1. q.tts = m.tts /\ q.cptr = m.cptr /\ "slot" \in DOMAIN q.ec /\ q.ec.slot = m.ec.slot
  BY DEF Keeps, InRow, ContextHolds
<1>2. AllFetched(m)
  BY Behind DEF ColumnSteps, InRow, FetchedSoFar, AllFetched
<1>3. AllFetched(q)
  BY <1>1, <1>2 DEF AllFetched, IsFetched
<1>4. SlotsHold(q, p)
  BY <1>1 DEF SlotsHold
<1>5. ContextHolds(q) /\ NoneToFetch(q)
  BY <1>1 DEF InRow, ContextHolds, NoneToFetch
<1> QED
  BY <1>3, <1>4, <1>5 DEF InRow
\* A FETCHSOME has had its effect when it is done; a jump past a batch of
\* columns that follows it leaves no other behind.
LEMMA FetchedRow ==
  ASSUME StepsHold(steps), ColumnSteps(steps, Programs[prog]), NEW p, SlotsHold(m, p), InRow(m), HasShape(m),
         m.pc \in DOMAIN steps, Here.opc = "FETCHSOME", backend \in AllBackends,
         m' = ByBackend(SljitFetchSome(m, Here), MirFetchSome(m, Here), FallbackFetchSome(m, Here))
  PROVE  SlotsHold(m', p) /\ InRow(m')
<1> DEFINE op == Here
           s == SlotOf(m, op)
<1>1. op.slot \in SlotKinds /\ op.last \in Nat /\ m.pc \in Nat /\ m.pc \in FetchSteps
  BY DEF Here, StepsHold, HasFields, FetchSteps
<1>2. s \in DOMAIN m.tts /\ m.ec.slot[op.slot] = s
  BY <1>1 DEF SlotOf, InRow, ContextHolds
<1>3. \A x \in DOMAIN m.tts : m.tts[x].nvalid \in Nat
  BY DEF SlotsHold, HoldsTuple
<1>4. PICK q : /\ Fetched(m, q, op) /\ (backend = "sljit" => q.cptr = [m.cptr EXCEPT ![op.slot] = s])
               /\ m' = q \/ m' = Landed(q, steps)
  <2>1. Fetched(m, SljitFetchSome(m, op), op) /\ Fetched(m, MirFetchSome(m, op), op)
          /\ Fetched(m, FallbackFetchSome(m, op), op) /\ SljitFetchSome(m, op).cptr = [m.cptr EXCEPT ![op.slot] = s]
    BY <1>1, <1>2, <1>3, FetchSome
  <2> HIDE DEF op, s
  <2>2. CASE backend = "sljit"
    BY <2>1, <2>2 DEF ByBackend, op
  <2>3. CASE backend = "mir"
    BY <2>1, <2>3 DEF ByBackend, op
  <2>4. CASE backend = "fallback"
    BY <2>1, <2>4 DEF ByBackend, op
  <2> QED
    BY <2>2, <2>3, <2>4 DEF AllBackends
<1>5. /\ HasShape(q) /\ q.pc = m.pc + 1 /\ q.tts = GetSomeAttrs(m, s, op.last).tts /\ q.ec = m.ec /\ DOMAIN q.cptr = DOMAIN m.cptr
  BY <1>4 DEF Fetched
<1> HIDE DEF op, s
<1>6. /\ DOMAIN q.tts = DOMAIN p.tts
      /\ \A x \in DOMAIN q.tts : HoldsTuple(q.tts[x]) /\ DOMAIN q.tts[x].val = DOMAIN p.tts[x].val
      /\ \A x \in DOMAIN q.tts : m.tts[x].nvalid <= q.tts[x].nvalid
      /\ op.last <= q.tts[s].nvalid
  BY <1>1, <1>2, <1>5, MoreColumns
<1>7. \A x \in DOMAIN m.tts : q.tts[x].nvalid \in Nat /\ DOMAIN m.tts = DOMAIN q.tts
  BY <1>6 DEF SlotsHold, HoldsTuple
<1>8. SlotsHold(q, p) /\ ContextHolds(q)
  BY <1>5, <1>6, <1>7 DEF SlotsHold, InRow, ContextHolds
<1>9. NoneToFetch(q)
  <2> SUFFICES ASSUME NEW i \in DOMAIN steps, Unfetched(i) PROVE steps[i].att <= q.tts[q.ec.slot[steps[i].slot]].nvalid
    BY DEF NoneToFetch
  <2>1. steps[i].slot \in SlotKinds /\ steps[i].att \in Nat
    BY DEF Unfetched, Columnar, StepsHold, HasFields
  <2>2. m.ec.slot[steps[i].slot] \in DOMAIN m.tts
    BY <2>1 DEF InRow, ContextHolds
  <2>3. steps[i].att <= m.tts[m.ec.slot[steps[i].slot]].nvalid
    BY DEF InRow, NoneToFetch
  <2> QED
    BY <1>3, <1>5, <1>6, <1>7, <2>1, <2>2, <2>3
<1>10. \A j \in FetchSteps : j < m.pc + 1 => IsFetched(q, j)
  <2> SUFFICES ASSUME NEW j \in FetchSteps, j < m.pc + 1 PROVE IsFetched(q, j)
    OBVIOUS
  <2>1. j \in DOMAIN steps /\ j \in Nat /\ steps[j].slot \in SlotKinds /\ steps[j].last \in Nat
    BY DEF FetchSteps, StepsHold, HasFields
  <2> DEFINE x == m.ec.slot[steps[j].slot]
  <2>2. x \in DOMAIN m.tts /\ x = q.ec.slot[steps[j].slot]
    BY <1>5, <2>1 DEF InRow, ContextHolds
  <2>3. CASE j = m.pc
    <3>1. steps[j] = op
      BY <2>3 DEF op, Here
    <3>2. q.cptr[op.slot] = s \/ backend # "sljit"
      BY <1>1, <1>4 DEF SlotsHold
    <3> QED
      BY <1>2, <1>5, <1>6, <3>1, <3>2 DEF IsFetched
  <2>4. CASE j # m.pc
    <3>1. IsFetched(m, j)
      BY <1>1, <2>1, <2>4 DEF InRow, AllFetched, FetchedSoFar
    <3>2. steps[j].last <= q.tts[x].nvalid
      BY <1>3, <1>6, <1>7, <2>1, <2>2, <3>1 DEF IsFetched
    <3>3. backend = "sljit" => q.cptr[steps[j].slot] = x
      BY <1>1, <1>2, <1>4, <2>1, <3>1 DEF IsFetched, SlotsHold
    <3> QED
      BY <2>2, <3>2, <3>3 DEF IsFetched
  <2> QED
    BY <2>3, <2>4
<1>11. FetchedSoFar(q)
  BY <1>1, <1>5, <1>10 DEF FetchedSoFar
<1>12. CASE m' = q
  BY <1>8, <1>9, <1>11, <1>12 DEF InRow
<1>13. CASE m' = Landed(q, steps) /\ m' # q
  <2>1. q.pc \in DOMAIN steps /\ TakenIn(steps, q.pc)
    BY <1>13 DEF Landed
  <2>2. AllFetched(q)
    BY <1>5, <1>10, <2>1, Behind DEF TakenIn, ColumnSteps
  <2>3. m'.tts = q.tts /\ m'.cptr = q.cptr /\ m'.ec = q.ec
    BY <1>5, <1>13 DEF Landed, HasShape, Fields
  <2>4. AllFetched(m')
    BY <2>2, <2>3 DEF AllFetched, IsFetched
  <2>5. SlotsHold(m', p)
    BY <1>8, <2>3 DEF SlotsHold
  <2>6. ContextHolds(m') /\ NoneToFetch(m')
    BY <1>8, <1>9, <2>3 DEF ContextHolds, NoneToFetch
  <2> QED
    BY <2>4, <2>5, <2>6 DEF InRow
<1> QED
  BY <1>4, <1>12, <1>13

\* Compilation leaves the columns as they are.
SameColumns(ss, tt) ==
  /\ DOMAIN tt = DOMAIN ss
  /\ \A i \in DOMAIN ss : /\ tt[i].opc = ss[i].opc
                          /\ ss[i].opc = "FETCHSOME" => tt[i].slot = ss[i].slot /\ tt[i].last = ss[i].last
                          /\ Columnar(ss[i]) => tt[i].slot = ss[i].slot /\ tt[i].att = ss[i].att
LEMMA PrepareColumns ==
  ASSUME StepsHold(steps), Prepare PROVE SameColumns(steps, steps')
<1> DEFINE op(i) == SetupArrays(steps, cases')[i]
<1>1. DOMAIN steps' = DOMAIN steps /\ \A i \in DOMAIN steps :
        steps'[i] = IF op(i).opc = "HASHED_SAOP" THEN PlanList(op(i)) ELSE op(i)
  BY DEF Prepare
<1> SUFFICES ASSUME NEW i \in DOMAIN steps
             PROVE  /\ steps'[i].opc = steps[i].opc
                    /\ steps[i].opc = "FETCHSOME" => steps'[i].slot = steps[i].slot /\ steps'[i].last = steps[i].last
                    /\ Columnar(steps[i]) => steps'[i].slot = steps[i].slot /\ steps'[i].att = steps[i].att
  BY <1>1 DEF SameColumns
<1>2. op(i) = Overwritten(steps[i]) \/ op(i) = steps[i]
  BY DEF SetupArrays
<1>3. HasFields(steps[i])
  BY DEF StepsHold
<1>4. DOMAIN op(i) = DOMAIN steps[i] /\ \A f \in DOMAIN steps[i] : f \notin {"jump", "any"} => op(i)[f] = steps[i][f]
  BY <1>2, OverwrittenFields
<1>5. op(i).opc = steps[i].opc /\ "opc" \in DOMAIN op(i)
  BY <1>3, <1>4 DEF HasFields
<1>6. CASE op(i).opc = "HASHED_SAOP"
  <2>1. \A plan : WithPlan(op(i), plan).opc = op(i).opc
    BY <1>5 DEF WithPlan
  <2>2. PlanList(op(i)).opc = op(i).opc
    BY <2>1 DEF PlanList
  <2> QED
    BY <1>1, <1>5, <1>6, <2>2 DEF Columnar
<1>7. CASE op(i).opc # "HASHED_SAOP"
  <2>1. steps'[i] = op(i)
    BY <1>1, <1>7
  <2>2. steps[i].opc = "FETCHSOME" => op(i).slot = steps[i].slot /\ op(i).last = steps[i].last
    BY <1>3, <1>4 DEF HasFields
  <2>3. Columnar(steps[i]) => op(i).slot = steps[i].slot /\ op(i).att = steps[i].att
    BY <1>3, <1>4 DEF HasFields, Columnar
  <2> QED
    BY <1>5, <2>1, <2>2, <2>3
<1> QED
  BY <1>6, <1>7
LEMMA ColumnsAsBuilt ==
  ASSUME NEW ss, NEW tt, SameColumns(ss, tt), NEW p, ColumnSteps(ss, p) PROVE ColumnSteps(tt, p)
<1>1. FetchesComeFirst(tt)
  BY DEF SameColumns, ColumnSteps, FetchesComeFirst
<1>2. \A j \in DOMAIN ss : \A k : Fetches(tt[j], k) <=> Fetches(ss[j], k)
  BY DEF SameColumns, Fetches
<1>3. ColumnsAreFetched(tt, p)
  <2> SUFFICES ASSUME NEW i \in DOMAIN ss, Columnar(ss[i])
               PROVE  /\ \A s \in DOMAIN p.tts : tt[i].att \in DOMAIN p.tts[s].val
                      /\ \/ \E j \in DOMAIN ss : Fetches(tt[j], tt[i].slot) /\ tt[i].att <= tt[j].last
                         \/ /\ \A j \in DOMAIN ss : ~Fetches(tt[j], tt[i].slot)
                            /\ \A r \in p.rows : r.ec.slot[tt[i].slot] \in DOMAIN r.tuple /\ tt[i].att <= r.nvalid
    BY DEF ColumnsAreFetched, SameColumns, Columnar
  <2>1. tt[i].att = ss[i].att /\ tt[i].slot = ss[i].slot
    BY DEF SameColumns
  <2>2. \A s \in DOMAIN p.tts : ss[i].att \in DOMAIN p.tts[s].val
    BY DEF ColumnSteps, ColumnsAreFetched, Columnar
  <2>3. CASE \E j \in DOMAIN ss : Fetches(ss[j], ss[i].slot) /\ ss[i].att <= ss[j].last
    <3>1. PICK j \in DOMAIN ss : Fetches(ss[j], ss[i].slot) /\ ss[i].att <= ss[j].last
      BY <2>3
    <3>2. tt[j].last = ss[j].last
      BY <3>1 DEF SameColumns, Fetches
    <3> QED
      BY <1>2, <2>1, <2>2, <3>1, <3>2
  <2>4. CASE ~\E j \in DOMAIN ss : Fetches(ss[j], ss[i].slot) /\ ss[i].att <= ss[j].last
    <3>1. /\ \A j \in DOMAIN ss : ~Fetches(ss[j], ss[i].slot)
          /\ \A r \in p.rows : r.ec.slot[ss[i].slot] \in DOMAIN r.tuple /\ ss[i].att <= r.nvalid
      BY <2>4 DEF ColumnSteps, ColumnsAreFetched, Columnar
    <3> QED
      BY <1>2, <2>1, <2>2, <3>1
  <2> QED
    BY <2>3, <2>4
<1> QED
  BY <1>1, <1>3 DEF ColumnSteps

LEMMA ColumnsInit == Init => CInv
<1> SUFFICES ASSUME Init PROVE CInv
  OBVIOUS
<1> DEFINE p == Programs[prog]
<1>1. prog \in DOMAIN Programs /\ WellFormed(p) /\ steps = p.steps /\ cases = <<>> /\ mode = "none" /\ phase = "new"
  BY ProgramsAreWellFormed DEF Init, InitOf
<1>2. m.tts = p.tts /\ m.cptr = [k \in SlotKinds |-> "none"]
  BY DEF Init, InitOf, FreshMachine
<1>3. SlotsHold(m, p)
  BY <1>1, <1>2 DEF SlotsHold, WellFormed, SlotsAreReady
<1>4. ColumnSteps(steps, p) /\ DOMAIN steps = 1..Len(p.steps)
  BY <1>1 DEF ColumnSteps, WellFormed
<1> QED
  BY <1>1, <1>3, <1>4 DEF CInv, SearchesStart

LEMMA ColumnsNext == IInv /\ CInv /\ [Next]_vars => CInv'
<1> SUFFICES ASSUME IInv, CInv, [Next]_vars PROVE CInv'
  OBVIOUS
<1> DEFINE p == Programs[prog]
<1>1. prog \in DOMAIN Programs /\ WellFormed(p) /\ HasShape(m) /\ StepsHold(steps)
  BY ProgramsAreWellFormed DEF CInv, IInv
<1>2. CASE Compile
  <2>1. steps = p.steps /\ phase' = "ready" /\ m' = m /\ prog' = prog /\ mode = "none" /\ mode' \in {"jit", "interp"}
    BY <1>2 DEF Compile, CInv
  <2>2. SameColumns(steps, steps')
    BY <1>1, <1>2, PrepareColumns DEF Compile
  <2>3. ColumnSteps(steps', p)
    BY <2>2, ColumnsAsBuilt DEF CInv
  <2>4. Forward(steps)
    BY <1>1, <2>1 DEF WellFormed, Forward
  <2>5. cases' = <<>> \/ cases' = DetectCaseBsearch(steps, Cells(m))
    BY <1>2 DEF Compile, Prepare
  <2>6. \A k \in DOMAIN cases' : cases'[k].start \in Calls2(steps)
    BY <2>4, <2>5, SearchesAtCalls
  <2>7. SearchesStart(steps', cases')
    BY <2>2, <2>6 DEF SearchesStart, Calls2, SameColumns
  <2>8. SlotsHold(m', p)
    BY <2>1 DEF CInv
  <2>9. DOMAIN steps' = 1..Len(p.steps)
    BY <1>1, <2>1, <2>2 DEF SameColumns, WellFormed
  <2> QED
    BY <1>1, <2>1, <2>3, <2>7, <2>8, <2>9 DEF CInv
<1>3. CASE StartRow
  <2>1. PICK r \in p.rows : m' = OnRow(m, r)
    BY <1>3 DEF StartRow, StartRowOf
  <2>2. phase = "ready" /\ phase' = "run" /\ prog' = prog /\ steps' = steps /\ cases' = cases /\ backend' = backend /\ mode' = mode
    BY <1>3 DEF StartRow
  <2>3. ASSUME mode # "interp" PROVE SlotsHold(m', p) /\ InRow(m)'
    <3>1. SlotsHold(m, p) /\ SlotsAreReady(p)
      BY <1>1, <2>3 DEF CInv, WellFormed
    <3>2. /\ SlotsHold(m', p) /\ ContextHolds(m') /\ m'.pc = 1 /\ m'.ec = r.ec
          /\ \A s \in DOMAIN p.tts \cap DOMAIN r.tuple : m'.tts[s].nvalid = r.nvalid
      BY <1>1, <2>1, <3>1, NewTuples
    <3>3. NoneToFetch(m)'
      <4> SUFFICES ASSUME NEW i \in DOMAIN steps, Unfetched(i)
                   PROVE  steps[i].att <= m'.tts[m'.ec.slot[steps[i].slot]].nvalid
        BY <2>2 DEF NoneToFetch, Unfetched
      <4>1. r.ec.slot[steps[i].slot] \in DOMAIN r.tuple /\ steps[i].att <= r.nvalid
        BY DEF Unfetched, Columnar, CInv, ColumnSteps, ColumnsAreFetched
      <4>2. r.ec.slot[steps[i].slot] \in DOMAIN p.tts
        BY <1>1, <3>1 DEF SlotsAreReady, Unfetched, Columnar, StepsHold, HasFields
      <4> QED
        BY <3>2, <4>1, <4>2
    <3>4. FetchedSoFar(m)'
      <4>1. \A j \in FetchSteps' : ~(j < 1)
        BY <1>1, <2>2 DEF FetchSteps, StepsHold
      <4> QED
        BY <3>2, <4>1 DEF FetchedSoFar
    <3> QED
      BY <3>2, <3>3, <3>4 DEF InRow, ContextHolds
  <2>4. mode # "interp" => mode = "jit"
    BY <2>2 DEF CInv
  <2> QED
    BY <2>2, <2>3, <2>4 DEF CInv
<1>4. ASSUME SlotsHold(m', p), InRow(m'), UNCHANGED <<prog, steps, cases, backend, mode, phase>> PROVE CInv'
  <2>1. InRow(m)'
    BY <1>4, ZenonT(30) DEF InRow, ContextHolds, NoneToFetch, AllFetched, FetchedSoFar, IsFetched, FetchSteps, Unfetched
  <2> QED
    BY <1>4, <2>1 DEF CInv
<1>5. CASE RunColumn \/ RunBoolean \/ RunContext \/ RunCompare \/ RunCall \/ RunHash \/ RunAggregate
  <2>1. phase = "run" /\ mode = "jit" /\ m.pc \in DOMAIN steps /\ UNCHANGED <<prog, steps, cases, backend, mode, phase>>
    BY <1>5 DEF RunColumn, RunBoolean, RunContext, RunCompare, RunCall, RunHash, RunAggregate, Run, RunsOpcode
  <2>2. SlotsHold(m, p) /\ InRow(m) /\ ColumnSteps(steps, p)
    BY <2>1 DEF CInv
  <2>3. CASE Here.opc = "FETCHSOME"
    <3>1. m' = ByBackend(SljitFetchSome(m, Here), MirFetchSome(m, Here), FallbackFetchSome(m, Here))
      BY <1>5, <2>3, RunFetch
    <3>2. SlotsHold(m', p) /\ InRow(m')
      BY <1>1, <2>1, <2>2, <2>3, <3>1, FetchedRow DEF IInv
    <3> QED
      BY <1>4, <2>1, <3>2
  <2>4. CASE Here.opc # "FETCHSOME"
    <3>1. Keeps(m, m')
      BY <1>1, <1>5, <2>4, RunKeeps
    <3>2. SlotsHold(m', p) /\ InRow(m')
      BY <1>1, <2>1, <2>2, <2>4, <3>1, KeptRow DEF Here
    <3> QED
      BY <1>4, <2>1, <3>2
  <2> QED
    BY <2>3, <2>4
<1>6. CASE RunCaseSearch
  <2>1. phase = "run" /\ mode = "jit" /\ UNCHANGED <<prog, steps, cases, backend, mode, phase>>
    BY <1>6 DEF RunCaseSearch
  <2>2. SlotsHold(m, p) /\ InRow(m) /\ ColumnSteps(steps, p)
    BY <2>1 DEF CInv
  <2>3. PICK info \in Injected(cases) : info.start + 1 = m.pc
    BY <1>6 DEF RunCaseSearch, SearchesHere
  <2>4. m.pc \in DOMAIN steps /\ steps[m.pc].opc # "FETCHSOME"
    BY <2>3 DEF Injected, CInv, SearchesStart
  <2>5. Keeps(m, m')
    BY <1>1, <1>6, SearchStepKeeps
  <2>6. SlotsHold(m', p) /\ InRow(m')
    BY <1>1, <2>2, <2>4, <2>5, KeptRow
  <2> QED
    BY <1>4, <2>1, <2>6
<1>7. CASE RunInterpreter
  BY <1>7 DEF RunInterpreter, CInv
<1>8. CASE Finish \/ RefStep \/ RowDone
  <2>1. /\ UNCHANGED <<prog, steps, cases, backend, mode, m>>
        /\ phase \in {"run", "ref"} /\ phase' \in {"ref", "ready", "stopped"}
    BY <1>8 DEF Finish, RefStep, RowDone
  <2> QED
    BY <2>1 DEF CInv
<1>9. CASE UNCHANGED vars
  <2>1. UNCHANGED <<prog, steps, cases, backend, mode, phase, m>>
    BY <1>9 DEF vars
  <2>2. CASE phase = "run" /\ mode # "interp"
    BY <1>4, <2>1, <2>2 DEF CInv
  <2>3. CASE ~(phase = "run" /\ mode # "interp")
    BY <2>1, <2>3 DEF CInv
  <2> QED
    BY <2>2, <2>3
<1> QED
  BY <1>2, <1>3, <1>5, <1>6, <1>7, <1>8, <1>9 DEF Next, Execute

\* A column step, wherever it is in the program, reads a column of this
\* row's tuple when every FETCHSOME has had its effect.
Current(mm, i) ==
  LET op == steps[i]
      s == SlotOf(mm, op)
  IN  /\ s = mm.ec.slot[op.slot] /\ s \in DOMAIN mm.tts /\ op.att <= mm.tts[s].nvalid
      /\ mm.tts[s].val[op.att] = mm.tts[s].tuple[op.att].v /\ mm.tts[s].nul[op.att] = mm.tts[s].tuple[op.att].n
LEMMA ColumnIsCurrent ==
  ASSUME IInv, CInv, phase = "run", mode = "jit", m.pc \in DOMAIN steps, steps[m.pc].opc # "FETCHSOME",
         NEW i \in DOMAIN steps, Columnar(steps[i])
  PROVE  Current(m, i) /\ (backend = "sljit" /\ SlotCached(steps, i) => m.cptr[steps[i].slot] = SlotOf(m, steps[i]))
<1> DEFINE op == steps[i]
           p == Programs[prog]
           s == SlotOf(m, op)
<1>1. op.slot \in SlotKinds /\ op.att \in Nat /\ i \in Nat
  BY DEF Columnar, IInv, StepsHold, HasFields
<1>2. SlotsHold(m, p) /\ InRow(m) /\ ColumnSteps(steps, p) /\ StepsHold(steps)
  BY DEF CInv, IInv
<1>3. AllFetched(m)
  BY <1>2, Behind DEF ColumnSteps, InRow, FetchedSoFar, AllFetched
<1>4. s \in DOMAIN m.tts /\ s = m.ec.slot[op.slot]
  BY <1>1, <1>2 DEF InRow, ContextHolds, SlotOf
<1>5. m.tts[s].nvalid \in Nat /\ HoldsTuple(m.tts[s]) /\ op.att \in DOMAIN m.tts[s].val
  BY <1>1, <1>2, <1>4, ZenonT(30) DEF SlotsHold, HoldsTuple, ColumnSteps, ColumnsAreFetched, Columnar
<1>6. op.att <= m.tts[s].nvalid
  <2>1. CASE \E j \in DOMAIN steps : Fetches(steps[j], op.slot) /\ op.att <= steps[j].last
    <3>1. PICK j \in DOMAIN steps : Fetches(steps[j], op.slot) /\ op.att <= steps[j].last
      BY <2>1
    <3>2. steps[j].last <= m.tts[s].nvalid /\ steps[j].last \in Nat
      BY <1>2, <1>3, <1>4, <3>1 DEF AllFetched, FetchSteps, Fetches, IsFetched, StepsHold, HasFields
    <3> QED
      BY <1>1, <1>5, <3>1, <3>2
  <2>2. CASE ~\E j \in DOMAIN steps : Fetches(steps[j], op.slot) /\ op.att <= steps[j].last
    <3>1. Unfetched(i)
      BY <1>1, <1>2, <2>2 DEF ColumnSteps, ColumnsAreFetched, Columnar, Unfetched
    <3> QED
      BY <1>1, <1>2, <1>4, <3>1 DEF InRow, NoneToFetch
  <2> QED
    BY <2>1, <2>2
<1>7. backend = "sljit" /\ SlotCached(steps, i) => m.cptr[op.slot] = s
  <2> SUFFICES ASSUME backend = "sljit", SlotCached(steps, i) PROVE m.cptr[op.slot] = s
    OBVIOUS
  <2>1. PICK j \in 1..(i - 1) : steps[j].opc = "FETCHSOME" /\ steps[j].slot = op.slot
    BY DEF SlotCached
  <2>2. j \in DOMAIN steps
    <3>1. DOMAIN steps = 1..Len(p.steps) /\ WellFormed(p)
      BY ProgramsAreWellFormed DEF CInv
    <3>2. Len(p.steps) \in Nat
      BY <3>1 DEF WellFormed
    <3> QED
      BY <1>1, <2>1, <3>1, <3>2
  <2> QED
    BY <1>3, <1>4, <2>1, <2>2 DEF AllFetched, FetchSteps, IsFetched
<1>8. m.tts[s].val[op.att] = m.tts[s].tuple[op.att].v /\ m.tts[s].nul[op.att] = m.tts[s].tuple[op.att].n
  BY <1>5, <1>6 DEF HoldsTuple
<1> QED
  BY <1>4, <1>6, <1>7, <1>8 DEF Current

\* ColumnsAreCurrent, a run's property: for every program PostgreSQL can
\* build, each code generator and every sequence of rows, a column that
\* compiled code reads is a column of this row's tuple.  The arrays that
\* sljit keeps in registers from a FETCHSOME on belong to the slot the
\* context has, whatever jumps, batches and searches come between
\* (sljit_compile_expr, slots_cached).
THEOREM ColumnsCurrent == Spec => []ColumnsAreCurrent
<1>1. IInv /\ CInv => ColumnsAreCurrent
  <2> SUFFICES ASSUME IInv, CInv, RunsOpcode({"VAR", "ASSIGN_VAR"})
               PROVE  LET op == steps[m.pc]
                          s == IF backend = "sljit" /\ SlotCached(steps, m.pc) THEN m.cptr[op.slot] ELSE SlotOf(m, op)
                      IN  /\ s = SlotOf(m, op)
                          /\ op.att <= m.tts[s].nvalid
                          /\ m.tts[s].val[op.att] = m.tts[s].tuple[op.att].v
                          /\ m.tts[s].nul[op.att] = m.tts[s].tuple[op.att].n
    BY ZenonT(30) DEF ColumnsAreCurrent
  <2>1. phase = "run" /\ mode = "jit" /\ m.pc \in DOMAIN steps /\ Columnar(steps[m.pc]) /\ steps[m.pc].opc # "FETCHSOME"
    BY DEF RunsOpcode, Columnar
  <2>2. /\ Current(m, m.pc)
        /\ backend = "sljit" /\ SlotCached(steps, m.pc) => m.cptr[steps[m.pc].slot] = SlotOf(m, steps[m.pc])
    BY <2>1, ColumnIsCurrent
  <2> QED
    BY <2>2, ZenonT(30) DEF Current
<1> QED
  BY <1>1, ColumnsInit, ColumnsNext, StepsSurvive, PTL DEF Spec

(***************************************************************************)
(* Instructions in place of functions.                                     *)
(***************************************************************************)
Floats == NegInf..NaN

\* Comparisons of floats order NaN as PostgreSQL does, equal to itself and
\* above everything, whatever the processor's flags say of an unordered
\* pair: every path that looks at a flag has excluded NaN before
\* (emit_inline_funcexpr, the FLOAT8_EQ to FLOAT8_GE cases).
THEOREM FloatComparisons ==
  ASSUME NEW what \in Comparisons, NEW a \in Floats, NEW b \in Floats
  PROVE  SljitFloatCmp(what, a, b) = PgFloatCmp(what, a, b)
<1>1. FloatMax \in Int
  BY DatumWidths
<1> USE DEF Floats, NegInf, PosInf, NaN, PgFloatCmp, PgCmp, Unordered, IsNaN, FlagEqual, FlagLess, FlagLessEqual, SljitFloatCmp
<1>2. CASE what = "eq"
  BY <1>1, <1>2 DEF SljitFloatEq
<1>3. CASE what = "ne"
  BY <1>1, <1>3 DEF SljitFloatNe
<1>4. CASE what = "lt"
  BY <1>1, <1>4 DEF SljitFloatLt
<1>5. CASE what = "le"
  <2>1. CASE IsNaN(a) \/ IsNaN(b)
    BY <1>1, <1>5, <2>1 DEF SljitFloatLe, Truth
  <2>2. CASE ~(IsNaN(a) \/ IsNaN(b))
    BY <1>1, <1>5, <2>2 DEF SljitFloatLe, Truth
  <2> QED
    BY <2>1, <2>2
<1>6. CASE what = "gt"
  BY <1>1, <1>6 DEF SljitFloatGt
<1>7. CASE what = "ge"
  BY <1>1, <1>7 DEF SljitFloatGe
<1> QED
  BY <1>2, <1>3, <1>4, <1>5, <1>6, <1>7 DEF Comparisons

\* An infinite result is an ERROR exactly when no operand was infinite,
\* although the three comparisons with infinity say nothing certain of NaN.
LEMMA FloatOverflows ==
  ASSUME NEW a \in Floats, NEW b \in Floats, NEW r \in Floats, IsNaN(a) \/ IsNaN(b) => IsNaN(r), IsNaN(r) => Unordered(a, b) \/ IsInf(a)
  PROVE  SljitFloatOverflow(r, a, b) <=> IsInf(r) /\ ~IsInf(a) /\ ~IsInf(b)
<1>1. FloatMax \in Nat \ {0} /\ UnorderedEqual \in BOOLEAN
  BY DatumWidths
<1>2. \A x \in Floats : ~IsNaN(x) => (AbsOf(x) = PosInf <=> IsInf(x)) /\ AbsOf(x) # NaN /\ PosInf # NaN
  BY <1>1 DEF Floats, NegInf, PosInf, NaN, AbsOf, IsInf, IsNaN
<1>3. \A x \in Floats : FlagEqual(IF IsNaN(x) THEN NaN ELSE AbsOf(x), PosInf) <=> IF IsNaN(x) THEN UnorderedEqual ELSE IsInf(x)
  BY <1>1, <1>2 DEF FlagEqual, Unordered, IsNaN
<1>4. \A x \in Floats : IsInf(x) => ~IsNaN(x)
  BY <1>1 DEF IsInf, IsNaN, NegInf, PosInf, NaN, Floats
<1> QED
  BY <1>1, <1>3, <1>4 DEF SljitFloatOverflow, Unordered

\* float8 + and -: the ERROR for overflow is PostgreSQL's
\* (emit_inline_funcexpr, FLOAT8_ADD and FLOAT8_SUB).
THEOREM FloatSums ==
  ASSUME NEW a \in Floats, NEW b \in Floats
  PROVE  SljitFloatAdd(a, b) = PgFloatAdd(a, b) /\ SljitFloatSub(a, b) = PgFloatAdd(a, FloatNeg(b))
<1>1. FloatMax \in Nat \ {0}
  BY DatumWidths
<1>2. \A x, y \in Floats : LET r == FloatAdd(x, y) IN
        /\ r \in Floats /\ (IsNaN(x) \/ IsNaN(y) => IsNaN(r)) /\ (IsNaN(r) => Unordered(x, y) \/ IsInf(x))
  BY <1>1 DEF Floats, FloatAdd, ToFloat, IsNaN, IsInf, IsFinite, Unordered, NegInf, PosInf, NaN
<1>3. FloatNeg(b) \in Floats /\ (IsNaN(FloatNeg(b)) <=> IsNaN(b)) /\ (IsInf(FloatNeg(b)) <=> IsInf(b))
  BY <1>1 DEF Floats, FloatNeg, IsNaN, IsInf, NegInf, PosInf, NaN
<1>4. SljitFloatAdd(a, b) = PgFloatAdd(a, b)
  <2> DEFINE r == FloatAdd(a, b)
  <2>1. SljitFloatOverflow(r, a, b) <=> IsInf(r) /\ ~IsInf(a) /\ ~IsInf(b)
    BY <1>2, FloatOverflows
  <2> QED
    BY <2>1 DEF SljitFloatAdd, PgFloatAdd, FloatChecked
<1>5. SljitFloatSub(a, b) = PgFloatAdd(a, FloatNeg(b))
  <2> DEFINE r == FloatAdd(a, FloatNeg(b))
  <2>1. r \in Floats /\ (IsNaN(a) \/ IsNaN(b) => IsNaN(r)) /\ (IsNaN(r) => Unordered(a, b) \/ IsInf(a))
    BY <1>2, <1>3 DEF Unordered
  <2>2. SljitFloatOverflow(r, a, b) <=> IsInf(r) /\ ~IsInf(a) /\ ~IsInf(b)
    BY <2>1, FloatOverflows
  <2> QED
    BY <1>3, <2>2 DEF SljitFloatSub, PgFloatAdd, FloatChecked
<1> QED
  BY <1>4, <1>5

\* The three-way comparisons of int8 and of booleans are differences of two
\* flags (emit_inline_funcexpr; the MIR cases of the same operations).
THEOREM ThreeWay ==
  ASSUME NEW a \in Int, NEW b \in Int
  PROVE  /\ SljitInt8Cmp3(a, b) = PgCmp3(a, b) /\ MirInt8Cmp3(a, b) = PgCmp3(a, b)
         /\ a \in {0, 1} /\ b \in {0, 1} => SljitBoolCmp3(a, b) = PgCmp3(a, b) /\ MirBoolCmp3(a, b) = PgCmp3(a, b)
<1> DEFINE sign == IF a < b THEN -1 ELSE IF a > b THEN 1 ELSE 0
<1>1. Flag(a > b) - Flag(a < b) = sign /\ BoolDatum(a > b) - BoolDatum(a < b) = sign
  BY DEF Flag, BoolDatum
<1>2. a \in {0, 1} /\ b \in {0, 1} =>
        Flag(a # 0) - Flag(b # 0) = sign /\ BoolDatum(a # 0) - BoolDatum(b # 0) = sign
  BY DEF Flag, BoolDatum
<1> HIDE DEF sign
<1>3. PgCmp3(a, b) = Ok(sign)
  BY DEF PgCmp3, sign
<1> QED
  BY <1>1, <1>2, <1>3 DEF SljitInt8Cmp3, MirInt8Cmp3, SljitBoolCmp3, MirBoolCmp3

\* Equality of texts in compiled code is texteq of the two values, whatever
\* their storage: the same pointer, short texts compared in place, any other
\* form by the helper (emit_inline_text_cmp, mir_emit_inline_text_cmp).
THEOREM TextEquality ==
  ASSUME NEW S, NEW a, NEW b, TextOf[a].body \in Seq(S), TextOf[b].body \in Seq(S)
  PROVE  (SljitTextEq(a, b) <=> PgTextEq(a, b)) /\ (MirTextEq(a, b) <=> PgTextEq(a, b))
<1> DEFINE x == TextOf[a].body
           y == TextOf[b].body
<1>1. Len(x) = Len(y) => ((\A i \in DOMAIN x : x[i] = y[i]) <=> x = y)
  OBVIOUS
<1>2. Len(x) = 0 /\ Len(y) = 0 => x = y
  OBVIOUS
<1> QED
  BY <1>1, <1>2 DEF SljitTextEq, MirTextEq, PgTextEq

\* IS DISTINCT FROM: compiled code and pg_jitter_fallback_step store what the
\* interpreter stores when the equality function returns a boolean.
THEOREM DistinctAgrees ==
  ASSUME NEW mm, NEW op, op.negated \in BOOLEAN,
         mm.nul[op.args[1]] \in BOOLEAN, mm.nul[op.args[2]] \in BOOLEAN, Apply(op.fn, Args(mm, op)).v \in {0, 1}
  PROVE  SljitDistinct(mm, op) = InterpDistinct(mm, op) /\ FallbackDistinct(mm, op) = InterpDistinct(mm, op)
<1> DEFINE a == mm.nul[op.args[1]]
           b == mm.nul[op.args[2]]
           eq == Apply(op.fn, Args(mm, op)).v
           answer == IF a # b THEN 1 ELSE IF a THEN 0 ELSE NotDatum(eq)
           same == IF a \/ b THEN a = b ELSE IsTrue(eq)
<1>1. (IF op.negated THEN NotDatum(answer) ELSE answer) = BoolDatum(same = op.negated)
  BY DEF NotDatum, BoolDatum, IsTrue
<1>2. SljitDistinct(mm, op) = Skip(SetRes(mm, op.res, IF op.negated THEN NotDatum(answer) ELSE answer, FALSE))
  BY DEF SljitDistinct
<1>3. InterpDistinct(mm, op) = Skip(SetRes(mm, op.res, BoolDatum(same = op.negated), FALSE))
  BY DEF InterpDistinct
<1>4. (CASE a # b -> BoolDatum(~op.negated) [] a /\ b -> BoolDatum(op.negated) [] OTHER -> DistinctOf(op.negated, eq))
        = BoolDatum(same = op.negated)
  BY DEF NotDatum, BoolDatum, IsTrue, DistinctOf
<1>5. FallbackDistinct(mm, op) = Skip(SetRes(mm, op.res, BoolDatum(same = op.negated), FALSE))
  BY <1>4 DEF FallbackDistinct
<1> QED
  BY <1>1, <1>2, <1>3, <1>5

(***************************************************************************)
(* Conditions and projections: compiled code against the interpreter, a    *)
(* whole row and row after row.                                            *)
(*                                                                         *)
(* Two machines are alike when no step, and nobody who reads a result, can *)
(* tell them apart: they may differ in the values of NULL cells and in     *)
(* flags that are set before they are read.  The interpreter takes machines*)
(* that are alike to machines that are alike; a step of compiled code      *)
(* leaves a machine like the one the interpreter's step leaves, provided   *)
(* that cells hold what the program's certificate says, and a batch of     *)
(* columns one like that of all steps of the batch.  So the machine of the *)
(* code is always like one that the interpreter passes on its way, and at  *)
(* the end like the one where the interpreter ends.                        *)
(***************************************************************************)
Sized(p, mm) == HasShape(mm) /\ DOMAIN mm.val = DOMAIN p.init /\ DOMAIN mm.any = p.anys \cup {"desc"}
\* Two machines that have the same memory, but for flags and what is NULL.
Core(p, a, q) ==
  /\ Sized(p, a) /\ Sized(p, q)
  /\ \A c \in DOMAIN p.init : SameResult(Res(a, c), Res(q, c))
  /\ a.ec = q.ec /\ a.tts = q.tts /\ a.grp = q.grp /\ a.mcx = q.mcx
FlagsAt(flags, pc) == IF pc \in DOMAIN flags THEN flags[pc] ELSE {}
Alike(p, flags, a, q) ==
  Core(p, a, q) /\ a.pc = q.pc /\ \A f \in FlagsAt(flags, a.pc) : a.any[f] = q.any[f]

\* x is mm with one cell written.
Puts(mm, x, c, v, n) ==
  /\ HasShape(x) /\ DOMAIN x.val = DOMAIN mm.val /\ DOMAIN x.nul = DOMAIN mm.nul
  /\ x.pc = mm.pc /\ x.any = mm.any /\ x.ec = mm.ec /\ x.tts = mm.tts /\ x.grp = mm.grp /\ x.mcx = mm.mcx
  /\ x.cptr = mm.cptr
  /\ \A d \in DOMAIN mm.val : /\ x.val[d] = IF d = c THEN v ELSE mm.val[d]
                             /\ x.nul[d] = IF d = c THEN n ELSE mm.nul[d]
LEMMA StoresPut ==
  ASSUME NEW mm, HasShape(mm), NEW c, NEW v, NEW n
  PROVE  /\ Puts(mm, SetRes(mm, c, v, n), c, v, n) /\ Puts(mm, SetNul(mm, c, n), c, mm.val[c], n)
         /\ Puts(mm, SetVal(mm, c, v), c, v, mm.nul[c])
<1>1. Puts(mm, SetRes(mm, c, v, n), c, v, n)
  BY DEF Puts, SetRes, HasShape, Fields
<1>2. Puts(mm, SetNul(mm, c, n), c, mm.val[c], n)
  BY DEF Puts, SetNul, HasShape, Fields
<1>3. Puts(mm, SetVal(mm, c, v), c, v, mm.nul[c])
  BY DEF Puts, SetVal, HasShape, Fields
<1> QED
  BY <1>1, <1>2, <1>3

LEMMA CoreOn ==
  ASSUME NEW p, NEW a, NEW q, Core(p, a, q)
  PROVE  /\ Core(p, Skip(a), Skip(q)) /\ Core(p, Raise(a), Raise(q))
         /\ \A t : Core(p, Goto(a, t), Goto(q, t))
         /\ \A f, x, y : Core(p, [a EXCEPT !.any[f] = x], [q EXCEPT !.any[f] = y])
<1>1. Core(p, Skip(a), Skip(q)) /\ Core(p, Raise(a), Raise(q)) /\ \A t : Core(p, Goto(a, t), Goto(q, t))
  BY DEF Core, Sized, HasShape, Fields, Skip, Raise, Goto, Res
<1>2. ASSUME NEW f, NEW b, NEW d PROVE Core(p, [a EXCEPT !.any[f] = b], [q EXCEPT !.any[f] = d])
  <2> DEFINE x == [a EXCEPT !.any[f] = b]
             y == [q EXCEPT !.any[f] = d]
  <2>1. /\ DOMAIN x = Fields /\ DOMAIN y = Fields /\ DOMAIN x.any = DOMAIN a.any /\ DOMAIN y.any = DOMAIN q.any
        /\ \A g \in Fields : g # "any" => x[g] = a[g] /\ y[g] = q[g]
    BY DEF Core, Sized, HasShape, Fields
  <2>2. /\ x.val = a.val /\ x.nul = a.nul /\ x.ec = a.ec /\ x.tts = a.tts /\ x.grp = a.grp /\ x.mcx = a.mcx
        /\ y.val = q.val /\ y.nul = q.nul /\ y.ec = q.ec /\ y.tts = q.tts /\ y.grp = q.grp /\ y.mcx = q.mcx
    BY <2>1 DEF Fields
  <2> HIDE DEF x, y
  <2>3. Core(p, x, y)
    BY <2>1, <2>2 DEF Core, Sized, HasShape, Res
  <2> QED
    BY <2>3 DEF x, y
<1> QED
  BY <1>1, <1>2
LEMMA CorePuts ==
  ASSUME NEW p, NEW a, NEW q, Core(p, a, q), NEW x, NEW y, NEW c, NEW v, NEW n, NEW w, NEW k,
         Puts(a, x, c, v, n), Puts(q, y, c, w, k), n = k, ~n => v = w
  PROVE  Core(p, x, y)
<1>1. Sized(p, x) /\ Sized(p, y) /\ x.ec = y.ec /\ x.tts = y.tts /\ x.grp = y.grp /\ x.mcx = y.mcx
  BY DEF Puts, Core, Sized
<1>2. ASSUME NEW d \in DOMAIN p.init PROVE SameResult(Res(x, d), Res(y, d))
  <2>1. /\ x.val[d] = IF d = c THEN v ELSE a.val[d]
        /\ x.nul[d] = IF d = c THEN n ELSE a.nul[d]
        /\ y.val[d] = IF d = c THEN w ELSE q.val[d]
        /\ y.nul[d] = IF d = c THEN k ELSE q.nul[d]
    BY DEF Puts, Core, Sized
  <2>2. SameResult(Res(a, d), Res(q, d))
    BY DEF Core
  <2> QED
    BY <2>1, <2>2 DEF SameResult, Res
<1> QED
  BY <1>1, <1>2 DEF Core

\* What the elementary changes leave of the program counter and the flags.
LEMMA Rest ==
  ASSUME NEW mm, HasShape(mm)
  PROVE  /\ Skip(mm).pc = mm.pc + 1 /\ Skip(mm).any = mm.any /\ Raise(mm).pc = Raised /\ Raise(mm).any = mm.any
         /\ \A t : Goto(mm, t).pc = t /\ Goto(mm, t).any = mm.any
         /\ \A f, x : [mm EXCEPT !.any[f] = x].pc = mm.pc /\ [mm EXCEPT !.any[f] = x].any = [mm.any EXCEPT ![f] = x]
BY DEF Skip, Raise, Goto, HasShape, Fields

\* Both machines go the same way, and change no flag.
Together(p, i, a, q, x, y) ==
  /\ Core(p, x, y) /\ x.pc = y.pc /\ x.any = a.any /\ y.any = q.any
  /\ x.pc \in {Returned, Raised} \cup ({i + 1} \cup JumpsOf(p.steps[i]))
LEMMA TogetherOn ==
  ASSUME NEW p, NEW i, NEW a, NEW q, Core(p, a, q), a.pc = i, q.pc = i
  PROVE  /\ Together(p, i, a, q, Skip(a), Skip(q)) /\ Together(p, i, a, q, Raise(a), Raise(q))
         /\ Together(p, i, a, q, Goto(a, Returned), Goto(q, Returned))
         /\ \A t \in JumpsOf(p.steps[i]) : Together(p, i, a, q, Goto(a, t), Goto(q, t))
<1>1. HasShape(a) /\ HasShape(q)
  BY DEF Core, Sized
<1> QED
  BY <1>1, CoreOn, Rest DEF Together
\* Stores of results that look the same.
LEMMA StoreTogether ==
  ASSUME NEW p, NEW i, NEW a, NEW q, Core(p, a, q), a.pc = i, q.pc = i, NEW x, NEW y,
         NEW c, NEW v, NEW n, NEW w, NEW k, Puts(a, x, c, v, n), Puts(q, y, c, w, k), n = k, ~n => v = w
  PROVE  /\ Together(p, i, a, q, Skip(x), Skip(y))
         /\ \A t \in JumpsOf(p.steps[i]) : Together(p, i, a, q, Goto(x, t), Goto(y, t))
<1>1. Core(p, x, y)
  BY CorePuts
<1>2. x.pc = i /\ y.pc = i /\ x.any = a.any /\ y.any = q.any /\ HasShape(x) /\ HasShape(y)
  BY DEF Puts
<1>3. Core(p, Skip(x), Skip(y)) /\ \A t : Core(p, Goto(x, t), Goto(y, t))
  BY <1>1, CoreOn
<1>4. /\ Skip(x).pc = i + 1 /\ Skip(x).any = a.any /\ Skip(y).pc = i + 1 /\ Skip(y).any = q.any
      /\ \A t : Goto(x, t).pc = t /\ Goto(y, t).pc = t /\ Goto(x, t).any = a.any /\ Goto(y, t).any = q.any
  BY <1>2, Rest
<1> QED
  BY <1>3, <1>4 DEF Together

LEMMA ResTogether ==
  ASSUME NEW p, NEW i, NEW a, NEW q, Core(p, a, q), a.pc = i, q.pc = i,
         NEW c, NEW v, NEW n, NEW w, NEW k, n = k, ~n => v = w
  PROVE  /\ Together(p, i, a, q, Skip(SetRes(a, c, v, n)), Skip(SetRes(q, c, w, k)))
         /\ \A t \in JumpsOf(p.steps[i]) : Together(p, i, a, q, Goto(SetRes(a, c, v, n), t), Goto(SetRes(q, c, w, k), t))
<1>1. Puts(a, SetRes(a, c, v, n), c, v, n) /\ Puts(q, SetRes(q, c, w, k), c, w, k)
  BY StoresPut DEF Core, Sized
<1> QED
  BY <1>1, StoreTogether

\* A step of a condition that sets no flag does the same to both.
Fits(p, i) ==
  LET op == p.steps[i]
  IN  /\ op.opc \in ConditionOpcodes /\ HasFields(op)
      /\ op.opc \notin {"DONE", "FETCHSOME"} => op.res \in DOMAIN p.init
      /\ op.opc = "ASSIGN_TMP" => "state" \in DOMAIN p.init
      /\ op.opc = "FUNCEXPR" => op.strict /\ \A k \in DOMAIN op.args : op.args[k] \in DOMAIN p.init
LEMMA FetchTogether ==
  ASSUME NEW p, NEW i, NEW a, NEW q, Core(p, a, q), a.pc = i, q.pc = i, NEW op
  PROVE  Together(p, i, a, q, InterpFetchSome(a, op), InterpFetchSome(q, op))
<1> DEFINE s == SlotOf(a, op)
           x == GetSomeAttrs(a, s, op.last)
           y == GetSomeAttrs(q, s, op.last)
           new(tts) == [tts EXCEPT ![s].nvalid = op.last,
                                   ![s].val = [c \in DOMAIN @ |-> IF c <= op.last THEN tts[s].tuple[c].v ELSE @[c]],
                                   ![s].nul = [c \in DOMAIN @ |-> IF c <= op.last THEN tts[s].tuple[c].n ELSE @[c]]]
<1>1. HasShape(a) /\ HasShape(q) /\ SlotOf(q, op) = s
  BY DEF Core, Sized, SlotOf
<1>2. ASSUME NEW mm, HasShape(mm)
      PROVE  LET z == GetSomeAttrs(mm, s, op.last)
             IN  /\ HasShape(z) /\ z.pc = mm.pc /\ z.any = mm.any /\ z.val = mm.val /\ z.nul = mm.nul
                 /\ z.ec = mm.ec /\ z.grp = mm.grp /\ z.mcx = mm.mcx
                 /\ z.tts = IF mm.tts[s].nvalid >= op.last THEN mm.tts ELSE new(mm.tts)
  BY <1>2 DEF GetSomeAttrs, HasShape, Fields
<1>3. x.tts = y.tts
  <2>1. x.tts = IF a.tts[s].nvalid >= op.last THEN a.tts ELSE new(a.tts)
    BY <1>1, <1>2
  <2>2. y.tts = IF q.tts[s].nvalid >= op.last THEN q.tts ELSE new(q.tts)
    BY <1>1, <1>2
  <2>3. a.tts = q.tts
    BY DEF Core
  <2> HIDE DEF new, x, y, s
  <2> QED
    BY <2>1, <2>2, <2>3
<1>4. /\ HasShape(x) /\ x.pc = i /\ x.any = a.any /\ x.val = a.val /\ x.nul = a.nul /\ x.ec = a.ec
      /\ x.grp = a.grp /\ x.mcx = a.mcx
      /\ HasShape(y) /\ y.pc = i /\ y.any = q.any /\ y.val = q.val /\ y.nul = q.nul /\ y.ec = q.ec
      /\ y.grp = q.grp /\ y.mcx = q.mcx
  BY <1>1, <1>2
<1> HIDE DEF x, y
<1>5. Core(p, x, y)
  BY <1>3, <1>4 DEF Core, Sized, Res
<1>6. /\ Core(p, Skip(x), Skip(y)) /\ Skip(x).pc = i + 1 /\ Skip(y).pc = i + 1 /\ Skip(x).any = a.any
      /\ Skip(y).any = q.any
  BY <1>4, <1>5, CoreOn, Rest
<1>7. InterpFetchSome(a, op) = Skip(x) /\ InterpFetchSome(q, op) = Skip(y)
  BY <1>1 DEF InterpFetchSome, x, y
<1> QED
  BY <1>6, <1>7 DEF Together
\* What the interpreter does at each step of a condition.
LEMMA PlainSteps ==
  ASSUME NEW mm, HasShape(mm), NEW op
  PROVE  /\ op.opc = "DONE" => Interpret(mm, op) = Goto(mm, Returned)
         /\ op.opc = "FETCHSOME" => Interpret(mm, op) = InterpFetchSome(mm, op)
         /\ op.opc \in {"VAR", "ASSIGN_VAR"} => Interpret(mm, op) = InterpVar(mm, op)
         /\ op.opc = "ASSIGN_TMP" => Interpret(mm, op) = InterpAssignTmp(mm, op)
         /\ op.opc = "CONST" => Interpret(mm, op) = Skip(SetRes(mm, op.res, op.v, op.n))
         /\ op.opc = "FUNCEXPR" /\ op.strict => Interpret(mm, op) = InterpFuncExprStrict(mm, op)
         /\ op.opc \in Booleans => Interpret(mm, op) = InterpBoolean(mm, op)
         /\ op.opc = "BOOL_NOT" => Interpret(mm, op) = Skip(SetVal(mm, op.res, NotDatum(mm.val[op.res])))
         /\ op.opc = "QUAL" => Interpret(mm, op) = InterpQual(mm, op)
         /\ op.opc = "JUMP" => Interpret(mm, op) = Goto(mm, op.jump)
         /\ op.opc = "JUMP_IF_NULL" => Interpret(mm, op) = InterpJumpIfNull(mm, op)
         /\ op.opc = "JUMP_IF_NOT_NULL" => Interpret(mm, op) = InterpJumpIfNotNull(mm, op)
         /\ op.opc = "JUMP_IF_NOT_TRUE" => Interpret(mm, op) = InterpJumpIfNotTrue(mm, op)
         /\ op.opc = "NULLTEST" => Interpret(mm, op) = InterpNullTest(mm, op)
         /\ op.opc = "BOOLTEST" => Interpret(mm, op) = InterpBoolTest(mm, op)
<1>1. op.opc \in {"DONE", "FETCHSOME", "VAR", "ASSIGN_VAR", "ASSIGN_TMP", "CONST"} => Interpret(mm, op) = InterpColumn(mm, op)
  <2> SUFFICES ASSUME op.opc \in {"DONE", "FETCHSOME", "VAR", "ASSIGN_VAR", "ASSIGN_TMP", "CONST"}
               PROVE  Interpret(mm, op) = InterpColumn(mm, op)
    OBVIOUS
  <2>1. /\ op.opc \in Columns /\ op.opc \notin Booleans /\ op.opc \notin Contexts /\ op.opc \notin Compares
        /\ op.opc \notin Calls /\ op.opc \notin Hashes
    BY DEF Columns, Booleans, Contexts, Compares, Calls, Hashes
  <2> QED
    BY <2>1 DEF Interpret
<1>2. op.opc \in Booleans => Interpret(mm, op) = InterpBoolean(mm, op)
  <2> SUFFICES ASSUME op.opc \in Booleans PROVE Interpret(mm, op) = InterpBoolean(mm, op)
    OBVIOUS
  <2>1. /\ op.opc \notin Columns /\ op.opc \notin Contexts /\ op.opc \notin Compares
        /\ op.opc \notin Calls /\ op.opc \notin Hashes
    BY DEF Columns, Booleans, Contexts, Compares, Calls, Hashes
  <2> QED
    BY <2>1 DEF Interpret
<1>3. op.opc = "FUNCEXPR" /\ op.strict => Interpret(mm, op) = InterpFuncExprStrict(mm, op)
  <2> SUFFICES ASSUME op.opc = "FUNCEXPR", op.strict PROVE Interpret(mm, op) = InterpFuncExprStrict(mm, op)
    OBVIOUS
  <2>1. /\ op.opc \notin Columns /\ op.opc \notin Booleans /\ op.opc \notin Contexts /\ op.opc \notin Compares
        /\ op.opc \in Calls /\ op.opc \notin Hashes
    BY DEF Columns, Booleans, Contexts, Compares, Calls, Hashes
  <2>2. InterpCall(mm, op) = InterpFuncExprStrict(mm, op)
    BY DEF InterpCall
  <2> QED
    BY <2>1, <2>2 DEF Interpret
<1>4. op.opc \in {"BOOL_NOT", "QUAL", "JUMP", "JUMP_IF_NULL", "JUMP_IF_NOT_NULL", "JUMP_IF_NOT_TRUE", "NULLTEST", "BOOLTEST"}
      => op.opc \in Booleans
  BY DEF Booleans
<1>5. /\ op.opc = "DONE" => InterpColumn(mm, op) = Goto(mm, Returned)
      /\ op.opc = "FETCHSOME" => InterpColumn(mm, op) = InterpFetchSome(mm, op)
      /\ op.opc \in {"VAR", "ASSIGN_VAR"} => InterpColumn(mm, op) = InterpVar(mm, op)
      /\ op.opc = "ASSIGN_TMP" => InterpColumn(mm, op) = InterpAssignTmp(mm, op)
      /\ op.opc = "CONST" => InterpColumn(mm, op) = Skip(SetRes(mm, op.res, op.v, op.n))
  BY DEF InterpColumn, InterpDone, InterpConst
<1>6. op.opc = "BOOL_NOT" => InterpBoolean(mm, op) = Skip(SetVal(mm, op.res, NotDatum(mm.val[op.res])))
  BY DEF InterpBoolean, InterpBoolNot
<1>7. /\ op.opc = "QUAL" => InterpBoolean(mm, op) = InterpQual(mm, op)
      /\ op.opc = "JUMP" => InterpBoolean(mm, op) = Goto(mm, op.jump)
      /\ op.opc = "JUMP_IF_NULL" => InterpBoolean(mm, op) = InterpJumpIfNull(mm, op)
      /\ op.opc = "JUMP_IF_NOT_NULL" => InterpBoolean(mm, op) = InterpJumpIfNotNull(mm, op)
      /\ op.opc = "JUMP_IF_NOT_TRUE" => InterpBoolean(mm, op) = InterpJumpIfNotTrue(mm, op)
      /\ op.opc = "NULLTEST" => InterpBoolean(mm, op) = InterpNullTest(mm, op)
      /\ op.opc = "BOOLTEST" => InterpBoolean(mm, op) = InterpBoolTest(mm, op)
  BY DEF InterpBoolean, InterpJump
<1> QED
  BY <1>1, <1>2, <1>3, <1>4, <1>5, <1>6, <1>7

LEMMA PlainTogether ==
  ASSUME NEW p, NEW i, NEW a, NEW q, Core(p, a, q), a.pc = i, q.pc = i, Fits(p, i),
         p.steps[i].opc \notin {"BOOL_AND", "BOOL_OR"}
  PROVE  Together(p, i, a, q, Interpret(a, p.steps[i]), Interpret(q, p.steps[i]))
<1>1. PICK op : op = p.steps[i]
  OBVIOUS
<1>2. /\ HasShape(a) /\ HasShape(q) /\ a.ec = q.ec /\ a.tts = q.tts
      /\ \A c \in DOMAIN p.init : a.nul[c] = q.nul[c] /\ (~a.nul[c] => a.val[c] = q.val[c])
  BY DEF Core, Sized, SameResult, Res
<1>3. /\ op.opc \in ConditionOpcodes
      /\ op.opc \notin {"DONE", "FETCHSOME"} => op.res \in DOMAIN p.init
      /\ op.opc = "ASSIGN_TMP" => "state" \in DOMAIN p.init
      /\ op.opc = "FUNCEXPR" => op.strict /\ \A k \in DOMAIN op.args : op.args[k] \in DOMAIN p.init
      /\ op.opc \in {"JUMP", "JUMP_IF_NULL", "JUMP_IF_NOT_NULL", "JUMP_IF_NOT_TRUE", "QUAL"} => op.jump \in JumpsOf(op)
  BY <1>1 DEF Fits, HasFields, JumpOpcodes, JumpsOf
<1>4. op.opc \notin {"DONE", "FETCHSOME"} => a.nul[op.res] = q.nul[op.res] /\ (~a.nul[op.res] => a.val[op.res] = q.val[op.res])
  BY <1>2, <1>3
<1> DEFINE x == Interpret(a, op)
           y == Interpret(q, op)
<1> SUFFICES Together(p, i, a, q, x, y)
  BY <1>1
<1>5. CASE op.opc = "DONE"
  <2>1. x = Goto(a, Returned) /\ y = Goto(q, Returned)
    BY <1>2, <1>5, PlainSteps
  <2> QED
    BY <2>1, TogetherOn
<1>6. CASE op.opc = "FETCHSOME"
  <2>1. x = InterpFetchSome(a, op) /\ y = InterpFetchSome(q, op)
    BY <1>2, <1>6, PlainSteps
  <2> QED
    BY <2>1, FetchTogether
<1>7. CASE op.opc \in {"VAR", "ASSIGN_VAR"}
  <2> DEFINE s == a.tts[SlotOf(a, op)]
  <2>1. x = InterpVar(a, op) /\ y = InterpVar(q, op)
    BY <1>2, <1>7, PlainSteps
  <2>2. /\ x = Skip(SetRes(a, op.res, s.val[op.att], s.nul[op.att]))
        /\ y = Skip(SetRes(q, op.res, s.val[op.att], s.nul[op.att]))
    BY <1>2, <2>1, ZenonT(30) DEF InterpVar, SlotOf
  <2> HIDE DEF s, x, y
  <2> QED
    BY <2>2, ResTogether
<1>8. CASE op.opc = "ASSIGN_TMP"
  <2> DEFINE value(mm) == IF op.readonly /\ ~mm.nul["state"] THEN MakeReadOnly(mm.val["state"]) ELSE mm.val["state"]
  <2>1. x = InterpAssignTmp(a, op) /\ y = InterpAssignTmp(q, op)
    BY <1>2, <1>8, PlainSteps
  <2>2. x = Skip(SetRes(a, op.res, value(a), a.nul["state"])) /\ y = Skip(SetRes(q, op.res, value(q), q.nul["state"]))
    BY <2>1 DEF InterpAssignTmp, Res
  <2>3. a.nul["state"] = q.nul["state"] /\ (~a.nul["state"] => value(a) = value(q))
    BY <1>2, <1>3, <1>8
  <2> HIDE DEF value, x, y
  <2> QED
    BY <2>2, <2>3, ResTogether
<1>9. CASE op.opc = "CONST"
  <2>1. x = Skip(SetRes(a, op.res, op.v, op.n)) /\ y = Skip(SetRes(q, op.res, op.v, op.n))
    BY <1>2, <1>9, PlainSteps
  <2> HIDE DEF x, y
  <2> QED
    BY <2>1, ResTogether
<1>10. CASE op.opc = "FUNCEXPR"
  <2>1. x = InterpFuncExprStrict(a, op) /\ y = InterpFuncExprStrict(q, op)
    BY <1>2, <1>3, <1>10, PlainSteps
  <2>2. \A k \in DOMAIN op.args : a.nul[op.args[k]] = q.nul[op.args[k]] /\ (~a.nul[op.args[k]] => a.val[op.args[k]] = q.val[op.args[k]])
    BY <1>2, <1>3, <1>10
  <2>3. AnyArgNull(a, op) <=> AnyArgNull(q, op)
    BY <2>2 DEF AnyArgNull
  <2>4. CASE AnyArgNull(a, op)
    <3>1. x = Skip(SetNul(a, op.res, TRUE)) /\ y = Skip(SetNul(q, op.res, TRUE))
      BY <2>1, <2>3, <2>4 DEF InterpFuncExprStrict
    <3>2. /\ Puts(a, SetNul(a, op.res, TRUE), op.res, a.val[op.res], TRUE)
          /\ Puts(q, SetNul(q, op.res, TRUE), op.res, q.val[op.res], TRUE)
      BY <1>2, StoresPut
    <3> HIDE DEF x, y
    <3> QED
      BY <3>1, <3>2, StoreTogether
  <2>5. CASE ~AnyArgNull(a, op)
    <3>1. Args(a, op) = Args(q, op)
      BY <2>2, <2>5 DEF Args, AnyArgNull, Res
    <3> DEFINE r == Apply(op.fn, Args(a, op))
    <3>2. x = StoreCall(a, op.res, r) /\ y = StoreCall(q, op.res, r)
      BY <2>1, <2>3, <2>5, <3>1 DEF InterpFuncExprStrict, InterpFuncExpr
    <3> HIDE DEF r, x, y
    <3>3. CASE IsErr(r)
      <4>1. x = Raise(a) /\ y = Raise(q)
        BY <3>2, <3>3 DEF StoreCall
      <4> QED
        BY <4>1, TogetherOn
    <3>4. CASE ~IsErr(r)
      <4>1. x = Skip(SetRes(a, op.res, r.v, r.n)) /\ y = Skip(SetRes(q, op.res, r.v, r.n))
        BY <3>2, <3>4 DEF StoreCall
      <4> QED
        BY <4>1, ResTogether
    <3> QED
      BY <3>3, <3>4
  <2> QED
    BY <2>4, <2>5
<1>11. CASE op.opc = "BOOL_NOT"
  <2>1. x = Skip(SetVal(a, op.res, NotDatum(a.val[op.res]))) /\ y = Skip(SetVal(q, op.res, NotDatum(q.val[op.res])))
    BY <1>2, <1>11, PlainSteps
  <2>2. ~a.nul[op.res] => NotDatum(a.val[op.res]) = NotDatum(q.val[op.res])
    BY <1>4, <1>11
  <2>3. /\ Puts(a, SetVal(a, op.res, NotDatum(a.val[op.res])), op.res, NotDatum(a.val[op.res]), a.nul[op.res])
        /\ Puts(q, SetVal(q, op.res, NotDatum(q.val[op.res])), op.res, NotDatum(q.val[op.res]), q.nul[op.res])
    BY <1>2, StoresPut
  <2> HIDE DEF x, y
  <2> QED
    BY <1>4, <1>11, <2>1, <2>2, <2>3, StoreTogether
<1>12. CASE op.opc = "QUAL"
  <2>1. x = InterpQual(a, op) /\ y = InterpQual(q, op)
    BY <1>2, <1>12, PlainSteps
  <2>2. CASE a.nul[op.res] \/ ~IsTrue(a.val[op.res])
    <3>1. x = Goto(SetRes(a, op.res, 0, FALSE), op.jump) /\ y = Goto(SetRes(q, op.res, 0, FALSE), op.jump)
      BY <1>4, <1>12, <2>1, <2>2 DEF InterpQual
    <3> HIDE DEF x, y
    <3> QED
      BY <1>1, <1>3, <1>12, <3>1, ResTogether
  <2>3. CASE ~(a.nul[op.res] \/ ~IsTrue(a.val[op.res]))
    <3>1. x = Skip(a) /\ y = Skip(q)
      BY <1>4, <1>12, <2>1, <2>3 DEF InterpQual
    <3> QED
      BY <3>1, TogetherOn
  <2> QED
    BY <2>2, <2>3
<1>13. CASE op.opc \in {"JUMP", "JUMP_IF_NULL", "JUMP_IF_NOT_NULL", "JUMP_IF_NOT_TRUE"}
  <2>1. /\ op.opc = "JUMP" => x = Goto(a, op.jump) /\ y = Goto(q, op.jump)
        /\ op.opc = "JUMP_IF_NULL" => x = InterpJumpIfNull(a, op) /\ y = InterpJumpIfNull(q, op)
        /\ op.opc = "JUMP_IF_NOT_NULL" => x = InterpJumpIfNotNull(a, op) /\ y = InterpJumpIfNotNull(q, op)
        /\ op.opc = "JUMP_IF_NOT_TRUE" => x = InterpJumpIfNotTrue(a, op) /\ y = InterpJumpIfNotTrue(q, op)
    BY <1>2, PlainSteps
  <2> HIDE DEF x, y
  <2>2. (x = Skip(a) /\ y = Skip(q)) \/ (x = Goto(a, op.jump) /\ y = Goto(q, op.jump))
    BY <1>4, <1>13, <2>1 DEF InterpJumpIfNull, InterpJumpIfNotNull, InterpJumpIfNotTrue, JumpIf
  <2>3. Together(p, i, a, q, Skip(a), Skip(q)) /\ Together(p, i, a, q, Goto(a, op.jump), Goto(q, op.jump))
    BY <1>1, <1>3, <1>13, TogetherOn
  <2> QED
    BY <2>2, <2>3
<1>14. CASE op.opc = "NULLTEST"
  <2>1. x = InterpNullTest(a, op) /\ y = InterpNullTest(q, op)
    BY <1>2, <1>14, PlainSteps
  <2> DEFINE v == BoolDatum(a.nul[op.res] = op.isnull)
  <2>2. x = Skip(SetRes(a, op.res, v, FALSE)) /\ y = Skip(SetRes(q, op.res, v, FALSE))
    BY <1>4, <1>14, <2>1 DEF InterpNullTest
  <2> HIDE DEF x, y, v
  <2> QED
    BY <2>2, ResTogether
<1>15. CASE op.opc = "BOOLTEST"
  <2>1. x = InterpBoolTest(a, op) /\ y = InterpBoolTest(q, op)
    BY <1>2, <1>15, PlainSteps
  <2> DEFINE v == BoolDatum((~a.nul[op.res] /\ IsTrue(a.val[op.res]) = op.truth) # op.negated)
  <2>2. (~a.nul[op.res] /\ IsTrue(a.val[op.res]) = op.truth) <=> (~q.nul[op.res] /\ IsTrue(q.val[op.res]) = op.truth)
    BY <1>4, <1>15
  <2>3. v = BoolDatum((~q.nul[op.res] /\ IsTrue(q.val[op.res]) = op.truth) # op.negated)
    BY <2>2
  <2>4. x = Skip(SetRes(a, op.res, v, FALSE)) /\ y = Skip(SetRes(q, op.res, v, FALSE))
    BY <2>1, <2>3 DEF InterpBoolTest
  <2> HIDE DEF x, y, v
  <2> QED
    BY <2>4, ResTogether
<1> QED
  BY <1>1, <1>3, <1>5, <1>6, <1>7, <1>8, <1>9, <1>10, <1>11, <1>12, <1>13, <1>14, <1>15 DEF ConditionOpcodes, Booleans

\* AND and OR before the last operand: a value that decides jumps, a NULL
\* sets the flag; the first operand sets it in any case.
FlagGoes(mm, op, z, x) ==
  /\ HasShape(z) /\ z.pc = mm.pc /\ z.val = mm.val /\ z.nul = mm.nul /\ z.ec = mm.ec
  /\ z.tts = mm.tts /\ z.grp = mm.grp /\ z.mcx = mm.mcx /\ DOMAIN z.any = DOMAIN mm.any
  /\ z.any[op.any] = IF mm.nul[op.res] THEN TRUE ELSE IF op.place = "first" THEN FALSE ELSE mm.any[op.any]
  /\ \A f \in DOMAIN mm.any : f # op.any => z.any[f] = mm.any[f]
  /\ x = IF ~mm.nul[op.res] /\ IsTrue(mm.val[op.res]) = (op.opc = "BOOL_OR") THEN Goto(z, op.jump) ELSE Skip(z)
LEMMA FlagStep ==
  ASSUME NEW mm, HasShape(mm), NEW op, op.any \in DOMAIN mm.any, op.opc \in {"BOOL_AND", "BOOL_OR"}, op.place # "last"
  PROVE  \E z : FlagGoes(mm, op, z, Interpret(mm, op))
<1>1. PICK d : d = (op.opc = "BOOL_OR")
  OBVIOUS
<1>2. PICK m1 : m1 = IF op.place = "first" THEN [mm EXCEPT !.any[op.any] = FALSE] ELSE mm
  OBVIOUS
<1>3. PICK z : z = IF mm.nul[op.res] THEN [m1 EXCEPT !.any[op.any] = TRUE] ELSE m1
  OBVIOUS
<1>4. /\ HasShape(m1) /\ m1.pc = mm.pc /\ m1.val = mm.val /\ m1.nul = mm.nul /\ m1.ec = mm.ec
      /\ m1.tts = mm.tts /\ m1.grp = mm.grp /\ m1.mcx = mm.mcx
      /\ m1.any = IF op.place = "first" THEN [mm.any EXCEPT ![op.any] = FALSE] ELSE mm.any
  BY <1>2 DEF HasShape, Fields
<1>5. /\ DOMAIN m1.any = DOMAIN mm.any /\ m1.any[op.any] = IF op.place = "first" THEN FALSE ELSE mm.any[op.any]
      /\ \A f \in DOMAIN mm.any : f # op.any => m1.any[f] = mm.any[f]
  BY <1>4
<1>6. /\ HasShape(z) /\ z.pc = m1.pc /\ z.val = m1.val /\ z.nul = m1.nul /\ z.ec = m1.ec
      /\ z.tts = m1.tts /\ z.grp = m1.grp /\ z.mcx = m1.mcx
      /\ z.any = IF mm.nul[op.res] THEN [m1.any EXCEPT ![op.any] = TRUE] ELSE m1.any
  BY <1>3, <1>4 DEF HasShape, Fields
<1>7. Interpret(mm, op) = IF ~mm.nul[op.res] /\ IsTrue(mm.val[op.res]) = d THEN Goto(z, op.jump) ELSE Skip(z)
  <2>1. op.opc \in Booleans
    BY DEF Booleans
  <2>2. Interpret(mm, op) = InterpBoolean(mm, op)
    BY <2>1, PlainSteps
  <2>3. InterpBoolean(mm, op) = InterpBoolStep(mm, op, d)
    BY <1>1 DEF InterpBoolean, InterpBoolAnd, InterpBoolOr
  <2>4. InterpBoolStep(mm, op, d) = IF mm.nul[op.res] THEN Skip([m1 EXCEPT !.any[op.any] = TRUE])
                                   ELSE JumpIf(m1, IsTrue(mm.val[op.res]) = d, op.jump)
    BY <1>2 DEF InterpBoolStep
  <2> QED
    BY <1>3, <2>2, <2>3, <2>4 DEF JumpIf
<1>8. /\ DOMAIN z.any = DOMAIN mm.any /\ \A f \in DOMAIN mm.any : f # op.any => z.any[f] = mm.any[f]
      /\ z.any[op.any] = IF mm.nul[op.res] THEN TRUE ELSE IF op.place = "first" THEN FALSE ELSE mm.any[op.any]
  <2>1. CASE mm.nul[op.res]
    <3>1. z.any = [m1.any EXCEPT ![op.any] = TRUE]
      BY <1>6, <2>1
    <3>2. DOMAIN z.any = DOMAIN m1.any /\ z.any[op.any] = TRUE /\ \A f \in DOMAIN m1.any : f # op.any => z.any[f] = m1.any[f]
      BY <1>5, <3>1
    <3> QED
      BY <1>5, <2>1, <3>2
  <2>2. CASE ~mm.nul[op.res]
    <3>1. z.any = m1.any
      BY <1>6, <2>2
    <3> QED
      BY <1>5, <2>2, <3>1
  <2> QED
    BY <2>1, <2>2
<1>9. FlagGoes(mm, op, z, Interpret(mm, op))
  BY <1>1, <1>4, <1>6, <1>7, <1>8 DEF FlagGoes
<1> QED
  BY <1>9
\* Steps of a program: where a step may go.
LEMMA WhereTo ==
  ASSUME NEW p, WellFormed(p), NEW i \in DOMAIN p.steps
  PROVE  /\ Len(p.steps) \in Nat /\ DOMAIN p.steps = 1..Len(p.steps) /\ HasFields(p.steps[i]) /\ i \in Nat
         /\ p.steps[i].opc # "DONE" => i + 1 \in Follows(p.steps, i)
         /\ \A t \in JumpsOf(p.steps[i]) : t \in Follows(p.steps, i) /\ t > i
         /\ p.steps[i].opc \in {"BOOL_AND", "BOOL_OR"} => p.steps[i].any \in p.anys
         /\ Returned \notin DOMAIN p.steps /\ Raised \notin DOMAIN p.steps
<1>1. /\ Len(p.steps) \in Nat /\ DOMAIN p.steps = 1..Len(p.steps) /\ HasFields(p.steps[i])
      /\ p.steps[Len(p.steps)].opc = "DONE" /\ \A t \in JumpsOf(p.steps[i]) : t \in (i + 1)..Len(p.steps)
      /\ p.steps[i].opc \in {"BOOL_AND", "BOOL_OR"} => p.steps[i].any \in p.anys
  BY DEF WellFormed
<1>2. i \in Nat /\ Returned \notin DOMAIN p.steps /\ Raised \notin DOMAIN p.steps
  BY <1>1 DEF Returned, Raised
<1>3. \A t \in JumpsOf(p.steps[i]) : t \in DOMAIN p.steps /\ t > i
  BY <1>1, <1>2
<1>4. p.steps[i].opc # "DONE" => i + 1 \in DOMAIN p.steps
  <2>1. p.steps[i].opc # "DONE" => i # Len(p.steps)
    BY <1>1
  <2> QED
    BY <1>1, <2>1
<1> QED
  BY <1>1, <1>2, <1>3, <1>4 DEF Follows

\* Machines that are alike at a step stay alike over it.
StepsOn(p, i, x) == x.pc \in {Returned, Raised} \cup Follows(p.steps, i)
LEMMA FlagTogether ==
  ASSUME NEW p, NEW flags, NEW i, NEW a, NEW q, Alike(p, flags, a, q), a.pc = i, i \in DOMAIN p.steps,
         WellFormed(p), FlagsFlow(p, flags), Fits(p, i), p.steps[i].opc \in {"BOOL_AND", "BOOL_OR"},
         p.steps[i].place # "last"
  PROVE  /\ Alike(p, flags, Interpret(a, p.steps[i]), Interpret(q, p.steps[i]))
         /\ StepsOn(p, i, Interpret(a, p.steps[i]))
<1>1. PICK op : op = p.steps[i]
  OBVIOUS
<1>2. Core(p, a, q) /\ q.pc = i /\ \A f \in FlagsAt(flags, i) : a.any[f] = q.any[f]
  BY DEF Alike
<1>3. /\ HasShape(a) /\ HasShape(q) /\ DOMAIN a.any = DOMAIN q.any /\ op.any \in DOMAIN a.any
      /\ p.anys \subseteq DOMAIN a.any
      /\ a.nul[op.res] = q.nul[op.res] /\ (~a.nul[op.res] => a.val[op.res] = q.val[op.res])
  <2>1. op.any \in p.anys /\ op.res \in DOMAIN p.init
    BY <1>1, WhereTo DEF Fits
  <2> QED
    BY <1>2, <2>1 DEF Core, Sized, SameResult, Res
<1>4. PICK x : FlagGoes(a, op, x, Interpret(a, op))
  BY <1>1, <1>3, FlagStep
<1>5. PICK y : FlagGoes(q, op, y, Interpret(q, op))
  BY <1>1, <1>3, FlagStep
<1>6. Core(p, x, y)
  BY <1>2, <1>4, <1>5 DEF Core, Sized, FlagGoes, Res
<1>7. /\ op.place # "first" => op.any \in flags[i]
      /\ \A t \in Follows(p.steps, i) : \A f \in flags[t] : f \in flags[i] \/ (op.place = "first" /\ f = op.any)
      /\ DOMAIN flags = DOMAIN p.steps /\ \A t \in DOMAIN p.steps : flags[t] \subseteq p.anys
  BY <1>1 DEF FlagsFlow
<1>8. \A t \in Follows(p.steps, i) : \A f \in flags[t] : x.any[f] = y.any[f]
  <2> SUFFICES ASSUME NEW t \in Follows(p.steps, i), NEW f \in flags[t] PROVE x.any[f] = y.any[f]
    OBVIOUS
  <2>1. (f \in flags[i] => a.any[f] = q.any[f]) /\ f \in DOMAIN a.any /\ f \in DOMAIN q.any
    BY <1>2, <1>3, <1>7 DEF FlagsAt, Follows
  <2>2. CASE f = op.any
    BY <1>3, <1>4, <1>5, <1>7, <2>1, <2>2 DEF FlagGoes
  <2>3. CASE f # op.any
    BY <1>4, <1>5, <1>7, <2>1, <2>3 DEF FlagGoes
  <2> QED
    BY <2>2, <2>3
<1>9. op.jump \in Follows(p.steps, i) /\ i + 1 \in Follows(p.steps, i)
  <2>1. HasFields(op)
    BY <1>1 DEF Fits
  <2>2. op.jump \in JumpsOf(op)
    BY <1>1, <2>1 DEF HasFields, JumpOpcodes, JumpsOf
  <2> QED
    BY <1>1, <2>2, WhereTo
<1>10. HasShape(x) /\ HasShape(y) /\ x.pc = i /\ y.pc = i
  BY <1>2, <1>4, <1>5 DEF FlagGoes
<1>11. /\ Core(p, Skip(x), Skip(y)) /\ Skip(x).pc = i + 1 /\ Skip(y).pc = i + 1 /\ Skip(x).any = x.any
       /\ Skip(y).any = y.any
       /\ Core(p, Goto(x, op.jump), Goto(y, op.jump)) /\ Goto(x, op.jump).pc = op.jump /\ Goto(y, op.jump).pc = op.jump
       /\ Goto(x, op.jump).any = x.any /\ Goto(y, op.jump).any = y.any
  <2>1. Core(p, Skip(x), Skip(y)) /\ Core(p, Goto(x, op.jump), Goto(y, op.jump))
    BY <1>6, CoreOn
  <2>2. Skip(x).pc = i + 1 /\ Skip(x).any = x.any /\ Goto(x, op.jump).pc = op.jump /\ Goto(x, op.jump).any = x.any
    BY <1>10, Rest
  <2>3. Skip(y).pc = i + 1 /\ Skip(y).any = y.any /\ Goto(y, op.jump).pc = op.jump /\ Goto(y, op.jump).any = y.any
    BY <1>10, Rest
  <2> QED
    BY <2>1, <2>2, <2>3
<1>12. Alike(p, flags, Skip(x), Skip(y)) /\ Alike(p, flags, Goto(x, op.jump), Goto(y, op.jump))
  <2>1. FlagsAt(flags, i + 1) = flags[i + 1] /\ FlagsAt(flags, op.jump) = flags[op.jump]
    BY <1>7, <1>9 DEF FlagsAt, Follows
  <2> QED
    BY <1>8, <1>9, <1>11, <2>1 DEF Alike
<1>13. \/ Interpret(a, op) = Skip(x) /\ Interpret(q, op) = Skip(y)
       \/ Interpret(a, op) = Goto(x, op.jump) /\ Interpret(q, op) = Goto(y, op.jump)
  BY <1>3, <1>4, <1>5 DEF FlagGoes
<1>14. Alike(p, flags, Interpret(a, op), Interpret(q, op)) /\ StepsOn(p, i, Interpret(a, op))
  BY <1>9, <1>11, <1>12, <1>13 DEF StepsOn
<1> QED
  BY <1>1, <1>14
LEMMA LastTogether ==
  ASSUME NEW p, NEW i, NEW a, NEW q, Core(p, a, q), a.pc = i, q.pc = i, Fits(p, i),
         p.steps[i].opc \in {"BOOL_AND", "BOOL_OR"}, p.steps[i].place = "last",
         a.any[p.steps[i].any] = q.any[p.steps[i].any]
  PROVE  Together(p, i, a, q, Interpret(a, p.steps[i]), Interpret(q, p.steps[i]))
<1>1. PICK op : op = p.steps[i]
  OBVIOUS
<1>2. HasShape(a) /\ HasShape(q) /\ a.nul[op.res] = q.nul[op.res] /\ (~a.nul[op.res] => a.val[op.res] = q.val[op.res])
  BY <1>1 DEF Core, Sized, SameResult, Res, Fits
<1>3. op.opc \in Booleans
  BY <1>1 DEF Booleans
<1>4. /\ Interpret(a, op) = InterpBoolLast(a, op, op.opc = "BOOL_OR")
      /\ Interpret(q, op) = InterpBoolLast(q, op, op.opc = "BOOL_OR")
  <2>1. Interpret(a, op) = InterpBoolean(a, op) /\ Interpret(q, op) = InterpBoolean(q, op)
    BY <1>2, <1>3, PlainSteps
  <2> QED
    BY <1>1, <2>1 DEF InterpBoolean, InterpBoolAnd, InterpBoolOr
<1>5. \/ Interpret(a, op) = Skip(a) /\ Interpret(q, op) = Skip(q)
      \/ Interpret(a, op) = Skip(SetRes(a, op.res, 0, TRUE)) /\ Interpret(q, op) = Skip(SetRes(q, op.res, 0, TRUE))
  BY <1>1, <1>2, <1>4 DEF InterpBoolLast
<1>6. /\ Together(p, i, a, q, Skip(a), Skip(q))
      /\ Together(p, i, a, q, Skip(SetRes(a, op.res, 0, TRUE)), Skip(SetRes(q, op.res, 0, TRUE)))
  BY TogetherOn, ResTogether
<1> QED
  BY <1>1, <1>5, <1>6

LEMMA StayAlike ==
  ASSUME NEW p, NEW flags, NEW a, NEW q, Alike(p, flags, a, q), a.pc \in DOMAIN p.steps, WellFormed(p),
         FlagsFlow(p, flags), Fits(p, a.pc)
  PROVE  /\ Alike(p, flags, Interpret(a, p.steps[a.pc]), Interpret(q, p.steps[a.pc]))
         /\ StepsOn(p, a.pc, Interpret(a, p.steps[a.pc]))
<1>1. PICK i : i = a.pc
  OBVIOUS
<1>2. PICK op : op = p.steps[i]
  OBVIOUS
<1>3. Core(p, a, q) /\ q.pc = i /\ \A f \in FlagsAt(flags, i) : a.any[f] = q.any[f]
  BY <1>1 DEF Alike
<1>4. CASE op.opc \in {"BOOL_AND", "BOOL_OR"} /\ op.place # "last"
  BY <1>1, <1>2, <1>4, FlagTogether
<1>5. CASE op.opc \notin {"BOOL_AND", "BOOL_OR"} \/ op.place = "last"
  <2>1. Together(p, i, a, q, Interpret(a, op), Interpret(q, op))
    <3>1. CASE op.opc \in {"BOOL_AND", "BOOL_OR"}
      <4>1. op.any \in FlagsAt(flags, i)
        BY <1>1, <1>2, <1>5, <3>1 DEF FlagsFlow, FlagsAt
      <4> QED
        BY <1>1, <1>2, <1>3, <1>5, <3>1, <4>1, LastTogether
    <3>2. CASE op.opc \notin {"BOOL_AND", "BOOL_OR"}
      BY <1>1, <1>2, <1>3, <3>2, PlainTogether
    <3> QED
      BY <3>1, <3>2
  <2> DEFINE x == Interpret(a, op)
             y == Interpret(q, op)
  <2>2. op.opc = "DONE" => x.pc = Returned
    <3>1. op.opc = "DONE" => x = Goto(a, Returned)
      BY <1>3, PlainSteps DEF Core, Sized
    <3> QED
      BY <1>3, <3>1, Rest DEF Core, Sized
  <2>3. StepsOn(p, i, x)
    <3>1. x.pc \in {Returned, Raised} \cup ({i + 1} \cup JumpsOf(op))
      BY <1>2, <2>1 DEF Together
    <3>2. op.opc # "DONE" => i + 1 \in Follows(p.steps, i)
      BY <1>1, <1>2, WhereTo
    <3>3. \A t \in JumpsOf(op) : t \in Follows(p.steps, i)
      BY <1>1, <1>2, WhereTo
    <3> HIDE DEF x, y
    <3> QED
      BY <2>2, <3>1, <3>2, <3>3 DEF StepsOn
  <2>4. \A f \in FlagsAt(flags, x.pc) : f \in flags[i]
    <3>1. x.pc \in Follows(p.steps, i) \/ x.pc \notin DOMAIN p.steps
      BY <1>1, <2>3, WhereTo DEF StepsOn
    <3>2. /\ DOMAIN flags = DOMAIN p.steps
          /\ \A t \in Follows(p.steps, i) : \A f \in flags[t] : f \in flags[i]
      BY <1>1, <1>2, <1>5 DEF FlagsFlow, IsLast
    <3> HIDE DEF x, y
    <3> QED
      BY <3>1, <3>2 DEF FlagsAt
  <2> HIDE DEF x, y
  <2>5. \A f \in flags[i] : a.any[f] = q.any[f]
    BY <1>1, <1>3 DEF FlagsAt, FlagsFlow
  <2>6. Alike(p, flags, x, y)
    <3>1. Core(p, x, y) /\ x.pc = y.pc /\ x.any = a.any /\ y.any = q.any
      BY <2>1 DEF Together, x, y
    <3>2. \A f \in FlagsAt(flags, x.pc) : x.any[f] = y.any[f]
      BY <2>4, <2>5, <3>1
    <3> QED
      BY <3>1, <3>2 DEF Alike
  <2> QED
    BY <1>1, <1>2, <2>3, <2>6 DEF x, y
<1> QED
  BY <1>4, <1>5

LEMMA AlikeTransitive ==
  ASSUME NEW p, NEW flags, NEW a, NEW b, NEW q, Alike(p, flags, a, b), Alike(p, flags, b, q) PROVE Alike(p, flags, a, q)
<1>1. Core(p, a, q)
  BY DEF Alike, Core, SameResult, Res
<1>2. a.pc = b.pc /\ b.pc = q.pc /\ \A f \in FlagsAt(flags, a.pc) : a.any[f] = b.any[f] /\ b.any[f] = q.any[f]
  BY DEF Alike
<1> QED
  BY <1>1, <1>2 DEF Alike
LEMMA AlikeSelf ==
  ASSUME NEW p, NEW flags, NEW a, Sized(p, a) PROVE Alike(p, flags, a, a)
BY DEF Alike, Core, SameResult
\* A step that does the interpreter's step leaves a machine like its.
LEMMA SameStepAlike ==
  ASSUME NEW p, NEW flags, NEW i \in DOMAIN p.steps, NEW x, NEW y, WellFormed(p), FlagsFlow(p, flags),
         SameStep(x, y, p.steps[i]), HasShape(x), Sized(p, y), StepsOn(p, i, y)
  PROVE  Alike(p, flags, x, y)
<1>1. PICK op : op = p.steps[i]
  OBVIOUS
<1>2. /\ SameEffect(x, y) /\ DOMAIN x.val = DOMAIN y.val /\ DOMAIN x.any = DOMAIN y.any
      /\ IF IsLast(op) THEN \A f \in DOMAIN y.any : f # op.any => x.any[f] = y.any[f] ELSE x.any = y.any
  BY <1>1 DEF SameStep
<1>3. Sized(p, x)
  BY <1>2 DEF Sized
<1>4. Core(p, x, y) /\ x.pc = y.pc
  BY <1>2, <1>3 DEF SameEffect, Core, Sized, HasShape
<1>5. \A f \in FlagsAt(flags, y.pc) : f \in DOMAIN y.any /\ ~(IsLast(op) /\ f = op.any)
  <2>1. y.pc \in Follows(p.steps, i) \/ y.pc \notin DOMAIN p.steps
    BY WhereTo DEF StepsOn
  <2>2. /\ DOMAIN flags = DOMAIN p.steps
        /\ \A t \in Follows(p.steps, i) : \A f \in flags[t] : f \in p.anys /\ ~(IsLast(op) /\ f = op.any)
    BY <1>1 DEF FlagsFlow, Follows
  <2> QED
    BY <2>1, <2>2 DEF FlagsAt, Sized
<1>6. \A f \in FlagsAt(flags, x.pc) : x.any[f] = y.any[f]
  BY <1>2, <1>4, <1>5
<1> QED
  BY <1>4, <1>6 DEF Alike

(***************************************************************************)
(* The values of the cells.                                                *)
(***************************************************************************)
TypesAt(types, pc) == IF pc \in DOMAIN types THEN types[pc] ELSE IF pc = Returned THEN types[1] ELSE [c \in {} |-> {}]
CellsTyped(p, ty, q) ==
  /\ \A c \in DOMAIN p.init : q.nul[c] \in BOOLEAN
  /\ \A c \in DOMAIN ty : c \in DOMAIN p.init /\ (q.nul[c] \/ q.val[c] \in ty[c])
Tuples(p, q) == \A s \in DOMAIN q.tts : q.tts[s].tuple \in TuplesOf(p)
Typed(p, types, q) == CellsTyped(p, TypesAt(types, q.pc), q) /\ Tuples(p, q)
LEMMA TypedAlike ==
  ASSUME NEW p, NEW types, NEW a, NEW q, Core(p, a, q), a.pc = q.pc, Typed(p, types, q) PROVE Typed(p, types, a)
BY DEF Typed, CellsTyped, Tuples, Core, SameResult, Res

\* A program with its certificates.
Plain(p, be, types, flags) == WellFormed(p) /\ Certified(p, be, types, flags)
LEMMA PlainStep ==
  ASSUME NEW p, NEW be, NEW types, NEW flags, Plain(p, be, types, flags), NEW i \in DOMAIN p.steps
  PROVE  /\ WellFormed(p) /\ FlagsFlow(p, flags) /\ TypesFlow(p, types) /\ Fits(p, i) /\ StepIsPlain(p, be, i, types[i])
         /\ DOMAIN types[i] \subseteq DOMAIN p.init
<1>1. /\ WellFormed(p) /\ FlagsFlow(p, flags) /\ TypesFlow(p, types) /\ StepIsPlain(p, be, i, types[i])
      /\ DOMAIN types[i] \subseteq DOMAIN p.init
  BY DEF Plain, Certified, TypesFlow
<1>2. HasFields(p.steps[i])
  BY <1>1, WhereTo
<1> QED
  BY <1>1, <1>2 DEF StepIsPlain, Fits, CallsAgree

\* A step that leaves the cells, or stores in one what the certificate says.
LEMMA TypedStore ==
  ASSUME NEW p, NEW be, NEW types, NEW flags, Plain(p, be, types, flags), NEW i \in DOMAIN p.steps, NEW q,
         q.pc = i, Sized(p, q), Typed(p, types, q), NEW x, NEW c, NEW v, NEW n, Puts(q, x, c, v, n), n \in BOOLEAN,
         c \in DOMAIN p.init, p.steps[i].opc \in Storing => c = p.steps[i].res,
         n \/ (p.steps[i].opc \in Storing /\ \A V : Stores(p, i, types[i], V) => v \in V), NEW y, y.val = x.val,
         y.nul = x.nul, y.tts = x.tts, y.pc = Raised \/ y.pc \in Follows(p.steps, i)
  PROVE  Typed(p, types, y)
<1>1. PICK op : op = p.steps[i]
  OBVIOUS
<1>2. /\ DOMAIN types = DOMAIN p.steps /\ \A t \in DOMAIN p.steps : DOMAIN types[t] \subseteq DOMAIN p.init
      /\ \A t \in Follows(p.steps, i) : \A d \in DOMAIN types[t] :
           IF op.opc \in Storing /\ d = op.res THEN Stores(p, i, types[i], types[t][d])
           ELSE d \in DOMAIN types[i] /\ types[i][d] \subseteq types[t][d]
  BY <1>1, PlainStep DEF TypesFlow
<1>3. /\ y.tts = q.tts
      /\ \A d \in DOMAIN p.init : /\ y.val[d] = IF d = c THEN v ELSE q.val[d]
                                /\ y.nul[d] = IF d = c THEN n ELSE q.nul[d]
  BY DEF Puts, Sized
<1>4. /\ \A d \in DOMAIN p.init : q.nul[d] \in BOOLEAN
      /\ \A d \in DOMAIN types[i] : d \in DOMAIN p.init /\ (q.nul[d] \/ q.val[d] \in types[i][d])
  BY <1>2 DEF Typed, CellsTyped, TypesAt
<1>5. Tuples(p, y)
  BY <1>3 DEF Typed, Tuples
<1>6. \A d \in DOMAIN p.init : y.nul[d] \in BOOLEAN
  BY <1>3, <1>4
<1>7. ASSUME y.pc \in Follows(p.steps, i), NEW d \in DOMAIN types[y.pc]
      PROVE  d \in DOMAIN p.init /\ (y.nul[d] \/ y.val[d] \in types[y.pc][d])
  <2>1. d \in DOMAIN p.init
    BY <1>2, <1>7 DEF Follows
  <2>2. CASE d = c
    <3>1. CASE n
      BY <1>3, <2>1, <2>2, <3>1
    <3>2. CASE ~n
      <4>1. op.opc \in Storing /\ d = op.res
        BY <1>1, <2>2, <3>2
      <4>2. Stores(p, i, types[i], types[y.pc][d])
        BY <1>2, <1>7, <4>1
      <4>3. v \in types[y.pc][d]
        BY <3>2, <4>2
      <4> QED
        BY <1>3, <2>1, <2>2, <4>3
    <3> QED
      BY <3>1, <3>2
  <2>3. CASE d # c
    <3>1. d \in DOMAIN types[i] /\ types[i][d] \subseteq types[y.pc][d]
      BY <1>1, <1>2, <1>7, <2>3
    <3> QED
      BY <1>3, <1>4, <2>1, <2>3, <3>1
  <2> QED
    BY <2>2, <2>3
<1>8. CellsTyped(p, TypesAt(types, y.pc), y)
  <2>1. CASE y.pc = Raised
    <3>1. TypesAt(types, y.pc) = [d \in {} |-> {}]
      BY <1>2, <2>1, PlainStep, WhereTo DEF TypesAt, Returned, Raised
    <3> QED
      BY <1>6, <3>1 DEF CellsTyped
  <2>2. CASE y.pc \in Follows(p.steps, i)
    <3>1. TypesAt(types, y.pc) = types[y.pc]
      BY <1>2, <2>2 DEF TypesAt, Follows
    <3> QED
      BY <1>6, <1>7, <2>2, <3>1 DEF CellsTyped
  <2> QED
    BY <2>1, <2>2
<1> QED
  BY <1>5, <1>8 DEF Typed

\* Every step of the interpreter leaves what the certificate says.
LEMMA TypedSame ==
  ASSUME NEW p, NEW be, NEW types, NEW flags, Plain(p, be, types, flags), NEW i \in DOMAIN p.steps, NEW q,
         q.pc = i, Sized(p, q), Typed(p, types, q), p.steps[i].opc \notin {"DONE"}, p.steps[i].opc \notin Storing,
         NEW y, y.val = q.val, y.nul = q.nul, Tuples(p, y), y.pc \in Follows(p.steps, i)
  PROVE  Typed(p, types, y)
<1>1. PICK op : op = p.steps[i]
  OBVIOUS
<1>2. /\ DOMAIN types = DOMAIN p.steps
      /\ \A d \in DOMAIN types[y.pc] : d \in DOMAIN types[i] /\ types[i][d] \subseteq types[y.pc][d]
  BY <1>1, PlainStep DEF TypesFlow
<1>3. /\ \A d \in DOMAIN p.init : q.nul[d] \in BOOLEAN
      /\ \A d \in DOMAIN types[i] : d \in DOMAIN p.init /\ (q.nul[d] \/ q.val[d] \in types[i][d])
  BY <1>2 DEF Typed, CellsTyped, TypesAt
<1>4. TypesAt(types, y.pc) = types[y.pc]
  BY <1>2 DEF TypesAt, Follows
<1> QED
  BY <1>2, <1>3, <1>4 DEF Typed, CellsTyped
LEMMA TypedRaise ==
  ASSUME NEW p, NEW be, NEW types, NEW flags, Plain(p, be, types, flags), NEW q, q.pc \in DOMAIN p.steps,
         Sized(p, q), Typed(p, types, q), NEW y, y.val = q.val, y.nul = q.nul, Tuples(p, y), y.pc = Raised
  PROVE  Typed(p, types, y)
<1>1. DOMAIN types = DOMAIN p.steps
  BY PlainStep DEF TypesFlow
<1>2. TypesAt(types, y.pc) = [d \in {} |-> {}]
  BY <1>1, PlainStep, WhereTo DEF TypesAt, Returned, Raised
<1> QED
  BY <1>2 DEF Typed, CellsTyped
LEMMA TypedDone ==
  ASSUME NEW p, NEW be, NEW types, NEW flags, Plain(p, be, types, flags), NEW i \in DOMAIN p.steps, NEW q,
         q.pc = i, Sized(p, q), Typed(p, types, q), p.steps[i].opc = "DONE", NEW y, y.val = q.val, y.nul = q.nul,
         y.tts = q.tts, y.pc = Returned
  PROVE  Typed(p, types, y)
<1>1. i = Len(p.steps) /\ DOMAIN types = DOMAIN p.steps /\ Returned \notin DOMAIN p.steps
  BY PlainStep, WhereTo DEF StepIsPlain, TypesFlow
<1>2. \A c \in DOMAIN types[1] : c \in DOMAIN types[i] /\ types[i][c] \subseteq types[1][c]
  BY <1>1 DEF Plain, Certified, TypesStart
<1>3. TypesAt(types, y.pc) = types[1] /\ TypesAt(types, q.pc) = types[i]
  BY <1>1 DEF TypesAt
<1> QED
  BY <1>2, <1>3 DEF Typed, CellsTyped, Tuples
\* What the slots a step reads must hold.
Reads(q, op) ==
  Columnar(op) => LET s == q.tts[SlotOf(q, op)]
                  IN  SlotOf(q, op) \in DOMAIN q.tts /\ s.val[op.att] = s.tuple[op.att].v /\ s.nul[op.att] = s.tuple[op.att].n
\* The parts of the elementary changes.
LEMMA Moved ==
  ASSUME NEW mm, HasShape(mm)
  PROVE  /\ Skip(mm).val = mm.val /\ Skip(mm).nul = mm.nul /\ Skip(mm).tts = mm.tts /\ Skip(mm).pc = mm.pc + 1
         /\ Raise(mm).val = mm.val /\ Raise(mm).nul = mm.nul /\ Raise(mm).tts = mm.tts /\ Raise(mm).pc = Raised
         /\ \A t : Goto(mm, t).val = mm.val /\ Goto(mm, t).nul = mm.nul /\ Goto(mm, t).tts = mm.tts /\ Goto(mm, t).pc = t
BY DEF Skip, Raise, Goto, HasShape, Fields

\* The arguments of a call have the values x, which the certificate allows.
CallsWith(op, ty, q, x) == x \in ArgumentsOf(op, ty) /\ Args(q, op) = [k \in DOMAIN op.args |-> Ok(x[k])]
LEMMA TypedCall ==
  ASSUME NEW p, NEW be, NEW types, NEW flags, Plain(p, be, types, flags), NEW i \in DOMAIN p.steps, NEW q,
         q.pc = i, Sized(p, q), Typed(p, types, q), NEW op, op = p.steps[i], op.opc = "FUNCEXPR",
         ~AnyArgNull(q, op)
  PROVE  /\ CallsWith(op, types[i], q, ArgValues(q, op))
         /\ \A k \in DOMAIN op.args : q.nul[op.args[k]] = FALSE
<1> DEFINE x == [k \in DOMAIN op.args |-> q.val[op.args[k]]]
<1>1. \A k \in DOMAIN op.args : op.args[k] \in DOMAIN types[i] /\ op.args[k] \in DOMAIN p.init
  BY PlainStep DEF StepIsPlain, CallsAgree
<1>2. TypesAt(types, q.pc) = types[i]
  BY PlainStep DEF TypesAt, TypesFlow
<1>3. \A k \in DOMAIN op.args : q.nul[op.args[k]] = FALSE
  BY <1>1 DEF Typed, CellsTyped, AnyArgNull
<1>4. \A k \in DOMAIN op.args : x[k] \in types[i][op.args[k]]
  BY <1>1, <1>2, <1>3 DEF Typed, CellsTyped
<1>5. x \in ArgumentsOf(op, types[i])
  <2> DEFINE U == UNION {types[i][op.args[k]] : k \in DOMAIN op.args}
  <2>1. \A k \in DOMAIN op.args : types[i][op.args[k]] \subseteq U
    OBVIOUS
  <2> HIDE DEF U
  <2>2. \A k \in DOMAIN op.args : q.val[op.args[k]] \in U
    BY <1>4, <2>1
  <2>3. x \in [DOMAIN op.args -> U]
    BY <2>2
  <2> QED
    BY <1>4, <2>3 DEF ArgumentsOf, U
<1>6. Args(q, op) = [k \in DOMAIN op.args |-> Ok(x[k])]
  BY <1>3 DEF Args, Res, Ok
<1>7. ArgValues(q, op) = x
  BY DEF ArgValues
<1> HIDE DEF x
<1> QED
  BY <1>3, <1>5, <1>6, <1>7 DEF CallsWith

LEMMA TypedStep ==
  ASSUME NEW p, NEW be, NEW types, NEW flags, Plain(p, be, types, flags), NEW i \in DOMAIN p.steps, NEW q,
         q.pc = i, Sized(p, q), Typed(p, types, q), Reads(q, p.steps[i])
  PROVE  Typed(p, types, Interpret(q, p.steps[i]))
<1>1. PICK op : op = p.steps[i]
  OBVIOUS
<1>2. HasShape(q) /\ Fits(p, i) /\ StepIsPlain(p, be, i, types[i]) /\ HasFields(op) /\ op.opc \in ConditionOpcodes
  <2>1. Fits(p, i) /\ StepIsPlain(p, be, i, types[i])
    BY PlainStep
  <2>2. HasFields(p.steps[i]) /\ p.steps[i].opc \in ConditionOpcodes
    BY <2>1 DEF Fits
  <2>3. HasShape(q)
    BY DEF Sized
  <2> QED
    BY <1>1, <2>1, <2>2, <2>3
<1>3. /\ op.opc # "DONE" => i + 1 \in Follows(p.steps, i)
      /\ "jump" \in DOMAIN op => op.jump \in Follows(p.steps, i)
  <2>1. WellFormed(p)
    BY PlainStep
  <2>2. /\ op.opc # "DONE" => i + 1 \in Follows(p.steps, i)
        /\ \A t \in JumpsOf(op) : t \in Follows(p.steps, i)
    BY <1>1, <2>1, WhereTo
  <2>3. "jump" \in DOMAIN op => op.jump \in JumpsOf(op)
    BY DEF JumpsOf
  <2> QED
    BY <2>2, <2>3
<1>4. op.opc \in {"JUMP", "JUMP_IF_NULL", "JUMP_IF_NOT_NULL", "JUMP_IF_NOT_TRUE", "QUAL", "BOOL_AND", "BOOL_OR"} => op.jump \in Follows(p.steps, i)
  BY <1>2, <1>3 DEF HasFields, JumpOpcodes
<1>5. /\ op.opc \notin {"DONE", "FETCHSOME"} => op.res \in DOMAIN p.init /\ q.nul[op.res] \in BOOLEAN
      /\ op.opc = "ASSIGN_TMP" => "state" \in DOMAIN p.init /\ q.nul["state"] \in BOOLEAN
      /\ TypesAt(types, q.pc) = types[i]
      /\ \A c \in DOMAIN types[i] : q.nul[c] \/ q.val[c] \in types[i][c]
      /\ Tuples(p, q)
  BY <1>1, <1>2, PlainStep DEF StepIsPlain, Typed, CellsTyped, TypesAt, TypesFlow
<1> DEFINE y == Interpret(q, op)
<1> SUFFICES Typed(p, types, y)
  BY <1>1
<1> HIDE DEF y
<1>6. CASE op.opc = "DONE"
  <2>1. y = Goto(q, Returned)
    BY <1>2, <1>6, PlainSteps DEF y
  <2> QED
    BY <1>1, <1>2, <1>6, <2>1, Moved, TypedDone
<1>7. CASE op.opc = "FETCHSOME"
  <2>1. y = InterpFetchSome(q, op)
    BY <1>2, <1>7, PlainSteps DEF y
  <2> DEFINE z == GetSomeAttrs(q, SlotOf(q, op), op.last)
  <2>2. HasShape(z) /\ z.pc = q.pc /\ z.val = q.val /\ z.nul = q.nul /\ Tuples(p, z)
    <3>1. HasShape(z) /\ z.pc = q.pc /\ z.val = q.val /\ z.nul = q.nul
      BY <1>2 DEF GetSomeAttrs, HasShape, Fields
    <3>2. DOMAIN z.tts = DOMAIN q.tts /\ \A s \in DOMAIN q.tts : z.tts[s].tuple = q.tts[s].tuple
      BY <1>2 DEF GetSomeAttrs, HasShape, Fields
    <3> QED
      BY <1>5, <3>1, <3>2 DEF Tuples
  <2>3. y = Skip(z)
    BY <2>1 DEF InterpFetchSome
  <2> HIDE DEF z
  <2>4. y.val = q.val /\ y.nul = q.nul /\ y.tts = z.tts /\ y.pc = i + 1
    BY <2>2, <2>3, Moved
  <2>5. Tuples(p, y)
    BY <2>2, <2>4 DEF Tuples
  <2>6. op.opc \notin Storing /\ y.pc \in Follows(p.steps, i)
    BY <1>3, <1>7, <2>4 DEF Storing
  <2> QED
    BY <1>1, <1>7, <2>4, <2>5, <2>6, TypedSame
<1>8. ASSUME op.opc \notin {"DONE", "FETCHSOME"}, NEW x, NEW c, NEW v, NEW n, Puts(q, x, c, v, n), n \in BOOLEAN,
             c = op.res,
             n \/ (op.opc \in Storing /\ \A V : Stores(p, i, types[i], V) => v \in V),
             y = Skip(x) \/ ("jump" \in DOMAIN op /\ y = Goto(x, op.jump))
      PROVE  Typed(p, types, y)
  <2>1. HasShape(x) /\ x.pc = i
    BY <1>8 DEF Puts
  <2>2. y.val = x.val /\ y.nul = x.nul /\ y.tts = x.tts /\ y.pc \in Follows(p.steps, i)
    BY <1>3, <1>8, <2>1, Moved
  <2> QED
    BY <1>1, <1>5, <1>8, <2>2, TypedStore
<1>9. CASE op.opc \in {"VAR", "ASSIGN_VAR"}
  <2> DEFINE s == q.tts[SlotOf(q, op)]
  <2>1. y = Skip(SetRes(q, op.res, s.val[op.att], s.nul[op.att]))
    BY <1>2, <1>9, PlainSteps DEF y, InterpVar
  <2>2. s.tuple \in TuplesOf(p) /\ s.val[op.att] = s.tuple[op.att].v /\ s.nul[op.att] = s.tuple[op.att].n
    BY <1>1, <1>5, <1>9 DEF Reads, Columnar, Tuples
  <2> HIDE DEF s
  <2>3. \A t \in TuplesOf(p) : t[op.att].n \in BOOLEAN
    BY <1>1, <1>2, <1>9 DEF StepIsPlain
  <2>4. s.nul[op.att] \in BOOLEAN
    BY <2>2, <2>3
  <2>5. s.nul[op.att] \/ \A V : Stores(p, i, types[i], V) => s.val[op.att] \in V
    BY <1>1, <1>9, <2>2 DEF Stores
  <2>6. /\ Puts(q, SetRes(q, op.res, s.val[op.att], s.nul[op.att]), op.res, s.val[op.att], s.nul[op.att])
        /\ op.opc \in Storing
    BY <1>2, <1>9, StoresPut DEF Storing
  <2> QED
    BY <1>8, <1>9, <2>1, <2>4, <2>5, <2>6
<1>10. CASE op.opc = "ASSIGN_TMP"
  <2> DEFINE v == IF op.readonly /\ ~q.nul["state"] THEN MakeReadOnly(q.val["state"]) ELSE q.val["state"]
  <2>1. y = Skip(SetRes(q, op.res, v, q.nul["state"]))
    BY <1>2, <1>10, PlainSteps DEF y, InterpAssignTmp, Res
  <2>2. q.nul["state"] \/ \A V : Stores(p, i, types[i], V) => v \in V
    BY <1>1, <1>5, <1>10 DEF Stores
  <2> HIDE DEF v
  <2>3. Puts(q, SetRes(q, op.res, v, q.nul["state"]), op.res, v, q.nul["state"]) /\ op.opc \in Storing
    BY <1>2, <1>10, StoresPut DEF Storing
  <2> QED
    BY <1>5, <1>8, <1>10, <2>1, <2>2, <2>3
<1>11. CASE op.opc = "CONST"
  <2>1. y = Skip(SetRes(q, op.res, op.v, op.n))
    BY <1>2, <1>11, PlainSteps DEF y
  <2>2. op.n \in BOOLEAN /\ (op.n \/ \A V : Stores(p, i, types[i], V) => op.v \in V)
    BY <1>1, <1>2, <1>11 DEF Stores, StepIsPlain
  <2>3. Puts(q, SetRes(q, op.res, op.v, op.n), op.res, op.v, op.n) /\ op.opc \in Storing
    BY <1>2, <1>11, StoresPut DEF Storing
  <2> QED
    BY <1>8, <1>11, <2>1, <2>2, <2>3
<1>12. CASE op.opc = "FUNCEXPR"
  <2>1. y = InterpFuncExprStrict(q, op) /\ CallsAgree(be, op, types[i])
    BY <1>1, <1>2, <1>12, PlainSteps DEF y, Fits, StepIsPlain
  <2>2. CASE AnyArgNull(q, op)
    <3>1. y = Skip(SetNul(q, op.res, TRUE))
      BY <2>1, <2>2 DEF InterpFuncExprStrict
    <3>2. Puts(q, SetNul(q, op.res, TRUE), op.res, q.val[op.res], TRUE)
      BY <1>2, StoresPut
    <3> QED
      BY <1>8, <1>12, <3>1, <3>2
  <2>3. CASE ~AnyArgNull(q, op)
    <3>1. PICK x : x \in ArgumentsOf(op, types[i]) /\ Args(q, op) = [k \in DOMAIN op.args |-> Ok(x[k])]
      <4>1. CallsWith(op, types[i], q, ArgValues(q, op))
        BY <1>1, <1>12, <2>3, TypedCall
      <4> QED
        BY <4>1 DEF CallsWith
    <3>2. PICK r : r = Answers(op, x)
      OBVIOUS
    <3>3. y = StoreCall(q, op.res, r)
      BY <2>1, <2>3, <3>1, <3>2 DEF InterpFuncExprStrict, InterpFuncExpr, Answers
    <3>4. CASE IsErr(r)
      <4>1. y = Raise(q)
        BY <3>3, <3>4 DEF StoreCall
      <4>2. y.val = q.val /\ y.nul = q.nul /\ y.tts = q.tts /\ y.pc = Raised
        BY <1>2, <4>1, Moved
      <4>3. Tuples(p, y)
        BY <1>5, <4>2 DEF Tuples
      <4> QED
        BY <4>2, <4>3, TypedRaise
    <3>5. CASE ~IsErr(r)
      <4>1. y = Skip(SetRes(q, op.res, r.v, r.n))
        BY <3>3, <3>5 DEF StoreCall
      <4>2. r.n \in BOOLEAN
        <5>1. \A w \in ArgumentsOf(op, types[i]) : IsErr(Answers(op, w)) \/ Answers(op, w).n \in BOOLEAN
          BY <2>1 DEF CallsAgree
        <5> QED
          BY <3>1, <3>2, <3>5, <5>1
      <4>3. r.n \/ \A V : Stores(p, i, types[i], V) => r.v \in V
        BY <1>1, <1>12, <3>1, <3>2, <3>5 DEF Stores
      <4>4. Puts(q, SetRes(q, op.res, r.v, r.n), op.res, r.v, r.n) /\ op.opc \in Storing
        BY <1>2, <1>12, StoresPut DEF Storing
      <4> QED
        BY <1>8, <1>12, <4>1, <4>2, <4>3, <4>4
    <3> QED
      BY <3>4, <3>5
  <2> QED
    BY <2>2, <2>3
<1>13. CASE op.opc = "BOOL_NOT"
  <2>1. y = Skip(SetVal(q, op.res, NotDatum(q.val[op.res])))
    BY <1>2, <1>13, PlainSteps DEF y
  <2>2. \A V : Stores(p, i, types[i], V) => NotDatum(q.val[op.res]) \in V
    BY <1>1, <1>13 DEF Stores, NotDatum, BoolDatum
  <2>3. /\ Puts(q, SetVal(q, op.res, NotDatum(q.val[op.res])), op.res, NotDatum(q.val[op.res]), q.nul[op.res])
        /\ op.opc \in Storing
    BY <1>2, <1>13, StoresPut DEF Storing
  <2> QED
    BY <1>5, <1>8, <1>13, <2>1, <2>2, <2>3
<1>14. CASE op.opc = "QUAL"
  <2>1. y = InterpQual(q, op)
    BY <1>2, <1>14, PlainSteps DEF y
  <2>2. op.opc \in Storing /\ "jump" \in DOMAIN op
    BY <1>2, <1>14 DEF Storing, HasFields, JumpOpcodes
  <2>3. CASE q.nul[op.res] \/ ~IsTrue(q.val[op.res])
    <3>1. y = Goto(SetRes(q, op.res, 0, FALSE), op.jump)
      BY <2>1, <2>3 DEF InterpQual
    <3>2. \A V : Stores(p, i, types[i], V) => 0 \in V
      BY <1>1, <1>14 DEF Stores
    <3>3. Puts(q, SetRes(q, op.res, 0, FALSE), op.res, 0, FALSE)
      BY <1>2, StoresPut
    <3> QED
      BY <1>8, <1>14, <2>2, <3>1, <3>2, <3>3
  <2>4. CASE ~(q.nul[op.res] \/ ~IsTrue(q.val[op.res]))
    <3>1. y = Skip(q)
      BY <2>1, <2>4 DEF InterpQual
    <3>2. \A V : Stores(p, i, types[i], V) => q.val[op.res] \in V
      BY <1>1, <1>5, <1>14, <2>4 DEF Stores
    <3>3. Puts(q, q, op.res, q.val[op.res], q.nul[op.res])
      BY <1>2 DEF Puts
    <3> QED
      BY <1>5, <1>8, <1>14, <2>2, <3>1, <3>2, <3>3
  <2> QED
    BY <2>3, <2>4
<1>15. CASE op.opc \in {"JUMP", "JUMP_IF_NULL", "JUMP_IF_NOT_NULL", "JUMP_IF_NOT_TRUE"}
  <2>1. y = Skip(q) \/ y = Goto(q, op.jump)
    BY <1>2, <1>15, PlainSteps DEF y, InterpJumpIfNull, InterpJumpIfNotNull, InterpJumpIfNotTrue, JumpIf
  <2>2. y.val = q.val /\ y.nul = q.nul /\ y.tts = q.tts /\ y.pc \in Follows(p.steps, i)
    BY <1>2, <1>3, <1>4, <1>15, <2>1, Moved
  <2>3. Tuples(p, y) /\ op.opc \notin Storing
    BY <1>5, <1>15, <2>2 DEF Tuples, Storing
  <2> QED
    BY <1>1, <1>15, <2>2, <2>3, TypedSame
<1>16. CASE op.opc \in {"NULLTEST", "BOOLTEST"}
  <2>1. \E b : y = Skip(SetRes(q, op.res, BoolDatum(b), FALSE))
    BY <1>2, <1>16, PlainSteps DEF y, InterpNullTest, InterpBoolTest
  <2>2. PICK b : y = Skip(SetRes(q, op.res, BoolDatum(b), FALSE))
    BY <2>1
  <2>3. \A V : Stores(p, i, types[i], V) => BoolDatum(b) \in V
    BY <1>1, <1>16 DEF Stores, BoolDatum
  <2>4. Puts(q, SetRes(q, op.res, BoolDatum(b), FALSE), op.res, BoolDatum(b), FALSE) /\ op.opc \in Storing
    BY <1>2, <1>16, StoresPut DEF Storing
  <2> QED
    BY <1>8, <1>16, <2>2, <2>3, <2>4
<1>17. CASE op.opc \in {"BOOL_AND", "BOOL_OR"} /\ op.place # "last"
  <2>1. op.any \in DOMAIN q.any
    BY <1>1, <1>17, PlainStep, WhereTo DEF Sized
  <2>2. PICK z : FlagGoes(q, op, z, y)
    BY <1>2, <1>17, <2>1, FlagStep DEF y
  <2>3. /\ HasShape(z) /\ z.pc = i /\ z.val = q.val /\ z.nul = q.nul /\ z.tts = q.tts
        /\ (y = Goto(z, op.jump) \/ y = Skip(z))
    BY <2>2 DEF FlagGoes
  <2>4. y.val = q.val /\ y.nul = q.nul /\ y.tts = q.tts /\ y.pc \in Follows(p.steps, i)
    BY <1>3, <1>4, <1>17, <2>3, Moved
  <2>5. Tuples(p, y) /\ op.opc \notin Storing
    BY <1>5, <1>17, <2>4 DEF Tuples, Storing
  <2> QED
    BY <1>1, <1>17, <2>4, <2>5, TypedSame
<1>18. CASE op.opc \in {"BOOL_AND", "BOOL_OR"} /\ op.place = "last"
  <2>1. y = InterpBoolean(q, op)
    BY <1>2, <1>18, PlainSteps DEF y, Booleans
  <2>2. y = Skip(q) \/ y = Skip(SetRes(q, op.res, 0, TRUE))
    BY <1>18, <2>1 DEF InterpBoolean, InterpBoolAnd, InterpBoolOr, InterpBoolLast
  <2>3. CASE y = Skip(q)
    <3>1. y.val = q.val /\ y.nul = q.nul /\ y.tts = q.tts /\ y.pc \in Follows(p.steps, i)
      BY <1>2, <1>3, <1>18, <2>3, Moved
    <3>2. Tuples(p, y) /\ op.opc \notin Storing
      BY <1>5, <1>18, <3>1 DEF Tuples, Storing
    <3> QED
      BY <1>1, <1>18, <3>1, <3>2, TypedSame
  <2>4. CASE y = Skip(SetRes(q, op.res, 0, TRUE))
    <3>1. Puts(q, SetRes(q, op.res, 0, TRUE), op.res, 0, TRUE)
      BY <1>2, StoresPut
    <3> QED
      BY <1>8, <1>18, <2>4, <3>1
  <2> QED
    BY <2>2, <2>3, <2>4
<1> QED
  BY <1>2, <1>6, <1>7, <1>9, <1>10, <1>11, <1>12, <1>13, <1>14, <1>15, <1>16, <1>17, <1>18 DEF ConditionOpcodes,
     Booleans

(***************************************************************************)
(* A step of compiled code against the interpreter's.                      *)
(***************************************************************************)
PlainColumns == {"DONE", "FETCHSOME", "ASSIGN_TMP", "CONST"}

\* Columns without a batch: the same machine.
CanFetch(a, op) == op.opc = "FETCHSOME" => a.tts[SlotOf(a, op)].nvalid \in Nat /\ op.last \in Nat
LEMMA MirColumnSame ==
  ASSUME NEW a, HasShape(a), NEW op, op.opc \in PlainColumns \cup {"VAR", "ASSIGN_VAR"}
  PROVE  MirColumn(a, op) = Interpret(a, op)
<1>1. CASE op.opc = "DONE"
  BY <1>1, PlainSteps DEF MirColumn, MirDone
<1>2. CASE op.opc = "FETCHSOME"
  <2>1. Interpret(a, op) = InterpFetchSome(a, op)
    BY <1>2, PlainSteps
  <2>2. MirColumn(a, op) = MirFetchSome(a, op)
    BY <1>2 DEF MirColumn
  <2>3. MirFetchSome(a, op) = InterpFetchSome(a, op)
    BY DEF MirFetchSome, InterpFetchSome, GetSomeAttrs
  <2> QED
    BY <2>1, <2>2, <2>3
<1>3. CASE op.opc \in {"VAR", "ASSIGN_VAR"}
  BY <1>3, PlainSteps DEF MirColumn, MirVar, MirAssignVar, InterpVar
<1>4. CASE op.opc = "ASSIGN_TMP"
  BY <1>4, PlainSteps DEF MirColumn, MirAssignTmp, InterpAssignTmp
<1>5. CASE op.opc = "CONST"
  BY <1>5, PlainSteps DEF MirColumn, MirConst
<1> QED
  BY <1>1, <1>2, <1>3, <1>4, <1>5 DEF PlainColumns
LEMMA FallbackColumnSame ==
  ASSUME NEW a, HasShape(a), NEW op, op.opc \in PlainColumns \cup {"VAR", "ASSIGN_VAR"}, CanFetch(a, op),
         op.opc = "ASSIGN_TMP" => ~op.readonly
  PROVE  FallbackColumn(a, op) = Interpret(a, op)
<1>1. CASE op.opc = "DONE"
  BY <1>1, PlainSteps DEF FallbackColumn, InterpColumn, InterpDone
<1>2. CASE op.opc = "FETCHSOME"
  <2>1. Interpret(a, op) = InterpFetchSome(a, op)
    BY <1>2, PlainSteps
  <2>2. FallbackColumn(a, op) = FallbackFetchSome(a, op)
    BY <1>2 DEF FallbackColumn
  <2>3. a.tts[SlotOf(a, op)].nvalid < op.last <=> ~(a.tts[SlotOf(a, op)].nvalid >= op.last)
    BY <1>2 DEF CanFetch
  <2>4. FallbackFetchSome(a, op) = InterpFetchSome(a, op)
    BY <2>3 DEF FallbackFetchSome, InterpFetchSome, GetSomeAttrs
  <2> QED
    BY <2>1, <2>2, <2>4
<1>3. CASE op.opc \in {"VAR", "ASSIGN_VAR"}
  BY <1>3, PlainSteps DEF FallbackColumn, FallbackVar, FallbackAssignVar, InterpVar
<1>4. CASE op.opc = "ASSIGN_TMP"
  BY <1>4, PlainSteps DEF FallbackColumn, FallbackAssignTmp, InterpAssignTmp, Res
<1>5. CASE op.opc = "CONST"
  BY <1>5, PlainSteps DEF FallbackColumn, FallbackConst
<1> QED
  BY <1>1, <1>2, <1>3, <1>4, <1>5 DEF PlainColumns

\* sljit: nothing but batches takes a step in.
LEMMA NotTaken ==
  ASSUME NEW ss, NEW x, NEW i \in Nat, x.pc \in {Returned, Raised, i + 1}, ss[i].opc \notin {"VAR", "ASSIGN_VAR"}
  PROVE  Landed(x, ss) = x
<1>1. x.pc = i + 1 => ~TakenIn(ss, x.pc)
  <2>1. x.pc = i + 1 => x.pc - 1 = i
    OBVIOUS
  <2> QED
    BY <2>1 DEF TakenIn
<1>2. x.pc \in {Returned, Raised} => ~TakenIn(ss, x.pc)
  BY DEF TakenIn, Returned, Raised
<1> QED
  BY <1>1, <1>2 DEF Landed
LEMMA Moves ==
  ASSUME NEW mm, HasShape(mm)
  PROVE  /\ HasShape(Skip(mm)) /\ Skip(mm).pc = mm.pc + 1 /\ HasShape(Raise(mm)) /\ Raise(mm).pc = Raised
         /\ \A t : HasShape(Goto(mm, t)) /\ Goto(mm, t).pc = t
BY DEF Skip, Raise, Goto, HasShape, Fields
\* Machines that differ in what only compiled code has.
SameBut(x, y) ==
  /\ HasShape(x) /\ x.pc = y.pc /\ x.val = y.val /\ x.nul = y.nul /\ x.any = y.any
  /\ x.ec = y.ec /\ x.tts = y.tts /\ x.grp = y.grp /\ x.mcx = y.mcx
LEMMA SameButAlike ==
  ASSUME NEW p, NEW flags, NEW x, NEW y, Sized(p, y), SameBut(x, y) PROVE Alike(p, flags, x, y)
BY DEF SameBut, Alike, Core, Sized, SameResult, Res
LEMMA SljitColumnAlike ==
  ASSUME NEW p, NEW flags, NEW a, Sized(p, a), a.pc \in Nat, p.steps[a.pc].opc \in PlainColumns,
         Sized(p, Interpret(a, p.steps[a.pc]))
  PROVE  /\ Alike(p, flags, SljitColumn(a, p.steps), Interpret(a, p.steps[a.pc]))
         /\ Landed(SljitColumn(a, p.steps), p.steps) = SljitColumn(a, p.steps)
<1>1. PICK op : op = p.steps[a.pc]
  OBVIOUS
<1>2. PICK x : x = SljitColumn(a, p.steps)
  OBVIOUS
<1>3. PICK y : y = Interpret(a, op)
  OBVIOUS
<1>4. HasShape(a) /\ Sized(p, y)
  BY <1>1, <1>3 DEF Sized
<1>7. /\ op.opc = "DONE" => SljitColumn(a, p.steps) = SljitDone(a, op)
      /\ op.opc = "FETCHSOME" => SljitColumn(a, p.steps) = SljitFetchSome(a, op)
      /\ op.opc = "ASSIGN_TMP" => SljitColumn(a, p.steps) = SljitAssignTmp(a, op)
      /\ op.opc = "CONST" => SljitColumn(a, p.steps) = SljitConst(a, op)
  BY <1>1 DEF SljitColumn
<1>8. /\ op.opc = "DONE" => y = Goto(a, Returned)
      /\ op.opc = "FETCHSOME" => y = InterpFetchSome(a, op)
      /\ op.opc = "ASSIGN_TMP" => y = InterpAssignTmp(a, op)
      /\ op.opc = "CONST" => y = Skip(SetRes(a, op.res, op.v, op.n))
  BY <1>3, <1>4, PlainSteps
<1>5. SameBut(x, y) /\ x.pc \in {Returned, Raised, a.pc + 1}
  <2>1. CASE op.opc = "DONE"
    <3>1. x = Goto(a, Returned) /\ y = Goto(a, Returned)
      BY <1>2, <1>7, <1>8, <2>1 DEF SljitDone
    <3>2. HasShape(x) /\ x.pc = Returned
      BY <1>4, <3>1, Moves
    <3> QED
      BY <3>1, <3>2 DEF SameBut
  <2>2. CASE op.opc = "ASSIGN_TMP"
    <3> DEFINE v == IF op.readonly /\ ~a.nul["state"] THEN MakeReadOnly(a.val["state"]) ELSE a.val["state"]
    <3>1. x = Skip(SetRes(a, op.res, v, a.nul["state"])) /\ y = Skip(SetRes(a, op.res, v, a.nul["state"]))
      BY <1>2, <1>7, <1>8, <2>2 DEF SljitAssignTmp, InterpAssignTmp, Res
    <3> HIDE DEF v
    <3>2. Puts(a, SetRes(a, op.res, v, a.nul["state"]), op.res, v, a.nul["state"])
      BY <1>4, StoresPut
    <3>3. HasShape(SetRes(a, op.res, v, a.nul["state"])) /\ SetRes(a, op.res, v, a.nul["state"]).pc = a.pc
      BY <3>2 DEF Puts
    <3>4. HasShape(x) /\ x.pc = a.pc + 1
      BY <3>1, <3>3, Moves
    <3> QED
      BY <3>1, <3>4 DEF SameBut
  <2>3. CASE op.opc = "CONST"
    <3>1. PICK z : z = SetNul(SetVal(a, op.res, op.v), op.res, op.n)
      OBVIOUS
    <3>2. PICK w : w = SetRes(a, op.res, op.v, op.n)
      OBVIOUS
    <3>3. x = Skip(z) /\ y = Skip(w)
      BY <1>2, <1>7, <1>8, <2>3, <3>1, <3>2 DEF SljitConst
    <3>4. z = w
      BY <1>4, <3>1, <3>2 DEF SetNul, SetVal, SetRes, HasShape, Fields
    <3>5. Puts(a, w, op.res, op.v, op.n)
      BY <1>4, <3>2, StoresPut
    <3>6. HasShape(w) /\ w.pc = a.pc
      BY <3>5 DEF Puts
    <3>7. HasShape(x) /\ x.pc = a.pc + 1
      BY <3>3, <3>4, <3>6, Moves
    <3> QED
      BY <3>3, <3>4, <3>7 DEF SameBut
  <2>4. CASE op.opc = "FETCHSOME"
    <3>1. PICK s : s = SlotOf(a, op)
      OBVIOUS
    <3>2. PICK z : z = GetSomeAttrs(a, s, op.last)
      OBVIOUS
    <3>3. PICK c : c = [z EXCEPT !.cptr[op.slot] = s]
      OBVIOUS
    <3>4. y = Skip(z) /\ x = Skip(c)
      <4>1. y = Skip(z)
        BY <1>8, <2>4, <3>1, <3>2 DEF InterpFetchSome
      <4>2. z = IF a.tts[s].nvalid >= op.last THEN a ELSE GetSomeAttrs(a, s, op.last)
        BY <3>2 DEF GetSomeAttrs
      <4>3. SljitFetchSome(a, op) = Skip([(IF a.tts[s].nvalid >= op.last THEN a ELSE GetSomeAttrs(a, s, op.last)) EXCEPT !.cptr[op.slot] = s])
        BY <3>1 DEF SljitFetchSome
      <4> QED
        BY <1>2, <1>7, <2>4, <3>3, <4>1, <4>2, <4>3
    <3>5. HasShape(z) /\ z.pc = a.pc
      BY <1>4, <3>2 DEF GetSomeAttrs, HasShape, Fields
    <3>6. HasShape(c) /\ SameBut(c, z)
      BY <3>3, <3>5 DEF SameBut, HasShape, Fields
    <3>7. SameBut(Skip(c), Skip(z)) /\ Skip(c).pc = a.pc + 1
      BY <3>5, <3>6 DEF SameBut, Skip, HasShape, Fields
    <3> QED
      BY <3>4, <3>7
  <2> QED
    BY <1>1, <2>1, <2>2, <2>3, <2>4 DEF PlainColumns
<1>6. Landed(x, p.steps) = x
  BY <1>1, <1>5, NotTaken DEF PlainColumns
<1> QED
  BY <1>1, <1>2, <1>3, <1>4, <1>5, <1>6, SameButAlike

\* Booleans.
LEMMA BooleanAlike ==
  ASSUME NEW p, NEW be, NEW types, NEW flags, Plain(p, be, types, flags), NEW i \in DOMAIN p.steps, NEW a,
         a.pc = i, Sized(p, a), Typed(p, types, a), p.steps[i].opc \in Booleans,
         Sized(p, Interpret(a, p.steps[i])), StepsOn(p, i, Interpret(a, p.steps[i]))
  PROVE  /\ Alike(p, flags, SljitBoolean(a, p.steps[i]), Interpret(a, p.steps[i]))
         /\ Alike(p, flags, MirBoolean(a, p.steps[i]), Interpret(a, p.steps[i]))
         /\ be = "fallback" => Alike(p, flags, FallbackBoolean(a, p.steps[i]), Interpret(a, p.steps[i]))
<1>1. PICK op : op = p.steps[i]
  OBVIOUS
<1>2. WellFormed(p) /\ FlagsFlow(p, flags) /\ Fits(p, i) /\ StepIsPlain(p, be, i, types[i])
  BY PlainStep
<1>3. HasShape(a) /\ Interpret(a, op) = InterpBoolean(a, op)
  BY <1>1, PlainSteps DEF Sized
<1>4. Testable(a, op)
  <2>1. HasFields(op) /\ op.opc \in Booleans /\ (IsLast(op) => op.jump = i + 1)
    BY <1>1, <1>2 DEF WellFormed, IsLast
  <2>2. op.opc \notin {"DONE", "FETCHSOME"}
    BY <2>1 DEF Booleans
  <2>3. op.res \in DOMAIN p.init
    BY <1>1, <1>2, <2>2 DEF Fits
  <2>4. a.nul[op.res] \in BOOLEAN
    BY <2>3 DEF Typed, CellsTyped
  <2>5. op.opc = "BOOLTEST" => a.nul[op.res] \/ a.val[op.res] \in {0, 1}
    <3>1. op.opc = "BOOLTEST" => op.res \in DOMAIN types[i] /\ types[i][op.res] \subseteq {0, 1}
      BY <1>1, <1>2 DEF StepIsPlain
    <3>2. TypesAt(types, a.pc) = types[i]
      BY PlainStep DEF TypesAt, TypesFlow
    <3> QED
      BY <3>1, <3>2 DEF Typed, CellsTyped
  <2> QED
    BY <1>3, <2>1, <2>4, <2>5 DEF Testable
<1>5. /\ SameStep(SljitBoolean(a, op), Interpret(a, op), op) /\ SameStep(MirBoolean(a, op), Interpret(a, op), op)
      /\ be = "fallback" => SameStep(FallbackBoolean(a, op), Interpret(a, op), op)
  BY <1>1, <1>2, <1>3, <1>4, BooleanCode DEF StepIsPlain
<1>6. HasShape(SljitBoolean(a, op)) /\ HasShape(MirBoolean(a, op)) /\ HasShape(FallbackBoolean(a, op))
  BY <1>3, KeepsSelf, SljitBooleanKeeps, MirBooleanKeeps, FallbackBooleanKeeps DEF Keeps
<1> QED
  BY <1>1, <1>2, <1>5, <1>6, SameStepAlike

\* Calls: the same machine.
LEMMA CallPaths ==
  ASSUME NEW a, NEW op, op.opc = "FUNCEXPR", op.strict, op.path \in {"inline", "direct", "v1"}
  PROVE  /\ SljitCall(a, op) = IF AnyArgNull(a, op) THEN Skip(SetNul(a, op.res, TRUE))
                               ELSE IF op.path = "inline" THEN StoreNotNull(a, op.res, SljitInlineOp(op.fn, ArgValues(a, op)))
                               ELSE IF op.path = "direct" THEN SljitCallDirect(a, op) ELSE SljitCallV1(a, op)
         /\ MirCall(a, op) = IF AnyArgNull(a, op) THEN Skip(SetNul(a, op.res, TRUE))
                             ELSE IF op.path = "inline" /\ op.fn \in MirInlineOps THEN StoreNotNull(a, op.res, MirInlineOp(op.fn, MirArgValues(a, op)))
                             ELSE IF op.path # "v1" THEN MirCallDirect(a, op) ELSE MirCallV1(a, op)
         /\ FallbackCall(a, op) = InterpFuncExprStrict(a, op)
<1>1. /\ SljitCall(a, op) = SljitFuncExpr(a, op) /\ MirCall(a, op) = MirFuncExpr(a, op)
      /\ FallbackCall(a, op) = FallbackFuncExpr(a, op)
  BY DEF SljitCall, MirCall, FallbackCall
<1>2. FallbackFuncExpr(a, op) = InterpFuncExprStrict(a, op)
  BY DEF FallbackFuncExpr, InterpFuncExprStrict, InterpFuncExpr
<1>3. SljitFuncExpr(a, op) = IF AnyArgNull(a, op) THEN Skip(SetNul(a, op.res, TRUE))
                            ELSE IF op.path = "inline" THEN StoreNotNull(a, op.res, SljitInlineOp(op.fn, ArgValues(a, op)))
                            ELSE IF op.path = "direct" THEN SljitCallDirect(a, op) ELSE SljitCallV1(a, op)
  BY DEF SljitFuncExpr, SljitStrictNull, SljitCallInline
<1>4. MirFuncExpr(a, op) = IF AnyArgNull(a, op) THEN Skip(SetNul(a, op.res, TRUE))
                          ELSE IF op.path = "inline" /\ op.fn \in MirInlineOps THEN StoreNotNull(a, op.res, MirInlineOp(op.fn, MirArgValues(a, op)))
                          ELSE IF op.path # "v1" THEN MirCallDirect(a, op) ELSE MirCallV1(a, op)
  BY DEF MirFuncExpr, MirStrictNull
<1> QED
  BY <1>1, <1>2, <1>3, <1>4
LEMMA CallSame ==
  ASSUME NEW p, NEW be, NEW types, NEW flags, Plain(p, be, types, flags), NEW i \in DOMAIN p.steps, NEW a,
         a.pc = i, Sized(p, a), Typed(p, types, a), p.steps[i].opc = "FUNCEXPR"
  PROVE  LET op == p.steps[i]
         IN  /\ be = "sljit" => SljitCall(a, op) = Interpret(a, op)
             /\ be = "mir" => MirCall(a, op) = Interpret(a, op)
             /\ FallbackCall(a, op) = Interpret(a, op)
             /\ Interpret(a, op).pc \in {Raised, i + 1}
<1>1. PICK op : op = p.steps[i]
  OBVIOUS
<1>2. CallsAgree(be, op, types[i]) /\ HasShape(a)
  <2>1. StepIsPlain(p, be, i, types[i])
    BY PlainStep
  <2> QED
    BY <1>1, <2>1 DEF StepIsPlain, Sized
<1>3. op.opc = "FUNCEXPR" /\ op.strict /\ op.path \in {"inline", "direct", "v1"}
  BY <1>1, <1>2 DEF CallsAgree
<1>4. Interpret(a, op) = InterpFuncExprStrict(a, op)
  BY <1>2, <1>3, PlainSteps
<1>5. CASE AnyArgNull(a, op)
  <2>1. /\ SljitCall(a, op) = Skip(SetNul(a, op.res, TRUE)) /\ MirCall(a, op) = Skip(SetNul(a, op.res, TRUE))
        /\ FallbackCall(a, op) = Interpret(a, op)
    BY <1>3, <1>4, <1>5, CallPaths
  <2>2. Interpret(a, op) = Skip(SetNul(a, op.res, TRUE))
    BY <1>4, <1>5 DEF InterpFuncExprStrict
  <2>3. Puts(a, SetNul(a, op.res, TRUE), op.res, a.val[op.res], TRUE)
    BY <1>2, StoresPut
  <2>4. HasShape(SetNul(a, op.res, TRUE)) /\ SetNul(a, op.res, TRUE).pc = i
    BY <2>3 DEF Puts
  <2>5. Interpret(a, op).pc = i + 1
    BY <2>2, <2>4, Moves
  <2> QED
    BY <1>1, <2>1, <2>2, <2>5
<1>6. CASE ~AnyArgNull(a, op)
  <2>1. CallsWith(op, types[i], a, ArgValues(a, op))
    BY <1>1, <1>3, <1>6, TypedCall
  <2>2. PICK x : x = ArgValues(a, op)
    OBVIOUS
  <2>3. x \in ArgumentsOf(op, types[i]) /\ Args(a, op) = [k \in DOMAIN op.args |-> Ok(x[k])]
    BY <2>1, <2>2 DEF CallsWith
  <2>4. PICK r : r = Answers(op, x)
    OBVIOUS
  <2>5. Apply(op.fn, Args(a, op)) = r
    BY <2>3, <2>4 DEF Answers
  <2>6. Emitted(be, op, x) = r /\ (IsErr(r) \/ (r.n \in BOOLEAN /\ (op.path # "v1" => ~r.n)))
    BY <1>2, <2>3, <2>4 DEF CallsAgree
  <2>7. op.path # "v1" => StoreNotNull(a, op.res, r) = StoreCall(a, op.res, r)
    BY <2>6 DEF StoreNotNull, StoreCall
  <2>8. Interpret(a, op) = StoreCall(a, op.res, r)
    BY <1>4, <1>6, <2>5 DEF InterpFuncExprStrict, InterpFuncExpr
  <2>9. /\ [k \in DOMAIN op.args |-> Ok(a.val[op.args[k]])] = [k \in DOMAIN op.args |-> Ok(x[k])]
        /\ MirArgValues(a, op) = x
    BY <2>2 DEF ArgValues, MirArgValues
  <2>10. /\ SljitCallV1(a, op) = StoreCall(a, op.res, r) /\ MirCallV1(a, op) = StoreCall(a, op.res, r)
         /\ SljitCallDirect(a, op) = StoreNotNull(a, op.res, r) /\ MirCallDirect(a, op) = StoreNotNull(a, op.res, r)
    BY <2>3, <2>5, <2>9 DEF SljitCallV1, MirCallV1, SljitCallDirect, MirCallDirect
  <2>11. be = "sljit" /\ op.path = "inline" => SljitInlineOp(op.fn, ArgValues(a, op)) = r
    BY <2>2, <2>6 DEF Emitted
  <2>12. be = "mir" /\ op.path = "inline" /\ op.fn \in MirInlineOps => MirInlineOp(op.fn, MirArgValues(a, op)) = r
    BY <2>6, <2>9 DEF Emitted
  <2>13. be = "sljit" => SljitCall(a, op) = StoreCall(a, op.res, r)
    BY <1>3, <1>6, <2>7, <2>10, <2>11, CallPaths
  <2>14. be = "mir" => MirCall(a, op) = StoreCall(a, op.res, r)
    BY <1>3, <1>6, <2>7, <2>10, <2>12, CallPaths
  <2>15. StoreCall(a, op.res, r).pc \in {Raised, i + 1}
    <3>1. Puts(a, SetRes(a, op.res, r.v, r.n), op.res, r.v, r.n)
      BY <1>2, StoresPut
    <3>2. HasShape(SetRes(a, op.res, r.v, r.n)) /\ SetRes(a, op.res, r.v, r.n).pc = i
      BY <3>1 DEF Puts
    <3>3. Skip(SetRes(a, op.res, r.v, r.n)).pc = i + 1 /\ Raise(a).pc = Raised
      BY <1>2, <3>2, Moves
    <3> QED
      BY <3>3 DEF StoreCall
  <2> QED
    BY <1>1, <1>3, <1>4, <2>8, <2>13, <2>14, <2>15, CallPaths
<1> QED
  BY <1>5, <1>6

(***************************************************************************)
(* sljit copies columns in batches: the interpreter needs a step for each. *)
(***************************************************************************)
LEMMA BatchEnds ==
  ASSUME NEW p, WellFormed(p), NEW i \in DOMAIN p.steps, Columnar(p.steps[i]), NEW e, e = BatchEnd(p.steps, i)
  PROVE  /\ e \in i..(Len(p.steps) - 1) /\ InBatch(p.steps, i, e) /\ ~InBatch(p.steps, i, e + 1) /\ i \in Nat
         /\ Len(p.steps) \in Nat
<1> DEFINE n == Len(p.steps)
           Ends == {k \in i..n : k = n \/ ~InBatch(p.steps, i, k + 1)}
<1>1. n \in Nat /\ DOMAIN p.steps = 1..n /\ p.steps[n].opc = "DONE" /\ i \in 1..n
  BY DEF WellFormed
<1>2. Ends \in SUBSET Nat /\ n \in Ends
  BY <1>1
<1>3. PICK x \in Ends : \A y \in Ends : x <= y
  BY <1>2, LeastNumber
<1>4. InBatch(p.steps, i, x)
  <2>1. CASE x = i
    BY <1>1, <2>1 DEF InBatch
  <2>2. CASE x # i
    <3>1. x - 1 \in i..n /\ x - 1 \notin Ends
      BY <1>1, <1>3, <2>2
    <3> QED
      BY <1>1, <3>1
  <2> QED
    BY <2>1, <2>2
<1>5. e \in i..n /\ InBatch(p.steps, i, e) /\ (e = n \/ ~InBatch(p.steps, i, e + 1))
  <2>1. \E k \in i..n : InBatch(p.steps, i, k) /\ (k = n \/ ~InBatch(p.steps, i, k + 1))
    BY <1>3, <1>4
  <2> QED
    BY <2>1 DEF BatchEnd
<1>6. e # n
  <2> SUFFICES ASSUME e = n PROVE FALSE
    OBVIOUS
  <2>1. p.steps[e].opc = p.steps[i].opc
    BY <1>1, <1>5 DEF InBatch
  <2> QED
    BY <1>1, <2>1 DEF Columnar
<1> QED
  BY <1>1, <1>5, <1>6
LEMMA PastBatch ==
  ASSUME NEW p, WellFormed(p), NEW i \in DOMAIN p.steps, Columnar(p.steps[i]), NEW x, x.pc = BatchEnd(p.steps, i) + 1
  PROVE  Landed(x, p.steps) = x
<1>1. PICK e : e = BatchEnd(p.steps, i)
  OBVIOUS
<1>2. /\ e \in i..(Len(p.steps) - 1) /\ InBatch(p.steps, i, e) /\ ~InBatch(p.steps, i, e + 1) /\ i \in Nat
      /\ Len(p.steps) \in Nat
  BY <1>1, BatchEnds
<1>3. ~TakenIn(p.steps, e + 1)
  <2> SUFFICES ASSUME TakenIn(p.steps, e + 1) PROVE FALSE
    OBVIOUS
  <2>1. InBatch(p.steps, e, e + 1)
    BY <1>2 DEF TakenIn
  <2>2. ~IsJumpTarget(p.steps, e + 1) /\ p.steps[e + 1].opc = p.steps[e].opc /\ p.steps[e + 1].slot = p.steps[e].slot
    BY <1>2, <2>1 DEF InBatch
  <2>3. p.steps[e].opc = p.steps[i].opc /\ p.steps[e].slot = p.steps[i].slot
    BY <1>2 DEF InBatch
  <2>4. InBatch(p.steps, i, e + 1)
    BY <1>2, <2>2, <2>3 DEF InBatch
  <2> QED
    BY <1>2, <2>4
<1> QED
  BY <1>1, <1>3 DEF Landed

\* A cell after the steps from i to k - 1: it holds a column, or what it held.
Kept(p, i, k, q, x, c) == (\A l \in i..(k - 1) : p.steps[l].res # c) /\ x.val[c] = q.val[c] /\ x.nul[c] = q.nul[c]
Written(p, i, k, s, x, c) ==
  \E l \in i..(k - 1) : /\ p.steps[l].res = c /\ \A j \in (l + 1)..(k - 1) : p.steps[j].res # c
                       /\ x.val[c] = s.val[p.steps[l].att] /\ x.nul[c] = s.nul[p.steps[l].att]
Copied(p, i, k, s, q, x) == \A c \in DOMAIN p.init : Kept(p, i, k, q, x, c) \/ Written(p, i, k, s, x, c)
\* The interpreter at step k of the batch.
Copying(p, types, flags, i, k, s, q, x) ==
  /\ Sized(p, x) /\ x.pc = k /\ x.any = q.any /\ x.ec = q.ec /\ x.tts = q.tts /\ x.grp = q.grp /\ x.mcx = q.mcx
  /\ Copied(p, i, k, s, q, x) /\ Typed(p, types, x) /\ FlagsAt(flags, k) \subseteq FlagsAt(flags, i)
LEMMA CopyStarts ==
  ASSUME NEW p, NEW types, NEW flags, NEW i \in Nat, NEW s, NEW q, Sized(p, q), q.pc = i, Typed(p, types, q)
  PROVE  Copying(p, types, flags, i, i, s, q, q)
BY DEF Copying, Copied, Kept
LEMMA CopyGoesOn ==
  ASSUME NEW p, NEW be, NEW types, NEW flags, Plain(p, be, types, flags), NEW i \in Nat, NEW k \in DOMAIN p.steps,
         k >= i, NEW q, NEW s, s = q.tts[SlotOf(q, p.steps[k])], Columnar(p.steps[k]), Reads(q, p.steps[k]), NEW x,
         Copying(p, types, flags, i, k, s, q, x)
  PROVE  Copying(p, types, flags, i, k + 1, s, q, Interpret(x, p.steps[k]))
<1>1. PICK op : op = p.steps[k]
  OBVIOUS
<1>2. PICK y : y = Interpret(x, op)
  OBVIOUS
<1>3. /\ HasShape(x) /\ Sized(p, x) /\ x.tts = q.tts /\ x.ec = q.ec /\ x.pc = k /\ k \in Nat
      /\ op.opc \in {"VAR", "ASSIGN_VAR"}
  <2>1. k \in Nat
    BY PlainStep, WhereTo
  <2> QED
    BY <1>1, <2>1 DEF Copying, Sized, Columnar
<1>4. PICK z : z = SetRes(x, op.res, s.val[op.att], s.nul[op.att])
  OBVIOUS
<1>5. y = Skip(z)
  <2>1. Interpret(x, op) = InterpVar(x, op)
    BY <1>3, PlainSteps
  <2> QED
    BY <1>1, <1>2, <1>3, <1>4, <2>1, ZenonT(30) DEF InterpVar, SlotOf
<1>6. Puts(x, z, op.res, s.val[op.att], s.nul[op.att])
  BY <1>3, <1>4, StoresPut
<1>7. /\ HasShape(z) /\ DOMAIN z.val = DOMAIN x.val /\ DOMAIN z.nul = DOMAIN x.nul /\ z.pc = k /\ z.any = x.any
      /\ z.ec = x.ec /\ z.tts = x.tts /\ z.grp = x.grp /\ z.mcx = x.mcx
      /\ \A d \in DOMAIN x.val : /\ z.val[d] = IF d = op.res THEN s.val[op.att] ELSE x.val[d]
                                /\ z.nul[d] = IF d = op.res THEN s.nul[op.att] ELSE x.nul[d]
  BY <1>3, <1>6 DEF Puts
<1>8. y.pc = k + 1 /\ y.val = z.val /\ y.nul = z.nul /\ y.any = z.any /\ y.ec = z.ec /\ y.tts = z.tts /\ y.grp = z.grp /\ y.mcx = z.mcx
      /\ HasShape(y)
  BY <1>5, <1>7 DEF Skip, HasShape, Fields
<1>9. Sized(p, y)
  BY <1>3, <1>7, <1>8 DEF Sized
<1>10. Copied(p, i, k + 1, s, q, y)
  <2> SUFFICES ASSUME NEW c \in DOMAIN p.init
               PROVE  \/ (\A l \in i..k : p.steps[l].res # c) /\ y.val[c] = q.val[c] /\ y.nul[c] = q.nul[c]
                      \/ \E l \in i..k : /\ p.steps[l].res = c /\ \A j \in (l + 1)..k : p.steps[j].res # c
                                         /\ y.val[c] = s.val[p.steps[l].att] /\ y.nul[c] = s.nul[p.steps[l].att]
    BY <1>3 DEF Copied, Kept, Written
  <2>1. c \in DOMAIN x.val
    BY <1>3 DEF Sized
  <2>2. CASE c = op.res
    <3>1. y.val[c] = s.val[op.att] /\ y.nul[c] = s.nul[op.att] /\ k \in i..k /\ \A j \in (k + 1)..k : p.steps[j].res # c
      BY <1>3, <1>7, <1>8, <2>1, <2>2
    <3> QED
      BY <1>1, <2>2, <3>1, ZenonT(30)
  <2>3. CASE c # op.res
    <3>1. y.val[c] = x.val[c] /\ y.nul[c] = x.nul[c]
      BY <1>7, <1>8, <2>1, <2>3
    <3>2. Kept(p, i, k, q, x, c) \/ Written(p, i, k, s, x, c)
      BY DEF Copying, Copied
    <3>3. \A l : l \in i..k => l \in i..(k - 1) \/ l = k
      BY <1>3
    <3>4. CASE Kept(p, i, k, q, x, c)
      BY <1>1, <2>3, <3>1, <3>3, <3>4 DEF Kept
    <3>5. CASE Written(p, i, k, s, x, c)
      <4>3. PICK l \in i..(k - 1) : /\ p.steps[l].res = c /\ \A j \in (l + 1)..(k - 1) : p.steps[j].res # c
                                   /\ x.val[c] = s.val[p.steps[l].att] /\ x.nul[c] = s.nul[p.steps[l].att]
        BY <3>5, ZenonT(30) DEF Written
      <4>1. l \in i..k /\ \A j \in (l + 1)..k : j \in (l + 1)..(k - 1) \/ j = k
        BY <1>3
      <4>2. \A j \in (l + 1)..k : p.steps[j].res # c
        BY <1>1, <2>3, <4>1, <4>3
      <4> QED
        BY <3>1, <4>1, <4>2, <4>3, ZenonT(30)
    <3> QED
      BY <3>2, <3>4, <3>5
  <2> QED
    BY <2>2, <2>3
<1>11. Typed(p, types, y)
  <2>1. Reads(x, p.steps[k])
    BY <1>3, ZenonT(30) DEF Reads, SlotOf
  <2>2. Typed(p, types, x)
    BY DEF Copying
  <2> QED
    BY <1>1, <1>2, <1>3, <2>1, <2>2, TypedStep
<1>12. FlagsAt(flags, k + 1) \subseteq FlagsAt(flags, i)
  <2>1. FlagsAt(flags, k) \subseteq FlagsAt(flags, i)
    BY DEF Copying
  <2>2. FlagsFlow(p, flags) /\ k + 1 \in Follows(p.steps, k)
    <3>1. p.steps[k].opc # "DONE"
      BY <1>1, <1>3
    <3> QED
      BY <3>1, PlainStep, WhereTo
  <2>3. \A f \in flags[k + 1] : f \in flags[k]
    BY <1>1, <1>3, <2>2 DEF FlagsFlow
  <2>4. k + 1 \in DOMAIN flags /\ k \in DOMAIN flags
    BY <2>2 DEF FlagsFlow, Follows
  <2> QED
    BY <2>1, <2>3, <2>4 DEF FlagsAt
<1>13. y.any = q.any /\ y.ec = q.ec /\ y.tts = q.tts /\ y.grp = q.grp /\ y.mcx = q.mcx
  BY <1>7, <1>8 DEF Copying
<1> QED
  BY <1>1, <1>2, <1>8, <1>9, <1>10, <1>11, <1>12, <1>13 DEF Copying

\* A set of machines the interpreter does not leave: it has those that the
\* interpreter comes to from each of its members.
Closed(p, S) == \A x \in S : ~Over(x) => Interpret(x, p.steps[x.pc]) \in S
LEMMA CopyEnds ==
  ASSUME NEW p, NEW be, NEW types, NEW flags, Plain(p, be, types, flags), NEW i \in DOMAIN p.steps,
         Columnar(p.steps[i]), NEW q, Sized(p, q), q.pc = i, Typed(p, types, q), NEW s,
         s = q.tts[SlotOf(q, p.steps[i])], \A k \in DOMAIN p.steps : Columnar(p.steps[k]) => Reads(q, p.steps[k]),
         NEW S, Closed(p, S), q \in S
  PROVE  \E x \in S : Copying(p, types, flags, i, BatchEnd(p.steps, i) + 1, s, q, x)
<1>1. PICK e : e = BatchEnd(p.steps, i)
  OBVIOUS
<1>2. WellFormed(p)
  BY DEF Plain
<1>3. /\ e \in i..(Len(p.steps) - 1) /\ InBatch(p.steps, i, e) /\ i \in Nat /\ Len(p.steps) \in Nat
      /\ DOMAIN p.steps = 1..Len(p.steps)
  BY <1>1, <1>2, BatchEnds DEF WellFormed
<1> DEFINE There(k) == \E x \in S : Copying(p, types, flags, i, k, s, q, x)
           Bad == {k \in Nat : k >= i /\ k <= e + 1 /\ ~There(k)}
<1> SUFFICES ASSUME ~There(e + 1) PROVE FALSE
  BY <1>1
<1> HIDE DEF There
<1>4. e + 1 \in Bad /\ Bad \in SUBSET Nat
  BY <1>3
<1>5. PICK k \in Bad : \A y \in Bad : k <= y
  <2> HIDE DEF Bad
  <2> QED
    BY <1>4, LeastNumber
<1>6. There(i)
  <2>1. Copying(p, types, flags, i, i, s, q, q)
    BY <1>3, CopyStarts
  <2> QED
    BY <2>1 DEF There
<1>7. k # i
  BY <1>5, <1>6
<1>8. k - 1 \in Nat /\ k - 1 >= i /\ k - 1 <= e /\ k - 1 < k
  BY <1>3, <1>5, <1>7
<1>9. There(k - 1)
  <2>1. k - 1 \notin Bad
    <3> HIDE DEF Bad
    <3> QED
      BY <1>4, <1>5, <1>8
  <2> QED
    BY <1>3, <1>8, <2>1
<1>10. PICK l : l = k - 1
  OBVIOUS
<1>11. PICK x \in S : Copying(p, types, flags, i, l, s, q, x)
  BY <1>9, <1>10 DEF There
<1>12. l \in DOMAIN p.steps /\ l >= i /\ l + 1 = k
  BY <1>3, <1>5, <1>8, <1>10
<1>13. p.steps[l].opc = p.steps[i].opc /\ p.steps[l].slot = p.steps[i].slot
  <2>1. CASE l = i
    BY <2>1
  <2>2. CASE l # i
    <3>1. l \in (i + 1)..e
      BY <1>3, <1>8, <1>10, <1>12, <2>2
    <3> QED
      BY <1>3, <3>1 DEF InBatch
  <2> QED
    BY <2>1, <2>2
<1>14. Columnar(p.steps[l]) /\ s = q.tts[SlotOf(q, p.steps[l])] /\ Reads(q, p.steps[l])
  BY <1>12, <1>13 DEF Columnar, SlotOf
<1>15. Copying(p, types, flags, i, k, s, q, Interpret(x, p.steps[l]))
  <2>1. Copying(p, types, flags, i, l + 1, s, q, Interpret(x, p.steps[l]))
    BY <1>3, <1>11, <1>12, <1>14, CopyGoesOn
  <2> QED
    BY <1>12, <2>1
<1>16. Interpret(x, p.steps[l]) \in S
  <2>1. x.pc = l /\ ~Over(x)
    BY <1>11, <1>12, <1>2, WhereTo DEF Copying, Over
  <2> QED
    BY <1>11, <2>1 DEF Closed
<1>17. There(k)
  BY <1>15, <1>16 DEF There
<1> QED
  BY <1>5, <1>17
\* What a batch of compiled code, or its loop, leaves.
LastAt(ss, e, k, c) == ss[k].res = c /\ \A l \in (k + 1)..e : ss[l].res # c
Copies(ss, i, e, s, a, y) ==
  /\ HasShape(y) /\ y.pc = e + 1 /\ y.any = a.any /\ y.ec = a.ec /\ y.tts = a.tts /\ y.grp = a.grp /\ y.mcx = a.mcx
  /\ DOMAIN y.val = DOMAIN a.val
  /\ \A c \in DOMAIN a.val : (\A k \in i..e : ss[k].res # c) => y.val[c] = a.val[c] /\ y.nul[c] = a.nul[c]
  /\ \A c \in DOMAIN a.val : \A k \in i..e : LastAt(ss, e, k, c) => y.val[c] = s.val[ss[k].att] /\ y.nul[c] = s.nul[ss[k].att]
LEMMA BatchCopies ==
  ASSUME NEW a, HasShape(a), NEW ss, a.pc \in Nat, BatchEnd(ss, a.pc) \in Nat
  PROVE  Copies(ss, a.pc, BatchEnd(ss, a.pc), ArraysOf(a, ss, a.pc), a, CopyColumns(a, ss))
<1> DEFINE i == a.pc
           e == BatchEnd(ss, i)
           s == ArraysOf(a, ss, i)
           LastOf(c) == CHOOSE k \in i..e : ss[k].res = c /\ \A l \in (k + 1)..e : ss[l].res # c
           cells == {ss[k].res : k \in i..e}
           new(f, g) == [c \in DOMAIN f |-> IF c \in cells THEN g[ss[LastOf(c)].att] ELSE f[c]]
<1>1. PICK y : y = CopyColumns(a, ss)
  OBVIOUS
<1>2. y = [a EXCEPT !.val = new(a.val, s.val), !.nul = new(a.nul, s.nul), !.pc = e + 1]
  BY <1>1, ZenonT(30) DEF CopyColumns
<1>0. i \in Nat /\ e \in Nat
  OBVIOUS
<1> HIDE DEF i, e, s
<1>3. \A c : \A k \in i..e : LastAt(ss, e, k, c) => LastOf(c) = k
  <2> SUFFICES ASSUME NEW c, NEW k \in i..e, LastAt(ss, e, k, c) PROVE LastOf(c) = k
    OBVIOUS
  <2>1. LastOf(c) \in i..e /\ ss[LastOf(c)].res = c /\ \A l \in (LastOf(c) + 1)..e : ss[l].res # c
    BY DEF LastAt
  <2> HIDE DEF LastOf
  <2>2. ~(k < LastOf(c)) /\ ~(LastOf(c) < k)
    BY <1>0, <2>1 DEF LastAt
  <2> QED
    BY <1>0, <2>1, <2>2
<1>4. \A f, g : DOMAIN new(f, g) = DOMAIN f
  OBVIOUS
<1>10. \A f, g : \A c \in DOMAIN f : (\A k \in i..e : ss[k].res # c) => new(f, g)[c] = f[c]
  OBVIOUS
<1>11. \A f, g : \A c \in DOMAIN f : \A k \in i..e : ss[k].res = c => new(f, g)[c] = g[ss[LastOf(c)].att]
  OBVIOUS
<1> HIDE DEF new, LastOf
<1>5. /\ HasShape(y) /\ y.pc = e + 1 /\ y.any = a.any /\ y.ec = a.ec /\ y.tts = a.tts /\ y.grp = a.grp /\ y.mcx = a.mcx
      /\ y.val = new(a.val, s.val) /\ y.nul = new(a.nul, s.nul) /\ DOMAIN y.val = DOMAIN a.val
  BY <1>2, <1>4 DEF HasShape, Fields
<1>6. \A c \in DOMAIN a.val : c \in DOMAIN a.nul
  BY DEF HasShape
<1>7. ASSUME NEW c \in DOMAIN a.val, \A k \in i..e : ss[k].res # c PROVE y.val[c] = a.val[c] /\ y.nul[c] = a.nul[c]
  BY <1>5, <1>6, <1>7, <1>10
<1>8. ASSUME NEW c \in DOMAIN a.val, NEW k \in i..e, LastAt(ss, e, k, c)
      PROVE  y.val[c] = s.val[ss[k].att] /\ y.nul[c] = s.nul[ss[k].att]
  <2>1. ss[k].res = c /\ LastOf(c) = k
    BY <1>3, <1>8 DEF LastAt
  <2> QED
    BY <1>5, <1>6, <1>11, <2>1
<1>9. Copies(ss, i, e, s, a, y)
  BY <1>5, <1>7, <1>8 DEF Copies
<1> QED
  BY <1>1, <1>9 DEF i, e, s
LEMMA LoopCopies ==
  ASSUME NEW a, HasShape(a), NEW ss, NEW i \in Nat, a.pc = i, NEW e \in Nat, e = BatchEnd(ss, i), NEW s,
         ArraysOf(a, ss, i) = s, InSequence(ss, i, e), ss[i].att \in Nat, ss[i].resno \in Nat,
         \A k, l \in i..e : ss[k].res = ss[l].res <=> ss[k].resno = ss[l].resno
  PROVE  Copies(ss, i, e, s, a, SljitAssignVarLoop(a, ss))
<1> DEFINE Col(c) == CHOOSE k \in i..e : ss[k].res = c
           new(f, g) == [c \in DOMAIN f |-> IF \E k \in i..e : ss[k].res = c THEN g[ss[i].att + (Col(c) - i)] ELSE f[c]]
<1>1. PICK y : y = SljitAssignVarLoop(a, ss)
  OBVIOUS
<1>2. y = [a EXCEPT !.val = new(a.val, s.val), !.nul = new(a.nul, s.nul), !.pc = e + 1]
  BY <1>1 DEF SljitAssignVarLoop
<1>3. \A k \in i..e : ss[k].resno = ss[i].resno + (k - i)
  BY DEF InSequence
<1>4. \A k, l \in i..e : ss[k].res = ss[l].res => k = l
  BY <1>3
<1>5. \A c : \A k \in i..e : ss[k].res = c => Col(c) = k
  <2> SUFFICES ASSUME NEW c, NEW k \in i..e, ss[k].res = c PROVE Col(c) = k
    OBVIOUS
  <2>1. Col(c) \in i..e /\ ss[Col(c)].res = c
    OBVIOUS
  <2> HIDE DEF Col
  <2> QED
    BY <1>4, <2>1
<1>6. \A f, g : DOMAIN new(f, g) = DOMAIN f
  OBVIOUS
<1>12. \A f, g : \A c \in DOMAIN f : (\A k \in i..e : ss[k].res # c) => new(f, g)[c] = f[c]
  OBVIOUS
<1>13. \A f, g : \A c \in DOMAIN f : \A k \in i..e : ss[k].res = c => new(f, g)[c] = g[ss[i].att + (Col(c) - i)]
  OBVIOUS
<1> HIDE DEF new, Col
<1>7. /\ HasShape(y) /\ y.pc = e + 1 /\ y.any = a.any /\ y.ec = a.ec /\ y.tts = a.tts /\ y.grp = a.grp /\ y.mcx = a.mcx
      /\ y.val = new(a.val, s.val) /\ y.nul = new(a.nul, s.nul) /\ DOMAIN y.val = DOMAIN a.val
  BY <1>2, <1>6 DEF HasShape, Fields
<1>8. \A c \in DOMAIN a.val : c \in DOMAIN a.nul
  BY DEF HasShape
<1>9. ASSUME NEW c \in DOMAIN a.val, \A k \in i..e : ss[k].res # c PROVE y.val[c] = a.val[c] /\ y.nul[c] = a.nul[c]
  BY <1>7, <1>8, <1>9, <1>12
<1>10. ASSUME NEW c \in DOMAIN a.val, NEW k \in i..e, LastAt(ss, e, k, c)
       PROVE  y.val[c] = s.val[ss[k].att] /\ y.nul[c] = s.nul[ss[k].att]
  <2>1. ss[k].res = c /\ Col(c) = k
    BY <1>5, <1>10 DEF LastAt
  <2>2. ss[k].att = ss[i].att + (k - i)
    <3>1. k = i \/ k \in (i + 1)..e
      OBVIOUS
    <3> QED
      BY <3>1 DEF InSequence
  <2> QED
    BY <1>7, <1>8, <1>13, <2>1, <2>2
<1>11. Copies(ss, i, e, s, a, y)
  BY <1>7, <1>9, <1>10 DEF Copies
<1> QED
  BY <1>1, <1>11

\* The batch of compiled code copies the same.
LEMMA CopyAlike ==
  ASSUME NEW p, WellFormed(p), NEW types, NEW flags, NEW i \in DOMAIN p.steps, Columnar(p.steps[i]), NEW a, NEW q,
         Alike(p, flags, a, q), a.pc = i, NEW s, s = q.tts[SlotOf(q, p.steps[i])],
         SlotCached(p.steps, i) => a.cptr[p.steps[i].slot] = SlotOf(a, p.steps[i]), NEW x,
         Copying(p, types, flags, i, BatchEnd(p.steps, i) + 1, s, q, x)
  PROVE  Alike(p, flags, SljitColumn(a, p.steps), x)
<1>1. PICK e : e = BatchEnd(p.steps, i)
  OBVIOUS
<1>2. /\ e \in i..(Len(p.steps) - 1) /\ InBatch(p.steps, i, e) /\ i \in Nat /\ Len(p.steps) \in Nat
      /\ DOMAIN p.steps = 1..Len(p.steps)
  BY <1>1, BatchEnds DEF WellFormed
<1>3. /\ Core(p, a, q) /\ HasShape(a) /\ Sized(p, a) /\ a.tts = q.tts /\ a.ec = q.ec
      /\ \A f \in FlagsAt(flags, i) : a.any[f] = q.any[f]
  BY DEF Alike, Core, Sized
<1>4. ArraysOf(a, p.steps, i) = s
  BY <1>3, ZenonT(30) DEF ArraysOf, SlotOf
<1>5. PICK y : y = SljitColumn(a, p.steps)
  OBVIOUS
<1>6. Copies(p.steps, i, e, s, a, y)
  <2>1. y = CopyColumns(a, p.steps) \/ (IsLoop(p.steps, i) /\ p.steps[i].opc = "ASSIGN_VAR" /\ y = SljitAssignVarLoop(a, p.steps))
    BY <1>5 DEF SljitColumn, SljitVar, SljitAssignVar, Columnar
  <2>4. e \in Nat /\ HasShape(a) /\ a.pc = i /\ e = BatchEnd(p.steps, a.pc) /\ ArraysOf(a, p.steps, a.pc) = s
    BY <1>1, <1>2, <1>3, <1>4
  <2>2. CASE y = CopyColumns(a, p.steps)
    <3>1. Copies(p.steps, a.pc, BatchEnd(p.steps, a.pc), ArraysOf(a, p.steps, a.pc), a, CopyColumns(a, p.steps))
      BY <1>2, <2>4, BatchCopies
    <3> QED
      BY <2>2, <2>4, <3>1
  <2>3. CASE IsLoop(p.steps, i) /\ p.steps[i].opc = "ASSIGN_VAR" /\ y = SljitAssignVarLoop(a, p.steps)
    <3>1. InSequence(p.steps, i, e) /\ p.steps[i].att \in Nat /\ p.steps[i].resno \in Nat
      BY <1>1, <2>3 DEF IsLoop, WellFormed, HasFields
    <3>2. \A k \in i..e : k \in DOMAIN p.steps /\ p.steps[k].opc = "ASSIGN_VAR"
      <4>1. \A k \in i..e : k = i \/ k \in (i + 1)..e
        BY <1>2
      <4> QED
        BY <1>2, <2>3, <4>1 DEF InBatch
    <3>3. \A k, l \in i..e : p.steps[k].res = p.steps[l].res <=> p.steps[k].resno = p.steps[l].resno
      <4>1. ResultsAreCells(p.steps)
        BY DEF WellFormed
      <4>2. \A k, l \in {j \in DOMAIN p.steps : p.steps[j].opc = "ASSIGN_VAR"} :
               p.steps[k].res = p.steps[l].res <=> p.steps[k].resno = p.steps[l].resno
        BY <4>1 DEF ResultsAreCells
      <4> QED
        BY <3>2, <4>2, ZenonT(30)
    <3> QED
      <4>1. Copies(p.steps, i, e, s, a, SljitAssignVarLoop(a, p.steps))
        BY <1>1, <1>2, <1>4, <2>4, <3>1, <3>3, LoopCopies
      <4> QED
        BY <2>3, <4>1
  <2> QED
    BY <2>1, <2>2, <2>3
<1>7. /\ Sized(p, y) /\ x.ec = y.ec /\ x.tts = y.tts /\ x.grp = y.grp /\ x.mcx = y.mcx /\ x.pc = y.pc
      /\ x.any = q.any /\ Sized(p, x)
  BY <1>1, <1>3, <1>6 DEF Copying, Core, Sized, Copies, HasShape
<1>8. ASSUME NEW c \in DOMAIN p.init PROVE SameResult(Res(y, c), Res(x, c))
  <2>1. c \in DOMAIN a.val
    BY <1>3 DEF Sized
  <2>2. Kept(p, i, e + 1, q, x, c) \/ Written(p, i, e + 1, s, x, c)
    BY <1>1 DEF Copying, Copied
  <2>3. CASE Kept(p, i, e + 1, q, x, c)
    <3>1. (\A l \in i..e : p.steps[l].res # c) /\ x.val[c] = q.val[c] /\ x.nul[c] = q.nul[c]
      BY <1>2, <2>3 DEF Kept
    <3>2. y.val[c] = a.val[c] /\ y.nul[c] = a.nul[c]
      BY <1>6, <2>1, <3>1 DEF Copies
    <3>3. SameResult(Res(a, c), Res(q, c))
      BY <1>3 DEF Core
    <3> QED
      BY <3>1, <3>2, <3>3 DEF SameResult, Res
  <2>4. CASE Written(p, i, e + 1, s, x, c)
    <3>2. PICK l \in i..((e + 1) - 1) : /\ p.steps[l].res = c /\ \A j \in (l + 1)..((e + 1) - 1) : p.steps[j].res # c
                                       /\ x.val[c] = s.val[p.steps[l].att] /\ x.nul[c] = s.nul[p.steps[l].att]
      BY <2>4, ZenonT(30) DEF Written
    <3>3. l \in i..e /\ LastAt(p.steps, e, l, c)
      BY <1>2, <3>2 DEF LastAt
    <3>1. y.val[c] = s.val[p.steps[l].att] /\ y.nul[c] = s.nul[p.steps[l].att]
      BY <1>6, <2>1, <3>3 DEF Copies
    <3> QED
      BY <3>1, <3>2 DEF SameResult, Res
  <2> QED
    BY <2>2, <2>3, <2>4
<1>9. \A f \in FlagsAt(flags, y.pc) : y.any[f] = x.any[f]
  <2>1. FlagsAt(flags, y.pc) \subseteq FlagsAt(flags, i)
    BY <1>1, <1>6 DEF Copying, Copies
  <2> QED
    BY <1>3, <1>6, <1>7, <2>1 DEF Copies
<1>10. Core(p, y, x)
  BY <1>7, <1>8 DEF Core
<1> QED
  BY <1>5, <1>7, <1>9, <1>10 DEF Alike

\* A step of compiled code that copies no batch leaves a machine like the
\* one the interpreter's step leaves.
RunsCode == RunColumn \/ RunBoolean \/ RunContext \/ RunCompare \/ RunCall \/ RunHash \/ RunAggregate
LEMMA WhichRuns ==
  ASSUME RunsCode, Here.opc \in ConditionOpcodes
  PROVE  /\ phase = "run" /\ mode = "jit" /\ m.pc \in DOMAIN steps
         /\ UNCHANGED <<prog, steps, cases, backend, mode, phase, ref, round>>
         /\ Here.opc \in PlainColumns \cup {"VAR", "ASSIGN_VAR"} =>
              m' = ByBackend(SljitColumn(m, steps), MirColumn(m, Here), FallbackColumn(m, Here))
         /\ Here.opc \in Booleans => m' = ByBackend(SljitBoolean(m, Here), MirBoolean(m, Here), FallbackBoolean(m, Here))
         /\ Here.opc = "FUNCEXPR" => m' = ByBackend(SljitCall(m, Here), MirCall(m, Here), FallbackCall(m, Here))
<1>1. \A family, after : Run(family, after) =>
        /\ phase = "run" /\ mode = "jit" /\ m.pc \in DOMAIN steps
        /\ UNCHANGED <<prog, steps, cases, backend, mode, phase, ref, round>>
        /\ Here.opc \in family
  BY DEF Run, RunsOpcode, Here
<1>2. /\ Here.opc \in Contexts \cup Compares \cup Hashes \cup Aggregates => FALSE
      /\ Here.opc \in PlainColumns \cup {"VAR", "ASSIGN_VAR"} => Here.opc \notin Booleans \cup Calls
      /\ Here.opc \in Booleans => Here.opc \notin Columns \cup Calls
      /\ Here.opc = "FUNCEXPR" => Here.opc \notin Columns \cup Booleans
  BY DEF ConditionOpcodes, PlainColumns, Columns, Booleans, Contexts, Compares, Calls, Hashes, Aggregates
<1>3. ~RunContext /\ ~RunCompare /\ ~RunHash /\ ~RunAggregate
  BY <1>1, <1>2 DEF RunContext, RunCompare, RunHash, RunAggregate
<1>4. CASE RunColumn
  BY <1>1, <1>2, <1>4 DEF RunColumn, Run
<1>5. CASE RunBoolean
  BY <1>1, <1>2, <1>5 DEF RunBoolean, Run
<1>6. CASE RunCall
  BY <1>1, <1>2, <1>6 DEF RunCall, Run
<1> QED
  BY <1>3, <1>4, <1>5, <1>6 DEF RunsCode

LEMMA CodeAlike ==
  ASSUME IInv, CInv, NEW types, NEW flags, NEW p, p = Programs[prog], Plain(p, backend, types, flags), steps = p.steps,
         Sized(p, m), Typed(p, types, m), RunsCode, ~(backend = "sljit" /\ Columnar(Here))
  PROVE  Alike(p, flags, m', Interpret(m, Here)) /\ StepsOn(p, m.pc, Interpret(m, Here))
<1>1. m.pc \in DOMAIN steps /\ backend \in AllBackends /\ WellFormed(p) /\ StepsHold(steps)
  <2>1. m.pc \in DOMAIN steps
    BY DEF RunsCode, RunColumn, RunBoolean, RunContext, RunCompare, RunCall, RunHash, RunAggregate, Run, RunsOpcode
  <2> QED
    BY <2>1 DEF IInv, Plain
<1>2. PICK i : i = m.pc
  OBVIOUS
<1>3. PICK op : op = p.steps[i]
  OBVIOUS
<1>4. PICK a : a = m
  OBVIOUS
<1>5. PICK y : y = Interpret(a, op)
  OBVIOUS
<1>6. Here = op /\ i \in DOMAIN p.steps /\ a.pc = i /\ Sized(p, a) /\ HasShape(a) /\ Typed(p, types, a)
  BY <1>1, <1>2, <1>3, <1>4 DEF Here, Sized
<1>7. FlagsFlow(p, flags) /\ Fits(p, i) /\ StepIsPlain(p, backend, i, types[i]) /\ op.opc \in ConditionOpcodes
  BY <1>3, <1>6, PlainStep DEF StepIsPlain
<1>8. Sized(p, y) /\ StepsOn(p, i, y)
  <2>1. Alike(p, flags, a, a)
    BY <1>6, AlikeSelf
  <2>2. Alike(p, flags, y, y) /\ StepsOn(p, i, y)
    BY <1>1, <1>3, <1>5, <1>6, <1>7, <2>1, StayAlike
  <2> QED
    BY <2>2 DEF Alike, Core
<1>9. Alike(p, flags, y, y)
  BY <1>8, AlikeSelf
<1>10. PICK x : x = m'
  OBVIOUS
<1>11. CASE op.opc \in PlainColumns \cup {"VAR", "ASSIGN_VAR"}
  <2>1. x = ByBackend(SljitColumn(a, steps), MirColumn(a, op), FallbackColumn(a, op))
    BY <1>4, <1>6, <1>7, <1>10, <1>11, WhichRuns
  <2>2. CASE backend = "mir"
    <3>1. MirColumn(a, op) = y
      BY <1>5, <1>6, <1>11, MirColumnSame
    <3> QED
      BY <1>9, <2>1, <2>2, <3>1, <1>2, <1>3, <1>4, <1>5, <1>6, <1>8, <1>10 DEF ByBackend
  <2>3. CASE backend = "fallback"
    <3>1. CanFetch(a, op)
      <4> SUFFICES ASSUME op.opc = "FETCHSOME" PROVE a.tts[SlotOf(a, op)].nvalid \in Nat /\ op.last \in Nat
        BY DEF CanFetch
      <4>1. op.slot \in SlotKinds /\ op.last \in Nat
        BY <1>1, <1>3, <1>6 DEF StepsHold, HasFields
      <4>2. phase = "run" /\ mode = "jit"
        BY <1>6, <1>7, WhichRuns
      <4>3. SlotsHold(m, p) /\ ContextHolds(m)
        BY <4>2 DEF CInv, InRow
      <4>4. SlotOf(m, op) \in DOMAIN m.tts
        BY <4>1, <4>3 DEF ContextHolds, SlotOf
      <4> QED
        BY <1>4, <4>1, <4>3, <4>4 DEF SlotsHold, HoldsTuple
    <3>2. op.opc = "ASSIGN_TMP" => ~op.readonly
      BY <1>3, <1>7, <2>3 DEF StepIsPlain
    <3>3. FallbackColumn(a, op) = y
      BY <1>5, <1>6, <1>11, <3>1, <3>2, FallbackColumnSame
    <3> QED
      BY <1>9, <2>1, <2>3, <3>3, <1>2, <1>3, <1>4, <1>5, <1>6, <1>8, <1>10 DEF ByBackend
  <2>4. CASE backend = "sljit"
    <3>1. op.opc \in PlainColumns
      BY <1>6, <1>11, <2>4 DEF Columnar
    <3>2. a.pc \in Nat
      BY <1>1, <1>6, WhereTo
    <3>3. /\ Alike(p, flags, SljitColumn(a, p.steps), y)
          /\ Landed(SljitColumn(a, p.steps), p.steps) = SljitColumn(a, p.steps)
      BY <1>3, <1>5, <1>6, <1>8, <3>1, <3>2, SljitColumnAlike
    <3> QED
      BY <2>1, <2>4, <3>3, <1>2, <1>3, <1>4, <1>5, <1>6, <1>8, <1>10 DEF ByBackend
  <2> QED
    BY <1>1, <2>2, <2>3, <2>4 DEF AllBackends
<1>12. CASE op.opc \in Booleans
  <2>1. x = ByBackend(SljitBoolean(a, op), MirBoolean(a, op), FallbackBoolean(a, op))
    BY <1>4, <1>6, <1>7, <1>10, <1>12, WhichRuns
  <2>2. /\ Alike(p, flags, SljitBoolean(a, op), y) /\ Alike(p, flags, MirBoolean(a, op), y)
        /\ (backend = "fallback" => Alike(p, flags, FallbackBoolean(a, op), y))
    BY <1>3, <1>5, <1>6, <1>8, <1>12, BooleanAlike
  <2>3. Landed(SljitBoolean(a, op), steps) = SljitBoolean(a, op)
    BY <1>1, <1>3, <1>6, <1>12, BooleanLanding
  <2>4. Alike(p, flags, x, y)
    BY <1>1, <2>1, <2>2, <2>3 DEF ByBackend, AllBackends
  <2> QED
    BY <2>4, <1>2, <1>4, <1>5, <1>6, <1>8, <1>10
<1>13. CASE op.opc = "FUNCEXPR"
  <2>1. x = ByBackend(SljitCall(a, op), MirCall(a, op), FallbackCall(a, op))
    BY <1>4, <1>6, <1>7, <1>10, <1>13, WhichRuns
  <2>2. /\ backend = "sljit" => SljitCall(a, op) = y
        /\ backend = "mir" => MirCall(a, op) = y
        /\ FallbackCall(a, op) = y /\ y.pc \in {Raised, i + 1}
    BY <1>3, <1>5, <1>6, <1>13, CallSame
  <2>3. Landed(y, p.steps) = y
    <3>1. i \in Nat
      BY <1>1, <1>6, WhereTo
    <3> QED
      BY <1>3, <1>13, <2>2, <3>1, NotTaken
  <2>4. x = y
    BY <1>1, <2>1, <2>2, <2>3 DEF ByBackend, AllBackends
  <2> QED
    BY <1>9, <2>4, <1>2, <1>4, <1>5, <1>6, <1>8, <1>10
<1> QED
  BY <1>7, <1>11, <1>12, <1>13 DEF ConditionOpcodes, PlainColumns

\* What slots hold for the machine that runs the code, they hold for one
\* that is like it.
LEMMA SlotsRead ==
  ASSUME IInv, CInv, NEW p, steps = p.steps, phase = "run", mode = "jit", m.pc \in DOMAIN steps, Here.opc # "FETCHSOME",
         NEW q, q.tts = m.tts, q.ec = m.ec, NEW k \in DOMAIN p.steps
  PROVE  /\ Reads(q, p.steps[k])
         /\ Columnar(p.steps[k]) /\ backend = "sljit" /\ SlotCached(p.steps, k) => m.cptr[p.steps[k].slot] = SlotOf(m, p.steps[k])
<1> SUFFICES ASSUME Columnar(p.steps[k])
             PROVE  /\ Reads(q, p.steps[k])
                    /\ backend = "sljit" /\ SlotCached(p.steps, k) => m.cptr[p.steps[k].slot] = SlotOf(m, p.steps[k])
  BY DEF Reads
<1>1. Current(m, k) /\ (backend = "sljit" /\ SlotCached(steps, k) => m.cptr[steps[k].slot] = SlotOf(m, steps[k]))
  BY ColumnIsCurrent DEF Here
<1>2. SlotOf(q, p.steps[k]) = SlotOf(m, steps[k])
  BY DEF SlotOf
<1> QED
  BY <1>1, <1>2, ZenonT(30) DEF Reads, Current

LEMMA BatchStep ==
  ASSUME IInv, CInv, NEW types, NEW flags, NEW p, p = Programs[prog], Plain(p, backend, types, flags),
         steps = p.steps, RunsCode, backend = "sljit", Columnar(Here), NEW q, Alike(p, flags, m, q),
         Typed(p, types, q), NEW S, Closed(p, S), q \in S
  PROVE  /\ \E x \in S : Alike(p, flags, m', x) /\ Typed(p, types, x)
         /\ m'.pc \in DOMAIN steps /\ m'.pc > m.pc
<1>1. PICK i : i = m.pc
  OBVIOUS
<1>2. PICK op : op = p.steps[i]
  OBVIOUS
<1>3. PICK s : s = q.tts[SlotOf(q, op)]
  OBVIOUS
<1>4. op = Here /\ op.opc \in {"VAR", "ASSIGN_VAR"} /\ op.opc \in ConditionOpcodes /\ WellFormed(p)
  BY <1>1, <1>2 DEF Here, Columnar, ConditionOpcodes, Plain
<1>5. phase = "run" /\ mode = "jit" /\ i \in DOMAIN p.steps /\ m' = Landed(SljitColumn(m, p.steps), p.steps)
  BY <1>1, <1>4, WhichRuns DEF ByBackend
<1>6. Sized(p, q) /\ q.pc = i /\ q.tts = m.tts /\ q.ec = m.ec
  BY <1>1 DEF Alike, Core
<1>7. \A k \in DOMAIN p.steps : Columnar(p.steps[k]) => Reads(q, p.steps[k])
  BY <1>1, <1>4, <1>5, <1>6, SlotsRead
<1>8. SlotCached(p.steps, i) => m.cptr[op.slot] = SlotOf(m, op)
  BY <1>1, <1>2, <1>4, <1>5, <1>6, SlotsRead
<1>9. PICK e : e = BatchEnd(p.steps, i)
  OBVIOUS
<1>10. e \in i..(Len(p.steps) - 1) /\ i \in Nat /\ Len(p.steps) \in Nat
  <2>1. Columnar(p.steps[i])
    BY <1>2, <1>4
  <2> QED
    BY <1>4, <1>5, <1>9, <2>1, BatchEnds
<1>11. PICK x \in S : Copying(p, types, flags, i, BatchEnd(p.steps, i) + 1, s, q, x)
  BY <1>2, <1>3, <1>4, <1>5, <1>6, <1>7, CopyEnds
<1>12. PICK y : y = SljitColumn(m, p.steps)
  OBVIOUS
<1>13. Alike(p, flags, y, x)
  BY <1>1, <1>2, <1>3, <1>4, <1>5, <1>8, <1>11, <1>12, CopyAlike
<1>14. x.pc = e + 1 /\ Typed(p, types, x)
  BY <1>9, <1>11 DEF Copying
<1>15. y.pc = e + 1
  BY <1>13, <1>14 DEF Alike
<1>16. Landed(y, p.steps) = y
  BY <1>2, <1>4, <1>5, <1>9, <1>15, PastBatch
<1>17. m' = y
  BY <1>5, <1>12, <1>16
<1>18. DOMAIN p.steps = 1..Len(p.steps)
  BY <1>4 DEF WellFormed
<1>19. e + 1 \in DOMAIN p.steps /\ e + 1 > i
  BY <1>10, <1>18
<1> QED
  BY <1>1, <1>13, <1>14, <1>15, <1>17, <1>19

LEMMA CodeStep ==
  ASSUME IInv, CInv, NEW types, NEW flags, NEW p, p = Programs[prog], Plain(p, backend, types, flags), steps = p.steps,
         RunsCode, NEW q, Alike(p, flags, m, q), Typed(p, types, q), NEW S, Closed(p, S), q \in S
  PROVE  /\ \E x \in S : Alike(p, flags, m', x) /\ Typed(p, types, x)
         /\ Over(m') \/ (m'.pc \in DOMAIN steps /\ m'.pc > m.pc)
<1>1. CASE backend = "sljit" /\ Columnar(Here)
  BY <1>1, BatchStep
<1>2. CASE ~(backend = "sljit" /\ Columnar(Here))
  <2>1. PICK i : i = m.pc
    OBVIOUS
  <2>2. PICK op : op = p.steps[i]
    OBVIOUS
  <2>3. /\ op = Here /\ WellFormed(p) /\ Sized(p, m) /\ Sized(p, q) /\ q.pc = i /\ q.tts = m.tts /\ q.ec = m.ec
        /\ Core(p, m, q)
    BY <2>1, <2>2 DEF Here, Plain, Alike, Core
  <2>4. i \in DOMAIN p.steps
    BY <2>1 DEF RunsCode, RunColumn, RunBoolean, RunContext, RunCompare, RunCall, RunHash, RunAggregate, Run, RunsOpcode
  <2>5. FlagsFlow(p, flags) /\ Fits(p, i) /\ op.opc \in ConditionOpcodes
    BY <2>2, <2>4, PlainStep DEF StepIsPlain
  <2>6. phase = "run" /\ mode = "jit"
    BY <2>3, <2>5, WhichRuns
  <2>7. Typed(p, types, m)
    BY <2>1, <2>3, TypedAlike
  <2>8. PICK y : y = Interpret(m, op)
    OBVIOUS
  <2>9. Alike(p, flags, m', y) /\ StepsOn(p, i, y)
    BY <1>2, <2>1, <2>3, <2>7, <2>8, CodeAlike
  <2>10. PICK x : x = Interpret(q, op)
    OBVIOUS
  <2>11. Alike(p, flags, y, x)
    BY <2>1, <2>2, <2>3, <2>4, <2>5, <2>8, <2>10, StayAlike
  <2>12. Reads(q, op)
    <3>1. CASE op.opc = "FETCHSOME"
      BY <3>1 DEF Reads, Columnar
    <3>2. CASE op.opc # "FETCHSOME"
      BY <2>1, <2>2, <2>3, <2>4, <2>6, <3>2, SlotsRead
    <3> QED
      BY <3>1, <3>2
  <2>13. Typed(p, types, x)
    BY <2>2, <2>3, <2>4, <2>10, <2>12, TypedStep
  <2>14. /\ Returned \notin DOMAIN p.steps /\ Raised \notin DOMAIN p.steps /\ i \in Nat
         /\ DOMAIN p.steps = 1..Len(p.steps) /\ Len(p.steps) \in Nat
         /\ \A t \in JumpsOf(p.steps[i]) : t \in Follows(p.steps, i) /\ t > i
    BY <2>3, <2>4, WhereTo
  <2>15. x \in S
    BY <2>2, <2>3, <2>4, <2>10, <2>14 DEF Closed, Over
  <2>16. Alike(p, flags, m', x)
    BY <2>9, <2>11, AlikeTransitive
  <2>17. m'.pc = y.pc
    BY <2>9 DEF Alike
  <2>18. \A t \in Follows(p.steps, i) : t \in DOMAIN p.steps /\ t > i
    BY <2>14 DEF Follows
  <2>19. Over(m') \/ (m'.pc \in DOMAIN steps /\ m'.pc > i)
    BY <2>9, <2>17, <2>18 DEF StepsOn, Over
  <2> QED
    BY <2>1, <2>13, <2>15, <2>16, <2>19
<1> QED
  BY <1>1, <1>2

(***************************************************************************)
(* Row after row.                                                          *)
(***************************************************************************)
\* While the code runs, the interpreter is on its way to a machine like it,
\* whatever set one takes for its way; when the code is done, its own is
\* the only machine it can be like.
AgreeOn(p, types, flags) ==
  /\ steps = p.steps /\ cases = <<>>
  /\ phase = "new" => m = FreshMachine(p)
  /\ phase \in {"new", "ready"} => m.pc = Returned /\ Alike(p, flags, m, ref) /\ (mode # "interp" => Typed(p, types, ref))
  /\ phase \in {"run", "ref"} =>
       \A S : Closed(p, S) /\ ref \in S => \E q \in S : Alike(p, flags, m, q) /\ (mode # "interp" => Typed(p, types, q))
  /\ phase = "ref" => Over(m)
AInv == \A types, flags : Certified(Programs[prog], backend, types, flags) => AgreeOn(Programs[prog], types, flags)

LEMMA AgreeInit == Init => AInv
<1> SUFFICES ASSUME Init, NEW types, NEW flags, NEW p, p = Programs[prog], Certified(p, backend, types, flags)
             PROVE  AgreeOn(p, types, flags)
  BY DEF AInv
<1>1. steps = p.steps /\ cases = <<>> /\ phase = "new" /\ m = FreshMachine(p) /\ ref = m
  BY DEF Init, InitOf
<1>2. Plain(p, backend, types, flags)
  BY ProgramsAreWellFormed DEF Init, Plain
<1>3. Sized(p, m) /\ m.pc = Returned
  BY <1>1 DEF Sized, FreshMachine, HasShape, Fields
<1>4. Typed(p, types, m)
  <2>1. /\ Len(p.steps) \in Nat \ {0} /\ DOMAIN p.steps = 1..Len(p.steps) /\ TypesStart(p, types) /\ TypesFlow(p, types)
        /\ \A c \in DOMAIN p.init : p.init[c].n \in BOOLEAN
    BY <1>2 DEF Plain, WellFormed, Certified
  <2>2. 1 \in DOMAIN p.steps /\ Returned \notin DOMAIN p.steps
    BY <2>1 DEF Returned
  <2>3. TypesAt(types, m.pc) = types[1] /\ DOMAIN types[1] \subseteq DOMAIN p.init
    BY <1>3, <2>1, <2>2 DEF TypesAt, TypesFlow
  <2>4. \A c \in DOMAIN p.init : m.val[c] = p.init[c].v /\ m.nul[c] = p.init[c].n
    BY <1>1 DEF FreshMachine
  <2>5. CellsTyped(p, types[1], m)
    BY <2>1, <2>3, <2>4 DEF CellsTyped, TypesStart
  <2>6. m.tts = p.tts
    BY <1>1 DEF FreshMachine
  <2>7. Tuples(p, m)
    BY <2>6 DEF Tuples, TuplesOf
  <2> QED
    BY <2>3, <2>5, <2>7 DEF Typed
<1>5. Alike(p, flags, m, ref)
  BY <1>1, <1>3, AlikeSelf
<1> QED
  BY <1>1, <1>3, <1>4, <1>5 DEF AgreeOn

LEMMA AgreeCompile ==
  ASSUME NEW types, NEW flags, NEW p, p = Programs[prog], Plain(p, backend, types, flags),
         AgreeOn(p, types, flags), CInv, Compile
  PROVE  AgreeOn(p, types, flags)'
<1>1. /\ phase = "new" /\ phase' = "ready" /\ m' = m /\ ref' = ref /\ m = FreshMachine(p) /\ mode = "none"
      /\ steps = p.steps /\ m.pc = Returned /\ Alike(p, flags, m, ref) /\ Typed(p, types, ref)
  BY DEF Compile, AgreeOn, CInv
<1>2. cases' = <<>>
  <2>1. DetectCaseBsearch(steps, Cells(m)) = <<>>
    BY <1>1 DEF Plain, Certified
  <2> QED
    BY <2>1 DEF Compile, Prepare
<1>3. steps' = steps
  <2>1. \A i \in DOMAIN steps : SetupArrays(steps, cases')[i] = steps[i]
    BY <1>2 DEF SetupArrays
  <2>2. \A i \in DOMAIN steps : steps[i].opc # "HASHED_SAOP"
    <3> SUFFICES ASSUME NEW i \in DOMAIN steps PROVE steps[i].opc # "HASHED_SAOP"
      OBVIOUS
    <3>1. StepIsPlain(p, backend, i, types[i])
      BY <1>1, PlainStep
    <3>2. steps[i].opc \in ConditionOpcodes
      BY <1>1, <3>1 DEF StepIsPlain
    <3> QED
      BY <3>2 DEF ConditionOpcodes, Booleans
  <2>3. steps' = [i \in DOMAIN steps |->
                   LET op == SetupArrays(steps, cases')[i] IN IF op.opc = "HASHED_SAOP" THEN PlanList(op) ELSE op]
    BY DEF Compile, Prepare
  <2>4. steps' = [i \in DOMAIN steps |-> steps[i]]
    BY <2>1, <2>2, <2>3
  <2>5. steps = [i \in DOMAIN steps |-> steps[i]]
    BY <1>1 DEF Plain, Certified
  <2> QED
    BY <2>4, <2>5
<1> QED
  BY <1>1, <1>2, <1>3 DEF AgreeOn

LEMMA RowAlike ==
  ASSUME NEW p, NEW types, NEW flags, NEW a, NEW q, NEW r \in p.rows, Alike(p, flags, a, q), FlagsFlow(p, flags)
  PROVE  Alike(p, flags, OnRow(a, r), OnRow(q, r))
<1> DEFINE Tts(mm) == [s \in DOMAIN mm.tts |-> IF s \in DOMAIN r.tuple THEN Filled(mm.tts[s], r.tuple[s], r.nvalid) ELSE mm.tts[s]]
<1>1. ASSUME NEW mm, HasShape(mm)
      PROVE  /\ HasShape(OnRow(mm, r)) /\ OnRow(mm, r).pc = 1 /\ OnRow(mm, r).ec = r.ec
             /\ OnRow(mm, r).val = mm.val /\ OnRow(mm, r).nul = mm.nul
             /\ OnRow(mm, r).any = mm.any /\ OnRow(mm, r).grp = mm.grp /\ OnRow(mm, r).mcx = mm.mcx
             /\ OnRow(mm, r).tts = Tts(mm)
  <2>1. HasShape(OnRow(mm, r))
    BY <1>1, OnRowShape
  <2> QED
    BY <1>1, <2>1 DEF OnRow, HasShape, Fields
<1>2. HasShape(a) /\ HasShape(q) /\ a.tts = q.tts
  BY DEF Alike, Core, Sized
<1>3. PICK x : x = OnRow(a, r)
  OBVIOUS
<1>4. PICK y : y = OnRow(q, r)
  OBVIOUS
<1>5. /\ HasShape(x) /\ x.pc = 1 /\ x.ec = r.ec /\ x.val = a.val /\ x.nul = a.nul
      /\ x.any = a.any /\ x.grp = a.grp /\ x.mcx = a.mcx /\ x.tts = Tts(a)
  BY <1>1, <1>2, <1>3
<1>6. /\ HasShape(y) /\ y.pc = 1 /\ y.ec = r.ec /\ y.val = q.val /\ y.nul = q.nul
      /\ y.any = q.any /\ y.grp = q.grp /\ y.mcx = q.mcx /\ y.tts = Tts(q)
  BY <1>1, <1>2, <1>4
<1>7. Core(p, x, y)
  BY <1>2, <1>5, <1>6 DEF Alike, Core, Sized, SameResult, Res
<1>8. FlagsAt(flags, 1) = {}
  BY DEF FlagsAt, FlagsFlow
<1>9. Alike(p, flags, x, y)
  BY <1>5, <1>6, <1>7, <1>8 DEF Alike
<1> QED
  BY <1>3, <1>4, <1>9

LEMMA RowTyped ==
  ASSUME NEW p, NEW be, NEW types, NEW flags, Plain(p, be, types, flags), NEW q, Sized(p, q), q.pc = Returned,
         Typed(p, types, q), SlotsHold(q, p), NEW r \in p.rows
  PROVE  Typed(p, types, OnRow(q, r))
<1>1. PICK y : y = OnRow(q, r)
  OBVIOUS
<1>2. /\ y.pc = 1 /\ y.val = q.val /\ y.nul = q.nul
      /\ y.tts = [s \in DOMAIN q.tts |-> IF s \in DOMAIN r.tuple THEN Filled(q.tts[s], r.tuple[s], r.nvalid) ELSE q.tts[s]]
  BY <1>1 DEF OnRow, Sized, HasShape, Fields
<1>3. TypesAt(types, 1) = types[1] /\ TypesAt(types, q.pc) = types[1]
  <2>1. Len(p.steps) \in Nat \ {0} /\ DOMAIN p.steps = 1..Len(p.steps) /\ DOMAIN types = DOMAIN p.steps
    BY DEF Plain, WellFormed, Certified, TypesFlow
  <2> QED
    BY <2>1 DEF TypesAt, Returned
<1>4. CellsTyped(p, TypesAt(types, y.pc), y)
  BY <1>2, <1>3 DEF Typed, CellsTyped
<1>5. Tuples(p, y)
  <2> SUFFICES ASSUME NEW s \in DOMAIN q.tts PROVE y.tts[s].tuple \in TuplesOf(p)
    BY <1>2 DEF Tuples
  <2>1. CASE s \in DOMAIN r.tuple
    <3>1. y.tts[s] = Filled(q.tts[s], r.tuple[s], r.nvalid)
      BY <1>2, <2>1
    <3>2. HoldsTuple(q.tts[s])
      BY DEF SlotsHold
    <3>3. Filled(q.tts[s], r.tuple[s], r.nvalid).tuple = r.tuple[s]
      BY <3>2 DEF HoldsTuple, SlotFields, Filled
    <3>4. r.tuple[s] \in {r.tuple[z] : z \in DOMAIN r.tuple}
      BY <2>1
    <3>5. r.tuple[s] \in UNION {{r1.tuple[z] : z \in DOMAIN r1.tuple} : r1 \in p.rows}
      BY <3>4
    <3> QED
      BY <3>1, <3>3, <3>5 DEF TuplesOf
  <2>2. CASE s \notin DOMAIN r.tuple
    BY <1>2, <2>2 DEF Typed, Tuples
  <2> QED
    BY <2>1, <2>2
<1> QED
  BY <1>1, <1>4, <1>5 DEF Typed

LEMMA AgreeStart ==
  ASSUME NEW types, NEW flags, NEW p, p = Programs[prog], Plain(p, backend, types, flags),
         AgreeOn(p, types, flags), CInv, StartRow
  PROVE  AgreeOn(p, types, flags)'
<1>1. PICK r \in p.rows : m' = OnRow(m, r) /\ ref' = OnRow(ref, r)
  BY DEF StartRow, StartRowOf
<1>2. phase = "ready" /\ phase' = "run" /\ steps' = steps /\ cases' = cases /\ mode' = mode
  BY DEF StartRow
<1>3. m.pc = Returned /\ Alike(p, flags, m, ref) /\ (mode # "interp" => Typed(p, types, ref))
  BY <1>2 DEF AgreeOn
<1>4. FlagsFlow(p, flags)
  BY DEF Plain, Certified
<1>5. Alike(p, flags, m', ref')
  BY <1>1, <1>3, <1>4, RowAlike
<1>6. mode # "interp" => Typed(p, types, ref')
  <2> SUFFICES ASSUME mode # "interp" PROVE Typed(p, types, ref')
    OBVIOUS
  <2>1. SlotsHold(m, p)
    BY DEF CInv
  <2>2. Sized(p, m) /\ m.tts = ref.tts /\ Sized(p, ref) /\ ref.pc = Returned /\ Core(p, m, ref)
    BY <1>3 DEF Alike, Core
  <2>3. Typed(p, types, m)
    BY <1>3, <2>2, TypedAlike
  <2>4. Typed(p, types, OnRow(m, r))
    BY <1>3, <2>1, <2>2, <2>3, RowTyped
  <2>5. Core(p, ref', m') /\ ref'.pc = m'.pc
    BY <1>5 DEF Alike, Core, SameResult
  <2> QED
    BY <1>1, <2>4, <2>5, TypedAlike
<1> QED
  BY <1>2, <1>5, <1>6 DEF AgreeOn

\* The machines the interpreter comes to from q.
After(p, x) == IF Over(x) THEN x ELSE Interpret(x, p.steps[x.pc])
Path(p, q, g, n) == g[0] = q /\ \A k \in 1..n : g[k] = After(p, g[k - 1])
LEMMA PathExists ==
  ASSUME NEW p, NEW q PROVE \A n \in Nat : \E g : Path(p, q, g, n)
<1> DEFINE Bad == {n \in Nat : ~\E g : Path(p, q, g, n)}
<1> SUFFICES ASSUME Bad # {} PROVE FALSE
  OBVIOUS
<1>1. PICK n \in Bad : \A y \in Bad : n <= y
  BY LeastNumber
<1>2. CASE n = 0
  <2> DEFINE g == [k \in {0} |-> q]
  <2>1. Path(p, q, g, 0)
    BY DEF Path
  <2> QED
    BY <1>1, <1>2, <2>1
<1>3. CASE n # 0
  <2>1. n \in Nat /\ n - 1 \in Nat /\ n - 1 \notin Bad
    BY <1>1, <1>3
  <2>2. PICK g : Path(p, q, g, n - 1)
    BY <2>1
  <2> DEFINE h == [k \in 0..n |-> IF k < n THEN g[k] ELSE After(p, g[n - 1])]
  <2>3. h[0] = q /\ \A k \in 1..(n - 1) : h[k] = g[k] /\ h[k - 1] = g[k - 1]
    BY <1>3, <2>1, <2>2 DEF Path
  <2>4. h[n] = After(p, g[n - 1]) /\ h[n - 1] = g[n - 1]
    BY <1>3, <2>1
  <2> HIDE DEF h
  <2>5. Path(p, q, h, n)
    <3> SUFFICES ASSUME NEW k \in 1..n PROVE h[k] = After(p, h[k - 1])
      BY <2>3 DEF Path
    <3>1. CASE k = n
      BY <2>4, <3>1
    <3>2. CASE k # n
      <4>1. k \in 1..(n - 1)
        BY <2>1, <3>2
      <4>2. g[k] = After(p, g[k - 1])
        BY <2>2, <4>1 DEF Path
      <4> QED
        BY <2>3, <4>1, <4>2
    <3> QED
      BY <3>1, <3>2
  <2> QED
    BY <1>1, <2>5
<1> QED
  BY <1>2, <1>3
LEMMA PathUnique ==
  ASSUME NEW p, NEW q PROVE \A n \in Nat : \A g, h : Path(p, q, g, n) /\ Path(p, q, h, n) => g[n] = h[n]
<1> DEFINE Bad == {n \in Nat : ~\A g, h : Path(p, q, g, n) /\ Path(p, q, h, n) => g[n] = h[n]}
<1> SUFFICES ASSUME Bad # {} PROVE FALSE
  OBVIOUS
<1>1. PICK n \in Bad : \A y \in Bad : n <= y
  BY LeastNumber
<1>2. PICK g, h : Path(p, q, g, n) /\ Path(p, q, h, n) /\ g[n] # h[n]
  BY <1>1
<1>3. n \in Nat /\ n # 0
  BY <1>1, <1>2 DEF Path
<1>4. n - 1 \in Nat /\ n - 1 \notin Bad
  BY <1>1, <1>3
<1>5. Path(p, q, g, n - 1) /\ Path(p, q, h, n - 1)
  BY <1>2, <1>3 DEF Path
<1>6. g[n - 1] = h[n - 1]
  BY <1>4, <1>5
<1>7. n \in 1..n
  BY <1>3
<1> QED
  BY <1>2, <1>6, <1>7 DEF Path
LEMMA ClosedExists ==
  ASSUME NEW p, NEW q PROVE \E S : Closed(p, S) /\ q \in S
<1> DEFINE Way(n) == CHOOSE g : Path(p, q, g, n)
           S == {Way(n)[n] : n \in Nat}
<1>1. \A n \in Nat : Path(p, q, Way(n), n)
  BY PathExists
<1> HIDE DEF Way
<1>2. q \in S
  <2>1. 0 \in Nat /\ Way(0)[0] = q
    BY <1>1 DEF Path
  <2> QED
    BY <2>1
<1>3. ASSUME NEW n \in Nat PROVE Way(n + 1)[n + 1] = After(p, Way(n)[n])
  <2>1. Path(p, q, Way(n + 1), n + 1)
    BY <1>1
  <2>2. Path(p, q, Way(n + 1), n) /\ n + 1 \in 1..(n + 1) /\ (n + 1) - 1 = n
    BY <2>1 DEF Path
  <2>3. Way(n + 1)[n] = Way(n)[n]
    BY <1>1, <2>2, PathUnique
  <2> QED
    BY <2>1, <2>2, <2>3 DEF Path
<1>4. ASSUME NEW n \in Nat, ~Over(Way(n)[n]) PROVE Interpret(Way(n)[n], p.steps[Way(n)[n].pc]) \in S
  <2>1. n + 1 \in Nat
    OBVIOUS
  <2>2. Way(n + 1)[n + 1] = Interpret(Way(n)[n], p.steps[Way(n)[n].pc])
    BY <1>3, <1>4 DEF After
  <2> QED
    BY <2>1, <2>2
<1>5. Closed(p, S)
  BY <1>4 DEF Closed
<1> HIDE DEF S
<1> QED
  BY <1>2, <1>5

\* No part of the program is searched.
LEMMA NoSearch ==
  ASSUME cases = <<>> PROVE ~RunCaseSearch
BY DEF RunCaseSearch, SearchesHere, Injected

LEMMA AgreeRun ==
  ASSUME NEW types, NEW flags, NEW p, p = Programs[prog], Plain(p, backend, types, flags),
         AgreeOn(p, types, flags), IInv, CInv, RunsCode
  PROVE  AgreeOn(p, types, flags)' /\ (Over(m') \/ (m'.pc \in DOMAIN steps /\ m'.pc > m.pc))
<1>1. phase = "run" /\ mode = "jit" /\ UNCHANGED <<prog, steps, cases, backend, mode, phase, ref>>
  BY DEF RunsCode, RunColumn, RunBoolean, RunContext, RunCompare, RunCall, RunHash, RunAggregate, Run, RunsOpcode
<1>2. steps = p.steps
  BY DEF AgreeOn
<1>3. ASSUME NEW S, Closed(p, S), ref \in S
      PROVE  /\ \E x \in S : Alike(p, flags, m', x) /\ Typed(p, types, x)
             /\ Over(m') \/ (m'.pc \in DOMAIN steps /\ m'.pc > m.pc)
  <2>1. PICK q \in S : Alike(p, flags, m, q) /\ Typed(p, types, q)
    BY <1>1, <1>3 DEF AgreeOn
  <2> QED
    BY <1>2, <1>3, <2>1, CodeStep
<1>4. \E S : Closed(p, S) /\ ref \in S
  BY ClosedExists
<1> QED
  BY <1>1, <1>3, <1>4 DEF AgreeOn

LEMMA AgreeInterpreter ==
  ASSUME NEW types, NEW flags, NEW p, p = Programs[prog], Plain(p, backend, types, flags),
         AgreeOn(p, types, flags), RunInterpreter
  PROVE  AgreeOn(p, types, flags)' /\ (Over(m') \/ (m'.pc \in DOMAIN steps /\ m'.pc > m.pc))
<1>1. /\ phase = "run" /\ mode = "interp" /\ m.pc \in DOMAIN steps /\ m' = Interpret(m, steps[m.pc])
      /\ UNCHANGED <<prog, steps, cases, backend, mode, phase, ref>>
  BY DEF RunInterpreter
<1>2. steps = p.steps
  BY DEF AgreeOn
<1>3. ASSUME NEW S, Closed(p, S), ref \in S
      PROVE  /\ \E x \in S : Alike(p, flags, m', x)
             /\ Over(m') \/ (m'.pc \in DOMAIN steps /\ m'.pc > m.pc)
  <2>1. PICK q \in S : Alike(p, flags, m, q)
    BY <1>1, <1>3 DEF AgreeOn
  <2>2. PICK i : i = m.pc
    OBVIOUS
  <2>3. i \in DOMAIN p.steps /\ q.pc = i /\ WellFormed(p)
    BY <1>1, <1>2, <2>1, <2>2 DEF Alike, Plain
  <2>4. FlagsFlow(p, flags) /\ Fits(p, i)
    BY <2>3, PlainStep
  <2>5. Alike(p, flags, m', Interpret(q, p.steps[i])) /\ StepsOn(p, i, m')
    BY <1>1, <1>2, <2>1, <2>2, <2>3, <2>4, StayAlike
  <2>6. /\ Returned \notin DOMAIN p.steps /\ Raised \notin DOMAIN p.steps /\ i \in Nat
        /\ DOMAIN p.steps = 1..Len(p.steps) /\ Len(p.steps) \in Nat
        /\ \A t \in JumpsOf(p.steps[i]) : t \in Follows(p.steps, i) /\ t > i
    BY <2>3, WhereTo
  <2>7. Interpret(q, p.steps[i]) \in S
    BY <1>3, <2>1, <2>3, <2>6 DEF Closed, Over
  <2>8. \A t \in Follows(p.steps, i) : t \in DOMAIN p.steps /\ t > i
    BY <2>6 DEF Follows
  <2> QED
    BY <1>2, <2>2, <2>5, <2>7, <2>8 DEF StepsOn, Over
<1>4. \E S : Closed(p, S) /\ ref \in S
  BY ClosedExists
<1> QED
  BY <1>1, <1>3, <1>4 DEF AgreeOn

LEMMA AgreeRef ==
  ASSUME NEW types, NEW flags, NEW p, p = Programs[prog], AgreeOn(p, types, flags), RefStep
  PROVE  AgreeOn(p, types, flags)'
<1>1. /\ phase = "ref" /\ ~Over(ref) /\ ref' = Interpret(ref, p.steps[ref.pc])
      /\ UNCHANGED <<prog, steps, cases, backend, mode, phase, m>>
  BY DEF RefStep, Source
<1>2. ASSUME NEW S, Closed(p, S), ref' \in S
      PROVE  \E q \in S : Alike(p, flags, m, q) /\ (mode # "interp" => Typed(p, types, q))
  <2> DEFINE T == S \cup {ref}
  <2>1. Closed(p, T)
    BY <1>1, <1>2 DEF Closed
  <2>2. PICK q \in T : Alike(p, flags, m, q) /\ (mode # "interp" => Typed(p, types, q))
    BY <1>1, <2>1 DEF AgreeOn
  <2>3. q # ref
    BY <1>1, <2>2 DEF AgreeOn, Alike, Over
  <2> QED
    BY <2>2, <2>3
<1> QED
  BY <1>1, <1>2 DEF AgreeOn

\* When the interpreter is done too, it is its machine that m is like.
LEMMA BothOver ==
  ASSUME NEW types, NEW flags, NEW p, AgreeOn(p, types, flags), phase = "ref", Over(ref)
  PROVE  Alike(p, flags, m, ref) /\ (mode # "interp" => Typed(p, types, ref)) /\ Over(m)
<1>1. Closed(p, {ref})
  BY DEF Closed
<1> QED
  BY <1>1 DEF AgreeOn
LEMMA SameProgram == [Next]_vars => prog' = prog /\ backend' = backend
BY DEF Next, Compile, StartRow, Execute, RunColumn, RunBoolean, RunContext, RunCompare, RunCall, RunHash, RunAggregate,
   Run, RunCaseSearch, RunInterpreter, Finish, RefStep, RowDone, vars
LEMMA AgreeNext == IInv /\ CInv /\ AInv /\ [Next]_vars => AInv'
<1> SUFFICES ASSUME IInv, CInv, AInv, [Next]_vars, NEW types, NEW flags,
                    Certified(Programs[prog], backend, types, flags)', NEW p, p = Programs[prog]
             PROVE  AgreeOn(p, types, flags)' /\ prog' = prog
  BY DEF AInv
<1>1. prog' = prog /\ backend' = backend
  BY SameProgram
<1>2. Plain(p, backend, types, flags)
  BY <1>1, ProgramsAreWellFormed DEF Plain, CInv
<1>3. AgreeOn(p, types, flags)
  BY <1>2 DEF AInv, Plain
<1>4. CASE Compile
  BY <1>1, <1>2, <1>3, <1>4, AgreeCompile
<1>5. CASE StartRow
  BY <1>1, <1>2, <1>3, <1>5, AgreeStart
<1>6. CASE RunsCode
  BY <1>1, <1>2, <1>3, <1>6, AgreeRun
<1>7. ~RunCaseSearch
  BY <1>3, NoSearch DEF AgreeOn
<1>8. CASE RunInterpreter
  BY <1>1, <1>2, <1>3, <1>8, AgreeInterpreter
<1>9. CASE Finish
  BY <1>1, <1>3, <1>9 DEF Finish, AgreeOn
<1>10. CASE RefStep
  BY <1>1, <1>3, <1>10, AgreeRef
<1>11. CASE RowDone
  <2>1. Alike(p, flags, m, ref) /\ (mode # "interp" => Typed(p, types, ref)) /\ Over(m)
    BY <1>3, <1>11, BothOver DEF RowDone
  <2> QED
    BY <1>1, <1>3, <1>11, <2>1 DEF RowDone, AgreeOn, Over
<1>12. CASE UNCHANGED vars
  BY <1>1, <1>3, <1>12 DEF AgreeOn, vars
<1> QED
  BY <1>4, <1>5, <1>6, <1>7, <1>8, <1>9, <1>10, <1>11, <1>12 DEF Next, Execute, RunsCode
LEMMA StaysCondition ==
  IsCondition(Programs[prog], backend) /\ [Next]_vars => IsCondition(Programs[prog], backend)'
BY SameProgram
LEMMA ConditionsInv == Spec => []AInv
BY AgreeInit, AgreeNext, ColumnsInit, ColumnsNext, StepsSurvive, PTL DEF Spec

\* ResultAgrees, a run's property, for conditions and projections: whatever
\* rows come, in whatever order, compiled code ends each as the interpreter
\* ends it.  Cells keep values of earlier rows and of branches not taken,
\* anynull flags stay set, sljit copies columns in batches and loops, jumps
\* land behind them: none of it shows in a result (sljit_compile_expr,
\* mir_compile_expr, pg_jitter_fallback_step).
THEOREM ConditionsAgree == Spec /\ IsCondition(Programs[prog], backend) => []ResultAgrees
<1>1. AInv /\ IsCondition(Programs[prog], backend) => ResultAgrees
  <2> SUFFICES ASSUME AInv, IsCondition(Programs[prog], backend), phase = "ref", Over(ref)
               PROVE  SameOutcome(m, ref, Programs[prog].out)
    BY DEF ResultAgrees
  <2>1. PICK types, flags : Certified(Programs[prog], backend, types, flags)
    BY DEF IsCondition
  <2>2. PICK p : p = Programs[prog]
    OBVIOUS
  <2>3. Alike(p, flags, m, ref)
    BY <2>1, <2>2, BothOver DEF AInv
  <2>4. p.out \subseteq DOMAIN p.init
    BY <2>1, <2>2 DEF Certified
  <2> QED
    BY <2>2, <2>3, <2>4 DEF SameOutcome, Alike, Core, SameResult
<1>2. Spec /\ IsCondition(Programs[prog], backend) => []IsCondition(Programs[prog], backend)
  BY StaysCondition, PTL DEF Spec
<1> QED
  BY <1>1, <1>2, ConditionsInv, PTL

\* RowAdvances, a run's property, for conditions and projections: every step
\* of compiled code ends the row or goes forward to a step of the program;
\* a batch of columns ends before DONE (sljit_compile_expr,
\* mir_compile_expr, pg_jitter_fallback_step).
THEOREM ConditionsAdvance == Spec /\ IsCondition(Programs[prog], backend) => RowAdvances
<1> DEFINE Advances == phase = "run" /\ phase' = "run" => Over(m') \/ (m'.pc \in DOMAIN steps /\ m'.pc > m.pc)
<1>1. IInv /\ CInv /\ AInv /\ IsCondition(Programs[prog], backend) /\ Next => Advances
  <2> SUFFICES ASSUME IInv, CInv, AInv, Next, IsCondition(Programs[prog], backend), phase = "run", phase' = "run"
               PROVE  Over(m') \/ (m'.pc \in DOMAIN steps /\ m'.pc > m.pc)
    OBVIOUS
  <2>1. PICK types, flags : Certified(Programs[prog], backend, types, flags)
    BY DEF IsCondition
  <2>2. PICK p : p = Programs[prog]
    OBVIOUS
  <2>3. Plain(p, backend, types, flags) /\ AgreeOn(p, types, flags)
    BY <2>1, <2>2, ProgramsAreWellFormed DEF Plain, CInv, AInv
  <2>4. ~RunCaseSearch
    BY <2>3, NoSearch DEF AgreeOn
  <2>5. RunsCode \/ RunInterpreter
    BY <2>4 DEF Next, Execute, RunsCode, Compile, StartRow, Finish, RefStep, RowDone
  <2> QED
    BY <2>2, <2>3, <2>5, AgreeRun, AgreeInterpreter
<1>2. IInv /\ CInv /\ AInv /\ IsCondition(Programs[prog], backend) /\ [Next]_vars => [Advances]_vars
  BY <1>1
<1>3. Spec /\ IsCondition(Programs[prog], backend) => []IsCondition(Programs[prog], backend)
  BY StaysCondition, PTL DEF Spec
<1> QED
  BY <1>2, <1>3, ConditionsInv, ColumnsInit, ColumnsNext, StepsSurvive, PTL DEF Spec, RowAdvances
=============================================================================
