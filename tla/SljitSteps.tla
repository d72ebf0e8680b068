----------------------------- MODULE SljitSteps -----------------------------
(***************************************************************************)
(* What the code the sljit backend emits for a step does: one operator per *)
(* case of the switch in sljit_compile_expr, or per emission path of a     *)
(* case that has several.  Choices made while compiling are fields of the  *)
(* step (path, place) or computed from the program.                        *)
(***************************************************************************)
EXTENDS ExprMachine, SljitInline

CONSTANTS
  Word,              \* the bytes of a word of text compared at once
  LoopColumns        \* from so many columns on, a loop copies them (32)

(***************************************************************************)
(* Pre-scan.  A batch of columns never reaches over a jump target.         *)
(***************************************************************************)
JumpOpcodes ==
  {"JUMP", "JUMP_IF_NULL", "JUMP_IF_NOT_NULL", "JUMP_IF_NOT_TRUE", "QUAL", "BOOL_AND", "BOOL_OR",
   "ROWCOMPARE_STEP", "SUBSCRIPTS", "HASH_FIRST_STRICT", "HASH_NEXT_STRICT", "DESERIALIZE", "STRICT_INPUT",
   "PERGROUP", "PRESORTED", "RETURNINGEXPR"}
IsJumpTarget(steps, i) ==
  \E j \in DOMAIN steps :
     /\ steps[j].opc \in JumpOpcodes
     /\ \/ "jump" \in DOMAIN steps[j] /\ steps[j].jump = i
        \/ steps[j].opc = "ROWCOMPARE_STEP" /\ steps[j].jumpnull = i
\* Mutant: the batch takes in jump targets.
InBatchOverTargets(steps, i, e) ==
  \A k \in (i + 1)..e : steps[k].opc = steps[i].opc /\ steps[k].slot = steps[i].slot
InBatch(steps, i, e) ==
  \A k \in (i + 1)..e : /\ ~IsJumpTarget(steps, k)
                        /\ steps[k].opc = steps[i].opc /\ steps[k].slot = steps[i].slot
BatchEnd(steps, i) ==
  CHOOSE e \in i..Len(steps) : InBatch(steps, i, e) /\ (e = Len(steps) \/ ~InBatch(steps, i, e + 1))
\* The labels of the steps a batch took in are at its end: a jump to one of
\* them lands past the batch.
TakenIn(steps, t) ==
  /\ t > 1 /\ t \in DOMAIN steps
  /\ steps[t].opc \in {"VAR", "ASSIGN_VAR"} /\ steps[t - 1].opc = steps[t].opc
  /\ InBatch(steps, t - 1, t)
Landed(m, steps) ==
  IF m.pc \in DOMAIN steps /\ TakenIn(steps, m.pc) THEN [m EXCEPT !.pc = BatchEnd(steps, @) + 1] ELSE m
\* slots_cached: set once the FETCHSOME of the slot has been emitted.
SlotCached(steps, i) ==
  \E j \in 1..(i - 1) : steps[j].opc = "FETCHSOME" /\ steps[j].slot = steps[i].slot

(***************************************************************************)
(* Columns.                                                                *)
(***************************************************************************)
SljitDone(m, op) == Goto(m, Returned)

\* Mutant: the arrays are cached after deforming only.
SljitFetchSomeSlowOnly(m, op) ==
  LET s == SlotOf(m, op)
  IN  IF m.tts[s].nvalid >= op.last THEN Skip(m) ELSE Skip([GetSomeAttrs(m, s, op.last) EXCEPT !.cptr[op.slot] = s])
\* Deform unless the columns are there, then cache the slot's arrays on
\* both paths.
SljitFetchSome(m, op) ==
  LET s == SlotOf(m, op)
      m1 == IF m.tts[s].nvalid >= op.last THEN m ELSE GetSomeAttrs(m, s, op.last)
  IN  Skip([m1 EXCEPT !.cptr[op.slot] = s])

\* The arrays a column is read from: the cached ones, or the slot's.
ArraysOf(m, steps, i) ==
  IF SlotCached(steps, i) THEN m.tts[m.cptr[steps[i].slot]] ELSE m.tts[SlotOf(m, steps[i])]
\* The batch stores all values first, then all null flags, and ends past
\* its last step.
CopyColumns(m, steps) ==
  LET i == m.pc
      e == BatchEnd(steps, i)
      a == ArraysOf(m, steps, i)
      Last(c) == CHOOSE k \in i..e : steps[k].res = c /\ \A l \in (k + 1)..e : steps[l].res # c
      cells == {steps[k].res : k \in i..e}
  IN  [m EXCEPT !.val = [c \in DOMAIN @ |-> IF c \in cells THEN a.val[steps[Last(c)].att] ELSE @[c]],
                !.nul = [c \in DOMAIN @ |-> IF c \in cells THEN a.nul[steps[Last(c)].att] ELSE @[c]],
                !.pc = e + 1]
SljitVar(m, steps) == CopyColumns(m, steps)
SljitAssignVar(m, steps) == CopyColumns(m, steps)
\* From 32 columns on, if those read and those written are in sequence, a
\* counted loop.
InSequence(steps, i, e) ==
  \A k \in (i + 1)..e : steps[k].att = steps[i].att + (k - i) /\ steps[k].resno = steps[i].resno + (k - i)
IsLoop(steps, i) == BatchEnd(steps, i) - i + 1 >= LoopColumns /\ InSequence(steps, i, BatchEnd(steps, i))
SljitAssignVarLoop(m, steps) ==
  LET i == m.pc
      e == BatchEnd(steps, i)
      a == ArraysOf(m, steps, i)
      Col(c) == CHOOSE k \in i..e : steps[k].res = c
  IN  [m EXCEPT !.val = [c \in DOMAIN @ |->
                           IF \E k \in i..e : steps[k].res = c
                           THEN a.val[steps[i].att + (Col(c) - i)] ELSE @[c]],
                !.nul = [c \in DOMAIN @ |->
                           IF \E k \in i..e : steps[k].res = c
                           THEN a.nul[steps[i].att + (Col(c) - i)] ELSE @[c]],
                !.pc = e + 1]

SljitAssignTmp(m, op) ==
  LET r == Res(m, "state")
      v == IF op.readonly /\ ~r.n THEN MakeReadOnly(r.v) ELSE r.v
  IN  Skip(SetRes(m, op.res, v, r.n))
SljitConst(m, op) == Skip(SetNul(SetVal(m, op.res, op.v), op.res, op.n))

(***************************************************************************)
(* Function calls.  A strict call with a NULL argument stores the flag     *)
(* only: the value cell keeps what it had.                                 *)
(***************************************************************************)
ArgValues(m, op) == [i \in DOMAIN op.args |-> m.val[op.args[i]]]
SljitStrictNull(m, op) == Skip(SetNul(m, op.res, TRUE))
\* Tier 0: instructions.  Tier 1: the native function.  Neither sees flags.
SljitCallInline(m, op) == StoreNotNull(m, op.res, SljitInlineOp(op.fn, ArgValues(m, op)))
SljitCallDirect(m, op) ==
  StoreNotNull(m, op.res, Apply(op.fn, [i \in DOMAIN op.args |-> Ok(m.val[op.args[i]])]))
\* Tier 2: fcinfo->isnull is reset, the function called, both results stored.
SljitCallV1(m, op) == StoreCall(m, op.res, Apply(op.fn, Args(m, op)))
\* LIKE with a short constant prefix: a word of the text is masked and
\* compared; a text shorter than the word, or not in short form, goes to
\* the helper.
SljitLikePrefix(m, op) ==
  LET t == TextOf[m.val[op.args[1]]]
      starts == \A i \in 1..Len(op.literal) : t.body[i] = op.literal[i]
      found == CASE t.form # "short" -> op.helper[m.val[op.args[1]]]
                 [] t.form = "short" /\ Len(t.body) < Len(op.literal) -> FALSE
                 [] t.form = "short" /\ Len(t.body) >= Len(op.literal) /\ Len(t.body) < Word
                    -> op.helper[m.val[op.args[1]]]
                 [] OTHER -> starts
  IN  StoreNotNull(m, op.res, Truth(found # op.negate))
\* Any other constant pattern: a helper called with the compiled pattern.
SljitLikeHelper(m, op) == StoreNotNull(m, op.res, Truth(op.helper[m.val[op.args[1]]] # op.negate))
\* PCRE2: the text of a short datum is matched in place.
SljitRegex(m, op) ==
  LET t == TextOf[m.val[op.args[1]]]
      found == IF t.form = "short" THEN op.matchraw[t.body] ELSE op.matchtext[m.val[op.args[1]]]
  IN  StoreNotNull(m, op.res, Truth(found # op.negate))
\* doc ->> 'key': the helper writes the null flag itself.
SljitJsonbField(m, op) ==
  StoreCall(m, op.res, Apply(op.fn, Args(m, op)))
SljitFuncExpr(m, op) ==
  IF op.strict /\ AnyArgNull(m, op) THEN SljitStrictNull(m, op)
  ELSE CASE op.path = "inline" -> SljitCallInline(m, op)
         [] op.path = "direct" -> SljitCallDirect(m, op)
         [] op.path = "prefix" -> SljitLikePrefix(m, op)
         [] op.path = "like" -> SljitLikeHelper(m, op)
         [] op.path = "regex" -> SljitRegex(m, op)
         [] op.path = "jsonb" -> SljitJsonbField(m, op)
         [] OTHER -> SljitCallV1(m, op)

(***************************************************************************)
(* Booleans and jumps.                                                     *)
(***************************************************************************)
SljitBoolEnd(m, op) ==
  IF op.place = "last" /\ m.any[op.any] THEN Skip(SetRes(m, op.res, 0, TRUE)) ELSE Skip(m)
SljitBoolAnd(m, op) ==
  LET m1 == IF op.place = "first" THEN [m EXCEPT !.any[op.any] = FALSE] ELSE m
  IN  CASE m.nul[op.res] -> SljitBoolEnd([m1 EXCEPT !.any[op.any] = TRUE], op)
        [] ~m.nul[op.res] /\ m.val[op.res] = 0 -> Goto(m1, op.jump)
        [] OTHER -> SljitBoolEnd(m1, op)
SljitBoolOr(m, op) ==
  LET m1 == IF op.place = "first" THEN [m EXCEPT !.any[op.any] = FALSE] ELSE m
  IN  CASE m.nul[op.res] -> SljitBoolEnd([m1 EXCEPT !.any[op.any] = TRUE], op)
        [] ~m.nul[op.res] /\ m.val[op.res] # 0 -> Goto(m1, op.jump)
        [] OTHER -> SljitBoolEnd(m1, op)
SljitBoolNot(m, op) == Skip(SetVal(m, op.res, NotDatum(m.val[op.res])))
SljitQual(m, op) ==
  IF m.nul[op.res] \/ m.val[op.res] = 0
  THEN Goto(SetVal(SetNul(m, op.res, FALSE), op.res, 0), op.jump)
  ELSE Skip(m)
SljitJump(m, op) == Goto(m, op.jump)
SljitJumpIfNull(m, op) == JumpIf(m, m.nul[op.res], op.jump)
SljitJumpIfNotNull(m, op) == JumpIf(m, ~m.nul[op.res], op.jump)
\* Mutant: the null flag is not looked at.
SljitJumpIfFalse(m, op) == JumpIf(m, m.val[op.res] = 0, op.jump)
SljitJumpIfNotTrue(m, op) ==
  IF m.nul[op.res] THEN Goto(m, op.jump) ELSE JumpIf(m, m.val[op.res] = 0, op.jump)
SljitNullTest(m, op) ==
  LET flag == BoolDatum(m.nul[op.res])
  IN  Skip(SetRes(m, op.res, IF op.isnull THEN flag ELSE 1 - flag, FALSE))
SljitStrictInput(m, op) == JumpIf(m, AnyArgNull(m, op), op.jump)
SljitPerGroup(m, op) == JumpIf(m, ~m.grp[op.grp].here, op.jump)

\* A CASE replaced by a search: injected after the step that loads the
\* variable.  What is found is stored in the cell of the ELSE; a NULL has
\* the default.
SljitCaseSearch(m, var, else, info, found) ==
  IF m.nul[var] THEN Goto(SetRes(m, else, info.default, FALSE), info.end)
  ELSE Goto(SetNul(SetVal(m, else, found), else, FALSE), info.end)
=============================================================================
