------------------------------ MODULE ExprRun ------------------------------
(***************************************************************************)
(* An expression compiled once and evaluated on row after row.             *)
(*                                                                         *)
(* compile_expr scans the steps for CASEs to search, writes the pointers   *)
(* of the search over some of them, generates code and installs it; when   *)
(* the generation fails PostgreSQL's interpreter runs the steps as they    *)
(* are then.  The executor calls the expression once per row.  The memory  *)
(* of the steps outlives a row: cells keep old values, anynull flags and   *)
(* transition states their last content, slots the arrays of the tuple     *)
(* before.  Registers do not outlive a row.                                *)
(*                                                                         *)
(* The machine m runs the compiled code.  When a row is done the machine   *)
(* ref runs it again, by the interpreter, on the steps as PostgreSQL built *)
(* them; ref has its own memory, so a difference left in the memory of m   *)
(* by one row can show in a later one.                                     *)
(*                                                                         *)
(* A program has: steps, init (what the cells hold before the first row,   *)
(* constant arguments included), anys (anynull flags), out (the cells the  *)
(* executor reads after a row), grp and tts (transition states and slots), *)
(* rows (what the executor may hand in), rounds (rows of one execution),   *)
(* fails (is it also run when the code generation fails).                  *)
(***************************************************************************)
EXTENDS SljitValues, MirSteps, CaseSearch

CONSTANTS
  Programs,         \* the programs, a function from their names
  Backends          \* the code generators: a subset of AllBackends

\* "fallback" stands for a generator that emits no opcode but DONE and
\* leaves every step to pg_jitter_fallback_step.
AllBackends == {"sljit", "mir", "fallback"}
SlotKinds == {"scan", "inner"}

\* A program as PostgreSQL builds it: jumps go forward, DONE ends it, the
\* last step of an AND or OR is followed by its jump target.
JumpsOf(op) ==
  {op[f] : f \in DOMAIN op \cap {"jump", "jumpnull"}}
    \cup (IF "targets" \in DOMAIN op THEN {op.targets[t] : t \in DOMAIN op.targets} ELSE {})
\* Every step has an opcode; each opcode has the fields its code reads.
HasFields(op) ==
  /\ "opc" \in DOMAIN op
  /\ op.opc \in JumpOpcodes => "jump" \in DOMAIN op
  /\ op.opc = "ROWCOMPARE_STEP" => "jumpnull" \in DOMAIN op
  /\ op.opc \in {"BOOL_AND", "BOOL_OR"} =>
       {"any", "place"} \subseteq DOMAIN op /\ op.place \in {"first", "middle", "last"}
  /\ op.opc = "NULLTEST" => "isnull" \in DOMAIN op /\ op.isnull \in BOOLEAN
  /\ op.opc = "BOOLTEST" =>
       {"truth", "negated"} \subseteq DOMAIN op /\ op.truth \in BOOLEAN /\ op.negated \in BOOLEAN
  /\ op.opc = "FETCHSOME" => {"slot", "last"} \subseteq DOMAIN op /\ op.slot \in SlotKinds /\ op.last \in Nat
  /\ op.opc \in {"VAR", "ASSIGN_VAR"} =>
       {"slot", "att"} \subseteq DOMAIN op /\ op.slot \in SlotKinds /\ op.att \in Nat
  /\ op.opc = "ASSIGN_VAR" => "resno" \in DOMAIN op /\ op.resno \in Nat
\* ExecPushExprSetupSteps: slots are deformed before anything else is done,
\* each up to the last column that is read from it; a virtual slot, which
\* has all its columns (nvalid), is not deformed.
Fetches(op, k) == op.opc = "FETCHSOME" /\ op.slot = k
FetchesComeFirst(ss) == \A i, j \in DOMAIN ss : ss[j].opc = "FETCHSOME" /\ i < j => ss[i].opc = "FETCHSOME"
ColumnsAreFetched(ss, p) ==
  \A i \in DOMAIN ss : ss[i].opc \in {"VAR", "ASSIGN_VAR"} =>
     /\ \A s \in DOMAIN p.tts : ss[i].att \in DOMAIN p.tts[s].val
     /\ \/ \E j \in DOMAIN ss : Fetches(ss[j], ss[i].slot) /\ ss[i].att <= ss[j].last
        \/ /\ \A j \in DOMAIN ss : ~Fetches(ss[j], ss[i].slot)
           /\ \A r \in p.rows : r.ec.slot[ss[i].slot] \in DOMAIN r.tuple /\ ss[i].att <= r.nvalid
\* Each column of the result slot is a cell.
ResultsAreCells(ss) ==
  \A i, j \in {i \in DOMAIN ss : ss[i].opc = "ASSIGN_VAR"} : ss[i].res = ss[j].res <=> ss[i].resno = ss[j].resno
\* The columns of a slot that count as deformed are those of its tuple.
SlotFields == {"tuple", "nvalid", "val", "nul", "sys"}
HoldsTuple(s) ==
  /\ DOMAIN s = SlotFields /\ s.nvalid \in Nat /\ DOMAIN s.val \subseteq Nat /\ DOMAIN s.nul = DOMAIN s.val
  /\ \A a \in DOMAIN s.val : a <= s.nvalid => s.val[a] = s.tuple[a].v /\ s.nul[a] = s.tuple[a].n
SlotsAreReady(p) ==
  /\ \A s \in DOMAIN p.tts : HoldsTuple(p.tts[s])
  /\ \A r \in p.rows :
       r.nvalid \in Nat /\ "slot" \in DOMAIN r.ec /\ \A k \in SlotKinds : r.ec.slot[k] \in DOMAIN p.tts
WellFormed(p) ==
  /\ Len(p.steps) \in Nat \ {0} /\ DOMAIN p.steps = 1..Len(p.steps) /\ p.steps[Len(p.steps)].opc = "DONE"
  /\ \A i \in DOMAIN p.steps :
       /\ HasFields(p.steps[i])
       /\ \A t \in JumpsOf(p.steps[i]) : t \in (i + 1)..Len(p.steps)
       /\ p.steps[i].opc \in {"BOOL_AND", "BOOL_OR"} =>
            p.steps[i].any \in p.anys /\ (p.steps[i].place = "last" => p.steps[i].jump = i + 1)
  /\ FetchesComeFirst(p.steps) /\ ColumnsAreFetched(p.steps, p) /\ SlotsAreReady(p) /\ ResultsAreCells(p.steps)

ASSUME ProgramsAreWellFormed == \A p \in DOMAIN Programs : WellFormed(Programs[p])
ASSUME BackendsExist == Backends \subseteq AllBackends

VARIABLES
  prog,       \* the name of the program
  steps,      \* its steps, as compilation leaves them
  cases,      \* the CASEs found in it
  backend,    \* the code generator
  mode,       \* what evalfunc runs: "none", "jit", "interp"
  phase,      \* "new", "ready", "run", "ref", "stopped"
  m,          \* the machine that runs the compiled code
  ref,        \* the machine of the interpreter
  round       \* rows so far

vars == <<prog, steps, cases, backend, mode, phase, m, ref, round>>

\* The steps PostgreSQL built.
Source == Programs[prog].steps

\* palloc0, and the constants ExecInitExpr puts into argument cells.
FreshMachine(p) ==
  [pc |-> Returned,
   val |-> [c \in DOMAIN p.init |-> p.init[c].v], nul |-> [c \in DOMAIN p.init |-> p.init[c].n],
   any |-> [a \in p.anys \cup {"desc"} |-> FALSE],
   ec |-> [slot |-> [k \in SlotKinds |-> "s1"]], tts |-> p.tts, grp |-> p.grp,
   mcx |-> "caller", cptr |-> [k \in SlotKinds |-> "none"], hreg |-> 0]

InitOf(p) == steps = p.steps /\ m = FreshMachine(p)
Init ==
  /\ prog \in DOMAIN Programs /\ backend \in Backends
  /\ InitOf(Programs[prog]) /\ ref = m /\ cases = <<>>
  /\ mode = "none" /\ phase = "new" /\ round = 0

(***************************************************************************)
(* Compilation.                                                            *)
(***************************************************************************)
\* The CASEs to search; the tables of the IN lists.
WithPlan(op, plan) == [f \in DOMAIN op \cup {"plan"} |-> IF f = "plan" THEN plan ELSE op[f]]
PlanList(op) ==
  CASE backend = "sljit" -> WithPlan(op, SljitListPath(op))
    [] backend = "mir" -> WithPlan(op, MirListPath(op))
    [] OTHER -> op
\* Constants are read from the argument cells (fcinfo->args).
Cells(mm) == [c \in DOMAIN mm.val |-> Res(mm, c)]
Prepare ==
  /\ cases' = IF backend = "fallback" THEN <<>> ELSE DetectCaseBsearch(steps, Cells(m))
  /\ steps' = [i \in DOMAIN steps |->
                 LET op == SetupArrays(steps, cases')[i] IN IF op.opc = "HASHED_SAOP" THEN PlanList(op) ELSE op]
\* When the generation fails the steps have been written over already.
Compile ==
  /\ phase = "new"
  /\ Prepare
  /\ phase' = "ready"
  /\ mode' = "jit" \/ (Programs[prog].fails /\ mode' = "interp")
  /\ UNCHANGED <<prog, backend, m, ref, round>>

(***************************************************************************)
(* A row.  Slots get new tuples, of which somebody else may have deformed  *)
(* some columns (nvalid); the arrays keep what was there beyond them.      *)
(***************************************************************************)
Filled(s, tuple, nvalid) ==
  [s EXCEPT !.tuple = tuple, !.nvalid = nvalid,
            !.val = [a \in DOMAIN @ |-> IF a <= nvalid THEN tuple[a].v ELSE @[a]],
            !.nul = [a \in DOMAIN @ |-> IF a <= nvalid THEN tuple[a].n ELSE @[a]]]
OnRow(mm, r) ==
  [mm EXCEPT !.pc = 1, !.ec = r.ec,
             !.tts = [s \in DOMAIN @ |-> IF s \in DOMAIN r.tuple THEN Filled(@[s], r.tuple[s], r.nvalid) ELSE @[s]],
             !.cptr = [k \in SlotKinds |-> "none"], !.hreg = 0]
StartRowOf(p) ==
  /\ round < p.rounds
  /\ \E r \in p.rows : m' = OnRow(m, r) /\ ref' = OnRow(ref, r)
StartRow ==
  /\ phase = "ready" /\ StartRowOf(Programs[prog])
  /\ phase' = "run" /\ round' = round + 1
  /\ UNCHANGED <<prog, steps, cases, backend, mode>>

(***************************************************************************)
(* The compiled code, a step at a time.                                    *)
(***************************************************************************)
\* The search that replaces the CASE whose variable has just been loaded.
SearchesHere == {i \in Injected(cases) : i.start + 1 = m.pc}
RunsOpcode(family) ==
  /\ phase = "run" /\ mode = "jit"
  /\ m.pc \in DOMAIN steps /\ steps[m.pc].opc \in family /\ SearchesHere = {}
Here == steps[m.pc]
ByBackend(sljit, mir, fallback) ==
  CASE backend = "sljit" -> Landed(sljit, steps) [] backend = "mir" -> mir [] OTHER -> fallback
Run(family, after) ==
  /\ RunsOpcode(family)
  /\ m' = after
  /\ UNCHANGED <<prog, steps, cases, backend, mode, phase, ref, round>>
RunColumn == Run(Columns, ByBackend(SljitColumn(m, steps), MirColumn(m, Here), FallbackColumn(m, Here)))
RunBoolean == Run(Booleans, ByBackend(SljitBoolean(m, Here), MirBoolean(m, Here), FallbackBoolean(m, Here)))
RunContext == Run(Contexts, ByBackend(SljitContext(m, Here), MirContext(m, Here), FallbackContext(m, Here)))
RunCompare == Run(Compares, ByBackend(SljitCompare(m, Here), MirComparison(m, Here), FallbackCompare(m, Here)))
RunCall == Run(Calls, ByBackend(SljitCall(m, Here), MirCall(m, Here), FallbackCall(m, Here)))
RunHash == Run(Hashes, ByBackend(SljitHash(m, Here), MirHash(m, Here), FallbackHashStep(m, Here)))
RunAggregate ==
  Run(Aggregates, ByBackend(SljitAggregate(m, Here), MirAggregate(m, Here), FallbackAggregate(m, Here)))
RunCaseSearch ==
  /\ phase = "run" /\ mode = "jit"
  /\ \E info \in SearchesHere :
       LET var == steps[info.start].res
           else == steps[info.else].res
           found == IF m.nul[var] THEN info.default ELSE SelectHelper(info, m.val[var])
       IN  m' = IF backend = "sljit" THEN Landed(SljitCaseSearch(m, var, else, info, found), steps)
                ELSE MirCaseSearch(m, var, else, info, found)
  /\ UNCHANGED <<prog, steps, cases, backend, mode, phase, ref, round>>
\* Without code the interpreter runs the steps, overwritten or not.
RunInterpreter ==
  /\ phase = "run" /\ mode = "interp" /\ m.pc \in DOMAIN steps
  /\ m' = Interpret(m, steps[m.pc])
  /\ UNCHANGED <<prog, steps, cases, backend, mode, phase, ref, round>>

(***************************************************************************)
(* The row is done: the reference runs it.  An ERROR ends the query.       *)
(***************************************************************************)
Over(mm) == mm.pc \in {Returned, Raised}
Finish ==
  /\ phase = "run" /\ Over(m)
  /\ phase' = "ref"
  /\ UNCHANGED <<prog, steps, cases, backend, mode, m, ref, round>>
RefStep ==
  /\ phase = "ref" /\ ~Over(ref)
  /\ ref' = Interpret(ref, Source[ref.pc])
  /\ UNCHANGED <<prog, steps, cases, backend, mode, phase, m, round>>
RowDone ==
  /\ phase = "ref" /\ Over(ref)
  /\ phase' = IF m.pc = Raised THEN "stopped" ELSE "ready"
  /\ UNCHANGED <<prog, steps, cases, backend, mode, m, ref, round>>

Execute ==
  \/ RunColumn \/ RunBoolean \/ RunContext \/ RunCompare \/ RunCall \/ RunHash \/ RunAggregate
  \/ RunCaseSearch \/ RunInterpreter \/ Finish
Next == Compile \/ StartRow \/ Execute \/ RefStep \/ RowDone

Spec == Init /\ [][Next]_vars

(***************************************************************************)
(* Properties.                                                             *)
(***************************************************************************)
\* Cells hold a Datum and a flag; the machines have the same memory.
IsMachine(mm) ==
  /\ mm.pc \in {Returned, Raised, Lost} \cup DOMAIN steps
  /\ DOMAIN mm.nul = DOMAIN mm.val
  /\ \A c \in DOMAIN mm.val : mm.val[c] \in Int /\ mm.nul[c] \in BOOLEAN
  /\ \A a \in DOMAIN mm.any : mm.any[a] \in BOOLEAN
  /\ \A g \in DOMAIN mm.grp : mm.grp[g].v \in Int /\ mm.grp[g].n \in BOOLEAN /\ mm.grp[g].no \in BOOLEAN
  /\ mm.cptr \in [SlotKinds -> DOMAIN mm.tts \cup {"none"}]
  /\ mm.mcx \in {"caller", "tuple"} /\ mm.hreg \in 0..(2^Bits4 - 1)
SameMemory(a, b) ==
  DOMAIN a.val = DOMAIN b.val /\ DOMAIN a.any = DOMAIN b.any /\ DOMAIN a.grp = DOMAIN b.grp /\ DOMAIN a.tts = DOMAIN b.tts
\* Every variable has its type: no step leaves a cell without a Datum and a
\* flag, or the program counter outside the program (sljit_compile_expr,
\* mir_compile_expr, pg_jitter_fallback_step).
TypeOK ==
  /\ backend \in Backends
  /\ mode \in {"none", "jit", "interp"} /\ phase \in {"new", "ready", "run", "ref", "stopped"}
  /\ IsMachine(m) /\ IsMachine(ref) /\ SameMemory(m, ref)

\* What the executor sees of a cell, and of a transition state.
SameResult(a, b) == a.n = b.n /\ (~a.n => a.v = b.v)
SameOutcome(a, b, out) ==
  /\ a.pc = b.pc
  /\ a.pc = Returned =>
       /\ \A c \in out : SameResult(Res(a, c), Res(b, c))
       /\ \A g \in DOMAIN a.grp :
            /\ SameResult([v |-> a.grp[g].v, n |-> a.grp[g].n], [v |-> b.grp[g].v, n |-> b.grp[g].n])
            /\ a.grp[g].no = b.grp[g].no
       /\ a.ec = b.ec /\ a.mcx = b.mcx
\* A row evaluated by compiled code ends as the interpreter ends it: the
\* same ERROR or none, the same results, transition states and memory
\* context, whatever earlier rows left in the memory of the steps.
ResultAgrees == phase = "ref" /\ Over(ref) => SameOutcome(m, ref, Programs[prog].out)

\* A column is read from the arrays of the slot the context has for this
\* row, and they hold this row's tuple: the pointers cached in registers by
\* FETCHSOME are never those of another slot, the column never one that the
\* arrays keep from an earlier tuple (sljit_compile_expr, slots_cached).
ColumnsAreCurrent ==
  RunsOpcode({"VAR", "ASSIGN_VAR"}) =>
    LET op == steps[m.pc]
        s == IF backend = "sljit" /\ SlotCached(steps, m.pc) THEN m.cptr[op.slot] ELSE SlotOf(m, op)
    IN  /\ s = SlotOf(m, op)
        /\ op.att <= m.tts[s].nvalid
        /\ m.tts[s].val[op.att] = m.tts[s].tuple[op.att].v /\ m.tts[s].nul[op.att] = m.tts[s].tuple[op.att].n

IsLast(op) == op.opc \in {"BOOL_AND", "BOOL_OR"} /\ op.place = "last"
\* Does a step leave what the interpreter's step leaves?
SameEffect(a, b) ==
  /\ a.pc = b.pc
  /\ \A c \in DOMAIN b.nul : SameResult(Res(a, c), Res(b, c))
  /\ a.ec = b.ec /\ a.tts = b.tts /\ a.grp = b.grp /\ a.mcx = b.mcx
\* Each boolean or jump step goes where the interpreter goes and leaves the
\* same cells, from any memory in which the cell of an IS TRUE or its kin is
\* NULL or holds a boolean; and the same anynull flag, which is dead after the
\* last step of an AND or OR.
\* JUMP_IF_NOT_TRUE of pg_jitter_fallback_step also stores false, into a
\* cell that its jump target writes again.
BooleanStepsAgree ==
  [][ LET op == steps[m.pc]
      IN  /\ RunsOpcode(Booleans) /\ m.nul[op.res] \in BOOLEAN
          /\ op.opc = "BOOLTEST" => m.nul[op.res] \/ m.val[op.res] \in {0, 1}
          /\ ~(backend = "fallback" /\ op.opc = "JUMP_IF_NOT_TRUE")
          => /\ SameEffect(m', InterpBoolean(m, op))
             /\ IsLast(op) \/ m'.any = InterpBoolean(m, op).any ]_vars

\* A row that is started ends: every step goes forward in the program or
\* ends the row, none goes to a place that is no step, such as a jump target
\* that a pointer of a search was written over.
RowAdvances ==
  [][ phase = "run" /\ phase' = "run" => Over(m') \/ (m'.pc \in DOMAIN steps /\ m'.pc > m.pc) ]_vars
=============================================================================
