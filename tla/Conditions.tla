----------------------------- MODULE Conditions -----------------------------
(***************************************************************************)
(* The expressions for which ExprProofs shows that compiled code and the   *)
(* interpreter agree: columns, constants, strict calls, and all that       *)
(* boolean steps and jumps make of them; conditions of WHERE and JOIN,     *)
(* CASE with conditions, COALESCE, projections.                            *)
(*                                                                         *)
(* Two certificates go with a program.  types says for each step which     *)
(* cells it may rely on and what values they may hold if not NULL, flags   *)
(* which anynull flags have been set by the first step of their AND or OR. *)
(* Cells that are in no type hold what an earlier row left there.          *)
(* MCExprRun computes certificates of its programs.                        *)
(***************************************************************************)
EXTENDS ExprRun

ConditionOpcodes == {"DONE", "FETCHSOME", "VAR", "ASSIGN_VAR", "ASSIGN_TMP", "CONST", "FUNCEXPR"} \cup Booleans
\* Those that store a value of their own.
Storing == {"VAR", "ASSIGN_VAR", "ASSIGN_TMP", "CONST", "FUNCEXPR", "BOOL_NOT", "QUAL", "NULLTEST", "BOOLTEST"}
\* Where a step may go.
Follows(ss, i) == ({i + 1} \cup JumpsOf(ss[i])) \cap DOMAIN ss

\* The tuples that slots may hold.
TuplesOf(p) ==
  {p.tts[s].tuple : s \in DOMAIN p.tts} \cup UNION {{r.tuple[s] : s \in DOMAIN r.tuple} : r \in p.rows}

(***************************************************************************)
(* Calls.  Compiled code and the interpreter call the same function, unless*)
(* it is emitted as instructions: then these must compute what it computes *)
(* for every value the arguments may have, and neither may return NULL.    *)
(***************************************************************************)
ArgumentsOf(op, ty) ==
  {x \in [DOMAIN op.args -> UNION {ty[op.args[k]] : k \in DOMAIN op.args}] : \A k \in DOMAIN op.args : x[k] \in ty[op.args[k]]}
Answers(op, x) == Apply(op.fn, [k \in DOMAIN op.args |-> Ok(x[k])])
Emitted(be, op, x) ==
  CASE be = "sljit" /\ op.path = "inline" -> SljitInlineOp(op.fn, x)
    [] be = "mir" /\ op.path = "inline" /\ op.fn \in MirInlineOps -> MirInlineOp(op.fn, x)
    [] OTHER -> Answers(op, x)
CallsAgree(be, op, ty) ==
  /\ op.strict /\ op.path \in {"inline", "direct", "v1"}
  /\ \A k \in DOMAIN op.args : op.args[k] \in DOMAIN ty
  /\ \A x \in ArgumentsOf(op, ty) :
       LET r == Answers(op, x)
       IN  Emitted(be, op, x) = r /\ (IsErr(r) \/ (r.n \in BOOLEAN /\ (op.path # "v1" => ~r.n)))

(***************************************************************************)
(* Steps.                                                                  *)
(***************************************************************************)
\* V has every value that a step may store, given the types before it.
Stores(p, i, ty, V) ==
  LET op == p.steps[i]
  IN  CASE op.opc \in {"VAR", "ASSIGN_VAR"} -> \A t \in TuplesOf(p) : t[op.att].n \/ t[op.att].v \in V
        [] op.opc = "ASSIGN_TMP" ->
             "state" \in DOMAIN ty /\ \A v \in ty["state"] : (IF op.readonly THEN MakeReadOnly(v) ELSE v) \in V
        [] op.opc = "CONST" -> op.n \/ op.v \in V
        [] op.opc = "FUNCEXPR" ->
             \A x \in ArgumentsOf(op, ty) : LET r == Answers(op, x) IN IsErr(r) \/ r.n \/ r.v \in V
        [] op.opc = "QUAL" -> 0 \in V /\ op.res \in DOMAIN ty /\ ty[op.res] \subseteq V
        [] OTHER -> {0, 1} \subseteq V
\* What each step needs.  pg_jitter_fallback_step has a second effect of
\* JUMP_IF_NOT_TRUE and of a read-only ASSIGN_TMP that later steps could see.
StepIsPlain(p, be, i, ty) ==
  LET op == p.steps[i]
  IN  /\ op.opc \in ConditionOpcodes /\ (op.opc = "DONE" => i = Len(p.steps))
      /\ op.opc \notin {"DONE", "FETCHSOME"} => op.res \in DOMAIN p.init
      /\ op.opc \in {"VAR", "ASSIGN_VAR"} => \A t \in TuplesOf(p) : t[op.att].n \in BOOLEAN
      /\ op.opc = "ASSIGN_TMP" => "state" \in DOMAIN p.init /\ op.readonly \in BOOLEAN
      /\ op.opc = "CONST" => op.n \in BOOLEAN
      /\ op.opc = "FUNCEXPR" => CallsAgree(be, op, ty)
      /\ op.opc = "BOOLTEST" => op.res \in DOMAIN ty /\ ty[op.res] \subseteq {0, 1}
      /\ be = "fallback" => op.opc # "JUMP_IF_NOT_TRUE" /\ ~(op.opc = "ASSIGN_TMP" /\ op.readonly)

(***************************************************************************)
(* The certificates.                                                       *)
(***************************************************************************)
TypesFlow(p, types) ==
  /\ DOMAIN types = DOMAIN p.steps /\ \A i \in DOMAIN p.steps : DOMAIN types[i] \subseteq DOMAIN p.init
  /\ \A i \in DOMAIN p.steps : \A t \in Follows(p.steps, i) : \A c \in DOMAIN types[t] :
       IF p.steps[i].opc \in Storing /\ c = p.steps[i].res THEN Stores(p, i, types[i], types[t][c])
       ELSE c \in DOMAIN types[i] /\ types[i][c] \subseteq types[t][c]
\* At the start of a row a cell holds what it held at first, or at the end
\* of the row before.
TypesStart(p, types) ==
  \A c \in DOMAIN types[1] :
     /\ p.init[c].n \/ p.init[c].v \in types[1][c]
     /\ c \in DOMAIN types[Len(p.steps)] /\ types[Len(p.steps)][c] \subseteq types[1][c]
FlagsFlow(p, flags) ==
  /\ DOMAIN flags = DOMAIN p.steps /\ flags[1] = {} /\ \A i \in DOMAIN p.steps : flags[i] \subseteq p.anys
  /\ \A i \in DOMAIN p.steps :
       LET op == p.steps[i]
           connective == op.opc \in {"BOOL_AND", "BOOL_OR"}
       IN  /\ connective /\ op.place # "first" => op.any \in flags[i]
           /\ \A t \in Follows(p.steps, i) : \A f \in flags[t] :
                /\ f \in flags[i] \/ (connective /\ op.place = "first" /\ f = op.any)
                /\ ~(IsLast(op) /\ f = op.any)

\* A program that is such an expression, with its certificates; no part of
\* it becomes a search.
Certified(p, be, types, flags) ==
  /\ p.steps = [i \in DOMAIN p.steps |-> p.steps[i]]
  /\ \A c \in DOMAIN p.init : p.init[c].n \in BOOLEAN
  /\ p.out \subseteq DOMAIN p.init
  /\ DetectCaseBsearch(p.steps, Cells(FreshMachine(p))) = <<>>
  /\ TypesFlow(p, types) /\ TypesStart(p, types) /\ FlagsFlow(p, flags)
  /\ \A i \in DOMAIN p.steps : StepIsPlain(p, be, i, types[i])
IsCondition(p, be) == \E types, flags : Certified(p, be, types, flags)
=============================================================================
