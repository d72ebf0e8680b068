------------------------------ MODULE InLists ------------------------------
(***************************************************************************)
(* IN lists: the searches the generators use instead of PostgreSQL's       *)
(* hashed lookup.  A constant list is taken apart while compiling: its     *)
(* non-NULL elements, sorted, become a tree of comparisons, an array       *)
(* scanned a few elements at a time, or an open-addressing table; a list   *)
(* of texts becomes a table of hashes.  scalar op ANY (array) that is not  *)
(* hashed runs a loop in C (pg_jitter_simd.c).                             *)
(***************************************************************************)
EXTENDS ExprMachine, FiniteSets, TLC

CONSTANTS
  TableMin,          \* the smallest table (16 slots in the code)
  Lanes,             \* elements compared by one SIMD instruction
  PadStep,           \* added to a padding candidate that is in the list
  Crc32(_),          \* the hash of an int4
  TextHash(_)        \* the hash of the bytes of a text

ASSUME TableSizes == TableMin \in Nat \ {0} /\ Lanes \in Nat \ {0} /\ PadStep \in Nat \ {0}

\* pg_jitter_sort_raw_datums: ascending as signed words.
SortRawDatums(vals) == SortSeq(vals, LAMBDA a, b : a < b)
\* Types whose Datum decides equality and order; types of 32 bits.
RawDatumTypes == {"int2", "int4", "int8", "date", "timestamp", "time", "cash", "bool", "char", "oid"}
Int32HashTypes == {"int2", "int4", "date", "char", "oid"}

(***************************************************************************)
(* Open addressing.  The table has at least twice as many slots as values, *)
(* a power of two; a value goes to the first free slot from its hash on.   *)
(***************************************************************************)
SlotsFor(n) == CHOOSE s \in {TableMin * 2^k : k \in 0..n} : s >= 2 * n /\ (s = TableMin \/ s < 4 * n)
FreeSlot(t, h) ==
  LET size == Cardinality(DOMAIN t)
      d == CHOOSE d \in 0..(size - 1) :
             /\ ~t[(h + d) % size].occupied
             /\ \A e \in 0..(d - 1) : t[(h + e) % size].occupied
  IN  (h + d) % size
EmptySlot == [occupied |-> FALSE, value |-> 0, hash |-> 0]

\* crc32_hash_build_int4: one insertion after the other.
Crc32Insert(t, v) ==
  [t EXCEPT ![FreeSlot(t, Crc32(v))] = [occupied |-> TRUE, value |-> v, hash |-> 0]]
Crc32HashBuild(vals) ==
  LET size == SlotsFor(Len(vals))
      Table[i \in 0..Len(vals)] ==
        IF i = 0 THEN [h \in 0..(size - 1) |-> EmptySlot] ELSE Crc32Insert(Table[i - 1], vals[i])
  IN  Table[Len(vals)]
\* crc32_hash_probe_int4: until the value or a free slot.
Crc32HashProbe(t, v) ==
  LET size == Cardinality(DOMAIN t)
      at(d) == t[(Crc32(v) + d) % size]
      d == CHOOSE d \in 0..(size - 1) :
             /\ ~at(d).occupied \/ at(d).value = v
             /\ \A e \in 0..(d - 1) : at(e).occupied /\ at(e).value # v
  IN  at(d).occupied

\* text_hybrid_hash never returns 0, the mark of a free slot.
TextHybridHash(body) == LET h == TextHash(body) IN IF h % 2 = 0 THEN h + 1 ELSE h
TextInsert(t, body) ==
  LET h == TextHybridHash(body)
  IN  [t EXCEPT ![FreeSlot(t, h)] = [occupied |-> TRUE, value |-> body, hash |-> h]]
TextHashBuild(texts) ==
  LET size == SlotsFor(Len(texts))
      Table[i \in 0..Len(texts)] ==
        IF i = 0 THEN [h \in 0..(size - 1) |-> EmptySlot] ELSE TextInsert(Table[i - 1], TextOf[texts[i]].body)
  IN  Table[Len(texts)]
\* No table for an operator other than texteq, a nondeterministic
\* collation, or a list of NULLs only.
TextHashBuildFromArray(op) ==
  LET texts == ListValues(op.array)
  IN  IF ~op.texteq \/ ~op.strict \/ ~op.deterministic \/ texts = <<>> THEN <<>>
      ELSE TextHashBuild(texts)
TextHashProbe(t, x) ==
  LET size == Cardinality(DOMAIN t)
      body == TextOf[x].body
      h == TextHybridHash(body)
      at(d) == t[(h + d) % size]
      same(d) == at(d).hash = h /\ Len(at(d).value) = Len(body) /\ at(d).value = body
      d == CHOOSE d \in 0..(size - 1) :
             /\ ~at(d).occupied \/ same(d)
             /\ \A e \in 0..(d - 1) : at(e).occupied /\ ~same(e)
  IN  at(d).occupied

(***************************************************************************)
(* pg_jitter_scalararrayop_loop, called once the array is known not to be  *)
(* NULL.  Arrays without NULLs of int4 and int8 are scanned directly.      *)
(***************************************************************************)
ArrayEq(x, array) == \E i \in DOMAIN array : array[i].v = x
ScalarArrayOpLoop(m, op) ==
  LET scalar == Res(m, op.args[1])
      r(i) == ElementResult(op, scalar, op.array[i])
  IN  IF op.array = <<>> THEN SetRes(m, op.res, BoolDatum(~op.useor), FALSE)
      ELSE IF scalar.n /\ op.strict THEN SetNul(m, op.res, TRUE)
      ELSE IF /\ ~ListHasNulls(op.array) /\ op.useor
              /\ op.fn \in {[ty |-> "int4", what |-> "eq"], [ty |-> "int8", what |-> "eq"]}
           THEN SetRes(m, op.res, BoolDatum(ArrayEq(scalar.v, op.array)), FALSE)
      ELSE IF \E i \in DOMAIN op.array : Decides(op, r(i)) THEN SetRes(m, op.res, BoolDatum(op.useor), FALSE)
      ELSE SetRes(m, op.res, BoolDatum(~op.useor), \E i \in DOMAIN op.array : r(i).n)
=============================================================================
