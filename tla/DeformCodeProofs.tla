--------------------------- MODULE DeformCodeProofs ---------------------------
(***************************************************************************)
(* DeformCode for any tables, tuples and limits: what the emitter leaves   *)
(* out and puts in as constants is right of every tuple, and every form of *)
(* the code takes the same columns apart as PostgreSQL's own loop, from    *)
(* wherever other code has left off.                                       *)
(*                                                                         *)
(* The invariant has four parts beside the types: what the emitter knows   *)
(* holds of every tuple of the table, not of the stored one alone; the     *)
(* columns of the slot are the row's; the place to go on from is right;    *)
(* and what runs keeps to its form's assumptions.  A step of a run is      *)
(* right (StepRight) for each form, for the one reason that its offset is  *)
(* where the column begins; the rest follows from that once.               *)
(*                                                                         *)
(* A set of offsets is traversed by Climb, in place of an induction.       *)
(***************************************************************************)
EXTENDS DeformCode, FiniteSetTheorems, WellFoundedInduction, TLAPS

\* A set that has 0, and with every number its successor up to m.
LEMMA Climb ==
    ASSUME NEW m \in Nat, NEW S, 0 \in S,
           \A a \in 1 .. m : a - 1 \in S => a \in S
    PROVE  0 .. m \subseteq S
<1> DEFINE D == (0 .. m) \ S
           T == {0 .. a : a \in D}
<1> SUFFICES ASSUME D # {} PROVE FALSE
  OBVIOUS
<1>1. IsFiniteSet(0 .. m)
  BY FS_Interval
<1>2. T \subseteq SUBSET (0 .. m)
  OBVIOUS
<1>3. T \subseteq FiniteSubsetsOf(0 .. m)
  BY <1>1, <1>2, FS_FiniteSubsetsOfFinite
<1>4. PICK x \in T : \A y \in T : <<y, x>> \notin StrictSubsetOrdering(0 .. m)
  <2>1. T # {}
    OBVIOUS
  <2> HIDE DEF T
  <2> QED
    BY <1>3, <2>1, FS_StrictSubsetOrderingWellFounded, WFMin
<1>5. PICK a \in D : x = 0 .. a
  OBVIOUS
<1>6. a \in 1 .. m /\ a - 1 \in D
  OBVIOUS
<1>7. 0 .. (a - 1) \in T
  BY <1>6
<1>8. <<0 .. (a - 1), 0 .. a>> \in StrictSubsetOrdering(0 .. m)
  BY <1>6 DEF StrictSubsetOrdering
<1> QED
  BY <1>4, <1>5, <1>7, <1>8

-----------------------------------------------------------------------------
(* Alignment. *)

LEMMA AlignType ==
    ASSUME NEW x \in Nat, NEW a \in Alignments
    PROVE  Align(x, a) \in Nat /\ Align(x, a) % a = 0 /\ Align(x, a) >= x
<1>1. CASE a = 1
  BY <1>1 DEF Align
<1>2. CASE a = 2
  BY <1>2 DEF Align
<1>3. CASE a = 4
  BY <1>3 DEF Align
<1>4. CASE a = 8
  BY <1>4 DEF Align
<1> QED
  BY <1>1, <1>2, <1>3, <1>4 DEF Alignments

\* An offset that is aligned is left alone.
LEMMA AlignFixes ==
    ASSUME NEW x \in Nat, NEW a \in Alignments, x % a = 0
    PROVE  Align(x, a) = x
<1>1. CASE a = 1
  BY <1>1 DEF Align
<1>2. CASE a = 2
  BY <1>2 DEF Align
<1>3. CASE a = 4
  BY <1>3 DEF Align
<1>4. CASE a = 8
  BY <1>4 DEF Align
<1> QED
  BY <1>1, <1>2, <1>3, <1>4 DEF Alignments

\* A multiple of k, where k is aligned to a, is aligned to a.
LEMMA AlignMultiple ==
    ASSUME NEW x \in Nat, NEW k \in Alignments, NEW a \in Alignments,
           x % k = 0, k = Align(k, a)
    PROVE  Align(x, a) = x
<1>1. x % a = 0
  <2>1. CASE k = 1
    BY <2>1 DEF Alignments, Align
  <2>2. CASE k = 2
    BY <2>2 DEF Alignments, Align
  <2>3. CASE k = 4
    BY <2>3 DEF Alignments, Align
  <2>4. CASE k = 8
    BY <2>4 DEF Alignments, Align
  <2> QED
    BY <2>1, <2>2, <2>3, <2>4 DEF Alignments
<1> QED
  BY <1>1, AlignFixes

\* A column whose length is a multiple of its alignment ends aligned.
LEMMA AlignSum ==
    ASSUME NEW x \in Nat, NEW l \in Nat, NEW a \in Alignments,
           x % a = 0, l % a = 0
    PROVE  (x + l) % a = 0
<1>1. CASE a = 1
  BY <1>1
<1>2. CASE a = 2
  BY <1>2
<1>3. CASE a = 4
  BY <1>3
<1>4. CASE a = 8
  BY <1>4
<1> QED
  BY <1>1, <1>2, <1>3, <1>4 DEF Alignments

-----------------------------------------------------------------------------
(* Where columns begin and end. *)

LEMMA Layout ==
    ASSUME NEW d \in Tables, NEW t \in TuplesOf[d]
    PROVE  /\ d \in Seq(Column) /\ LaidOut(d, t)
           /\ t.natts \in 0 .. Len(d) /\ Len(d) \in Nat
           /\ t.nul \in [1 .. t.natts -> BOOLEAN]
           /\ t.short \in [1 .. t.natts -> BOOLEAN]
           /\ t.begin \in [1 .. t.natts -> Nat]
           /\ t.end \in [1 .. t.natts -> Nat]
           /\ t.size \in [1 .. t.natts -> Nat]
           /\ t.v \in [1 .. t.natts -> Int]
           /\ \A a \in DOMAIN d : IsColumn(d[a])
<1> QED
  BY DeformCodeAssumption DEF IsDescriptor, LaidOut

\* The columns of a table.
LEMMA Columned ==
    ASSUME NEW d \in Tables
    PROVE  /\ d \in Seq(Column) /\ Len(d) \in Nat /\ DOMAIN d = 1 .. Len(d)
           /\ \A a \in 1 .. Len(d) :
                /\ IsColumn(d[a])
                /\ d[a].align \in Alignments /\ d[a].len \in Int
                /\ d[a].notnull \in BOOLEAN /\ d[a].byval \in BOOLEAN
                /\ d[a].missing.has \in BOOLEAN /\ d[a].missing.v \in Int
<1>1. IsDescriptor(d)
  BY DeformCodeAssumption
<1>2. d \in Seq(Column) /\ Len(d) \in Nat /\ DOMAIN d = 1 .. Len(d)
  BY <1>1 DEF IsDescriptor
<1>3. ASSUME NEW a \in 1 .. Len(d)
      PROVE  IsColumn(d[a]) /\ d[a] \in Column
  BY <1>1, <1>2, <1>3 DEF IsDescriptor
<1> QED
  BY <1>2, <1>3 DEF Column

LEMMA EndType ==
    ASSUME NEW d \in Tables, NEW t \in TuplesOf[d], NEW n \in Nat
    PROVE  EndOf(t, n) \in Nat
<1> QED
  BY Layout DEF EndOf, EndBefore, Lesser

LEMMA EndAt ==
    ASSUME NEW d \in Tables, NEW t \in TuplesOf[d], NEW a \in 1 .. t.natts
    PROVE  /\ EndOf(t, a) = t.end[a]
           /\ EndOf(t, a - 1) = EndBefore(t, a)
<1> QED
  BY Layout DEF EndOf, EndBefore, Lesser

LEMMA EndBeyond ==
    ASSUME NEW d \in Tables, NEW t \in TuplesOf[d],
           NEW m \in Nat, NEW n \in Nat, m >= t.natts, n >= t.natts
    PROVE  EndOf(t, m) = EndOf(t, n)
<1> QED
  BY Layout DEF EndOf, Lesser

\* Where column a begins, given where the one before it ended.
Begins(d, t, a) ==
    IF d[a].len = -1
    THEN AlignPointer(t, a, EndOf(t, a - 1), d[a].align)
    ELSE Align(EndOf(t, a - 1), d[a].align)

LEMMA NullAt ==
    ASSUME NEW d \in Tables, NEW t \in TuplesOf[d], NEW a \in 1 .. t.natts,
           t.nul[a]
    PROVE  EndOf(t, a) = EndOf(t, a - 1) /\ ~d[a].notnull
<1>1. LaidOutAt(d, t, a) /\ (d[a].notnull => ~t.nul[a])
  BY Layout DEF LaidOut
<1> QED
  BY <1>1, EndAt, Layout DEF LaidOutAt

LEMMA ValueAt ==
    ASSUME NEW d \in Tables, NEW t \in TuplesOf[d], NEW a \in 1 .. t.natts,
           ~t.nul[a]
    PROVE  /\ t.begin[a] = Begins(d, t, a)
           /\ t.begin[a] \in Nat
           /\ d[a].len > 0 => EndOf(t, a) = t.begin[a] + d[a].len
           /\ ReadAt(t, a, t.begin[a]) = t.v[a]
           /\ t.begin[a] + LengthAt(d, t, a, t.begin[a]) = EndOf(t, a)
<1>1. LaidOutAt(d, t, a)
  BY Layout DEF LaidOut
<1>2. /\ EndOf(t, a) = t.begin[a] + t.size[a]
      /\ t.begin[a] = Begins(d, t, a)
      /\ d[a].len > 0 => t.size[a] = d[a].len
  BY <1>1, EndAt, Layout DEF LaidOutAt, Begins
<1> QED
  BY <1>2, Layout DEF ReadAt, LengthAt

\* NULLs take no room.
LEMMA NullsTakeNoRoom ==
    ASSUME NEW d \in Tables, NEW t \in TuplesOf[d], NEW a \in Nat, NEW m \in Nat,
           a + m <= t.natts, \A x \in a + 1 .. a + m : t.nul[x]
    PROVE  EndOf(t, a + m) = EndOf(t, a)
<1> DEFINE S == {x \in 0 .. m : EndOf(t, a + x) = EndOf(t, a)}
<1>1. 0 \in S
  OBVIOUS
<1>2. ASSUME NEW x \in 1 .. m, x - 1 \in S
      PROVE  x \in S
  <2>1. a + x \in 1 .. t.natts /\ t.nul[a + x]
    BY Layout
  <2>2. EndOf(t, a + x) = EndOf(t, (a + x) - 1)
    BY <2>1, NullAt
  <2> QED
    BY <1>2, <2>2
<1> HIDE DEF S
<1>3. m \in S
  BY <1>1, <1>2, Climb
<1> QED
  BY <1>3 DEF S

\* Columns by value of one length: none needs an alignment.
LEMMA UniformEnds ==
    ASSUME NEW d \in Tables, NEW t \in TuplesOf[d],
           NEW n \in 1 .. Len(d), Uniform(d, n),
           NEW m \in Nat, m <= n, m <= t.natts,
           NEW l \in Alignments, l = d[1].len
    PROVE  EndOf(t, m) % l = 0
<1> DEFINE S == {x \in 0 .. m : EndOf(t, x) % l = 0}
<1>0. \A a \in 1 .. n : d[a].len = l /\ d[a].align = l
  BY Layout DEF Uniform, IsColumn, Column
<1>1. 0 \in S
  BY Layout DEF EndOf, EndBefore, Lesser, Alignments
<1>2. ASSUME NEW x \in 1 .. m, x - 1 \in S
      PROVE  x \in S
  <2>0. x \in 1 .. t.natts /\ x \in 1 .. n
    BY Layout
  <2>1. CASE t.nul[x]
    BY <1>2, <2>0, <2>1, NullAt
  <2>2. CASE ~t.nul[x]
    <3>0. d[x].len = l /\ d[x].align = l /\ l # -1 /\ l > 0
      BY <1>0, <2>0 DEF Alignments
    <3>1. t.begin[x] = Align(EndOf(t, x - 1), l)
      BY <2>0, <2>2, <3>0, ValueAt DEF Begins
    <3>2. EndOf(t, x - 1) \in Nat
      <4>1. x - 1 \in Nat
        OBVIOUS
      <4> QED
        BY <4>1, EndType
    <3>3. t.begin[x] \in Nat /\ t.begin[x] % l = 0
      BY <3>1, <3>2, AlignType
    <3>4. EndOf(t, x) = t.begin[x] + l
      BY <2>0, <2>2, <3>0, ValueAt
    <3>5. l \in Nat /\ l % l = 0
      BY DEF Alignments
    <3>6. (t.begin[x] + l) % l = 0
      BY <3>3, <3>5, AlignSum
    <3> QED
      BY <3>4, <3>6
  <2> QED
    BY <2>1, <2>2
<1> HIDE DEF S
<1>3. 0 .. m \subseteq S
  BY <1>1, <1>2, Climb
<1>4. m \in S
  BY <1>3
<1> QED
  BY <1>4 DEF S

-----------------------------------------------------------------------------
(* The emitter: what it knows is true of every tuple of the table, so what *)
(* it leaves out is not needed and its constants are right.                *)

KnownRight(d, k, j) ==
    /\ k \in [off : Int, sure : BOOLEAN]
    /\ k.sure => k.off \in Nat
    /\ ~k.sure => k.off \in Alignments \cup {Unknown}
    /\ \A t \in TuplesOf[d] : j <= t.natts =>
            IF k.sure THEN EndOf(t, j) = k.off
            ELSE k.off # Unknown => EndOf(t, j) % k.off = 0

InstructionRight(d, i, a) ==
    /\ i \in Instructions
    /\ i.bits = ~d[a].notnull
    /\ \A t \in TuplesOf[d] : a <= t.natts /\ ~t.nul[a] =>
            /\ i.start # Unknown => t.begin[a] = i.start
            /\ i.start = Unknown /\ ~i.round =>
                    t.begin[a] = EndOf(t, a - 1)
            /\ i.stop # Unknown => EndOf(t, a) = i.stop

\* Without a rounding the column begins where the one before it ended; and a
\* rounding of a known offset tells where it begins.
LEMMA RoundsRight ==
    ASSUME NEW d \in Tables, NEW a \in 1 .. Len(d), NEW k,
           KnownRight(d, k, a - 1),
           NEW t \in TuplesOf[d], a <= t.natts, ~t.nul[a]
    PROVE  /\ ~Rounds(k, d[a]) => t.begin[a] = EndOf(t, a - 1)
           /\ k.sure /\ ~(Rounds(k, d[a]) /\ d[a].len = -1) =>
                    t.begin[a] = KnownInside(k, d[a]).off
<1> DEFINE e == EndOf(t, a - 1)
<1>1. /\ a \in 1 .. t.natts /\ a - 1 \in Nat /\ a - 1 <= t.natts
      /\ IsColumn(d[a]) /\ d[a].align \in Alignments
  BY Layout DEF IsColumn, Column
<1>2. e \in Nat
  BY <1>1, EndType
<1>3. t.begin[a] = e \/ t.begin[a] = Align(e, d[a].align)
  BY <1>1, ValueAt DEF Begins, AlignPointer
<1>4. IF k.sure THEN e = k.off ELSE k.off # Unknown => e % k.off = 0
  BY <1>1 DEF KnownRight
<1>5. ASSUME ~Rounds(k, d[a])
      PROVE  Align(e, d[a].align) = e
  <2>1. CASE d[a].align = 1
    BY <1>2, <2>1 DEF Align
  <2>2. CASE d[a].align > 1 /\ k.sure
    BY <1>4, <1>5, <2>2 DEF Rounds
  <2>3. CASE d[a].align > 1 /\ ~k.sure
    <3>1. k.off \in Alignments /\ k.off = Align(k.off, d[a].align)
      BY <1>5, <2>3 DEF Rounds, KnownRight
    <3>2. e % k.off = 0
      BY <1>4, <2>3, <3>1 DEF Alignments, Unknown
    <3> QED
      BY <1>1, <1>2, <3>1, <3>2, AlignMultiple
  <2> QED
    BY <1>1, <2>1, <2>2, <2>3 DEF Alignments
<1>6. ASSUME k.sure, Rounds(k, d[a]), d[a].len # -1
      PROVE  t.begin[a] = KnownInside(k, d[a]).off
  <2>1. t.begin[a] = Align(e, d[a].align)
    BY <1>1, <1>6, ValueAt DEF Begins
  <2>2. k.off # Unknown
    BY <1>6 DEF KnownRight, Unknown
  <2> QED
    BY <1>4, <1>6, <2>1, <2>2 DEF KnownInside
<1>7. ASSUME k.sure, ~Rounds(k, d[a])
      PROVE  t.begin[a] = KnownInside(k, d[a]).off
  BY <1>3, <1>4, <1>5, <1>7 DEF KnownInside
<1> QED
  BY <1>3, <1>5, <1>6, <1>7

\* What the emitter knows after a column, and what it emits for it, hold of all
\* the tuples of the table: the rounding that is left out would change nothing
\* and the constants are where the column starts and stops.
THEOREM EmitRight ==
    ASSUME NEW d \in Tables, NEW a \in 1 .. Len(d), NEW k,
           KnownRight(d, k, a - 1)
    PROVE  /\ InstructionRight(d, Instruction(k, d[a]), a)
           /\ KnownRight(d, KnownAfter(k, d[a]), a)
<1> DEFINE c == d[a]
           in == KnownInside(k, c)
<1>1. /\ IsColumn(c) /\ c \in Column /\ c.align \in Alignments
      /\ c.len \in Int /\ c.notnull \in BOOLEAN
      /\ k.off \in Int /\ k.sure \in BOOLEAN
      /\ k.sure => k.off \in Nat
  <2>1. /\ IsColumn(c) /\ c.align \in Alignments
        /\ c.len \in Int /\ c.notnull \in BOOLEAN
    BY Columned
  <2>2. k \in [off : Int, sure : BOOLEAN] /\ (k.sure => k.off \in Nat)
    BY DEF KnownRight
  <2> QED
    BY <2>1, <2>2 DEF IsColumn
<1>2. /\ in.off \in Int /\ in.sure \in BOOLEAN
      /\ in.sure => in.off \in Nat
  <2>1. k.off # Unknown => k.off \in Nat
    BY <1>1 DEF KnownRight, Alignments
  <2>2. k.off # Unknown => Align(k.off, c.align) \in Nat
    BY <1>1, <2>1, AlignType
  <2> QED
    BY <1>1, <2>1, <2>2 DEF KnownInside
<1>3. ASSUME NEW t \in TuplesOf[d], a <= t.natts, ~t.nul[a]
      PROVE  /\ in.sure => t.begin[a] = in.off
             /\ ~Rounds(k, c) => t.begin[a] = EndOf(t, a - 1)
  BY <1>3, RoundsRight DEF KnownInside
<1>4. ASSUME c.notnull, NEW t \in TuplesOf[d], a <= t.natts
      PROVE  a \in 1 .. t.natts /\ ~t.nul[a]
  <2>1. a \in 1 .. t.natts
    BY <1>4, Layout
  <2> QED
    BY <1>4, <2>1, NullAt
<1>5. KnownRight(d, KnownAfter(k, c), a)
  <2>1. CASE c.len < 0
    BY <2>1 DEF KnownAfter, KnownRight, Unknown
  <2>2. CASE c.len >= 0 /\ in.sure
    <3>1. c.len \in Nat /\ c.len > 0 /\ c.notnull
      BY <1>1, <2>2 DEF IsColumn, KnownInside
    <3>2. KnownAfter(k, c) = [off |-> in.off + c.len, sure |-> TRUE]
      BY <2>2, <3>1 DEF KnownAfter
    <3>3. ASSUME NEW t \in TuplesOf[d], a <= t.natts
          PROVE  EndOf(t, a) = in.off + c.len
      <4>1. a \in 1 .. t.natts /\ ~t.nul[a]
        BY <1>4, <3>1, <3>3
      <4> QED
        BY <1>3, <2>2, <3>1, <4>1, ValueAt
    <3> QED
      BY <1>2, <2>2, <3>1, <3>2, <3>3 DEF KnownRight
  <2>3. CASE c.len >= 0 /\ ~in.sure /\ c.notnull /\ c.len % c.align = 0
    <3>1. c.len \in Nat /\ c.len > 0
      BY <1>1, <2>3 DEF IsColumn
    <3>2. KnownAfter(k, c) = [off |-> c.align, sure |-> FALSE]
      BY <2>3, <3>1 DEF KnownAfter
    <3>3. ASSUME NEW t \in TuplesOf[d], a <= t.natts
          PROVE  EndOf(t, a) % c.align = 0
      <4>1. a \in 1 .. t.natts /\ ~t.nul[a] /\ a - 1 \in Nat
        BY <1>4, <2>3, <3>3
      <4>2. t.begin[a] = Align(EndOf(t, a - 1), c.align)
        BY <3>1, <4>1, ValueAt DEF Begins
      <4>3. EndOf(t, a - 1) \in Nat
        BY <4>1, EndType
      <4>4. t.begin[a] \in Nat /\ t.begin[a] % c.align = 0
        BY <1>1, <4>2, <4>3, AlignType
      <4>5. (t.begin[a] + c.len) % c.align = 0
        BY <1>1, <2>3, <3>1, <4>4, AlignSum
      <4> QED
        BY <3>1, <4>1, <4>5, ValueAt
    <3> QED
      BY <1>1, <3>2, <3>3 DEF KnownRight, Alignments
  <2>4. CASE c.len >= 0 /\ ~in.sure /\ ~(c.notnull /\ c.len % c.align = 0)
    BY <2>4 DEF KnownAfter, KnownRight, Unknown
  <2> QED
    BY <1>1, <1>2, <2>1, <2>2, <2>3, <2>4
<1>6. InstructionRight(d, Instruction(k, c), a)
  <2>1. Instruction(k, c) \in Instructions
    BY <1>1, <1>2, <1>5
       DEF Instruction, Instructions, Unknown, KnownRight, Rounds
  <2>2. ASSUME NEW t \in TuplesOf[d], a <= t.natts, ~t.nul[a]
        PROVE  KnownAfter(k, c).sure => EndOf(t, a) = KnownAfter(k, c).off
    BY <1>5, <2>2 DEF KnownRight
  <2> QED
    BY <1>3, <2>1, <2>2 DEF InstructionRight, Instruction, Unknown
<1> QED
  BY <1>5, <1>6
-----------------------------------------------------------------------------
(* The inductive invariant.  CodeInv: the code emitted so far and what the *)
(* emitter knows are right.  Resumable also while code runs.  RunInv: what *)
(* runs has its offset at the end of the columns it has done, those and    *)
(* the ones the tuple has not are right in the slot, and what its form     *)
(* counts on holds: no NULLs where it does not look for them, flags that   *)
(* are clear or set already, a batch within the tuple.                     *)

CodeInv ==
    /\ KnownRight(desc, known, Len(code))
    /\ \A a \in 1 .. Len(code) : InstructionRight(desc, code[a], a)

Taken(a) == SameColumn(InSlot(a), Logical(desc, tuple, a))

\* The batch in which column a is copied goes on up to column b.
BatchRight(a, b) ==
    /\ b <= Limit
    /\ a < b => a > 0 /\ SameRun(desc, a, b) /\ desc[a].len \in {4, 8}

FormInv ==
    /\ run.nulls \/ \A a \in 1 .. Limit : ~tuple.nul[a]
    /\ run.at \in {"copy", "bits"} => Uniform(desc, run.n)
    /\ run.at = "copy" => \A a \in 1 .. Limit : ~tuple.nul[a]
    /\ run.at \in {"copy", "table"} =>
            \A a \in run.att + 1 .. Limit : ~slot.nul[a]
    /\ run.at = "sparse" =>
            /\ run.blank <= Limit
            /\ \A a \in run.att + 1 .. run.blank : slot.nul[a]
    /\ run.at = "table" =>
            /\ BatchesAreStored(desc, tuple, run.n)
            /\ VarlenasAlignTo4(desc, run.n)
            /\ BatchRight(run.att, run.batch)

RunInv ==
    run # Idle =>
        /\ Emitted
        /\ slot.nvalid < run.n
        /\ run.off = EndOf(tuple, run.att)
        /\ \A a \in 1 .. run.att : Taken(a)
        /\ \A a \in tuple.natts + 1 .. run.n : Taken(a)
        /\ FormInv

IInv == TypeOK /\ CodeInv /\ SlotIsCurrent /\ Resumable /\ RunInv

LEMMA Typed ==
    ASSUME TypeOK
    PROVE  /\ desc \in Tables /\ tuple \in TuplesOf[desc]
           /\ Columns = 1 .. Len(desc) /\ Len(desc) \in Nat
           /\ tuple.natts \in 0 .. Len(desc)
           /\ tuple.nul \in [1 .. tuple.natts -> BOOLEAN]
           /\ slot.nvalid \in 0 .. Len(desc) /\ slot.off \in Nat
           /\ slot.slow \in BOOLEAN
           /\ slot.val \in [1 .. Len(desc) -> Int]
           /\ slot.nul \in [1 .. Len(desc) -> BOOLEAN]
<1>1. desc \in Tables /\ tuple \in TuplesOf[desc] /\ slot \in Slots
  BY DEF TypeOK
<1>2. Columns = 1 .. Len(desc) /\ Len(desc) \in Nat
  BY <1>1, Columned DEF Columns
<1> QED
  BY <1>1, <1>2, Layout DEF Slots

LEMMA Running ==
    ASSUME TypeOK, run # Idle
    PROVE  /\ run \in Runs
           /\ run.n \in 1 .. Len(desc) /\ run.att \in Nat
           /\ run.att \in slot.nvalid .. run.n
           /\ run.blank \in 0 .. Len(desc) /\ run.batch \in 0 .. Len(desc)
           /\ Limit \in Nat /\ Limit <= run.n /\ Limit <= tuple.natts
           /\ Limit = run.n \/ Limit = tuple.natts
<1>1. run \in Runs /\ run.att \in slot.nvalid .. run.n
  BY DEF TypeOK
<1> QED
  BY <1>1, Typed DEF Runs, Limit, Lesser

\* What is right of a column depends on nothing but the slot and the row.
LEMMA RowTyped ==
    ASSUME TypeOK, NEW a \in 1 .. Len(desc)
    PROVE  /\ Logical(desc, tuple, a).nul \in BOOLEAN
           /\ Logical(desc, tuple, a).val \in Int
           /\ Logical(desc, tuple, a)
                = [val |-> Logical(desc, tuple, a).val,
                   nul |-> Logical(desc, tuple, a).nul]
           /\ Logical(desc, tuple, a).nul => Logical(desc, tuple, a) = Null
<1>1. /\ desc[a].missing.has \in BOOLEAN /\ desc[a].missing.v \in Int
  BY Typed, Columned
<1>2. a > tuple.natts \/ a \in 1 .. tuple.natts
  BY Typed
<1>3. a \in 1 .. tuple.natts => tuple.v[a] \in Int
  BY Typed, Layout
<1>4. CASE a > tuple.natts
  <2>1. Logical(desc, tuple, a) = Missing(desc[a])
    BY <1>4 DEF Logical
  <2>2. CASE desc[a].missing.has
    BY <1>1, <2>1, <2>2 DEF Missing, Null, NotNull
  <2>3. CASE ~desc[a].missing.has
    BY <2>1, <2>3 DEF Missing, Null, NotNull
  <2> QED
    BY <1>1, <2>2, <2>3
<1>5. CASE a \in 1 .. tuple.natts
  <2>1. Logical(desc, tuple, a)
            = IF tuple.nul[a] THEN Null ELSE NotNull(tuple.v[a])
    BY <1>5, Typed DEF Logical
  <2>2. CASE tuple.nul[a]
    BY <2>1, <2>2 DEF Null
  <2>3. CASE ~tuple.nul[a]
    BY <1>3, <1>5, <2>1, <2>3 DEF Null, NotNull
  <2> QED
    BY <2>2, <2>3
<1> QED
  BY <1>2, <1>4, <1>5

-----------------------------------------------------------------------------
(* A step of running code. *)

Kept(a) == slot'.val[a] = slot.val[a] /\ slot'.nul[a] = slot.nul[a]

StepRight ==
    /\ UNCHANGED <<desc, tuple, code, known>>
    /\ slot' \in Slots /\ run' \in Runs
    /\ slot'.nvalid = slot.nvalid /\ slot'.off = slot.off
    /\ slot'.slow = slot.slow
    /\ run'.at = run.at /\ run'.n = run.n /\ run'.nulls = run.nulls
    /\ run'.att = run.att \/ run'.att \in run.att + 1 .. Limit
    /\ run'.off = EndOf(tuple, run'.att)
    /\ \A a \in Columns : a <= run.att \/ a > Limit => Kept(a)
    /\ \A a \in run.att + 1 .. run'.att : Taken(a)'
    /\ FormInv'

\* Columns that are kept stay right or wrong.
LEMMA KeptTaken ==
    ASSUME UNCHANGED <<desc, tuple>>, NEW a, Kept(a), Taken(a)
    PROVE  Taken(a)'
<1> QED
  BY DEF Kept, Taken, InSlot, SameColumn

LEMMA StepKeeps ==
    ASSUME IInv, run # Idle, StepRight
    PROVE  IInv'
<1>1. /\ TypeOK /\ CodeInv /\ SlotIsCurrent /\ Resumable
      /\ Emitted /\ slot.nvalid < run.n
      /\ run.off = EndOf(tuple, run.att)
      /\ \A a \in 1 .. run.att : Taken(a)
      /\ \A a \in tuple.natts + 1 .. run.n : Taken(a)
  BY DEF IInv, RunInv
<1>2. run' \in Runs /\ UNCHANGED <<desc, tuple, code, known>>
  BY DEF StepRight
<1>3. run' # Idle
  BY <1>2 DEF Runs, Forms, Idle
<1>4. run'.att \in slot'.nvalid .. run'.n
  BY <1>1, Running, Typed DEF StepRight
<1>5. TypeOK'
  <2>1. slot' \in Slots' /\ run' \in Runs'
    BY <1>2 DEF StepRight, Slots, Runs, Columns
  <2> QED
    BY <1>1, <1>2, <1>4, <2>1 DEF TypeOK
<1>6. CodeInv'
  BY <1>1, <1>2 DEF CodeInv
<1>7. Resumable'
  BY <1>1 DEF StepRight, Resumable
<1>8. \A a \in 1 .. run'.att : Taken(a)'
  <2> SUFFICES ASSUME NEW a \in 1 .. run'.att
               PROVE  Taken(a)'
    OBVIOUS
  <2>1. CASE a <= run.att
    <3>1. Kept(a)
      BY <1>1, <2>1, Running, Typed DEF StepRight
    <3>2. Taken(a)
      BY <1>1, <2>1, Running
    <3> QED
      BY <1>2, <3>1, <3>2, KeptTaken
  <2>2. CASE a > run.att
    BY <1>1, <2>2, Running, <1>4 DEF StepRight, Runs
  <2> QED
    BY <1>1, <2>1, <2>2, Running, <1>4
<1>9. \A a \in tuple'.natts + 1 .. run'.n : Taken(a)'
  <2> SUFFICES ASSUME NEW a \in tuple.natts + 1 .. run.n
               PROVE  Taken(a)'
    BY <1>2 DEF StepRight
  <2>1. Kept(a)
    <3>1. tuple.natts \in Nat /\ Limit \in Nat /\ Limit <= tuple.natts
          /\ run.n \in Nat /\ run.n <= Len(desc) /\ Columns = 1 .. Len(desc)
      BY <1>1, Running, Typed
    <3>2. a \in Columns /\ a > Limit
      BY <3>1
    <3> QED
      BY <3>2 DEF StepRight
  <2> QED
    BY <1>1, <1>2, <2>1, KeptTaken
<1>10. SlotIsCurrent'
  <2>1. slot'.nvalid = slot.nvalid /\ slot.nvalid \in Nat
    BY <1>1, Typed DEF StepRight
  <2>2. \A a \in 1 .. slot'.nvalid : a \in 1 .. run'.att
    BY <1>4, <2>1
  <2> QED
    BY <1>8, <2>2 DEF SlotIsCurrent, Taken
<1>11. RunInv'
  BY <1>1, <1>2, <1>8, <1>9 DEF RunInv, StepRight, Emitted
<1> QED
  BY <1>5, <1>6, <1>7, <1>10, <1>11 DEF IInv

LEMMA InRun ==
    ASSUME IInv, run # Idle, Col <= Limit
    PROVE  /\ Col \in 1 .. Limit /\ Col \in 1 .. tuple.natts
           /\ Col \in 1 .. run.n /\ Col \in 1 .. Len(desc) /\ Col \in Columns
           /\ Col - 1 = run.att
           /\ run.off = EndOf(tuple, Col - 1) /\ run.off \in Nat
           /\ EndOf(tuple, Col) \in Nat
<1>1. TypeOK /\ run.off = EndOf(tuple, run.att)
  BY DEF IInv, RunInv
<1>2. /\ Col \in 1 .. Limit /\ Col \in 1 .. tuple.natts
      /\ Col \in 1 .. run.n /\ Col \in 1 .. Len(desc) /\ Col \in Columns
      /\ Col - 1 = run.att /\ run.att \in Nat /\ Col \in Nat
  BY <1>1, Running, Typed DEF Col
<1> QED
  BY <1>1, <1>2, Typed, EndType

\* The slot after the next column is done.
ColumnDone ==
    /\ slot' \in Slots
    /\ slot'.nvalid = slot.nvalid /\ slot'.off = slot.off
    /\ slot'.slow = slot.slow
    /\ \A a \in Columns : a # Col => Kept(a)
    /\ SameColumn([val |-> slot'.val[Col], nul |-> slot'.nul[Col]],
                  Logical(desc, tuple, Col))

LEMMA PutDone ==
    ASSUME TypeOK, Col \in Columns,
           NEW v \in Int, NEW b \in BOOLEAN,
           slot' = Put(slot, Col, [val |-> v, nul |-> b]),
           SameColumn([val |-> v, nul |-> b], Logical(desc, tuple, Col))
    PROVE  ColumnDone
<1> DEFINE x == [slot.val EXCEPT ![Col] = v]
           y == [slot.nul EXCEPT ![Col] = b]
<1>1. slot \in Slots
  BY DEF TypeOK
<1>2. slot.val \in [Columns -> Int] /\ slot.nul \in [Columns -> BOOLEAN]
  BY <1>1 DEF Slots
<1>3. slot' = [slot EXCEPT !.val = x, !.nul = y]
  BY <1>1 DEF Put, Slots
<1>4. x \in [Columns -> Int] /\ y \in [Columns -> BOOLEAN]
  BY <1>2
<1>5. /\ x[Col] = v /\ y[Col] = b
      /\ \A a \in Columns : a # Col => x[a] = slot.val[a] /\ y[a] = slot.nul[a]
  BY <1>2
<1> HIDE DEF x, y
<1>6. /\ slot' \in Slots
      /\ slot'.nvalid = slot.nvalid /\ slot'.off = slot.off
      /\ slot'.slow = slot.slow /\ slot'.val = x /\ slot'.nul = y
  BY <1>1, <1>3, <1>4 DEF Slots
<1> QED
  BY <1>5, <1>6 DEF ColumnDone, Kept

LEMMA ValueOnlyDone ==
    ASSUME TypeOK, Col \in Columns, ~slot.nul[Col],
           NEW v \in Int, slot' = [slot EXCEPT !.val[Col] = v],
           SameColumn(NotNull(v), Logical(desc, tuple, Col))
    PROVE  ColumnDone
<1> DEFINE x == [slot.val EXCEPT ![Col] = v]
<1>1. slot \in Slots
  BY DEF TypeOK
<1>2. slot.val \in [Columns -> Int] /\ slot.nul \in [Columns -> BOOLEAN]
  BY <1>1 DEF Slots
<1>3. slot' = [slot EXCEPT !.val = x]
  BY <1>1 DEF Slots
<1>4. x \in [Columns -> Int]
  BY <1>2
<1>5. /\ x[Col] = v
      /\ \A a \in Columns : a # Col => x[a] = slot.val[a]
  BY <1>2
<1> HIDE DEF x
<1>6. /\ slot' \in Slots
      /\ slot'.nvalid = slot.nvalid /\ slot'.off = slot.off
      /\ slot'.slow = slot.slow /\ slot'.val = x /\ slot'.nul = slot.nul
  BY <1>1, <1>3, <1>4 DEF Slots
<1>7. slot'.nul[Col] = FALSE
  BY <1>2, <1>6
<1> QED
  BY <1>5, <1>6, <1>7 DEF ColumnDone, Kept, NotNull

\* The run after it, its batch up to column e.
PassesWith(e) ==
    run' = [run EXCEPT !.att = Col, !.off = EndOf(tuple, Col), !.batch = e]

\* The form's part of the invariant over one column.
LEMMA ColumnStep ==
    ASSUME IInv, run # Idle, Col <= Limit,
           UNCHANGED <<desc, tuple, code, known>>, ColumnDone,
           NEW e \in 0 .. Len(desc),
           e = run.batch \/ (run.at = "table" /\ BatchRight(Col, e)),
           PassesWith(e)
    PROVE  StepRight
<1>1. TypeOK /\ FormInv
  BY DEF IInv, RunInv
<1>2. /\ Col \in 1 .. Limit /\ Col \in 1 .. Len(desc) /\ Col \in Columns
      /\ run.blank \in 0 .. Len(desc)
      /\ Col = run.att + 1 /\ run.att \in Nat /\ Limit \in Nat
      /\ EndOf(tuple, Col) \in Nat /\ run \in Runs
      /\ Columns = 1 .. Len(desc) /\ Len(desc) \in Nat /\ Limit <= Len(desc)
  BY <1>1, InRun, Running, Typed DEF Col
<1>3. /\ run' \in Runs
      /\ run'.at = run.at /\ run'.n = run.n /\ run'.nulls = run.nulls
      /\ run'.att = Col /\ run'.off = EndOf(tuple, Col)
      /\ run'.blank = run.blank /\ run'.batch = e
  <2>1. /\ Col \in 0 .. Len(desc) /\ e \in 0 .. Len(desc)
        /\ EndOf(tuple, Col) \in Nat
    BY <1>2
  <2> HIDE DEF Col
  <2> QED
    BY <1>2, <2>1 DEF Runs, PassesWith
<1>4. Limit' = Limit
  BY <1>3 DEF Limit, Lesser
<1>5. \A a \in Columns : a <= run.att \/ a > Limit => Kept(a)
  BY <1>2 DEF ColumnDone
<1>6. \A a \in run.att + 1 .. run'.att : Taken(a)'
  BY <1>2, <1>3 DEF ColumnDone, Taken, InSlot
<1>7. \A a \in run'.att + 1 .. Limit : slot'.nul[a] = slot.nul[a]
  <2>1. \A a \in run'.att + 1 .. Limit : a \in Columns /\ a # Col
    BY <1>2, <1>3
  <2> QED
    BY <2>1 DEF ColumnDone, Kept
<1>8. FormInv'
  <2>1. run.at = "table" => BatchRight(run.att, run.batch)'
    <3> SUFFICES ASSUME run.at = "table"
                 PROVE  BatchRight(run.att, run.batch)'
      OBVIOUS
    <3>1. BatchRight(Col, e)
      <4>1. CASE e = run.batch
        <5>1. BatchRight(run.att, e)
          BY <1>1, <4>1 DEF FormInv
        <5>2. CASE Col < e
          <6>1. run.att < e /\ Col \in run.att .. e
            BY <1>2, <5>2
          <6>2. /\ run.att > 0 /\ e <= Limit /\ desc[run.att].len \in {4, 8}
                /\ \A z \in run.att .. e :
                      /\ desc[z].notnull /\ desc[z].byval
                      /\ desc[z].len = desc[run.att].len
            BY <5>1, <6>1 DEF BatchRight, SameRun
          <6>3. desc[Col].len = desc[run.att].len
            BY <6>1, <6>2
          <6>4. \A z \in Col .. e : z \in run.att .. e
            BY <1>2
          <6>5. SameRun(desc, Col, e)
            BY <6>2, <6>3, <6>4 DEF SameRun
          <6> QED
            BY <1>2, <6>2, <6>3, <6>5 DEF BatchRight
        <5>3. CASE ~(Col < e)
          BY <5>1, <5>3 DEF BatchRight
        <5> QED
          BY <5>2, <5>3
      <4>2. CASE BatchRight(Col, e)
        BY <4>2
      <4> QED
        BY <4>1, <4>2
    <3> QED
      BY <1>3, <1>4, <3>1 DEF BatchRight, SameRun
  <2>2. run'.at \in {"copy", "table"} =>
            \A a \in run'.att + 1 .. Limit' : ~slot'.nul[a]
    BY <1>1, <1>2, <1>3, <1>4, <1>7 DEF FormInv
  <2>3. run'.at = "sparse" =>
            /\ run'.blank <= Limit'
            /\ \A a \in run'.att + 1 .. run'.blank : slot'.nul[a]
    BY <1>1, <1>2, <1>3, <1>4, <1>7 DEF FormInv
  <2> QED
    BY <1>1, <1>3, <1>4, <2>1, <2>2, <2>3 DEF FormInv
<1> QED
  BY <1>3, <1>5, <1>6, <1>8, <1>2 DEF StepRight, ColumnDone

LEMMA PassesStep ==
    ASSUME IInv, run # Idle, Col <= Limit,
           UNCHANGED <<desc, tuple, code, known>>, ColumnDone,
           Passes(EndOf(tuple, Col))
    PROVE  StepRight
<1>1. run \in Runs /\ run.batch \in 0 .. Len(desc)
  BY Running DEF IInv
<1>2. PassesWith(run.batch)
  BY <1>1 DEF Passes, PassesWith, Runs
<1> QED
  BY <1>1, <1>2, ColumnStep

LEMMA NullStep ==
    ASSUME IInv, run # Idle, Col <= Limit,
           UNCHANGED <<desc, tuple, code, known>>,
           tuple.nul[Col], NullColumn
    PROVE  StepRight
<1>1. TypeOK /\ Col \in 1 .. tuple.natts /\ Col \in Columns
      /\ Col - 1 = run.att /\ run.off = EndOf(tuple, Col - 1)
  BY InRun DEF IInv
<1>2. EndOf(tuple, Col) = run.off
  BY <1>1, NullAt, Typed
<1>3. Logical(desc, tuple, Col) = Null
  BY <1>1, Typed DEF Logical
<1>4. ColumnDone
  <2> DEFINE v == 0
             b == TRUE
  <2>1. SameColumn([val |-> v, nul |-> b], Logical(desc, tuple, Col))
    BY <1>3 DEF SameColumn, Null
  <2>2. slot' = Put(slot, Col, [val |-> v, nul |-> b])
    BY DEF NullColumn, Null
  <2>3. v \in Int /\ b \in BOOLEAN
    OBVIOUS
  <2> HIDE DEF v, b, Col
  <2> QED
    BY <1>1, <2>1, <2>2, <2>3, PutDone
<1> QED
  BY <1>2, <1>4, PassesStep DEF NullColumn

\* A column taken from where it begins.
LEMMA ValueRight ==
    ASSUME IInv, run # Idle, Col <= Limit, ~tuple.nul[Col]
    PROVE  LET off == tuple.begin[Col]
           IN  /\ ReadAt(tuple, Col, off) \in Int
               /\ NotNull(ReadAt(tuple, Col, off)) = Logical(desc, tuple, Col)
               /\ off + LengthAt(desc, tuple, Col, off) = EndOf(tuple, Col)
<1>1. TypeOK /\ Col \in 1 .. tuple.natts /\ Col \in 1 .. Len(desc)
  BY InRun DEF IInv
<1>2. desc \in Tables /\ tuple \in TuplesOf[desc] /\ tuple.natts \in Nat
  BY <1>1, Typed
<1>3. tuple.v[Col] \in Int
  BY <1>1, <1>2, Layout
<1>4. Logical(desc, tuple, Col) = NotNull(tuple.v[Col])
  BY <1>1, <1>2 DEF Logical
<1> HIDE DEF Col
<1> QED
  BY <1>1, <1>2, <1>3, <1>4, ValueAt

LEMMA ValueDone ==
    ASSUME IInv, run # Idle, Col <= Limit, ~tuple.nul[Col],
           slot' = Put(slot, Col, NotNull(ReadAt(tuple, Col, tuple.begin[Col])))
    PROVE  ColumnDone
<1> DEFINE v == ReadAt(tuple, Col, tuple.begin[Col])
<1>1. v \in Int /\ NotNull(v) = Logical(desc, tuple, Col)
  BY ValueRight
<1>2. slot' = Put(slot, Col, [val |-> v, nul |-> FALSE])
  BY DEF NotNull
<1>3. SameColumn([val |-> v, nul |-> FALSE], Logical(desc, tuple, Col))
  BY <1>1 DEF SameColumn, NotNull
<1>4. TypeOK /\ Col \in Columns
  BY InRun DEF IInv
<1> HIDE DEF v, Col
<1> QED
  BY <1>1, <1>2, <1>3, <1>4, PutDone

LEMMA ValueStep ==
    ASSUME IInv, run # Idle, Col <= Limit,
           UNCHANGED <<desc, tuple, code, known>>, ~tuple.nul[Col],
           NEW off, off = tuple.begin[Col], ValueColumn(off)
    PROVE  StepRight
<1>1. ColumnDone
  BY ValueDone DEF ValueColumn
<1>2. Passes(EndOf(tuple, Col))
  BY ValueRight DEF ValueColumn, PassesAt
<1> QED
  BY <1>1, <1>2, PassesStep

LEMMA ValueOnlyStep ==
    ASSUME IInv, run # Idle, Col <= Limit,
           UNCHANGED <<desc, tuple, code, known>>, ~tuple.nul[Col],
           ~slot.nul[Col],
           NEW off, off = tuple.begin[Col], ValueOnly(off)
    PROVE  StepRight
<1>1. ColumnDone
  <2> DEFINE v == ReadAt(tuple, Col, off)
  <2>1. v \in Int /\ NotNull(v) = Logical(desc, tuple, Col)
    BY ValueRight
  <2>2. SameColumn(NotNull(v), Logical(desc, tuple, Col))
    BY <2>1 DEF SameColumn
  <2>3. TypeOK /\ Col \in Columns
    BY InRun DEF IInv
  <2>4. slot' = [slot EXCEPT !.val[Col] = v]
    BY DEF ValueOnly
  <2> HIDE DEF v, Col
  <2> QED
    BY <2>1, <2>2, <2>3, <2>4, ValueOnlyDone
<1>2. Passes(EndOf(tuple, Col))
  BY ValueRight DEF ValueOnly, PassesAt
<1> QED
  BY <1>1, <1>2, PassesStep

LEMMA UniformBegins ==
    ASSUME NEW d \in Tables, NEW t \in TuplesOf[d],
           NEW n \in 1 .. Len(d), Uniform(d, n),
           NEW a \in 1 .. n, a <= t.natts, ~t.nul[a]
    PROVE  t.begin[a] = EndOf(t, a - 1)
<1> DEFINE l == d[1].len
<1>1. \A x \in 1 .. n : IsColumn(d[x]) /\ d[x].align \in Alignments
                        /\ d[x].byval /\ d[x].len = l
  BY Columned DEF Uniform
<1>2. l \in Alignments /\ d[a].len = l /\ d[a].align = l /\ l # -1
  BY <1>1 DEF IsColumn, Alignments
<1>3. a - 1 \in Nat /\ a - 1 <= n /\ a - 1 <= t.natts /\ a \in 1 .. t.natts
  BY Layout
<1>4. EndOf(t, a - 1) % l = 0
  BY <1>2, <1>3, UniformEnds
<1>5. EndOf(t, a - 1) \in Nat
  BY <1>3, EndType
<1>6. t.begin[a] = Align(EndOf(t, a - 1), l)
  BY <1>2, <1>3, ValueAt DEF Begins
<1> QED
  BY <1>2, <1>4, <1>5, <1>6, AlignFixes

LEMMA NotNullsSeen ==
    ASSUME IInv, run # Idle, Col <= Limit,
           ~(~desc[Col].notnull /\ run.nulls /\ tuple.nul[Col])
    PROVE  ~tuple.nul[Col]
<1>1. TypeOK /\ FormInv /\ Col \in 1 .. Limit /\ Col \in 1 .. tuple.natts
  BY InRun DEF IInv, RunInv
<1>2. desc[Col].notnull => ~tuple.nul[Col]
  BY <1>1, Typed, NullAt
<1>3. ~run.nulls => ~tuple.nul[Col]
  BY <1>1 DEF FormInv
<1> QED
  BY <1>2, <1>3

LEMMA RoundedRight ==
    ASSUME IInv, run # Idle, Col <= Limit, ~tuple.nul[Col]
    PROVE  Rounded(run.off) = tuple.begin[Col]
<1>1. TypeOK /\ Col \in 1 .. tuple.natts /\ run.off = EndOf(tuple, Col - 1)
  BY InRun DEF IInv
<1>2. tuple.begin[Col] = Begins(desc, tuple, Col)
  BY <1>1, Typed, ValueAt
<1> QED
  BY <1>1, <1>2 DEF Begins, Rounded

LEMMA InsideLoop ==
    ASSUME IInv, NEW form \in Forms, InLoop(form)
    PROVE  run # Idle /\ Col <= Limit /\ FormInv
<1>1. run # Idle
  BY DEF InLoop, Forms, Idle
<1>2. Col <= Limit
  BY <1>1, Running DEF IInv, InLoop, Col
<1> QED
  BY <1>1, <1>2 DEF IInv, RunInv

-----------------------------------------------------------------------------
(* The steps of each form. *)

LEMMA GuaranteedStored ==
    ASSUME NEW d \in Tables, NEW t \in TuplesOf[d],
           NEW n \in 1 .. Len(d), NEW a \in 1 .. n, IsGuaranteed(d, n, a)
    PROVE  a <= t.natts
<1>1. PICK b \in a .. n : d[b].notnull /\ ~d[b].missing.has
  BY DEF IsGuaranteed
<1>2. b \in 1 .. Len(d) /\ a <= b
  BY Columned
<1>3. t.natts \in Nat /\ ~(b \in t.natts + 1 .. Len(d))
  BY <1>1, Layout DEF LaidOut
<1> QED
  BY <1>2, <1>3, Columned

LEMMA InsideUnrolled ==
    ASSUME IInv, run.at = "unrolled", UnrolledAvailable
    PROVE  run # Idle /\ Col <= Limit /\ InstructionRight(desc, code[Col], Col)
<1>1. run # Idle
  BY DEF Idle
<1>2. /\ TypeOK /\ Emitted /\ CodeInv
      /\ desc \in Tables /\ tuple \in TuplesOf[desc] /\ Len(desc) \in Nat
      /\ run.n \in 1 .. Len(desc) /\ run.att \in Nat /\ run.att < run.n
      /\ tuple.natts \in Nat
  BY <1>1, Running, Typed DEF IInv, RunInv, UnrolledAvailable
<1>3. Col \in 1 .. run.n /\ Col \in 1 .. Len(desc)
  BY <1>2 DEF Col
<1>4. Col <= tuple.natts
  <2> HIDE DEF Col
  <2> QED
    BY <1>2, <1>3, GuaranteedStored DEF UnrolledAvailable
<1>5. Col <= Limit
  BY <1>2, <1>3, <1>4 DEF Limit, Lesser
<1>6. InstructionRight(desc, code[Col], Col)
  BY <1>2, <1>3 DEF CodeInv, Emitted
<1> QED
  BY <1>1, <1>5, <1>6

LEMMA UnrolledNullStep ==
    ASSUME IInv, UnrolledNull, UNCHANGED <<desc, tuple, code, known>>
    PROVE  run # Idle /\ StepRight
<1> QED
  BY InsideUnrolled, NullStep DEF UnrolledNull

LEMMA UnrolledValueStep ==
    ASSUME IInv, UnrolledValue, UNCHANGED <<desc, tuple, code, known>>
    PROVE  run # Idle /\ StepRight
<1> DEFINE in == code[Col]
           off == IF in.start # Unknown THEN in.start
                  ELSE IF in.round THEN Rounded(run.off) ELSE run.off
<1>1. /\ run # Idle /\ Col <= Limit
      /\ InstructionRight(desc, in, Col)
  BY InsideUnrolled DEF UnrolledValue
<1>2. /\ Col \in 1 .. tuple.natts
      /\ desc \in Tables /\ tuple \in TuplesOf[desc]
      /\ run.off = EndOf(tuple, Col - 1)
  BY <1>1, InRun, Typed DEF IInv
<1>3. ~tuple.nul[Col]
  BY <1>1, NotNullsSeen DEF UnrolledValue, InstructionRight
<1>4. /\ in.start # Unknown => tuple.begin[Col] = in.start
      /\ in.start = Unknown /\ ~in.round =>
            tuple.begin[Col] = EndOf(tuple, Col - 1)
      /\ in.stop # Unknown => EndOf(tuple, Col) = in.stop
  BY <1>1, <1>2, <1>3 DEF InstructionRight
<1>5. off = tuple.begin[Col]
  BY <1>1, <1>2, <1>3, <1>4, RoundedRight
<1>6. slot' = Put(slot, Col, NotNull(ReadAt(tuple, Col, off)))
  BY DEF UnrolledValue
<1>7. IF in.stop # Unknown THEN Passes(in.stop) ELSE PassesAt(off)
  BY DEF UnrolledValue
<1> HIDE DEF off
<1>8. ColumnDone
  BY <1>1, <1>3, <1>5, <1>6, ValueDone
<1>9. Passes(EndOf(tuple, Col))
  BY <1>1, <1>3, <1>4, <1>5, <1>7, ValueRight DEF PassesAt
<1> QED
  BY <1>1, <1>8, <1>9, PassesStep

LEMMA CopyStep ==
    ASSUME IInv, CopyColumn, UNCHANGED <<desc, tuple, code, known>>
    PROVE  run # Idle /\ StepRight
<1>1. run # Idle /\ Col <= Limit /\ FormInv /\ run.at = "copy"
  BY InsideLoop DEF CopyColumn, InLoop, Forms
<1>2. /\ desc \in Tables /\ tuple \in TuplesOf[desc]
      /\ run.n \in 1 .. Len(desc) /\ Col \in 1 .. run.n
      /\ Col <= tuple.natts /\ Col \in 1 .. Limit
      /\ Col \in run.att + 1 .. Limit
      /\ run.off = EndOf(tuple, Col - 1)
  <2>1. TypeOK /\ Col \in 1 .. tuple.natts /\ Col \in 1 .. run.n
        /\ Col \in 1 .. Limit /\ run.off = EndOf(tuple, Col - 1)
    BY <1>1, InRun DEF IInv
  <2>2. Col \in run.att + 1 .. Limit
    BY <1>1, <2>1, Running DEF Col
  <2> HIDE DEF Col
  <2> QED
    BY <1>1, <2>1, <2>2, Typed, Running
<1>3. Uniform(desc, run.n) /\ ~tuple.nul[Col] /\ ~slot.nul[Col]
  BY <1>1, <1>2 DEF FormInv
<1>4. run.off = tuple.begin[Col]
  <2> HIDE DEF Col
  <2> QED
    BY <1>2, <1>3, UniformBegins
<1> QED
  BY <1>1, <1>3, <1>4, ValueOnlyStep DEF CopyColumn

LEMMA BitsStep ==
    ASSUME IInv, BitsColumn, UNCHANGED <<desc, tuple, code, known>>
    PROVE  run # Idle /\ StepRight
<1>1. run # Idle /\ Col <= Limit /\ FormInv /\ run.at = "bits"
  BY InsideLoop DEF BitsColumn, InLoop, Forms
<1>2. CASE tuple.nul[Col]
  BY <1>1, <1>2, NullStep DEF BitsColumn
<1>3. CASE ~tuple.nul[Col]
  <2>1. /\ desc \in Tables /\ tuple \in TuplesOf[desc]
        /\ run.n \in 1 .. Len(desc) /\ Col \in 1 .. run.n
        /\ Col <= tuple.natts /\ run.off = EndOf(tuple, Col - 1)
    BY <1>1, InRun, Running, Typed DEF IInv
  <2>2. Uniform(desc, run.n)
    BY <1>1 DEF FormInv
  <2>3. run.off = tuple.begin[Col]
    <3> HIDE DEF Col
    <3> QED
      BY <1>3, <2>1, <2>2, UniformBegins
  <2> QED
    BY <1>1, <1>3, <2>3, ValueStep DEF BitsColumn
<1> QED
  BY <1>2, <1>3

LEMMA DescsStep ==
    ASSUME IInv, DescsColumn, UNCHANGED <<desc, tuple, code, known>>
    PROVE  run # Idle /\ StepRight
<1>1. run # Idle /\ Col <= Limit
  BY InsideLoop DEF DescsColumn, InLoop, Forms
<1>2. CASE ~desc[Col].notnull /\ run.nulls /\ tuple.nul[Col]
  BY <1>1, <1>2, NullStep DEF DescsColumn
<1>3. CASE ~(~desc[Col].notnull /\ run.nulls /\ tuple.nul[Col])
  <2>1. ~tuple.nul[Col]
    BY <1>1, <1>3, NotNullsSeen
  <2> QED
    BY <1>1, <1>3, <2>1, RoundedRight, ValueStep DEF DescsColumn
<1> QED
  BY <1>2, <1>3

\* Several columns at once: f gives those of S.
Gives(f, S) ==
    DOMAIN f = S /\ \A a \in S : f[a].val \in Int /\ f[a].nul \in BOOLEAN
HasAll(r, s, f, S) ==
    /\ r \in Slots
    /\ r.nvalid = s.nvalid /\ r.off = s.off /\ r.slow = s.slow
    /\ \A a \in S : r.val[a] = f[a].val /\ r.nul[a] = f[a].nul
    /\ \A a \in Columns \ S : r.val[a] = s.val[a] /\ r.nul[a] = s.nul[a]

LEMMA PutAllRight ==
    ASSUME NEW s \in Slots, NEW S \in SUBSET Columns, NEW f, Gives(f, S),
           NEW r, r = PutAll(s, f)
    PROVE  HasAll(r, s, f, S)
<1> DEFINE x == [a \in Columns |-> IF a \in S THEN f[a].val ELSE s.val[a]]
           y == [a \in Columns |-> IF a \in S THEN f[a].nul ELSE s.nul[a]]
<1>1. DOMAIN f = S /\ \A a \in S : f[a].val \in Int /\ f[a].nul \in BOOLEAN
  BY DEF Gives
<1>2. s.val \in [Columns -> Int] /\ s.nul \in [Columns -> BOOLEAN]
  BY DEF Slots
<1>3. r = [s EXCEPT !.val = x, !.nul = y]
  BY <1>1 DEF PutAll, Slots
<1>4. x \in [Columns -> Int]
  BY <1>1, <1>2
<1>5. y \in [Columns -> BOOLEAN]
  BY <1>1, <1>2
<1>6. /\ \A a \in S : x[a] = f[a].val /\ y[a] = f[a].nul
      /\ \A a \in Columns \ S : x[a] = s.val[a] /\ y[a] = s.nul[a]
  OBVIOUS
<1> HIDE DEF x, y
<1>7. /\ r \in Slots
      /\ r.nvalid = s.nvalid /\ r.off = s.off /\ r.slow = s.slow
      /\ r.val = x /\ r.nul = y
  BY <1>3, <1>4, <1>5 DEF Slots
<1> QED
  BY <1>6, <1>7 DEF HasAll

\* Several columns made NULL at once.
LEMMA PutNulls ==
    ASSUME NEW s \in Slots, NEW S \in SUBSET Columns,
           NEW r, r = PutAll(s, [a \in S |-> Null])
    PROVE  /\ r \in Slots
           /\ r.nvalid = s.nvalid /\ r.off = s.off /\ r.slow = s.slow
           /\ \A a \in S : r.nul[a]
           /\ \A a \in Columns \ S :
                    r.val[a] = s.val[a] /\ r.nul[a] = s.nul[a]
<1> DEFINE x == [a \in Columns |-> IF a \in S THEN 0 ELSE s.val[a]]
           y == [a \in Columns |-> IF a \in S THEN TRUE ELSE s.nul[a]]
<1>1. s.val \in [Columns -> Int] /\ s.nul \in [Columns -> BOOLEAN]
  BY DEF Slots
<1>2. r = [s EXCEPT !.val = x, !.nul = y]
  BY DEF PutAll, Slots, Null
<1>3. x \in [Columns -> Int]
  BY <1>1
<1>4. y \in [Columns -> BOOLEAN]
  BY <1>1
<1>5. /\ \A a \in S : y[a]
      /\ \A a \in Columns \ S : x[a] = s.val[a] /\ y[a] = s.nul[a]
  OBVIOUS
<1> HIDE DEF x, y
<1>6. /\ r \in Slots
      /\ r.nvalid = s.nvalid /\ r.off = s.off /\ r.slow = s.slow
      /\ r.val = x /\ r.nul = y
  BY <1>2, <1>3, <1>4 DEF Slots
<1> QED
  BY <1>5, <1>6

\* The columns of a byte.
LEMMA BlankRight ==
    ASSUME IInv, run # Idle, WholeByte,
           slot' = PutAll(slot, [a \in ByteColumns |-> Null])
    PROVE  /\ slot' \in Slots
           /\ slot'.nvalid = slot.nvalid /\ slot'.off = slot.off
           /\ slot'.slow = slot.slow
           /\ run.att + BitmapByte \in Nat /\ run.att + BitmapByte <= Limit
           /\ run.att + BitmapByte > run.att
           /\ \A a \in Columns : a \notin ByteColumns => Kept(a)
           /\ \A a \in ByteColumns : a \in Columns /\ slot'.nul[a]
<1>1. TypeOK /\ slot \in Slots /\ run.att \in Nat /\ Limit \in Nat
      /\ Limit <= Len(desc) /\ Columns = 1 .. Len(desc) /\ Len(desc) \in Nat
      /\ BitmapByte \in Nat \ {0}
  BY Running, Typed, DeformCodeAssumption DEF IInv, TypeOK
<1>2. /\ run.att + BitmapByte \in Nat /\ run.att + BitmapByte <= Limit
      /\ run.att + BitmapByte > run.att
      /\ ByteColumns \in SUBSET Columns
  BY <1>1 DEF WholeByte, ByteColumns, Col
<1>3. /\ slot' \in Slots
      /\ slot'.nvalid = slot.nvalid /\ slot'.off = slot.off
      /\ slot'.slow = slot.slow
      /\ \A a \in ByteColumns : slot'.nul[a]
      /\ \A a \in Columns \ ByteColumns :
            slot'.val[a] = slot.val[a] /\ slot'.nul[a] = slot.nul[a]
  BY <1>1, <1>2, PutNulls
<1>4. \A a \in Columns : a \notin ByteColumns => Kept(a)
  BY <1>3 DEF Kept
<1> QED
  BY <1>2, <1>3, <1>4

LEMMA SparseBlankStep ==
    ASSUME IInv, SparseBlank, UNCHANGED <<desc, tuple, code, known>>
    PROVE  run # Idle /\ StepRight
<1> DEFINE b == run.att + BitmapByte
<1>1. run # Idle /\ Col <= Limit /\ FormInv /\ run.at = "sparse"
  BY InsideLoop DEF SparseBlank, InLoop, Forms
<1>2. /\ slot' \in Slots
      /\ slot'.nvalid = slot.nvalid /\ slot'.off = slot.off
      /\ slot'.slow = slot.slow
      /\ b \in Nat /\ b <= Limit
      /\ \A a \in Columns : a \notin ByteColumns => Kept(a)
      /\ \A a \in ByteColumns : slot'.nul[a]
  BY <1>1, BlankRight DEF SparseBlank
<1>3. /\ run \in Runs /\ run.att \in Nat /\ Limit \in Nat
      /\ run.off = EndOf(tuple, run.att)
      /\ Columns = 1 .. Len(desc) /\ Len(desc) \in Nat /\ Limit <= Len(desc)
  BY <1>1, Running, Typed DEF IInv, RunInv
<1>4. run' = [run EXCEPT !.blank = b]
  BY DEF SparseBlank
<1>5. /\ run' \in Runs
      /\ run'.at = run.at /\ run'.n = run.n /\ run'.nulls = run.nulls
      /\ run'.att = run.att /\ run'.off = run.off
      /\ run'.blank = b /\ run'.batch = run.batch
  <2>1. b \in 0 .. Len(desc)
    BY <1>2, <1>3
  <2> HIDE DEF b
  <2> QED
    BY <1>3, <1>4, <2>1 DEF Runs
<1>6. Limit' = Limit
  BY <1>5 DEF Limit, Lesser
<1>7. ByteColumns = run.att + 1 .. b
  BY DEF ByteColumns, Col
<1> HIDE DEF b
<1>8. \A a \in Columns : a <= run.att \/ a > Limit => Kept(a)
  BY <1>2, <1>3, <1>7
<1>9. FormInv'
  <2>1. \A a \in run'.att + 1 .. run'.blank : slot'.nul[a]
    BY <1>2, <1>5, <1>7
  <2>2. run'.nulls \/ \A a \in 1 .. Limit' : ~tuple'.nul[a]
    BY <1>1, <1>5, <1>6 DEF FormInv
  <2>3. run'.at = "sparse" /\ run'.blank <= Limit'
    BY <1>1, <1>2, <1>5, <1>6
  <2> QED
    BY <2>1, <2>2, <2>3 DEF FormInv
<1>10. \A a \in run.att + 1 .. run'.att : Taken(a)'
  BY <1>3, <1>5
<1> QED
  BY <1>1, <1>2, <1>3, <1>5, <1>8, <1>9, <1>10 DEF StepRight

LEMMA SparseStep ==
    ASSUME IInv, SparseColumn, UNCHANGED <<desc, tuple, code, known>>
    PROVE  run # Idle /\ StepRight
<1>1. run # Idle /\ Col <= Limit /\ FormInv /\ run.at = "sparse"
  BY InsideLoop DEF SparseColumn, InLoop, Forms
<1>2. CASE ~(run.nulls /\ tuple.nul[Col])
  <2>1. ~tuple.nul[Col]
    BY <1>1, <1>2, NotNullsSeen
  <2> QED
    BY <1>1, <1>2, <2>1, RoundedRight, ValueStep DEF SparseColumn
<1>3. CASE run.nulls /\ tuple.nul[Col] /\ run.att < run.blank
  <2>1. /\ TypeOK /\ Col \in 1 .. tuple.natts /\ Col \in Columns
        /\ desc \in Tables /\ tuple \in TuplesOf[desc]
        /\ run.off = EndOf(tuple, Col - 1) /\ tuple.natts \in Nat
    BY <1>1, InRun, Typed DEF IInv
  <2>2. Passes(run.off) /\ UNCHANGED slot
    BY <1>3 DEF SparseColumn
  <2>3. EndOf(tuple, Col) = run.off /\ Logical(desc, tuple, Col) = Null
    <3> HIDE DEF Col
    <3> QED
      BY <1>3, <2>1, NullAt DEF Logical
  <2>4. slot.nul[Col]
    <3>1. Col \in run.att + 1 .. run.blank
      BY <1>1, <1>3, <2>1, Running DEF Col
    <3> QED
      BY <1>1, <3>1 DEF FormInv
  <2>5. ColumnDone
    <3>1. slot \in Slots
      BY <2>1 DEF TypeOK
    <3>2. SameColumn([val |-> slot.val[Col], nul |-> slot.nul[Col]],
                     Logical(desc, tuple, Col))
      BY <2>3, <2>4, <2>1, Typed DEF SameColumn, Null
    <3> QED
      BY <2>2, <3>1, <3>2 DEF ColumnDone, Kept
  <2> QED
    BY <1>1, <2>2, <2>3, <2>5, PassesStep
<1>4. CASE run.nulls /\ tuple.nul[Col] /\ ~(run.att < run.blank)
  BY <1>1, <1>4, NullStep DEF SparseColumn
<1> QED
  BY <1>2, <1>3, <1>4

LEMMA TableGroupStep ==
    ASSUME IInv, TableGroup, UNCHANGED <<desc, tuple, code, known>>
    PROVE  run # Idle /\ StepRight
<1> DEFINE b == run.att + BitmapByte
<1>1. run # Idle /\ Col <= Limit /\ FormInv /\ run.at = "table"
  BY InsideLoop DEF TableGroup, InLoop, Forms
<1>2. /\ slot' \in Slots
      /\ slot'.nvalid = slot.nvalid /\ slot'.off = slot.off
      /\ slot'.slow = slot.slow
      /\ b \in Nat /\ b <= Limit /\ b > run.att
      /\ \A a \in Columns : a \notin ByteColumns => Kept(a)
      /\ \A a \in ByteColumns : a \in Columns /\ slot'.nul[a]
  BY <1>1, BlankRight DEF TableGroup, SkipsGroup
<1>3. /\ TypeOK /\ run \in Runs /\ run.att \in Nat /\ Limit \in Nat
      /\ run.off = EndOf(tuple, run.att) /\ run.batch \in 0 .. Len(desc)
      /\ Columns = 1 .. Len(desc) /\ Len(desc) \in Nat /\ Limit <= Len(desc)
      /\ desc \in Tables /\ tuple \in TuplesOf[desc]
      /\ Limit <= tuple.natts /\ tuple.natts \in Nat
      /\ BitmapByte \in Nat
  BY <1>1, Running, Typed, DeformCodeAssumption DEF IInv, RunInv
<1>4. run' = [run EXCEPT !.att = b]
  BY DEF TableGroup
<1>5. /\ run' \in Runs
      /\ run'.at = run.at /\ run'.n = run.n /\ run'.nulls = run.nulls
      /\ run'.att = b /\ run'.off = run.off
      /\ run'.blank = run.blank /\ run'.batch = run.batch
  <2>1. b \in 0 .. Len(desc)
    BY <1>2, <1>3
  <2> HIDE DEF b
  <2> QED
    BY <1>3, <1>4, <2>1 DEF Runs
<1>6. Limit' = Limit
  BY <1>5 DEF Limit, Lesser
<1>7. ByteColumns = run.att + 1 .. b
  BY DEF ByteColumns, Col
<1>8. \A a \in run.att + 1 .. b : tuple.nul[a]
  BY <1>7 DEF TableGroup, SkipsGroup
<1>9. EndOf(tuple, b) = run.off
  BY <1>2, <1>3, <1>8, NullsTakeNoRoom
<1>10. run.batch <= run.att
  BY DEF TableGroup, InLoop
<1> HIDE DEF b
<1>11. \A a \in Columns : a <= run.att \/ a > Limit => Kept(a)
  BY <1>2, <1>3, <1>7
<1>12. \A a \in run.att + 1 .. run'.att : Taken(a)'
  <2> SUFFICES ASSUME NEW a \in run.att + 1 .. b
               PROVE  Taken(a)'
    BY <1>5
  <2>1. slot'.nul[a] /\ tuple.nul[a] /\ a <= tuple.natts
    BY <1>2, <1>3, <1>7, <1>8
  <2>2. Logical(desc, tuple, a) = Null
    BY <1>3, <2>1 DEF Logical
  <2> QED
    BY <1>2, <1>3, <1>7, <2>1, <2>2
       DEF Taken, InSlot, SameColumn, Null, Slots
<1>13. FormInv'
  <2>1. \A a \in b + 1 .. Limit : slot'.nul[a] = slot.nul[a]
    <3>1. \A a \in b + 1 .. Limit : a \in Columns /\ a \notin ByteColumns
      BY <1>2, <1>3, <1>7
    <3> QED
      BY <1>2, <3>1 DEF Kept
  <2>2. \A a \in b + 1 .. Limit : ~slot'.nul[a]
    BY <1>1, <1>2, <1>3, <2>1 DEF FormInv
  <2>3. BatchRight(run.att, run.batch)'
    <3>1. run.batch <= Limit /\ ~(b < run.batch)
      BY <1>1, <1>2, <1>3, <1>10 DEF FormInv, BatchRight
    <3> QED
      BY <1>5, <1>6, <3>1 DEF BatchRight
  <2> QED
    BY <1>1, <1>5, <1>6, <2>2, <2>3 DEF FormInv
<1> QED
  BY <1>1, <1>2, <1>3, <1>5, <1>9, <1>11, <1>12, <1>13 DEF StepRight

LEMMA TableNullStep ==
    ASSUME IInv, TableNull, UNCHANGED <<desc, tuple, code, known>>
    PROVE  run # Idle /\ StepRight
<1>1. run # Idle /\ Col <= Limit
  BY InsideLoop DEF TableNull, InLoop, Forms
<1> QED
  BY <1>1, NullStep DEF TableNull, TableSeesNull

\* The handlers' own alignments are those of the columns.
LEMMA HandlerRight ==
    ASSUME IInv, run.at = "table", run # Idle, Col <= Limit, ~TableSeesNull
    PROVE  /\ ~tuple.nul[Col] /\ HandlerRounded(run.off) = tuple.begin[Col]
           /\ ~slot.nul[Col]
<1>1. /\ TypeOK /\ FormInv /\ Col \in 1 .. tuple.natts /\ Col \in 1 .. run.n
      /\ Col \in 1 .. Len(desc) /\ Col \in 1 .. Limit
      /\ Col \in run.att + 1 .. Limit
      /\ run.off = EndOf(tuple, Col - 1) /\ run.off \in Nat
      /\ desc \in Tables /\ tuple \in TuplesOf[desc]
  <2>1. TypeOK /\ Col \in 1 .. Limit
    BY InRun DEF IInv
  <2>2. Col \in run.att + 1 .. Limit
    BY <2>1, Running DEF Col
  <2> QED
    BY <2>1, <2>2, InRun, Typed DEF IInv, RunInv
<1>2. ~tuple.nul[Col]
  <2>1. ~(~desc[Col].notnull /\ run.nulls /\ tuple.nul[Col])
    BY <1>1 DEF TableSeesNull, Nullable
  <2> QED
    BY <2>1, NotNullsSeen
<1>3. /\ IsColumn(desc[Col]) /\ desc[Col].align \in Alignments
      /\ desc[Col].len = -1 => desc[Col].align = 4
  BY <1>1, Columned DEF FormInv, VarlenasAlignTo4
<1>4. tuple.begin[Col] = Begins(desc, tuple, Col)
  BY <1>1, <1>2, ValueAt
<1> DEFINE c == desc[Col]
<1>5. HandlerRounded(run.off)
        = IF c.len = -1 THEN AlignPointer(tuple, Col, run.off, c.align)
                        ELSE Align(run.off, c.align)
  <2>1. CASE c.byval
    <3>1. c.len = c.align /\ c.len # -1
      BY <1>3, <2>1 DEF IsColumn, Alignments
    <3> QED
      BY <2>1, <3>1 DEF HandlerRounded
  <2>2. CASE ~c.byval /\ c.len = -2
    <3>1. Align(run.off, c.align) = run.off
      BY <1>1, <1>3, <2>2 DEF IsColumn, Align
    <3> QED
      BY <2>2, <3>1 DEF HandlerRounded
  <2>3. CASE ~c.byval /\ c.len # -2
    BY <1>3, <2>3 DEF HandlerRounded
  <2> QED
    BY <2>1, <2>2, <2>3
<1>6. ~slot.nul[Col]
  BY <1>1 DEF FormInv
<1> QED
  BY <1>1, <1>2, <1>4, <1>5, <1>6 DEF Begins

LEMMA TableValueStep ==
    ASSUME IInv, TableValue, UNCHANGED <<desc, tuple, code, known>>
    PROVE  run # Idle /\ StepRight
<1>1. run # Idle /\ Col <= Limit /\ run.at = "table"
  BY InsideLoop DEF TableValue, InLoop, Forms
<1> QED
  BY <1>1, HandlerRight, ValueOnlyStep DEF TableValue

LEMMA TableBatchStep ==
    ASSUME IInv, TableBatch, UNCHANGED <<desc, tuple, code, known>>
    PROVE  run # Idle /\ StepRight
<1> DEFINE off == HandlerRounded(run.off)
<1>1. run # Idle /\ Col <= Limit /\ run.at = "table" /\ ~TableSeesNull
  BY InsideLoop DEF TableBatch, InLoop, Forms
<1>2. ~tuple.nul[Col] /\ off = tuple.begin[Col]
  BY <1>1, HandlerRight
<1>3. PICK e \in BatchEnds(desc, run.n, Col) :
          run' = [run EXCEPT !.att = Col, !.batch = e,
                             !.off = off + LengthAt(desc, tuple, Col, off)]
  BY DEF TableBatch
<1>4. slot' = Put(slot, Col, NotNull(ReadAt(tuple, Col, off)))
  BY DEF TableBatch
<1> HIDE DEF off
<1>5. ColumnDone
  BY <1>1, <1>2, <1>4, ValueDone
<1>6. run \in Runs /\ off + LengthAt(desc, tuple, Col, off) = EndOf(tuple, Col)
  BY <1>1, <1>2, ValueRight, Running DEF IInv
<1>7. PassesWith(e)
  BY <1>3, <1>6 DEF PassesWith, Runs
<1>8. e \in 0 .. Len(desc) /\ BatchRight(Col, e)
  <2>1. /\ run.n \in 1 .. Len(desc) /\ tuple.natts \in Nat
        /\ Col \in 1 .. run.n /\ Col \in 1 .. tuple.natts
        /\ BatchMax \in Nat \ {0} /\ BatchFrom \in Nat \ {0}
        /\ Len(desc) \in Nat /\ Col \in Nat /\ Col > 0
    <3>1. TypeOK /\ Col \in 1 .. run.n /\ Col \in 1 .. tuple.natts
      BY <1>1, InRun DEF IInv
    <3>2. BatchMax \in Nat \ {0} /\ BatchFrom \in Nat \ {0}
      BY DeformCodeAssumption
    <3> HIDE DEF Col
    <3> QED
      BY <1>1, <3>1, <3>2, Running, Typed
  <2> HIDE DEF Col
  <2>2. PICK x \in Col + BatchFrom - 1 .. run.n :
            /\ e = Lesser(x, Col + BatchMax - 1)
            /\ desc[Col].len \in {4, 8} /\ SameRun(desc, Col, x)
    BY <1>3 DEF BatchEnds
  <2>3. e \in Nat /\ e <= x /\ e <= run.n
    BY <2>1, <2>2 DEF Lesser
  <2>4. SameRun(desc, Col, e)
    BY <2>1, <2>2, <2>3 DEF SameRun
  <2>5. e <= tuple.natts
    <3>1. BatchesAreStored(desc, tuple, run.n)
      BY <1>1 DEF IInv, RunInv, FormInv
    <3>2. Col \in 1 .. Lesser(run.n, tuple.natts)
      BY <2>1 DEF Lesser
    <3> QED
      BY <1>3, <3>1, <3>2 DEF BatchesAreStored
  <2>6. e <= Limit
    BY <2>3, <2>5 DEF Limit, Lesser
  <2> QED
    BY <2>1, <2>2, <2>3, <2>4, <2>6 DEF BatchRight
<1> QED
  BY <1>1, <1>5, <1>7, <1>8, ColumnStep

LEMMA WordBegins ==
    ASSUME NEW d \in Tables, NEW t \in TuplesOf[d], NEW a \in 1 .. t.natts,
           ~t.nul[a], NEW l \in {4, 8}, d[a].len = l, d[a].align = l
    PROVE  t.begin[a] = Align(EndOf(t, a - 1), l)
<1>1. t.begin[a] = Begins(d, t, a) /\ l # -1
  BY ValueAt
<1> QED
  BY <1>1 DEF Begins

LEMMA BatchColumnStep ==
    ASSUME IInv, BatchColumn, UNCHANGED <<desc, tuple, code, known>>
    PROVE  run # Idle /\ StepRight
<1>1. /\ run # Idle /\ run.at = "table" /\ run.att < run.batch
      /\ ValueColumn(run.off)
  BY DEF BatchColumn, Idle
<1>2. /\ TypeOK /\ run.att \in Nat /\ run.batch \in Nat
      /\ BatchRight(run.att, run.batch)
      /\ desc \in Tables /\ tuple \in TuplesOf[desc]
      /\ Limit \in Nat /\ Limit <= tuple.natts /\ tuple.natts \in Nat
      /\ Limit <= Len(desc) /\ Len(desc) \in Nat
      /\ run.off = EndOf(tuple, run.att)
  BY <1>1, Running, Typed DEF IInv, RunInv, FormInv
<1>3. Col <= Limit
  BY <1>1, <1>2 DEF BatchRight, Col
<1> DEFINE l == desc[run.att].len
<1>4. /\ run.att \in 1 .. tuple.natts /\ run.att \in 1 .. Len(desc)
      /\ Col \in 1 .. tuple.natts /\ Col \in 1 .. Len(desc)
      /\ run.att \in run.att .. run.batch /\ Col \in run.att .. run.batch
      /\ run.att - 1 \in Nat /\ run.att = Col - 1
  BY <1>1, <1>2, <1>3 DEF BatchRight, Col
<1>5. /\ l \in {4, 8}
      /\ \A a \in {run.att, Col} : desc[a].notnull /\ desc[a].byval
                                 /\ desc[a].len = l
  BY <1>1, <1>2, <1>4 DEF BatchRight, SameRun
<1>6. \A a \in {run.att, Col} : ~tuple.nul[a] /\ desc[a].align = l
  BY <1>2, <1>4, <1>5, NullAt, Columned DEF IsColumn
<1> HIDE DEF Col, l
<1>7. EndOf(tuple, run.att) % l = 0 /\ EndOf(tuple, run.att) \in Nat
  <2>1. tuple.begin[run.att] = Align(EndOf(tuple, run.att - 1), l)
    BY <1>2, <1>4, <1>5, <1>6, WordBegins
  <2>2. EndOf(tuple, run.att) = tuple.begin[run.att] + l
    BY <1>2, <1>4, <1>5, <1>6, ValueAt
  <2>3. EndOf(tuple, run.att - 1) \in Nat /\ EndOf(tuple, run.att) \in Nat
    BY <1>2, <1>4, EndType
  <2>4. l \in Alignments /\ l \in Nat /\ l % l = 0
    BY <1>5 DEF Alignments
  <2>5. tuple.begin[run.att] \in Nat /\ tuple.begin[run.att] % l = 0
    BY <2>1, <2>3, <2>4, AlignType
  <2> QED
    BY <2>2, <2>3, <2>4, <2>5, AlignSum
<1>8. tuple.begin[Col] = run.off
  <2>1. tuple.begin[Col] = Align(EndOf(tuple, run.att), l)
    BY <1>2, <1>4, <1>5, <1>6, WordBegins
  <2>2. l \in Alignments
    BY <1>5 DEF Alignments
  <2> QED
    BY <1>2, <1>7, <2>1, <2>2, AlignFixes
<1> QED
  BY <1>1, <1>3, <1>6, <1>8, ValueStep

\* A step of running code, of whatever form, takes columns of the tuple in
\* order, gives them as they are in the row, has the offset at their end and
\* keeps all the other columns.
THEOREM ColumnSteps ==
    ASSUME IInv, RunColumn
    PROVE  run # Idle /\ StepRight
<1> QED
  BY UnrolledNullStep, UnrolledValueStep, CopyStep, BitsStep, DescsStep,
     SparseBlankStep, SparseStep, TableGroupStep, TableNullStep,
     TableValueStep, TableBatchStep, BatchColumnStep DEF RunColumn

-----------------------------------------------------------------------------
(* The steps between runs. *)

LEMMA InitRight ==
    ASSUME Init
    PROVE  IInv
<1>1. desc \in Tables /\ tuple \in TuplesOf[desc]
      /\ Columns = 1 .. Len(desc) /\ Len(desc) \in Nat
  BY Columned DEF Init, Columns
<1>2. PICK stale \in BOOLEAN : slot = Fresh(desc, stale)
  BY DEF Init
<1>3. slot \in Slots /\ slot.nvalid = 0
  BY <1>1, <1>2 DEF Fresh, Slots, Junk, Columns
<1>4. code = <<>> /\ Len(code) = 0
  BY DEF Init
<1>5. TypeOK
  BY <1>1, <1>3, <1>4 DEF TypeOK, Init
<1>6. CodeInv
  <2>1. \A t \in TuplesOf[desc] : EndOf(t, 0) = 0
    BY <1>1, Layout DEF EndOf, EndBefore, Lesser
  <2> QED
    BY <1>4, <2>1 DEF CodeInv, KnownRight, Init
<1>7. SlotIsCurrent /\ Resumable
  BY <1>3 DEF SlotIsCurrent, Resumable
<1> QED
  BY <1>5, <1>6, <1>7 DEF IInv, RunInv, Init

LEMMA EmitStep ==
    ASSUME IInv, EmitColumn
    PROVE  IInv'
<1> DEFINE a == Len(code) + 1
<1>1. /\ TypeOK /\ CodeInv /\ ~Emitted
      /\ code' = Append(code, Instruction(known, desc[a]))
      /\ known' = KnownAfter(known, desc[a])
      /\ UNCHANGED <<desc, tuple, slot, run>>
  BY DEF IInv, EmitColumn
<1>2. /\ desc \in Tables /\ Len(desc) \in Nat /\ code \in Seq(Instructions)
      /\ Len(code) \in Nat /\ a \in 1 .. Len(desc) /\ a - 1 = Len(code)
  BY <1>1, Typed DEF TypeOK, Emitted
<1>3. /\ InstructionRight(desc, Instruction(known, desc[a]), a)
      /\ KnownRight(desc, KnownAfter(known, desc[a]), a)
  BY <1>1, <1>2, EmitRight DEF CodeInv
<1>4. Instruction(known, desc[a]) \in Instructions
  BY <1>3 DEF InstructionRight
<1>5. /\ code' \in Seq(Instructions) /\ Len(code') = a
      /\ code'[a] = Instruction(known, desc[a])
      /\ \A b \in 1 .. Len(code) : code'[b] = code[b]
  BY <1>1, <1>2, <1>4
<1>6. CodeInv'
  <2> SUFFICES ASSUME NEW b \in 1 .. a
               PROVE  InstructionRight(desc, code'[b], b)
    BY <1>1, <1>3, <1>5 DEF CodeInv
  <2>1. b = a \/ b \in 1 .. Len(code)
    BY <1>2
  <2> QED
    BY <1>1, <1>3, <1>5, <2>1 DEF CodeInv
<1>7. KnownAfter(known, desc[a]) \in [off : Int, sure : BOOLEAN]
  BY <1>3 DEF KnownRight
<1> HIDE DEF a
<1>8. TypeOK'
  <2>1. slot' \in Slots' /\ Runs' = Runs
    BY <1>1 DEF TypeOK, Slots, Runs, Columns
  <2> QED
    BY <1>1, <1>2, <1>5, <1>7, <2>1 DEF TypeOK
<1>9. run = Idle
  <2> USE <1>1 DEF IInv
  <2> QED
    BY DEF RunInv
<1>10. SlotIsCurrent' /\ Resumable' /\ RunInv'
  <2>1. SlotIsCurrent'
    BY <1>1 DEF IInv, SlotIsCurrent, InSlot
  <2>2. Resumable'
    BY <1>1 DEF IInv, Resumable
  <2> QED
    BY <1>1, <1>9, <2>1, <2>2 DEF RunInv
<1> QED
  BY <1>6, <1>8, <1>10 DEF IInv

LEMMA StoreStep ==
    ASSUME IInv, StoreTuple
    PROVE  IInv'
<1>1. /\ TypeOK /\ CodeInv /\ run = Idle /\ run' = Idle
      /\ UNCHANGED <<desc, code, known>> /\ tuple' \in TuplesOf[desc]
  BY DEF IInv, StoreTuple
<1>2. PICK stale \in BOOLEAN : slot' = Fresh(desc, stale)
  BY DEF StoreTuple
<1>3. Columns = 1 .. Len(desc) /\ Len(desc) \in Nat /\ Columns' = Columns
  BY <1>1, Typed DEF Columns
<1>4. slot' \in Slots /\ slot'.nvalid = 0 /\ Slots' = Slots
  BY <1>1, <1>2, <1>3 DEF Fresh, Slots, Junk, Columns
<1>5. TypeOK'
  BY <1>1, <1>4 DEF TypeOK
<1>6. CodeInv'
  BY <1>1 DEF CodeInv
<1> QED
  BY <1>1, <1>4, <1>5, <1>6
     DEF IInv, SlotIsCurrent, Resumable, RunInv

LEMMA FinishStep ==
    ASSUME IInv, Finish
    PROVE  IInv'
<1>1. /\ TypeOK /\ CodeInv /\ run # Idle /\ run' = Idle /\ slot \in Slots
      /\ UNCHANGED <<desc, tuple, code, known>>
  BY DEF IInv, Finish, Idle, TypeOK
<1>2. /\ run.n \in 1 .. Len(desc) /\ run.att \in Nat /\ run.att <= run.n
      /\ tuple.natts \in Nat /\ slot.nvalid \in Nat
      /\ desc \in Tables /\ tuple \in TuplesOf[desc] /\ Len(desc) \in Nat
  BY <1>1, Running, Typed
<1>3. run.off = EndOf(tuple, run.att) /\ run.off \in Nat
  BY <1>1, <1>2, EndType DEF IInv, RunInv
<1>4. run.att = run.n \/ run.att >= tuple.natts
  <2>1. Ends
    BY DEF Finish
  <2>2. CASE run.at = "unrolled"
    <3>1. ~(run.att < run.n /\ run.att + 1 <= tuple.natts)
      BY <2>1, <2>2 DEF Ends, UnrolledAvailable, Col
    <3> QED
      BY <1>2, <3>1
  <2>3. CASE run.at # "unrolled"
    <3>1. run.att >= Limit /\ (Limit = run.n \/ Limit = tuple.natts)
      BY <1>1, <2>1, <2>3, Running DEF Ends
    <3> QED
      BY <1>2, <3>1
  <2> QED
    BY <2>2, <2>3
<1>5. run.off = EndOf(tuple, run.n)
  BY <1>4, <1>2, <1>3, EndBeyond
<1>6. /\ slot' \in Slots /\ slot'.nvalid = run.n /\ slot'.off = run.off
      /\ slot'.slow = TRUE /\ slot'.val = slot.val /\ slot'.nul = slot.nul
  <2>1. slot' = [slot EXCEPT !.nvalid = run.n, !.off = run.off, !.slow = TRUE]
    BY DEF Finish
  <2>2. run.n \in 0 .. Len(desc)
    BY <1>2
  <2> QED
    BY <1>1, <1>3, <2>1, <2>2 DEF Slots
<1>7. TypeOK'
  BY <1>1, <1>6 DEF TypeOK, Slots, Columns
<1>8. SlotIsCurrent'
  <2> SUFFICES ASSUME NEW a \in 1 .. run.n
               PROVE  SameColumn(InSlot(a), Logical(desc, tuple, a))
    BY <1>1, <1>6 DEF SlotIsCurrent, InSlot
  <2>1. a \in 1 .. run.att \/ a \in tuple.natts + 1 .. run.n
    BY <1>4, <1>2
  <2> QED
    BY <1>1, <2>1 DEF IInv, RunInv, Taken
<1>9. CodeInv'
  BY <1>1 DEF CodeInv
<1>10. Resumable' /\ RunInv'
  BY <1>1, <1>5, <1>6 DEF Resumable, RunInv
<1> QED
  BY <1>7, <1>8, <1>9, <1>10 DEF IInv

\* slot_getmissingattrs gives the columns the tuple has not.
LEMMA FillRight ==
    ASSUME TypeOK, NEW n \in 1 .. Len(desc), NEW s \in Slots,
           NEW r, r = FillMissing(s, n)
    PROVE  /\ r \in Slots
           /\ r.nvalid = s.nvalid /\ r.off = s.off /\ r.slow = s.slow
           /\ \A a \in tuple.natts + 1 .. n :
                    /\ r.val[a] = Logical(desc, tuple, a).val
                    /\ r.nul[a] = Logical(desc, tuple, a).nul
           /\ \A a \in Columns \ (tuple.natts + 1 .. n) :
                    r.val[a] = s.val[a] /\ r.nul[a] = s.nul[a]
<1> DEFINE S == tuple.natts + 1 .. n
           f == [a \in S |-> Missing(desc[a])]
<1>1. S \in SUBSET Columns
  BY Typed
<1>2. ASSUME NEW a \in S
      PROVE  /\ f[a] = Logical(desc, tuple, a)
             /\ f[a].val \in Int /\ f[a].nul \in BOOLEAN
  <2>1. f[a] = Missing(desc[a])
    OBVIOUS
  <2>2. Logical(desc, tuple, a) = Missing(desc[a])
    BY Typed DEF Logical
  <2>3. a \in 1 .. Len(desc)
    BY Typed
  <2> HIDE DEF f
  <2> QED
    BY <2>1, <2>2, <2>3, RowTyped
<1>3. r = PutAll(s, f) /\ DOMAIN f = S
  BY DEF FillMissing
<1> HIDE DEF f, S
<1>4. Gives(f, S)
  BY <1>2, <1>3 DEF Gives
<1>5. HasAll(r, s, f, S)
  BY <1>1, <1>3, <1>4, PutAllRight
<1>6. /\ r \in Slots
      /\ r.nvalid = s.nvalid /\ r.off = s.off /\ r.slow = s.slow
      /\ \A a \in S : r.val[a] = f[a].val /\ r.nul[a] = f[a].nul
      /\ \A a \in Columns \ S : r.val[a] = s.val[a] /\ r.nul[a] = s.nul[a]
  BY <1>5 DEF HasAll
<1> QED
  BY <1>2, <1>6 DEF S

LEMMA PrologueRight ==
    ASSUME TypeOK, NEW n \in 1 .. Len(desc), NEW s \in Slots,
           NEW r, r = Prologue(s, n)
    PROVE  /\ r \in Slots
           /\ r.nvalid = s.nvalid /\ r.off = s.off /\ r.slow = s.slow
           /\ \A a \in tuple.natts + 1 .. n :
                    /\ r.val[a] = Logical(desc, tuple, a).val
                    /\ r.nul[a] = Logical(desc, tuple, a).nul
           /\ \A a \in Columns \ (tuple.natts + 1 .. n) :
                    r.val[a] = s.val[a] /\ r.nul[a] = s.nul[a]
<1>1. CASE IsGuaranteed(desc, n, n)
  <2>1. n <= tuple.natts
    BY <1>1, Typed, GuaranteedStored
  <2>2. tuple.natts + 1 .. n = {}
    BY <2>1, Typed
  <2> QED
    BY <1>1, <2>2 DEF Prologue
<1>2. CASE ~IsGuaranteed(desc, n, n)
  BY <1>2, FillRight DEF Prologue
<1> QED
  BY <1>1, <1>2

LeavesAt(s, r, n, e, z, q) ==
    s = [r EXCEPT !.nvalid = n, !.off = e, !.slow = (z /\ @) \/ q]

LEMMA LeavesAtRight ==
    ASSUME NEW r \in Slots, NEW n \in 0 .. Len(desc), NEW e \in Nat,
           NEW z \in BOOLEAN, NEW q \in BOOLEAN,
           NEW s, LeavesAt(s, r, n, e, z, q)
    PROVE  /\ s \in Slots /\ s.nvalid = n /\ s.off = e
           /\ s.val = r.val /\ s.nul = r.nul
<1>1. r.slow \in BOOLEAN
  BY DEF Slots
<1>2. PICK w \in BOOLEAN : w = ((z /\ r.slow) \/ q)
  OBVIOUS
<1>3. s = [r EXCEPT !.nvalid = n, !.off = e, !.slow = w]
  BY <1>2 DEF LeavesAt, Slots
<1> QED
  BY <1>2, <1>3 DEF Slots

LEMMA StaysSlow ==
    ASSUME NEW r \in Slots, NEW n \in 0 .. Len(desc), NEW e \in Nat,
           NEW z \in BOOLEAN, NEW q \in BOOLEAN, q,
           NEW s, LeavesAt(s, r, n, e, z, q)
    PROVE  s.slow
<1>1. r.slow \in BOOLEAN
  BY DEF Slots
<1>2. ((z /\ r.slow) \/ q) = TRUE
  OBVIOUS
<1>3. s = [r EXCEPT !.nvalid = n, !.off = e, !.slow = TRUE]
  <2>1. s = [r EXCEPT !.nvalid = n, !.off = e, !.slow = (z /\ r.slow) \/ q]
    BY DEF LeavesAt, Slots
  <2> QED
    BY <1>2, <2>1
<1> QED
  BY <1>3 DEF Slots

\* PostgreSQL's own way.
LEMMA InterpretStep ==
    ASSUME IInv, NEW n \in Columns, Interpret(n)
    PROVE  IInv'
<1> DEFINE S == slot.nvalid + 1 .. n
           f == [a \in S |-> IF Resumable THEN Logical(desc, tuple, a)
                                         ELSE NotNull(Junk)]
           r == PutAll(slot, f)
<1>1. /\ TypeOK /\ CodeInv /\ run = Idle /\ run' = Idle /\ slot \in Slots
      /\ Resumable /\ SlotIsCurrent /\ slot.nvalid < n
      /\ UNCHANGED <<desc, tuple, code, known>>
  BY DEF IInv, Interpret, Asked, TypeOK
<1>2. /\ Columns = 1 .. Len(desc) /\ Len(desc) \in Nat
      /\ slot.nvalid \in Nat /\ n \in Nat /\ n \in 0 .. Len(desc)
      /\ S \in SUBSET Columns /\ tuple \in TuplesOf[desc] /\ desc \in Tables
  BY <1>1, Typed
<1>3. ASSUME NEW a \in S
      PROVE  /\ f[a] = Logical(desc, tuple, a)
             /\ f[a].val \in Int /\ f[a].nul \in BOOLEAN
  <2>1. f[a] = Logical(desc, tuple, a)
    BY <1>1
  <2>2. a \in 1 .. Len(desc)
    BY <1>2
  <2> HIDE DEF f
  <2> QED
    BY <1>1, <2>1, <2>2, RowTyped
<1>4. DOMAIN f = S
  OBVIOUS
<1>5. slot' = [r EXCEPT !.nvalid = n, !.off = EndOf(tuple, n),
                        !.slow = (slot.nvalid > 0 /\ @) \/ IsSlow(desc, tuple, n)]
  BY DEF Interpret
<1>6. r = PutAll(slot, f)
  OBVIOUS
<1> HIDE DEF f, S, r
<1>7. Gives(f, S)
  BY <1>3, <1>4 DEF Gives
<1>8. HasAll(r, slot, f, S)
  BY <1>1, <1>2, <1>6, <1>7, PutAllRight
<1>9. /\ r \in Slots
      /\ r.nvalid = slot.nvalid /\ r.off = slot.off /\ r.slow = slot.slow
      /\ \A a \in S : r.val[a] = f[a].val /\ r.nul[a] = f[a].nul
      /\ \A a \in Columns \ S :
            r.val[a] = slot.val[a] /\ r.nul[a] = slot.nul[a]
  BY <1>8 DEF HasAll
<1>10. EndOf(tuple, n) \in Nat
  BY <1>2, EndType
<1>11. PICK z \in BOOLEAN : z <=> slot.nvalid > 0
  OBVIOUS
<1>12. PICK q \in BOOLEAN : q <=> IsSlow(desc, tuple, n)
  <2>1. CASE IsSlow(desc, tuple, n)
    BY <2>1
  <2>2. CASE ~IsSlow(desc, tuple, n)
    BY <2>2
  <2> QED
    BY <2>1, <2>2
<1>13. LeavesAt(slot', r, n, EndOf(tuple, n), z, q)
  BY <1>5, <1>11, <1>12 DEF LeavesAt
<1>14. /\ slot' \in Slots /\ slot'.nvalid = n
       /\ slot'.off = EndOf(tuple, n)
       /\ slot'.val = r.val /\ slot'.nul = r.nul
  BY <1>2, <1>9, <1>10, <1>13, LeavesAtRight
<1>15. ASSUME q
      PROVE  slot'.slow
  BY <1>2, <1>9, <1>10, <1>13, <1>15, StaysSlow
<1>16. TypeOK'
  BY <1>1, <1>14 DEF TypeOK, Slots, Columns
<1>17. SlotIsCurrent'
  <2> SUFFICES ASSUME NEW a \in 1 .. n
               PROVE  SameColumn([val |-> r.val[a], nul |-> r.nul[a]],
                                 Logical(desc, tuple, a))
    <3>1. \A a \in 1 .. n :
              InSlot(a)' = [val |-> r.val[a], nul |-> r.nul[a]]
      BY <1>14 DEF InSlot
    <3> QED
      BY <1>1, <1>14, <3>1 DEF SlotIsCurrent, InSlot
  <2>1. CASE a \in S
    BY <1>3, <1>9, <2>1 DEF SameColumn
  <2>2. CASE a \notin S
    <3>1. a \in 1 .. slot.nvalid /\ a \in Columns
      BY <1>1, <1>2, <2>2 DEF S
    <3> QED
      BY <1>1, <1>9, <2>2, <3>1 DEF SlotIsCurrent, InSlot, SameColumn
  <2> QED
    BY <2>1, <2>2
<1>18. CodeInv'
  BY <1>1 DEF CodeInv
<1>19. Resumable' /\ RunInv'
  BY <1>1, <1>14, <1>12, <1>15 DEF Resumable, RunInv
<1> QED
  BY <1>16, <1>17, <1>18, <1>19 DEF IInv

\* The start of a run.  Slot r is s with the columns the tuple has not.
Filled(r, s, n) ==
    /\ r \in Slots
    /\ r.nvalid = s.nvalid /\ r.off = s.off /\ r.slow = s.slow
    /\ \A a \in tuple.natts + 1 .. n :
            /\ r.val[a] = Logical(desc, tuple, a).val
            /\ r.nul[a] = Logical(desc, tuple, a).nul
    /\ \A a \in Columns \ (tuple.natts + 1 .. n) :
            r.val[a] = s.val[a] /\ r.nul[a] = s.nul[a]

\* What is right of a slot when a run for n columns starts.
StartsRight(r, n) ==
    /\ r \in Slots
    /\ r.nvalid = slot.nvalid /\ r.off = slot.off /\ r.slow = slot.slow
    /\ \A a \in 1 .. slot.nvalid :
            SameColumn([val |-> r.val[a], nul |-> r.nul[a]],
                       Logical(desc, tuple, a))
    /\ \A a \in tuple.natts + 1 .. n :
            SameColumn([val |-> r.val[a], nul |-> r.nul[a]],
                       Logical(desc, tuple, a))

LEMMA FilledStarts ==
    ASSUME IInv, NEW n \in 1 .. Len(desc), NEW r, Filled(r, slot, n)
    PROVE  StartsRight(r, n)
<1>1. TypeOK /\ SlotIsCurrent
  BY DEF IInv
<1>2. ASSUME NEW a \in tuple.natts + 1 .. n
      PROVE  SameColumn([val |-> r.val[a], nul |-> r.nul[a]],
                        Logical(desc, tuple, a))
  BY <1>2 DEF Filled, SameColumn
<1>3. ASSUME NEW a \in 1 .. slot.nvalid
      PROVE  SameColumn([val |-> r.val[a], nul |-> r.nul[a]],
                        Logical(desc, tuple, a))
  <2>1. CASE a \in tuple.natts + 1 .. n
    BY <1>2, <2>1
  <2>2. CASE a \notin tuple.natts + 1 .. n
    <3>1. a \in Columns
      BY <1>1, Typed
    <3>2. r.val[a] = slot.val[a] /\ r.nul[a] = slot.nul[a]
      BY <2>2, <3>1 DEF Filled
    <3> QED
      BY <1>1, <3>2 DEF SlotIsCurrent, InSlot, SameColumn
  <2> QED
    BY <2>1, <2>2
<1> QED
  BY <1>2, <1>3 DEF StartsRight, Filled

LEMMA FillsTwice ==
    ASSUME TypeOK, NEW n \in 1 .. Len(desc), NEW r, Filled(r, slot, n),
           NEW q, q = FillMissing(r, n)
    PROVE  Filled(q, slot, n)
<1>1. r \in Slots
  BY DEF Filled
<1>2. Filled(q, r, n)
  BY <1>1, FillRight DEF Filled
<1> QED
  BY <1>2 DEF Filled

\* The bulk-clear.
Cleared(q, r, n) ==
    /\ q \in Slots
    /\ q.nvalid = r.nvalid /\ q.off = r.off /\ q.slow = r.slow
    /\ q.val = r.val
    /\ \A a \in r.nvalid + 1 .. n : q.nul[a] = FALSE
    /\ \A a \in Columns \ (r.nvalid + 1 .. n) : q.nul[a] = r.nul[a]

LEMMA ClearRight ==
    ASSUME TypeOK, NEW n \in 1 .. Len(desc), NEW r \in Slots,
           NEW q, q = ClearFlags(r, n)
    PROVE  Cleared(q, r, n)
<1> DEFINE y == [a \in Columns |->
                    IF a \in r.nvalid + 1 .. n THEN FALSE ELSE r.nul[a]]
<1>1. /\ r.nul \in [Columns -> BOOLEAN] /\ r.nvalid \in 0 .. Len(desc)
      /\ Columns = 1 .. Len(desc) /\ Len(desc) \in Nat
  BY Typed DEF Slots
<1>2. q = [r EXCEPT !.nul = y]
  BY DEF ClearFlags, Slots
<1>3. y \in [Columns -> BOOLEAN]
  BY <1>1
<1>4. /\ \A a \in r.nvalid + 1 .. n : a \in Columns /\ y[a] = FALSE
      /\ \A a \in Columns \ (r.nvalid + 1 .. n) : y[a] = r.nul[a]
  <2>1. \A a \in r.nvalid + 1 .. n : a \in Columns
    BY <1>1
  <2> QED
    BY <2>1
<1> HIDE DEF y
<1>5. /\ q \in Slots
      /\ q.nvalid = r.nvalid /\ q.off = r.off /\ q.slow = r.slow
      /\ q.val = r.val /\ q.nul = y
  BY <1>2, <1>3 DEF Slots
<1> QED
  BY <1>4, <1>5 DEF Cleared

LEMMA ClearedStarts ==
    ASSUME IInv, NEW n \in 1 .. Len(desc), NEW r, Filled(r, slot, n),
           NEW q, q = ClearFlags(r, n), NullsAreKept(desc, tuple, n)
    PROVE  /\ StartsRight(q, n)
           /\ \A a \in slot.nvalid + 1 .. n : ~q.nul[a]
<1>1. TypeOK /\ StartsRight(r, n) /\ r \in Slots
  BY FilledStarts DEF IInv, Filled
<1>2. Cleared(q, r, n)
  BY <1>1, ClearRight
<1>3. r.nvalid = slot.nvalid
  BY DEF Filled
<1>4. \A a \in slot.nvalid + 1 .. n : q.nul[a] = FALSE
  BY <1>2, <1>3 DEF Cleared
<1>5. ASSUME NEW a \in Columns, a \notin slot.nvalid + 1 .. n
      PROVE  q.val[a] = r.val[a] /\ q.nul[a] = r.nul[a]
  BY <1>2, <1>3, <1>5 DEF Cleared
<1>6. /\ Columns = 1 .. Len(desc) /\ Len(desc) \in Nat
      /\ slot.nvalid \in 0 .. Len(desc) /\ tuple.natts \in Nat
  BY <1>1, Typed
<1>7. ASSUME NEW a \in tuple.natts + 1 .. n, a \in slot.nvalid + 1 .. n
      PROVE  SameColumn([val |-> q.val[a], nul |-> q.nul[a]],
                        Logical(desc, tuple, a))
  <2>1. q.val[a] = Logical(desc, tuple, a).val
    BY <1>2 DEF Cleared, Filled
  <2>2. Logical(desc, tuple, a).nul = FALSE
    BY <1>6 DEF NullsAreKept, Logical, Missing, NotNull
  <2> QED
    BY <1>4, <1>7, <2>1, <2>2 DEF SameColumn
<1>8. ASSUME NEW a \in 1 .. slot.nvalid
      PROVE  SameColumn([val |-> q.val[a], nul |-> q.nul[a]],
                        Logical(desc, tuple, a))
  <2>1. a \in Columns /\ a \notin slot.nvalid + 1 .. n
    BY <1>6
  <2> QED
    BY <1>1, <1>5, <2>1 DEF StartsRight
<1>9. ASSUME NEW a \in tuple.natts + 1 .. n
      PROVE  SameColumn([val |-> q.val[a], nul |-> q.nul[a]],
                        Logical(desc, tuple, a))
  <2>1. a \in 1 .. slot.nvalid \/ a \in slot.nvalid + 1 .. n
    BY <1>6
  <2> QED
    BY <1>7, <1>8, <2>1
<1>10. /\ q \in Slots
       /\ q.nvalid = slot.nvalid /\ q.off = slot.off /\ q.slow = slot.slow
  BY <1>2 DEF Cleared, Filled
<1> QED
  BY <1>4, <1>8, <1>9, <1>10 DEF StartsRight

LEMMA StartKeeps ==
    ASSUME IInv, NEW n \in 1 .. Len(desc), Asked(n),
           UNCHANGED <<desc, tuple, code, known>>,
           NEW form \in Forms, NEW nulls \in BOOLEAN,
           run' = RunOf(form, n, nulls),
           StartsRight(slot', n), FormInv'
    PROVE  IInv'
<1>1. /\ TypeOK /\ CodeInv /\ Resumable /\ Emitted /\ slot.nvalid < n
  BY DEF IInv, Asked
<1>2. /\ slot.nvalid \in Nat /\ slot.off \in Nat /\ Len(desc) \in Nat
      /\ Columns = 1 .. Len(desc)
      /\ desc \in Tables /\ tuple \in TuplesOf[desc]
  BY <1>1, Typed
<1>3. /\ run'.at = form /\ run'.n = n /\ run'.att = slot.nvalid
      /\ run'.off = IF slot.nvalid = 0 THEN 0 ELSE slot.off
      /\ run' \in Runs
  BY <1>1, <1>2 DEF RunOf, Runs
<1>4. run'.off = EndOf(tuple, slot.nvalid)
  <2>1. EndOf(tuple, 0) = 0
    BY <1>2, Layout DEF EndOf, EndBefore, Lesser
  <2> QED
    BY <1>1, <1>2, <1>3, <2>1 DEF Resumable
<1>5. /\ slot' \in Slots /\ slot'.nvalid = slot.nvalid
      /\ slot'.off = slot.off /\ slot'.slow = slot.slow
  BY DEF StartsRight
<1>6. TypeOK'
  <2>1. slot' \in Slots' /\ run' \in Runs'
    BY <1>3, <1>5 DEF Slots, Runs, Columns
  <2>2. run'.att \in slot'.nvalid .. run'.n
    BY <1>1, <1>2, <1>3, <1>5
  <2> QED
    BY <1>1, <2>1, <2>2 DEF TypeOK
<1>7. CodeInv'
  BY <1>1 DEF CodeInv
<1>8. Resumable'
  BY <1>1, <1>5 DEF Resumable
<1>9. \A a \in 1 .. slot.nvalid : Taken(a)'
  BY DEF StartsRight, Taken, InSlot
<1>10. \A a \in tuple.natts + 1 .. n : Taken(a)'
  BY DEF StartsRight, Taken, InSlot
<1>11. SlotIsCurrent'
  BY <1>5, <1>9 DEF SlotIsCurrent, Taken
<1>12. RunInv'
  BY <1>1, <1>3, <1>4, <1>5, <1>9, <1>10 DEF RunInv, Emitted
<1> QED
  BY <1>6, <1>7, <1>8, <1>11, <1>12 DEF IInv

LEMMA NoNulls ==
    ASSUME NEW d \in Tables, NEW t \in TuplesOf[d], NEW n \in 1 .. Len(d),
           ~HasNulls(t) \/ AllSet(t, n) \/ ~Nullable(d, n)
    PROVE  \A a \in 1 .. Lesser(n, t.natts) : ~t.nul[a]
<1> SUFFICES ASSUME NEW a \in 1 .. Lesser(n, t.natts)
             PROVE  ~t.nul[a]
  OBVIOUS
<1>1. a \in 1 .. n /\ a \in 1 .. t.natts
  BY Layout DEF Lesser
<1>2. CASE ~HasNulls(t)
  BY <1>1, <1>2 DEF HasNulls
<1>3. CASE AllSet(t, n)
  BY <1>1, <1>3 DEF AllSet
<1>4. CASE ~Nullable(d, n)
  BY <1>1, <1>4, NullAt DEF Nullable
<1> QED
  BY <1>2, <1>3, <1>4

LEMMA StartUnrolledStep ==
    ASSUME IInv, NEW n \in Columns, StartUnrolled(n)
    PROVE  IInv'
<1>1. TypeOK /\ n \in 1 .. Len(desc) /\ slot \in Slots
      /\ desc \in Tables /\ tuple \in TuplesOf[desc]
  BY Typed DEF IInv, TypeOK
<1>2. /\ Asked(n) /\ UNCHANGED <<desc, tuple, code, known>>
      /\ slot' = Prologue(slot, n)
      /\ run' = RunOf("unrolled", n, HasNulls(tuple))
  BY DEF StartUnrolled
<1>3. Filled(slot', slot, n)
  BY <1>1, <1>2, PrologueRight DEF Filled
<1>4. StartsRight(slot', n)
  BY <1>1, <1>3, FilledStarts
<1>5. HasNulls(tuple) \in BOOLEAN /\ "unrolled" \in Forms
  BY DEF HasNulls, Forms
<1>6. run'.at = "unrolled" /\ run'.n = n /\ run'.nulls = HasNulls(tuple)
  BY <1>2 DEF RunOf
<1>7. FormInv'
  <2>1. Limit' = Lesser(n, tuple.natts)
    BY <1>2, <1>6 DEF Limit
  <2>2. HasNulls(tuple) \/ \A a \in 1 .. Lesser(n, tuple.natts) : ~tuple.nul[a]
    BY <1>1, NoNulls
  <2> QED
    BY <1>2, <1>6, <2>1, <2>2 DEF FormInv
<1> QED
  BY <1>1, <1>2, <1>4, <1>5, <1>7, StartKeeps

\* Tables and tuples of which the code does what PostgreSQL does.
AllOrdinary == \A d \in Tables : \A t \in TuplesOf[d] : Ordinary(d, t)

LEMMA StartLoopStep ==
    ASSUME IInv, AllOrdinary, NEW n \in Columns, NEW shared \in BOOLEAN,
           StartLoop(n, shared)
    PROVE  IInv'
<1> DEFINE form == LoopFor(desc, tuple, n, shared)
           filled == Prologue(slot, n)
           nulls == HasNulls(tuple) /\ (form = "table" => ~AllSet(tuple, n))
<1>1. TypeOK /\ n \in 1 .. Len(desc) /\ slot \in Slots
      /\ desc \in Tables /\ tuple \in TuplesOf[desc]
      /\ n \in DOMAIN desc /\ slot.nvalid \in Nat /\ tuple.natts \in Nat
  BY Typed, Columned DEF IInv, TypeOK
<1>2. /\ Asked(n) /\ UsesLoop(desc, n)
      /\ UNCHANGED <<desc, tuple, code, known>>
      /\ slot' = CASE form \in {"copy", "table"} -> ClearFlags(filled, n)
                   [] form = "sparse" -> FillMissing(filled, n)
                   [] OTHER -> filled
      /\ run' = RunOf(form, n, nulls)
  BY DEF StartLoop
<1>3. form \in {"copy", "sparse", "bits", "descs", "table"}
  BY DEF LoopFor
<1>4. /\ form \in {"copy", "table"} => NullsAreKept(desc, tuple, n)
      /\ form = "table" => BatchesAreStored(desc, tuple, n)
                           /\ VarlenasAlignTo4(desc, n)
  <2>1. Ordinary(desc, tuple)
    BY <1>1 DEF AllOrdinary
  <2>2. form \in {LoopFor(desc, tuple, n, TRUE), LoopFor(desc, tuple, n, FALSE)}
    OBVIOUS
  <2> HIDE DEF form
  <2> QED
    BY <1>1, <1>2, <2>1, <2>2 DEF Ordinary
<1>5. /\ form \in {"copy", "bits"} => Uniform(desc, n)
      /\ form = "copy" => ~HasNulls(tuple) \/ AllSet(tuple, n) \/ ~Nullable(desc, n)
  BY DEF LoopFor
<1>6. Filled(filled, slot, n)
  BY <1>1, PrologueRight DEF Filled
<1>7. nulls \in BOOLEAN /\ form \in Forms
  BY <1>3 DEF HasNulls, Forms
<1>8. run'.at = form /\ run'.n = n /\ run'.nulls = nulls
      /\ run'.att = slot.nvalid /\ run'.blank = 0 /\ run'.batch = 0
  BY <1>2 DEF RunOf
<1>9. Limit' = Lesser(n, tuple.natts) /\ Lesser(n, tuple.natts) \in Nat
      /\ Lesser(n, tuple.natts) <= n
  BY <1>1, <1>2, <1>8 DEF Limit, Lesser
<1>10. nulls \/ \A a \in 1 .. Lesser(n, tuple.natts) : ~tuple.nul[a]
  BY <1>1, NoNulls
<1>11. form = "copy" => \A a \in 1 .. Lesser(n, tuple.natts) : ~tuple.nul[a]
  BY <1>1, <1>5, NoNulls
<1>12. /\ StartsRight(slot', n)
       /\ form \in {"copy", "table"} =>
                \A a \in slot.nvalid + 1 .. n : ~slot'.nul[a]
  <2> HIDE DEF form, filled
  <2>1. CASE form \in {"copy", "table"}
    <3>1. slot' = ClearFlags(filled, n)
      BY <1>2, <2>1
    <3> QED
      BY <1>1, <1>4, <1>6, <2>1, <3>1, ClearedStarts
  <2>2. CASE form = "sparse"
    <3>1. slot' = FillMissing(filled, n)
      BY <1>2, <2>2
    <3>2. Filled(slot', slot, n)
      BY <1>1, <1>6, <3>1, FillsTwice
    <3> QED
      BY <1>1, <2>2, <3>2, FilledStarts
  <2>3. CASE form \in {"bits", "descs"}
    <3>1. slot' = filled
      BY <1>2, <2>3
    <3> QED
      BY <1>1, <1>6, <2>3, <3>1, FilledStarts
  <2> QED
    BY <1>3, <2>1, <2>2, <2>3
<1> HIDE DEF form, filled, nulls
<1>13. FormInv'
  <2>1. run'.at \in {"copy", "table"} =>
            \A a \in run'.att + 1 .. Limit' : ~slot'.nul[a]
    BY <1>1, <1>8, <1>9, <1>12
  <2>2. run'.at = "sparse" =>
            /\ run'.blank <= Limit'
            /\ \A a \in run'.att + 1 .. run'.blank : slot'.nul[a]
    BY <1>1, <1>8, <1>9
  <2>3. BatchRight(run.att, run.batch)'
    BY <1>1, <1>8, <1>9 DEF BatchRight
  <2> QED
    BY <1>2, <1>4, <1>5, <1>8, <1>9, <1>10, <1>11, <2>1, <2>2, <2>3 DEF FormInv
<1> QED
  BY <1>1, <1>2, <1>7, <1>12, <1>13, StartKeeps

-----------------------------------------------------------------------------
(* The theorems. *)

LEMMA NextKeeps ==
    ASSUME AllOrdinary, IInv, [Next]_vars
    PROVE  IInv'
<1>1. CASE EmitColumn
  BY <1>1, EmitStep
<1>2. CASE StoreTuple
  BY <1>2, StoreStep
<1>3. CASE \E n \in Columns : Interpret(n)
  BY <1>3, InterpretStep
<1>4. CASE \E n \in Columns : StartUnrolled(n)
  BY <1>4, StartUnrolledStep
<1>5. CASE \E n \in Columns : \E shared \in BOOLEAN : StartLoop(n, shared)
  BY <1>5, StartLoopStep
<1>6. CASE RunColumn
  BY <1>6, ColumnSteps, StepKeeps
<1>7. CASE Finish
  BY <1>7, FinishStep
<1>8. CASE UNCHANGED vars
  BY <1>8 DEF vars, IInv, TypeOK, CodeInv, SlotIsCurrent, InSlot, Resumable,
              RunInv, Taken, FormInv, Limit, BatchRight, Emitted, Columns,
              Slots, Runs
<1> QED
  BY <1>1, <1>2, <1>3, <1>4, <1>5, <1>6, <1>7, <1>8 DEF Next

LEMMA Invariance ==
    ASSUME AllOrdinary
    PROVE  Spec => []IInv
<1>1. Init => IInv
  BY InitRight
<1>2. IInv /\ [Next]_vars => IInv'
  BY NextKeeps
<1> QED
  BY <1>1, <1>2, PTL DEF Spec
\* The types hold of every state the code reaches, and the column that runs is
\* within those asked for: neither the emitter nor any form of the loop leaves
\* the arrays of the slot or the code that is emitted.
THEOREM TypeCorrect ==
    ASSUME AllOrdinary
    PROVE  Spec => []TypeOK
<1>1. IInv => TypeOK
  BY DEF IInv
<1> QED
  BY <1>1, Invariance, PTL

\* The columns a slot says it has are those of the row, whatever mixture of
\* unrolled code, loops and PostgreSQL's slot_getsomeattrs_int took them apart.
THEOREM CurrentAlways ==
    ASSUME AllOrdinary
    PROVE  Spec => []SlotIsCurrent
<1>1. IInv => SlotIsCurrent
  BY DEF IInv
<1> QED
  BY <1>1, Invariance, PTL

\* Code that has run leaves in the slot the offset where the next reader of the
\* tuple goes on, and marks it as one to be aligned from.
THEOREM OffsetRightAlways ==
    ASSUME AllOrdinary
    PROVE  Spec => []OffsetIsRight
<1>1. IInv => OffsetIsRight
  BY DEF IInv, OffsetIsRight
<1> QED
  BY <1>1, Invariance, PTL

\* A column that is right before and after a step of one tuple is the same.
LEMMA StaysCurrent ==
    ASSUME SlotIsCurrent, SlotIsCurrent', UNCHANGED <<desc, tuple>>,
           NEW a \in 1 .. slot.nvalid, a \in 1 .. slot'.nvalid
    PROVE  SameColumn(InSlot(a)', InSlot(a))
<1>1. SameColumn(InSlot(a), Logical(desc, tuple, a))
  BY DEF SlotIsCurrent
<1>2. SameColumn(InSlot(a)', Logical(desc, tuple, a))
  BY DEF SlotIsCurrent
<1> QED
  BY <1>1, <1>2 DEF SameColumn

\* Columns after the n that are asked for.
LeavesAfter(q, r, n) ==
    \A a \in Columns : a > n => q.val[a] = r.val[a] /\ q.nul[a] = r.nul[a]

LEMMA FilledLeaves ==
    ASSUME TypeOK, NEW n \in 1 .. Len(desc), NEW r, Filled(r, slot, n)
    PROVE  LeavesAfter(r, slot, n)
<1> SUFFICES ASSUME NEW a \in Columns, a > n
             PROVE  r.val[a] = slot.val[a] /\ r.nul[a] = slot.nul[a]
  BY DEF LeavesAfter
<1>1. a \notin tuple.natts + 1 .. n
  BY Typed
<1> QED
  BY <1>1 DEF Filled

LEMMA ClearedLeaves ==
    ASSUME TypeOK, NEW n \in 1 .. Len(desc), NEW r, Filled(r, slot, n),
           NEW q, q = ClearFlags(r, n)
    PROVE  LeavesAfter(q, slot, n)
<1>1. r \in Slots
  BY DEF Filled
<1>2. Cleared(q, r, n) /\ LeavesAfter(r, slot, n)
  BY <1>1, ClearRight, FilledLeaves
<1> SUFFICES ASSUME NEW a \in Columns, a > n
             PROVE  q.val[a] = slot.val[a] /\ q.nul[a] = slot.nul[a]
  BY DEF LeavesAfter
<1>3. a \notin r.nvalid + 1 .. n
  BY <1>1, Typed DEF Slots
<1> QED
  BY <1>2, <1>3 DEF Cleared, LeavesAfter

\* A start of unrolled code or of a loop.
LEMMA StartLeaves ==
    ASSUME IInv, NEW n \in Columns, NEW shared \in BOOLEAN,
           StartUnrolled(n) \/ StartLoop(n, shared)
    PROVE  /\ run = Idle /\ run'.n = n /\ UNCHANGED <<desc, tuple>>
           /\ slot'.nvalid = slot.nvalid
           /\ LeavesAfter(slot', slot, n)
<1> DEFINE form == LoopFor(desc, tuple, n, shared)
           filled == Prologue(slot, n)
<1>1. TypeOK /\ n \in 1 .. Len(desc) /\ slot \in Slots
  BY Typed DEF IInv, TypeOK
<1>2. /\ run = Idle /\ run'.n = n /\ UNCHANGED <<desc, tuple>>
  BY DEF StartUnrolled, StartLoop, Asked, RunOf
<1>3. slot' \in {filled, FillMissing(filled, n), ClearFlags(filled, n)}
  <2>1. CASE StartUnrolled(n)
    BY <2>1 DEF StartUnrolled
  <2>2. CASE StartLoop(n, shared)
    <3>1. slot' = CASE form \in {"copy", "table"} -> ClearFlags(filled, n)
                    [] form = "sparse" -> FillMissing(filled, n)
                    [] OTHER -> filled
      BY <2>2 DEF StartLoop
    <3> HIDE DEF form, filled
    <3> QED
      BY <3>1
  <2> QED
    BY <2>1, <2>2
<1>4. Filled(filled, slot, n)
  BY <1>1, PrologueRight DEF Filled
<1> HIDE DEF form, filled
<1>5. CASE slot' = filled
  BY <1>1, <1>2, <1>4, <1>5, FilledLeaves DEF Filled
<1>6. CASE slot' = FillMissing(filled, n)
  <2>1. Filled(slot', slot, n)
    BY <1>1, <1>4, <1>6, FillsTwice
  <2> QED
    BY <1>1, <1>2, <2>1, FilledLeaves DEF Filled
<1>7. CASE slot' = ClearFlags(filled, n)
  <2>1. filled \in Slots /\ filled.nvalid = slot.nvalid
    BY <1>4 DEF Filled
  <2>2. Cleared(slot', filled, n)
    BY <1>1, <1>7, <2>1, ClearRight
  <2>3. LeavesAfter(slot', slot, n)
    BY <1>1, <1>4, <1>7, ClearedLeaves
  <2> QED
    BY <1>2, <2>1, <2>2, <2>3 DEF Cleared
<1> QED
  BY <1>3, <1>5, <1>6, <1>7

Spares ==
    \A r \in {run, run'} : r # Idle =>
        \A a \in Columns : a <= slot.nvalid \/ a > r.n =>
            SameColumn(InSlot(a)', InSlot(a))

\* A step of a run, or to one, for n columns, spares the others.
LEMMA SparesIn ==
    ASSUME IInv, IInv', UNCHANGED <<desc, tuple>>, NEW n \in Nat,
           run = Idle \/ run.n = n, run' = Idle \/ run'.n = n,
           slot.nvalid <= slot'.nvalid, LeavesAfter(slot', slot, n)
    PROVE  Spares
<1> SUFFICES ASSUME NEW a \in Columns, a <= slot.nvalid \/ a > n
             PROVE  SameColumn(InSlot(a)', InSlot(a))
  BY DEF Spares
<1>1. CASE a <= slot.nvalid
  <2>1. slot.nvalid \in Nat /\ a \in 1 .. slot.nvalid
    BY <1>1, Typed DEF IInv
  <2>2. slot'.nvalid \in Int
    BY DEF IInv, TypeOK, Slots
  <2> QED
    BY <2>1, <2>2, StaysCurrent DEF IInv
<1>2. CASE a > n
  BY <1>2 DEF LeavesAfter, SameColumn, InSlot
<1> QED
  BY <1>1, <1>2

LEMMA NextSpares ==
    ASSUME AllOrdinary, IInv, [Next]_vars
    PROVE  Spares
<1>1. IInv'
  BY NextKeeps
<1>2. CASE run = Idle /\ run' = Idle
  BY <1>2 DEF Spares
<1>3. CASE \E n \in Columns : \/ StartUnrolled(n)
                              \/ \E shared \in BOOLEAN : StartLoop(n, shared)
  <2>1. PICK n \in Columns, shared \in BOOLEAN :
                StartUnrolled(n) \/ StartLoop(n, shared)
    BY <1>3
  <2>2. /\ run = Idle /\ run'.n = n /\ UNCHANGED <<desc, tuple>>
        /\ slot'.nvalid = slot.nvalid
        /\ LeavesAfter(slot', slot, n)
    BY <2>1, StartLeaves
  <2>3. n \in Nat /\ slot.nvalid \in Nat
    BY Typed DEF IInv
  <2> QED
    BY <1>1, <2>2, <2>3, SparesIn
<1>4. CASE RunColumn
  <2>1. run # Idle /\ StepRight
    BY <1>4, ColumnSteps
  <2>2. /\ run.n \in Nat /\ Limit \in Nat /\ Limit <= run.n
        /\ Columns = 1 .. Len(desc) /\ Len(desc) \in Nat /\ slot.nvalid \in Nat
    BY <2>1, Running, Typed DEF IInv
  <2>3. LeavesAfter(slot', slot, run.n)
    <3> SUFFICES ASSUME NEW a \in Columns, a > run.n
                 PROVE  Kept(a)
      BY DEF LeavesAfter, Kept
    <3>1. a > Limit
      BY <2>2
    <3> QED
      BY <2>1, <3>1 DEF StepRight
  <2>4. run'.n = run.n /\ slot'.nvalid = slot.nvalid /\ UNCHANGED <<desc, tuple>>
    BY <2>1 DEF StepRight
  <2> QED
    BY <1>1, <2>2, <2>3, <2>4, SparesIn
<1>5. CASE Finish \/ UNCHANGED vars
  <2>1. slot'.val = slot.val /\ slot'.nul = slot.nul
    <3>1. CASE Finish
      <4>1. slot \in Slots
        BY DEF IInv, TypeOK
      <4> QED
        BY <3>1, <4>1 DEF Finish, Slots
    <3>2. CASE UNCHANGED vars
      BY <3>2 DEF vars
    <3> QED
      BY <1>5, <3>1, <3>2
  <2> QED
    BY <2>1 DEF Spares, SameColumn, InSlot
<1>6. EmitColumn \/ StoreTuple \/ (\E n \in Columns : Interpret(n))
        => run = run'
  BY DEF EmitColumn, StoreTuple, Interpret, Asked
<1>7. ASSUME EmitColumn PROVE run = Idle
  BY <1>7 DEF EmitColumn, IInv, RunInv
<1>8. StoreTuple \/ (\E n \in Columns : Interpret(n)) => run = Idle
  BY DEF StoreTuple, Interpret, Asked
<1> QED
  BY <1>2, <1>3, <1>4, <1>5, <1>6, <1>7, <1>8 DEF Next

\* Code that takes n columns apart writes neither after them, where the
\* expression may not have room, nor over what the slot has, which may be read.
THEOREM OnlyAsked ==
    ASSUME AllOrdinary
    PROVE  Spec => WritesOnlyAsked
<1>1. IInv /\ [Next]_vars => Spares
  BY NextSpares
<1> QED
  BY <1>1, Invariance, PTL DEF Spec, WritesOnlyAsked, Spares

-----------------------------------------------------------------------------
(* The row on demand. *)

RowTaken ==
    ColumnsTaken = [a \in 1 .. slot.nvalid |-> Logical(desc, tuple, a)]

LEMMA TakenIsRow ==
    TypeOK /\ SlotIsCurrent => RowTaken
<1> SUFFICES ASSUME TypeOK, SlotIsCurrent, NEW a \in 1 .. slot.nvalid
             PROVE  (IF slot.nul[a] THEN Null ELSE NotNull(slot.val[a]))
                        = Logical(desc, tuple, a)
  BY DEF RowTaken, ColumnsTaken
<1>1. a \in 1 .. Len(desc)
  BY Typed
<1>2. /\ slot.nul[a] = Logical(desc, tuple, a).nul
      /\ ~slot.nul[a] => slot.val[a] = Logical(desc, tuple, a).val
  BY DEF SlotIsCurrent, SameColumn, InSlot
<1>3. CASE slot.nul[a]
  BY <1>1, <1>2, <1>3, RowTyped
<1>4. CASE ~slot.nul[a]
  <2>1. Logical(desc, tuple, a).nul = FALSE
    BY <1>1, <1>2, <1>4, RowTyped
  <2> QED
    BY <1>1, <1>2, <1>4, <2>1, RowTyped DEF NotNull
<1> QED
  BY <1>3, <1>4

LEMMA LazyRow ==
    ASSUME NEW d, NEW t, NEW a
    PROVE  Lazy!Logical(d, t, a) = Logical(d, t, a)
<1> QED
  BY DEF Lazy!Logical, Logical, Lazy!Missing, Missing, Lazy!NotNull, NotNull,
         Lazy!Null, Null

LEMMA LazyInit ==
    ASSUME Init
    PROVE  Lazy!Init
<1>1. slot.nvalid = 0
  BY DEF Init, Fresh
<1> QED
  BY <1>1 DEF ColumnsTaken, Lazy!Init

\* The next columns, by PostgreSQL or by code that has run.
LEMMA LazyExtends ==
    ASSUME IInv, IInv', UNCHANGED <<desc, tuple>>,
           NEW n \in Columns, slot.nvalid < n, slot'.nvalid = n,
           ColumnsTaken = [a \in 1 .. slot.nvalid |-> Logical(desc, tuple, a)],
           ColumnsTaken' = [a \in 1 .. n |-> Logical(desc, tuple, a)]
    PROVE  Lazy!Next
<1>1. slot.nvalid \in Nat /\ Columns = 1 .. Len(desc) /\ Len(desc) \in Nat
  BY Typed DEF IInv
<1>2. Len(ColumnsTaken) = slot.nvalid
  BY <1>1
<1>3. n \in Len(ColumnsTaken) + 1 .. Len(desc)
  BY <1>1, <1>2
<1>4. Lazy!Extend(n)
  BY LazyRow DEF Lazy!Extend
<1> QED
  BY <1>3, <1>4 DEF Lazy!Next

LEMMA LazyStep ==
    ASSUME IInv, IInv', [Next]_vars, RowTaken, RowTaken'
    PROVE  [Lazy!Next]_<<desc, tuple, ColumnsTaken>>
<1>1. /\ ColumnsTaken = [a \in 1 .. slot.nvalid |-> Logical(desc, tuple, a)]
      /\ ColumnsTaken'
            = [a \in 1 .. slot'.nvalid |-> Logical(desc', tuple', a)]
  BY DEF RowTaken
<1>2. CASE StoreTuple
  <2>1. slot'.nvalid = 0 /\ UNCHANGED desc
    BY <1>2 DEF StoreTuple, Fresh
  <2>2. ColumnsTaken' = <<>>
    BY <1>1, <2>1
  <2> QED
    BY <2>1, <2>2 DEF Lazy!Next, Lazy!Store
<1>3. CASE \E n \in Columns : Interpret(n)
  <2>1. PICK n \in Columns : Interpret(n)
    BY <1>3
  <2>2. UNCHANGED <<desc, tuple>> /\ slot.nvalid < n
    BY <2>1 DEF Interpret, Asked
  <2>3. slot'.nvalid = n
    BY <2>1 DEF Interpret, PutAll
  <2> QED
    BY <1>1, <2>2, <2>3, LazyExtends
<1>4. CASE Finish
  <2>1. run # Idle /\ UNCHANGED <<desc, tuple>>
    BY <1>4 DEF Finish, Idle
  <2>2. slot.nvalid < run.n /\ run.n \in Columns
    BY <2>1, Running, Typed DEF IInv, RunInv
  <2>3. slot'.nvalid = run.n
    BY <1>4 DEF Finish, IInv, TypeOK, Slots
  <2> QED
    BY <1>1, <2>1, <2>2, <2>3, LazyExtends
<1>5. CASE UNCHANGED <<desc, tuple>> /\ slot'.nvalid = slot.nvalid
  BY <1>1, <1>5
<1>6. ASSUME EmitColumn \/ UNCHANGED vars
      PROVE  UNCHANGED <<desc, tuple>> /\ slot'.nvalid = slot.nvalid
  BY <1>6 DEF EmitColumn, vars
<1>7. ASSUME RunColumn
      PROVE  UNCHANGED <<desc, tuple>> /\ slot'.nvalid = slot.nvalid
  BY <1>7, ColumnSteps DEF StepRight
<1>8. ASSUME NEW n \in Columns, NEW shared \in BOOLEAN,
             StartUnrolled(n) \/ StartLoop(n, shared)
      PROVE  UNCHANGED <<desc, tuple>> /\ slot'.nvalid = slot.nvalid
  BY <1>8, StartLeaves
<1> QED
  BY <1>2, <1>3, <1>4, <1>5, <1>6, <1>7, <1>8 DEF Next

\* Taking columns apart lazily, in pieces and by whichever code is at hand, is
\* reading the row: a step gives the slot's reader more of the columns of its
\* tuple, or nothing, and only another tuple takes them away.
THEOREM ImplementsLazy ==
    ASSUME AllOrdinary
    PROVE  Spec => ImplementsLazyTuple
<1>1. Init => Lazy!Init
  BY LazyInit
<1>2. IInv => RowTaken
  BY TakenIsRow DEF IInv
<1>3. IInv /\ IInv' /\ RowTaken /\ RowTaken' /\ [Next]_vars
        => [Lazy!Next]_<<desc, tuple, ColumnsTaken>>
  BY LazyStep
<1> QED
  BY <1>1, <1>2, <1>3, Invariance, PTL DEF Spec, ImplementsLazyTuple, Lazy!Spec
===============================================================================
