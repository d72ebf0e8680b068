------------------------------ MODULE DeformCode ------------------------------
(***************************************************************************)
(* The code that pg_jitter generates to take the first n columns of a heap *)
(* tuple apart, and its runs, one column to a step.  For few columns it is *)
(* unrolled (pg_jitter_compile_deform, and sljit_emit_deform_inline inside *)
(* an expression): the emitter tracks what it knows of the offset, leaves  *)
(* roundings out and puts constants in.  For many it is a loop, of a form  *)
(* that depends on the table and, for some, on the tuple                   *)
(* (pg_jitter_compile_deform_loop):                                        *)
(*   copy    columns by value of one length, no NULL in this tuple         *)
(*   bits    columns by value of one length, bitmap looked at              *)
(*   table   one handler for each kind of column, runs of integers at once *)
(*   descs   the loop of the shared page, driven by descriptors            *)
(*   sparse  deform_sparse_dispatch, the bitmap byte by byte               *)
(* The slot remembers how far its tuple is taken apart and at which offset *)
(* that ended, and any of these, or PostgreSQL's own slot_getsomeattrs_int *)
(* (on a plain call of the executor, or where there is no code), goes on   *)
(* from there for more columns of the same tuple.                          *)
(***************************************************************************)
EXTENDS TupleLayout

CONSTANTS
    Threshold,    \* pg_jitter_deform_threshold()
    SparseFrom,   \* 64 columns
    GroupFrom,    \* 16 columns
    BitmapByte,   \* 8 columns to a byte of the bitmap
    BatchFrom,    \* 4 columns make a batch
    BatchMax,     \* 255, the most a batch count holds
    Tables,       \* descriptors
    TuplesOf      \* TuplesOf[d]: tuples of a table with descriptor d

ASSUME DeformCodeAssumption ==
    /\ \A x \in {Threshold, SparseFrom, GroupFrom} : x \in Nat
    /\ \A x \in {BitmapByte, BatchFrom, BatchMax} : x \in Nat \ {0}
    /\ \A d \in Tables :
            IsDescriptor(d) /\ \A t \in TuplesOf[d] : LaidOut(d, t)

VARIABLES
    desc,    \* the descriptor
    tuple,   \* the tuple in the slot
    slot,    \* nvalid, off and slow, and the arrays val and nul
    code,    \* the unrolled code: what it does for each column
    known,   \* what the emitter knows of the offset after them
    run      \* the code that runs: its form (at), the columns asked for (n)
             \* and done (att), the offset, whether it looks at the bitmap,
             \* and how far it has blanked columns or is copying a batch

vars == <<desc, tuple, slot, code, known, run>>

Columns == DOMAIN desc
Emitted == Len(code) = Len(desc)

Idle == [at |-> "idle", n |-> 0, att |-> 0, off |-> 0, nulls |-> FALSE,
         blank |-> 0, batch |-> 0]

\* A slot just stored into; its arrays hold whatever was there before.
Fresh(d, stale) ==
    [nvalid |-> 0, off |-> 0, slow |-> FALSE,
     val |-> [a \in DOMAIN d |-> Junk], nul |-> [a \in DOMAIN d |-> stale]]

Unknown == -1

Init ==
    /\ desc \in Tables
    /\ tuple \in TuplesOf[desc]
    /\ \E stale \in BOOLEAN : slot = Fresh(desc, stale)
    /\ code = <<>>
    /\ known = [off |-> 0, sure |-> TRUE]
    /\ run = Idle

-----------------------------------------------------------------------------
(* Emission of the unrolled code.  known.off is a multiple the offset is   *)
(* known to be of or, when sure, the offset itself.                        *)

Rounds(k, c) ==
    c.align > 1 /\ (k.off = Unknown \/ k.off # Align(k.off, c.align))

\* After the rounding of column c.
KnownInside(k, c) ==
    [off |-> IF Rounds(k, c) /\ k.off # Unknown THEN Align(k.off, c.align)
                                                ELSE k.off,
     sure |-> k.sure /\ c.notnull /\ ~(Rounds(k, c) /\ c.len = -1)]

KnownAfterUnchecked(k, c) ==
    LET in == [KnownInside(k, c) EXCEPT !.sure = k.sure]
    IN  IF c.len < 0 THEN [off |-> Unknown, sure |-> FALSE]
        ELSE IF in.sure THEN [off |-> in.off + c.len, sure |-> TRUE]
        ELSE IF c.notnull /\ c.len % c.align = 0
             THEN [off |-> c.align, sure |-> FALSE]
        ELSE [off |-> Unknown, sure |-> FALSE]
KnownAfter(k, c) ==
    LET in == KnownInside(k, c)
    IN  IF c.len < 0 THEN [off |-> Unknown, sure |-> FALSE]
        ELSE IF in.sure THEN [off |-> in.off + c.len, sure |-> TRUE]
        ELSE IF c.notnull /\ c.len % c.align = 0
             THEN [off |-> c.align, sure |-> FALSE]
        ELSE [off |-> Unknown, sure |-> FALSE]

\* What the code does for column c: whether it looks at the bitmap and rounds
\* the offset, and the constants for where the column starts and stops.
Instruction(k, c) ==
    [bits |-> ~c.notnull,
     round |-> Rounds(k, c),
     start |-> IF KnownInside(k, c).sure THEN KnownInside(k, c).off ELSE Unknown,
     stop |-> IF KnownAfter(k, c).sure THEN KnownAfter(k, c).off ELSE Unknown]

EmitColumn ==
    LET c == desc[Len(code) + 1]
    IN  /\ ~Emitted
        /\ code' = Append(code, Instruction(known, c))
        /\ known' = KnownAfter(known, c)
        /\ UNCHANGED <<desc, tuple, slot, run>>

-----------------------------------------------------------------------------
(* Which code runs. *)

\* A column at or after a is certain to be in every tuple.
IsGuaranteed(d, n, a) == \E b \in a .. n : d[b].notnull /\ ~d[b].missing.has

Nullable(d, n) == \E a \in 1 .. n : ~d[a].notnull
Uniform(d, n) == \A a \in 1 .. n : d[a].byval /\ d[a].len = d[1].len

\* simd_nullbitmap_all_notnull on a tuple that has a bitmap.
AllSet(t, n) == \A a \in 1 .. n : a <= t.natts /\ ~t.nul[a]

UsesLoop(d, n) == n > Threshold \/ (n >= SparseFrom /\ Nullable(d, n))

LoopFor(d, t, n, shared) ==
    IF Uniform(d, n) /\ (Nullable(d, n) => ~HasNulls(t) \/ AllSet(t, n))
    THEN "copy"
    ELSE IF Nullable(d, n) /\ ~shared /\ n >= SparseFrom THEN "sparse"
    ELSE IF Uniform(d, n) THEN "bits"
    ELSE IF shared THEN "descs" ELSE "table"

\* NOT NULL integers of one length from column a on, BatchFrom or more: the
\* last of those that are copied together.
SameRun(d, a, b) ==
    \A x \in a .. b : d[x].notnull /\ d[x].byval /\ d[x].len = d[a].len
BatchEnds(d, n, a) ==
    {Lesser(e, a + BatchMax - 1) : e \in
        {e \in a + BatchFrom - 1 .. n :
            /\ d[a].len \in {4, 8}
            /\ SameRun(d, a, e)
            /\ e < n => ~SameRun(d, a, e + 1)}}

-----------------------------------------------------------------------------
(* The start of a run. *)

\* Column a of slot s gets c; and the columns f is about get what it gives.
Put(s, a, c) == [s EXCEPT !.val[a] = c.val, !.nul[a] = c.nul]
PutAll(s, f) ==
    [s EXCEPT
        !.val = [a \in Columns |-> IF a \in DOMAIN f THEN f[a].val ELSE @[a]],
        !.nul = [a \in Columns |-> IF a \in DOMAIN f THEN f[a].nul ELSE @[a]]]

\* slot_getmissingattrs(slot, natts of the tuple, n).
FillMissing(s, n) ==
    PutAll(s, [a \in tuple.natts + 1 .. n |-> Missing(desc[a])])

Prologue(s, n) == IF IsGuaranteed(desc, n, n) THEN s ELSE FillMissing(s, n)

\* The bulk-clear of isnull, over missing columns as well.
ClearFlagsFromFirst(s, n) ==
    [s EXCEPT !.nul = [a \in Columns |-> IF a <= n THEN FALSE ELSE @[a]]]
ClearFlags(s, n) ==
    [s EXCEPT !.nul = [a \in Columns |->
                        IF a \in s.nvalid + 1 .. n THEN FALSE ELSE @[a]]]

RunOfRestarted(form, n, nulls) ==
    [at |-> form, n |-> n, att |-> slot.nvalid, off |-> 0, nulls |-> nulls,
     blank |-> 0, batch |-> 0]
RunOf(form, n, nulls) ==
    [at |-> form, n |-> n, att |-> slot.nvalid,
     off |-> IF slot.nvalid = 0 THEN 0 ELSE slot.off,
     nulls |-> nulls, blank |-> 0, batch |-> 0]

Asked(n) == run = Idle /\ Emitted /\ slot.nvalid < n

StartUnrolled(n) ==
    /\ Asked(n) /\ ~UsesLoop(desc, n)
    /\ slot' = Prologue(slot, n)
    /\ run' = RunOf("unrolled", n, HasNulls(tuple))
    /\ UNCHANGED <<desc, tuple, code, known>>

\* The page is compiled only above the threshold.
StartLoop(n, shared) ==
    LET form == LoopFor(desc, tuple, n, shared)
        filled == Prologue(slot, n)
    IN  /\ Asked(n) /\ UsesLoop(desc, n)
        /\ shared => n > Threshold
        /\ slot' = CASE form \in {"copy", "table"} -> ClearFlags(filled, n)
                     [] form = "sparse" -> FillMissing(filled, n)
                     [] OTHER -> filled
        /\ run' = RunOf(form, n, HasNulls(tuple)
                                 /\ (form = "table" => ~AllSet(tuple, n)))
        /\ UNCHANGED <<desc, tuple, code, known>>

-----------------------------------------------------------------------------
(* A run: the next column, and how the offset moves over it. *)

Col == run.att + 1
Limit == Lesser(run.n, tuple.natts)

Passes(off) == run' = [run EXCEPT !.att = Col, !.off = off]
PassesAt(off) == Passes(off + LengthAt(desc, tuple, Col, off))

NullColumn ==
    /\ slot' = Put(slot, Col, Null)
    /\ Passes(run.off)

\* The value is taken at off; some code clears the flag, some has done so.
ValueColumn(off) ==
    /\ slot' = Put(slot, Col, NotNull(ReadAt(tuple, Col, off)))
    /\ PassesAt(off)
ValueOnly(off) ==
    /\ slot' = [slot EXCEPT !.val[Col] = ReadAt(tuple, Col, off)]
    /\ PassesAt(off)

\* Where the column begins, going by its descriptor.
Rounded(off) ==
    IF desc[Col].len = -1 THEN AlignPointer(tuple, Col, off, desc[Col].align)
                          ELSE Align(off, desc[Col].align)

UnrolledAvailable ==
    run.att < run.n /\ (Col <= tuple.natts \/ IsGuaranteed(desc, run.n, Col))

UnrolledNull ==
    /\ run.at = "unrolled" /\ UnrolledAvailable
    /\ code[Col].bits /\ run.nulls /\ tuple.nul[Col]
    /\ NullColumn

UnrolledValue ==
    LET in == code[Col]
        off == IF in.start # Unknown THEN in.start
               ELSE IF in.round THEN Rounded(run.off) ELSE run.off
    IN  /\ run.at = "unrolled" /\ UnrolledAvailable
        /\ ~(in.bits /\ run.nulls /\ tuple.nul[Col])
        /\ slot' = Put(slot, Col, NotNull(ReadAt(tuple, Col, off)))
        /\ IF in.stop # Unknown THEN Passes(in.stop) ELSE PassesAt(off)

InLoop(form) == run.at = form /\ run.batch <= run.att /\ run.att < Limit

CopyColumn == InLoop("copy") /\ ValueOnly(run.off)

BitsColumn ==
    /\ InLoop("bits")
    /\ IF tuple.nul[Col] THEN NullColumn ELSE ValueColumn(run.off)

DescsColumn ==
    /\ InLoop("descs")
    /\ IF ~desc[Col].notnull /\ run.nulls /\ tuple.nul[Col]
       THEN NullColumn ELSE ValueColumn(Rounded(run.off))

\* A byte of the bitmap for columns all within the tuple and asked for.
WholeByteUnbounded == run.nulls /\ run.att % BitmapByte = 0
WholeByte ==
    run.nulls /\ run.att % BitmapByte = 0 /\ run.att + BitmapByte <= Limit
ByteColumns == Col .. run.att + BitmapByte

\* The columns of a byte are made NULL first, those that are not then taken.
SparseBlank ==
    /\ InLoop("sparse") /\ WholeByte /\ run.blank <= run.att
    /\ slot' = PutAll(slot, [a \in ByteColumns |-> Null])
    /\ run' = [run EXCEPT !.blank = run.att + BitmapByte]

SparseColumn ==
    /\ InLoop("sparse")
    /\ WholeByte => run.att < run.blank
    /\ IF ~(run.nulls /\ tuple.nul[Col]) THEN ValueColumn(Rounded(run.off))
       ELSE IF run.att < run.blank THEN Passes(run.off) /\ UNCHANGED slot
       ELSE NullColumn

\* A byte without a column is passed over whole.
SkipsGroup ==
    /\ Nullable(desc, run.n) /\ run.n >= GroupFrom /\ WholeByte
    /\ \A a \in ByteColumns : tuple.nul[a]
TableGroup ==
    /\ InLoop("table") /\ SkipsGroup
    /\ slot' = PutAll(slot, [a \in ByteColumns |-> Null])
    /\ run' = [run EXCEPT !.att = @ + BitmapByte]

TableSeesNull == Nullable(desc, run.n) /\ run.nulls /\ tuple.nul[Col]

TableNull ==
    /\ InLoop("table") /\ ~SkipsGroup /\ TableSeesNull
    /\ NullColumn

\* The alignments are constants of the handlers, but for the generic one.
HandlerRounded(off) ==
    LET c == desc[Col]
    IN  IF c.byval THEN Align(off, c.len)
        ELSE IF c.len = -1 THEN AlignPointer(tuple, Col, off, 4)
        ELSE IF c.len = -2 THEN off
        ELSE Align(off, c.align)

TableValue ==
    /\ InLoop("table") /\ ~SkipsGroup /\ ~TableSeesNull
    /\ BatchEnds(desc, run.n, Col) = {}
    /\ ValueOnly(HandlerRounded(run.off))

\* A batch is rounded once, then copied, whatever the tuple holds of it.
TableBatch ==
    LET off == HandlerRounded(run.off)
    IN  /\ InLoop("table") /\ ~SkipsGroup /\ ~TableSeesNull
        /\ \E e \in BatchEnds(desc, run.n, Col) :
                run' = [run EXCEPT !.att = Col, !.batch = e,
                            !.off = off + LengthAt(desc, tuple, Col, off)]
        /\ slot' = Put(slot, Col, NotNull(ReadAt(tuple, Col, off)))

BatchColumn ==
    /\ run.at = "table" /\ run.att < run.batch
    /\ ValueColumn(run.off)

Ends == IF run.at = "unrolled" THEN ~UnrolledAvailable
        ELSE run.batch <= run.att /\ run.att >= Limit

FinishKeepsSlow ==
    /\ run.at # "idle" /\ Ends
    /\ slot' = [slot EXCEPT !.nvalid = run.n, !.off = run.off]
    /\ run' = Idle
    /\ UNCHANGED <<desc, tuple, code, known>>
Finish ==
    /\ run.at # "idle" /\ Ends
    /\ slot' = [slot EXCEPT !.nvalid = run.n, !.off = run.off, !.slow = TRUE]
    /\ run' = Idle
    /\ UNCHANGED <<desc, tuple, code, known>>

RunColumn ==
    /\ \/ UnrolledNull \/ UnrolledValue
       \/ CopyColumn \/ BitsColumn \/ DescsColumn
       \/ SparseBlank \/ SparseColumn
       \/ TableGroup \/ TableNull \/ TableValue \/ TableBatch \/ BatchColumn
    /\ UNCHANGED <<desc, tuple, code, known>>

-----------------------------------------------------------------------------
(* The executor. *)

StoreTuple ==
    /\ run = Idle /\ Emitted
    /\ tuple' \in TuplesOf[desc]
    /\ \E stale \in BOOLEAN : slot' = Fresh(desc, stale)
    /\ UNCHANGED <<desc, code, known, run>>

\* The slot is as PostgreSQL itself would have left it: slow unless every
\* column so far has its cached offset.
Resumable ==
    slot.nvalid > 0 =>
        /\ slot.off = EndOf(tuple, slot.nvalid)
        /\ IsSlow(desc, tuple, slot.nvalid) => slot.slow

\* slot_getsomeattrs_int, right when it can go on from where the slot is.
Interpret(n) ==
    /\ Asked(n)
    /\ LET taken == [a \in slot.nvalid + 1 .. n |->
                        IF Resumable THEN Logical(desc, tuple, a)
                                     ELSE NotNull(Junk)]
       IN  slot' = [PutAll(slot, taken) EXCEPT
                        !.nvalid = n,
                        !.off = EndOf(tuple, n),
                        !.slow = (slot.nvalid > 0 /\ @)
                                 \/ IsSlow(desc, tuple, n)]
    /\ UNCHANGED <<desc, tuple, code, known, run>>

Next ==
    \/ EmitColumn
    \/ StoreTuple
    \/ \E n \in Columns :
            \/ Interpret(n) \/ StartUnrolled(n)
            \/ \E shared \in BOOLEAN : StartLoop(n, shared)
    \/ RunColumn
    \/ Finish

Spec == Init /\ [][Next]_vars

-----------------------------------------------------------------------------
(* Properties. *)

Forms == {"unrolled", "copy", "bits", "descs", "table", "sparse"}

Slots == [nvalid : 0 .. Len(desc), off : Nat, slow : BOOLEAN,
          val : [Columns -> Int], nul : [Columns -> BOOLEAN]]
Runs == [at : Forms, n : Columns, att : 0 .. Len(desc), off : Nat,
         nulls : BOOLEAN, blank : 0 .. Len(desc), batch : 0 .. Len(desc)]
Instructions == [bits : BOOLEAN, round : BOOLEAN, start : Int, stop : Int]

\* The types of the variables; a run stays within the columns asked for.
TypeOK ==
    /\ desc \in Tables /\ tuple \in TuplesOf[desc]
    /\ slot \in Slots
    /\ code \in Seq(Instructions) /\ Len(code) <= Len(desc)
    /\ known \in [off : Int, sure : BOOLEAN]
    /\ \/ run = Idle
       \/ run \in Runs /\ run.att \in slot.nvalid .. run.n

SameColumn(c, e) == c.nul = e.nul /\ (~c.nul => c.val = e.val)
InSlot(a) == [val |-> slot.val[a], nul |-> slot.nul[a]]

\* What the slot says it has of the row is the row: no rounding left out, no
\* constant offset, bulk store or batch, in whatever order which code took the
\* columns apart, makes a column another's data, a NULL a value or the reverse.
SlotIsCurrent ==
    \A a \in 1 .. slot.nvalid : SameColumn(InSlot(a), Logical(desc, tuple, a))

\* The place where the next reader of the tuple goes on, be it other code or
\* PostgreSQL itself, is right and marked as one to be aligned from.
OffsetIsRight == run = Idle => Resumable

\* A run for n columns leaves those after n alone, and those that the slot had
\* before, which the expression may have read already.
WritesOnlyAsked ==
    [][\A r \in {run, run'} : r # Idle =>
        \A a \in Columns : a <= slot.nvalid \/ a > r.n =>
            SameColumn(InSlot(a)', InSlot(a))]_vars

\* The slot gives its readers the row, on demand, whatever code is behind it.
ColumnsTaken == [a \in 1 .. slot.nvalid |->
                    IF slot.nul[a] THEN Null ELSE NotNull(slot.val[a])]
Lazy == INSTANCE LazyTuple WITH cols <- ColumnsTaken
ImplementsLazyTuple == Lazy!Spec

-----------------------------------------------------------------------------
(* Tables and tuples on which the code does what PostgreSQL does.  Not on  *)
(* the others: a column added without a default, read from an older tuple  *)
(* by code that clears flags in bulk; a batch that such a tuple ends in    *)
(* the middle of; and an array of doubles in the table's loop.             *)

NullsAreKept(d, t, n) == \A a \in t.natts + 1 .. n : d[a].missing.has
BatchesAreStored(d, t, n) ==
    \A a \in 1 .. Lesser(n, t.natts) :
        \A e \in BatchEnds(d, n, a) : e <= t.natts
VarlenasAlignTo4(d, n) == \A a \in 1 .. n : d[a].len = -1 => d[a].align = 4

Ordinary(d, t) ==
    \A n \in DOMAIN d : UsesLoop(d, n) =>
        \A form \in {LoopFor(d, t, n, TRUE), LoopFor(d, t, n, FALSE)} :
            /\ form \in {"copy", "table"} => NullsAreKept(d, t, n)
            /\ form = "table" => BatchesAreStored(d, t, n)
                                 /\ VarlenasAlignTo4(d, n)
=============================================================================
