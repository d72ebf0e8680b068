----------------------------- MODULE TupleLayout -----------------------------
(***************************************************************************)
(* Heap tuples as the deform code of pg_jitter meets them: PostgreSQL's    *)
(* (heap_fill_tuple, slot_getmissingattrs), not code of this repository.   *)
(* A descriptor is a sequence of columns                                   *)
(*   len      length, -1 for a varlena, -2 for a C string                  *)
(*   align    alignment in bytes (1, 2, 4 or 8)                            *)
(*   byval    passed by value                                              *)
(*   notnull  has a valid NOT NULL constraint                              *)
(*   missing  [has, v]: the value of tuples older than the column, if any  *)
(* and a tuple holds its first natts columns: nul (the bitmap), v (their   *)
(* values), short (a varlena with a one-byte header), size, and the places *)
(* of their data: column a from begin[a] up to end[a].                     *)
(***************************************************************************)
EXTENDS Integers, Sequences

Lesser(x, y) == IF x < y THEN x ELSE y

\* TYPEALIGN, for the alignments there are.
Align(x, a) == ((x + a - 1) \div a) * a
Alignments == {1, 2, 4, 8}

\* Types by value have the alignment of their length, like all that come with
\* PostgreSQL.  Values, and addresses for the types not by value, are numbers.
Column == [len : Int, align : Alignments, byval : BOOLEAN, notnull : BOOLEAN,
           missing : [has : BOOLEAN, v : Int]]
IsColumn(c) ==
    /\ c \in Column
    /\ \/ c.len \in Nat \ {0}
       \/ c.len = -1 /\ c.align \in {4, 8}
       \/ c.len = -2 /\ c.align = 1
    /\ c.byval => c.len = c.align

IsDescriptor(d) == d \in Seq(Column) /\ \A a \in DOMAIN d : IsColumn(d[a])

EndBefore(t, a) == IF a = 1 THEN 0 ELSE t.end[a - 1]

\* att_align_pointer: a short varlena begins at once, its first byte being no
\* padding.
AlignPointer(t, a, off, align) ==
    IF t.short[a] THEN off ELSE Align(off, align)

LaidOutAt(d, t, a) ==
    IF t.nul[a]
    THEN t.end[a] = EndBefore(t, a)
    ELSE /\ t.begin[a] = IF d[a].len = -1
                         THEN AlignPointer(t, a, EndBefore(t, a), d[a].align)
                         ELSE Align(EndBefore(t, a), d[a].align)
         /\ t.size[a] \in Nat \ {0}
         /\ d[a].len > 0 => t.size[a] = d[a].len
         /\ t.end[a] = t.begin[a] + t.size[a]

\* Tuple t is a row of a table with descriptor d.  What is beyond its last
\* column was added later: not with NOT NULL, unless with a default.
LaidOut(d, t) ==
    /\ t.natts \in 0 .. Len(d)
    /\ \A f \in {t.nul, t.short} : f \in [1 .. t.natts -> BOOLEAN]
    /\ \A f \in {t.begin, t.end, t.size} : f \in [1 .. t.natts -> Nat]
    /\ t.v \in [1 .. t.natts -> Int]
    /\ \A a \in 1 .. t.natts :
            LaidOutAt(d, t, a) /\ (d[a].notnull => ~t.nul[a])
    /\ \A a \in t.natts + 1 .. Len(d) : d[a].notnull => d[a].missing.has

\* HEAP_HASNULL.
HasNulls(t) == \E a \in 1 .. t.natts : t.nul[a]

Null == [val |-> 0, nul |-> TRUE]
NotNull(v) == [val |-> v, nul |-> FALSE]

\* What slot_getmissingattrs gives for a column the tuple has not.
Missing(c) == IF c.missing.has THEN NotNull(c.missing.v) ELSE Null

\* Column a of the row.
Logical(d, t, a) ==
    IF a > t.natts THEN Missing(d[a])
    ELSE IF t.nul[a] THEN Null ELSE NotNull(t.v[a])

-----------------------------------------------------------------------------
(* Reading the data of a tuple. *)

Junk == -1

\* The value that column a has when it is taken from offset off, and the
\* length found there.
ReadAt(t, a, off) ==
    IF a <= t.natts /\ off = t.begin[a] /\ ~t.nul[a] THEN t.v[a] ELSE Junk
LengthAt(d, t, a, off) ==
    IF d[a].len > 0 THEN d[a].len
    ELSE IF a <= t.natts /\ off = t.begin[a] /\ ~t.nul[a] THEN t.size[a]
    ELSE 1

\* Where the data of the first n columns ends.
EndOf(t, n) == EndBefore(t, Lesser(n, t.natts) + 1)

\* slot_deform_heap_tuple then aligns without its cached offsets.
IsSlow(d, t, n) ==
    \E a \in 1 .. Lesser(n, t.natts) : t.nul[a] \/ d[a].len < 0
=============================================================================
