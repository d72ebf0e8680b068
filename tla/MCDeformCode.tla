---------------------------- MODULE MCDeformCode ----------------------------
(***************************************************************************)
(* Tables and tuples for DeformCode.  With the bounds of the .cfg files up *)
(* to 3 columns are taken apart by unrolled code, 4 and 5 by the table's   *)
(* loop or that of the page, 6 and more, if one may be NULL, by the sparse *)
(* helper; a byte of the bitmap is for 2 columns, and 2 integers are a     *)
(* batch, of 3 at most.                                                    *)
(***************************************************************************)
EXTENDS DeformCode

Type(len, align, byval) ==
    [len |-> len, align |-> align, byval |-> byval, notnull |-> TRUE,
     missing |-> [has |-> FALSE, v |-> 0]]
Orelse(c) == [c EXCEPT !.notnull = FALSE]
Default(c) == [c EXCEPT !.missing = [has |-> TRUE, v |-> 99]]

Bool == Type(1, 1, TRUE)
Int2 == Type(2, 2, TRUE)
Int4 == Type(4, 4, TRUE)
Int8 == Type(8, 8, TRUE)
Text == Type(-1, 4, FALSE)
Doubles == Type(-1, 8, FALSE)
Cstring == Type(-2, 1, FALSE)
Macaddr == Type(6, 4, FALSE)
Timetz == Type(12, 8, FALSE)

Of(n, c) == [a \in 1 .. n |-> c]

\* Taken apart by unrolled code: lengths and alignments that meet in many ways.
NarrowTables ==
    {<<c1, c2, c3>> :
        c1 \in {Bool, Int4, Timetz, Orelse(Int2), Orelse(Text)},
        c2 \in {Bool, Int8, Macaddr, Orelse(Int4), Text},
        c3 \in {Int2, Orelse(Int8), Doubles, Orelse(Cstring), Default(Int4)}}
    \cup {<<Int4, Int4, Int8>>, <<Orelse(Bool), Int4, Int4>>,
          <<Int8, Default(Int8), Orelse(Int4)>>, <<Int2, Orelse(Doubles)>>}

\* Taken apart by loops.
WideTables ==
    {Of(5, Int4), Of(4, Int8) \o <<Default(Int8)>>,
     Of(4, Orelse(Int4)), Of(4, Int2) \o Of(3, Orelse(Int2)),
     <<Int8>> \o Of(2, Orelse(Int8)) \o Of(3, Default(Orelse(Int8))),
     <<Bool, Int4, Int4, Int4, Int4>>,
     <<Text, Int8, Int8, Orelse(Bool), Int4>>,
     <<Orelse(Text), Orelse(Int2), Orelse(Int8), Orelse(Macaddr), Cstring>>,
     <<Int2, Orelse(Doubles), Timetz, Bool, Int8>>,
     <<Bool, Orelse(Int4), Int4, Int4, Default(Int4)>>,
     <<Bool, Orelse(Text), Orelse(Int8), Orelse(Int4),
       Doubles, Orelse(Int2), Int4>>}

Rows(d, n, nul, short) ==
    LET size(a) == CASE d[a].len > 0 -> d[a].len
                     [] d[a].len = -1 /\ ~short -> 6
                     [] OTHER -> 3
        begin(a, off) == IF d[a].len = -1 /\ short THEN off
                                                   ELSE Align(off, d[a].align)
        end[a \in 0 .. n] ==
            IF a = 0 THEN 0
            ELSE IF a \in nul THEN end[a - 1]
            ELSE begin(a, end[a - 1]) + size(a)
    IN  [natts |-> n,
         nul |-> [a \in 1 .. n |-> a \in nul],
         v |-> [a \in 1 .. n |-> a],
         short |-> [a \in 1 .. n |-> short],
         size |-> [a \in 1 .. n |-> size(a)],
         begin |-> [a \in 1 .. n |-> begin(a, end[a - 1])],
         end |-> [a \in 1 .. n |-> end[a]]]

MayEndAt(d, n) == \A a \in n + 1 .. Len(d) : d[a].notnull => d[a].missing.has
HasVarlena(d, n) == \E a \in 1 .. n : d[a].len = -1

AllTuples(d) ==
    UNION {{Rows(d, n, nul, short) :
                nul \in SUBSET {a \in 1 .. n : ~d[a].notnull},
                short \in IF HasVarlena(d, n) THEN BOOLEAN ELSE {FALSE}} :
           n \in {n \in 0 .. Len(d) : MayEndAt(d, n)}}

MCTables == NarrowTables \cup WideTables
MCTuplesOf ==
    [d \in MCTables |-> {t \in AllTuples(d) : Ordinary(d, t)}]

\* A table that got a column without a default after the tuple was stored.
MCGrownTables == {Of(4, Orelse(Int4))}
MCGrownTuplesOf == [d \in MCGrownTables |-> AllTuples(d)]
=============================================================================
