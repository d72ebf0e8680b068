----------------------------- MODULE CodeStore -----------------------------
(***************************************************************************)
(* What the shared code store of one parallel query promises, with no      *)
(* lock, no header and no bytes: every DSM segment is an append-only log   *)
(* of compiled expressions, the leader appends to it in one indivisible    *)
(* step, and a worker's lookup is answered in one indivisible step, with   *)
(* an entry of the log that carries its key or, only when the log holds    *)
(* none, with nothing.  SharedCode implements it.                          *)
(***************************************************************************)
EXTENDS Sequences, Integers

CONSTANTS
    Handles,    \* the DSM segments
    Workers,    \* the parallel workers
    Entries,    \* what may be published: records with fields node, idx, fp
    Keys,       \* what may be looked up: records with fields node, idx, fp
    NoAnswer,   \* the worker holds no answer of a lookup
    NotFound    \* in place of the entry, when a lookup finds none

VARIABLES
    log,        \* log[h]: the entries published in segment h, oldest first
    answer      \* answer[w]: what worker w looked up, where, and the entry it
                \* was given, until it has used it

storeVars == <<log, answer>>

KeyOf(e) == [node |-> e.node, idx |-> e.idx, fp |-> e.fp]

\* The answers a lookup of key k in segment h may give.
Answers(h, k) ==
    LET hits == {i \in DOMAIN log[h] : KeyOf(log[h][i]) = k}
    IN  IF hits = {} THEN {NotFound} ELSE {log[h][i] : i \in hits}

StoreInit ==
    /\ log = [h \in Handles |-> <<>>]
    /\ answer = [w \in Workers |-> NoAnswer]

Publish(h, e) ==
    /\ log' = [log EXCEPT ![h] = Append(@, e)]
    /\ UNCHANGED answer

Lookup(w, h, k) ==
    /\ answer[w] = NoAnswer
    /\ \E a \in Answers(h, k) :
            answer' = [answer EXCEPT ![w] = [seg |-> h, key |-> k, entry |-> a]]
    /\ UNCHANGED log

\* The worker has used, or dropped, the answer it had.
Consume(w) ==
    /\ answer[w] # NoAnswer
    /\ answer' = [answer EXCEPT ![w] = NoAnswer]
    /\ UNCHANGED log

StoreNext ==
    \/ \E h \in Handles, e \in Entries : Publish(h, e)
    \/ \E w \in Workers, h \in Handles, k \in Keys : Lookup(w, h, k)
    \/ \E w \in Workers : Consume(w)

StoreSpec == StoreInit /\ [][StoreNext]_storeVars
=============================================================================
