# pg_jitter: TLA+ models, checks and proofs

pg_jitter is a JIT provider for PostgreSQL. Inside each backend process it
compiles expressions and tuple deforming with one of three code generators
(sljit, AsmJit, MIR); a meta provider picks the generator. In
`pg_jitter.parallel_mode = shared` the leader of a parallel query publishes its
machine code in dynamic shared memory for the parallel workers.

The models are about four things: the sharing of code between processes; the
process-wide state that outlives single queries; who owns and releases what a
compilation leaves behind; and whether the code emitted for an expression, step
by step, does what PostgreSQL's interpreter does.

Line numbers refer to the commit next to this directory; `PROJECT.json` maps
every definition to the lines it models.

## 1. Inventory

| Part | State | Operations | Hard behaviour | What makes it right |
|---|---|---|---|---|
| Slot table (`pg_jitter_common.c` 354-424, `pg_jitter_meta.c` 75-115) | one DSM handle per backend process, `num_slots` | lazy init, set, get, clear | one slot for all contexts of a process; initialised without a lock; read without a lock | a slot names a live segment of its owner |
| Shared code store (`pg_jitter_common.c` 2003-2571, 3079-3238) | spinlock, `num_entries`, `used`, entries; reservation at the end | init, store, find, attach, cleanup | late stores against lookups; bytes copied after the unlock; errors under the lock; nested queries | a worker only gets complete code of its own expression; space and mappings are accounted for; nobody spins for ever |
| Shared deform (`pg_jitter_deform_jit.c` 3062-3076, 3329-3653) | header fields, bytes at the end of the segment, one page and its key per process | compile, attach, reset | publication without a lock; process-wide statics against nested contexts | a page runs only for the layout it was compiled for |
| Deform dispatch (`pg_jitter_deform_jit.c` 2946-3247) | fast path (4), cache (32) | dispatch, reset | pointers that palloc reuses, hash collisions, full tables | same, and code that is never freed is not compiled again |
| Deform code generation (`pg_jitter_deform_jit.c` 440-2930, `pg_jitter_sljit.c` sljit_emit_deform_inline, `pg_jitter_simd.c`) | the slot's arrays, `tts_nvalid`, offset and slow flag; the emitter's known offset | unrolled code or one of five loops, chosen by table and tuple | columns of older tuples; NULLs by bit and by byte; constants for offsets; several kinds of code taking parts of one tuple | the slot has the row's columns, and says rightly where the next reader goes on |
| JIT context (`pg_jitter_common.c` 646-814, `pg_jitter_meta.c` 460-493, 1203-1318) | list of code, auxiliary memory, share state, resource owner | create, register, release, abort | errors between allocation and registration; abort order; PostgreSQL 14-16 against 17 | each resource is released exactly once |
| Copy and relocation (`pg_jitter_common.c` 2592-3069) | executable page | copy, patch, free | failure in the middle | all leader addresses patched, or the copy not used |
| Meta provider (`pg_jitter_meta.c`) | loaded backends, statistics of the process by profile, timing wrappers | select, record, wrap, release | wrapper taken out and put back around calls that raise ERRORs or return after the release; totals over different numbers of calls | every expression of an open query has a valid evaluation function; each call is counted once |
| Fallback steps, aggregate transitions (`pg_jitter_common.c` 826-1972) | cells, anynull flags, transition states of the expression | one case per step | three-valued logic, ownership of by-reference state, strict and first-value rules | same result as the interpreter |
| CASE search, IN lists (`pg_jitter_common.c` 3400 ff., `pg_jitter_simd.c`) | sorted arrays and tables, a pointer written over a step | detect, plan, search | boundaries, duplicates, NULL, padding, two CASEs in one expression | same result as the linear evaluation |
| sljit backend (`pg_jitter_sljit.c`) | registers that live through a row; the expression's memory | one emission case per opcode | batches of columns against jumps, cached slot pointers, inline arithmetic at its limits, in-place aggregate states | same result as the interpreter, for each row and for the memory the next row starts from |
| MIR backend (`pg_jitter_mir.c`) | the same; one current MIR state | one case per opcode; half of the switch is compiled out | which opcodes fall back; the state found by the address of a context | the same |
| AsmJit backend, function library, PCRE2/SIMD text/yyjson helpers | - | emission; pure functions | - | in part or not modelled, see section 8 |

How the parts interact. PostgreSQL calls `compile_expr` for each expression at
plan initialisation (and for a few at run time). It takes the query's JIT
context, counts the expression, and in shared mode the leader creates the
segment and enters its handle in its slot, reserves the end of the segment for
the deform code of a wide table, generates code, stores it, and registers and
installs it. A worker does the same up to the identity, then attaches to the
segment named by the leader's slot, takes over the deform page, looks its
expression up and copies and relocates what it finds, or compiles for itself.
The release of a context, at the end of the query or by the resource owner on
abort, clears the slot, unmaps the page and detaches. Compiled code calls the
deform dispatcher for each tuple.

## 2. Modules

| Module | Models | Runs |
|---|---|---|
| `CodeStore` | abstract store: an append-only log with atomic lookups | through `SharedCode` |
| `SharedCode` | slot, segment, store, lookup, leader and workers | `shared_code`, `shared_code_live`, `shared_code_cancel`, `shared_code_nested` |
| `SharedDeform` | publication of the deform page, per-process statics | `shared_deform`, `shared_deform_torn`, `shared_deform_meta` |
| `DeformDispatch` | the dispatcher's two tables | `deform_dispatch` |
| `TupleLayout` | heap tuples and their columns (external) | through `DeformCode` |
| `LazyTuple` | abstract slot: a row whose columns are given on demand | through `DeformCode` |
| `DeformCode` | the code that takes a tuple apart, unrolled and in five loops, and the emitter's knowledge of offsets | `deform_code`, `deform_missing` |
| `JitContext` | contexts, code, owners, MIR's current state, timing wrappers across ERRORs and aborts | `jit_context` |
| `Datums`, `PgFuncs` | values at a small width; PostgreSQL's functions (external) | `expr_run` |
| `ExprMachine` | the memory of an expression and the interpreter (external) | `expr_run` |
| `FallbackSteps` | pg_jitter_fallback_step and the aggregate helpers | `expr_run` |
| `SljitInline`, `SljitSteps`, `SljitAggs`, `SljitValues` | what the code sljit emits does, by opcode | `expr_run` |
| `MirSteps` | the same for MIR | `expr_run` |
| `CaseSearch`, `InLists` | detection and search of CASEs; IN lists | `expr_run` |
| `Searches` | what the searches must find, and what they are given | through `MCExprRun` and `SearchProofs` |
| `ExprRun` | compilation and evaluation row after row, next to the interpreter | `expr_run` |
| `Conditions` | the class of expressions whose rows are proved to agree, with certificates of membership | through `MCExprRun` and `ExprProofs` |
| `MCSharedCode`, `MCSharedDeform`, `MCDeformDispatch`, `MCDeformCode`, `MCJitContext`, `MCExprRun` | instances for TLC | |
| `SharedCodeProofs` | type correctness and safety of `SharedCode`, its refinement of `CodeStore` | TLAPS |
| `SharedDeformProofs` | the properties of `SharedDeform` | TLAPS |
| `DeformDispatchProofs` | the properties of `DeformDispatch` | TLAPS |
| `DeformCodeProofs` | the properties of `DeformCode`, its refinement of `LazyTuple` among them | TLAPS |
| `SumTheorems` | induction over finite sets and numbers, sums | TLAPS |
| `JitContextProofs` | ownership, nesting, timing wrappers and statistics of `JitContext` | TLAPS |
| `ExprProofs` | rows of conditions and projections; boolean steps, columns, comparisons and float sums of the code generators | TLAPS |
| `SearchProofs` | searches of CASEs and IN lists of any length | TLAPS |

### SharedCode

The leader is one process with several queries, each with a JIT context; the
program counter `lpc` runs through `compile_expr` of one of them: `init`
(init_shared_dsm), `deform` (compile_shared_deform as far as the space of the
segment is concerned), `generate`, `lock`/`full`/`write`/`copy`/`count`/`unlock`
(store_shared_code, one step per access that another process could see),
`register`, and `error` for an ERROR on its way to the abort. A worker's `wpc`
runs through `next`, `attach`, `lock`/`scan`/`unlock` (find_shared_code, one
step per entry), `use` (copying after the unlock), `local`, `absent`. A context
is an element of `Queries` in the leader and of `WContexts` in a worker, where
`Outer` is the query's and the others belong to functions that run queries.

Plans are constants: what the leader compiles for a query and in which order,
how many of these before it launches workers (the rest is compiled late: the
comparison function of a hashed subplan is built at its first evaluation), and
what a worker compiles. `Alive` is PostgreSQL's reference count of a segment.
Handles are never reused. A spinlock acquire is one atomic step, enabled when
the word is clear: the exchange loop is the waiting. The model follows the
order of the sljit backend; MIR installs before it stores.

Abstracted: code is its fingerprint, sizes are units, the checks of
find_shared_code that guard against a corrupt segment (error codes 1 to 6) are
one condition, true only if the reservation passes the used part. A new
segment is zeroed by the operating system, as it is unless
`min_dynamic_shared_memory` is set.

### SharedDeform

The deform part of each segment header is written by four kinds of stores in
the code's order: address; sizes, offset and number of columns; identity; bytes.
The compiler and the processor may reorder them (they are plain stores), which
would only add behaviours. A worker checks, copies and sets its statics in three
steps and may look at the segment of any running query of its leader, since
`SharedCode` shows that it may have attached to that. Neither
compile_shared_deform nor its call asks whether workers run, so the leader publishes at any
time of its query, also late with its workers between any two of their steps. `Meta` chooses between
the two implementations of the release: the backend's own, which resets the
statics, and the meta provider's, which does not. A query allocates its
descriptors at pointers that are free again after its end.

### DeformDispatch

One action per outcome of a call: fast path, cache, compilation, interpreter.
`MaxCompiles` bounds how often the same code is compiled; every other bound is
a constant of the code, made small. `Hash` is a constant function, so that
collisions can be given.

### DeformCode

A tuple (`TupleLayout`) has for each column its place, its size, whether it is
NULL and whether a varlena has a one-byte header; the axioms of `LaidOut` are
what heap_fill_tuple makes true of every tuple, and older tuples have fewer
columns than the descriptor. `EmitColumn` emits the unrolled code of one column
from what is known of the offset; `code[a]` says which checks, roundings and
constants the instructions have. A run takes one column to a step, from where
the slot was left (`tts_nvalid`, the saved offset) to the columns asked for:
`run.at` is the form of the code, chosen by `UsesLoop` and `LoopFor` as
pg_jitter_compile_deform_loop and the dispatcher choose, `run.off` the offset in
its register. `Interpret` is PostgreSQL's slot_getsomeattrs_int (external),
which may take any part of the same tuple. Data read from a wrong place is
`Junk`, a value no tuple has.

The values of columns are numbers and the bytes between them are not modelled;
types passed by value have the alignment of their length. The unrolled code is
emitted before the first row. The MIR and AsmJit emitters of the unrolled scheme
are not translated.

### JitContext

One backend process. A query is an EState: it takes a JIT context at its first
compilation, at an address palloc may have given to a released context before,
and remembers it in its own resource owner (a portal) or in the one of the query
whose function runs it (SPI). `pc` runs through compile_expr (take or create the
context, setup, generate, register, wrap, install), and an ERROR may be raised
at each allocation of it. `stack` holds evaluations, whose functions open other
queries, and subtransactions; an ERROR unwinds to the innermost subtransaction
or ends the transaction, and the owners left behind release what they remember,
in the protocol of PostgreSQL 17 (a callback per resource, the owner has
forgotten it) or of 14 to 16 (the release makes the owner forget). `mir` is the
pair mir_current_state, mir_current_jctx; `timing` and `expr` are the timing
contexts of the meta provider and what each expression's evaluation function
is. The counts of one profile are kept; measured times are not, and selection
between backends with enough samples is a free choice.

Abstracted: an evaluation by the interpreter after a failed compilation is not
explored; the parts of a release that concern segments and the deform page are
in `SharedCode` and `SharedDeform`. Two points outside the model: an ERROR when
meta_install_timing_wrapper allocates the list cell leaves its timing context
allocated until the process ends, and between generation and registration an
ERROR can only come from a DEBUG1 message (see finding 1).

### ExprRun

A program is a sequence of steps as PostgreSQL's ExecInitExpr builds them, with
the cells they write (the expression's own result, arguments of calls, columns
of the result slot), anynull flags, slots and transition states. The machine `m`
runs the compiled code: each step is one of the operators `Sljit...`, `Mir...`
or `Fallback...`, named by opcode, which take the machine and the step and give
the machine after it. When a row is done the machine `ref` runs the same row by
the interpreter (`Interp...`, external) on the steps PostgreSQL built. Both keep
their own memory from row to row, so a flag, a cell or a transition state that
one row leaves wrong shows in a later row. Compilation is an action: it looks
for CASEs, writes the pointers of their searches over steps, plans IN lists; if
the generation fails the interpreter runs the steps as they are then.

Emission is not modelled instruction by instruction: a step stands for what its
instructions do to memory and to the registers that outlive it (`cptr`, the slot
whose arrays are cached, and `hreg`, a running hash). Decisions of the emitter
that depend on the program (which columns form a batch, which function is
inline, which table an IN list gets) are operators on the program. The backend
"fallback" stands for a generator that leaves every step but DONE to
pg_jitter_fallback_step.

## 3. Runs

| Run | Instance | What it shows |
|---|---|---|
| `shared_code` | 2 queries, 2 workers, 2 segments, 4 expressions; capacity for two of three claims on the space | lock, entries, space, ownership, installed code (about 0.9 million states) |
| `shared_code_live` | 1 query, 2 workers, late compile | refinement of `CodeStore`; lookups, workers and aborts end |
| `shared_code_cancel` (violation) | same, DEBUG1 messages written | finding 1 |
| `shared_code_nested` (violation) | as `shared_code` | finding 2 |
| `shared_deform` | 2 queries with 4 descriptors of one row type and 3 layouts, 2 workers, 3 addresses | no page runs for another layout; a page without its bytes is taken over in the window of the leader's stores only; worker pages accounted for |
| `shared_deform_torn` (violation) | 1 worker | finding 3 |
| `shared_deform_meta` (violation) | meta provider | finding 4 |
| `deform_dispatch` | 3 queries, 4 descriptors, tables of size 2 | calls run their own code; no needless compilation |
| `deform_code` | tables of up to 7 columns, tuples with every mix of NULLs, lengths and missing columns; columns asked for in any pieces | columns, offsets and untouched columns, for all forms and in all mixtures; refinement of `LazyTuple` (63 300 states) |
| `deform_missing` (violation) | a table with a column added without default | finding 5 |
| `jit_context` | 2 queries, 3 expressions, 2 places for contexts, 3 for code, 3 providers on PostgreSQL 17 and before | code, contexts and owners released exactly once and never used afterwards; wrappers; calls counted once (about 0.6 million states) |
| `expr_run` | some 150 expressions by three backends, on all rows of a few columns, one or two rows in a row | results, ERRORs and memory agree with the interpreter; columns are current; every row ends (about 0.4 million states) |

Why the bounds are enough to be interesting. In `SharedCode` two workers give
contention for the lock and one that scans while the other exits; two queries
give the overwritten and the wrongly cleared slot; the expressions of the
nested function, of query b and of query a agree in node and ordinal, so that
only the fingerprint tells them apart; the capacity makes both the store and
the reservation fail in some orders. In `SharedDeform` three addresses let a
leaked page and two live ones coexist. In `DeformDispatch` both tables overflow.
In `DeformCode` the limits of the code are small (unrolled up to 3 columns, in
the code 16 or more, by the instruction cache; `SparseFrom` 6 for 64, `GroupFrom` 4 for 16, a byte
of the bitmap has 2 columns, a batch 2 to 3 for 4 to 255), so that each form, a
whole and a partial byte, and a batch that is cut all occur with 7 columns.
In `JitContext` two places for contexts make a new one lie where a released one
was; two queries are enough for one to be nested in the other, to come before it
or to borrow its owner; `Samples = 2` makes a wrapper flush counts in parts;
three frames and two subtransactions allow an ERROR to be caught inside and
outside of a nested query. In `ExprRun` integers have 2, 3 and 6 bits in place
of 16, 32 and 64, so that int2 widens into int4 and every limit is reached;
floats are multiples of a half up to 4, with infinities and NaN, so that sums
overflow, products overflow and underflow; a loop copies 3 columns that are
consecutive where they are read and where they are written (32 in the code), a CASE is searched from 2 branches (4), a table has 2 slots at least
(16), a vector 2 lanes: each limit of the code is crossed in both directions.
Symmetry is used for workers and segments, or pointers and addresses, in runs
that check safety only. Deadlock is not checked: a session that has run all
its queries stops, and so does an expression after its rows. `ExprRun` has no
liveness property: its jumps go forward, and `RowAdvances` checks that the code
keeps it so, which is what makes a row end.

Fairness (`shared_code_live`). Weak fairness of the leader's steps inside
compile_expr, of its abort, of each worker's steps and of the delivery of its
termination: the operating system schedules runnable processes and PostgreSQL
delivers SIGTERM. Nothing is assumed of starts, ends, cancels or errors.
Acquiring the lock is only weakly fair within a worker's steps; the runs show
that to be enough because each holder leaves for good after finitely many
steps. `LookupsEnd` would need strong fairness with an unbounded number of
lookups, which a spinlock on real hardware does not promise.

## 4. Findings

1. `store_shared_code` writes a message with the spinlock held. If DEBUG1
   messages go to the log or the client, a pending cancel is raised there and
   the lock stays set; later lookups spin without looking at interrupts.
2. A worker may attach to the segment of another query of its leader, because
   the slot belongs to the process and not to the query; the comment of
   `attach_shared_dsm` considers nested contexts of the worker only.
3. The deform header is published before its bytes. When the leader compiles an
   expression while its workers run, or with 2, a worker can map a page without
   code and run it.
4. The meta provider never resets the shared deform statics: a stale page can
   be run for another layout, and pages of earlier queries stay mapped.
5. The loops that clear the NULL flags of all columns at once (columns by value
   of one length, and the dispatch table) do so after slot_getmissingattrs has
   set them: a column added without a default reads as a value, not NULL, in a
   tuple stored before (`pg_jitter_deform_jit.c` 1590-1598 and 2178-2189).

Differences between text and code, without a run:

- Ordinals of leader and worker need not agree, as the comment at
  `pg_jitter_common.c` 3085-3088 has it: with finding 2 it is the fingerprint
  that keeps the installed code right (`InstalledIsOwn`).
- With `pg_jitter.deform_cache` off, deform code is compiled on every call and
  not freed, where the README (line 154) says once per query.

## 5. Proofs

`SharedCodeProofs` holds for any number of queries,
workers, contexts, segments, expressions, any plans, capacity and header size,
from `SharedCodeAssumption` alone.

- `TypeCorrect`: `ControlInv` = the types, plus where each process is and what
  it has then (`LeaderAt`, `WorkerAt`), plus how the entries in memory relate to
  `num_entries` (`MemoryAt`). Types are not inductive without it, because steps
  index plans and entries. One lemma per action that needs an argument.
- `NoOverlapSafe`: a segment not yet created has nothing used or reserved
  (`RoomInv`); both the store and the reservation are made by the leader, one
  after the other, and each check accounts for the other.
- `MappingsSafe`, `SlotSafe`: `OwnInv` relates mappings, contexts, created
  handles and the slot. New handles are fresh, so ownership stays one to one.
- `PublishedSafe`: entries are appended or completed at the last place, which
  is counted only afterwards.
- `InstalledSafe`: entries counted, and the one found, carry code equal to
  their fingerprint, and a lookup matches the fingerprint.
- `LockSafe`, `LookupSafe`: two processes are never between acquire and release
  (`Exclusive`), and nobody leaves the lock set behind if `DebugLogged = FALSE`
  (`NeverStuck`). `LockSafe` assumes that, which is needed: finding 1.
  `LookupSafe` does not: a lock left behind stops lookups, it never lets one see
  half an entry.
- `SumSafe`: what is being written is the entry of the leader's expression
  (`EntryInv`); the recursive sum is unrolled by `SizeNext`, which induction over
  its index gives (`Climb`).
- `StoreImplemented`, the refinement of `CodeStore` (initial states, steps,
  stutters): an entry is published by `StoreCount`, and an answer is given when
  the lock is released (`FindUnlock`). `LookInv` says how far each lookup has
  come: the entries passed do not have its key, and one found has it. That it
  saw all there are needs `Exclusive` (the leader counts nothing meanwhile,
  `NumHeld`) and `RoomInv` (the scan is not ended by a store that looks too full).

`SharedDeformProofs` (from `SharedDeformAssumption`): the invariant says what
the leader's place in compile_shared_deform has made true of its header
(`LeaderAt`, `Filling`), that every other header is empty or complete
(`HeaderInv`), that allocated descriptors are those of running queries, each in
its own place (`PtrInv`), that the leader's statics name a filled page and a live
descriptor of the same shape (`StaticsInv`, needed and true only without the meta
provider: finding 4) and what a worker's place gives it (`WorkerInv`). Workers may
read a header while it is being filled, their own query's too. A field once set
never changes (`Grows`), so what a worker has taken over is what the header says or
was not there yet. From that follow `WorkerNoOtherShape`, the part of finding 3's
claim that is true (a page may lack its code but never has another shape's), and
`TornInWindow`: it lacks it only if it was taken over between the stores of the sizes and the
copy of the bytes. `HeadersAreStable`: no header changes after its bytes are set.

`DeformDispatchProofs`: an entry of the fast path is the code of the one
descriptor allocated where it points (`FastInv`), which is why comparing pointers
is enough; it needs the list to be emptied at each release. `CacheInv` says that
what is in the cache was compiled once and that other compiled code is not for
the cache or found it full.

`DeformCodeProofs` (any tables, tuples, limits): `IInv` = types, plus what the
emitter knows of the offset holds of every tuple of the table (`CodeInv`; of the
stored tuple alone would not do, the code is kept for the next), plus
`SlotIsCurrent`, `Resumable` also while code runs (a run that is started twice
reads it), plus what runs (`RunInv`): its offset is the end of the columns done,
those and the missing ones are right already, and its form's assumptions hold
(`FormInv`: no NULL where none is looked for, flags set or cleared in advance, a
batch within the tuple). `EmitRight` is the argument about the emitter: an offset
known to be a multiple of an alignment needs no rounding to it. `ColumnSteps`
gives one lemma for each of the twelve steps; all come down to the offset being
where the column begins. Theorems: `TypeCorrect`, `CurrentAlways`,
`OffsetRightAlways`, `OnlyAsked`, and `ImplementsLazy`, the refinement in full
(initial states, steps, stutters). They assume `AllOrdinary`: on the tables and
tuples excluded the properties do not hold (finding 5, and two inputs of
section 8). It asks nothing of tuples that unrolled code takes apart, nor of the
forms that look at each column; the instance of `deform_code` satisfies it.

`JitContextProofs` (any number of queries, expressions, contexts, codes, any
depth): `IInv` = types, plus what compile_expr holds at each point
(`CompileInv`), which context an open query has and what lists its code
(`ReadyInv`), that only owners without open queries release (`ReleaseInv`), the
pair of MIR (`JitInv`), and the five properties themselves, which are inductive
only together. Theorems: `CodeOwned`, `OwnersInAgreement`, `NeverRefused`,
`MirStateOwn`, `CodeLive`.

The timing wrappers need more. An ERROR pops evaluations and subtransactions and
takes queries along, each with its contexts and their timings; that no wrapper
is left whose timings are gone depends on how they nest. `NestInv`: an
expression is evaluated once at a time and its query is open; no subtransaction
separates frames of one resource owner (`Together`); a query is not opened in
fewer subtransactions than it runs in (`Inside`); a query that borrows an owner
was opened by a frame of that owner (`Borrows`), and runs above a frame of the
query the owner belongs to (`Above`). The last two are what makes `Close` of the
owner's query impossible while a borrower is evaluated. `WrapInv` then follows
each wrapper from `Wrap` to the release: compile_expr works on an expression that
nobody evaluates (`CompilePlace`), frames and installed wrappers have active
timings in the list of their context (`FramesTimed`, `Installed`) unless an ERROR
that is on its way will end their query, and what is listed belongs to the query
of the context (`Listed`). `CountInv`: only finitely many timings are active, and
those of a backend add up to the difference between the calls timed and its
statistics. Theorems: `WrapperLive`, `CountedAlways` and, from all four
invariants, `TypeCorrect`.

`SumTheorems` carries the sums. The library's induction theorems take an operator;
`Grow` and `Climb` take the set of what has the property instead and come from
the well-foundedness of the subset order. `SumFunctionOnSet` of the community
modules takes elements in the order of CHOOSE: `SumPick` shows that any may come
first, and from it `SumAdd`, `SumSame` and `SumDisjoint`.

`ExprProofs`: `BooleanCode` says that every boolean or jump step of the three
generators takes any memory to the one the interpreter takes it to; it needs
the NULL flag of the tested cell to be a boolean and, for IS TRUE and its like, its value
to be 0 or 1 if it is not NULL. Its use in runs needs that steps keep the
fields their code reads although compilation writes over some of them
(`StepsSurvive`: both machines keep their shape, the steps are as compilation
leaves them, the backend is a known one); `BooleansAgree` follows for any set of
well-formed programs. The others are about pure code, for every operand:
`FloatComparisons`, `FloatSums`, `ThreeWay`, `TextEquality`, `DistinctAgrees`.

`ColumnsCurrent` is the theorem about slots: what compiled code reads as a column
is a column of this row's tuple. Its argument:

- A step of any opcode other than FETCHSOME, by any generator, leaves slots,
  cached arrays and the slot of the context alone (`Keeps`; one lemma for each
  family of opcodes, `RunKeeps` for all of them, `SearchStepKeeps` for a search).
- PostgreSQL puts the FETCHSOMEs first (`FetchesComeFirst`). So the invariant
  `CInv` need not know where jumps, batches and searches go: those behind the
  program counter have had their effect, or all have, and a step that is none
  has all of them behind it (`Behind`). It goes on with what the slots hold
  (`SlotsHold`) and which columns of a virtual slot are there (`NoneToFetch`).
- A search must not take the place of a FETCHSOME (`SearchesStart`). That is a
  fact about the detection, for programs of any length: `SearchesAtCalls`. The
  detection scans the steps with recursive functions; that they are defined and
  what they find comes from a least counterexample (`LeastNumber`,
  `ScanExists`, `ScanFinds`), since the library's induction rules are out of
  reach.

TLC has checked `CInv` as an invariant of the instance of `expr_run`.
The theorem supposes of a program (`WellFormed`) what ExecPushExprSetupSteps
does: one FETCHSOME for each slot that is not virtual, up to the last column
read from it; a virtual slot comes with its columns. The program `Virtual` of
`MCExprRun` reads columns without a FETCHSOME.

`ConditionsAgree` and `ConditionsAdvance` are about whole rows, for any number of them in any
order: compiled code ends each row as the interpreter ends it, and goes forward until
then. They hold of an expression that `IsCondition` (module `Conditions`): columns, constants,
strict calls, AND, OR, NOT, the tests of NULL and of booleans, jumps, so that WHERE
clauses, CASE, COALESCE and projections are among them, of any length. A
certificate of membership has two parts. `types` says for each step which cells
it may read and what they hold there (`TypesFlow`; from the end of a row to the
start of the next, `TypesStart`), `flags` which anynull flags have been set in this row
(`FlagsFlow`). Calls emitted as instructions must compute what the called
function does for the values of those types (`CallsAgree`). `MCExprRun` computes certificates and
TLC checks them (`ConditionsAreCertified`): all programs of its two families of
kernels and of conditions are in the class except division of floats (section 8),
`pairs` (which reads system columns) and, for "fallback", those with JUMP_IF_NOT_TRUE or a
read-only ASSIGN_TMP, whose fallback writes to a further cell. The argument:

- Compiled code does leave other memory than the interpreter: a strict call with a
  NULL leaves another value behind the NULL, flags keep what an earlier row set.
  Two machines are `Alike` if they differ only in values of NULL cells, in cells
  without a type and in flags that are set before they are read. The interpreter
  keeps alike machines alike (`StayAlike`, `TypedStep`), and a step of
  compiled code is alike to the interpreter's (`CodeStep`).
- Batches and loops take several columns in one step of compiled code: they are
  alike to that many steps of the interpreter (`BatchCopies`, `LoopCopies`). The
  condition for a loop, that columns read and written are consecutive, is what
  makes the second true.
- The interpreter runs a row only after the code has, so no invariant can compare the
  two in lockstep. `AInv` says instead that the machine is like some member of every set of
  machines that has the start of the row and is closed under steps of the
  interpreter; when the interpreter ends, such a set is the path it went
  (`ClosedExists`, `PathExists`, `PathUniqueness`), and both ends are the same.

Outside of the class are searches of CASEs, IN lists, aggregates, hashes, comparisons of
rows, system columns and steps that read the context: there TLC checks.

`SearchProofs`: what `expr_run` checks of a few lists and CASEs, for all of them.
A search of the code is a loop, here a recursive function, and first of all such
a function must exist where the code looks (`TailRecursion`,
`IntervalRecursion`: each turn leaves less of an interval). Then:

- CASE. `FirstThatHolds` and `TheOneThatEquals` say where a halving loop stops.
  With monotone thresholds the branches that hold are the last ones
  (`HoldsOnwards`), so the place is the first that holds: `FirstBranchWins`.
  `EqualBranchWins` needs that the comparison is a total order, of texts by
  their bytes too (`ByteOrderIff`). `RangeFound` needs that no range ends before
  it begins (`RangesAreProper`): detection asks only that each begins where the
  one before it ends (section 8).
- Trees: `SljitTree` and `MirTree` find what is in an ascending list, and
  nothing else; `TreeSearchAgrees`.
- Tables: probing slot after slot comes by all slots (`ProbeReaches`), so with
  one of them free it ends. What was put in stays reachable from its hash over
  occupied slots (`Holding`, `OneMoreEntry`), so a probe ends at the key or at a
  free slot that shows its absence (`ProbeDecides`), for any hash function:
  `Crc32SearchAgrees`, `TextSearchAgrees`.
- The scan reads whole registers: the list, and the padding. `ScanAgrees` supposes
  that the scalar is not the padding (section 8).

`SljitInListAgrees` and `MirInListAgrees` put these together: whichever search is
planned, the answer, NULLs and NOT IN included, is that of the executor's lookup.
Hypotheses are what the provers cannot derive, because sorting, filtering,
powers of two and the hash functions are opaque to them: the branches of `=` are sorted
(`BranchesAreSorted`); the list extracted is ascending and has the same values,
its table has a free slot (`ListIsSorted`); hashes and texts' bytes are numbers;
a scalar of a 32-bit type is told from the values of the list by its 32 bits
(`KeptIn32Bits`). `MCExprRun` assumes those about sorting, keys and widths of
its CASEs and lists and TLC evaluates them.

Only model-checked: liveness (fairness and ENABLED are outside the prover), and of
`ExprRun` the types, and `ResultAgrees` and `RowAdvances` of expressions that are no
conditions: these depend on every step of the generators and on which steps the
pointers of a search are written over.

## 6. Properties and their mutants

Every property of a passing run has a mutant in `PROJECT.json`: an operator
next to the one it replaces (for instance `MatchesNoFingerprint`,
`CleanupLeavesSlot`, `StoreFullKeepsLock`) that changes it the way a slip in
the code would, under which TLC reports that property violated.

## 7. Plan

Done: `SharedCode` with `CodeStore`, `SharedDeform`, `DeformDispatch`,
`DeformCode` with
`LazyTuple`, `JitContext`, `ExprRun` with the modules it is made of, and the proofs above.
Next would come:

1. `ShmemInit`: the race of the lazy initialisation of the slot table, with
   both initialisers (`pg_jitter_common.c` 354-424, `pg_jitter_meta.c` 75-115).
2. A recycled, not zeroed segment header as a choice in `SharedDeform`.
3. Loading of backends and the profile heuristic of the meta provider.
4. AsmJit as a fourth backend of `ExprRun`.
5. Relocation as a scan over instructions.
6. Proofs: the agreement of rows of more expressions: searches, with `SearchProofs`,
   then aggregates and hashes, whose registers outlive a step.

## 8. Not modelled, and inputs left out

Not modelled: the AsmJit backend; the conversion of LIKE patterns and regular
expressions for PCRE2, its cache, and the JSON helpers; most of the direct-call
library, taken to be the PostgreSQL functions it copies; the int2_sum
transition; windows of registers, prologues, unwind information, relocation
records; MIR's own linking, deform emitter and store of shared code (same
protocol as sljit's, in another order); build, packaging and benchmarks.

Inputs that `deform_code` leaves out (`Ordinary`), besides those of finding 5,
because the code differs from PostgreSQL there:

- The handler of varlenas in the dispatch table aligns to 4 (`pg_jitter_deform_jit.c`
  2702-2720), also where the type is aligned to 8, such as an array of doubles.
- A batch of integers is copied to its end (2117) when the tuple, older than the
  last of these columns, ends within it.

Inputs that `expr_run` leaves out, because the code differs from PostgreSQL
there and no document of the repository says otherwise. They were met while
translating and are listed so that a reader does not take the run to cover them:

- The vector scan of a short IN list pads its last vector; a scalar equal to the
  padding value is found (`pg_jitter_sljit.c` 7713-7790; off by default). Lists
  scanned do not have such scalars here.
- Float division of or by NaN or by infinity (2223-2268), NaN in float MIN and
  MAX (5813-5901), and an overflowing SUM of floats, which raises no ERROR
  (5986-6049).
- int8_avg and numeric_avg transitions that get a NULL argument (5408-5514), the
  carry of jit_numeric_agg_trans_fast (`pg_jit_funcs.c` 1693-1778), and MIN and
  MAX of oids, which compare 64-bit patterns.
- A program with a searched CASE whose code generation fails: the interpreter
  then meets the steps written over (`pg_jitter_sljit.c` 9571-9578). Such
  programs have `fails = FALSE`.
- A CASE of ranges before a simple CASE, which is written over but not searched
  (3414-3417, `pg_jitter_common.c` 4864-4868); branches whose THEN or ELSE has
  more than the one step the pattern checks; adjacent ranges that do not ascend;
  and constants on the left in reversed order, `WHEN 0 >= x AND -3 < x`, whose
  thresholds are taken from the same side for both comparisons (4578).
- The comparisons of `pg_jitter_mir.c` 5844-6852 are compiled out and are not
  translated; its CURRENT_DATE is zero-extended.
- `pending_jumps` of sljit has four entries for each step (4206); programs stay
  below. adaptive_select does not explore a backend again whose samples were
  flushed in part (`pg_jitter_meta.c` 787).
