# A TLA+ development of SoaTable

SoaTable is a header-only C++ library: a table whose rows are named by stable handles and whose
columns are stored one by one, densely, with only the values that rows have. These modules model
the table, its storage, its threads and its helpers; TLC checks them on small instances, and TLAPS
proves what matters most for instances of every size.

- [What the system consists of](#what-the-system-consists-of)
- [Modules](#modules)
- [How the model corresponds to the code](#how-the-model-corresponds-to-the-code)
- [Runs](#runs)
- [Proofs](#proofs)
- [Where the code and its words disagree](#where-the-code-and-its-words-disagree)
- [Hazards](#hazards)
- [Not modelled](#not-modelled)

## What the system consists of

Line numbers are those of `include/soatable/soatable.hpp` unless another header is named.

| Part | State | Operations that change it | What makes it correct |
| --- | --- | --- | --- |
| `column_vector` (733-914) | `m_sparse`, `m_dense`, `m_data` | `emplace`, `remove`, `reorder`, `clear` | the three vectors stay inverse to each other, whatever throws; a row keeps its value while others come and go |
| `basic_soa_table` (1003-1847) | `m_rows` (generation, signature, alive), `m_free_links`, `m_free_head`, `m_alive_count`, one `column_vector` per type | `insert`, `erase`, `assign`, `unassign`, `clear`, the sorts, the batches | a handle means one row for ever; signature and columns agree; the free list is sound; sorts change no value; a failed call harms one row |
| `select`, `view`, `rows`, `for_each_row`, spans, `validity` (1329-1545) | none: lazy ranges over the above | none | exactly the rows with all required columns, once each, while bodies change the table |
| `row_view`, `row_handle` (936-968, 1886-1992) | pointers, or a handle and a table | forwards to the table | no pointer is used after the step that moves its value |
| `tiled_vector` (258-337) | tiles of fixed size, a count | `emplace_back`, `pop_back`, `clear`, `shrink_to_fit` | behaves as the vector that `column_vector` assumes; no tile but the last is partly filled |
| bit helpers (343-352, 470-719) | integers, words | `set`, `mark_dirty`, ... | what is packed is unpacked; the nearest representable value; `bitmap` visits each set bit once |
| parallel sort (1786-1846) | the shared row order, one future per column | one task per column, join | the same result as the serial sort, under every interleaving |
| `synchronized_table` (`concurrent.hpp`) | a table, a shared mutex | `read`, `write` | callbacks run as if alone; the lock is free afterwards |
| `save`, `load` (`serialize.hpp`) | a byte buffer | `load` | `load` after `save` gives the table back; a short buffer gives nothing of it |
| `dynamic_table` (`dynamic.hpp`) | named columns of cells, alive bits | rows and columns come and go | no cell of a dead row, no cell read as another type |
| `compute.hpp` | a column in tiles, one future per tile | transforms, `assign_from`, folds | the parallel transform is the serial one; folds are what their definition says |
| `query.hpp`, `timeseries.hpp` | none | folds, windows, `for_each_dirty` | agree with the plain definition of what they compute |
| `mmap.hpp`, `pmr.hpp`, `units.hpp`, `reflect.hpp` | - | - | - |

The table owns its columns and is the only one to call them. The helpers read it through `select`,
`view` and the column spans; `synchronized_table` owns a table and runs callbacks on it under a
lock; `save` and `load` reach into its private state through `detail::table_access`.

The table itself is sequential. What is hard about it is not interleaving but long sequences of
legal calls: slots are recycled while handles to their former rows are still around, swap-removes
and sorts move values under handles that must keep finding them, two sentinels (the last index and
the last generation) sit at the ends of their types, each column is updated on its own while
`select` relies on the signatures and all columns agreeing, an exception can come between any two
of those updates, and lazy ranges are walked while the table changes. Threads meet in the parallel
sort, the parallel transform and `synchronized_table` only.

## Modules

| Module | Stands for |
| --- | --- |
| `ColumnVector` | one `column_vector`: a record of three sequences, and one operator per member function |
| `SoaTable` | the table: one action per member function, observers as operators, the properties |
| `TablePromise` | what a user of handles is promised, without slots, lists, columns or orders |
| `TableFaults` | the table when allocations, constructors and moves throw, and the program goes on |
| `TableQueries` | the accessors and spans, and the folds over joins and columns |
| `TableCalls` | calls on more than one row, step by step: batches, loops with bodies that change the table, `assign_from`, `for_each_dirty` |
| `ParallelSort` | one call of `sort_by_column_parallel`: the calling thread, one task per column, and `reorder` taken apart, with exceptions |
| `TiledVector` | `tiled_vector`, the storage of a column in tiles |
| `ColumnCompute` | a tiled column under the serial and parallel transforms of `compute.hpp` |
| `Encodings`, `BitHelpers`, `TimeSeries` | the pure helpers, and reference definitions for them |
| `ColumnHelpers` | the helpers on the elements a tiled column holds, for the run `compute` and the proofs |
| `Serialize` | a table together with `save`, a buffer, and `load` |
| `SynchronizedTable` | `synchronized_table`: threads, the shared mutex, callbacks cell by cell |
| `AtomicTable` | what `synchronized_table` promises: each callback in one step |
| `DynamicTable` | `dynamic_table`: columns by name, rows, cells, metadata |
| `TypedStore` | what `dynamic_table` promises: one flat store of typed cells |
| `MCSoaTable`, `MCTableFaults`, `MCTableQueries`, `MCTableCalls` | instances: symmetry and views |
| `ColumnVectorProofs` | lemmas: what `emplace`, `remove` and `reorder` do to a column |
| `SoaTableProofs` | the invariant of the table; joins, sorts and the refinement of `TablePromise` |
| `TableRecoveryProofs`, `TableCallsProofs` | the table after exceptions and loads; the accessors, the folds, and the calls on many rows |
| `ColumnComputeProofs`, `ParallelSortProofs` | tiles, the parallel transform and the pure helpers; the parallel sort |
| `SynchronizedTableProofs`, `DynamicTableProofs` | their invariants, and that they implement `AtomicTable` and `TypedStore` |

How they are composed. `SoaTable` extends `ColumnVector` and instantiates `TablePromise`.
`TableQueries` extends `SoaTable`, `TableCalls` extends `TableQueries`: a batch or a loop is made of
the table's own actions, so what a loop's body does is what the table does. `TableFaults` and
`Serialize` extend `SoaTable` and run its operations between faults, and between saves and loads.
`ParallelSort` extends `ColumnVector` and compares its result with that module's `reorder`, which
`SoaTable` uses for its sorts. `ColumnCompute` extends `TiledVector`: the column grows and shrinks
between calls as that module says. `BitHelpers` extends `Encodings`; `ColumnHelpers` puts
`ColumnCompute` together with both and with `TimeSeries`, all of which take the elements of the
column as their inputs. `SynchronizedTable` and `DynamicTable` instantiate `AtomicTable` and
`TypedStore`.

Definitions that are called mutants (`FillHoleRowOnly`, `ReleasedWraps`, ...) are plausible bugs
of the definition that follows them: a property is worth its run only if it fails when the mutant
takes that definition's place.

## How the model corresponds to the code

- A C++ vector is a sequence; `At` and `Put` count from 0 as the code does. Reading outside of a
  sequence is an error for TLC, so an index the code must not use would stop a run.
- A column type is a member of `Columns`; a signature is the set of columns whose bit is set.
- `npos` and `max_generation` (both 2^32 - 1 in the code) are constants. They are the only limits
  of `SoaTable`: no artificial bound is put on the number of rows or steps, the code's own limits
  bound the state. `MaxCriteria` bounds the length of one `sort_by_multi` call.

**`SoaTable`.** `insert` is three actions, for its three ways: `InsertRecycled`, `InsertGrown`, and
`InsertOverflow`, the exception at the end of the index space. `erase(id)` is the whole handler:
every column drops the row, the slot dies, and it is either retired (`Released` at
`max_generation`) or bumped and linked, then the count goes down. `Refused(id)` is any of `erase`,
`unassign` and `assign` with a handle that is not valid; handles range over all pairs of an index
(`npos` included) and a generation, since `row_id` is a struct anyone can fill in.
`sort_by_column(C)` takes any order of C's rows that `std::sort` may leave: it is not stable, so
ties come in any order. Comparators are `<`; another strict weak order of the values is a renaming
of them. `sort_by_multi` sorts all alive rows by `Before`, which is `multi_comp`. A value written
through the reference that `get` or a span returns is an `assign` on a cell that is present.
`stale` is a history variable: the handles that `erase` or `clear` made invalid.

There are two next-state relations. `Next` is everything the class lets a program do. `StableNext`
leaves out `clear` and lets `sort_by_column` use only a column that covers the others: these are
the two places where the code does not keep what its documentation promises (see below), and
`StableSpec` is the part in which it does.

**`TableFaults`.** `Next` stays, and for each place in `insert`, `assign`, `unassign`, `erase` and the
three sorts where an allocation, a constructor, an assignment or a move may throw there is an action
that ends where the exception leaves the table (a comparator that throws leaves it as it is, and the
batches are made of these calls). An `emplace` that throws has at most grown the sparse vector; a `remove` can only
throw while the last element is moved into the hole, before anything else changes; a `reorder` that
throws has its old vectors and some elements moved out, never one of a row that the order does not
name (`MovedOut`). An element that was moved from, or into when it threw, holds any value. Columns are visited in the order of their declaration, so a fold
that throws at column C has done the columns before C (`FoldThrows`). `SortByColumnThrows` folds with
an order of the rows of one column, `SortByMultiThrows` with one of all alive rows, in any column;
`SortParallelThrows` is where the tasks of a parallel sort have left the columns when all have ended,
any of them done and the others not (`ParallelSort` has the way there). `thrown` is a history
variable: who threw in this step, and with which order.

**`TableCalls`.** `call` is the call under way, with its local variables; one at a time, as the
table has no threads. A batch goes on without interruption. Between two turns of a loop the
program's body may insert, erase, assign and unassign (`Body`), at most `MaxBody` times. A select
holds iterators into the dense vector of its driver, so bodies that add rows to the driver, remove
them, or sort are left out: the documentation forbids them and C++ leaves them undefined. A loop over
`rows()` looks up slots by index, and there the body may do any of these. `assign_from` collects
handles and results first and assigns afterwards; its operation is the largest input.
`for_each_dirty` runs a callback that cleans the mask it is handed.

**`TableQueries`.** Each observer is an operator that reads what the code reads: `table_contains`
the signature, `get_expected` the column, `validity` the signatures of alive slots, `row_indices`
the dense vector. The folds of `query.hpp` and `compute.hpp` are folds over `select` in its order.

**`ParallelSort`.** The tables a call may find are enumerated by `Init`: each column was filled by
`emplace` in any order of rows. Outside of the key column a value is told by its row, which is
enough to notice a value that went astray. One `ReorderStep` is one turn of `reorder`'s loop or its
end: `MoveOne` moves a value out and leaves a hollow element (`MovedFrom`) behind, `Commit`
replaces the three vectors. `ReserveThrows`, `MoveThrows` and `RebuildThrows` are its three places
to throw. `ComputeOrder`, `Launch`, `OwnColumn`, `OwnColumnEnds`, `Join` and `EndScope` are the
calling thread; `EndScope` is the end of the scope by return or exception, where the futures'
destructors block (`TasksJoined`). With `serial`, the calling thread reorders every column itself.

**`TiledVector` and `ColumnCompute`.** One action per member function that changes elements;
`EmplaceThrows` is an `emplace_back` in which the new tile, its `reserve`, or the constructor
throws. `pop_back` on an empty last tile is undefined in C++; the model ends there. A transform is
one `ChunkStep` per element. Chunk k belongs to the calling thread (the first one, or all when
serial) or to a task. The operation counts its calls, since each task has a copy of its own: a copy
that is shared would give other results. `TurnThrows` is the operation throwing, `Launch` may throw
`system_error`.

**`Encodings`, `BitHelpers`, `TimeSeries`.** `low_bits_mask`, `quantized_float` and `delta_value`
compute with numbers only and are apart from `packed_bits`, `dirty_mask` and `bitmap`, which take
words bit by bit. A word is a number below `2^digits`, and `SetBits` are its bits: `&`, `|` and `~`
are intersection, union and complement of bits, `popcount` and `countr_zero` their number and the
least of them, while shifts, `- 1` and conversions stay arithmetic. Shifts are taken modulo the width
as the machine does, so that an undefined shift shows as a wrong result; unsigned arithmetic wraps
at `Modulus`. Floating-point helpers compute in exact arithmetic, in the thousandths in which their
template parameters are given.

**`Serialize`.** A buffer is the sequence of values written, in the order of `save`; a cut inside a
value is a cut before it, because the reader looks at the size before it copies. `LoadRefused`,
`LoadTruncated` and `LoadOk` are the three ways through `load`. A buffer is a beginning of what
`save` returned, or has another magic, version or schema in its header. `stale` starts anew with a
load: after `LoadOk` it is that of the saved table, whose generations are back; after a truncated
load the table is a new one.

**`SynchronizedTable`.** The table is a set of cells; a write callback loads and stores one cell
after the other, a read callback looks at one after the other, both in any order, and both may throw
between any two steps. `std::shared_mutex` is modelled by what the standard promises. The
refinement sees the table as it was before the write under way (`Settled`), so that a write happens
when its callback ends.

**`DynamicTable`.** One action per member function; `Refused` is every call that is turned away.
`set` finds or creates the cell with `operator[]` and then assigns: `SetThrows` is the assignment
throwing, which leaves a cell that nobody set. `get` does not ask whether the row is alive, and
neither does the model's. A value carries its type, so that a cast to another type would show.

## Runs

| Run | Instance | Distinct states | Shows |
| --- | --- | --- | --- |
| `soatable_stable` | `StableSpec`: 2 columns, 1 value, 3 rows, 2 generations, 2 criteria | 19688 | `FreeListSound`, `StaleNeverValid`, `SignatureExact`, `SelectExact`, `SortAligns` |
| `table_faults` | 2 columns, 2 values, 3 rows, 1 generation | 28066 | `TypeOK`, `ColumnsConsistent`, `PooledIsSigned`, `TornByEraseOrSort`, `FaultContained` |
| `table_calls` | 2 columns, 2 values, 2 rows, 2 generations, batches of 2, 2 changes per loop | 393694 | `InsertBatchAdds`, `AssignBatchExact`, `YieldsMatching`, `LoopComplete`, `AssignFromExact`, `DirtyVisited`, `KeepsPromise` |
| `soatable_queries` | `StableSpec`: 2 columns, 2 values, 3 rows, 1 generation, 2 criteria | 5840 | `MultiOrderStrict`, `ObserversAgree`, `FoldsExact` |
| `soatable_sort_loses` | 2 columns, 2 values, 2 rows | - | violation of `SortKeepsValues` |
| `soatable_clear_revives` | 1 column, 1 value, 2 rows | - | violation of `StaleNeverValid` |
| `parallel_sort` | 3 columns (2 tasks), 2 values, 2 rows, 2 exceptions | 466552 | `TasksWithinCall`, `ReturnSorts`, `FailureContained`, `CallEnds` |
| `compute` | tiles of 2, up to 5 elements of 3 values, 2 exceptions; helpers at 4 bits | 113202 | `SpansCoverElements`, `ActsAsVector`, `ParallelIsSerial`, `TasksWithinCall`, `FailureContained`, `CallEnds`; `FieldsIndependent`, `BitmapExact`, `EncodingsNearest`, `WindowsExact` |
| `tiled_vector_throws` | tiles of 2, 1 value | - | violation of `BackIsLast` |
| `serialize` | 2 columns, 1 value, 2 rows, 2 generations, 2 changes between save and load | 17327 | `LoadAllOrNothing` |
| `synchronized_table` | 3 threads, 2 cells, 4 calls | 101216 | `Exclusion`, `KeepsAtomic`, `CallsEnd` |
| `dynamic_table` | 2 names, 2 types, 2 payloads, 1 key, 3 rows | 18471 | `GetSafe`, `KeepsStore` |

Deadlock is checked in every run.

### What the properties say

*Whatever is called and whatever throws* (`table_faults`): sparse and dense vectors are inverse
(`ColumnsConsistent`); no value is left in a column for a dead row or without its bit, where the
row's next tenant would inherit it (`PooledIsSigned`); a bit without a value, on which `get` would
throw, appears in two ways only, an erase that throws part way and a sort by a column that the row
lacks, while a `sort_by_multi` takes no value away even when its fold throws (`TornByEraseOrSort`); a call that throws leaves the handle valid and harms no other row, except the
value that `remove` was just moving (`FaultContained`).

*Under `StableSpec`* (`soatable_stable`): the free list ends, visits dead slots only, none twice,
and misses only retired ones; no stale handle is valid again; a set bit has a value behind it;
`select` yields the join whichever smallest column drives; after a sort all columns list their common
rows in one order. `soatable_queries`: `multi_comp` is the strict order `std::sort` needs even when
rows lack columns; all observers give one answer; the folds are what their definition says.

*Of calls on many rows* (`table_calls`): `insert_batch` hands out new rows, and an
overflow part way, which comes only when every index is taken, has added those it counted so far and
changed nothing else: it costs nothing but their handles; `assign_batch` keeps values and handles in step past handles that
are not valid; a loop yields only rows that match when their turn comes, misses none that matched all
along, and visits none twice; `assign_from` gives the output to exactly the rows with all
inputs, computed from the inputs it found; `for_each_dirty` misses no
row when the callback cleans. `KeepsPromise` is the refinement of `TablePromise`: `live` is what
`is_valid` accepts, `used` what is live or stale, a cell what `try_get` reads. A sort is a stutter
there: no reader of handles can see it.

*Of threads*: no task outlives its call, with its references into the caller's frame
(`TasksWithinCall`); a call that returns did what the serial one does (`ReturnSorts`,
`ParallelIsSerial`); after an exception a column is as before, sorted, or, if its own reorder threw,
hollow in places, and a chunk is done up to some element (`FailureContained`); calls end. Writers
are alone (`Exclusion`), no increment is lost and no read torn (`KeepsAtomic`).

*Of the rest*: tiles behave as `std::vector` (`ActsAsVector`, `SpansCoverElements`); `load` restores
what was saved or leaves nothing of it (`LoadAllOrNothing`); a pointer from `dynamic_table::get` has
the asked type and an alive row (`GetSafe`), and the table is a flat typed store (`KeepsStore`); the
helpers agree with their reference definitions.

### Bounds

Three rows are the fewest for which a swap-remove moves a row that is neither first nor the one
removed, for which the free list has a middle, and for which an order can fail to be transitive. Two
generations are the fewest for which a slot is recycled once and then retired; the index space ends
at three rows, so overflow happens. Two columns are the fewest for which signatures, drivers and row
orders can disagree. With one value every order of a sort is allowed, so `soatable_stable` visits all
the orders that more values could cause; where values matter (the promise, the comparator, the folds)
there are two. Columns are interchangeable in the code, hence the symmetry, except in `table_faults`,
where their order of declaration counts. `table_faults` does without recycling, since no fault is
about generations, and has a view without its two histories, which no action reads. `table_calls`
has two rows, each recycled once: a loop, a batch or `assign_from` is about a row and another one.

Three columns are the fewest with two tasks beside the calling thread, and two exceptions the fewest
for which a second thread fails while the first failure unwinds. Two rows suffice there since each
column is reordered on its own; longer orders are `ReorderCorrect`, which is proved. Three tiles give
a first, a middle and a last one, and five elements fill two of them exactly; they also cross the
border of a four-bit word of the bitmap. Four bits hold three fields side by side, and every value of
a field and beyond it.

`MaxChanges` bounds how far the table moves away from the buffer; after a load the steps are not
bounded. What `load` does with the old table is to clear it or leave it, so two changes are more than
it can tell apart. Three threads are the fewest for which two readers overlap while a writer waits,
and four calls let each of them call and one call again. Two names, two types and three rows let a
name come back with the other type while rows around an erased one keep their cells.

### Fairness

The table has no scheduler: every call returns, and a program may stop calling at any point, so no
liveness is stated and no fairness assumed there. `ParallelSort` and `ColumnCompute` assume weak
fairness of the calling thread and of each task: they are threads of the operating system
(`std::launch::async`), and none of their steps waits for a lock. `SynchronizedTable` assumes weak
fairness of each thread: it runs on until its callback ends, and gets a lock that stays free. Nothing
is assumed of the order among waiters, since `std::shared_mutex` promises none; `CallsEnd` holds
because calls come to an end, so a waiting writer is passed by finitely many readers.

## Proofs

All theorems are for every value of the constants that meets the stated assumptions: `npos` is a
positive natural, `max_generation` a natural, `Values` a set of integers, `Columns` a non-empty
finite set, and the like for the other modules.

| Module | Theorem | Statement |
| --- | --- | --- |
| `SoaTableProofs` | `Invariance` | `Spec => []IInv` |
| | `TypeCorrect`, `ColumnsStayConsistent`, `PooledStaysSigned`, `FreeListStaysSound`, `AliveStaysCounted`, `IndexSpaceStaysBounded` | `Spec => []TypeOK`, and so on |
| | `SignatureStaysExact`, `StaleStaysInvalid` | `StableSpec => []SignatureExact`, `[]StaleNeverValid` |
| | `MultiOrderStaysStrict`, `SelectStaysExact` | `StableSpec => []MultiOrderStrict`, `[]SelectExact` |
| | `SortsAlign` | `StableSpec => SortAligns` |
| | `PromiseKept` | `StableSpec => KeepsPromise` |
| `TableRecoveryProofs` | `FaultInvariance` | `FaultSpec => []IInv`: a program may go on after every exception |
| | `FaultsKeepColumns` | `FaultSpec => [](TypeOK /\ ColumnsConsistent /\ PooledIsSigned)` |
| | `OnlyEraseAndSortTear`, `FaultsAreContained` | `FaultSpec => TornByEraseOrSort`, `FaultContained` |
| | `SerializeInvariance`, `LoadIsAllOrNothing` | `SerializeSpec => []SerializeInv`, `LoadAllOrNothing` |
| `TableCallsProofs` | `ObserversAgreeUnlessTorn` | `Spec => [](ObserversAgree <=> SignatureExact)`, and `StableSpec => []ObserversAgree` |
| | `FoldsStayExact` | `StableSpec => []FoldsExact` |
| | `CallInvariance`, `CallsAreStable` | `CallSpec => []CallInv`; without the histories, every step is one of `StableNext` or leaves the table alone |
| | `CallsKeepPromise` | `CallSpec => KeepsPromise` |
| | `InsertBatchAddsAlways` | `CallSpec => InsertBatchAdds` |
| | `AssignBatchStaysExact`, `LoopStaysComplete`, `AssignFromStaysExact`, `DirtyAlwaysVisited` | `CallSpec => []AssignBatchExact`, and so on |
| | `LoopsYieldMatching` | `CallSpec => YieldsMatching` |
| `ColumnComputeProofs` | `VectorShaped`, `SpansAlwaysCover`, `AlwaysActsAsVector` | `Spec => [](TypeOK /\ TilesFull)`, `[]SpansCoverElements`, `ActsAsVector` (of `TiledVector`) |
| | `ComputeSpansCover`, `ComputeActsAsVector` | the same two of `ComputeSpec`, with transforms between and during calls |
| | `DeltasAreNearest`, `QuantizedIsNearest`, `WindowsAreExact` | of the helpers, for any input |
| | `EncodingsStayNearest`, `WindowsStayExact` | `ComputeSpec => []EncodingsNearest`, `[]WindowsExact` |
| | `PackedFieldIsExact`, `PackedFieldsApart`, `BitmapIsExact` | of the bit helpers, for any width, word and values |
| | `FieldsStayIndependent`, `BitmapStaysExact` | `ComputeSpec => []FieldsIndependent`, `[]BitmapExact` |
| | `NoTaskOutlives`, `ReturnsAsSerial`, `ThrowsBetweenElements` | `ComputeSpec => []TasksWithinCall`, `[]ParallelIsSerial`, `[]FailureContained` |
| `ParallelSortProofs` | `SortInvariance` | `Spec => []SortInv` |
| | `NoTaskOutlives`, `ReturnAlwaysSorts`, `FailureAlwaysContained` | `Spec => []TasksWithinCall`, `[]ReturnSorts`, `[]FailureContained` |
| `SynchronizedTableProofs` | `WritersAlone`, `LockHeld`, `ReadsCurrent` | `Spec => []Exclusion`, `[]HeldWhileInside`, `[]SeenIsCurrent` |
| | `CallbacksAtomic` | `Spec => KeepsAtomic` |
| `DynamicTableProofs` | `TypeCorrect`, `PointersSafe` | `Spec => []TypeOK`, `[]GetSafe` |
| | `IsTypedStore` | `Spec => KeepsStore` |

**The table.** `TypeOK` alone is not inductive: that the slot `insert` takes from the free list
exists at all is a fact about the list, that its signature may be reset is a fact about the columns
(none of them has the row), that the count does not go below zero in `erase` is a fact about the
alive slots. `IInv` is the conjunction of all of them, with the free list given as `FreeChain`: a
sequence of distinct dead slots that the links spell out. `PopChain`, `RetireChain`, `PushChain`,
`GrowChain` and `SignatureStep` say what each kind of step does to the slots and to such a sequence;
`ErasedColumns`, `AssignedColumns`, `UnassignedColumns` and `ReorderedColumns` what it does to the
columns; one lemma per action puts both together. `SignatureStaysExact` needs `PooledIsSigned` for
`sort_by_multi` (the order names all alive rows, hence all rows with values) and the side condition
`Covers` for `sort_by_column`. `StaleStaysInvalid` needs to know why a stale handle stays invalid:
its slot has its generation or a later one, and no slot on the free list still has it (`StaleInv`).

**What a user sees.** `UserView` collects what the refinement needs: `IInv`, `StaleNeverValid`, that
the cells `try_get` finds are those the columns hold (`HeldCells`), and that live handles are
handles. One lemma per operation then maps it to the promise (`InsertIsInsert`, `EraseIsErase`, ...);
`insert` needs that the new handle was never used, which is `StaleNeverValid` after the step, and a
sort is nothing (`SortIsNothing`). `MultiOrderStrict` splits into one criterion being a weak order
(`CriterionOrders`) and the least deciding criterion of two pairs deciding the third
(`BeforeOrders`). `SortsAlign` says that only a sort can leave a column with the same rows in another
order (`StepAligns`), and that `Kept` keeps the order of what it keeps (`KeptInOrder`).

**Columns.** `EmplaceCorrect`, `RemoveCorrect` and `ReorderCorrect` say that the operation keeps
`SparseSet`, what it does to the set of rows with a value, and that no other row's value changes.
`DenseFits` (a column that lacks a row has room for it) is a pigeonhole argument. `Kept`, the loop of
`reorder`, is a recursive function; its properties are proved from a least counterexample
(`LeastNatural`), since the induction theorems of the library take operators as parameters, which the
provers at hand cannot instantiate.

**Exceptions.** The invariant of the table survives every throw because a throw touches columns only
and takes no row into one (`ColumnsOnlyKeep`): `IInv` of `SoaTableProofs` is inductive for
`FaultNext` as it stands, and a program may go on from wherever an exception left it. What goes is
`SignatureExact`, and the two action properties say who may break it and for whom. `FaultContained`
and `TornByEraseOrSort` then go fold by fold: `FoldThrows` has done the columns before the one that
threw, in the order of declaration. For the sorts, `PartlyReordered` says that whichever columns are
done, none loses a row that the order names, and `SortOrders` that the order of `sort_by_multi` names
every row a column can have.

**Observers.** With clear and any sort allowed the observers need not agree: after a sort by a column
that some row lacks, `contains` goes by the bit and `get` by the column. `AgreeingIsExact` and its
converse show that this is the only way: they agree in exactly the states where every set bit has a
value behind it.

**Save and load.** Both are about positions in a buffer. `FlattenPlaces` says where the parts of a
concatenation are; `LaidOut` collects what `save` writes where. `load` computes the positions of the
columns from the counts it reads, and finds each where `save` put it (`ColumnsFound`). In a buffer
that is cut, a position is that of the whole one or lies beyond the end, where counts read as zero:
it stays there, so the end is noticed (`CutIsNoticed`). `ReplayedSame` says that replaying a column
through `emplace` gives back its dense vector and its values; the sparse vector may be shorter, which
is why `Snapshot` leaves it out. `SerializeInv` is `IInv` and that a buffer, if there is one, is the
image of a table that meets `IInv`.

**Calls on many rows.** Every step of a call is a step of the table or leaves it alone
(`CallsAreStable`), so the table's theorems hold throughout, the refinement included. `CallInv` says
for each kind of call how far it is: which handles a batch has handed out and that they are the new
ones (`Inserting`), that `assign_batch` has written to each row the last of the values given for it so
far (`Assigning`), which rows a loop has passed and that no row that matched all along is behind it
unseen (`Looped`), that what `assign_from` collected was computed from the table it found
(`Deriving`), and that `for_each_dirty` has cleaned what it passed (`Cleaning`). A select holds its
place as an iterator into the dense vector of its driver; that the bodies it allows never move that
vector's elements is what keeps `Looped`. One assumption is new here: 0 is a value
(`MaskAssumption`), since a mask can be clean.

**Threads.** In `ColumnCompute` the tasks change disjoint chunks: `IInv` says that only chunks of the
call are worked on, that the chunks are the ones the call found, that each is transformed exactly as
far as its worker is (`ChunksAsFar`, which also fixes how often its copy of the operation has been
called), that the caller has waited for what it says it has (`CallerWaits`), and `TasksWithinCall`.
In `ParallelSort`, `IInv` says that the last column is the calling thread's own and that tasks not yet
launched are idle. `SortInv` adds what each column is by then: as the call found it, moved out up to
some element (`Halfway`), or reordered by the order that all share. It takes the lemmas about columns
with hollow elements among the values. That what a call finds are columns at all is proved of
`Filled`, the columns of `Init`, which `emplace` builds row by row. In `SynchronizedTable`,
`HeldWhileInside` and `Exclusion` give `LoadedIsCurrent` and `SeenIsCurrent`: nothing changes under a
callback; from these each step is one of `AtomicTable` under `Settled`.

**Dynamic table and tiles.** `IInv` of `DynamicTable` is `TypeOK`, `CellsSound` (a cell's row is alive
and its value has its column's type) and `Counted`. `VectorShaped` is inductive as it stands. It gives
each flat index a tile and a place in it, no two the same (`PlacesDiffer`), and from that
`ActsAsVector` and `SpansCoverElements` follow call by call.

**Recursion.** What a loop of the code computes is written as a recursive function (`Kept`, `Filled`,
`Replayed`, `ColumnAt`) or taken from the library (`FlattenSeq`). That such a function exists, and what
holds of it, is proved from a least counterexample, as for `Kept`. For the helpers this is done once:
`RecursionHasResult` says that a recursion over `0 .. n` that stays in a set has a result, `Upwards`
carries a fact from 0 to `n`.

**Folds.** The library folds a sequence by a recursion over the sets of its places, which has a result
(`SetRecursionHasResult`, by the size of the set) and takes one place at a time (`SumTurns`,
`CountTurns` and the like). The reference sums over a set of rows, in no order: `AnyFirst` and
`AnyWhole` say that it does not matter which row is taken first, so that a sum grows by each row that
is passed (`TotalGrows`). `SumsAreTotals` and `CountsAreSizes` put both together, one group per key
of the rows passed so far; that these are in the end the rows with all the columns, each once, is
`JoinedIs`, from `SelectExact`.

**Encodings and windows.** `RoundedIsNearest` is the heart of both encodings: rounding a quotient, then
holding it below a bound, gives the multiple nearest to the dividend among those below the bound. A
delta is that, mirrored below zero (`DeltaIsNearest`), and `TrackedIs` follows a stream of them. A
quantized value is that with a mask as the bound, which `MaskIs` shows to be within the width, so
that the conversion to the storage type loses nothing. A running total is a difference of two sums
from the start (`RunningIsSum`), and so is the sum of any part of a vector (`SumOfPart`);
`DeltasAddUp` carries the multiple of `Modulus` by which the differences have wrapped around. All of
this is for exact arithmetic, as the model computes it; the rounding of `double` itself is not in it.

**Bits.** Arithmetic and bits meet in one lemma: whoever halves a number again and again, and can say
what is left over each time, has its bits (`Halving`, `BitsAre`). With a guess of the halves this
gives the bits of a power less one (`OnesBelow`), hence those of `low_bits_mask` for any count
(`MaskBits`), of remainders and conversions, negative numbers included (`RemainderBits`), of shifts
either way (`ShlBits`, `ShrBits`) and of `remaining & (remaining - 1)`, which lacks the lowest bit
(`LowestCleared`). A word is its bits (`SameBits`), and any bits make a word (`BitsMakeWord`); from
there on the proofs are about sets. `Shows` says what a container shows once some values have been
set: each field its value, every other position what it was. `VisitedIs` is that the loop of
`for_each_set` ends, for which the number of bits counts down (`Countdown`). A bitmap is related to
the set it stands for by `Holds`, word by word: `set` keeps it, and `test`, `count` and
`for_each_set` are read off it, the last two by what each word adds above the ones before
(`NextWord`).

Only model-checked. Liveness (`CallEnds`, `CallsEnd`) stays with TLC, as the provers at hand do not
reason about fairness; all other properties of the passing runs are theorems. `FoldsStayExact` is
about the folds that `FoldsExact` names, a sum and a count; `group_reduce` takes any operator, and
nothing is proved about another one.

## Where the code and its words disagree

1. `sort_by_column` loses values (run `soatable_sort_loses`). The row order it computes is that of
   the rows which have the sort column, and `column_vector::reorder` keeps only rows that the order
   names. Every other column loses the values of the rows without the sort column; their signature
   bits stay set. The tests say that "handles and values must survive"
   (`tests/unittests/invariant_test.cpp:91`; also `sort_test.cpp:6`), and only sort tables where no
   such row has another value. `sort_by_multi`, which orders all alive rows, loses nothing: that is
   `SignatureStaysExact`. The parallel form uses the same order.
2. `clear` resets generations (run `soatable_clear_revives`). Its comment says "Does not reset
   generations" (line 1123), a test is called `ClearResetsRowsButPreservesGenerationMonotonicity`
   (it never inserts after the clear), and the README says that a stale handle is detected. But
   the generations are in `m_rows`, which is cleared: after the next `insert` the handle of a row
   from before the clear is valid, and names another row.
3. An `emplace_back` that throws at a tile border leaves an empty tile (run `tiled_vector_throws`):
   the tile is appended before the element is constructed. `column_vector::emplace` documents a
   strong guarantee and `tiled_vector` calls itself a drop-in backend, but the next `remove` on that
   column calls `back()` and `pop_back()` on the empty tile, which is undefined. A further
   `emplace_back` repairs it. Elements and flat indices are not affected (`ActsAsVector`).

Some smaller observations, which no run is about. `reorder` can lose values
without a throwing move: its comment says that only a throwing move constructor leaves the column
unspecified, since the index rebuild is no-throw, but the rebuild allocates the sparse vector after
all values were moved out (`RebuildThrows`). `load` is said to clear the table first: a buffer
that its header rejects leaves the table as it was, one that ends later leaves it empty, and
`truncated` may be either (`LoadRefused`, `LoadTruncated`). The fingerprint by which `load` "can reject
a mismatched schema" (`serialize.hpp:72`) hashes the number, the sizes and the alignments of the
columns: a schema with two columns of one size swapped, or another type of that size, is accepted.
And `dynamic_table::set` that throws while it assigns to a new cell leaves a value-initialised cell
that nobody set; `TypedStore` admits it, as a cell set to a blank value.

## Hazards

`PROJECT.json` lists, line by line, what in this code is hard to test and which property covers it.
Reuse of slots and generations at their limit, the sentinels, swap-removes, leftovers for the next
tenant of a slot, orders that do not name every row, the join driven by different columns and the
comparator are hazards of the sequential table. Exceptions between two updates, in folds over the
columns, in batches, tasks and callbacks are faults. Bodies that change what a lazy range walks and
callbacks that clean what is looked for are calls within calls.
Tasks, chunks and the lock are interleavings; shifts by the width, clamps and windows are numeric
edges.

## Not modelled

- `mmap.hpp` wraps the operating system's mapping calls, `pmr.hpp` is type aliases, `units.hpp` and
  `reflect.hpp` live at compile time: there is no state to explore.
- Capacity (`reserve`, `shrink_to_fit` of vectors): not observable through handles.
- `row_handle` forwards every call to the table it points to.
- The helpers of `compute.hpp` over one span (`reduce`, `inclusive_scan`, `transform_masked`,
  `transform_strided`) are loops over an array; `for_each_chunk` is the loop of `transform_column`.
- What `load` does to a buffer that was not written by `save` beyond its header, one of a schema
  with the same fingerprint included, and an allocation that fails inside `load`, which leaves what it
  has filled so far. Handles given out between a save and its load: the generations of the save come
  back, so such a handle can name a later row; the history of stale handles is restored with them.
- Rounding of doubles. `quantized_float` and `delta_value` are computed exactly; with a 64-bit
  storage type the largest stored value is not a double, which the model does not show. Signed
  overflow in `rolling_sum` is left out for the same reason: its values are unsigned here.
- What C++ leaves undefined and the documentation forbids: bodies of a select that change its
  driver or sort, callbacks of `synchronized_table` that call `read` or `write` on the same table.
- Tests, examples, benchmarks, debugger visualizers, packaging: read as documentation.

What a further step could take up: `load` with failing allocations, and a composition of
`dynamic_table` with `synchronized_table`.
