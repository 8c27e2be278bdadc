------------------------------ MODULE SoaTable ------------------------------
(***************************************************************************)
(* basic_soa_table (include/soatable/soatable.hpp): row slots addressed by *)
(* (index, generation) handles, an intrusive free list of dead slots, and  *)
(* one sparse column per registered type.  One action per member function  *)
(* that changes the table; the observers are operators over the state.     *)
(*                                                                         *)
(* npos and max_generation are 2^32 - 1 in the code and parameters here:   *)
(* they are the only bounds, and the instances reach both.  A column type  *)
(* is a member of Columns, a signature (std::bitset) the set of columns    *)
(* whose bit is set.                                                       *)
(***************************************************************************)
EXTENDS ColumnVector

CONSTANTS Columns,          \* the registered column types
          max_generation,   \* at this generation a slot is retired
          MaxCriteria       \* bound: criteria of one sort_by_multi call

ASSUME GenerationAssumption == max_generation \in Nat
ASSUME ColumnsAssumption    == IsFiniteSet(Columns) /\ Columns # {}
ASSUME CriteriaAssumption   == MaxCriteria \in Nat \ {0}

VARIABLES m_rows,         \* slot -> generation, signature, alive
          m_free_links,   \* slot -> next free slot, npos at the end
          m_free_head,    \* first free slot, npos when there is none
          m_alive_count,  \* what size() returns
          m_columns,      \* column type -> its column_vector
          stale           \* history: the handles erase or clear invalidated

vars == <<m_rows, m_free_links, m_free_head, m_alive_count, m_columns, stale>>

-----------------------------------------------------------------------------
Generation == 0 .. max_generation

RowMeta == [generation : Generation, signature : SUBSET Columns,
            alive : BOOLEAN]

(* row_id is a public struct: a caller can build any pair, {npos, 0} too.  *)
Handles == [index : IndexOrNpos, generation : Generation]

Handle(i) == [index |-> i, generation |-> At(m_rows, i).generation]

Slots == 0 .. Len(m_rows) - 1

AliveSlots == {i \in Slots : At(m_rows, i).alive}

is_valid(id) == /\ id.index < Len(m_rows)
                /\ At(m_rows, id.index).alive
                /\ At(m_rows, id.index).generation = id.generation

(* What rows() yields.                                                     *)
LiveHandles == {Handle(i) : i \in AliveSlots}

(* Mutant: npos becomes a row.                                             *)
CanAddressNpos(count) == count <= npos + 1

can_address_rows(count) == count <= npos

(* The types: no generation beyond max_generation, no row npos in a        *)
(* column, no count below zero.                                            *)
TypeOK ==
  /\ m_rows \in Seq(RowMeta)
  /\ m_free_links \in Seq(IndexOrNpos)
  /\ m_free_head \in IndexOrNpos
  /\ m_alive_count \in Nat
  /\ m_columns \in [Columns -> Column]
  /\ stale \subseteq Handles

-----------------------------------------------------------------------------
Init ==
  /\ m_rows = <<>>
  /\ m_free_links = <<>>
  /\ m_free_head = npos
  /\ m_alive_count = 0
  /\ m_columns = [C \in Columns |-> EmptyColumn]
  /\ stale = {}

(* insert() with a free slot: pop the head of the free list.               *)
InsertRecycled ==
  /\ m_free_head # npos
  /\ m_free_head' = At(m_free_links, m_free_head)
  /\ m_rows' = Put(m_rows, m_free_head,
                   [At(m_rows, m_free_head) EXCEPT !.alive = TRUE,
                                                   !.signature = {}])
  /\ m_alive_count' = m_alive_count + 1
  /\ UNCHANGED <<m_free_links, m_columns, stale>>

(* insert() without one: append a slot of generation 0.                    *)
InsertGrown ==
  /\ m_free_head = npos
  /\ can_address_rows(Len(m_rows) + 1)
  /\ m_rows' = Append(m_rows, [generation |-> 0, signature |-> {},
                               alive |-> TRUE])
  /\ m_free_links' = Append(m_free_links, npos)
  /\ m_alive_count' = m_alive_count + 1
  /\ UNCHANGED <<m_free_head, m_columns, stale>>

(* insert() throws overflow_error: the index space is exhausted.           *)
InsertOverflow ==
  /\ m_free_head = npos
  /\ ~can_address_rows(Len(m_rows) + 1)
  /\ UNCHANGED vars

insert == InsertRecycled \/ InsertGrown \/ InsertOverflow

(* Two mutants of Released: the generation wraps around instead of         *)
(* retiring the slot; and the head moves before the link to it is read.     *)
ReleasedWraps(i) ==
  LET next == (At(m_rows, i).generation + 1) % (max_generation + 1)
  IN  /\ m_rows' = Put(m_rows, i, [generation |-> next, signature |-> {},
                                   alive |-> FALSE])
      /\ m_free_links' = Put(m_free_links, i, m_free_head)
      /\ m_free_head' = i

ReleasedHeadFirst(i) ==
  LET meta == At(m_rows, i)
      dead == [meta EXCEPT !.alive = FALSE, !.signature = {}]
  IN  IF meta.generation = max_generation
      THEN /\ m_rows' = Put(m_rows, i, dead)
           /\ UNCHANGED <<m_free_links, m_free_head>>
      ELSE /\ m_rows' = Put(m_rows, i, [dead EXCEPT !.generation = @ + 1])
           /\ m_free_head' = i
           /\ m_free_links' = Put(m_free_links, i, m_free_head')

(* What erase leaves in the slot and the free list.  A slot whose          *)
(* generation is saturated is retired: dead, and not on the free list.     *)
Released(i) ==
  LET meta == At(m_rows, i)
      dead == [meta EXCEPT !.alive = FALSE, !.signature = {}]
  IN  IF meta.generation = max_generation
      THEN /\ m_rows' = Put(m_rows, i, dead)
           /\ UNCHANGED <<m_free_links, m_free_head>>
      ELSE /\ m_rows' = Put(m_rows, i,
                            [dead EXCEPT !.generation = @ + 1])
           /\ m_free_links' = Put(m_free_links, i, m_free_head)
           /\ m_free_head' = i

(* Mutant: the values stay in the columns.                                 *)
EraseSlotOnly(id) ==
  /\ is_valid(id)
  /\ Released(id.index)
  /\ m_alive_count' = m_alive_count - 1
  /\ stale' = stale \cup {id}
  /\ UNCHANGED m_columns

(* erase(id): every column drops the row, then the slot is released.       *)
erase(id) ==
  /\ is_valid(id)
  /\ m_columns' = [C \in Columns |-> remove(m_columns[C], id.index)]
  /\ Released(id.index)
  /\ m_alive_count' = m_alive_count - 1
  /\ stale' = stale \cup {id}

SignatureWith(i, sig) ==
  m_rows' = Put(m_rows, i, [At(m_rows, i) EXCEPT !.signature = sig])

assign(C, id, v) ==
  /\ is_valid(id)
  /\ m_columns' = [m_columns EXCEPT ![C] = emplace(@, id.index, v)]
  /\ SignatureWith(id.index, At(m_rows, id.index).signature \cup {C})
  /\ UNCHANGED <<m_free_links, m_free_head, m_alive_count, stale>>

(* Mutant: the signature bit stays set.                                    *)
UnassignKeepsBit(C, id) ==
  /\ is_valid(id)
  /\ m_columns' = [m_columns EXCEPT ![C] = remove(@, id.index)]
  /\ UNCHANGED <<m_rows, m_free_links, m_free_head, m_alive_count, stale>>

unassign(C, id) ==
  /\ is_valid(id)
  /\ m_columns' = [m_columns EXCEPT ![C] = remove(@, id.index)]
  /\ SignatureWith(id.index, At(m_rows, id.index).signature \ {C})
  /\ UNCHANGED <<m_free_links, m_free_head, m_alive_count, stale>>

(* A mutator handed a handle that is not valid: erase and unassign return, *)
(* assign throws out_of_range; all three before any mutation.              *)
Refused(id) ==
  /\ ~is_valid(id)
  /\ UNCHANGED vars

(* clear(): the slots go, their generations with them.                     *)
clear ==
  /\ m_rows' = <<>>
  /\ m_free_links' = <<>>
  /\ m_free_head' = npos
  /\ m_alive_count' = 0
  /\ m_columns' = [C \in Columns |-> EmptyColumn]
  /\ stale' = stale \cup LiveHandles

(* Mutant: only the columns that have as many rows as the order.           *)
ReorderFullOnes(order) ==
  /\ m_columns' = [C \in Columns |->
                     IF Len(m_columns[C].dense) = Len(order)
                     THEN reorder(m_columns[C], order)
                     ELSE m_columns[C]]
  /\ UNCHANGED <<m_rows, m_free_links, m_free_head, m_alive_count, stale>>

(* Every column is reordered by one row order.                             *)
ReorderAll(order) ==
  /\ m_columns' = [C \in Columns |-> reorder(m_columns[C], order)]
  /\ UNCHANGED <<m_rows, m_free_links, m_free_head, m_alive_count, stale>>

(* sort_by_column<C>, its alias sort_by, and what the parallel version     *)
(* comes to once its tasks have joined.  The order is of the rows that     *)
(* have C; std::sort is not stable, so equal values come in any order.     *)
sort_by_column(C) ==
  LET pool == m_columns[C]
  IN  \E order \in SetToSeqs(ToSet(pool.dense)) :
        /\ \A i, j \in DOMAIN order :
             i < j => ~(get(pool, order[j]) < get(pool, order[i]))
        /\ ReorderAll(order)

(* Mutant: a row without the column ties with every row.                   *)
DecidesBothPresent(C, a, b) ==
  LET pool == m_columns[C]
  IN  /\ contains(pool, a)
      /\ contains(pool, b)
      /\ get(pool, a) # get(pool, b)

(* One criterion of sort_by_multi: does it decide between rows a and b,    *)
(* and if so, does a come first.  Rows without the column come last.       *)
Decides(C, a, b) ==
  LET pool == m_columns[C]
  IN  \/ contains(pool, a) # contains(pool, b)
      \/ /\ contains(pool, a)
         /\ contains(pool, b)
         /\ get(pool, a) # get(pool, b)

ComesFirst(C, a, b) ==
  LET pool == m_columns[C]
  IN  /\ contains(pool, a)
      /\ contains(pool, b) => get(pool, a) < get(pool, b)

(* multi_comp: the first criterion that decides, the slot index when none. *)
Before(criteria, a, b) ==
  LET deciding == {k \in DOMAIN criteria : Decides(criteria[k], a, b)}
  IN  IF deciding = {} THEN a < b ELSE ComesFirst(criteria[Min(deciding)], a, b)

(* sort_by_multi: the order is of every alive row.                         *)
sort_by_multi(criteria) ==
  \E order \in SetToSeqs(AliveSlots) :
    /\ \A i, j \in DOMAIN order : i < j => Before(criteria, order[i], order[j])
    /\ ReorderAll(order)

Criteria == SeqOf(Columns, MaxCriteria) \ {<<>>}

(* Every row that has a value anywhere has one in C.                       *)
Covers(C) == \A D \in Columns : RowsIn(m_columns[D]) \subseteq RowsIn(m_columns[C])

CommonNext ==
  \/ insert
  \/ \E id \in Handles : Refused(id)
  \/ \E id \in Handles : erase(id)
  \/ \E id \in Handles, C \in Columns : unassign(C, id)
  \/ \E id \in Handles, C \in Columns, v \in Values : assign(C, id, v)
  \/ \E criteria \in Criteria : sort_by_multi(criteria)

(* Everything the class lets a program do.                                 *)
Next ==
  \/ CommonNext
  \/ \E C \in Columns : sort_by_column(C)
  \/ clear

(* The part in which handles and values keep the documented promises:      *)
(* no clear(), and sort_by_column only by a column that covers the others. *)
StableNext ==
  \/ CommonNext
  \/ \E C \in Columns : Covers(C) /\ sort_by_column(C)

Spec       == Init /\ [][Next]_vars
StableSpec == Init /\ [][StableNext]_vars

-----------------------------------------------------------------------------
(* The observers.                                                          *)

(* contains<C>(id): the signature bit, not the column.                     *)
table_contains(C, id) ==
  is_valid(id) /\ C \in At(m_rows, id.index).signature

(* try_get<C>(id), as the set of what the pointer points to.               *)
try_get(C, id) ==
  IF table_contains(C, id) /\ contains(m_columns[C], id.index)
  THEN {get(m_columns[C], id.index)}
  ELSE {}

(* make_row_id(i)                                                          *)
make_row_id(i) ==
  IF i \in AliveSlots THEN Handle(i) ELSE [index |-> npos, generation |-> 0]

(* select<Required...>: the smallest required column drives, the signature *)
(* filters.  Which of several smallest ones drives is left open.           *)
Drivers(Required) ==
  {C \in Required : \A D \in Required :
     Len(m_columns[C].dense) <= Len(m_columns[D].dense)}

(* Mutant: whoever is alive passes.                                        *)
PassesAlive(Required, r) == r < Len(m_rows) /\ At(m_rows, r).alive

Passes(Required, r) ==
  /\ r < Len(m_rows)
  /\ At(m_rows, r).alive
  /\ Required \subseteq At(m_rows, r).signature

select(Required, driver) ==
  Kept(m_columns[driver].dense, {r \in Index : Passes(Required, r)})

-----------------------------------------------------------------------------
(* Safety, whatever the program calls.                                     *)

(* The three vectors of every column stay consistent through swap-removes, *)
(* reuse of rows and reorders (column_vector's class comment).             *)
ColumnsConsistent == \A C \in Columns : SparseSet(m_columns[C])

(* A column only holds values of alive rows that have its signature bit:   *)
(* erase leaves nothing behind for the next tenant of the slot, whose      *)
(* signature insert resets.                                                *)
PooledIsSigned ==
  \A C \in Columns : \A r \in RowsIn(m_columns[C]) :
    r \in AliveSlots /\ C \in At(m_rows, r).signature

(* chain lists the free list: from the head along the links to npos.       *)
IsFreeList(chain) ==
  /\ m_free_head = IF chain = <<>> THEN npos ELSE Head(chain)
  /\ \A k \in DOMAIN chain :
       At(m_free_links, chain[k]) =
         IF k = Len(chain) THEN npos ELSE chain[k + 1]

(* The free list ends, visits no slot twice, visits only dead slots, and   *)
(* misses a dead slot only when erase retired it at max_generation.        *)
FreeListSound ==
  \E chain \in SetToAllKPermutations(Slots \ AliveSlots) :
    /\ IsFreeList(chain)
    /\ \A i \in (Slots \ AliveSlots) \ ToSet(chain) :
         At(m_rows, i).generation = max_generation

(* size() is the number of alive slots.                                    *)
AliveCounted == m_alive_count = Cardinality(AliveSlots)

(* No slot has the index npos, so the {npos, 0} that make_row_id returns   *)
(* for a dead slot, and the npos of free list and sparse vector, name no   *)
(* row; the links run parallel to the slots.                               *)
IndexSpaceBounded ==
  /\ Len(m_rows) <= npos
  /\ Len(m_free_links) = Len(m_rows)
  /\ \A i \in IndexOrNpos : is_valid(make_row_id(i)) <=> i \in AliveSlots

-----------------------------------------------------------------------------
(* Safety under StableSpec.                                                *)

(* A handle that erase invalidated is not valid again, however often its   *)
(* slot is reused ("A stale handle is detected, never silently pointed at  *)
(* the wrong record").                                                     *)
StaleNeverValid == \A id \in stale : ~is_valid(id)

(* The signature bit of a row and the column agree, so that get does not   *)
(* throw on a row that contains() the column and select dereferences no    *)
(* null pointer.                                                           *)
SignatureExact ==
  \A C \in Columns : \A i \in AliveSlots :
    C \in At(m_rows, i).signature => contains(m_columns[C], i)

(* select yields every alive row that has all the required columns, once,  *)
(* and no other row, whichever column drives.                              *)
SelectExact ==
  \A Required \in (SUBSET Columns) \ {{}} : \A driver \in Drivers(Required) :
    LET result == select(Required, driver)
    IN  /\ IsInjective(result)
        /\ ToSet(result) = {r \in AliveSlots : \A C \in Required :
                              contains(m_columns[C], r)}

(* C and D list the rows that both have in the same order.                 *)
Aligned(C, D) ==
  \A i, j \in DOMAIN C.dense, k, l \in DOMAIN D.dense :
    C.dense[i] = D.dense[k] /\ C.dense[j] = D.dense[l] /\ i < j => k < l

(* A step that changes the order of a column's rows but not which they are *)
(* is a sort, and leaves all columns in one row order, so that the spans   *)
(* of columns with the same rows can be walked together.                   *)
Reordered(C) ==
  /\ RowsIn(m_columns[C])' = RowsIn(m_columns[C])
  /\ m_columns[C].dense' # m_columns[C].dense

SortAligns ==
  [][(\E C \in Columns : Reordered(C))
     => \A C, D \in Columns : Aligned(m_columns[C], m_columns[D])']_vars

(* multi_comp is the strict total order that std::sort wants, whichever    *)
(* rows lack which columns: else the sort's behaviour is undefined.        *)
MultiOrderStrict ==
  \A criteria \in Criteria :
    /\ \A a \in AliveSlots : ~Before(criteria, a, a)
    /\ \A a, b \in AliveSlots :
         a # b => (Before(criteria, a, b) <=> ~Before(criteria, b, a))
    /\ \A a, b, c \in AliveSlots :
         Before(criteria, a, b) /\ Before(criteria, b, c)
           => Before(criteria, a, c)

(* A sort changes what no handle reads ("Physically reorder by Age;        *)
(* handles and values must survive").                                      *)
SortKeepsValues ==
  [][(\E C \in Columns : sort_by_column(C))
       \/ (\E criteria \in Criteria : sort_by_multi(criteria))
     => \A C \in Columns, id \in LiveHandles :
          try_get(C, id)' = try_get(C, id)]_vars

(* The table implements TablePromise: what is live is what is valid, what  *)
(* is used is what is live or was invalidated, and a cell is what try_get  *)
(* reads.                                                                  *)
AssignedCells ==
  {p \in LiveHandles \X Columns : try_get(p[2], p[1]) # {}}

Promise == INSTANCE TablePromise WITH
  live  <- LiveHandles,
  used  <- LiveHandles \cup stale,
  cells <- [p \in AssignedCells |-> get(m_columns[p[2]], p[1].index)]

(* Every step of StableSpec is a step of the promise, or changes nothing   *)
(* that a user of handles can see.                                         *)
KeepsPromise == Promise!Spec
=============================================================================
