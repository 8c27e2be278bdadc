----------------------------- MODULE TableCalls -----------------------------
(***************************************************************************)
(* The calls on a basic_soa_table that touch more than one row, taken      *)
(* apart into the steps in which they do: insert_batch and assign_batch    *)
(* (include/soatable/soatable.hpp), loops over a lazy select, view or      *)
(* rows() with a body that changes the table, compute::assign_from and     *)
(* timeseries::for_each_dirty.                                             *)
(*                                                                         *)
(* One call is under way at a time, in `call`: the table has no threads.   *)
(* A batch runs without interruption; the body of a loop is the program's, *)
(* and changes the table between two steps of the iteration.               *)
(***************************************************************************)
EXTENDS TableQueries

CONSTANTS MaxBatch,     \* bound: rows in one batch
          MaxBody       \* bound: changes the bodies of one loop make

ASSUME CallAssumption == MaxBatch \in Nat /\ MaxBody \in Nat
ASSUME MaskAssumption == 0 \in Values     \* a mask can be clean

VARIABLES call          \* the call under way; op says which

callVars == <<m_rows, m_free_links, m_free_head, m_alive_count, m_columns,
              stale, call>>

None == [op |-> "none"]

CallInit == Init /\ call = None

(* The cells, as try_get sees them: history of some calls.                 *)
Cells == [id \in LiveHandles |-> [C \in Columns |-> try_get(C, id)]]

Idle == call = None

(* A call of one step of the table.                                        *)
Single == Idle /\ StableNext /\ UNCHANGED call

Ends == call' = None /\ UNCHANGED vars

-----------------------------------------------------------------------------
(* insert_batch(count): insert() and push_back, count times.               *)
InsertBatch ==
  /\ Idle
  /\ \E count \in 0 .. MaxBatch :
       call' = [op |-> "insert_batch", left |-> count, ids |-> <<>>,
                before |-> LiveHandles]
  /\ UNCHANGED vars

(* Mutant: the handle of the slot as it was before.                        *)
BatchInsertStale ==
  /\ call.op = "insert_batch"
  /\ call.left > 0
  /\ InsertRecycled \/ InsertGrown
  /\ LET new == IF m_free_head # npos THEN m_free_head ELSE 0
     IN  call' = [call EXCEPT !.left = @ - 1,
                              !.ids = Append(@, [index |-> new,
                                generation |-> At(m_rows', new).generation])]

BatchInsert ==
  /\ call.op = "insert_batch"
  /\ call.left > 0
  /\ InsertRecycled \/ InsertGrown
  /\ LET new == IF m_free_head # npos THEN m_free_head ELSE Len(m_rows)
     IN  call' = [call EXCEPT !.left = @ - 1,
                              !.ids = Append(@, [index |-> new,
                                generation |-> At(m_rows', new).generation])]

(* insert() throws overflow_error: the vector of handles goes, the rows    *)
(* inserted so far stay.                                                   *)
BatchOverflow ==
  /\ call.op = "insert_batch"
  /\ call.left > 0
  /\ InsertOverflow
  /\ call' = None

BatchInserted == call.op = "insert_batch" /\ call.left = 0 /\ Ends

-----------------------------------------------------------------------------
(* assign_batch<C>(ids, first): any vector of handles, stale and repeated  *)
(* ones too, and as many values.                                           *)
AssignBatch ==
  /\ Idle
  /\ \E C \in Columns, n \in 1 .. MaxBatch :
       \E ids \in [1 .. n -> LiveHandles \cup stale], vals \in [1 .. n -> Values] :
         call' = [op |-> "assign_batch", C |-> C, ids |-> ids, values |-> vals,
                  k |-> 1, it |-> 1, before |-> Cells]
  /\ UNCHANGED vars

(* Mutant: the input is not consumed for a handle that is skipped.         *)
BatchSkipInStep ==
  /\ call.op = "assign_batch"
  /\ call.k <= Len(call.ids)
  /\ ~is_valid(call.ids[call.k])
  /\ call' = [call EXCEPT !.k = @ + 1]
  /\ UNCHANGED vars

(* An invalid handle is skipped, and its value with it.                    *)
BatchSkip ==
  /\ call.op = "assign_batch"
  /\ call.k <= Len(call.ids)
  /\ ~is_valid(call.ids[call.k])
  /\ call' = [call EXCEPT !.k = @ + 1, !.it = @ + 1]
  /\ UNCHANGED vars

BatchAssign ==
  /\ call.op = "assign_batch"
  /\ call.k <= Len(call.ids)
  /\ assign(call.C, call.ids[call.k], call.values[call.it])
  /\ call' = [call EXCEPT !.k = @ + 1, !.it = @ + 1]

BatchAssigned == call.op = "assign_batch" /\ call.k > Len(call.ids) /\ Ends

-----------------------------------------------------------------------------
(* for (... : table.select<Required...>()), or view: the driver's dense    *)
(* vector is walked from its first element to the end it had at the start, *)
(* and every row is put to the filter when its turn comes.                 *)
Matches(Required, id) == is_valid(id) /\ \A C \in Required : try_get(C, id) # {}

Matching(Required) == {id \in LiveHandles : Matches(Required, id)}

Loop(op, Required, driver, end) ==
  [op |-> op, required |-> Required, driver |-> driver, pos |-> 0,
   end |-> end, yielded |-> <<>>, matched |-> Matching(Required), body |-> 0]

Select ==
  /\ Idle
  /\ \E Required \in (SUBSET Columns) \ {{}} : \E driver \in Drivers(Required) :
       call' = Loop("select", Required, driver, Len(m_columns[driver].dense))
  /\ UNCHANGED vars

(* Mutant: as many slots as there are rows.                                *)
RowsEndAlive == m_alive_count

RowsEnd == Len(m_rows)

(* for_each_row, rows(), or a select of optional columns only: the slots   *)
(* that there were at the start, if alive when their turn comes.           *)
ForEachRow ==
  /\ Idle
  /\ call' = Loop("rows", {}, "none", RowsEnd)
  /\ UNCHANGED vars

Looping == call.op \in {"select", "rows"}

Candidate == IF call.op = "rows" THEN call.pos
             ELSE At(m_columns[call.driver].dense, call.pos)

(* One turn of the loop: the element is yielded to the body or filtered.   *)
Turn ==
  /\ Looping
  /\ call.pos < call.end
  /\ LET row == Candidate
     IN  call' = [call EXCEPT
                    !.pos = @ + 1,
                    !.yielded = IF Passes(call.required, row)
                                THEN Append(@, Handle(row)) ELSE @]
  /\ UNCHANGED vars

(* What a body may do.  A range-for holds iterators into the driver's      *)
(* dense vector: a body that adds a row to the driver or takes one away    *)
(* leaves them dangling, and so does a sort.  Everything else is allowed,  *)
(* the other required columns included; slots are looked up by index, so   *)
(* that a loop over rows may insert and erase.                             *)
Body ==
  /\ Looping
  /\ call.body < MaxBody
  /\ \/ insert
     \/ \E id \in LiveHandles : erase(id)
     \/ \E id \in LiveHandles, C \in Columns : unassign(C, id)
     \/ \E id \in LiveHandles, C \in Columns, v \in Values : assign(C, id, v)
  /\ call.op = "select" =>
       m_columns'[call.driver].dense = m_columns[call.driver].dense
  /\ call' = [call EXCEPT
                !.body = @ + 1,
                !.matched = {id \in @ : /\ is_valid(id)'
                                        /\ \A C \in call.required :
                                             try_get(C, id)' # {}}]

LoopEnds == Looping /\ call.pos = call.end /\ Ends

-----------------------------------------------------------------------------
(* compute::assign_from<Out, In...>(table, op): the first pass collects    *)
(* handles and results, the second assigns them.  op is the largest input. *)
OpOf(In, id) == Max(UNION {try_get(C, id) : C \in In})

(* Mutant: rows without the output column are left out.                    *)
AssignFromPresent ==
  /\ Idle
  /\ \E Out \in Columns : \E In \in (SUBSET (Columns \ {Out})) \ {{}} :
       \E driver \in Drivers(In) :
         LET rows == select(In \cup {Out}, driver)
         IN  call' = [op |-> "assign_from", Out |-> Out, In |-> In, before |-> Cells,
                      results |-> [i \in DOMAIN rows |->
                        <<Handle(rows[i]), OpOf(In, Handle(rows[i]))>>]]
  /\ UNCHANGED vars

AssignFrom ==
  /\ Idle
  /\ \E Out \in Columns : \E In \in (SUBSET (Columns \ {Out})) \ {{}} :
       \E driver \in Drivers(In) :
         LET rows == select(In, driver)
         IN  call' = [op |-> "assign_from", Out |-> Out, In |-> In, before |-> Cells,
                      results |-> [i \in DOMAIN rows |->
                        <<Handle(rows[i]), OpOf(In, Handle(rows[i]))>>]]
  /\ UNCHANGED vars

AssignNext ==
  /\ call.op = "assign_from"
  /\ call.results # <<>>
  /\ assign(call.Out, Head(call.results)[1], Head(call.results)[2])
  /\ call' = [call EXCEPT !.results = Tail(@)]

AssignFromEnds == call.op = "assign_from" /\ call.results = <<>> /\ Ends

(* timeseries::for_each_dirty<C> with a callback that cleans the row: a    *)
(* value is a mask, 0 is a clean one.                                      *)
is_any_dirty(C, r) == get(m_columns[C], r) # 0

ForEachDirty ==
  /\ Idle
  /\ \E C \in Columns : call' = [op |-> "for_each_dirty", C |-> C, pos |-> 0,
                                 before |-> Cells]
  /\ UNCHANGED vars

(* Mutant: a row that was cleaned is taken for gone, and the next skipped. *)
DirtyTurnSkips ==
  /\ call.op = "for_each_dirty"
  /\ call.pos < Len(m_columns[call.C].dense)
  /\ LET row   == At(m_columns[call.C].dense, call.pos)
         dirty == Passes({call.C}, row) /\ is_any_dirty(call.C, row)
     IN  /\ IF dirty THEN assign(call.C, Handle(row), 0) ELSE UNCHANGED vars
         /\ call' = [call EXCEPT !.pos = IF dirty /\ @ + 1 < Len(m_columns[call.C].dense)
                                         THEN @ + 2 ELSE @ + 1]

DirtyTurn ==
  /\ call.op = "for_each_dirty"
  /\ call.pos < Len(m_columns[call.C].dense)
  /\ LET row == At(m_columns[call.C].dense, call.pos)
     IN  IF Passes({call.C}, row) /\ is_any_dirty(call.C, row)
         THEN assign(call.C, Handle(row), 0)
         ELSE UNCHANGED vars
  /\ call' = [call EXCEPT !.pos = @ + 1]

DirtyEnds ==
  /\ call.op = "for_each_dirty"
  /\ call.pos = Len(m_columns[call.C].dense)
  /\ Ends

CallNext ==
  \/ Single
  \/ InsertBatch \/ BatchInsert \/ BatchOverflow \/ BatchInserted
  \/ AssignBatch \/ BatchSkip \/ BatchAssign \/ BatchAssigned
  \/ Select \/ ForEachRow \/ Turn \/ Body \/ LoopEnds
  \/ AssignFrom \/ AssignNext \/ AssignFromEnds
  \/ ForEachDirty \/ DirtyTurn \/ DirtyEnds

CallSpec == CallInit /\ [][CallNext]_callVars

-----------------------------------------------------------------------------
(* A slot that no insert can hand out: taken, or retired for good.         *)
Taken(i) == /\ i \in Slots
            /\ At(m_rows, i).alive \/ At(m_rows, i).generation = max_generation

(* insert_batch hands out one new row per handle, and no other row comes   *)
(* or goes, in the step that throws overflow_error neither: what it leaves *)
(* behind are the rows whose handles are lost, which rows() still finds.   *)
(* It throws only when no index is left that an insert could hand out.     *)
InsertBatchAdds ==
  [][call.op = "insert_batch" =>
       LET ids == IF call' = None THEN call.ids ELSE call'.ids
       IN  /\ IsInjective(ids)
           /\ ToSet(ids) \cap call.before = {}
           /\ LiveHandles' = call.before \cup ToSet(ids)
           /\ call' = None /\ call.left > 0 => \A i \in Index : Taken(i)']_callVars

(* assign_batch leaves each row with the last value given for it; a handle *)
(* that is not valid uses its value up and changes nothing ("Middle row    *)
(* invalid; its input value must be consumed but not applied").            *)
AssignBatchExact ==
  call.op = "assign_batch" /\ call.k > Len(call.ids) =>
    Cells = [id \in DOMAIN call.before |-> [C \in Columns |->
               IF C = call.C /\ id \in ToSet(call.ids)
               THEN {call.values[Max({k \in DOMAIN call.ids : call.ids[k] = id})]}
               ELSE call.before[id][C]]]

(* What a loop hands to its body is a valid handle with a value behind     *)
(* every required reference, whatever earlier bodies did to the table: the *)
(* filter is asked when the row's turn comes, not when select was called.  *)
YieldsMatching ==
  [][Looping /\ call'.op = call.op /\ call'.yielded # call.yielded
     => Matches(call.required, Last(call'.yielded))]_callVars

(* A loop visits no row twice, and misses none that matched all along.     *)
LoopComplete ==
  Looping => /\ IsInjective(call.yielded)
             /\ call.pos = call.end => call.matched \subseteq ToSet(call.yielded)

(* assign_from gives the output column to exactly the rows that have every *)
(* input, from the inputs they had when it was called.                     *)
AssignFromExact ==
  call.op = "assign_from" /\ call.results = <<>> =>
    Cells = [id \in DOMAIN call.before |-> [C \in Columns |->
               IF C = call.Out /\ \A D \in call.In : call.before[id][D] # {}
               THEN {Max(UNION {call.before[id][D] : D \in call.In})}
               ELSE call.before[id][C]]]

(* for_each_dirty visits every row whose mask is dirty: with a callback    *)
(* that cleans, none is left, and nothing else has changed.                *)
DirtyVisited ==
  call.op = "for_each_dirty" /\ call.pos = Len(m_columns[call.C].dense) =>
    Cells = [id \in DOMAIN call.before |-> [C \in Columns |->
               IF C = call.C /\ call.before[id][C] # {} THEN {0}
               ELSE call.before[id][C]]]
=============================================================================
