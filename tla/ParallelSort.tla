---------------------------- MODULE ParallelSort ----------------------------
(***************************************************************************)
(* One call of sort_by_column_parallel (include/soatable/soatable.hpp) and *)
(* of the serial sort it falls back to: the calling thread computes a row  *)
(* order, starts one task per column but the last, reorders the last       *)
(* column itself and joins the tasks.  column_vector's reorder is taken    *)
(* apart here: it moves elements out one by one, and an allocation or an   *)
(* element's move may throw before it replaces the three vectors.          *)
(***************************************************************************)
EXTENDS ColumnVector

CONSTANTS ColumnCount,      \* columns are numbered in declaration order
          MovedFrom,        \* what a moved-out std::string, say, holds
          MaxFaults         \* bound: exceptions raised during the call

ASSUME ColumnCountAssumption == ColumnCount \in Nat \ {0, 1}
ASSUME MovedFromAssumption   == MovedFrom \in Int \ Values
ASSUME FaultsAssumption      == MaxFaults \in Nat

VARIABLES m_columns,     \* the columns of the table
          key,           \* the column to sort by
          serial,        \* few rows or one hardware thread: no tasks
          sorted_rows,   \* the row order all reorders read
          caller,        \* the calling thread: what it does, at which column
          worker,        \* column -> how far its reorder is, and its new_data
          faults,        \* exceptions raised so far
          before         \* history: the columns when the call was made

vars == <<m_columns, key, serial, sorted_rows, caller, worker, faults, before>>

ColumnIds == 1 .. ColumnCount

-----------------------------------------------------------------------------
(* The tables a call may find: every column was filled row by row, and     *)
(* outside of the key column a value is told by its row.                   *)

RowOrders == SetToAllKPermutations(Index)

Filled(rows, value) ==
  LET upto[i \in 0 .. Len(rows)] ==
        IF i = 0 THEN EmptyColumn
        ELSE emplace(upto[i - 1], rows[i], value[rows[i]])
  IN  upto[Len(rows)]

KeyColumns   == {Filled(rows, value) : rows \in RowOrders,
                                       value \in [Index -> Values]}
OtherColumns == {Filled(rows, [r \in Index |-> r]) : rows \in RowOrders}

Idle == [pc |-> "idle", new_data |-> <<>>]

Init ==
  /\ key \in ColumnIds
  /\ \E k \in KeyColumns, others \in [ColumnIds -> OtherColumns] :
       m_columns = [others EXCEPT ![key] = k]
  /\ serial = FALSE
  /\ sorted_rows = <<>>
  /\ caller = [pc |-> "call", at |-> 1]
  /\ worker = [k \in ColumnIds |-> Idle]
  /\ faults = 0
  /\ before = m_columns

-----------------------------------------------------------------------------
(* reorder of one column, by whichever thread runs it.                     *)

Fault == faults < MaxFaults /\ faults' = faults + 1

WorkerAt(k, pc) == worker' = [worker EXCEPT ![k].pc = pc]

(* The rows that reorder moves, in their new order: new_dense.             *)
NewDense(k) == Kept(sorted_rows, RowsIn(m_columns[k]))

(* A reorder that throws has changed nothing but the elements it moved.     *)
Throws(k) == WorkerAt(k, "failed") /\ Fault /\ UNCHANGED m_columns

Moved(k) == Len(worker[k].new_data)

(* new_data.reserve or new_dense.reserve throws, before the first move.    *)
ReserveThrows(k) == Moved(k) = 0 /\ Throws(k)

(* One turn of the loop that moves a value: the old element is hollow.     *)
MoveOne(k) ==
  LET slot == At(m_columns[k].sparse, NewDense(k)[Moved(k) + 1])
  IN  /\ Moved(k) < Len(NewDense(k))
      /\ worker' = [worker EXCEPT ![k].new_data =
                      Append(@, At(m_columns[k].data, slot))]
      /\ m_columns' = [m_columns EXCEPT ![k].data = Put(@, slot, MovedFrom)]
      /\ UNCHANGED faults

(* An element's move constructor, or the allocation of a tile, throws.     *)
MoveThrows(k) ==
  /\ Moved(k) < Len(NewDense(k))
  /\ Throws(k)

(* Mutant: the old data stay.                                              *)
CommittedStaleData(k) ==
  [reorder(m_columns[k], sorted_rows) EXCEPT !.data = m_columns[k].data]

(* What the three move assignments at the end of reorder leave.            *)
Committed(k) ==
  [reorder(m_columns[k], sorted_rows) EXCEPT !.data = worker[k].new_data]

(* After the loop the sparse vector is allocated and filled, then the      *)
(* three vectors are replaced.                                             *)
Commit(k) ==
  /\ Moved(k) = Len(NewDense(k))
  /\ m_columns' = [m_columns EXCEPT ![k] = Committed(k)]
  /\ worker' = [worker EXCEPT ![k] = [pc |-> "done", new_data |-> <<>>]]
  /\ UNCHANGED faults

(* The allocation of the sparse vector throws.                             *)
RebuildThrows(k) ==
  /\ Moved(k) = Len(NewDense(k))
  /\ Throws(k)

Running(k)  == worker[k].pc = "running"
Finished(k) == worker[k].pc \in {"done", "failed"}

ReorderStep(k) ==
  /\ Running(k)
  /\ \/ ReserveThrows(k) \/ MoveOne(k) \/ MoveThrows(k)
     \/ Commit(k) \/ RebuildThrows(k)
  /\ UNCHANGED <<key, serial, sorted_rows, caller, before>>

-----------------------------------------------------------------------------
(* The calling thread.                                                     *)

Caller(pc, at) == caller' = [pc |-> pc, at |-> at]

Start(k) == worker' = [worker EXCEPT ![k].pc = "running"]

(* The row order is that of the rows that have the key; equal values come  *)
(* in any order.  Whether to sort serially depends on the number of alive  *)
(* rows and on the machine.                                                *)
ComputeOrder ==
  LET pool == m_columns[key]
  IN  /\ caller.pc = "call"
      /\ \E order \in SetToSeqs(ToSet(pool.dense)) :
           /\ \A i, j \in DOMAIN order :
                i < j => ~(get(pool, order[j]) < get(pool, order[i]))
           /\ sorted_rows' = order
      /\ serial' \in BOOLEAN
      /\ Caller("dispatch", 1)
      /\ UNCHANGED <<m_columns, key, worker, faults, before>>

(* Copying the rows, comparing values or reserving the futures throws.     *)
OrderThrows ==
  /\ caller.pc = "call"
  /\ Fault
  /\ Caller("threw", 1)
  /\ UNCHANGED <<m_columns, key, serial, sorted_rows, worker, before>>

(* std::async starts the task of a column, or throws system_error.         *)
Launch ==
  /\ caller.pc = "dispatch"
  /\ ~serial /\ caller.at < ColumnCount
  /\ \/ /\ Start(caller.at)
        /\ Caller("dispatch", caller.at + 1)
        /\ UNCHANGED faults
     \/ /\ Caller("unwind", caller.at)
        /\ Fault
        /\ UNCHANGED worker
  /\ UNCHANGED <<m_columns, key, serial, sorted_rows, before>>

(* The calling thread reorders a column itself: the last one, or when      *)
(* serial each in turn.                                                    *)
OwnColumn ==
  /\ caller.pc = "dispatch"
  /\ serial \/ caller.at = ColumnCount
  /\ Start(caller.at)
  /\ Caller("reorder", caller.at)
  /\ UNCHANGED <<m_columns, key, serial, sorted_rows, faults, before>>

OwnColumnEnds ==
  /\ caller.pc = "reorder"
  /\ Finished(caller.at)
  /\ IF worker[caller.at].pc = "failed" THEN Caller("unwind", caller.at)
     ELSE IF caller.at < ColumnCount THEN Caller("dispatch", caller.at + 1)
     ELSE Caller(IF serial THEN "leave" ELSE "join", 1)
  /\ UNCHANGED <<m_columns, key, serial, sorted_rows, worker, faults, before>>

(* Two mutants of Join: it waits for the tasks instead of getting their    *)
(* results; it asks the same future for ever.                              *)
JoinWaits ==
  /\ caller.pc = "join"
  /\ \/ /\ caller.at < ColumnCount
        /\ Finished(caller.at)
        /\ Caller("join", caller.at + 1)
     \/ /\ caller.at = ColumnCount
        /\ Caller("leave", caller.at)
  /\ UNCHANGED <<m_columns, key, serial, sorted_rows, worker, faults, before>>

JoinStuck ==
  /\ caller.pc = "join"
  /\ \/ caller.at < ColumnCount /\ UNCHANGED caller
     \/ caller.at = ColumnCount /\ Caller("leave", caller.at)
  /\ UNCHANGED <<m_columns, key, serial, sorted_rows, worker, faults, before>>

(* future.get(), one task after the other: rethrows what the task threw.   *)
Join ==
  /\ caller.pc = "join"
  /\ \/ /\ caller.at < ColumnCount
        /\ Finished(caller.at)
        /\ IF worker[caller.at].pc = "failed"
           THEN Caller("unwind", caller.at)
           ELSE Caller("join", caller.at + 1)
     \/ /\ caller.at = ColumnCount
        /\ Caller("leave", caller.at)
  /\ UNCHANGED <<m_columns, key, serial, sorted_rows, worker, faults, before>>

(* Mutant: sorted_rows is declared after the futures, hence destroyed      *)
(* before they wait.                                                       *)
TasksNotJoined == TRUE

(* The futures' destructors block until every started task has ended.      *)
TasksJoined == \A k \in 1 .. ColumnCount - 1 : ~Running(k)

(* The scope ends, by return or by exception: the futures are destroyed,   *)
(* then sorted_rows.                                                       *)
EndScope ==
  /\ caller.pc \in {"leave", "unwind"}
  /\ TasksJoined
  /\ Caller(IF caller.pc = "leave" THEN "returned" ELSE "threw", caller.at)
  /\ sorted_rows' = <<>>
  /\ UNCHANGED <<m_columns, key, serial, worker, faults, before>>

CallerStep == \/ ComputeOrder \/ OrderThrows \/ Launch \/ OwnColumn
              \/ OwnColumnEnds \/ Join \/ EndScope

CallOver == caller.pc \in {"returned", "threw"}

Over == CallOver /\ UNCHANGED vars

Next == \/ CallerStep
        \/ \E k \in ColumnIds : ReorderStep(k)
        \/ Over

(* The calling thread and every started task are scheduled again and       *)
(* again: they are threads of the operating system (launch::async).        *)
Spec == /\ Init /\ [][Next]_vars
        /\ WF_vars(CallerStep)
        /\ \A k \in ColumnIds : WF_vars(ReorderStep(k))

-----------------------------------------------------------------------------
(* No column's three vectors are mutually inconsistent.                    *)
ColumnsConsistent == \A k \in ColumnIds : SparseSet(m_columns[k])

(* The tasks hold references to sorted_rows and to the columns: none may   *)
(* outlive the call, whichever thread threw, and whatever threw first.     *)
TasksWithinCall == CallOver => \A k \in ColumnIds : ~Running(k)

(* The key column's values in a column are in order.                       *)
InOrder(c) == \A i, j \in DOMAIN c.data : i < j => c.data[i] <= c.data[j]

(* A call that returns has done what the serial sort does, in every        *)
(* interleaving: no failure of a task is swallowed, the key column is in   *)
(* order, and every column is reordered by the key column's row order.     *)
ReturnSorts ==
  caller.pc = "returned" =>
    /\ InOrder(m_columns[key])
    /\ \A k \in ColumnIds :
         m_columns[k] = reorder(before[k], m_columns[key].dense)

(* Whatever throws and whenever, the columns stay consistent (reorder's    *)
(* documented guarantee), and a call that throws leaves each as it was, or *)
(* sorted, or, if its own reorder threw, with its rows where they were and *)
(* some of its values moved out: one column's failure costs no other       *)
(* column its values.                                                      *)
FailureContained ==
  /\ ColumnsConsistent
  /\ caller.pc = "threw" =>
      \A k \in ColumnIds :
        \/ m_columns[k] = before[k]
        \/ /\ worker[k].pc = "done"
           /\ \A r \in RowsIn(m_columns[k]) :
                get(m_columns[k], r) = get(before[k], r)
        \/ /\ worker[k].pc = "failed"
           /\ m_columns[k].dense = before[k].dense
           /\ \A r \in RowsIn(before[k]) :
                get(m_columns[k], r) \in {get(before[k], r), MovedFrom}

(* The call comes to an end: no failure leaves the calling thread waiting  *)
(* for a task that never ran, or the tasks for each other.                 *)
CallEnds == <>CallOver
=============================================================================
