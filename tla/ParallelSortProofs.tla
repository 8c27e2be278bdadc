-------------------------- MODULE ParallelSortProofs --------------------------
(***************************************************************************)
(* Proofs about the threads of sort_by_column_parallel, for any number of  *)
(* columns, rows and exceptions, and in every interleaving: no task is     *)
(* left running when the call is over, a call that returns has sorted, and *)
(* one that throws has left consistent columns that lost nothing but in a  *)
(* reorder that threw.                                                     *)
(***************************************************************************)
EXTENDS ParallelSort, ColumnVectorProofs

Pcs == {"call", "dispatch", "reorder", "join", "leave", "unwind", "returned", "threw"}

WorkPcs == {"idle", "running", "done", "failed"}

ThreadsOK ==
  /\ caller.pc \in Pcs
  /\ caller.pc # "call" => caller.at \in ColumnIds
  /\ DOMAIN worker = ColumnIds
  /\ \A k \in ColumnIds : /\ worker[k].pc \in WorkPcs
                          /\ worker[k] = [pc |-> worker[k].pc,
                                          new_data |-> worker[k].new_data]

(* The futures are of the columns before the last.  The last column has no *)
(* future to wait for it: it is reordered by the calling thread, which is  *)
(* then nowhere else.                                                      *)
LastIsOwn ==
  worker[ColumnCount].pc = "running"
    => caller.pc = "reorder" /\ caller.at = ColumnCount

(* Nothing runs before the row order is there.                             *)
NotYet == caller.pc = "call" => \A k \in ColumnIds : worker[k].pc = "idle"

IInv == ThreadsOK /\ LastIsOwn /\ NotYet /\ TasksWithinCall

-----------------------------------------------------------------------------
(* The step of a reorder keeps it running or ends it.                      *)
LEMMA ReorderStepKeeps ==
  ASSUME IInv, NEW k \in ColumnIds, ReorderStep(k)
  PROVE  IInv'
<1>1. /\ worker[k].pc = "running" /\ caller' = caller
      /\ k \in DOMAIN worker
      /\ worker[k] = [pc |-> worker[k].pc, new_data |-> worker[k].new_data]
  BY DEF ReorderStep, Running, IInv, ThreadsOK
<1>2. ~CallOver
  BY <1>1 DEF IInv, TasksWithinCall, Running
<1>3. \E pc \in {"running", "done", "failed"} : \E data :
        worker' = [worker EXCEPT ![k] = [pc |-> pc, new_data |-> data]]
  <2>1. CASE ReserveThrows(k) \/ MoveThrows(k) \/ RebuildThrows(k)
    <3>1. worker' = [worker EXCEPT ![k].pc = "failed"]
      BY <2>1 DEF ReserveThrows, MoveThrows, RebuildThrows, Throws, WorkerAt
    <3>2. worker' = [worker EXCEPT ![k] = [pc |-> "failed", new_data |-> worker[k].new_data]]
      <4>1. [worker[k] EXCEPT !.pc = "failed"] = [pc |-> "failed", new_data |-> worker[k].new_data]
        BY <1>1
      <4> QED
        BY <3>1, <4>1
    <3> QED
      BY <3>2
  <2>2. CASE MoveOne(k)
    <3> DEFINE data == Append(worker[k].new_data,
                              At(m_columns[k].data,
                                 At(m_columns[k].sparse, NewDense(k)[Moved(k) + 1])))
    <3>1. worker' = [worker EXCEPT ![k].new_data = data]
      BY <2>2 DEF MoveOne
    <3> HIDE DEF data
    <3>2. [worker[k] EXCEPT !.new_data = data] = [pc |-> "running", new_data |-> data]
      BY <1>1
    <3>3. worker' = [worker EXCEPT ![k] = [pc |-> "running", new_data |-> data]]
      BY <3>1, <3>2
    <3> QED
      BY <3>3
  <2>3. CASE Commit(k)
    BY <2>3 DEF Commit
  <2> QED
    BY <2>1, <2>2, <2>3 DEF ReorderStep
<1>4. PICK pc \in {"running", "done", "failed"} : \E data :
        worker' = [worker EXCEPT ![k] = [pc |-> pc, new_data |-> data]]
  BY <1>3
<1>5. PICK data : worker' = [worker EXCEPT ![k] = [pc |-> pc, new_data |-> data]]
  BY <1>4
<1>6. /\ DOMAIN worker' = ColumnIds
      /\ worker'[k] = [pc |-> pc, new_data |-> data]
      /\ \A j \in ColumnIds : j # k => worker'[j] = worker[j]
  BY <1>1, <1>5 DEF IInv, ThreadsOK
<1>7. ThreadsOK'
  <2>1. pc \in WorkPcs
    BY DEF WorkPcs
  <2> QED
    BY <1>1, <1>6, <2>1 DEF IInv, ThreadsOK
<1>8. LastIsOwn'
  <2>1. ColumnCount \in ColumnIds
    BY ColumnCountAssumption DEF ColumnIds
  <2> QED
    BY <1>1, <1>6, <2>1 DEF IInv, LastIsOwn
<1>9. TasksWithinCall' /\ NotYet'
  BY <1>1, <1>2 DEF TasksWithinCall, CallOver, IInv, NotYet
<1> QED
  BY <1>7, <1>8, <1>9 DEF IInv

(* Starting the reorder of a column.                                       *)
LEMMA StartIs ==
  ASSUME IInv, NEW k \in ColumnIds, Start(k)
  PROVE  /\ DOMAIN worker' = ColumnIds
         /\ \A j \in ColumnIds :
              /\ worker'[j].pc = IF j = k THEN "running" ELSE worker[j].pc
              /\ worker'[j] = [pc |-> worker'[j].pc, new_data |-> worker'[j].new_data]
<1>1. /\ DOMAIN worker = ColumnIds
      /\ \A j \in ColumnIds : worker[j] = [pc |-> worker[j].pc,
                                           new_data |-> worker[j].new_data]
  BY DEF IInv, ThreadsOK
<1>2. [worker[k] EXCEPT !.pc = "running"] = [pc |-> "running", new_data |-> worker[k].new_data]
  BY <1>1
<1>3. worker' = [worker EXCEPT ![k] = [pc |-> "running", new_data |-> worker[k].new_data]]
  BY <1>2 DEF Start
<1> QED
  BY <1>1, <1>3

(* Each step of the caller.                                                *)
LEMMA CallerStepKeeps == IInv /\ CallerStep => IInv'
<1> SUFFICES ASSUME IInv, CallerStep PROVE IInv'
  OBVIOUS
<1> USE DEF Caller, Pcs
<1>0. /\ ColumnCount \in Nat /\ ColumnCount > 1 /\ 1 \in ColumnIds /\ ColumnCount \in ColumnIds
      /\ ColumnIds = 1 .. ColumnCount
  BY ColumnCountAssumption DEF ColumnIds
<1>1. CASE ComputeOrder \/ OrderThrows
  <2>1. /\ caller.pc = "call" /\ worker' = worker
        /\ caller' \in {[pc |-> "dispatch", at |-> 1], [pc |-> "threw", at |-> 1]}
    BY <1>1 DEF ComputeOrder, OrderThrows
  <2>2. \A k \in ColumnIds : worker'[k].pc = "idle"
    BY <2>1 DEF IInv, NotYet
  <2>3. ThreadsOK'
    BY <1>0, <2>1 DEF IInv, ThreadsOK
  <2>4. LastIsOwn' /\ NotYet' /\ TasksWithinCall'
    BY <1>0, <2>1, <2>2 DEF LastIsOwn, NotYet, TasksWithinCall, Running
  <2> QED
    BY <2>3, <2>4 DEF IInv
<1>2. ASSUME NEW k \in ColumnIds, Start(k), NEW pc \in {"dispatch", "reorder"},
             NEW at \in ColumnIds, Caller(pc, at), caller.pc = "dispatch",
             k = ColumnCount => pc = "reorder" /\ at = ColumnCount
      PROVE  IInv'
  <2>1. ThreadsOK'
    BY <1>2, StartIs DEF IInv, ThreadsOK, WorkPcs
  <2>2. worker[ColumnCount].pc # "running"
    BY <1>2 DEF IInv, LastIsOwn
  <2>3. LastIsOwn'
    BY <1>0, <1>2, <2>2, StartIs DEF LastIsOwn
  <2>4. NotYet' /\ TasksWithinCall'
    BY <1>2 DEF NotYet, TasksWithinCall, CallOver
  <2> QED
    BY <2>1, <2>3, <2>4 DEF IInv
<1>3. ASSUME worker' = worker, caller.pc \notin {"call", "returned", "threw"},
             NEW pc \in Pcs \ {"call", "returned", "threw"}, NEW at \in ColumnIds,
             Caller(pc, at), worker[ColumnCount].pc # "running"
      PROVE  IInv'
  <2>1. ThreadsOK'
    BY <1>3 DEF IInv, ThreadsOK
  <2>2. LastIsOwn' /\ NotYet' /\ TasksWithinCall'
    BY <1>3 DEF LastIsOwn, NotYet, TasksWithinCall, CallOver
  <2> QED
    BY <2>1, <2>2 DEF IInv
<1>4. CASE Launch
  <2>1. /\ caller.pc = "dispatch" /\ caller.at \in ColumnIds /\ caller.at < ColumnCount
        /\ caller.at + 1 \in ColumnIds
        /\ worker[ColumnCount].pc # "running"
    BY <1>0, <1>4 DEF Launch, IInv, ThreadsOK, LastIsOwn
  <2>2. CASE Start(caller.at) /\ Caller("dispatch", caller.at + 1)
    BY <1>0, <1>2, <2>1, <2>2
  <2>3. CASE Caller("unwind", caller.at) /\ UNCHANGED worker
    BY <1>3, <2>1, <2>3
  <2> QED
    BY <1>4, <2>2, <2>3 DEF Launch
<1>5. CASE OwnColumn
  <2>1. /\ caller.pc = "dispatch" /\ caller.at \in ColumnIds
        /\ Start(caller.at) /\ Caller("reorder", caller.at)
    BY <1>5 DEF OwnColumn, IInv, ThreadsOK
  <2> QED
    BY <1>2, <2>1
<1>6. CASE OwnColumnEnds
  <2>1. /\ caller.pc = "reorder" /\ caller.at \in ColumnIds /\ worker' = worker
        /\ worker[caller.at].pc # "running"
    BY <1>6 DEF OwnColumnEnds, IInv, ThreadsOK, Finished
  <2>2. worker[ColumnCount].pc # "running"
    BY <2>1 DEF IInv, LastIsOwn
  <2>3. \/ Caller("unwind", caller.at)
        \/ caller.at < ColumnCount /\ Caller("dispatch", caller.at + 1)
        \/ Caller("leave", 1)
        \/ Caller("join", 1)
    BY <1>6 DEF OwnColumnEnds
  <2>4. caller.at < ColumnCount => caller.at + 1 \in ColumnIds
    BY <1>0, <2>1
  <2> QED
    BY <1>0, <1>3, <2>1, <2>2, <2>3, <2>4
<1>7. CASE Join
  <2>1. /\ caller.pc = "join" /\ caller.at \in ColumnIds /\ worker' = worker
        /\ worker[ColumnCount].pc # "running"
    BY <1>7 DEF Join, IInv, ThreadsOK, LastIsOwn
  <2>2. \/ Caller("unwind", caller.at)
        \/ caller.at < ColumnCount /\ Caller("join", caller.at + 1)
        \/ Caller("leave", caller.at)
    BY <1>7 DEF Join
  <2>3. caller.at < ColumnCount => caller.at + 1 \in ColumnIds
    BY <1>0, <2>1
  <2> QED
    BY <1>3, <2>1, <2>2, <2>3
<1>8. CASE EndScope
  <2>1. /\ caller.pc \in {"leave", "unwind"} /\ TasksJoined /\ worker' = worker
        /\ caller.at \in ColumnIds
        /\ \/ Caller("returned", caller.at)
           \/ Caller("threw", caller.at)
    BY <1>8 DEF EndScope, IInv, ThreadsOK
  <2>2. worker[ColumnCount].pc # "running"
    BY <2>1 DEF IInv, LastIsOwn
  <2>3. \A k \in ColumnIds : k \in 1 .. ColumnCount - 1 \/ k = ColumnCount
    BY <1>0
  <2>4. \A k \in ColumnIds : worker[k].pc # "running"
    BY <2>1, <2>2, <2>3 DEF TasksJoined, Running
  <2>5. ThreadsOK'
    BY <2>1 DEF IInv, ThreadsOK
  <2>6. LastIsOwn' /\ NotYet' /\ TasksWithinCall'
    BY <1>0, <2>1, <2>4 DEF LastIsOwn, NotYet, TasksWithinCall, Running
  <2> QED
    BY <2>5, <2>6 DEF IInv
<1> QED
  BY <1>1, <1>4, <1>5, <1>6, <1>7, <1>8 DEF CallerStep

(* The inductive invariant holds in every reachable state.                 *)
THEOREM Invariance == Spec => []IInv
<1>1. Init => IInv
  <2> SUFFICES ASSUME Init PROVE IInv
    OBVIOUS
  <2>1. /\ caller = [pc |-> "call", at |-> 1] /\ DOMAIN worker = ColumnIds
        /\ \A k \in ColumnIds : worker[k] = [pc |-> "idle", new_data |-> <<>>]
        /\ ColumnCount \in ColumnIds
    BY ColumnCountAssumption DEF Init, Idle, ColumnIds
  <2> QED
    BY <2>1
       DEF IInv, ThreadsOK, LastIsOwn, NotYet, TasksWithinCall, CallOver, Pcs, WorkPcs
<1>2. IInv /\ [Next]_vars => IInv'
  <2>1. IInv /\ UNCHANGED vars => IInv'
    BY DEF vars, IInv, ThreadsOK, LastIsOwn, NotYet, TasksWithinCall, CallOver, Running
  <2> QED
    BY <2>1, ReorderStepKeeps, CallerStepKeeps DEF Next, Over
<1> QED
  BY <1>1, <1>2, PTL DEF Spec

(* The tasks refer to the row order and to the columns, and the last       *)
(* column to the calling thread: none runs when the call is over.          *)
THEOREM NoTaskOutlives == Spec => []TasksWithinCall
<1>1. IInv => TasksWithinCall
  BY DEF IInv
<1> QED
  BY <1>1, Invariance, PTL
-----------------------------------------------------------------------------
(* What is in the columns.                                                 *)

(* A cell holds a value, or the number of its row where only the row tells *)
(* a value from another, or what a move leaves behind.                     *)
Cells == Values \cup Index \cup {MovedFrom}

Col == INSTANCE ColumnVectorProofs WITH Values <- Cells

(* The columns of cells are read and written by the same operators.        *)
LEMMA SameOperators ==
  /\ Cells \subseteq Int /\ npos \in Nat \ {0}
  /\ Col!Index = Index /\ Col!IndexOrNpos = IndexOrNpos
  /\ \A v, i : Col!At(v, i) = At(v, i)
  /\ \A c, r : Col!contains(c, r) <=> contains(c, r)
  /\ \A c, r : Col!get(c, r) = get(c, r)
  /\ \A c : Col!RowsIn(c) = RowsIn(c)
  /\ \A c : Col!SparseSet(c) <=> SparseSet(c)
  /\ \A s, S : Col!Kept(s, S) = Kept(s, S)
  /\ \A c, r, v : Col!emplace(c, r, v) = emplace(c, r, v)
  /\ \A c, order : Col!reorder(c, order) = reorder(c, order)
  /\ Col!EmptyColumn = EmptyColumn
  /\ \A s : Col!IsInjective(s) <=> IsInjective(s)
  /\ \A s : Col!ToSet(s) = ToSet(s)
<1>1. Cells \subseteq Int /\ npos \in Nat \ {0}
  BY ValuesAssumption, NposAssumption, MovedFromAssumption DEF Cells, Index
<1>2. /\ Col!Index = Index /\ Col!IndexOrNpos = IndexOrNpos
      /\ Col!EmptyColumn = EmptyColumn
  BY DEF Index, Col!Index, IndexOrNpos, Col!IndexOrNpos, EmptyColumn, Col!EmptyColumn
<1>3. \A v, i : Col!At(v, i) = At(v, i)
  BY DEF At, Col!At
<1>4. \A c, r : Col!contains(c, r) <=> contains(c, r)
  BY DEF contains, Col!contains, At, Col!At
<1>5. \A c, r : Col!get(c, r) = get(c, r)
  BY DEF get, Col!get, At, Col!At
<1>6. \A c : Col!RowsIn(c) = RowsIn(c)
  BY <1>2, <1>4 DEF RowsIn, Col!RowsIn
<1>7. \A c : Col!SparseSet(c) <=> SparseSet(c)
  BY <1>2, <1>3, <1>4 DEF SparseSet, Col!SparseSet
<1>8. \A s, S : Col!Kept(s, S) = Kept(s, S)
  BY DEF Kept, Col!Kept
<1>9. \A c, r, v : Col!emplace(c, r, v) = emplace(c, r, v)
  BY DEF emplace, Col!emplace, At, Col!At, Put, Col!Put, Resized, Col!Resized
<1>10. ASSUME NEW c, NEW order
       PROVE  Col!reorder(c, order) = reorder(c, order)
  BY <1>5, <1>6, <1>8 DEF reorder, Col!reorder
<1>11. /\ \A s : Col!IsInjective(s) <=> IsInjective(s)
       /\ \A s : Col!ToSet(s) = ToSet(s)
  BY DEF IsInjective, Col!IsInjective, ToSet, Col!ToSet
<1> QED
  BY <1>1, <1>2, <1>3, <1>4, <1>5, <1>6, <1>7, <1>8, <1>9, <1>10, <1>11

(* What ColumnVectorProofs says of columns of values, for columns of cells. *)
LEMMA CellsEmplaced ==
  ASSUME NEW c \in Col!Column, SparseSet(c), NEW r \in Index, NEW v \in Cells
  PROVE  emplace(c, r, v) \in Col!Column /\ SparseSet(emplace(c, r, v))
<1>1. Cells \subseteq Int /\ npos \in Nat \ {0} /\ Col!SparseSet(c) /\ r \in Col!Index
  BY SameOperators
<1> HIDE DEF Cells
<1>2. /\ Col!emplace(c, r, v) \in Col!Column
      /\ Col!SparseSet(Col!emplace(c, r, v))
  BY <1>1, Col!EmplaceCorrect
<1> QED
  BY <1>2, SameOperators

(* reorder keeps the cells of the rows in its order.                       *)
LEMMA CellsReordered ==
  ASSUME NEW c \in Col!Column, SparseSet(c),
         NEW order \in Seq(Index), IsInjective(order)
  PROVE  /\ reorder(c, order) \in Col!Column /\ SparseSet(reorder(c, order))
         /\ RowsIn(reorder(c, order)) = RowsIn(c) \cap ToSet(order)
         /\ \A q \in RowsIn(c) \cap ToSet(order) :
              get(reorder(c, order), q) = get(c, q)
<1>1. /\ Cells \subseteq Int /\ npos \in Nat \ {0} /\ Col!SparseSet(c)
      /\ Col!Index = Index /\ Col!IsInjective(order)
  BY SameOperators
<1>2. order \in Seq(Col!Index)
  BY <1>1
<1> HIDE DEF Cells
<1> DEFINE g == Col!reorder(c, order)
<1>3. /\ g \in Col!Column /\ Col!SparseSet(g)
      /\ Col!RowsIn(g) = Col!RowsIn(c) \cap Col!ToSet(order)
      /\ \A q \in Col!RowsIn(c) \cap Col!ToSet(order) : Col!get(g, q) = Col!get(c, q)
  BY <1>1, <1>2, Col!ReorderCorrect
<1>4. g = reorder(c, order)
  BY SameOperators
<1> HIDE DEF g
<1>5. /\ SparseSet(g) /\ Col!RowsIn(g) = RowsIn(g) /\ Col!RowsIn(c) = RowsIn(c)
      /\ Col!ToSet(order) = ToSet(order)
      /\ \A q : Col!get(g, q) = get(g, q) /\ Col!get(c, q) = get(c, q)
  BY <1>3, SameOperators
<1> QED
  BY <1>3, <1>4, <1>5

(* Every place of a column is the place of one of its rows.                *)
LEMMA CellsAreAt ==
  ASSUME NEW c \in Col!Column, SparseSet(c)
  PROVE  /\ c.sparse \in Seq(IndexOrNpos) /\ c.dense \in Seq(Index)
         /\ c.data \in Seq(Cells) /\ Len(c.data) = Len(c.dense)
         /\ c = [sparse |-> c.sparse, dense |-> c.dense, data |-> c.data]
         /\ Len(c.dense) \in Nat
         /\ \A r \in RowsIn(c) : /\ At(c.sparse, r) \in 0 .. Len(c.dense) - 1
                                 /\ At(c.dense, At(c.sparse, r)) = r
                                 /\ get(c, r) \in Int
         /\ ToSet(c.dense) \subseteq RowsIn(c)
<1>1. /\ Cells \subseteq Int /\ npos \in Nat \ {0} /\ Col!SparseSet(c)
      /\ Col!Index = Index /\ Col!IndexOrNpos = IndexOrNpos
      /\ \A v, i : Col!At(v, i) = At(v, i)
      /\ \A r : Col!contains(c, r) <=> contains(c, r)
  BY SameOperators
<1> HIDE DEF Cells
<1>2. /\ Len(c.dense) \in Nat /\ Len(c.data) = Len(c.dense)
      /\ \A q \in Col!Index : Col!contains(c, q) =>
           /\ Col!At(c.sparse, q) \in 0 .. Len(c.dense) - 1
           /\ Col!At(c.dense, Col!At(c.sparse, q)) = q
      /\ \A d \in 0 .. Len(c.dense) - 1 :
           Col!At(c.dense, d) \in Col!Index /\ Col!contains(c, Col!At(c.dense, d))
  BY <1>1, Col!ColumnFacts
<1>3. /\ c.sparse \in Seq(IndexOrNpos) /\ c.dense \in Seq(Index) /\ c.data \in Seq(Cells)
      /\ c = [sparse |-> c.sparse, dense |-> c.dense, data |-> c.data]
  BY <1>1 DEF Col!Column
<1>4. \A r \in RowsIn(c) : /\ At(c.sparse, r) \in 0 .. Len(c.dense) - 1
                           /\ At(c.dense, At(c.sparse, r)) = r
  <2>1. \A r \in Index : contains(c, r) =>
           /\ At(c.sparse, r) \in 0 .. Len(c.dense) - 1
           /\ At(c.dense, At(c.sparse, r)) = r
    BY <1>1, <1>2
  <2> QED
    BY <2>1 DEF RowsIn
<1>5. ASSUME NEW r \in RowsIn(c)
      PROVE  get(c, r) \in Int
  <2>1. c.data \in Seq(Cells) /\ At(c.sparse, r) \in 0 .. Len(c.data) - 1
    BY <1>2, <1>3, <1>4
  <2>2. At(c.data, At(c.sparse, r)) \in Cells
    BY <2>1, VectorAt
  <2> QED
    BY <1>1, <2>2 DEF get
<1>6. ASSUME NEW r \in ToSet(c.dense)
      PROVE  r \in RowsIn(c)
  <2>1. PICK i \in 1 .. Len(c.dense) : c.dense[i] = r
    BY <1>3, LenProperties DEF ToSet
  <2>2. i - 1 \in 0 .. Len(c.dense) - 1 /\ (i - 1) + 1 = i
    BY <1>2
  <2>3. At(c.dense, i - 1) = r
    BY <2>1, <2>2 DEF At
  <2>4. r \in Index /\ contains(c, r)
    BY <1>1, <1>2, <2>2, <2>3
  <2> QED
    BY <2>4 DEF RowsIn
<1> QED
  BY <1>2, <1>3, <1>4, <1>5, <1>6

(* A row order names rows of the index space.                              *)
LEMMA RowOrdersAre ==
  ASSUME NEW S \in SUBSET Index, NEW order \in SetToSeqs(S)
  PROVE  /\ order \in Seq(Index) /\ Len(order) \in Nat
         /\ DOMAIN order = 1 .. Len(order)
         /\ \A i \in 1 .. Len(order) : order[i] \in S
         /\ IsInjective(order)
<1>1. IsFiniteSet(S) /\ Cardinality(S) \in Nat
  <2>1. IsFiniteSet(Index)
    BY NposAssumption, FS_Interval DEF Index
  <2> QED
    BY <2>1, FS_Subset, FS_CardinalityType
<1>2. /\ order \in [1 .. Cardinality(S) -> S]
      /\ \A i, j \in 1 .. Cardinality(S) : i # j => order[i] # order[j]
  BY DEF SetToSeqs
<1>3. order \in Seq(S) /\ Len(order) = Cardinality(S)
  BY <1>1, <1>2, FunctionIsVector
<1>4. order \in Seq(Index)
  <2>1. order \in [1 .. Cardinality(S) -> Index]
    BY <1>2
  <2> QED
    BY <1>1, <2>1, FunctionIsVector
<1>5. IsInjective(order)
  BY <1>2 DEF IsInjective
<1> QED
  BY <1>1, <1>2, <1>3, <1>4, <1>5

(* The loop that fills a column defines a function on the rows.            *)
LEMMA FilledRecursion ==
  ASSUME NEW rows \in Seq(Index), NEW value
  PROVE  \E f : /\ f = [i \in 0 .. Len(rows) |->
                          IF i = 0 THEN EmptyColumn
                          ELSE emplace(f[i - 1], rows[i], value[rows[i]])]
                /\ Filled(rows, value) = f[Len(rows)]
<1> DEFINE Step(f, i) == IF i = 0 THEN EmptyColumn
                         ELSE emplace(f[i - 1], rows[i], value[rows[i]])
           Rec(f, n) == f = [i \in 0 .. n |-> Step(f, i)]
           bad == {n \in Nat : ~\E f : Rec(f, n)}
<1>1. Len(rows) \in Nat
  BY LenProperties
<1>2. bad = {}
  <2>1. SUFFICES ASSUME bad # {} PROVE FALSE
    OBVIOUS
  <2>2. PICK m \in bad : \A k \in bad : m <= k
    <3>1. bad \subseteq Nat
      OBVIOUS
    <3> HIDE DEF bad
    <3> QED
      BY <2>1, <3>1, LeastNatural
  <2>3. m \in Nat
    OBVIOUS
  <2>4. CASE m = 0
    <3> DEFINE f == [i \in 0 .. 0 |-> EmptyColumn]
    <3>1. Rec(f, 0)
      OBVIOUS
    <3> QED
      BY <2>4, <3>1
  <2>5. CASE m # 0
    <3>1. m - 1 \in Nat /\ m - 1 \notin bad
      <4> HIDE DEF bad
      <4> QED
        BY <2>2, <2>3, <2>5
    <3>2. PICK f : Rec(f, m - 1)
      BY <3>1
    <3> DEFINE g == [i \in 0 .. m |-> Step(f, i)]
    <3>3. \A i \in 0 .. m - 1 : g[i] = f[i]
      <4> HIDE DEF Step
      <4>1. \A i \in 0 .. m - 1 : i \in 0 .. m /\ f[i] = Step(f, i)
        BY <2>3, <3>2
      <4> QED
        BY <4>1
    <3>4. \A i \in 0 .. m : Step(g, i) = Step(f, i)
      <4>1. \A i \in 0 .. m : i # 0 => i - 1 \in 0 .. m - 1
        BY <2>3
      <4> HIDE DEF g
      <4> QED
        BY <3>3, <4>1
    <3>5. Rec(g, m)
      BY <3>4
    <3> QED
      BY <3>5
  <2> QED
    BY <2>4, <2>5
<1>3. \E f : Rec(f, Len(rows))
  BY <1>1, <1>2
<1>4. Rec(CHOOSE f : Rec(f, Len(rows)), Len(rows))
  BY <1>3
<1>5. Filled(rows, value) = (CHOOSE f : Rec(f, Len(rows)))[Len(rows)]
  BY DEF Filled
<1> QED
  BY <1>4, <1>5

(* Emplacing rows one by one yields a consistent column.                   *)
LEMMA FilledIsConsistent ==
  ASSUME NEW rows \in Seq(Index), NEW value \in [Index -> Cells]
  PROVE  Filled(rows, value) \in Col!Column /\ SparseSet(Filled(rows, value))
<1> DEFINE n == Len(rows)
           Good(c) == c \in Col!Column /\ SparseSet(c)
<1>1. n \in Nat /\ \A i \in 1 .. n : rows[i] \in Index
  BY LenProperties, ElementOfSeq
<1>2. PICK f : /\ f = [i \in 0 .. n |->
                         IF i = 0 THEN EmptyColumn
                         ELSE emplace(f[i - 1], rows[i], value[rows[i]])]
               /\ Filled(rows, value) = f[n]
  BY FilledRecursion
<1> HIDE DEF n
<1>3. f[0] = EmptyColumn
  <2>1. 0 \in 0 .. n
    BY <1>1
  <2> QED
    BY <1>2, <2>1
<1>4. ASSUME NEW i \in 1 .. n
      PROVE  f[i] = emplace(f[i - 1], rows[i], value[rows[i]])
  <2>1. i \in 0 .. n /\ i # 0
    BY <1>1
  <2> QED
    BY <1>2, <2>1
<1>5. Good(f[0])
  BY <1>3, SameOperators, Col!EmptyColumnConsistent
<1>6. ASSUME NEW i \in 1 .. n, Good(f[i - 1])
      PROVE  Good(f[i])
  <2>1. rows[i] \in Index /\ value[rows[i]] \in Cells
    BY <1>1
  <2> HIDE DEF Cells
  <2> QED
    BY <1>4, <1>6, <2>1, CellsEmplaced
<1> HIDE DEF Good
<1>7. Good(f[n])
  <2> DEFINE bad == {i \in 0 .. n : ~Good(f[i])}
  <2>1. SUFFICES ASSUME bad # {} PROVE FALSE
    BY <1>1
  <2>2. bad \subseteq Nat
    BY <1>1
  <2>3. PICK m \in bad : \A k \in bad : m <= k
    <3> HIDE DEF bad
    <3> QED
      BY <2>1, <2>2, LeastNatural
  <2>4. m # 0
    BY <1>5, <2>3
  <2>5. m \in 1 .. n /\ m - 1 \in 0 .. n /\ ~(m <= m - 1)
    BY <1>1, <2>3, <2>4
  <2>6. Good(f[m - 1])
    BY <2>3, <2>5
  <2> QED
    BY <1>6, <2>3, <2>5, <2>6
<1> QED
  BY <1>2, <1>7 DEF Good

-----------------------------------------------------------------------------
(* A reorder under way.                                                    *)

(* The column b is being reordered: m is what is in its place, and moved   *)
(* what has been moved out of it.  The rows stay where they were, and a    *)
(* value not yet moved is still there.                                     *)
Halfway(b, order, m, moved) ==
  LET dense == Kept(order, RowsIn(b))
  IN  /\ moved \in Seq(Cells) /\ Len(moved) <= Len(dense)
      /\ \A i \in 1 .. Len(moved) : moved[i] = get(b, dense[i])
      /\ \E data \in Seq(Cells) :
           /\ m = [sparse |-> b.sparse, dense |-> b.dense, data |-> data]
           /\ Len(data) = Len(b.data)
           /\ \A j \in 0 .. Len(data) - 1 : At(data, j) \in {At(b.data, j), MovedFrom}
           /\ \A i \in Len(moved) + 1 .. Len(dense) :
                At(data, At(b.sparse, dense[i])) = get(b, dense[i])

(* The rows that a reorder moves.                                          *)
LEMMA RowsToMove ==
  ASSUME NEW b \in Col!Column, SparseSet(b),
         NEW order \in Seq(Index), IsInjective(order)
  PROVE  LET dense == Kept(order, RowsIn(b))
         IN  /\ dense \in Seq(Index) /\ Len(dense) \in Nat
             /\ \A i \in 1 .. Len(dense) :
                  /\ dense[i] \in RowsIn(b)
                  /\ At(b.sparse, dense[i]) \in 0 .. Len(b.data) - 1
             /\ \A i, j \in 1 .. Len(dense) :
                  At(b.sparse, dense[i]) = At(b.sparse, dense[j]) => i = j
<1> DEFINE dense == Kept(order, RowsIn(b))
<1>1. /\ dense \in Seq(Index) /\ IsInjective(dense)
      /\ ToSet(dense) = ToSet(order) \cap RowsIn(b)
  BY KeptCorrect
<1> HIDE DEF dense
<1>2. Len(dense) \in Nat /\ DOMAIN dense = 1 .. Len(dense)
  BY <1>1, LenProperties
<1>3. \A i \in 1 .. Len(dense) : dense[i] \in RowsIn(b)
  BY <1>1, <1>2 DEF ToSet
<1>4. /\ Len(b.data) = Len(b.dense)
      /\ \A r \in RowsIn(b) : /\ At(b.sparse, r) \in 0 .. Len(b.dense) - 1
                              /\ At(b.dense, At(b.sparse, r)) = r
  BY CellsAreAt
<1>5. \A i, j \in 1 .. Len(dense) :
        At(b.sparse, dense[i]) = At(b.sparse, dense[j]) => i = j
  <2>1. ASSUME NEW i \in 1 .. Len(dense), NEW j \in 1 .. Len(dense),
               At(b.sparse, dense[i]) = At(b.sparse, dense[j])
        PROVE  i = j
    <3>1. dense[i] = dense[j]
      BY <1>3, <1>4, <2>1
    <3> QED
      BY <1>1, <1>2, <3>1 DEF IsInjective
  <2> QED
    BY <2>1
<1> QED
  BY <1>1, <1>2, <1>3, <1>4, <1>5 DEF dense

(* Before the first move nothing has happened.                             *)
LEMMA HalfwayStarts ==
  ASSUME NEW b \in Col!Column, SparseSet(b),
         NEW order \in Seq(Index), IsInjective(order)
  PROVE  Halfway(b, order, b, <<>>)
<1> DEFINE dense == Kept(order, RowsIn(b))
<1>1. Len(dense) \in Nat
  BY RowsToMove
<1>2. /\ b.data \in Seq(Cells)
      /\ b = [sparse |-> b.sparse, dense |-> b.dense, data |-> b.data]
  BY CellsAreAt
<1> HIDE DEF dense
<1>3. <<>> \in Seq(Cells) /\ Len(<<>>) = 0 /\ 0 <= Len(dense)
  BY <1>1, EmptySeq
<1>4. \A i \in 1 .. 0 : FALSE
  OBVIOUS
<1>5. \A i : At(b.data, At(b.sparse, dense[i])) = get(b, dense[i])
  BY DEF get
<1> DEFINE data == b.data
<1> HIDE DEF data
<1>6. /\ b = [sparse |-> b.sparse, dense |-> b.dense, data |-> data]
      /\ data \in Seq(Cells) /\ Len(data) = Len(b.data)
      /\ \A j \in 0 .. Len(data) - 1 : At(data, j) \in {At(b.data, j), MovedFrom}
      /\ \A i : At(data, At(b.sparse, dense[i])) = get(b, dense[i])
  BY <1>2, <1>5 DEF data
<1>7. \E x \in Seq(Cells) :
        /\ b = [sparse |-> b.sparse, dense |-> b.dense, data |-> x]
        /\ Len(x) = Len(b.data)
        /\ \A j \in 0 .. Len(x) - 1 : At(x, j) \in {At(b.data, j), MovedFrom}
        /\ \A i \in Len(<<>>) + 1 .. Len(dense) :
             At(x, At(b.sparse, dense[i])) = get(b, dense[i])
  BY ONLY <1>6
<1> QED
  BY <1>3, <1>4, <1>7 DEF Halfway, dense

(* One turn of the loop moves one value.                                   *)
LEMMA HalfwayMoves ==
  ASSUME NEW b \in Col!Column, SparseSet(b),
         NEW order \in Seq(Index), IsInjective(order),
         NEW m, NEW moved, Halfway(b, order, m, moved),
         NEW slot, Len(moved) < Len(Kept(order, RowsIn(b))),
         slot = At(b.sparse, Kept(order, RowsIn(b))[Len(moved) + 1])
  PROVE  /\ At(m.sparse, Kept(order, RowsIn(b))[Len(moved) + 1]) = slot
         /\ Halfway(b, order, [m EXCEPT !.data = Put(@, slot, MovedFrom)],
                    Append(moved, At(m.data, slot)))
<1> DEFINE dense == Kept(order, RowsIn(b))
           n     == Len(moved)
<1>1. /\ dense \in Seq(Index) /\ Len(dense) \in Nat
      /\ \A i \in 1 .. Len(dense) :
           /\ dense[i] \in RowsIn(b)
           /\ At(b.sparse, dense[i]) \in 0 .. Len(b.data) - 1
      /\ \A i, j \in 1 .. Len(dense) :
           At(b.sparse, dense[i]) = At(b.sparse, dense[j]) => i = j
  BY RowsToMove
<1>2. /\ moved \in Seq(Cells) /\ n <= Len(dense)
      /\ \A i \in 1 .. n : moved[i] = get(b, dense[i])
  BY DEF Halfway
<1>3. PICK data \in Seq(Cells) :
        /\ m = [sparse |-> b.sparse, dense |-> b.dense, data |-> data]
        /\ Len(data) = Len(b.data)
        /\ \A j \in 0 .. Len(data) - 1 : At(data, j) \in {At(b.data, j), MovedFrom}
        /\ \A i \in n + 1 .. Len(dense) :
             At(data, At(b.sparse, dense[i])) = get(b, dense[i])
  BY DEF Halfway
<1>4. slot = At(b.sparse, dense[n + 1]) /\ n < Len(dense)
  OBVIOUS
<1>5. n \in Nat /\ n + 1 \in 1 .. Len(dense) /\ n + 1 \in n + 1 .. Len(dense)
  BY <1>1, <1>2, <1>4, LenProperties
<1>6. MovedFrom \in Cells
  BY DEF Cells
<1> DEFINE e == Append(moved, At(data, slot))
           x == Put(data, slot, MovedFrom)
<1> HIDE DEF dense, Cells
<1>7. /\ slot \in 0 .. Len(data) - 1 /\ At(data, slot) = get(b, dense[n + 1])
      /\ At(data, slot) \in Cells
  <2>1. slot \in 0 .. Len(data) - 1
    BY <1>1, <1>3, <1>4, <1>5
  <2>2. At(data, slot) = get(b, dense[n + 1])
    BY <1>3, <1>4, <1>5
  <2> QED
    BY <2>1, <2>2, VectorAt
<1>8. /\ e \in Seq(Cells) /\ Len(e) = n + 1
      /\ \A i \in 1 .. n : e[i] = moved[i]
      /\ e[n + 1] = At(data, slot)
  BY <1>2, <1>7, AppendProperties
<1>9. /\ x \in Seq(Cells) /\ Len(x) = Len(data)
      /\ At(x, slot) = MovedFrom
      /\ \A j \in 0 .. Len(data) - 1 : j # slot => At(x, j) = At(data, j)
  <2>0. data \in Seq(Cells) /\ slot \in 0 .. Len(data) - 1 /\ MovedFrom \in Cells
    BY <1>6, <1>7
  <2>1. x \in Seq(Cells)
    BY ONLY <2>0, VectorPut
  <2>2. Len(x) = Len(data)
    BY ONLY <2>0, VectorPut
  <2>3. At(x, slot) = MovedFrom
    BY ONLY <2>0, VectorPut
  <2>4. \A j \in 0 .. Len(data) - 1 : j # slot => At(x, j) = At(data, j)
    BY ONLY <2>0, VectorPut
  <2> QED
    BY <2>1, <2>2, <2>3, <2>4
<1>10. /\ m.sparse = b.sparse /\ m.data = data
       /\ [m EXCEPT !.data = Put(@, slot, MovedFrom)]
            = [sparse |-> b.sparse, dense |-> b.dense, data |-> x]
  BY <1>3
<1> HIDE DEF e, x, n
<1>11. \A i \in 1 .. Len(e) : e[i] = get(b, dense[i])
  <2>1. \A i \in 1 .. n + 1 : i \in 1 .. n \/ i = n + 1
    BY <1>5
  <2> QED
    BY <1>2, <1>7, <1>8, <2>1
<1>12. \A j \in 0 .. Len(x) - 1 : At(x, j) \in {At(b.data, j), MovedFrom}
  BY <1>3, <1>9
<1>13. \A i \in Len(e) + 1 .. Len(dense) :
         At(x, At(b.sparse, dense[i])) = get(b, dense[i])
  <2>1. ASSUME NEW i \in n + 2 .. Len(dense)
        PROVE  At(x, At(b.sparse, dense[i])) = get(b, dense[i])
    <3>1. i \in 1 .. Len(dense) /\ i \in n + 1 .. Len(dense) /\ i # n + 1
      BY <1>1, <1>5
    <3>2. At(b.sparse, dense[i]) # slot
      BY <1>1, <1>4, <1>5, <3>1
    <3>3. At(b.sparse, dense[i]) \in 0 .. Len(data) - 1
      BY <1>1, <1>3, <3>1
    <3> QED
      BY <1>3, <1>9, <3>1, <3>2, <3>3
  <2>2. Len(e) + 1 = n + 2
    BY <1>5, <1>8
  <2> QED
    BY <2>1, <2>2
<1>14. Len(e) <= Len(dense)
  BY <1>1, <1>4, <1>5, <1>8
<1>15. \E y \in Seq(Cells) :
        /\ [m EXCEPT !.data = Put(@, slot, MovedFrom)]
             = [sparse |-> b.sparse, dense |-> b.dense, data |-> y]
        /\ Len(y) = Len(b.data)
        /\ \A j \in 0 .. Len(y) - 1 : At(y, j) \in {At(b.data, j), MovedFrom}
        /\ \A i \in Len(e) + 1 .. Len(dense) :
             At(y, At(b.sparse, dense[i])) = get(b, dense[i])
  BY <1>3, <1>9, <1>10, <1>12, <1>13
<1>16. Halfway(b, order, [m EXCEPT !.data = Put(@, slot, MovedFrom)], e)
  BY <1>8, <1>11, <1>14, <1>15 DEF Halfway, dense
<1> QED
  BY <1>4, <1>10, <1>16 DEF e, dense, n

(* Half way a column has its rows where they were, and of each row the     *)
(* value or what the move left.                                            *)
LEMMA HalfwayIsConsistent ==
  ASSUME NEW b \in Col!Column, SparseSet(b), NEW order,
         NEW m, NEW moved, Halfway(b, order, m, moved)
  PROVE  /\ SparseSet(m) /\ m.dense = b.dense /\ RowsIn(m) = RowsIn(b)
         /\ m.sparse = b.sparse
         /\ \A r \in RowsIn(b) : get(m, r) \in {get(b, r), MovedFrom}
<1>1. PICK data \in Seq(Cells) :
        /\ m = [sparse |-> b.sparse, dense |-> b.dense, data |-> data]
        /\ Len(data) = Len(b.data)
        /\ \A j \in 0 .. Len(data) - 1 : At(data, j) \in {At(b.data, j), MovedFrom}
  BY DEF Halfway
<1>2. m.sparse = b.sparse /\ m.dense = b.dense /\ m.data = data
  BY <1>1
<1>3. \A r : contains(m, r) <=> contains(b, r)
  BY <1>2 DEF contains
<1>4. RowsIn(m) = RowsIn(b)
  BY <1>3 DEF RowsIn
<1>5. SparseSet(m)
  BY <1>1, <1>2, <1>3 DEF SparseSet
<1>6. ASSUME NEW r \in RowsIn(b)
      PROVE  get(m, r) \in {get(b, r), MovedFrom}
  <2>1. At(b.sparse, r) \in 0 .. Len(data) - 1
    BY <1>1, CellsAreAt
  <2> QED
    BY <1>1, <1>2, <2>1 DEF get
<1> QED
  BY <1>2, <1>4, <1>5, <1>6

(* After the last move the three vectors are what reorder makes of the     *)
(* column as it was.                                                       *)
LEMMA HalfwayCommits ==
  ASSUME NEW b \in Col!Column, SparseSet(b),
         NEW order \in Seq(Index), IsInjective(order),
         NEW m, NEW moved, Halfway(b, order, m, moved),
         Len(moved) = Len(Kept(order, RowsIn(b)))
  PROVE  [reorder(m, order) EXCEPT !.data = moved] = reorder(b, order)
<1> DEFINE dense == Kept(order, RowsIn(b))
<1>1. m.sparse = b.sparse /\ RowsIn(m) = RowsIn(b)
  BY HalfwayIsConsistent
<1>2. /\ moved \in Seq(Cells) /\ Len(moved) = Len(dense)
      /\ \A i \in 1 .. Len(moved) : moved[i] = get(b, dense[i])
  BY DEF Halfway
<1>3. moved = [i \in 1 .. Len(dense) |-> get(b, dense[i])]
  <2>1. moved = [i \in 1 .. Len(moved) |-> moved[i]]
    BY <1>2, LenProperties
  <2> HIDE DEF dense
  <2> QED
    BY <1>2, <2>1
<1> DEFINE sparse == [k \in 1 .. Len(b.sparse) |->
                        IF \E i \in 1 .. Len(dense) : dense[i] = k - 1
                        THEN (CHOOSE i \in 1 .. Len(dense) : dense[i] = k - 1) - 1
                        ELSE npos]
<1>4. reorder(b, order)
        = [sparse |-> sparse, dense |-> dense,
           data |-> [i \in 1 .. Len(dense) |-> get(b, dense[i])]]
  BY DEF reorder
<1>5. reorder(m, order)
        = [sparse |-> sparse, dense |-> dense,
           data |-> [i \in 1 .. Len(dense) |-> get(m, dense[i])]]
  BY <1>1 DEF reorder
<1> HIDE DEF sparse, dense
<1>6. ASSUME NEW x
      PROVE  [[sparse |-> sparse, dense |-> dense, data |-> x] EXCEPT !.data = moved]
               = [sparse |-> sparse, dense |-> dense, data |-> moved]
  OBVIOUS
<1> QED
  BY ONLY <1>3, <1>4, <1>5, <1>6

(* The row order of a sort: rows of the key column, by their keys.         *)
Sorted(order) ==
  /\ order \in Seq(Index) /\ IsInjective(order)
  /\ \A i \in 1 .. Len(order) : order[i] \in RowsIn(before[key])
  /\ \A i, j \in 1 .. Len(order) :
       i < j => get(before[key], order[i]) <= get(before[key], order[j])

(* What a column is by how far its reorder is.                             *)
ColumnIs(k, order) ==
  /\ worker[k].pc = "idle" =>
       m_columns[k] = before[k] /\ worker[k].new_data = <<>>
  /\ worker[k].pc \in {"running", "failed"} =>
       Halfway(before[k], order, m_columns[k], worker[k].new_data)
  /\ worker[k].pc = "done" => m_columns[k] = reorder(before[k], order)

(* How far the columns are by where the calling thread is.                 *)
Progress ==
  /\ caller.pc = "dispatch" =>
       \A k \in ColumnIds :
         k >= caller.at => worker[k].pc = "idle"
  /\ caller.pc = "reorder" =>
       \A k \in ColumnIds : k > caller.at => worker[k].pc = "idle"
  /\ caller.pc \in {"dispatch", "reorder"} /\ serial =>
       \A k \in ColumnIds : k < caller.at => worker[k].pc = "done"
  /\ caller.pc = "join" =>
       /\ worker[ColumnCount].pc = "done"
       /\ \A k \in ColumnIds : k < caller.at => worker[k].pc = "done"
  /\ caller.pc \in {"leave", "returned"} =>
       \A k \in ColumnIds : worker[k].pc = "done"

Ordered(order) ==
  /\ Sorted(order)
  /\ caller.pc \notin {"call", "returned", "threw"} => sorted_rows = order
  /\ \A k \in ColumnIds : ColumnIs(k, order)

SortInv ==
  /\ key \in ColumnIds /\ DOMAIN m_columns = ColumnIds
  /\ \A k \in ColumnIds : before[k] \in Col!Column /\ SparseSet(before[k])
  /\ Progress
  /\ \E order : Ordered(order)

(* A column whose reorder moves on.                                        *)
LEMMA ColumnMovesOn ==
  ASSUME SortInv, ThreadsOK, NEW k \in ColumnIds, worker[k].pc = "running",
         UNCHANGED <<key, serial, sorted_rows, caller, before>>,
         NEW pc \in {"running", "done", "failed"}, NEW data, NEW m, NEW order,
         Ordered(order),
         worker' = [worker EXCEPT ![k] = [pc |-> pc, new_data |-> data]],
         DOMAIN m_columns' = ColumnIds, m_columns'[k] = m,
         \A j \in ColumnIds : j # k => m_columns'[j] = m_columns[j],
         pc \in {"running", "failed"} => Halfway(before[k], order, m, data),
         pc = "done" => m = reorder(before[k], order)
  PROVE  SortInv'
<1>1. /\ DOMAIN worker = ColumnIds /\ DOMAIN m_columns = ColumnIds
      /\ \A j \in ColumnIds : ColumnIs(j, order)
      /\ ColumnCount \in ColumnIds
  BY ColumnCountAssumption DEF SortInv, ThreadsOK, Ordered, ColumnIds
<1>2. /\ DOMAIN m_columns' = ColumnIds
      /\ worker'[k].pc = pc /\ worker'[k].new_data = data /\ m_columns'[k] = m
      /\ \A j \in ColumnIds : j # k => worker'[j] = worker[j] /\ m_columns'[j] = m_columns[j]
  BY <1>1
<1>3. Sorted(order)'
  BY DEF Ordered, Sorted
<1>4. ASSUME NEW j \in ColumnIds
      PROVE  ColumnIs(j, order)'
  <2>1. CASE j = k
    BY <1>2, <2>1 DEF ColumnIs
  <2>2. CASE j # k
    BY <1>1, <1>2, <2>2 DEF ColumnIs
  <2> QED
    BY <2>1, <2>2
<1>5. Progress'
  BY <1>1, <1>2 DEF SortInv, Progress
<1>6. Ordered(order)'
  BY <1>3, <1>4 DEF Ordered
<1>7. /\ key' \in ColumnIds
      /\ \A j \in ColumnIds : before'[j] \in Col!Column /\ SparseSet(before'[j])
  BY DEF SortInv
<1> QED
  BY <1>2, <1>5, <1>6, <1>7 DEF SortInv

(* A step of a reorder, by whichever thread runs it.                       *)
LEMMA ReorderStepSorts ==
  ASSUME SortInv, IInv, NEW k \in ColumnIds, ReorderStep(k)
  PROVE  SortInv'
<1>1. /\ worker[k].pc = "running" /\ k \in DOMAIN worker /\ k \in DOMAIN m_columns
      /\ worker[k] = [pc |-> worker[k].pc, new_data |-> worker[k].new_data]
      /\ UNCHANGED <<key, serial, sorted_rows, caller, before>>
      /\ ThreadsOK
  BY DEF ReorderStep, Running, IInv, ThreadsOK, SortInv
<1>2. caller.pc \notin {"call", "returned", "threw"}
  BY <1>1 DEF IInv, TasksWithinCall, CallOver, Running, NotYet
<1>3. PICK order : Ordered(order)
  BY DEF SortInv
<1> DEFINE b     == before[k]
           m     == m_columns[k]
           moved == worker[k].new_data
<1>4. /\ order \in Seq(Index) /\ IsInjective(order) /\ sorted_rows = order
      /\ b \in Col!Column /\ SparseSet(b)
      /\ Halfway(b, order, m, moved)
  BY <1>1, <1>2, <1>3 DEF Ordered, Sorted, ColumnIs, SortInv
<1>5. m.sparse = b.sparse /\ RowsIn(m) = RowsIn(b)
  BY <1>4, HalfwayIsConsistent
<1>6. NewDense(k) = Kept(order, RowsIn(b)) /\ Moved(k) = Len(moved)
  BY <1>4, <1>5 DEF NewDense, Moved
<1>7. DOMAIN m_columns = ColumnIds
  BY DEF SortInv
<1>8. CASE ReserveThrows(k) \/ MoveThrows(k) \/ RebuildThrows(k)
  <2>1. worker' = [worker EXCEPT ![k].pc = "failed"] /\ m_columns' = m_columns
    BY <1>8 DEF ReserveThrows, MoveThrows, RebuildThrows, Throws, WorkerAt
  <2>2. [worker[k] EXCEPT !.pc = "failed"] = [pc |-> "failed", new_data |-> moved]
    BY <1>1
  <2>3. worker' = [worker EXCEPT ![k] = [pc |-> "failed", new_data |-> moved]]
    BY <2>1, <2>2
  <2>4. /\ DOMAIN m_columns' = ColumnIds /\ m_columns'[k] = m
        /\ \A j \in ColumnIds : j # k => m_columns'[j] = m_columns[j]
    BY <1>7, <2>1
  <2> HIDE DEF b, m, moved
  <2>5. Halfway(before[k], order, m, moved)
    BY <1>4 DEF b
  <2> QED
    BY <1>1, <1>3, <2>3, <2>4, <2>5, ColumnMovesOn
<1>9. CASE MoveOne(k)
  <2> DEFINE slot == At(m.sparse, NewDense(k)[Moved(k) + 1])
             data == Append(moved, At(m.data, slot))
             c    == [m EXCEPT !.data = Put(@, slot, MovedFrom)]
  <2>1. /\ Moved(k) < Len(NewDense(k))
        /\ worker' = [worker EXCEPT ![k].new_data = data]
        /\ m_columns' = [m_columns EXCEPT ![k] = c]
    BY <1>9 DEF MoveOne
  <2>2. slot = At(b.sparse, Kept(order, RowsIn(b))[Len(moved) + 1])
    BY <1>5, <1>6
  <2>3. Halfway(b, order, c, data)
    <3> HIDE DEF b, m, moved, slot
    <3> QED
      BY <1>4, <1>6, <2>1, <2>2, HalfwayMoves
  <2>4. [worker[k] EXCEPT !.new_data = data] = [pc |-> "running", new_data |-> data]
    <3> HIDE DEF data
    <3> QED
      BY <1>1
  <2>5. worker' = [worker EXCEPT ![k] = [pc |-> "running", new_data |-> data]]
    <3> HIDE DEF data
    <3> QED
      BY <2>1, <2>4
  <2> HIDE DEF c, data, m, moved
  <2>6. Halfway(before[k], order, c, data)
    BY <2>3 DEF b
  <2>7. /\ DOMAIN m_columns' = ColumnIds /\ m_columns'[k] = c
        /\ \A j \in ColumnIds : j # k => m_columns'[j] = m_columns[j]
    BY <1>1, <1>7, <2>1
  <2> QED
    BY <1>1, <1>3, <2>5, <2>6, <2>7, ColumnMovesOn
<1>10. CASE Commit(k)
  <2>1. /\ Moved(k) = Len(NewDense(k))
        /\ m_columns' = [m_columns EXCEPT ![k] = Committed(k)]
        /\ worker' = [worker EXCEPT ![k] = [pc |-> "done", new_data |-> <<>>]]
    BY <1>10 DEF Commit
  <2>2. Committed(k) = [reorder(m, order) EXCEPT !.data = moved]
    BY <1>4 DEF Committed
  <2>3. Committed(k) = reorder(b, order)
    <3> HIDE DEF b, m, moved
    <3> QED
      BY <1>4, <1>6, <2>1, <2>2, HalfwayCommits
  <2> DEFINE c == Committed(k)
  <2> HIDE DEF c, m, moved
  <2>4. /\ c = reorder(before[k], order)
        /\ DOMAIN m_columns' = ColumnIds /\ m_columns'[k] = c
        /\ \A j \in ColumnIds : j # k => m_columns'[j] = m_columns[j]
    BY <1>1, <1>7, <2>1, <2>3 DEF b, c
  <2> DEFINE pc   == "done"
             data == <<>>
  <2>5. /\ worker' = [worker EXCEPT ![k] = [pc |-> pc, new_data |-> data]]
        /\ pc \in {"running", "done", "failed"} /\ pc \notin {"running", "failed"}
    BY <2>1
  <2> HIDE DEF pc, data
  <2>6. /\ pc \in {"running", "failed"} => Halfway(before[k], order, c, data)
        /\ pc = "done" => c = reorder(before[k], order)
    BY <2>4, <2>5
  <2>7. /\ DOMAIN m_columns' = ColumnIds /\ m_columns'[k] = c
        /\ \A j \in ColumnIds : j # k => m_columns'[j] = m_columns[j]
    BY <2>4
  <2> QED
    BY <1>1, <1>3, <2>5, <2>6, <2>7, ColumnMovesOn
<1> QED
  BY <1>8, <1>9, <1>10 DEF ReorderStep

(* A step of the calling thread that touches no column.                    *)
LEMMA ColumnsStay ==
  ASSUME SortInv, UNCHANGED <<key, m_columns, before>>, Progress',
         NEW order, Sorted(order),
         caller'.pc \notin {"call", "returned", "threw"} => sorted_rows' = order,
         \A k \in ColumnIds : ColumnIs(k, order)'
  PROVE  SortInv'
<1>1. Sorted(order)'
  BY DEF Sorted
<1>2. Ordered(order)'
  BY <1>1 DEF Ordered
<1> QED
  BY <1>2 DEF SortInv

(* A step of the calling thread.                                           *)
LEMMA CallerStepSorts ==
  ASSUME SortInv, IInv, CallerStep
  PROVE  SortInv'
<1>0. /\ ColumnCount \in Nat /\ ColumnCount > 1 /\ ColumnIds = 1 .. ColumnCount
      /\ caller.pc # "call" => caller.at \in ColumnIds
      /\ DOMAIN worker = ColumnIds
      /\ \A k \in ColumnIds : worker[k] = [pc |-> worker[k].pc,
                                           new_data |-> worker[k].new_data]
  BY ColumnCountAssumption DEF ColumnIds, IInv, ThreadsOK
<1> USE DEF Caller
<1>1. ASSUME NEW order, Ordered(order), worker' = worker,
             UNCHANGED <<key, m_columns, before>>, Progress',
             \/ caller.pc \notin {"call", "returned", "threw"} /\ sorted_rows' = sorted_rows
             \/ caller'.pc \in {"returned", "threw"}
      PROVE  SortInv'
  <2>1. \A k \in ColumnIds : ColumnIs(k, order)'
    BY <1>1 DEF Ordered, ColumnIs
  <2>2. /\ Sorted(order)
        /\ caller'.pc \notin {"call", "returned", "threw"} => sorted_rows' = order
    BY <1>1 DEF Ordered
  <2> QED
    BY <1>1, <2>1, <2>2, ColumnsStay
<1>2. ASSUME NEW k \in ColumnIds, Start(k), worker[k].pc = "idle",
             NEW order, Ordered(order), Progress', sorted_rows' = sorted_rows,
             UNCHANGED <<key, m_columns, before>>,
             caller.pc = "dispatch"
      PROVE  SortInv'
  <2>1. Sorted(order) /\ sorted_rows' = order /\ \A j \in ColumnIds : ColumnIs(j, order)
    BY <1>2 DEF Ordered
  <2>2. [worker[k] EXCEPT !.pc = "running"] = [pc |-> "running", new_data |-> <<>>]
    BY <1>0, <1>2, <2>1 DEF ColumnIs
  <2>3. worker' = [worker EXCEPT ![k] = [pc |-> "running", new_data |-> <<>>]]
    BY <1>2, <2>2 DEF Start
  <2>4. /\ worker'[k].pc = "running" /\ worker'[k].new_data = <<>>
        /\ \A j \in ColumnIds : j # k => worker'[j] = worker[j]
    BY <1>0, <2>3
  <2>5. Halfway(before[k], order, m_columns[k], <<>>)
    <3>1. m_columns[k] = before[k] /\ before[k] \in Col!Column /\ SparseSet(before[k])
      BY <1>2, <2>1 DEF ColumnIs, SortInv
    <3>2. order \in Seq(Index) /\ IsInjective(order)
      BY <2>1 DEF Sorted
    <3> QED
      BY <3>1, <3>2, HalfwayStarts
  <2>6. ASSUME NEW j \in ColumnIds
        PROVE  ColumnIs(j, order)'
    <3>1. CASE j = k
      BY <1>2, <2>4, <2>5, <3>1 DEF ColumnIs
    <3>2. CASE j # k
      BY <1>2, <2>1, <2>4, <3>2 DEF ColumnIs
    <3> QED
      BY <3>1, <3>2
  <2> QED
    BY <1>2, <2>1, <2>6, ColumnsStay
<1>3. PICK order : Ordered(order)
  BY DEF SortInv
<1>4. CASE ComputeOrder
  <2>0. PICK next : next = sorted_rows'
    OBVIOUS
  <2> DEFINE pool == m_columns[key]
  <2>1. /\ caller.pc = "call" /\ caller' = [pc |-> "dispatch", at |-> 1]
        /\ UNCHANGED <<m_columns, key, worker, faults, before>>
        /\ next \in SetToSeqs(ToSet(pool.dense))
        /\ \A i, j \in DOMAIN next :
             i < j => ~(get(pool, next[j]) < get(pool, next[i]))
    BY <1>4, <2>0 DEF ComputeOrder
  <2>2. \A k \in ColumnIds : worker[k].pc = "idle" /\ m_columns[k] = before[k]
    BY <1>3, <2>1 DEF IInv, NotYet, Ordered, ColumnIs
  <2>3. /\ pool = before[key] /\ before[key] \in Col!Column /\ SparseSet(before[key])
    BY <2>2 DEF SortInv
  <2>4. /\ ToSet(pool.dense) \subseteq RowsIn(pool)
        /\ \A r \in RowsIn(pool) : get(pool, r) \in Int
    <3> HIDE DEF pool
    <3> QED
      BY <2>3, CellsAreAt
  <2>5. ToSet(pool.dense) \in SUBSET Index
    BY <2>4 DEF RowsIn
  <2> HIDE DEF pool
  <2>6. /\ next \in Seq(Index) /\ Len(next) \in Nat /\ DOMAIN next = 1 .. Len(next)
        /\ \A i \in 1 .. Len(next) : next[i] \in ToSet(pool.dense)
        /\ IsInjective(next)
    BY <2>1, <2>5, RowOrdersAre
  <2>7. \A i \in 1 .. Len(next) : next[i] \in RowsIn(pool) /\ get(pool, next[i]) \in Int
    BY <2>4, <2>6
  <2>8. \A i, j \in 1 .. Len(next) : i < j => get(pool, next[i]) <= get(pool, next[j])
    BY <2>1, <2>6, <2>7
  <2>9. Sorted(next)
    BY <2>3, <2>6, <2>7, <2>8 DEF Sorted
  <2>10. \A k \in ColumnIds : ColumnIs(k, next)'
    BY <1>3, <2>1, <2>2 DEF Ordered, ColumnIs
  <2>11. Progress'
    BY <1>0, <2>1, <2>2 DEF Progress
  <2> QED
    BY <2>0, <2>1, <2>9, <2>10, <2>11, ColumnsStay
<1>5. CASE OrderThrows
  <2>1. /\ caller' = [pc |-> "threw", at |-> 1] /\ UNCHANGED <<m_columns, key, worker, before>>
    BY <1>5 DEF OrderThrows
  <2>2. Progress'
    BY <2>1 DEF Progress
  <2> QED
    BY <1>1, <1>3, <2>1, <2>2
<1>6. CASE Launch
  <2>1. /\ caller.pc = "dispatch" /\ ~serial /\ caller.at < ColumnCount
        /\ caller.at \in ColumnIds
        /\ UNCHANGED <<m_columns, key, serial, sorted_rows, before>>
    BY <1>0, <1>6 DEF Launch
  <2>2. CASE Start(caller.at) /\ Caller("dispatch", caller.at + 1)
    <3>1. \A k \in ColumnIds : k >= caller.at => worker[k].pc = "idle"
      BY <2>1 DEF SortInv, Progress
    <3>2. worker[caller.at].pc = "idle"
      BY <1>0, <2>1, <3>1
    <3>3. \A k \in ColumnIds : k # caller.at => worker'[k] = worker[k]
      BY <1>0, <2>1, <2>2 DEF Start
    <3>4. \A k \in ColumnIds : k >= caller.at + 1 => k >= caller.at /\ k # caller.at
      BY <1>0, <2>1
    <3>5. Progress'
      BY <2>1, <2>2, <3>1, <3>3, <3>4 DEF Progress
    <3> QED
      BY <1>2, <1>3, <2>1, <2>2, <3>2, <3>5
  <2>3. CASE Caller("unwind", caller.at) /\ UNCHANGED worker
    <3>1. Progress'
      BY <2>3 DEF Progress
    <3> QED
      BY <1>1, <1>3, <2>1, <2>3, <3>1
  <2> QED
    BY <1>6, <2>2, <2>3 DEF Launch
<1>7. CASE OwnColumn
  <2>1. /\ caller.pc = "dispatch" /\ caller.at \in ColumnIds
        /\ Start(caller.at) /\ Caller("reorder", caller.at)
        /\ UNCHANGED <<m_columns, key, serial, sorted_rows, before>>
    BY <1>0, <1>7 DEF OwnColumn
  <2>2. /\ \A k \in ColumnIds : k >= caller.at => worker[k].pc = "idle"
        /\ serial => \A k \in ColumnIds : k < caller.at => worker[k].pc = "done"
    BY <2>1 DEF SortInv, Progress
  <2>3. worker[caller.at].pc = "idle"
    BY <1>0, <2>1, <2>2
  <2>4. \A k \in ColumnIds : k # caller.at => worker'[k] = worker[k]
    BY <1>0, <2>1 DEF Start
  <2>5. \A k \in ColumnIds : /\ k > caller.at => k >= caller.at /\ k # caller.at
                             /\ k < caller.at => k # caller.at
    BY <1>0, <2>1
  <2>6. Progress'
    BY <2>1, <2>2, <2>4, <2>5 DEF Progress
  <2> QED
    BY <1>2, <1>3, <2>1, <2>3, <2>6
<1>8. CASE OwnColumnEnds
  <2>1. /\ caller.pc = "reorder" /\ caller.at \in ColumnIds
        /\ worker[caller.at].pc \in {"done", "failed"}
        /\ UNCHANGED <<m_columns, key, serial, sorted_rows, worker, faults, before>>
    BY <1>0, <1>8 DEF OwnColumnEnds, Finished
  <2>2. /\ \A k \in ColumnIds : k > caller.at => worker[k].pc = "idle"
        /\ serial => \A k \in ColumnIds : k < caller.at => worker[k].pc = "done"
    BY <2>1 DEF SortInv, Progress
  <2>3. Progress'
    <3>1. CASE worker[caller.at].pc = "failed"
      <4>1. caller' = [pc |-> "unwind", at |-> caller.at]
        BY <1>8, <3>1 DEF OwnColumnEnds
      <4> QED
        BY <4>1 DEF Progress
    <3>2. CASE worker[caller.at].pc = "done" /\ caller.at < ColumnCount
      <4>1. caller' = [pc |-> "dispatch", at |-> caller.at + 1]
        BY <1>8, <3>2 DEF OwnColumnEnds
      <4>2. \A k \in ColumnIds : /\ k >= caller.at + 1 => k > caller.at
                                 /\ k < caller.at + 1 => k < caller.at \/ k = caller.at
        BY <1>0, <2>1
      <4> QED
        BY <2>1, <2>2, <3>2, <4>1, <4>2 DEF Progress
    <3>3. CASE worker[caller.at].pc = "done" /\ ~(caller.at < ColumnCount)
      <4>1. caller' = [pc |-> IF serial THEN "leave" ELSE "join", at |-> 1]
        BY <1>8, <3>3 DEF OwnColumnEnds
      <4>2. caller.at = ColumnCount
        BY <1>0, <2>1, <3>3
      <4>3. \A k \in ColumnIds : (k < caller.at \/ k = caller.at) /\ ~(k < 1)
        BY <1>0, <4>2
      <4>4. CASE serial
        BY <2>1, <2>2, <3>3, <4>1, <4>3, <4>4 DEF Progress
      <4>5. CASE ~serial
        BY <2>1, <3>3, <4>1, <4>2, <4>3, <4>5 DEF Progress
      <4> QED
        BY <4>4, <4>5
    <3> QED
      BY <2>1, <3>1, <3>2, <3>3
  <2> QED
    BY <1>1, <1>3, <2>1, <2>3
<1>9. CASE Join
  <2>1. /\ caller.pc = "join" /\ caller.at \in ColumnIds
        /\ UNCHANGED <<m_columns, key, serial, sorted_rows, worker, faults, before>>
        /\ worker[ColumnCount].pc = "done"
        /\ \A k \in ColumnIds : k < caller.at => worker[k].pc = "done"
    BY <1>0, <1>9 DEF Join, SortInv, Progress
  <2>2. \/ Caller("unwind", caller.at)
        \/ worker[caller.at].pc = "done" /\ Caller("join", caller.at + 1)
        \/ caller.at = ColumnCount /\ Caller("leave", caller.at)
    BY <1>9 DEF Join, Finished
  <2>3. \A k \in ColumnIds : /\ k < caller.at + 1 => k < caller.at \/ k = caller.at
                             /\ k < ColumnCount \/ k = ColumnCount
    BY <1>0, <2>1
  <2>4. Progress'
    BY <2>1, <2>2, <2>3 DEF Progress
  <2> QED
    BY <1>1, <1>3, <2>1, <2>4
<1>10. CASE EndScope
  <2>1. /\ UNCHANGED <<m_columns, key, serial, worker, faults, before>>
        /\ \/ caller.pc = "leave" /\ Caller("returned", caller.at)
           \/ Caller("threw", caller.at)
    BY <1>10 DEF EndScope
  <2>2. Progress'
    BY <2>1 DEF SortInv, Progress
  <2> QED
    BY <1>1, <1>3, <2>1, <2>2
<1> QED
  BY <1>4, <1>5, <1>6, <1>7, <1>8, <1>9, <1>10 DEF CallerStep

(* Every reachable state: the columns when the call was made, the row      *)
(* order, and how far each column is on the way from one to the other.     *)
THEOREM SortInvariance == Spec => []SortInv
<1>1. Init => SortInv
  <2> SUFFICES ASSUME Init PROVE SortInv
    OBVIOUS
  <2>1. PICK c \in KeyColumns : \E others \in [ColumnIds -> OtherColumns] :
          m_columns = [others EXCEPT ![key] = c]
    BY DEF Init
  <2>2. PICK others \in [ColumnIds -> OtherColumns] :
          m_columns = [others EXCEPT ![key] = c]
    BY <2>1
  <2>3. /\ key \in ColumnIds /\ before = m_columns
        /\ caller = [pc |-> "call", at |-> 1]
        /\ worker = [k \in ColumnIds |-> [pc |-> "idle", new_data |-> <<>>]]
    BY DEF Init, Idle
  <2>4. ASSUME NEW rows \in RowOrders, NEW value \in [Index -> Cells]
        PROVE  Filled(rows, value) \in Col!Column /\ SparseSet(Filled(rows, value))
    <3>1. PICK S \in SUBSET Index : rows \in SetToSeqs(S)
      BY DEF RowOrders, SetToAllKPermutations
    <3>2. rows \in Seq(Index)
      BY <3>1, RowOrdersAre
    <3> QED
      BY <3>2, FilledIsConsistent
  <2>5. c \in Col!Column /\ SparseSet(c)
    <3>1. PICK rows \in RowOrders : \E value \in [Index -> Values] : c = Filled(rows, value)
      BY DEF KeyColumns
    <3>2. PICK value \in [Index -> Values] : c = Filled(rows, value)
      BY <3>1
    <3>3. value \in [Index -> Cells]
      BY DEF Cells
    <3> QED
      BY <2>4, <3>2, <3>3
  <2>6. \A o \in OtherColumns : o \in Col!Column /\ SparseSet(o)
    <3>1. [r \in Index |-> r] \in [Index -> Cells]
      BY DEF Cells
    <3> QED
      BY <2>4, <3>1 DEF OtherColumns
  <2>7. /\ DOMAIN m_columns = ColumnIds
        /\ \A k \in ColumnIds : m_columns[k] \in Col!Column /\ SparseSet(m_columns[k])
    BY <2>2, <2>3, <2>5, <2>6
  <2>8. Progress
    BY <2>3 DEF Progress
  <2>9. Ordered(<<>>)
    <3>1. <<>> \in Seq(Index) /\ Len(<<>>) = 0 /\ IsInjective(<<>>)
      BY EmptySeq DEF IsInjective
    <3>2. \A i \in 1 .. 0 : FALSE
      OBVIOUS
    <3>3. Sorted(<<>>)
      BY <3>1, <3>2 DEF Sorted
    <3>4. \A k \in ColumnIds : ColumnIs(k, <<>>)
      BY <2>3 DEF ColumnIs
    <3> QED
      BY <2>3, <3>3, <3>4 DEF Ordered
  <2> QED
    BY <2>3, <2>7, <2>8, <2>9 DEF SortInv
<1>2. SortInv /\ IInv /\ [Next]_vars => SortInv'
  <2>1. ASSUME SortInv, UNCHANGED vars PROVE SortInv'
    <3>1. PICK order : Ordered(order)
      BY <2>1 DEF SortInv
    <3>2. Ordered(order)'
      BY <2>1, <3>1 DEF vars, Ordered, Sorted, ColumnIs
    <3>3. Progress'
      BY <2>1 DEF vars, SortInv, Progress
    <3> QED
      BY <2>1, <3>2, <3>3 DEF vars, SortInv
  <2> QED
    BY <2>1, ReorderStepSorts, CallerStepSorts DEF Next, Over
<1> QED
  BY <1>1, <1>2, Invariance, PTL DEF Spec

(* A call that returns has put the key column in order and every column in *)
(* the key column's row order, whatever the tasks' interleaving.           *)
LEMMA ReturnedIsSorted ==
  ASSUME SortInv
  PROVE  ReturnSorts
<1> SUFFICES ASSUME caller.pc = "returned"
             PROVE  /\ InOrder(m_columns[key])
                    /\ \A k \in ColumnIds :
                         m_columns[k] = reorder(before[k], m_columns[key].dense)
  BY DEF ReturnSorts
<1>1. PICK order : Ordered(order)
  BY DEF SortInv
<1>2. /\ order \in Seq(Index) /\ IsInjective(order)
      /\ \A i \in 1 .. Len(order) : order[i] \in RowsIn(before[key])
      /\ \A i, j \in 1 .. Len(order) :
           i < j => get(before[key], order[i]) <= get(before[key], order[j])
  BY <1>1 DEF Ordered, Sorted
<1>3. \A k \in ColumnIds : m_columns[k] = reorder(before[k], order)
  BY <1>1 DEF SortInv, Progress, Ordered, ColumnIs
<1>4. m_columns[key] = reorder(before[key], order)
  BY <1>3 DEF SortInv
<1>5. Kept(order, RowsIn(before[key])) = order
  BY <1>2, KeptWhole
<1>6. /\ m_columns[key].dense = order
      /\ m_columns[key].data = [i \in 1 .. Len(order) |-> get(before[key], order[i])]
  BY <1>4, <1>5 DEF reorder
<1>7. InOrder(m_columns[key])
  BY <1>2, <1>6 DEF InOrder
<1> QED
  BY <1>3, <1>6, <1>7

(* A parallel sort that returns has put the key column in order and every  *)
(* column in the key column's row order, each as the serial reorder would. *)
THEOREM ReturnAlwaysSorts == Spec => []ReturnSorts
BY ReturnedIsSorted, SortInvariance, PTL

(* Whatever throws, wherever and whenever, the columns stay consistent and *)
(* no column loses the values of its rows but the one whose own reorder    *)
(* threw.                                                                  *)
LEMMA FailureIsContained ==
  ASSUME SortInv, IInv
  PROVE  FailureContained
<1>1. PICK order : Ordered(order)
  BY DEF SortInv
<1>2. order \in Seq(Index) /\ IsInjective(order)
  BY <1>1 DEF Ordered, Sorted
<1>3. ASSUME NEW k \in ColumnIds
      PROVE  /\ SparseSet(m_columns[k])
             /\ \/ m_columns[k] = before[k]
                \/ worker[k].pc = "running"
                \/ /\ worker[k].pc = "done"
                   /\ \A r \in RowsIn(m_columns[k]) :
                        get(m_columns[k], r) = get(before[k], r)
                \/ /\ worker[k].pc = "failed"
                   /\ m_columns[k].dense = before[k].dense
                   /\ \A r \in RowsIn(before[k]) :
                        get(m_columns[k], r) \in {get(before[k], r), MovedFrom}
  <2>1. /\ ColumnIs(k, order) /\ worker[k].pc \in WorkPcs
        /\ before[k] \in Col!Column /\ SparseSet(before[k])
    BY <1>1 DEF Ordered, SortInv, IInv, ThreadsOK
  <2>2. CASE worker[k].pc = "idle"
    BY <2>1, <2>2 DEF ColumnIs
  <2>3. CASE worker[k].pc \in {"running", "failed"}
    <3>1. Halfway(before[k], order, m_columns[k], worker[k].new_data)
      BY <2>1, <2>3 DEF ColumnIs
    <3>2. /\ SparseSet(m_columns[k]) /\ m_columns[k].dense = before[k].dense
          /\ \A r \in RowsIn(before[k]) :
               get(m_columns[k], r) \in {get(before[k], r), MovedFrom}
      BY <2>1, <3>1, HalfwayIsConsistent
    <3> QED
      BY <2>3, <3>2
  <2>4. CASE worker[k].pc = "done"
    <3>1. m_columns[k] = reorder(before[k], order)
      BY <2>1, <2>4 DEF ColumnIs
    <3>2. /\ SparseSet(m_columns[k])
          /\ RowsIn(m_columns[k]) = RowsIn(before[k]) \cap ToSet(order)
          /\ \A q \in RowsIn(before[k]) \cap ToSet(order) :
               get(m_columns[k], q) = get(before[k], q)
      BY <1>2, <2>1, <3>1, CellsReordered
    <3> QED
      BY <2>4, <3>2
  <2> QED
    BY <2>1, <2>2, <2>3, <2>4 DEF WorkPcs
<1>4. ColumnsConsistent
  BY <1>3 DEF ColumnsConsistent
<1>5. caller.pc = "threw" => \A k \in ColumnIds : worker[k].pc # "running"
  BY DEF IInv, TasksWithinCall, CallOver, Running
<1> QED
  BY <1>3, <1>4, <1>5 DEF FailureContained

(* After a parallel sort that throws the columns are consistent, and only  *)
(* columns whose own reorder threw have lost values.                       *)
THEOREM FailureAlwaysContained == Spec => []FailureContained
BY FailureIsContained, SortInvariance, Invariance, PTL
=============================================================================
