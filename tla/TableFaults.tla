----------------------------- MODULE TableFaults -----------------------------
(***************************************************************************)
(* The table when the code it calls throws: an allocation, the constructor *)
(* of an element, its move.  Each throwing step of a member function that  *)
(* changes the table is an action that leaves the table as it is when the  *)
(* exception passes it; the member functions of SoaTable stay what they    *)
(* are, so that the program goes on with what a fault left behind.         *)
(*                                                                         *)
(* A fold over m_columns visits the columns in the order of their          *)
(* declaration, so here a column is its position: the ones before a column *)
(* that throws are done, the ones after it untouched.  A move that throws  *)
(* leaves its source and its target with some value.                       *)
(***************************************************************************)
EXTENDS SoaTable

ASSUME DeclarationAssumption == Columns \subseteq Nat

VARIABLE thrown     \* history: the member function that threw in this step

faultVars == <<vars, thrown>>

-----------------------------------------------------------------------------
(* What a column can be when a member function throws.                     *)

(* Mutant: the row is pushed to dense before the value is constructed.     *)
EmplaceThrowsDenseFirst(c, r) ==
  IF contains(c, r)
  THEN {[c EXCEPT !.data = Put(@, At(c.sparse, r), v)] : v \in Values}
  ELSE {c, [c EXCEPT !.sparse = Resized(@, r + 1), !.dense = Append(@, r)]}

(* emplace: a new value is at most a longer sparse vector, an overwritten  *)
(* one is what the assignment left.                                        *)
EmplaceThrows(c, r) ==
  IF contains(c, r)
  THEN {[c EXCEPT !.data = Put(@, At(c.sparse, r), v)] : v \in Values}
  ELSE {c, [c EXCEPT !.sparse = Resized(@, r + 1)]}

(* The position of r, when removing r moves the last element there.        *)
Moves(c, r) == contains(c, r) /\ Last(c.dense) # r

(* remove: the one step that can throw is the move of the last element     *)
(* into the hole, before any of the three vectors changes.                 *)
RemoveThrows(c, r) ==
  {[c EXCEPT !.data = Put(Put(@, At(c.sparse, r), v), Len(c.data) - 1, w)] :
     v, w \in {x \in Values : Moves(c, r)}}

(* What reorder leaves behind when it throws: the old vectors are still    *)
(* there, with the values in left where it has moved an element out; the   *)
(* rows that the order does not name are not moved.                        *)
MovedOut(c, order, left) ==
  [c EXCEPT !.data = [k \in DOMAIN @ |-> IF c.dense[k] \in ToSet(order)
                                         THEN left[c.dense[k]] ELSE @[k]]]

ReorderThrows(c, order) ==
  {MovedOut(c, order, left) : left \in [RowsIn(c) \cap ToSet(order) -> Values]}

(* The columns declared before C.                                          *)
Earlier(C) == {D \in Columns : D < C}

Nothing == [by |-> "none"]

FaultInit == Init /\ thrown = Nothing

-----------------------------------------------------------------------------
(* insert: both vectors are reserved before either changes.                *)
InsertThrows ==
  /\ m_free_head = npos
  /\ can_address_rows(Len(m_rows) + 1)
  /\ thrown' = [by |-> "insert"]
  /\ UNCHANGED vars

(* The member function throws while it works on column C of row id.        *)
ThrowsAt(by, C, id) ==
  /\ is_valid(id)
  /\ thrown' = [by |-> by, column |-> C, id |-> id]

(* assign: the signature bit is set after the value is there.              *)
AssignThrows(C, id) ==
  /\ ThrowsAt("assign", C, id)
  /\ \E c \in EmplaceThrows(m_columns[C], id.index) :
       m_columns' = [m_columns EXCEPT ![C] = c]
  /\ UNCHANGED <<m_rows, m_free_links, m_free_head, m_alive_count, stale>>

(* unassign: the bit stays, and so does the value's place.                 *)
UnassignThrows(C, id) ==
  /\ ThrowsAt("unassign", C, id)
  /\ \E c \in RemoveThrows(m_columns[C], id.index) :
       m_columns' = [m_columns EXCEPT ![C] = c]
  /\ UNCHANGED <<m_rows, m_free_links, m_free_head, m_alive_count, stale>>

(* Column C of a fold throws and becomes c; the ones before it are done.   *)
FoldThrows(C, c, Done(_)) ==
  m_columns' = [D \in Columns |-> IF D = C THEN c
                                  ELSE IF D \in Earlier(C) THEN Done(m_columns[D])
                                  ELSE m_columns[D]]

(* Mutant: the slot is released before the columns drop the row.           *)
EraseThrowsSlotFirst(C, id) ==
  /\ ThrowsAt("erase", C, id)
  /\ \E c \in RemoveThrows(m_columns[C], id.index) :
       FoldThrows(C, c, LAMBDA d : remove(d, id.index))
  /\ Released(id.index)
  /\ UNCHANGED <<m_alive_count, stale>>

(* erase: column C throws, the ones before it have dropped the row, the    *)
(* row is alive with its signature.                                        *)
EraseThrows(C, id) ==
  /\ ThrowsAt("erase", C, id)
  /\ \E c \in RemoveThrows(m_columns[C], id.index) :
       FoldThrows(C, c, LAMBDA d : remove(d, id.index))
  /\ UNCHANGED <<m_rows, m_free_links, m_free_head, m_alive_count, stale>>

(* The orders that a sort by column C, serial or parallel, can come to.    *)
OrdersBy(C) ==
  {order \in SetToSeqs(RowsIn(m_columns[C])) :
     \A i, j \in DOMAIN order :
       i < j => ~(get(m_columns[C], order[j]) < get(m_columns[C], order[i]))}

InMultiOrder(criteria, order) ==
  \A i, j \in DOMAIN order : i < j => Before(criteria, order[i], order[j])

(* Mutant: the column of the first criterion drives the sort.              *)
OrdersByDriver(criteria) ==
  {order \in SetToSeqs(RowsIn(m_columns[Head(criteria)])) :
     InMultiOrder(criteria, order)}

(* The orders that sort_by_multi comes to: of all alive rows.              *)
OrdersByMulti(criteria) ==
  {order \in SetToSeqs(AliveSlots) : InMultiOrder(criteria, order)}

(* The fold of a sort: the columns before C are in the new order, C is     *)
(* partly moved out, the ones after it keep the old order.                 *)
SortThrows(by, C, order) ==
  /\ \E c \in ReorderThrows(m_columns[C], order) :
       FoldThrows(C, c, LAMBDA d : reorder(d, order))
  /\ thrown' = [by |-> by, order |-> order]
  /\ UNCHANGED <<m_rows, m_free_links, m_free_head, m_alive_count, stale>>

SortByColumnThrows(C) ==
  \E D \in Columns : \E order \in OrdersBy(D) : SortThrows("sort_by_column", C, order)

SortByMultiThrows(C) ==
  \E criteria \in Criteria : \E order \in OrdersByMulti(criteria) :
    SortThrows("sort_by_multi", C, order)

(* sort_by_column_parallel, when all its tasks have ended (ParallelSort    *)
(* has the way there): the columns in done are in the new order, the       *)
(* others partly moved out, or untouched when their task never started.    *)
SortParallelThrows(done) ==
  /\ \E order \in UNION {OrdersBy(D) : D \in Columns} :
       LET cells == {p \in (Columns \ done) \X ToSet(order) :
                       contains(m_columns[p[1]], p[2])}
       IN  /\ \E left \in [cells -> Values] :
                m_columns' =
                  [C \in Columns |->
                     IF C \in done THEN reorder(m_columns[C], order)
                     ELSE MovedOut(m_columns[C], order,
                                   [r \in Index |-> left[<<C, r>>]])]
           /\ thrown' = [by |-> "sort_by_column_parallel", order |-> order]
  /\ UNCHANGED <<m_rows, m_free_links, m_free_head, m_alive_count, stale>>

FaultNext ==
  \/ Next /\ thrown' = Nothing
  \/ InsertThrows
  \/ \E id \in Handles, C \in Columns : AssignThrows(C, id)
  \/ \E id \in Handles, C \in Columns : UnassignThrows(C, id)
  \/ \E id \in Handles, C \in Columns : EraseThrows(C, id)
  \/ \E C \in Columns : SortByColumnThrows(C)
  \/ \E C \in Columns : SortByMultiThrows(C)
  \/ \E done \in (SUBSET Columns) \ {Columns} : SortParallelThrows(done)

FaultSpec == FaultInit /\ [][FaultNext]_faultVars

-----------------------------------------------------------------------------
(* The bit of column C is set in row r and C has no value of it: contains  *)
(* says yes, get fails.                                                    *)
Torn(C, r) == /\ r \in AliveSlots
              /\ C \in At(m_rows, r).signature
              /\ ~contains(m_columns[C], r)

(* Nothing but an erase that throws, and a sort by a column that the row   *)
(* lacks, throwing or not, takes a value away and leaves its bit: not a    *)
(* sort_by_multi that throws in any column, not an unassign or an assign   *)
(* that throws, nor any call that goes on after a fault.  Erasing the row  *)
(* again, assigning and unassigning mend it.                               *)
TornByEraseOrSort ==
  [][\A C \in Columns, r \in Index :
       Torn(C, r)' /\ ~Torn(C, r) =>
         \/ /\ thrown'.by = "erase"
            /\ thrown'.id = Handle(r)
            /\ C < thrown'.column
         \/ /\ thrown'.by \in {"sort_by_column", "sort_by_column_parallel"}
            /\ r \notin ToSet(thrown'.order)
         \/ \E D \in Columns : /\ ~contains(m_columns[D], r)
                                /\ sort_by_column(D)]_faultVars

(* A member function that throws while it works on a row leaves the handle *)
(* valid, so that the call can be repeated, and touches no other row, but  *)
(* for the value of the one that remove was moving.                        *)
FaultContained ==
  [][thrown'.by \in {"assign", "unassign", "erase"} =>
     \A C \in Columns, id \in LiveHandles :
       /\ thrown'.column = C
       /\ thrown'.id = id
       => /\ LiveHandles' = LiveHandles
          /\ \A D \in Columns, other \in LiveHandles \ {id} :
               \/ try_get(D, other)' = try_get(D, other)
               \/ /\ D = C
                  /\ other.index = Last(m_columns[C].dense)
                  /\ table_contains(C, other)'
                  /\ contains(m_columns[C], other.index)']_faultVars
=============================================================================
