------------------------- MODULE TableRecoveryProofs -------------------------
(***************************************************************************)
(* The table after something went wrong, for every set of columns and      *)
(* values and every npos and max_generation.                               *)
(*                                                                         *)
(* A member function that throws touches the columns only, and takes no    *)
(* row into a column: that is why the inductive invariant of the table     *)
(* survives it, and why what a column can lose is confined to the two      *)
(* folds that erase and sort.                                              *)
(*                                                                         *)
(* load finds in a whole buffer what save put there, at the same place,    *)
(* and replays it; in one that is cut or foreign it notices.               *)
(***************************************************************************)
EXTENDS TableFaults, Serialize, SoaTableProofs

-----------------------------------------------------------------------------
(* One column.                                                             *)

(* A column with other values in the same places has the same rows.        *)
LEMMA Revalued ==
  ASSUME NEW c \in Column, SparseSet(c),
         NEW data \in Seq(Values), Len(data) = Len(c.data)
  PROVE  LET d == [c EXCEPT !.data = data]
         IN  /\ d \in Column
             /\ SparseSet(d)
             /\ d.sparse = c.sparse /\ d.dense = c.dense /\ d.data = data
             /\ RowsIn(d) = RowsIn(c)
<1> DEFINE d == [c EXCEPT !.data = data]
<1>1. d \in Column /\ d.sparse = c.sparse /\ d.dense = c.dense /\ d.data = data
  BY DEF Column
<1> HIDE DEF d
<1>2. \A q : contains(d, q) <=> contains(c, q)
  BY <1>1 DEF contains
<1>3. SparseSet(d)
  BY <1>1, <1>2 DEF SparseSet
<1>4. RowsIn(d) = RowsIn(c)
  BY <1>2 DEF RowsIn
<1>q. QED  BY <1>1, <1>3, <1>4 DEF d

(* A longer sparse vector adds no row.                                     *)
LEMMA Lengthened ==
  ASSUME NEW c \in Column, SparseSet(c), NEW n \in Nat
  PROVE  LET d == [c EXCEPT !.sparse = Resized(@, n)]
         IN  /\ d \in Column
             /\ SparseSet(d)
             /\ RowsIn(d) = RowsIn(c)
             /\ \A q \in RowsIn(c) : get(d, q) = get(c, q)
<1> DEFINE d == [c EXCEPT !.sparse = Resized(@, n)]
           s == Resized(c.sparse, n)
<1>1. /\ s \in Seq(IndexOrNpos) /\ Len(s) \in Nat /\ Len(c.sparse) \in Nat
      /\ Len(s) >= Len(c.sparse)
      /\ \A i \in 0 .. Len(s) - 1 :
           At(s, i) = IF i < Len(c.sparse) THEN At(c.sparse, i) ELSE npos
  BY SparseResized, ColumnParts, LenProperties
<1> HIDE DEF s
<1>2. d \in Column /\ d.sparse = s /\ d.dense = c.dense /\ d.data = c.data
  BY <1>1 DEF Column, s
<1> HIDE DEF d
<1>3. ASSUME NEW q \in Index
      PROVE  /\ contains(d, q) <=> contains(c, q)
             /\ contains(c, q) => At(d.sparse, q) = At(c.sparse, q)
  <2>1. q \in Nat
    BY NposAssumption DEF Index
  <2>q. QED  BY <1>1, <1>2, <2>1 DEF contains
<1>4. SparseSet(d)
  <2>1. \A e \in 0 .. Len(c.dense) - 1 :
          /\ At(c.dense, e) \in Index
          /\ contains(c, At(c.dense, e))
          /\ At(c.sparse, At(c.dense, e)) = e
    BY ColumnFacts
  <2>2. ASSUME NEW e \in 0 .. Len(d.dense) - 1
        PROVE  At(d.dense, e) < Len(d.sparse) /\ At(d.sparse, At(d.dense, e)) = e
    <3>1. At(d.dense, e) = At(c.dense, e) /\ e \in 0 .. Len(c.dense) - 1
      BY <1>2
    <3>2. contains(d, At(c.dense, e)) /\ At(d.sparse, At(c.dense, e)) = e
      BY <1>3, <2>1, <3>1
    <3>q. QED  BY <3>1, <3>2 DEF contains
  <2>3. \A q \in Index : contains(d, q) =>
          At(d.sparse, q) < Len(d.dense) /\ At(d.dense, At(d.sparse, q)) = q
    BY <1>2, <1>3 DEF SparseSet
  <2>4. Len(d.data) = Len(d.dense)
    BY <1>2 DEF SparseSet
  <2>q. QED  BY <2>2, <2>3, <2>4 DEF SparseSet
<1>5. RowsIn(d) = RowsIn(c)
  BY <1>3 DEF RowsIn
<1>6. \A q \in RowsIn(c) : get(d, q) = get(c, q)
  BY <1>2, <1>3 DEF RowsIn, get
<1>q. QED  BY <1>2, <1>4, <1>5, <1>6 DEF d

(* An emplace that throws leaves the column with the rows it had, and the  *)
(* values of the other rows.                                               *)
LEMMA EmplaceThrowsKeeps ==
  ASSUME NEW c \in Column, SparseSet(c), NEW r \in Index,
         NEW d \in EmplaceThrows(c, r)
  PROVE  /\ d \in Column
         /\ SparseSet(d)
         /\ RowsIn(d) = RowsIn(c)
         /\ \A q \in RowsIn(c) \ {r} : get(d, q) = get(c, q)
<1>1. CASE contains(c, r)
  <2>1. PICK v \in Values : d = [c EXCEPT !.data = Put(@, At(c.sparse, r), v)]
    BY <1>1 DEF EmplaceThrows
  <2> DEFINE slot == At(c.sparse, r)
             data == Put(c.data, slot, v)
  <2>2. /\ c.data \in Seq(Values) /\ Len(c.data) = Len(c.dense)
        /\ slot \in 0 .. Len(c.data) - 1
        /\ \A q \in Index : contains(c, q) =>
             /\ At(c.sparse, q) \in 0 .. Len(c.data) - 1
             /\ At(c.dense, At(c.sparse, q)) = q
    BY <1>1, ColumnFacts, ColumnParts
  <2>3. /\ data \in Seq(Values) /\ Len(data) = Len(c.data)
        /\ \A j \in 0 .. Len(c.data) - 1 : j # slot => At(data, j) = At(c.data, j)
    <3>0. c.data \in Seq(Values) /\ slot \in 0 .. Len(c.data) - 1
      BY <2>2
    <3> HIDE DEF slot
    <3>1. data \in Seq(Values)
      BY <3>0, VectorPut
    <3>2. Len(data) = Len(c.data)
      BY <3>0, VectorPut
    <3>3. \A j \in 0 .. Len(c.data) - 1 : j # slot => At(data, j) = At(c.data, j)
      BY <3>0, VectorPut
    <3>q. QED  BY <3>1, <3>2, <3>3
  <2>4. d = [c EXCEPT !.data = data]
    BY <2>1
  <2> HIDE DEF data
  <2>5. /\ d \in Column /\ SparseSet(d) /\ RowsIn(d) = RowsIn(c)
        /\ d.sparse = c.sparse /\ d.data = data
    BY <2>3, <2>4, Revalued
  <2>6. ASSUME NEW q \in RowsIn(c) \ {r}
        PROVE  get(d, q) = get(c, q)
    <3>1. q \in Index /\ contains(c, q)
      BY DEF RowsIn
    <3>2. At(c.sparse, q) # slot
      BY <1>1, <2>2, <3>1
    <3>q. QED  BY <2>2, <2>3, <2>5, <3>1, <3>2 DEF get
  <2>q. QED  BY <2>5, <2>6
<1>2. CASE ~contains(c, r) /\ d = c
  BY <1>2
<1>3. CASE ~contains(c, r) /\ d = [c EXCEPT !.sparse = Resized(@, r + 1)]
  <2>1. r + 1 \in Nat
    BY NposAssumption DEF Index
  <2>2. /\ d \in Column /\ SparseSet(d) /\ RowsIn(d) = RowsIn(c)
        /\ \A q \in RowsIn(c) : get(d, q) = get(c, q)
    BY <1>3, <2>1, Lengthened
  <2>q. QED  BY <2>2
<1>q. QED  BY <1>1, <1>2, <1>3 DEF EmplaceThrows

(* A remove that throws has moved the last element, or lost it, and        *)
(* changed nothing else.                                                   *)
LEMMA RemoveThrowsKeeps ==
  ASSUME NEW c \in Column, SparseSet(c), NEW r \in Index,
         NEW d \in RemoveThrows(c, r)
  PROVE  /\ d \in Column
         /\ SparseSet(d)
         /\ RowsIn(d) = RowsIn(c)
         /\ contains(c, r) /\ Last(c.dense) \in RowsIn(c)
         /\ \A q \in RowsIn(c) \ {r, Last(c.dense)} : get(d, q) = get(c, q)
<1>1. PICK v \in Values, w \in Values :
        /\ Moves(c, r)
        /\ d = [c EXCEPT !.data = Put(Put(@, At(c.sparse, r), v), Len(c.data) - 1, w)]
  BY DEF RemoveThrows
<1> DEFINE slot == At(c.sparse, r)
           n    == Len(c.data)
           once == Put(c.data, slot, v)
           data == Put(once, n - 1, w)
<1>2. contains(c, r)
  BY <1>1 DEF Moves
<1>3. /\ c.data \in Seq(Values) /\ n \in Nat /\ Len(c.dense) = n
      /\ c.dense \in Seq(Index)
      /\ slot \in 0 .. n - 1 /\ n - 1 \in 0 .. n - 1
      /\ \A q \in Index : contains(c, q) =>
           /\ At(c.sparse, q) \in 0 .. n - 1
           /\ At(c.dense, At(c.sparse, q)) = q
      /\ \A k \in 0 .. n - 1 : /\ At(c.dense, k) \in Index
                               /\ contains(c, At(c.dense, k))
                               /\ At(c.sparse, At(c.dense, k)) = k
  BY <1>2, ColumnFacts, ColumnParts
<1>4. Last(c.dense) = At(c.dense, n - 1)
  <2>1. c.dense \in Seq(Index) /\ Len(c.dense) # 0
    BY <1>3
  <2>2. Last(c.dense) = At(c.dense, Len(c.dense) - 1)
    BY <2>1, VectorFront
  <2>q. QED  BY <1>3, <2>2
<1>5. /\ once \in Seq(Values) /\ Len(once) = n
      /\ \A j \in 0 .. n - 1 : j # slot => At(once, j) = At(c.data, j)
  <2>0. c.data \in Seq(Values) /\ slot \in 0 .. Len(c.data) - 1
    BY <1>3
  <2> HIDE DEF slot
  <2>1. once \in Seq(Values)
    BY <2>0, VectorPut
  <2>2. Len(once) = Len(c.data)
    BY <2>0, VectorPut
  <2>3. \A j \in 0 .. Len(c.data) - 1 : j # slot => At(once, j) = At(c.data, j)
    BY <2>0, VectorPut
  <2>q. QED  BY <2>1, <2>2, <2>3
<1>6. /\ data \in Seq(Values) /\ Len(data) = n
      /\ \A j \in 0 .. n - 1 : j # n - 1 => At(data, j) = At(once, j)
  <2> DEFINE last == n - 1
  <2>0. once \in Seq(Values) /\ last \in 0 .. Len(once) - 1
    BY <1>3, <1>5
  <2> HIDE DEF once, last
  <2>1. Put(once, last, w) \in Seq(Values)
    BY <2>0, VectorPut
  <2>2. Len(Put(once, last, w)) = Len(once)
    BY <2>0, VectorPut
  <2>3. \A j \in 0 .. Len(once) - 1 :
          j # last => At(Put(once, last, w), j) = At(once, j)
    BY <2>0, VectorPut
  <2>q. QED  BY <1>5, <2>1, <2>2, <2>3 DEF last
<1>7. d = [c EXCEPT !.data = data]
  BY <1>1
<1> HIDE DEF data, once, n, slot
<1>8. /\ d \in Column /\ SparseSet(d) /\ RowsIn(d) = RowsIn(c)
      /\ d.sparse = c.sparse /\ d.data = data
  BY <1>6, <1>7, Revalued DEF n
<1>9. Last(c.dense) \in RowsIn(c)
  BY <1>3, <1>4 DEF RowsIn
<1>10. ASSUME NEW q \in RowsIn(c) \ {r, Last(c.dense)}
       PROVE  get(d, q) = get(c, q)
  <2>1. q \in Index /\ contains(c, q)
    BY DEF RowsIn
  <2>2. At(c.sparse, q) # slot /\ At(c.sparse, q) # n - 1
    BY <1>2, <1>3, <1>4, <2>1 DEF slot
  <2>3. At(data, At(c.sparse, q)) = At(c.data, At(c.sparse, q))
    BY <1>3, <1>5, <1>6, <2>1, <2>2
  <2>q. QED  BY <1>8, <2>3 DEF get
<1>q. QED  BY <1>2, <1>8, <1>9, <1>10

(* Values that a reorder moved out of a column leave its rows in place.    *)
LEMMA MovedOutKeeps ==
  ASSUME NEW c \in Column, SparseSet(c), NEW order, NEW left,
         \A r \in RowsIn(c) \cap ToSet(order) : left[r] \in Values
  PROVE  /\ MovedOut(c, order, left) \in Column
         /\ SparseSet(MovedOut(c, order, left))
         /\ RowsIn(MovedOut(c, order, left)) = RowsIn(c)
<1> DEFINE data == [k \in DOMAIN c.data |-> IF c.dense[k] \in ToSet(order)
                                            THEN left[c.dense[k]] ELSE c.data[k]]
<1>1. /\ Len(c.dense) \in Nat /\ Len(c.data) = Len(c.dense)
      /\ c.data \in Seq(Values) /\ DOMAIN c.data = 1 .. Len(c.dense)
  BY ColumnParts, LenProperties DEF SparseSet
<1>2. ASSUME NEW k \in 1 .. Len(c.dense)
      PROVE  c.dense[k] \in RowsIn(c) /\ c.data[k] \in Values
  <2>1. k - 1 \in 0 .. Len(c.dense) - 1 /\ At(c.dense, k - 1) = c.dense[k]
    BY <1>1 DEF At
  <2>2. c.dense[k] \in Index /\ contains(c, c.dense[k])
    BY <2>1, ColumnFacts
  <2>q. QED  BY <1>1, <2>2, ElementOfSeq DEF RowsIn
<1>3. data \in [1 .. Len(c.dense) -> Values]
  BY <1>1, <1>2
<1>4. MovedOut(c, order, left) = [c EXCEPT !.data = data]
  BY DEF MovedOut
<1> HIDE DEF data
<1>5. data \in Seq(Values) /\ Len(data) = Len(c.data)
  BY <1>1, <1>3, FunctionIsVector
<1>q. QED  BY <1>4, <1>5, Revalued

(* A reorder that throws has moved elements out, and no row.               *)
LEMMA ReorderThrowsKeeps ==
  ASSUME NEW c \in Column, SparseSet(c), NEW order,
         NEW d \in ReorderThrows(c, order)
  PROVE  d \in Column /\ SparseSet(d) /\ RowsIn(d) = RowsIn(c)
<1>1. PICK left \in [RowsIn(c) \cap ToSet(order) -> Values] :
        d = MovedOut(c, order, left)
  BY DEF ReorderThrows
<1>q. QED  BY <1>1, MovedOutKeeps

-----------------------------------------------------------------------------
(* What a throwing step does to the columns: the slots and the free list   *)
(* are left alone, every column stays a column, and none gains a row.      *)

SlotsUnchanged == UNCHANGED <<m_rows, m_free_links, m_free_head,
                              m_alive_count, stale>>

(* A step that only takes values from columns, and leaves the slots alone, *)
(* keeps the invariant.                                                    *)
LEMMA ColumnsOnlyKeep ==
  ASSUME IInv, SlotsUnchanged,
         m_columns' \in [Columns -> Column],
         ColumnsConsistent',
         \A C \in Columns : RowsIn(m_columns'[C]) \subseteq RowsIn(m_columns[C])
  PROVE  IInv' /\ AliveSlots' = AliveSlots /\ LiveHandles' = LiveHandles
<1>1. /\ m_rows' = m_rows /\ m_free_links' = m_free_links
      /\ m_free_head' = m_free_head /\ m_alive_count' = m_alive_count
      /\ stale' = stale
  BY DEF SlotsUnchanged
<1>2. Slots' = Slots /\ AliveSlots' = AliveSlots
  BY <1>1 DEF Slots, AliveSlots
<1>3. LiveHandles' = LiveHandles
  BY <1>1, <1>2 DEF LiveHandles, Handle
<1>4. TypeOK' /\ SlotsFit' /\ AliveCounted'
  BY <1>1, <1>2 DEF IInv, TypeOK, SlotsFit, AliveCounted
<1>5. PooledIsSigned'
  BY <1>1, <1>2 DEF IInv, PooledIsSigned
<1>6. \E chain : FreeChain(chain)'
  <2>1. PICK chain : FreeChain(chain)
    BY DEF IInv
  <2>2. FreeChain(chain)'
    BY <1>1, <1>2, <2>1 DEF FreeChain
  <2>q. QED  BY <2>2
<1>q. QED  BY <1>2, <1>3, <1>4, <1>5, <1>6 DEF IInv

(* assign throws: no column gains or loses a row, and only the value of    *)
(* the row it was given can change.                                        *)
LEMMA AssignThrowsColumns ==
  ASSUME IInv, NEW C \in Columns, NEW id \in Handles, AssignThrows(C, id)
  PROVE  /\ SlotsUnchanged
         /\ m_columns' \in [Columns -> Column]
         /\ ColumnsConsistent'
         /\ \A D \in Columns : RowsIn(m_columns'[D]) = RowsIn(m_columns[D])
         /\ \A D \in Columns : D # C => m_columns'[D] = m_columns[D]
         /\ \A q \in RowsIn(m_columns[C]) \ {id.index} :
              get(m_columns'[C], q) = get(m_columns[C], q)
<1>1. TypeOK /\ SlotsFit /\ \A D \in Columns : m_columns[D] \in Column /\ SparseSet(m_columns[D])
  BY DEF IInv, TypeOK, ColumnsConsistent
<1>2. id.index \in Index
  BY <1>1, ValidIsAlive DEF AssignThrows, ThrowsAt
<1>3. PICK c \in EmplaceThrows(m_columns[C], id.index) :
        m_columns' = [m_columns EXCEPT ![C] = c]
  BY DEF AssignThrows
<1>4. /\ c \in Column /\ SparseSet(c) /\ RowsIn(c) = RowsIn(m_columns[C])
      /\ \A q \in RowsIn(m_columns[C]) \ {id.index} : get(c, q) = get(m_columns[C], q)
  BY <1>1, <1>2, EmplaceThrowsKeeps
<1>5. /\ m_columns' \in [Columns -> Column] /\ m_columns'[C] = c
      /\ \A D \in Columns : D # C => m_columns'[D] = m_columns[D]
  BY <1>1, <1>3, <1>4 DEF TypeOK
<1>6. \A D \in Columns : /\ SparseSet(m_columns'[D])
                         /\ RowsIn(m_columns'[D]) = RowsIn(m_columns[D])
  BY <1>1, <1>4, <1>5
<1>7. SlotsUnchanged
  BY DEF AssignThrows, SlotsUnchanged
<1>q. QED  BY <1>4, <1>5, <1>6, <1>7 DEF ColumnsConsistent

(* unassign throws: the same, but for the value it was moving.             *)
LEMMA UnassignThrowsColumns ==
  ASSUME IInv, NEW C \in Columns, NEW id \in Handles, UnassignThrows(C, id)
  PROVE  /\ SlotsUnchanged
         /\ m_columns' \in [Columns -> Column]
         /\ ColumnsConsistent'
         /\ \A D \in Columns : RowsIn(m_columns'[D]) = RowsIn(m_columns[D])
         /\ \A D \in Columns : D # C => m_columns'[D] = m_columns[D]
         /\ Last(m_columns[C].dense) \in RowsIn(m_columns[C])
         /\ \A q \in RowsIn(m_columns[C]) \ {id.index, Last(m_columns[C].dense)} :
              get(m_columns'[C], q) = get(m_columns[C], q)
<1>1. TypeOK /\ SlotsFit /\ \A D \in Columns : m_columns[D] \in Column /\ SparseSet(m_columns[D])
  BY DEF IInv, TypeOK, ColumnsConsistent
<1>2. id.index \in Index
  BY <1>1, ValidIsAlive DEF UnassignThrows, ThrowsAt
<1>3. PICK c \in RemoveThrows(m_columns[C], id.index) :
        m_columns' = [m_columns EXCEPT ![C] = c]
  BY DEF UnassignThrows
<1>4. /\ c \in Column /\ SparseSet(c) /\ RowsIn(c) = RowsIn(m_columns[C])
      /\ Last(m_columns[C].dense) \in RowsIn(m_columns[C])
      /\ \A q \in RowsIn(m_columns[C]) \ {id.index, Last(m_columns[C].dense)} :
           get(c, q) = get(m_columns[C], q)
  BY <1>1, <1>2, RemoveThrowsKeeps
<1>5. /\ m_columns' \in [Columns -> Column] /\ m_columns'[C] = c
      /\ \A D \in Columns : D # C => m_columns'[D] = m_columns[D]
  BY <1>1, <1>3, <1>4 DEF TypeOK
<1>6. \A D \in Columns : /\ SparseSet(m_columns'[D])
                         /\ RowsIn(m_columns'[D]) = RowsIn(m_columns[D])
  BY <1>1, <1>4, <1>5
<1>7. SlotsUnchanged
  BY DEF UnassignThrows, SlotsUnchanged
<1>q. QED  BY <1>4, <1>5, <1>6, <1>7 DEF ColumnsConsistent

(* erase throws in column C: the columns before C have dropped the row and *)
(* kept the others, C is as unassign leaves it, the ones after C as they   *)
(* were.                                                                   *)
LEMMA EraseThrowsColumns ==
  ASSUME IInv, NEW C \in Columns, NEW id \in Handles, EraseThrows(C, id)
  PROVE  /\ SlotsUnchanged
         /\ m_columns' \in [Columns -> Column]
         /\ ColumnsConsistent'
         /\ \A D \in Columns :
              RowsIn(m_columns'[D]) = IF D \in Earlier(C)
                                      THEN RowsIn(m_columns[D]) \ {id.index}
                                      ELSE RowsIn(m_columns[D])
         /\ \A D \in Columns : D # C =>
              \A q \in RowsIn(m_columns[D]) \ {id.index} :
                get(m_columns'[D], q) = get(m_columns[D], q)
         /\ Last(m_columns[C].dense) \in RowsIn(m_columns[C])
         /\ \A q \in RowsIn(m_columns[C]) \ {id.index, Last(m_columns[C].dense)} :
              get(m_columns'[C], q) = get(m_columns[C], q)
<1>1. TypeOK /\ SlotsFit /\ \A D \in Columns : m_columns[D] \in Column /\ SparseSet(m_columns[D])
  BY DEF IInv, TypeOK, ColumnsConsistent
<1>2. id.index \in Index
  BY <1>1, ValidIsAlive DEF EraseThrows, ThrowsAt
<1> DEFINE after(c) == [D \in Columns |->
                          IF D = C THEN c
                          ELSE IF D \in Earlier(C) THEN remove(m_columns[D], id.index)
                          ELSE m_columns[D]]
<1>3. PICK c \in RemoveThrows(m_columns[C], id.index) : m_columns' = after(c)
  BY DEF EraseThrows, FoldThrows
<1>4. /\ c \in Column /\ SparseSet(c) /\ RowsIn(c) = RowsIn(m_columns[C])
      /\ Last(m_columns[C].dense) \in RowsIn(m_columns[C])
      /\ \A q \in RowsIn(m_columns[C]) \ {id.index, Last(m_columns[C].dense)} :
           get(c, q) = get(m_columns[C], q)
  BY <1>1, <1>2, RemoveThrowsKeeps
<1>5. m_columns' = [D \in Columns |-> m_columns'[D]] /\ m_columns'[C] = c
  BY <1>3
<1>6. C \notin Earlier(C)
  BY DeclarationAssumption DEF Earlier
<1>7. ASSUME NEW D \in Columns, D # C
      PROVE  /\ m_columns'[D] \in Column /\ SparseSet(m_columns'[D])
             /\ RowsIn(m_columns'[D]) = IF D \in Earlier(C)
                                        THEN RowsIn(m_columns[D]) \ {id.index}
                                        ELSE RowsIn(m_columns[D])
             /\ \A q \in RowsIn(m_columns[D]) \ {id.index} :
                  get(m_columns'[D], q) = get(m_columns[D], q)
  <2>1. CASE D \in Earlier(C)
    <3>1. m_columns'[D] = remove(m_columns[D], id.index)
      BY <1>3, <1>7, <2>1
    <3>q. QED  BY <1>1, <1>2, <2>1, <3>1, RemoveCorrect
  <2>2. CASE D \notin Earlier(C)
    <3>1. m_columns'[D] = m_columns[D]
      BY <1>3, <1>7, <2>2
    <3>q. QED  BY <1>1, <2>2, <3>1
  <2>q. QED  BY <2>1, <2>2
<1>8. \A D \in Columns :
        /\ m_columns'[D] \in Column /\ SparseSet(m_columns'[D])
        /\ RowsIn(m_columns'[D]) = IF D \in Earlier(C)
                                   THEN RowsIn(m_columns[D]) \ {id.index}
                                   ELSE RowsIn(m_columns[D])
  BY <1>4, <1>5, <1>6, <1>7
<1>9. m_columns' \in [Columns -> Column]
  BY <1>5, <1>8
<1>10. SlotsUnchanged
  BY DEF EraseThrows, SlotsUnchanged
<1>q. QED  BY <1>4, <1>5, <1>7, <1>8, <1>9, <1>10 DEF ColumnsConsistent

(* A reorder by rows whose order names each once, done in some columns     *)
(* while the others keep their rows, takes from a column no row but those  *)
(* that the order does not name.                                           *)
LEMMA PartlyReordered ==
  ASSUME IInv, NEW order \in Seq(Index), IsInjective(order),
         m_columns' = [D \in Columns |-> m_columns'[D]],
         \A D \in Columns :
           \/ m_columns'[D] = reorder(m_columns[D], order)
           \/ /\ m_columns'[D] \in Column /\ SparseSet(m_columns'[D])
              /\ RowsIn(m_columns'[D]) = RowsIn(m_columns[D])
  PROVE  /\ m_columns' \in [Columns -> Column]
         /\ ColumnsConsistent'
         /\ \A D \in Columns :
              /\ RowsIn(m_columns'[D]) \subseteq RowsIn(m_columns[D])
              /\ RowsIn(m_columns[D]) \cap ToSet(order) \subseteq RowsIn(m_columns'[D])
<1>1. \A D \in Columns : m_columns[D] \in Column /\ SparseSet(m_columns[D])
  BY DEF IInv, TypeOK, ColumnsConsistent
<1>2. ASSUME NEW D \in Columns
      PROVE  /\ m_columns'[D] \in Column /\ SparseSet(m_columns'[D])
             /\ RowsIn(m_columns'[D]) \subseteq RowsIn(m_columns[D])
             /\ RowsIn(m_columns[D]) \cap ToSet(order) \subseteq RowsIn(m_columns'[D])
  <2>1. CASE m_columns'[D] = reorder(m_columns[D], order)
    BY <1>1, <2>1, ReorderCorrect
  <2>2. CASE m_columns'[D] # reorder(m_columns[D], order)
    BY <2>2
  <2>q. QED  BY <2>1, <2>2
<1>3. m_columns' \in [Columns -> Column]
  BY <1>2
<1>q. QED  BY <1>2, <1>3 DEF ColumnsConsistent

(* The orders of a sort by a column, and that of sort_by_multi, name rows  *)
(* and each once, the latter all alive rows.                               *)
LEMMA SortOrders ==
  ASSUME IInv
  PROVE  /\ \A D \in Columns : \A order \in OrdersBy(D) :
              order \in Seq(Index) /\ IsInjective(order)
         /\ \A criteria \in Criteria : \A order \in OrdersByMulti(criteria) :
              /\ order \in Seq(Index) /\ IsInjective(order)
              /\ ToSet(order) = AliveSlots
<1>1. ASSUME NEW D \in Columns, NEW order \in OrdersBy(D)
      PROVE  order \in Seq(Index) /\ IsInjective(order)
  <2>1. order \in SetToSeqs(RowsIn(m_columns[D]))
    BY DEF OrdersBy
  <2>2. RowsIn(m_columns[D]) \subseteq Index
    BY DEF RowsIn
  <2>3. IsFiniteSet(RowsIn(m_columns[D]))
    <3>1. IsFiniteSet(Index)
      BY NposAssumption, 0 \in Int, npos - 1 \in Int, FS_Interval DEF Index
    <3>q. QED  BY <2>2, <3>1, FS_Subset
  <2>4. order \in Seq(RowsIn(m_columns[D])) /\ IsInjective(order)
    BY <2>1, <2>3, OrdersOfSet
  <2>q. QED  BY <2>2, <2>4, SeqMonotonic
<1>2. ASSUME NEW criteria \in Criteria, NEW order \in OrdersByMulti(criteria)
      PROVE  /\ order \in Seq(Index) /\ IsInjective(order)
             /\ ToSet(order) = AliveSlots
  <2>1. order \in SetToSeqs(AliveSlots)
    BY DEF OrdersByMulti
  <2>q. QED  BY <2>1, AliveOrder
<1>q. QED  BY <1>1, <1>2

(* A fold of reorder throws in column C: the ones before it are reordered, *)
(* the others have their rows.                                             *)
LEMMA SortFoldThrows ==
  ASSUME IInv, NEW by, NEW C \in Columns,
         NEW order \in Seq(Index), IsInjective(order), SortThrows(by, C, order)
  PROVE  /\ SlotsUnchanged
         /\ m_columns' = [D \in Columns |-> m_columns'[D]]
         /\ thrown' = [by |-> by, order |-> order]
         /\ \A D \in Columns :
              \/ m_columns'[D] = reorder(m_columns[D], order)
              \/ /\ m_columns'[D] \in Column /\ SparseSet(m_columns'[D])
                 /\ RowsIn(m_columns'[D]) = RowsIn(m_columns[D])
<1>1. \A D \in Columns : m_columns[D] \in Column /\ SparseSet(m_columns[D])
  BY DEF IInv, TypeOK, ColumnsConsistent
<1>2. PICK c \in ReorderThrows(m_columns[C], order) :
        m_columns' = [D \in Columns |->
                        IF D = C THEN c
                        ELSE IF D \in Earlier(C) THEN reorder(m_columns[D], order)
                        ELSE m_columns[D]]
  BY DEF SortThrows, FoldThrows
<1>3. c \in Column /\ SparseSet(c) /\ RowsIn(c) = RowsIn(m_columns[C])
  BY <1>1, ReorderThrowsKeeps
<1>4. m_columns' = [D \in Columns |-> m_columns'[D]]
  BY <1>2
<1>5. ASSUME NEW D \in Columns
      PROVE  \/ m_columns'[D] = reorder(m_columns[D], order)
             \/ /\ m_columns'[D] \in Column /\ SparseSet(m_columns'[D])
                /\ RowsIn(m_columns'[D]) = RowsIn(m_columns[D])
  <2>1. \/ D = C /\ m_columns'[D] = c
        \/ m_columns'[D] = reorder(m_columns[D], order)
        \/ m_columns'[D] = m_columns[D]
    BY <1>2
  <2>q. QED  BY <1>1, <1>3, <2>1
<1>6. SlotsUnchanged /\ thrown' = [by |-> by, order |-> order]
  BY DEF SortThrows, SlotsUnchanged
<1>q. QED  BY <1>4, <1>5, <1>6

(* The tasks of a parallel sort end with some of them failed: each column  *)
(* is reordered or has its rows.                                           *)
LEMMA SortTasksThrow ==
  ASSUME IInv, NEW done \in SUBSET Columns, SortParallelThrows(done)
  PROVE  \E order \in UNION {OrdersBy(D) : D \in Columns} :
           /\ SlotsUnchanged
           /\ m_columns' = [D \in Columns |-> m_columns'[D]]
           /\ thrown' = [by |-> "sort_by_column_parallel", order |-> order]
           /\ \A D \in Columns :
                \/ m_columns'[D] = reorder(m_columns[D], order)
                \/ /\ m_columns'[D] \in Column /\ SparseSet(m_columns'[D])
                   /\ RowsIn(m_columns'[D]) = RowsIn(m_columns[D])
<1> DEFINE cells(order) == {p \in (Columns \ done) \X ToSet(order) :
                              contains(m_columns[p[1]], p[2])}
           cell(left, D) == [r \in Index |-> left[<<D, r>>]]
<1>1. \A D \in Columns : m_columns[D] \in Column /\ SparseSet(m_columns[D])
  BY DEF IInv, TypeOK, ColumnsConsistent
<1>2. PICK order \in UNION {OrdersBy(D) : D \in Columns} :
        \E left \in [cells(order) -> Values] :
          /\ m_columns' = [D \in Columns |->
                             IF D \in done THEN reorder(m_columns[D], order)
                             ELSE MovedOut(m_columns[D], order, cell(left, D))]
          /\ thrown' = [by |-> "sort_by_column_parallel", order |-> order]
  BY DEF SortParallelThrows
<1>3. PICK left \in [cells(order) -> Values] :
        /\ m_columns' = [D \in Columns |->
                           IF D \in done THEN reorder(m_columns[D], order)
                           ELSE MovedOut(m_columns[D], order, cell(left, D))]
        /\ thrown' = [by |-> "sort_by_column_parallel", order |-> order]
  BY <1>2
<1>4. ASSUME NEW D \in Columns \ done,
             NEW r \in RowsIn(m_columns[D]) \cap ToSet(order)
      PROVE  cell(left, D)[r] \in Values
  <2>1. <<D, r>> \in cells(order) /\ r \in Index
    BY DEF RowsIn
  <2> HIDE DEF cells
  <2>q. QED  BY <1>3, <2>1
<1> HIDE DEF cells, cell
<1>5. ASSUME NEW D \in Columns
      PROVE  \/ m_columns'[D] = reorder(m_columns[D], order)
             \/ /\ m_columns'[D] \in Column /\ SparseSet(m_columns'[D])
                /\ RowsIn(m_columns'[D]) = RowsIn(m_columns[D])
  <2>1. CASE D \in done
    BY <1>3, <2>1
  <2>2. CASE D \notin done
    <3>1. m_columns'[D] = MovedOut(m_columns[D], order, cell(left, D))
      BY <1>3, <2>2
    <3>q. QED  BY <1>1, <1>4, <2>2, <3>1, MovedOutKeeps
  <2>q. QED  BY <2>1, <2>2
<1>6. SlotsUnchanged
  BY DEF SortParallelThrows, SlotsUnchanged
<1>7. m_columns' = [D \in Columns |-> m_columns'[D]]
  BY <1>3
<1>q. QED  BY <1>2, <1>3, <1>5, <1>6, <1>7

(* One of the three sorts throws while the columns are reordered.          *)
ASortThrows ==
  \/ \E C \in Columns : SortByColumnThrows(C) \/ SortByMultiThrows(C)
  \/ \E done \in (SUBSET Columns) \ {Columns} : SortParallelThrows(done)

(* It takes from the columns no row but those that the order does not      *)
(* name, and that of sort_by_multi names every row.                        *)
LEMMA SortThrowsColumns ==
  ASSUME IInv, ASortThrows
  PROVE  /\ SlotsUnchanged
         /\ m_columns' \in [Columns -> Column]
         /\ ColumnsConsistent'
         /\ \A D \in Columns :
              /\ RowsIn(m_columns'[D]) \subseteq RowsIn(m_columns[D])
              /\ RowsIn(m_columns[D]) \cap ToSet(thrown'.order)
                   \subseteq RowsIn(m_columns'[D])
         /\ \/ thrown'.by \in {"sort_by_column", "sort_by_column_parallel"}
            \/ thrown'.by = "sort_by_multi" /\ ToSet(thrown'.order) = AliveSlots
<1> DEFINE Reordering(order) ==
             /\ SlotsUnchanged
             /\ m_columns' = [D \in Columns |-> m_columns'[D]]
             /\ \A D \in Columns :
                  \/ m_columns'[D] = reorder(m_columns[D], order)
                  \/ /\ m_columns'[D] \in Column /\ SparseSet(m_columns'[D])
                     /\ RowsIn(m_columns'[D]) = RowsIn(m_columns[D])
           Drops(order) ==
             /\ SlotsUnchanged
             /\ m_columns' \in [Columns -> Column]
             /\ ColumnsConsistent'
             /\ \A D \in Columns :
                  /\ RowsIn(m_columns'[D]) \subseteq RowsIn(m_columns[D])
                  /\ RowsIn(m_columns[D]) \cap ToSet(order)
                       \subseteq RowsIn(m_columns'[D])
<1>1. ASSUME NEW order \in Seq(Index), IsInjective(order), Reordering(order)
      PROVE  Drops(order)
  BY <1>1, PartlyReordered
<1>2. ASSUME NEW C \in Columns, SortByColumnThrows(C)
      PROVE  Drops(thrown'.order) /\ thrown'.by = "sort_by_column"
  <2>0. PICK D \in Columns :
          \E order \in OrdersBy(D) : SortThrows("sort_by_column", C, order)
    BY <1>2 DEF SortByColumnThrows
  <2>1. PICK order \in OrdersBy(D) : SortThrows("sort_by_column", C, order)
    BY <2>0
  <2>2. order \in Seq(Index) /\ IsInjective(order)
    BY SortOrders
  <2>3. Reordering(order) /\ thrown' = [by |-> "sort_by_column", order |-> order]
    BY <2>1, <2>2, SortFoldThrows
  <2> HIDE DEF Reordering, Drops
  <2>4. Drops(order)
    BY <1>1, <2>2, <2>3
  <2>q. QED  BY <2>3, <2>4
<1>3. ASSUME NEW C \in Columns, SortByMultiThrows(C)
      PROVE  /\ Drops(thrown'.order) /\ thrown'.by = "sort_by_multi"
             /\ ToSet(thrown'.order) = AliveSlots
  <2>1. PICK criteria \in Criteria : \E order \in OrdersByMulti(criteria) :
          SortThrows("sort_by_multi", C, order)
    BY <1>3 DEF SortByMultiThrows
  <2>2. PICK order \in OrdersByMulti(criteria) :
          SortThrows("sort_by_multi", C, order)
    BY <2>1
  <2>3. /\ order \in Seq(Index) /\ IsInjective(order)
        /\ ToSet(order) = AliveSlots
    BY SortOrders
  <2>4. Reordering(order) /\ thrown' = [by |-> "sort_by_multi", order |-> order]
    BY <2>2, <2>3, SortFoldThrows
  <2> HIDE DEF Reordering, Drops
  <2>5. Drops(order)
    BY <1>1, <2>3, <2>4
  <2>q. QED  BY <2>3, <2>4, <2>5
<1>4. ASSUME NEW done \in SUBSET Columns, SortParallelThrows(done)
      PROVE  Drops(thrown'.order) /\ thrown'.by = "sort_by_column_parallel"
  <2>1. PICK order \in UNION {OrdersBy(D) : D \in Columns} :
          /\ Reordering(order)
          /\ thrown' = [by |-> "sort_by_column_parallel", order |-> order]
    BY <1>4, SortTasksThrow
  <2>2. order \in Seq(Index) /\ IsInjective(order)
    BY SortOrders
  <2> HIDE DEF Reordering, Drops
  <2>3. Drops(order)
    BY <1>1, <2>1, <2>2
  <2>q. QED  BY <2>1, <2>3
<1> HIDE DEF Drops
<1>5. /\ Drops(thrown'.order)
      /\ \/ thrown'.by \in {"sort_by_column", "sort_by_column_parallel"}
         \/ thrown'.by = "sort_by_multi" /\ ToSet(thrown'.order) = AliveSlots
  BY <1>2, <1>3, <1>4 DEF ASortThrows
<1>q. QED  BY <1>5 DEF Drops

-----------------------------------------------------------------------------
(* The inductive invariant of the table survives every fault.              *)

(* Every step keeps the invariant, those that throw included.              *)
LEMMA FaultKeeps ==
  ASSUME IInv, [FaultNext]_faultVars
  PROVE  IInv'
<1>1. CASE Next
  BY <1>1, NextKeeps
<1>2. CASE InsertThrows
  BY <1>2, StutterKeeps DEF InsertThrows
<1>3. ASSUME NEW id \in Handles, NEW C \in Columns, AssignThrows(C, id)
      PROVE  IInv'
  BY <1>3, AssignThrowsColumns, ColumnsOnlyKeep
<1>4. ASSUME NEW id \in Handles, NEW C \in Columns, UnassignThrows(C, id)
      PROVE  IInv'
  BY <1>4, UnassignThrowsColumns, ColumnsOnlyKeep
<1>5. ASSUME NEW id \in Handles, NEW C \in Columns, EraseThrows(C, id)
      PROVE  IInv'
  <2>1. /\ SlotsUnchanged /\ m_columns' \in [Columns -> Column]
        /\ ColumnsConsistent'
        /\ \A D \in Columns : RowsIn(m_columns'[D]) \subseteq RowsIn(m_columns[D])
    BY <1>5, EraseThrowsColumns
  <2>q. QED  BY <2>1, ColumnsOnlyKeep
<1>6. CASE ASortThrows
  <2>1. /\ SlotsUnchanged /\ m_columns' \in [Columns -> Column]
        /\ ColumnsConsistent'
        /\ \A D \in Columns : RowsIn(m_columns'[D]) \subseteq RowsIn(m_columns[D])
    BY <1>6, SortThrowsColumns
  <2>q. QED  BY <2>1, ColumnsOnlyKeep
<1>7. CASE UNCHANGED faultVars
  BY <1>7, StutterKeeps DEF faultVars
<1>q. QED  BY <1>1, <1>2, <1>3, <1>4, <1>5, <1>6, <1>7 DEF FaultNext, ASortThrows

(* Whatever throws, wherever and however often, and whatever the program   *)
(* goes on to call: slots, free list and columns fit together.             *)
THEOREM FaultInvariance == FaultSpec => []IInv
<1>1. FaultInit => IInv
  BY InitKeeps DEF FaultInit
<1>2. IInv /\ [FaultNext]_faultVars => IInv'
  BY FaultKeeps
<1>q. QED  BY <1>1, <1>2, PTL DEF FaultSpec

(* The types, the agreement of a column's three vectors, and that a column *)
(* only holds values of alive rows with its bit, survive every fault.      *)
THEOREM FaultsKeepColumns ==
  FaultSpec => [](TypeOK /\ ColumnsConsistent /\ PooledIsSigned)
<1>1. IInv => TypeOK /\ ColumnsConsistent /\ PooledIsSigned
  BY DEF IInv
<1>q. QED  BY <1>1, FaultInvariance, PTL

-----------------------------------------------------------------------------
(* Torn rows.                                                              *)

(* Of the calls that do not throw only a sort by a column that the row     *)
(* lacks tears it.                                                         *)
LEMMA NextTears ==
  ASSUME IInv, Next,
         NEW C \in Columns, NEW r \in Index, Torn(C, r)', ~Torn(C, r)
  PROVE  \E D \in Columns : ~contains(m_columns[D], r) /\ sort_by_column(D)
<1>1. /\ TypeOK /\ SlotsFit /\ ColumnsConsistent /\ PooledIsSigned
      /\ AliveSlots \subseteq Slots /\ Slots \subseteq Index
  BY SlotFacts DEF IInv
<1>2. PICK chain : FreeChain(chain)
  BY DEF IInv
<1>3. /\ r \in AliveSlots' /\ C \in At(m_rows', r).signature
      /\ r \notin RowsIn(m_columns'[C])
  BY DEF Torn, RowsIn
<1>4. r \in AliveSlots /\ C \in At(m_rows, r).signature => r \in RowsIn(m_columns[C])
  BY DEF Torn, RowsIn
<1>5. CASE InsertRecycled
  <2>1. /\ \A j \in Slots :
             j # m_free_head => At(m_rows', j) = At(m_rows, j)
        /\ At(m_rows', m_free_head).signature = {}
        /\ AliveSlots' = AliveSlots \cup {m_free_head}
    BY <1>1, <1>2, <1>5, PopChain
  <2>2. m_columns' = m_columns
    BY <1>5 DEF InsertRecycled
  <2>q. QED  BY <1>1, <1>3, <1>4, <2>1, <2>2
<1>6. CASE InsertGrown
  <2> DEFINE i == Len(m_rows)
  <2>1. /\ \A j \in Slots : At(m_rows', j) = At(m_rows, j)
        /\ At(m_rows', i).signature = {}
        /\ AliveSlots' = AliveSlots \cup {i}
    BY <1>1, <1>2, <1>6, GrowChain
  <2>2. m_columns' = m_columns
    BY <1>6 DEF InsertGrown
  <2> HIDE DEF i
  <2>q. QED  BY <1>1, <1>3, <1>4, <2>1, <2>2
<1>7. CASE UNCHANGED vars
  BY <1>3, <1>4, <1>7 DEF vars, AliveSlots, Slots
<1>8. ASSUME NEW id \in Handles, erase(id)
      PROVE  FALSE
  <2> DEFINE i == id.index
  <2>1. i \in AliveSlots /\ i \in Index /\ Released(i)
    BY <1>1, <1>8, ValidIsAlive DEF erase
  <2>2. RowsIn(m_columns'[C]) = RowsIn(m_columns[C]) \ {i}
    BY <1>1, <1>8, <2>1, ErasedColumns DEF erase
  <2> HIDE DEF i
  <2>3. /\ \A j \in Slots : j # i => At(m_rows', j) = At(m_rows, j)
        /\ AliveSlots' = AliveSlots \ {i}
    BY <1>1, <1>2, <2>1, RetireChain, PushChain
  <2>q. QED  BY <1>1, <1>3, <1>4, <2>2, <2>3
<1>9. ASSUME NEW id \in Handles, NEW D \in Columns, unassign(D, id)
      PROVE  FALSE
  <2> DEFINE i   == id.index
             sig == At(m_rows, i).signature \ {D}
  <2>1. i \in AliveSlots /\ i \in Index /\ i \in Slots
    BY <1>1, <1>9, ValidIsAlive DEF unassign
  <2>2. sig \in SUBSET Columns
    BY <1>1, <2>1, SlotFacts DEF RowMeta
  <2>3. /\ RowsIn(m_columns'[D]) = RowsIn(m_columns[D]) \ {i}
        /\ \A E \in Columns : E # D => m_columns'[E] = m_columns[E]
    BY <1>1, <1>9, <2>1, UnassignedColumns DEF unassign
  <2>4. /\ SignatureWith(i, sig) /\ m_free_links' = m_free_links
        /\ m_free_head' = m_free_head
    BY <1>9 DEF unassign
  <2> HIDE DEF i, sig
  <2>5. /\ At(m_rows', i).signature = sig
        /\ \A j \in Slots : j # i => At(m_rows', j) = At(m_rows, j)
        /\ AliveSlots' = AliveSlots
    BY <1>1, <1>2, <2>1, <2>2, <2>4, SignatureStep
  <2>6. ~(C = D /\ r = i) /\ C \in At(m_rows, r).signature
    BY <1>1, <1>3, <2>5 DEF sig
  <2>7. r \in RowsIn(m_columns[C])
    BY <1>3, <1>4, <2>5, <2>6
  <2>q. QED  BY <1>3, <2>3, <2>6, <2>7
<1>10. ASSUME NEW id \in Handles, NEW D \in Columns, NEW v \in Values,
              assign(D, id, v)
       PROVE  FALSE
  <2> DEFINE i   == id.index
             sig == At(m_rows, i).signature \cup {D}
  <2>1. i \in AliveSlots /\ i \in Index /\ i \in Slots
    BY <1>1, <1>10, ValidIsAlive DEF assign
  <2>2. sig \in SUBSET Columns
    BY <1>1, <2>1, SlotFacts DEF RowMeta
  <2>3. /\ RowsIn(m_columns'[D]) = RowsIn(m_columns[D]) \cup {i}
        /\ \A E \in Columns : E # D => m_columns'[E] = m_columns[E]
    BY <1>1, <1>10, <2>1, AssignedColumns DEF assign
  <2>4. /\ SignatureWith(i, sig) /\ m_free_links' = m_free_links
        /\ m_free_head' = m_free_head
    BY <1>10 DEF assign
  <2> HIDE DEF i, sig
  <2>5. /\ At(m_rows', i).signature = sig
        /\ \A j \in Slots : j # i => At(m_rows', j) = At(m_rows, j)
        /\ AliveSlots' = AliveSlots
    BY <1>1, <1>2, <2>1, <2>2, <2>4, SignatureStep
  <2>6. ~(C = D /\ r = i)
    BY <1>3, <2>3
  <2>7. C \in At(m_rows, r).signature
    BY <1>1, <1>3, <2>5, <2>6 DEF sig
  <2>8. r \in RowsIn(m_columns[C])
    BY <1>3, <1>4, <2>5, <2>7
  <2>q. QED  BY <1>3, <2>3, <2>8
<1>11. CASE clear
  <2>1. Len(m_rows') = 0
    BY <1>11, EmptySeq DEF clear
  <2>q. QED  BY <1>3, <2>1 DEF AliveSlots, Slots
<1>12. ASSUME NEW order \in Seq(Index), IsInjective(order), ReorderAll(order)
       PROVE  r \in RowsIn(m_columns[C]) /\ r \notin ToSet(order) /\ r \in AliveSlots
  <2>1. RowsIn(m_columns'[C]) = RowsIn(m_columns[C]) \cap ToSet(order)
    BY <1>1, <1>12, ReorderedColumns
  <2>2. m_rows' = m_rows /\ AliveSlots' = AliveSlots
    BY <1>12 DEF ReorderAll, AliveSlots, Slots
  <2>q. QED  BY <1>3, <1>4, <2>1, <2>2
<1>13. ASSUME NEW criteria \in Criteria, sort_by_multi(criteria)
       PROVE  FALSE
  <2>1. PICK order \in SetToSeqs(AliveSlots) : ReorderAll(order)
    BY <1>13 DEF sort_by_multi
  <2>2. /\ order \in Seq(Index) /\ IsInjective(order)
        /\ ToSet(order) = AliveSlots
    BY AliveOrder
  <2>q. QED  BY <1>12, <2>1, <2>2
<1>14. ASSUME NEW D \in Columns, sort_by_column(D)
       PROVE  ~contains(m_columns[D], r)
  <2>1. PICK order \in SetToSeqs(ToSet(m_columns[D].dense)) :
          ReorderAll(order)
    BY <1>14 DEF sort_by_column
  <2>2. /\ order \in Seq(Index) /\ IsInjective(order)
        /\ ToSet(order) = RowsIn(m_columns[D])
    BY ColumnOrder
  <2>q. QED  BY <1>12, <2>1, <2>2 DEF RowsIn
<1>q. QED
  BY <1>5, <1>6, <1>7, <1>8, <1>9, <1>10, <1>11, <1>13, <1>14
     DEF Next, CommonNext, insert, InsertOverflow, Refused

(* A row is torn where one column lost it and its slot is as it was.       *)
LEMMA TornByLoss ==
  ASSUME SlotsUnchanged, AliveSlots' = AliveSlots,
         NEW C \in Columns, NEW r \in Index, Torn(C, r)', ~Torn(C, r)
  PROVE  /\ r \in RowsIn(m_columns[C]) /\ r \notin RowsIn(m_columns'[C])
         /\ Handle(r)' = Handle(r)
<1>1. m_rows' = m_rows
  BY DEF SlotsUnchanged
<1>q. QED  BY <1>1 DEF Torn, RowsIn, Handle

(* Nothing but an erase that throws and a sort that leaves the row out     *)
(* takes a row's value and leaves its bit, for any table and any fault.    *)
THEOREM OnlyEraseAndSortTear == FaultSpec => TornByEraseOrSort
<1> DEFINE Allowed(C, r) ==
             \/ /\ thrown'.by = "erase"
                /\ thrown'.id = Handle(r)
                /\ C < thrown'.column
             \/ /\ thrown'.by \in {"sort_by_column", "sort_by_column_parallel"}
                /\ r \notin ToSet(thrown'.order)
             \/ \E D \in Columns : /\ ~contains(m_columns[D], r)
                                    /\ sort_by_column(D)
           Tears == \A C \in Columns, r \in Index :
                      Torn(C, r)' /\ ~Torn(C, r) => Allowed(C, r)
<1>1. ASSUME IInv, [FaultNext]_faultVars,
             NEW C \in Columns, NEW r \in Index, Torn(C, r)', ~Torn(C, r)
      PROVE  Allowed(C, r)
  <2>0. TypeOK /\ SlotsFit
    BY <1>1 DEF IInv
  <2>1. CASE Next
    BY <1>1, <2>1, NextTears
  <2>2. CASE UNCHANGED vars
    BY <1>1, <2>2 DEF vars, Torn, AliveSlots, Slots
  <2>3. ASSUME NEW id \in Handles, NEW E \in Columns,
               AssignThrows(E, id) \/ UnassignThrows(E, id)
        PROVE  FALSE
    <3>1. /\ SlotsUnchanged /\ m_columns' \in [Columns -> Column]
          /\ ColumnsConsistent'
          /\ \A D \in Columns : RowsIn(m_columns'[D]) = RowsIn(m_columns[D])
      BY <1>1, <2>3, AssignThrowsColumns, UnassignThrowsColumns
    <3>2. AliveSlots' = AliveSlots
      BY <1>1, <3>1, ColumnsOnlyKeep
    <3>q. QED  BY <1>1, <3>1, <3>2, TornByLoss
  <2>4. ASSUME NEW id \in Handles, NEW E \in Columns, EraseThrows(E, id)
        PROVE  Allowed(C, r)
    <3>1. /\ SlotsUnchanged /\ m_columns' \in [Columns -> Column]
          /\ ColumnsConsistent'
          /\ \A D \in Columns :
               RowsIn(m_columns'[D]) = IF D \in Earlier(E)
                                       THEN RowsIn(m_columns[D]) \ {id.index}
                                       ELSE RowsIn(m_columns[D])
      BY <1>1, <2>4, EraseThrowsColumns
    <3>2. AliveSlots' = AliveSlots
      BY <1>1, <3>1, ColumnsOnlyKeep
    <3>3. r \in RowsIn(m_columns[C]) /\ r \notin RowsIn(m_columns'[C])
      BY <1>1, <3>1, <3>2, TornByLoss
    <3>4. C \in Earlier(E) /\ r = id.index
      BY <3>1, <3>3
    <3>5. /\ thrown' = [by |-> "erase", column |-> E, id |-> id]
          /\ is_valid(id)
      BY <2>4 DEF EraseThrows, ThrowsAt
    <3>6. id = Handle(r)
      BY <2>0, <3>4, <3>5, ValidIsAlive
    <3>q. QED  BY <3>4, <3>5, <3>6 DEF Earlier
  <2>5. CASE ASortThrows
    <3>1. /\ SlotsUnchanged /\ m_columns' \in [Columns -> Column]
          /\ ColumnsConsistent'
          /\ \A D \in Columns :
               /\ RowsIn(m_columns'[D]) \subseteq RowsIn(m_columns[D])
               /\ RowsIn(m_columns[D]) \cap ToSet(thrown'.order)
                    \subseteq RowsIn(m_columns'[D])
      BY <1>1, <2>5, SortThrowsColumns
    <3>2. AliveSlots' = AliveSlots
      BY <1>1, <3>1, ColumnsOnlyKeep
    <3>3. r \in RowsIn(m_columns[C]) /\ r \notin RowsIn(m_columns'[C])
      BY <1>1, <3>1, <3>2, TornByLoss
    <3>4. r \notin ToSet(thrown'.order) /\ r \in AliveSlots
      BY <1>1, <3>1, <3>3 DEF IInv, PooledIsSigned
    <3>5. thrown'.by \in {"sort_by_column", "sort_by_column_parallel"}
      BY <1>1, <2>5, <3>4, SortThrowsColumns
    <3>q. QED  BY <3>4, <3>5
  <2>q. QED  BY <1>1, <2>1, <2>2, <2>3, <2>4, <2>5
             DEF FaultNext, ASortThrows, InsertThrows, faultVars
<1>2. IInv /\ [FaultNext]_faultVars => Tears
  BY <1>1
<1>3. [][Tears]_faultVars <=> TornByEraseOrSort
  BY DEF TornByEraseOrSort
<1> HIDE DEF Tears
<1>q. QED  BY <1>2, <1>3, FaultInvariance, PTL DEF FaultSpec

-----------------------------------------------------------------------------
(* What else a fault reaches.                                              *)

(* Where a column kept the row and its value, try_get finds the same.      *)
LEMMA SameRead ==
  ASSUME SlotsUnchanged, NEW D \in Columns, NEW id, id.index \in Index,
         id.index \in RowsIn(m_columns'[D]) <=> id.index \in RowsIn(m_columns[D]),
         id.index \in RowsIn(m_columns[D]) =>
           get(m_columns'[D], id.index) = get(m_columns[D], id.index)
  PROVE  try_get(D, id)' = try_get(D, id)
<1>1. m_rows' = m_rows
  BY DEF SlotsUnchanged
<1>2. table_contains(D, id)' <=> table_contains(D, id)
  BY <1>1 DEF table_contains, is_valid
<1>3. contains(m_columns'[D], id.index) <=> contains(m_columns[D], id.index)
  BY DEF RowsIn
<1>4. contains(m_columns[D], id.index) =>
        get(m_columns'[D], id.index) = get(m_columns[D], id.index)
  BY DEF RowsIn
<1>q. QED  BY <1>2, <1>3, <1>4 DEF try_get

(* Two live handles are of two rows.                                       *)
LEMMA ApartRows ==
  ASSUME TypeOK, SlotsFit, NEW id \in LiveHandles, NEW other \in LiveHandles \ {id}
  PROVE  /\ other.index \in AliveSlots /\ other.index \in Index
         /\ other = Handle(other.index) /\ is_valid(other)
         /\ other.index # id.index
<1>1. PICK i \in AliveSlots : id = Handle(i)
  BY DEF LiveHandles
<1>2. PICK j \in AliveSlots : other = Handle(j)
  BY DEF LiveHandles
<1>3. id.index = i /\ other.index = j
  BY <1>1, <1>2 DEF Handle
<1>4. j \in Index /\ j \in 0 .. Len(m_rows) - 1 /\ At(m_rows, j).alive /\ Len(m_rows) \in Nat
  BY SlotFacts DEF AliveSlots
<1>q. QED  BY <1>1, <1>2, <1>3, <1>4 DEF is_valid, Handle

(* A step that works on column C of the row of id: all handles stay valid, *)
(* and of the other rows only the value that remove was moving is touched. *)
Contained(C, id) ==
  /\ LiveHandles' = LiveHandles
  /\ \A D \in Columns, other \in LiveHandles \ {id} :
       \/ try_get(D, other)' = try_get(D, other)
       \/ /\ D = C
          /\ other.index = Last(m_columns[C].dense)
          /\ table_contains(C, other)'
          /\ contains(m_columns[C], other.index)'

(* A call on one row that throws has taken at most values of that row.     *)
LEMMA ThrowIsContained ==
  ASSUME IInv, NEW C \in Columns, NEW id \in LiveHandles,
         SlotsUnchanged, m_columns' \in [Columns -> Column], ColumnsConsistent',
         \A D \in Columns :
           \/ RowsIn(m_columns'[D]) = RowsIn(m_columns[D])
           \/ RowsIn(m_columns'[D]) = RowsIn(m_columns[D]) \ {id.index},
         RowsIn(m_columns'[C]) = RowsIn(m_columns[C]),
         \A D \in Columns : \A q \in RowsIn(m_columns[D]) \ {id.index} :
           \/ get(m_columns'[D], q) = get(m_columns[D], q)
           \/ D = C /\ q = Last(m_columns[C].dense)
  PROVE  Contained(C, id)
<1>1. TypeOK /\ SlotsFit /\ PooledIsSigned
  BY DEF IInv
<1>2. \A D \in Columns : RowsIn(m_columns'[D]) \subseteq RowsIn(m_columns[D])
  OBVIOUS
<1>3. LiveHandles' = LiveHandles
  BY <1>2, ColumnsOnlyKeep
<1>4. ASSUME NEW D \in Columns, NEW other \in LiveHandles \ {id},
             ~(try_get(D, other)' = try_get(D, other))
      PROVE  /\ D = C
             /\ other.index = Last(m_columns[C].dense)
             /\ table_contains(C, other)'
             /\ contains(m_columns[C], other.index)'
  <2> DEFINE q == other.index
  <2>1. /\ q \in AliveSlots /\ q \in Index /\ is_valid(other) /\ q # id.index
    BY <1>1, ApartRows
  <2>2. q \in RowsIn(m_columns'[D]) <=> q \in RowsIn(m_columns[D])
    BY <2>1
  <2>3. q \in RowsIn(m_columns[D]) /\ get(m_columns'[D], q) # get(m_columns[D], q)
    BY <1>4, <2>1, <2>2, SameRead
  <2>4. D = C /\ q = Last(m_columns[C].dense)
    BY <2>1, <2>3
  <2>5. C \in At(m_rows, q).signature
    BY <1>1, <2>3, <2>4 DEF PooledIsSigned
  <2>6. m_rows' = m_rows
    BY DEF SlotsUnchanged
  <2>7. table_contains(C, other)'
    BY <2>1, <2>5, <2>6 DEF table_contains, is_valid
  <2>8. contains(m_columns'[C], q)
    BY <2>2, <2>3, <2>4 DEF RowsIn
  <2>q. QED  BY <2>4, <2>7, <2>8
<1>q. QED  BY <1>3, <1>4 DEF Contained

(* Whatever throws in assign, unassign or erase: the handle stays valid,   *)
(* so that the call can be repeated, and no other row changes, but for the *)
(* value of the one that remove was moving.                                *)
THEOREM FaultsAreContained == FaultSpec => FaultContained
<1> DEFINE Holds == thrown'.by \in {"assign", "unassign", "erase"} =>
                    \A C \in Columns, id \in LiveHandles :
                      /\ thrown'.column = C
                      /\ thrown'.id = id
                      => Contained(C, id)
<1>1. ASSUME IInv, [FaultNext]_faultVars,
             NEW C \in Columns, NEW id \in LiveHandles,
             thrown'.by \in {"assign", "unassign", "erase"},
             thrown'.column = C, thrown'.id = id
      PROVE  Contained(C, id)
  <2>1. CASE Next /\ thrown' = Nothing
    BY <1>1, <2>1 DEF Nothing
  <2>2. CASE InsertThrows
    BY <1>1, <2>2 DEF InsertThrows
  <2>3. CASE ASortThrows
    BY <1>1, <2>3, SortThrowsColumns
  <2>4. CASE UNCHANGED faultVars
    <3>1. UNCHANGED vars
      BY <2>4 DEF faultVars
    <3>q. QED  BY <3>1 DEF vars, Contained, LiveHandles, Handle, AliveSlots, Slots,
                           try_get, table_contains, is_valid
  <2>5. ASSUME NEW jd \in Handles, NEW E \in Columns, AssignThrows(E, jd)
        PROVE  Contained(C, id)
    <3>1. E = C /\ jd = id
      BY <1>1, <2>5 DEF AssignThrows, ThrowsAt
    <3>2. /\ SlotsUnchanged /\ m_columns' \in [Columns -> Column]
          /\ ColumnsConsistent'
          /\ \A D \in Columns : RowsIn(m_columns'[D]) = RowsIn(m_columns[D])
          /\ \A D \in Columns : D # C => m_columns'[D] = m_columns[D]
          /\ \A q \in RowsIn(m_columns[C]) \ {id.index} :
               get(m_columns'[C], q) = get(m_columns[C], q)
      BY <1>1, <2>5, <3>1, AssignThrowsColumns
    <3>q. QED  BY <1>1, <3>2, ThrowIsContained
  <2>6. ASSUME NEW jd \in Handles, NEW E \in Columns, UnassignThrows(E, jd)
        PROVE  Contained(C, id)
    <3>1. E = C /\ jd = id
      BY <1>1, <2>6 DEF UnassignThrows, ThrowsAt
    <3>2. /\ SlotsUnchanged /\ m_columns' \in [Columns -> Column]
          /\ ColumnsConsistent'
          /\ \A D \in Columns : RowsIn(m_columns'[D]) = RowsIn(m_columns[D])
          /\ \A D \in Columns : D # C => m_columns'[D] = m_columns[D]
          /\ \A q \in RowsIn(m_columns[C]) \ {id.index, Last(m_columns[C].dense)} :
               get(m_columns'[C], q) = get(m_columns[C], q)
      BY <1>1, <2>6, <3>1, UnassignThrowsColumns
    <3>q. QED  BY <1>1, <3>2, ThrowIsContained
  <2>7. ASSUME NEW jd \in Handles, NEW E \in Columns, EraseThrows(E, jd)
        PROVE  Contained(C, id)
    <3>1. E = C /\ jd = id
      BY <1>1, <2>7 DEF EraseThrows, ThrowsAt
    <3>2. /\ SlotsUnchanged /\ m_columns' \in [Columns -> Column]
          /\ ColumnsConsistent'
          /\ \A D \in Columns :
               RowsIn(m_columns'[D]) = IF D \in Earlier(C)
                                       THEN RowsIn(m_columns[D]) \ {id.index}
                                       ELSE RowsIn(m_columns[D])
          /\ \A D \in Columns : D # C =>
               \A q \in RowsIn(m_columns[D]) \ {id.index} :
                 get(m_columns'[D], q) = get(m_columns[D], q)
          /\ \A q \in RowsIn(m_columns[C]) \ {id.index, Last(m_columns[C].dense)} :
               get(m_columns'[C], q) = get(m_columns[C], q)
      BY <1>1, <2>7, <3>1, EraseThrowsColumns
    <3>3. C \notin Earlier(C)
      BY DeclarationAssumption DEF Earlier
    <3>4. RowsIn(m_columns'[C]) = RowsIn(m_columns[C])
      BY <3>2, <3>3
    <3>q. QED  BY <1>1, <3>2, <3>4, ThrowIsContained
  <2>q. QED  BY <1>1, <2>1, <2>2, <2>3, <2>4, <2>5, <2>6, <2>7 DEF FaultNext, ASortThrows
<1>2. IInv /\ [FaultNext]_faultVars => Holds
  BY <1>1
<1>3. [][Holds]_faultVars <=> FaultContained
  BY DEF FaultContained, Contained
<1> HIDE DEF Holds
<1>q. QED  BY <1>2, <1>3, FaultInvariance, PTL DEF FaultSpec

-----------------------------------------------------------------------------
(* Sequences of sequences.                                                 *)

(* The definition of FlattenSeq defines a function on the seqs.            *)
LEMMA FlattenRecursion ==
  ASSUME NEW S, NEW seqs \in Seq(Seq(S)), Len(seqs) # 0
  PROVE  \E f : /\ f = [i \in 1 .. Len(seqs) |->
                          IF i = 1 THEN seqs[i] ELSE f[i - 1] \o seqs[i]]
                /\ FlattenSeq(seqs) = f[Len(seqs)]
<1> DEFINE Step(f, i) == IF i = 1 THEN seqs[i] ELSE f[i - 1] \o seqs[i]
           Rec(f, n) == f = [i \in 1 .. n |-> Step(f, i)]
           bad == {n \in Nat : ~\E f : Rec(f, n)}
<1>1. Len(seqs) \in Nat
  BY LenProperties
<1>2. bad = {}
  <2>1. SUFFICES ASSUME bad # {} PROVE FALSE
    OBVIOUS
  <2>2. PICK m \in bad : \A k \in bad : m <= k
    <3>1. bad \subseteq Nat
      OBVIOUS
    <3> HIDE DEF bad
    <3> QED
      BY <2>1, <3>1, LeastNatural
  <2>3. m \in Nat
    OBVIOUS
  <2>4. CASE m = 0
    <3> DEFINE f == [i \in 1 .. 0 |-> <<>>]
    <3>1. Rec(f, 0)
      <4>1. \A i \in 1 .. 0 : FALSE
        OBVIOUS
      <4> HIDE DEF Step
      <4> QED
        BY <4>1
    <3> QED
      BY <2>4, <3>1
  <2>5. CASE m # 0
    <3>1. m - 1 \in Nat /\ m - 1 \notin bad
      <4> HIDE DEF bad
      <4> QED
        BY <2>2, <2>3, <2>5
    <3>2. PICK f : Rec(f, m - 1)
      BY <3>1
    <3> DEFINE g == [i \in 1 .. m |-> Step(f, i)]
    <3>3. \A i \in 1 .. m - 1 : g[i] = f[i]
      <4> HIDE DEF Step
      <4>0. f = [i \in 1 .. m - 1 |-> Step(f, i)]
        BY <3>2
      <4>1. \A i \in 1 .. m - 1 : i \in 1 .. m
        BY <2>3
      <4>2. \A i \in 1 .. m - 1 : f[i] = Step(f, i)
        BY ONLY <4>0
      <4> QED
        BY <4>1, <4>2
    <3>4. \A i \in 1 .. m : Step(g, i) = Step(f, i)
      <4>1. \A i \in 1 .. m : i # 1 => i - 1 \in 1 .. m - 1
        BY <2>3
      <4> HIDE DEF g
      <4> QED
        BY <3>3, <4>1
    <3>5. Rec(g, m)
      <4> HIDE DEF Step
      <4> QED
        BY <3>4
    <3> QED
      BY <3>5
  <2> QED
    BY <2>4, <2>5
<1>3. \E f : Rec(f, Len(seqs))
  BY <1>1, <1>2
<1>4. Rec(CHOOSE f : Rec(f, Len(seqs)), Len(seqs))
  BY <1>3
<1>5. FlattenSeq(seqs) = (CHOOSE f : Rec(f, Len(seqs)))[Len(seqs)]
  BY DEF FlattenSeq
<1> QED
  BY <1>4, <1>5

(* The loop that replays a column defines a function on its entries.       *)
LEMMA ReplayedRecursion ==
  ASSUME NEW dense \in Seq(Index), NEW data
  PROVE  \E f : /\ f = [i \in 0 .. Len(dense) |->
                          IF i = 0 THEN EmptyColumn
                          ELSE emplace(f[i - 1], dense[i], data[i])]
                /\ Replayed(dense, data) = f[Len(dense)]
<1> DEFINE Step(f, i) == IF i = 0 THEN EmptyColumn
                         ELSE emplace(f[i - 1], dense[i], data[i])
           Rec(f, n) == f = [i \in 0 .. n |-> Step(f, i)]
           bad == {n \in Nat : ~\E f : Rec(f, n)}
<1>1. Len(dense) \in Nat
  BY LenProperties
<1>2. bad = {}
  <2>1. SUFFICES ASSUME bad # {} PROVE FALSE
    OBVIOUS
  <2>2. PICK m \in bad : \A k \in bad : m <= k
    <3>1. bad \subseteq Nat
      OBVIOUS
    <3> HIDE DEF bad
    <3> QED
      BY <2>1, <3>1, LeastNatural
  <2>3. m \in Nat
    OBVIOUS
  <2>4. CASE m = 0
    <3> DEFINE f == [i \in 0 .. 0 |-> EmptyColumn]
    <3>1. Rec(f, 0)
      OBVIOUS
    <3> QED
      BY <2>4, <3>1
  <2>5. CASE m # 0
    <3>1. m - 1 \in Nat /\ m - 1 \notin bad
      <4> HIDE DEF bad
      <4> QED
        BY <2>2, <2>3, <2>5
    <3>2. PICK f : Rec(f, m - 1)
      BY <3>1
    <3> DEFINE g == [i \in 0 .. m |-> Step(f, i)]
    <3>3. \A i \in 0 .. m - 1 : g[i] = f[i]
      <4> HIDE DEF Step
      <4>1. \A i \in 0 .. m - 1 : i \in 0 .. m /\ f[i] = Step(f, i)
        BY <2>3, <3>2
      <4> QED
        BY <4>1
    <3>4. \A i \in 0 .. m : Step(g, i) = Step(f, i)
      <4>1. \A i \in 0 .. m : i # 0 => i - 1 \in 0 .. m - 1
        BY <2>3
      <4> HIDE DEF g
      <4> QED
        BY <3>3, <4>1
    <3>5. Rec(g, m)
      BY <3>4
    <3> QED
      BY <3>5
  <2> QED
    BY <2>4, <2>5
<1>3. \E f : Rec(f, Len(dense))
  BY <1>1, <1>2
<1>4. Rec(CHOOSE f : Rec(f, Len(dense)), Len(dense))
  BY <1>3
<1>5. Replayed(dense, data) = (CHOOSE f : Rec(f, Len(dense)))[Len(dense)]
  BY DEF Replayed
<1> QED
  BY <1>4, <1>5

(* Where the columns of a buffer are is a function, defined column by      *)
(* column.                                                                 *)
LEMMA ColumnAtRecursion ==
  ASSUME NEW bytes, Len(Declared) \in Nat
  PROVE  LET at == ColumnAt(bytes)
         IN  at = [k \in 1 .. Len(Declared) + 1 |->
                     IF k = 1 THEN LinksAt(bytes) + bytes[4]
                     ELSE at[k - 1] + 1 + 2 * Word(bytes, at[k - 1] + 1)]
<1> DEFINE Step(f, i) == IF i = 1 THEN LinksAt(bytes) + bytes[4]
                         ELSE f[i - 1] + 1 + 2 * Word(bytes, f[i - 1] + 1)
           Rec(f, n) == f = [i \in 1 .. n |-> Step(f, i)]
           bad == {n \in Nat : ~\E f : Rec(f, n)}
<1>2. bad = {}
  <2>1. SUFFICES ASSUME bad # {} PROVE FALSE
    OBVIOUS
  <2>2. PICK m \in bad : \A k \in bad : m <= k
    <3>1. bad \subseteq Nat
      OBVIOUS
    <3> HIDE DEF bad
    <3> QED
      BY <2>1, <3>1, LeastNatural
  <2>3. m \in Nat
    OBVIOUS
  <2>4. CASE m = 0
    <3> DEFINE f == [i \in 1 .. 0 |-> <<>>]
    <3>1. Rec(f, 0)
      <4>1. \A i \in 1 .. 0 : FALSE
        OBVIOUS
      <4> HIDE DEF Step
      <4> QED
        BY <4>1
    <3> QED
      BY <2>4, <3>1
  <2>5. CASE m # 0
    <3>1. m - 1 \in Nat /\ m - 1 \notin bad
      <4> HIDE DEF bad
      <4> QED
        BY <2>2, <2>3, <2>5
    <3>2. PICK f : Rec(f, m - 1)
      BY <3>1
    <3> DEFINE g == [i \in 1 .. m |-> Step(f, i)]
    <3>3. \A i \in 1 .. m - 1 : g[i] = f[i]
      <4> HIDE DEF Step
      <4>0. f = [i \in 1 .. m - 1 |-> Step(f, i)]
        BY <3>2
      <4>1. \A i \in 1 .. m - 1 : i \in 1 .. m
        BY <2>3
      <4>2. \A i \in 1 .. m - 1 : f[i] = Step(f, i)
        BY ONLY <4>0
      <4> QED
        BY <4>1, <4>2
    <3>4. \A i \in 1 .. m : Step(g, i) = Step(f, i)
      <4>1. \A i \in 1 .. m : i # 1 => i - 1 \in 1 .. m - 1
        BY <2>3
      <4> HIDE DEF g
      <4> QED
        BY <3>3, <4>1
    <3>5. Rec(g, m)
      <4> HIDE DEF Step
      <4> QED
        BY <3>4
    <3> QED
      BY <3>5
  <2> QED
    BY <2>4, <2>5
<1>3. \E f : Rec(f, Len(Declared) + 1)
  <2>1. Len(Declared) + 1 \in Nat
    OBVIOUS
  <2>2. Len(Declared) + 1 \notin bad
    BY <1>2
  <2> HIDE DEF Rec
  <2> QED
    BY <2>1, <2>2
<1>4. Rec(CHOOSE f : Rec(f, Len(Declared) + 1), Len(Declared) + 1)
  BY <1>3
<1>5. ColumnAt(bytes) = CHOOSE f : Rec(f, Len(Declared) + 1)
  BY DEF ColumnAt
<1> QED
  BY <1>4, <1>5

(* Where the parts of a flattened sequence are: part i begins behind the   *)
(* first off[i - 1] elements.                                              *)
Places(seqs, flat, off) ==
  /\ off \in [0 .. Len(seqs) -> Nat] /\ off[0] = 0
  /\ Len(flat) = off[Len(seqs)]
  /\ \A i \in 1 .. Len(seqs) :
       /\ off[i] = off[i - 1] + Len(seqs[i])
       /\ off[i] <= off[Len(seqs)]
       /\ \A j \in 1 .. Len(seqs[i]) : flat[off[i - 1] + j] = seqs[i][j]

(* Every part is somewhere.                                                *)
LEMMA FlattenPlaces ==
  ASSUME NEW S, NEW seqs \in Seq(Seq(S))
  PROVE  /\ FlattenSeq(seqs) \in Seq(S)
         /\ \E off : Places(seqs, FlattenSeq(seqs), off)
<1> DEFINE n == Len(seqs)
<1>1. n \in Nat /\ \A i \in 1 .. n : seqs[i] \in Seq(S) /\ Len(seqs[i]) \in Nat
  BY LenProperties, ElementOfSeq
<1>2. CASE n = 0
  <2> DEFINE off == [i \in 0 .. n |-> 0]
  <2>1. FlattenSeq(seqs) = seqs /\ seqs = <<>>
    BY <1>2, EmptySeq DEF FlattenSeq
  <2>2. off \in [0 .. n -> Nat] /\ off[0] = 0 /\ off[n] = 0
    BY <1>2
  <2>3. <<>> \in Seq(S) /\ Len(<<>>) = 0
    BY EmptySeq
  <2>4. \A i \in 1 .. n : FALSE
    BY <1>2
  <2> HIDE DEF off, n
  <2> QED
    BY <2>1, <2>2, <2>3, <2>4 DEF n, Places
<1>3. CASE n # 0
  <2>1. PICK f : /\ f = [i \in 1 .. n |->
                           IF i = 1 THEN seqs[i] ELSE f[i - 1] \o seqs[i]]
                 /\ FlattenSeq(seqs) = f[n]
    BY <1>3, FlattenRecursion
  <2> DEFINE off == [i \in 0 .. n |-> IF i = 0 THEN 0 ELSE Len(f[i])]
             Good(m) == /\ f[m] \in Seq(S)
                        /\ off[m] = off[m - 1] + Len(seqs[m])
                        /\ \A i \in 1 .. m :
                             /\ off[i] <= off[m]
                             /\ \A j \in 1 .. Len(seqs[i]) : f[m][off[i - 1] + j] = seqs[i][j]
  <2> HIDE DEF n
  <2>2. f[1] = seqs[1] /\ 1 \in 1 .. n
    BY <1>1, <1>3, <2>1
  <2>3. ASSUME NEW m \in 2 .. n  PROVE f[m] = f[m - 1] \o seqs[m]
    <3>1. m \in 1 .. n /\ m # 1
      BY <1>1
    <3> QED
      BY <2>1, <3>1
  <2>4. off[0] = 0 /\ \A m \in 1 .. n : off[m] = Len(f[m])
    BY <1>1
  <2> HIDE DEF off
  <2>5. Good(1)
    BY <1>1, <2>2, <2>4
  <2>6. ASSUME NEW m \in 2 .. n, \A k \in 1 .. m - 1 : Good(k)
        PROVE  Good(m)
    <3>0. m \in 1 .. n /\ m - 1 \in 1 .. n /\ m \in Nat
      BY <1>1
    <3>1. /\ f[m - 1] \in Seq(S) /\ seqs[m] \in Seq(S)
          /\ Len(f[m - 1]) \in Nat /\ Len(seqs[m]) \in Nat
      BY <1>1, <2>6, <3>0, LenProperties
    <3>2. /\ f[m] \in Seq(S)
          /\ Len(f[m]) = Len(f[m - 1]) + Len(seqs[m])
          /\ \A x \in 1 .. Len(f[m - 1]) + Len(seqs[m]) :
               f[m][x] = IF x <= Len(f[m - 1]) THEN f[m - 1][x]
                         ELSE seqs[m][x - Len(f[m - 1])]
      <4>1. /\ f[m - 1] \o seqs[m] \in Seq(S)
            /\ Len(f[m - 1] \o seqs[m]) = Len(f[m - 1]) + Len(seqs[m])
            /\ \A x \in 1 .. Len(f[m - 1]) + Len(seqs[m]) :
                 (f[m - 1] \o seqs[m])[x] = IF x <= Len(f[m - 1]) THEN f[m - 1][x]
                                           ELSE seqs[m][x - Len(f[m - 1])]
        BY <3>1, ConcatProperties
      <4> QED
        BY <2>3, <4>1
    <3>3. off[m] = off[m - 1] + Len(seqs[m]) /\ off[m - 1] = Len(f[m - 1])
      BY <2>4, <3>0, <3>2
    <3>4. ASSUME NEW i \in 1 .. m
          PROVE  /\ off[i] <= off[m]
                 /\ \A j \in 1 .. Len(seqs[i]) : f[m][off[i - 1] + j] = seqs[i][j]
      <4>1. CASE i = m
        <5>1. ASSUME NEW j \in 1 .. Len(seqs[m])
              PROVE  f[m][Len(f[m - 1]) + j] = seqs[m][j]
          <6> DEFINE x == Len(f[m - 1]) + j
          <6>1. /\ x \in 1 .. Len(f[m - 1]) + Len(seqs[m])
                /\ ~(x <= Len(f[m - 1])) /\ x - Len(f[m - 1]) = j
            <7> DEFINE p == Len(f[m - 1])
                       q == Len(seqs[m])
            <7>1. p \in Nat /\ q \in Nat /\ j \in 1 .. q /\ x = p + j
              BY <3>1
            <7> HIDE DEF p, q, x
            <7>2. x \in 1 .. p + q /\ ~(x <= p) /\ x - p = j
              BY <7>1
            <7> QED
              BY <7>2 DEF p, q
          <6> HIDE DEF x
          <6>2. f[m][x] = seqs[m][j]
            BY <3>2, <6>1
          <6> QED
            BY <6>2 DEF x
        <5>2. off[m] <= off[m]
          BY <3>1, <3>3
        <5> QED
          BY <3>3, <4>1, <5>1, <5>2
      <4>2. CASE i # m
        <5>1. i \in 1 .. m - 1 /\ i \in 1 .. n /\ i - 1 \in 0 .. n
          BY <1>1, <4>2
        <5>2. Good(m - 1) /\ Good(i) /\ m - 1 \in 1 .. m - 1
          BY <2>6, <3>0, <5>1
        <5>3. off[i] <= off[m - 1]
          BY <5>1, <5>2
        <5>4. off[i] = off[i - 1] + Len(seqs[i]) /\ Len(seqs[i]) \in Nat
          BY <1>1, <5>1, <5>2
        <5>5. off[i] \in Nat /\ off[i - 1] \in Nat
          <6>1. off[i] \in Nat
            BY <2>4, <5>1, <5>2, LenProperties
          <6>2. CASE i = 1
            <7>1. i - 1 = 0
              BY <6>2
            <7> QED
              BY <2>4, <6>1, <7>1
          <6>3. CASE i # 1
            <7>1. i - 1 \in 1 .. m - 1 /\ i - 1 \in 1 .. n
              BY <5>1, <6>3
            <7>2. f[i - 1] \in Seq(S)
              BY <2>6, <7>1
            <7>3. off[i - 1] = Len(f[i - 1])
              BY <2>4, <7>1
            <7> QED
              BY <6>1, <7>2, <7>3, LenProperties
          <6> QED
            BY <6>1, <6>2, <6>3
        <5>6. ASSUME NEW j \in 1 .. Len(seqs[i])
              PROVE  f[m][off[i - 1] + j] = seqs[i][j]
          <6> DEFINE x == off[i - 1] + j
          <6>1. f[m - 1][x] = seqs[i][j]
            BY <5>1, <5>2
          <6>2. x \in 1 .. Len(f[m - 1]) + Len(seqs[m]) /\ x <= Len(f[m - 1])
            <7> DEFINE a == off[i - 1]
                       l == Len(seqs[i])
                       p == Len(f[m - 1])
                       q == Len(seqs[m])
            <7>1. a \in Nat /\ l \in Nat /\ p \in Nat /\ q \in Nat /\ a + l <= p
              BY <3>1, <3>3, <5>3, <5>4, <5>5
            <7>2. j \in 1 .. l /\ x = a + j
              OBVIOUS
            <7> HIDE DEF a, l, p, q, x
            <7>3. x \in 1 .. p + q /\ x <= p
              BY <7>1, <7>2
            <7> QED
              BY <7>3 DEF p, q
          <6> HIDE DEF x
          <6>3. f[m][x] = f[m - 1][x]
            BY <3>2, <6>2
          <6> QED
            BY <6>1, <6>3 DEF x
        <5>7. off[i] <= off[m]
          <6>1. off[m - 1] \in Nat /\ Len(seqs[m]) \in Nat /\ off[i] \in Nat
            BY <3>1, <3>3, <5>5
          <6> DEFINE a == off[i]
                     b == off[m - 1]
                     c == off[m]
                     l == Len(seqs[m])
          <6>2. c = b + l /\ a <= b /\ b \in Nat /\ l \in Nat /\ a \in Nat
            BY <3>3, <5>3, <6>1
          <6> HIDE DEF a, b, c, l
          <6>3. a <= c
            BY <6>2
          <6> QED
            BY <6>3 DEF a, c
        <5> QED
          BY <5>6, <5>7
      <4> QED
        BY <4>1, <4>2
    <3> QED
      BY <3>2, <3>3, <3>4
  <2> HIDE DEF Good
  <2>7. \A m \in 1 .. n : Good(m)
    <3> DEFINE bad == {m \in 1 .. n : ~Good(m)}
    <3>1. SUFFICES ASSUME bad # {} PROVE FALSE
      OBVIOUS
    <3>2. bad \subseteq Nat
      BY <1>1
    <3>3. PICK m \in bad : \A k \in bad : m <= k
      <4> HIDE DEF bad
      <4> QED
        BY <3>1, <3>2, LeastNatural
    <3>4. m # 1
      BY <2>5, <3>3
    <3>5. m \in 2 .. n
      BY <1>1, <3>3, <3>4
    <3>6. \A k \in 1 .. m - 1 : k \in 1 .. n /\ ~(m <= k)
      BY <1>1, <3>5
    <3>7. \A k \in 1 .. m - 1 : Good(k)
      BY <3>3, <3>6
    <3> QED
      BY <2>6, <3>3, <3>5, <3>7
  <2>8. off \in [0 .. n -> Nat]
    <3>1. \A i \in 1 .. n : off[i] \in Nat
      BY <2>4, <2>7, LenProperties DEF Good
    <3>2. \A i \in 0 .. n : off[i] \in Nat
      BY <1>1, <2>4, <3>1
    <3> QED
      BY <3>2 DEF off
  <2>9. n \in 1 .. n
    BY <1>1, <1>3
  <2>10. \A i \in 1 .. n : /\ off[i] = off[i - 1] + Len(seqs[i])
                           /\ off[i] <= off[n]
                           /\ \A j \in 1 .. Len(seqs[i]) : f[n][off[i - 1] + j] = seqs[i][j]
    BY <2>7, <2>9 DEF Good
  <2>11. f[n] \in Seq(S) /\ Len(f[n]) = off[n]
    BY <2>4, <2>7, <2>9 DEF Good
  <2>12. off[0] = 0
    BY <2>4
  <2>13. PICK flat : flat = f[n]
    OBVIOUS
  <2>14. Places(seqs, flat, off)
    <3>1. /\ off \in [0 .. n -> Nat] /\ off[0] = 0 /\ Len(flat) = off[n]
          /\ \A i \in 1 .. n :
               /\ off[i] = off[i - 1] + Len(seqs[i])
               /\ off[i] <= off[n]
               /\ \A j \in 1 .. Len(seqs[i]) : flat[off[i - 1] + j] = seqs[i][j]
      BY ONLY <2>8, <2>10, <2>11, <2>12, <2>13
    <3> QED
      BY ONLY <3>1, Zenon DEF n, Places
  <2>15. FlattenSeq(seqs) = flat /\ flat \in Seq(S)
    BY <2>1, <2>11, <2>13
  <2> QED
    BY <2>14, <2>15
<1> QED
  BY <1>2, <1>3

(* The declared order lists every column, once.                            *)
LEMMA DeclaredIs ==
  /\ Declared \in Seq(Columns) /\ Len(Declared) \in Nat
  /\ DOMAIN Declared = 1 .. Len(Declared)
  /\ IsInjective(Declared) /\ ToSet(Declared) = Columns
<1>1. \E order : order \in SetToSeqs(Columns)
  <2>1. PICK n \in Nat : ExistsBijection(1 .. n, Columns)
    BY ColumnsAssumption, FS_NatBijection
  <2>2. PICK f : f \in Bijection(1 .. n, Columns)
    BY <2>1 DEF ExistsBijection
  <2>3. f \in [1 .. n -> Columns] /\ IsInjective(f)
        /\ ToSet(f) = Columns
    BY <2>2 DEF Bijection, Injection, Surjection, IsInjective, ToSet
  <2>4. f \in Seq(Columns)
    BY <2>3, FunctionIsVector
  <2> QED
    BY <2>3, <2>4, OrdersOfSet, ColumnsAssumption
<1>2. Declared \in SetToSeqs(Columns)
  BY <1>1 DEF Declared
<1>3. Declared \in Seq(Columns) /\ IsInjective(Declared) /\ ToSet(Declared) = Columns
  BY <1>2, OrdersOfSet, ColumnsAssumption
<1> QED
  BY <1>3, LenProperties

-----------------------------------------------------------------------------
(* Replaying a column.                                                     *)

(* A row that has no value is appended.                                    *)
LEMMA NewIsAppended ==
  ASSUME NEW c \in Column, NEW r \in Index, ~contains(c, r), NEW v
  PROVE  /\ emplace(c, r, v).dense = Append(c.dense, r)
         /\ emplace(c, r, v).data = Append(c.data, v)
<1> DEFINE sparse == Resized(c.sparse, r + 1)
<1>1. c.sparse \in Seq(IndexOrNpos) /\ Len(c.sparse) \in Nat /\ r \in Nat
  BY ColumnParts, LenProperties, NposAssumption DEF Index
<1>2. At(sparse, r) = npos
  <2>1. r \in 0 .. Len(sparse) - 1
    BY <1>1, SparseResized
  <2>2. At(sparse, r) = IF r < Len(c.sparse) THEN At(c.sparse, r) ELSE npos
    BY <1>1, <2>1, SparseResized
  <2> QED
    BY <2>2 DEF contains
<1>3. emplace(c, r, v) = [sparse |-> Put(sparse, r, Len(c.dense)),
                          dense  |-> Append(c.dense, r),
                          data   |-> Append(c.data, v)]
  BY <1>2 DEF emplace
<1> QED
  BY <1>3

(* The rows of a column are those its dense vector lists.                  *)
LEMMA RowsAreDense ==
  ASSUME NEW c \in Column, SparseSet(c)
  PROVE  RowsIn(c) = {c.dense[k] : k \in 1 .. Len(c.dense)}
<1>1. \A k \in 1 .. Len(c.dense) : k - 1 \in 0 .. Len(c.dense) - 1 /\ At(c.dense, k - 1) = c.dense[k]
  BY ColumnFacts DEF At
<1>2. \A k \in 1 .. Len(c.dense) : c.dense[k] \in RowsIn(c)
  BY <1>1, ColumnFacts DEF RowsIn
<1>3. ASSUME NEW r \in RowsIn(c)
      PROVE  \E k \in 1 .. Len(c.dense) : c.dense[k] = r
  <2> DEFINE p == At(c.sparse, r)
  <2>1. p \in 0 .. Len(c.dense) - 1 /\ At(c.dense, p) = r /\ Len(c.dense) \in Nat
    BY ColumnFacts DEF RowsIn
  <2> HIDE DEF p
  <2>2. p + 1 \in 1 .. Len(c.dense) /\ c.dense[p + 1] = r
    BY <2>1 DEF At
  <2> QED
    BY <2>2
<1> QED
  BY <1>2, <1>3

(* Replaying the entries of a column gives the same entries in the same    *)
(* order: only the unused end of the sparse vector may be another.         *)
LEMMA ReplayedSame ==
  ASSUME NEW c \in Column, SparseSet(c)
  PROVE  LET d == Replayed(c.dense, c.data)
         IN  /\ d \in Column /\ SparseSet(d)
             /\ d.dense = c.dense /\ d.data = c.data
             /\ RowsIn(d) = RowsIn(c)
<1> DEFINE n == Len(c.dense)
           Good(u, i) ==
             /\ u \in Column /\ SparseSet(u) /\ Len(u.dense) = i
             /\ \A k \in 1 .. i : u.dense[k] = c.dense[k] /\ u.data[k] = c.data[k]
<1>1. /\ c.dense \in Seq(Index) /\ c.data \in Seq(Values) /\ n \in Nat /\ Len(c.data) = n
      /\ \A i \in 1 .. n : c.dense[i] \in Index /\ c.data[i] \in Values
  BY ColumnParts, ElementOfSeq, LenProperties DEF SparseSet
<1>2. \A i, j \in 1 .. n : c.dense[i] = c.dense[j] => i = j
  <2>1. \A d \in 0 .. n - 1 : At(c.sparse, At(c.dense, d)) = d
    BY ColumnFacts
  <2>2. \A i \in 1 .. n : i - 1 \in 0 .. n - 1 /\ At(c.dense, i - 1) = c.dense[i]
    BY <1>1 DEF At
  <2>3. \A i \in 1 .. n : At(c.sparse, c.dense[i]) = i - 1
    BY <2>1, <2>2
  <2>4. ASSUME NEW i \in 1 .. n, NEW j \in 1 .. n, c.dense[i] = c.dense[j]
        PROVE  i = j
    <3>1. i - 1 = j - 1
      BY <2>3, <2>4
    <3> QED
      BY <1>1, <3>1
  <2> QED
    BY <2>4
<1>3. PICK f : /\ f = [i \in 0 .. n |->
                         IF i = 0 THEN EmptyColumn
                         ELSE emplace(f[i - 1], c.dense[i], c.data[i])]
               /\ Replayed(c.dense, c.data) = f[n]
  BY <1>1, ReplayedRecursion
<1> HIDE DEF n
<1>4. f[0] = EmptyColumn
  <2>1. 0 \in 0 .. n
    BY <1>1
  <2> QED
    BY <1>3, <2>1
<1>5. ASSUME NEW i \in 1 .. n
      PROVE  f[i] = emplace(f[i - 1], c.dense[i], c.data[i])
  <2>1. i \in 0 .. n /\ i # 0
    BY <1>1
  <2> QED
    BY <1>3, <2>1
<1>6. Good(f[0], 0)
  <2>1. f[0] \in Column /\ SparseSet(f[0])
    BY <1>4, EmptyColumnConsistent
  <2>2. Len(f[0].dense) = 0 /\ \A k \in 1 .. 0 : FALSE
    BY <1>4, EmptySeq DEF EmptyColumn
  <2> QED
    BY <2>1, <2>2
<1>7. ASSUME NEW i \in 1 .. n, Good(f[i - 1], i - 1)
      PROVE  Good(f[i], i)
  <2> DEFINE r == c.dense[i]
             v == c.data[i]
  <2>1. PICK u : u = f[i - 1]
    OBVIOUS
  <2>2. /\ u \in Column /\ SparseSet(u) /\ Len(u.dense) = i - 1 /\ Len(u.data) = i - 1
        /\ \A k \in 1 .. i - 1 : u.dense[k] = c.dense[k] /\ u.data[k] = c.data[k]
    BY <1>7, <2>1 DEF SparseSet
  <2>3. r \in Index /\ v \in Values /\ i \in Nat /\ i >= 1
    BY <1>1
  <2>4. ~contains(u, r)
    <3> SUFFICES ASSUME contains(u, r) PROVE FALSE
      OBVIOUS
    <3> DEFINE p == At(u.sparse, r)
    <3>1. p \in 0 .. Len(u.dense) - 1 /\ At(u.dense, p) = r
      BY <2>2, <2>3, ColumnFacts
    <3> HIDE DEF p
    <3>2. p + 1 \in 1 .. i - 1 /\ p + 1 \in 1 .. n /\ p + 1 # i
      BY <1>1, <2>2, <2>3, <3>1
    <3>3. u.dense[p + 1] = r
      BY <3>1 DEF At
    <3>4. c.dense[p + 1] = c.dense[i]
      BY <2>2, <3>2, <3>3
    <3> QED
      BY <1>2, <3>2, <3>4
  <2>5. f[i] = emplace(u, r, v)
    BY <1>5, <2>1
  <2> HIDE DEF r, v
  <2>6. f[i] \in Column /\ SparseSet(f[i])
    BY <2>2, <2>3, <2>5, EmplaceCorrect
  <2>7. f[i].dense = Append(u.dense, r) /\ f[i].data = Append(u.data, v)
    BY <2>2, <2>3, <2>4, <2>5, NewIsAppended
  <2>8. u.dense \in Seq(Index) /\ u.data \in Seq(Values)
    BY <2>2, ColumnParts
  <2>9. /\ Len(f[i].dense) = i
        /\ f[i].dense[i] = r /\ f[i].data[i] = v
        /\ \A k \in 1 .. i - 1 : /\ f[i].dense[k] = u.dense[k]
                                 /\ f[i].data[k] = u.data[k]
    <3>1. /\ Len(Append(u.dense, r)) = i
          /\ Append(u.dense, r)[i] = r
          /\ \A k \in 1 .. i - 1 : Append(u.dense, r)[k] = u.dense[k]
      BY <2>2, <2>3, <2>8, AppendProperties
    <3>2. /\ Append(u.data, v)[i] = v
          /\ \A k \in 1 .. i - 1 : Append(u.data, v)[k] = u.data[k]
      BY <2>2, <2>3, <2>8, AppendProperties
    <3> QED
      BY <2>7, <3>1, <3>2
  <2>10. ASSUME NEW k \in 1 .. i
         PROVE  f[i].dense[k] = c.dense[k] /\ f[i].data[k] = c.data[k]
    <3>1. CASE k = i
      BY <2>9, <3>1 DEF r, v
    <3>2. CASE k # i
      <4>1. k \in 1 .. i - 1
        BY <2>3, <3>2
      <4> QED
        BY <2>2, <2>9, <4>1
    <3> QED
      BY <3>1, <3>2
  <2> QED
    BY <2>6, <2>9, <2>10
<1> HIDE DEF Good
<1>8. Good(f[n], n)
  <2> DEFINE bad == {i \in 0 .. n : ~Good(f[i], i)}
  <2>1. SUFFICES ASSUME bad # {} PROVE FALSE
    BY <1>1
  <2>2. bad \subseteq Nat
    BY <1>1
  <2>3. PICK m \in bad : \A k \in bad : m <= k
    <3> HIDE DEF bad
    <3> QED
      BY <2>1, <2>2, LeastNatural
  <2>4. m # 0
    BY <1>6, <2>3
  <2>5. m \in 1 .. n /\ m - 1 \in 0 .. n /\ ~(m <= m - 1)
    BY <1>1, <2>3, <2>4
  <2>6. Good(f[m - 1], m - 1)
    BY <2>3, <2>5
  <2> QED
    BY <1>7, <2>3, <2>5, <2>6
<1>9. PICK d : d = Replayed(c.dense, c.data)
  OBVIOUS
<1>10. /\ d \in Column /\ SparseSet(d) /\ Len(d.dense) = n /\ Len(d.data) = n
       /\ \A k \in 1 .. n : d.dense[k] = c.dense[k] /\ d.data[k] = c.data[k]
  BY <1>3, <1>8, <1>9 DEF Good, SparseSet
<1>11. d.dense \in Seq(Index) /\ d.data \in Seq(Values)
  BY <1>10, ColumnParts
<1>12. d.dense = c.dense
  BY <1>1, <1>10, <1>11, SeqEqual DEF n
<1>13. d.data = c.data
  BY <1>1, <1>10, <1>11, SeqEqual
<1>14. RowsIn(d) = RowsIn(c)
  <2>1. /\ RowsIn(d) = {d.dense[k] : k \in 1 .. Len(d.dense)}
        /\ RowsIn(c) = {c.dense[k] : k \in 1 .. Len(c.dense)}
    BY <1>10, RowsAreDense
  <2> QED
    BY <1>12, <2>1, Zenon
<1> QED
  BY <1>9, <1>10, <1>12, <1>13, <1>14

-----------------------------------------------------------------------------
(* A table as a value, and what the invariant says of it.                  *)

Now == [rows |-> m_rows, links |-> m_free_links, head |-> m_free_head,
        count |-> m_alive_count, stale |-> stale, columns |-> m_columns]

(* Its alive slots.                                                        *)
AliveOf(t) == {i \in 0 .. Len(t.rows) - 1 : At(t.rows, i).alive}

(* The free list of it.                                                    *)
ChainOf(t, chain) ==
  /\ chain \in Seq((0 .. Len(t.rows) - 1) \ AliveOf(t))
  /\ IsInjective(chain)
  /\ t.head = IF Len(chain) = 0 THEN npos ELSE chain[1]
  /\ \A k \in 1 .. Len(chain) :
       At(t.links, chain[k]) = IF k = Len(chain) THEN npos ELSE chain[k + 1]
  /\ \A i \in (0 .. Len(t.rows) - 1) \ AliveOf(t) :
       \/ At(t.rows, i).generation = max_generation
       \/ \E k \in 1 .. Len(chain) : chain[k] = i

(* The invariant of it.                                                    *)
TableIs(t) ==
  /\ t \in [rows : Seq(RowMeta), links : Seq(IndexOrNpos), head : IndexOrNpos,
            count : Nat, stale : SUBSET Handles, columns : [Columns -> Column]]
  /\ Len(t.rows) <= npos /\ Len(t.links) = Len(t.rows)
  /\ \A C \in Columns : SparseSet(t.columns[C])
  /\ \A C \in Columns : \A r \in RowsIn(t.columns[C]) :
       r \in AliveOf(t) /\ C \in At(t.rows, r).signature
  /\ t.count = Cardinality(AliveOf(t))
  /\ \E chain : ChainOf(t, chain)

(* What save writes of a table, and what of it there is to compare.        *)
ImageOf(t) ==
  <<Magic, Version, Fingerprint, Len(t.rows), t.head, t.count>>
  \o FlattenSeq([k \in DOMAIN t.rows |-> RowFields(t.rows[k])])
  \o t.links
  \o FlattenSeq([k \in DOMAIN Declared |-> ColumnFields(t.columns[Declared[k]])])

SnapshotOf(t) ==
  [rows |-> t.rows, links |-> t.links, head |-> t.head,
   count |-> t.count, stale |-> t.stale,
   columns |-> [C \in Columns |-> [dense |-> t.columns[C].dense,
                                   data  |-> t.columns[C].data]]]

(* The fields of the table there is.                                       *)
LEMMA NowFields ==
  /\ Now.rows = m_rows /\ Now.links = m_free_links /\ Now.head = m_free_head
  /\ Now.count = m_alive_count /\ Now.stale = stale /\ Now.columns = m_columns
  /\ AliveOf(Now) = AliveSlots
BY DEF Now, AliveOf, AliveSlots, Slots

(* The invariant speaks of the table there is.                             *)
LEMMA InvIsNow == IInv <=> TableIs(Now)
<1>1. ASSUME NEW chain  PROVE FreeChain(chain) <=> ChainOf(Now, chain)
  BY NowFields DEF FreeChain, ChainOf, Slots
<1>2. /\ TypeOK <=>
           Now \in [rows : Seq(RowMeta), links : Seq(IndexOrNpos), head : IndexOrNpos,
                    count : Nat, stale : SUBSET Handles, columns : [Columns -> Column]]
      /\ SlotsFit <=> Len(Now.rows) <= npos /\ Len(Now.links) = Len(Now.rows)
      /\ ColumnsConsistent <=> \A C \in Columns : SparseSet(Now.columns[C])
      /\ AliveCounted <=> Now.count = Cardinality(AliveOf(Now))
  <2>1. TypeOK <=>
          Now \in [rows : Seq(RowMeta), links : Seq(IndexOrNpos), head : IndexOrNpos,
                   count : Nat, stale : SUBSET Handles, columns : [Columns -> Column]]
    BY DEF TypeOK, Now
  <2> QED
    BY <2>1, NowFields DEF SlotsFit, ColumnsConsistent, AliveCounted
<1>3. PooledIsSigned <=>
        \A C \in Columns : \A r \in RowsIn(Now.columns[C]) :
          r \in AliveOf(Now) /\ C \in At(Now.rows, r).signature
  BY NowFields DEF PooledIsSigned
<1> QED
  BY <1>1, <1>2, <1>3 DEF IInv, TableIs

(* save and the history of it speak of the table there is.                 *)
LEMMA SavedIsNow == Image = ImageOf(Now) /\ Snapshot = SnapshotOf(Now)
BY NowFields DEF Image, ImageOf, Snapshot, SnapshotOf

-----------------------------------------------------------------------------
(* What is where in a buffer.                                              *)

(* What can stand in a buffer.                                             *)
Written == Int \cup (SUBSET Columns) \cup BOOLEAN

(* The two parts of a concatenation.                                       *)
LEMMA ConcatAt ==
  ASSUME NEW S, NEW s \in Seq(S), NEW t \in Seq(S)
  PROVE  /\ s \o t \in Seq(S)
         /\ Len(s) \in Nat /\ Len(t) \in Nat /\ Len(s \o t) = Len(s) + Len(t)
         /\ \A i \in 1 .. Len(s) : (s \o t)[i] = s[i]
         /\ \A j \in 1 .. Len(t) : (s \o t)[Len(s) + j] = t[j]
<1>1. Len(s) \in Nat /\ Len(t) \in Nat
  BY LenProperties
<1>2. /\ s \o t \in Seq(S) /\ Len(s \o t) = Len(s) + Len(t)
      /\ \A i \in 1 .. Len(s) + Len(t) :
           (s \o t)[i] = IF i <= Len(s) THEN s[i] ELSE t[i - Len(s)]
  BY ConcatProperties
<1>3. ASSUME NEW i \in 1 .. Len(s)
      PROVE  (s \o t)[i] = s[i]
  BY <1>1, <1>2
<1>4. ASSUME NEW j \in 1 .. Len(t)
      PROVE  (s \o t)[Len(s) + j] = t[j]
  <2> DEFINE x == Len(s) + j
  <2>1. x \in 1 .. Len(s) + Len(t) /\ ~(x <= Len(s)) /\ x - Len(s) = j
    BY <1>1
  <2> HIDE DEF x
  <2>2. (s \o t)[x] = t[j]
    BY <1>2, <2>1
  <2> QED
    BY <2>2 DEF x
<1> QED
  BY <1>1, <1>2, <1>3, <1>4

(* The header is six values.                                               *)
LEMMA HeaderIs ==
  ASSUME NEW n \in Int, NEW h \in Int, NEW a \in Int
  PROVE  LET s == <<Magic, Version, Fingerprint, n, h, a>>
         IN  /\ s \in Seq(Written) /\ Len(s) = 6
             /\ s[1] = Magic /\ s[2] = Version /\ s[3] = Fingerprint
             /\ s[4] = n /\ s[5] = h /\ s[6] = a
BY DEF Written, Magic, Version, Fingerprint

(* A row is three values.                                                  *)
LEMMA RowFieldsAre ==
  ASSUME NEW meta \in RowMeta
  PROVE  /\ RowFields(meta) \in Seq(Written) /\ Len(RowFields(meta)) = 3
         /\ RowFields(meta)[1] = meta.generation
         /\ RowFields(meta)[2] = meta.signature
         /\ RowFields(meta)[3] = meta.alive
<1>1. /\ meta.generation \in Int /\ meta.signature \in SUBSET Columns
      /\ meta.alive \in BOOLEAN
  BY GenerationAssumption DEF RowMeta, Generation
<1>2. meta.generation \in Written /\ meta.signature \in Written /\ meta.alive \in Written
  <2>1. Int \subseteq Written /\ SUBSET Columns \subseteq Written
        /\ BOOLEAN \subseteq Written
    BY Zenon DEF Written
  <2> QED
    BY <1>1, <2>1, Zenon
<1> QED
  BY <1>2 DEF RowFields

(* A column is its length, its rows and its values.                        *)
LEMMA ColumnFieldsAre ==
  ASSUME NEW c \in Column, SparseSet(c)
  PROVE  LET f == ColumnFields(c)
             n == Len(c.dense)
         IN  /\ f \in Seq(Written) /\ n \in Nat /\ Len(f) = 1 + 2 * n
             /\ f[1] = n
             /\ \A j \in 1 .. n : f[1 + j] = c.dense[j] /\ f[1 + n + j] = c.data[j]
<1> DEFINE n == Len(c.dense)
           h == <<n>>
           hd == h \o c.dense
<1>1. /\ c.dense \in Seq(Index) /\ c.data \in Seq(Values)
      /\ n \in Nat /\ Len(c.data) = n
  BY ColumnParts, LenProperties DEF SparseSet
<1>2. Index \subseteq Written /\ Values \subseteq Written /\ n \in Written
  BY <1>1, ValuesAssumption, NposAssumption DEF Index, Written
<1> HIDE DEF n
<1>3. /\ c.dense \in Seq(Written) /\ c.data \in Seq(Written)
  BY <1>1, <1>2, SeqMonotonic
<1>4. h \in Seq(Written) /\ Len(h) = 1 /\ h[1] = n
  BY <1>2
<1> HIDE DEF h
<1>5. /\ hd \in Seq(Written) /\ Len(hd) = 1 + n /\ hd[1] = n
      /\ \A j \in 1 .. n : hd[1 + j] = c.dense[j]
  BY <1>3, <1>4, ConcatAt DEF n
<1>6. \A j \in 1 .. n : 1 + j \in 1 .. 1 + n
  BY <1>1
<1>7. 1 \in 1 .. 1 + n /\ 1 + n + n = 1 + 2 * n
  BY <1>1
<1> HIDE DEF hd
<1>8. /\ hd \o c.data \in Seq(Written) /\ Len(hd \o c.data) = 1 + n + n
      /\ \A i \in 1 .. 1 + n : (hd \o c.data)[i] = hd[i]
      /\ \A j \in 1 .. n : (hd \o c.data)[1 + n + j] = c.data[j]
  <2>1. /\ hd \o c.data \in Seq(Written) /\ Len(hd \o c.data) = Len(hd) + Len(c.data)
        /\ \A i \in 1 .. Len(hd) : (hd \o c.data)[i] = hd[i]
        /\ \A j \in 1 .. Len(c.data) : (hd \o c.data)[Len(hd) + j] = c.data[j]
    <3>1. hd \in Seq(Written) /\ c.data \in Seq(Written)
      BY <1>3, <1>5
    <3> QED
      BY ONLY <3>1, ConcatAt
  <2>2. Len(hd) = 1 + n /\ Len(c.data) = n
    BY <1>1, <1>5
  <2> QED
    BY ONLY <2>1, <2>2
<1>9. ColumnFields(c) = hd \o c.data
  BY DEF ColumnFields, hd, h, n
<1> QED
  BY <1>1, <1>5, <1>6, <1>7, <1>8, <1>9 DEF n

(* Parts of three values each lie side by side.                            *)
LEMMA ThreesPlaced ==
  ASSUME NEW S, NEW seqs \in Seq(Seq(S)),
         \A i \in 1 .. Len(seqs) : Len(seqs[i]) = 3
  PROVE  /\ FlattenSeq(seqs) \in Seq(S) /\ Len(FlattenSeq(seqs)) = 3 * Len(seqs)
         /\ \A i \in 1 .. Len(seqs) : \A j \in 1 .. 3 :
              FlattenSeq(seqs)[3 * (i - 1) + j] = seqs[i][j]
<1> DEFINE n == Len(seqs)
<1>1. n \in Nat
  BY LenProperties
<1>0. FlattenSeq(seqs) \in Seq(S) /\ \E off : Places(seqs, FlattenSeq(seqs), off)
  BY FlattenPlaces
<1>p. PICK off : Places(seqs, FlattenSeq(seqs), off)
  BY <1>0
<1>2. /\ off \in [0 .. n -> Nat] /\ off[0] = 0
      /\ Len(FlattenSeq(seqs)) = off[n]
      /\ \A i \in 1 .. n :
           /\ off[i] = off[i - 1] + Len(seqs[i])
           /\ off[i] <= off[n]
           /\ \A j \in 1 .. Len(seqs[i]) :
                FlattenSeq(seqs)[off[i - 1] + j] = seqs[i][j]
  BY <1>p DEF Places
<1> HIDE DEF n
<1>3. \A i \in 0 .. n : off[i] = 3 * i
  <2> DEFINE bad == {i \in 0 .. n : off[i] # 3 * i}
  <2>1. SUFFICES ASSUME bad # {} PROVE FALSE
    OBVIOUS
  <2>2. bad \subseteq Nat
    BY <1>1
  <2>3. PICK m \in bad : \A k \in bad : m <= k
    <3> HIDE DEF bad
    <3> QED
      BY <2>1, <2>2, LeastNatural
  <2>4. m # 0
    BY <1>2, <2>3
  <2>5. m \in 1 .. n /\ m - 1 \in 0 .. n /\ ~(m <= m - 1)
    BY <1>1, <2>3, <2>4
  <2>6. off[m - 1] = 3 * (m - 1)
    BY <2>3, <2>5
  <2>7. off[m] = off[m - 1] + 3
    BY <1>2, <2>5 DEF n
  <2> QED
    BY <1>1, <2>3, <2>5, <2>6, <2>7
<1>4. ASSUME NEW i \in 1 .. n, NEW j \in 1 .. 3
      PROVE  FlattenSeq(seqs)[3 * (i - 1) + j] = seqs[i][j]
  <2>1. i - 1 \in 0 .. n
    BY <1>1
  <2>2. off[i - 1] = 3 * (i - 1)
    BY <1>3, <2>1
  <2>3. FlattenSeq(seqs)[off[i - 1] + j] = seqs[i][j]
    BY <1>2 DEF n
  <2> QED
    BY <2>2, <2>3
<1>5. n \in 0 .. n
  BY <1>1
<1> QED
  BY <1>0, <1>2, <1>3, <1>4, <1>5 DEF n

(* What save writes where: column k of a table lies behind its rows, its   *)
(* links, and the off[k - 1] values of the columns before it.              *)
LaidOut(t, b, off) ==
  LET n == Len(t.rows)
      m == Len(Declared)
  IN  /\ b \in Seq(Written) /\ Len(b) \in Nat /\ Len(b) >= 6
      /\ b[1] = Magic /\ b[2] = Version /\ b[3] = Fingerprint
      /\ b[4] = n /\ b[5] = t.head /\ b[6] = t.count
      /\ \A i \in 1 .. n : /\ b[6 + 3 * (i - 1) + 1] = t.rows[i].generation
                           /\ b[6 + 3 * (i - 1) + 2] = t.rows[i].signature
                           /\ b[6 + 3 * (i - 1) + 3] = t.rows[i].alive
      /\ \A i \in 1 .. n : b[6 + 3 * n + i] = t.links[i]
      /\ off \in [0 .. m -> Nat] /\ off[0] = 0 /\ Len(b) = 6 + 4 * n + off[m]
      /\ \A k \in 1 .. m :
           LET c == t.columns[Declared[k]]
               at == 6 + 4 * n + off[k - 1]
               l == Len(c.dense)
           IN  /\ off[k] = off[k - 1] + 1 + 2 * l /\ off[k] <= off[m]
               /\ b[at + 1] = l
               /\ \A j \in 1 .. l : /\ b[at + 1 + j] = c.dense[j]
                                    /\ b[at + 1 + l + j] = c.data[j]

(* save lays a table out.                                                  *)
LEMMA ImageLayout ==
  ASSUME NEW t, TableIs(t)
  PROVE  \E off : LaidOut(t, ImageOf(t), off)
<1> DEFINE n == Len(t.rows)
           m == Len(Declared)
           H == <<Magic, Version, Fingerprint, n, t.head, t.count>>
           rowParts == [k \in DOMAIN t.rows |-> RowFields(t.rows[k])]
           colParts == [k \in DOMAIN Declared |-> ColumnFields(t.columns[Declared[k]])]
           R == FlattenSeq(rowParts)
           L == t.links
           K == FlattenSeq(colParts)
           HR == H \o R
           HRL == HR \o L
           b == HRL \o K
<1>1. /\ t.rows \in Seq(RowMeta) /\ n \in Nat /\ DOMAIN t.rows = 1 .. n
      /\ L \in Seq(IndexOrNpos) /\ Len(L) = n
      /\ t.head \in Int /\ t.count \in Int
      /\ \A i \in 1 .. n : t.rows[i] \in RowMeta
  <2>1. t \in [rows : Seq(RowMeta), links : Seq(IndexOrNpos), head : IndexOrNpos,
               count : Nat, stale : SUBSET Handles, columns : [Columns -> Column]]
        /\ Len(t.links) = Len(t.rows)
    BY DEF TableIs
  <2>2. t.rows \in Seq(RowMeta) /\ L \in Seq(IndexOrNpos)
        /\ t.head \in IndexOrNpos /\ t.count \in Nat
    BY <2>1
  <2>3. n \in Nat /\ DOMAIN t.rows = 1 .. n /\ \A i \in 1 .. n : t.rows[i] \in RowMeta
    BY <2>2, LenProperties, ElementOfSeq
  <2>4. t.head \in Int
    BY <2>2, NposAssumption DEF IndexOrNpos
  <2> QED
    BY <2>1, <2>2, <2>3, <2>4
<1>2. /\ m \in Nat /\ DOMAIN Declared = 1 .. m
      /\ \A k \in 1 .. m : /\ t.columns[Declared[k]] \in Column
                           /\ SparseSet(t.columns[Declared[k]])
  <2>1. t.columns \in [Columns -> Column] /\ \A C \in Columns : SparseSet(t.columns[C])
    BY DEF TableIs
  <2>2. \A k \in 1 .. m : Declared[k] \in Columns
    BY DeclaredIs, ElementOfSeq
  <2> QED
    BY <2>1, <2>2, DeclaredIs
<1> HIDE DEF n, m
\* the header and the rows
<1>3. /\ H \in Seq(Written) /\ Len(H) = 6
      /\ H[1] = Magic /\ H[2] = Version /\ H[3] = Fingerprint
      /\ H[4] = n /\ H[5] = t.head /\ H[6] = t.count
  BY <1>1, HeaderIs
<1>4. /\ rowParts \in Seq(Seq(Written)) /\ Len(rowParts) = n
      /\ \A i \in 1 .. n : rowParts[i] = RowFields(t.rows[i]) /\ Len(rowParts[i]) = 3
  <2>1. \A i \in 1 .. n : RowFields(t.rows[i]) \in Seq(Written) /\ Len(RowFields(t.rows[i])) = 3
    BY <1>1, RowFieldsAre
  <2>2. \A i \in 1 .. n : rowParts[i] = RowFields(t.rows[i])
    BY <1>1
  <2>3. rowParts \in [1 .. n -> Seq(Written)]
    BY <1>1, <2>1
  <2> HIDE DEF rowParts
  <2> QED
    BY <1>1, <2>1, <2>2, <2>3, FunctionIsVector
<1> HIDE DEF H, rowParts
<1>5. /\ R \in Seq(Written) /\ Len(R) = 3 * n
      /\ \A i \in 1 .. n : \A j \in 1 .. 3 : R[3 * (i - 1) + j] = RowFields(t.rows[i])[j]
  <2>1. /\ R \in Seq(Written) /\ Len(R) = 3 * Len(rowParts)
        /\ \A i \in 1 .. Len(rowParts) : \A j \in 1 .. 3 :
             R[3 * (i - 1) + j] = rowParts[i][j]
    <3>1. rowParts \in Seq(Seq(Written)) /\ \A i \in 1 .. Len(rowParts) : Len(rowParts[i]) = 3
      BY <1>4
    <3> QED
      BY ONLY <3>1, ThreesPlaced
  <2> HIDE DEF R
  <2> QED
    BY ONLY <1>4, <2>1
<1> HIDE DEF R
<1>6. L \in Seq(Written)
  <2>1. IndexOrNpos \subseteq Written
    <3>1. IndexOrNpos \subseteq Int
      BY NposAssumption DEF IndexOrNpos
    <3> QED
      BY <3>1, Zenon DEF Written
  <2> QED
    BY <1>1, <2>1, SeqMonotonic
\* the columns
<1>7. /\ colParts \in Seq(Seq(Written)) /\ Len(colParts) = m
      /\ \A k \in 1 .. m : colParts[k] = ColumnFields(t.columns[Declared[k]])
  <2>1. \A k \in 1 .. m : ColumnFields(t.columns[Declared[k]]) \in Seq(Written)
    BY <1>2, ColumnFieldsAre
  <2>2. \A k \in 1 .. m : colParts[k] = ColumnFields(t.columns[Declared[k]])
    BY <1>2
  <2>3. colParts \in [1 .. m -> Seq(Written)]
    BY <1>2, <2>1
  <2> HIDE DEF colParts
  <2> QED
    BY <1>2, <2>2, <2>3, FunctionIsVector
<1> HIDE DEF colParts
<1>c. K \in Seq(Written) /\ \E off : Places(colParts, K, off)
  <2>1. colParts \in Seq(Seq(Written))
    BY <1>7
  <2> QED
    BY ONLY <2>1, FlattenPlaces
<1>o. PICK off : Places(colParts, K, off)
  BY <1>c
<1> HIDE DEF K
<1>8. /\ off \in [0 .. m -> Nat] /\ off[0] = 0
      /\ Len(K) = off[m]
      /\ \A k \in 1 .. m :
           /\ off[k] = off[k - 1] + Len(colParts[k])
           /\ off[k] <= off[m]
           /\ \A j \in 1 .. Len(colParts[k]) : K[off[k - 1] + j] = colParts[k][j]
  BY <1>7, <1>o DEF Places
\* all of them, one behind the other
<1>9. /\ HR \in Seq(Written) /\ Len(HR) = 6 + 3 * n
      /\ \A i \in 1 .. 6 : HR[i] = H[i]
      /\ \A j \in 1 .. 3 * n : HR[6 + j] = R[j]
  <2>1. /\ HR \in Seq(Written) /\ Len(H) \in Nat /\ Len(R) \in Nat
        /\ Len(HR) = Len(H) + Len(R)
        /\ \A i \in 1 .. Len(H) : HR[i] = H[i]
        /\ \A j \in 1 .. Len(R) : HR[Len(H) + j] = R[j]
    <3>1. H \in Seq(Written) /\ R \in Seq(Written)
      BY <1>3, <1>5
    <3> QED
      BY ONLY <3>1, ConcatAt
  <2> HIDE DEF HR
  <2> QED
    BY ONLY <1>3, <1>5, <2>1
<1> HIDE DEF HR
<1>10. /\ HRL \in Seq(Written) /\ Len(HRL) = 6 + 3 * n + n
       /\ \A i \in 1 .. 6 + 3 * n : HRL[i] = HR[i]
       /\ \A j \in 1 .. n : HRL[6 + 3 * n + j] = L[j]
  <2>1. /\ HRL \in Seq(Written) /\ Len(HR) \in Nat /\ Len(L) \in Nat
        /\ Len(HRL) = Len(HR) + Len(L)
        /\ \A i \in 1 .. Len(HR) : HRL[i] = HR[i]
        /\ \A j \in 1 .. Len(L) : HRL[Len(HR) + j] = L[j]
    <3>1. HR \in Seq(Written) /\ L \in Seq(Written)
      BY <1>1, <1>6, <1>9
    <3> QED
      BY ONLY <3>1, ConcatAt
  <2> HIDE DEF HRL
  <2> QED
    BY ONLY <1>1, <1>6, <1>9, <2>1
<1> HIDE DEF HRL, L
<1>11. 6 + 3 * n + n = 6 + 4 * n /\ 3 * n \in Nat /\ 4 * n \in Nat
  BY <1>1
<1>12. /\ b \in Seq(Written) /\ Len(b) = 6 + 4 * n + off[m] /\ Len(b) \in Nat
       /\ \A i \in 1 .. 6 + 4 * n : b[i] = HRL[i]
       /\ \A j \in 1 .. off[m] : b[6 + 4 * n + j] = K[j]
  <2>1. /\ b \in Seq(Written) /\ Len(HRL) \in Nat /\ Len(K) \in Nat
        /\ Len(b) = Len(HRL) + Len(K)
        /\ \A i \in 1 .. Len(HRL) : b[i] = HRL[i]
        /\ \A j \in 1 .. Len(K) : b[Len(HRL) + j] = K[j]
    <3>1. HRL \in Seq(Written) /\ K \in Seq(Written)
      BY <1>8, <1>c, <1>10
    <3> QED
      BY ONLY <3>1, ConcatAt
  <2> HIDE DEF b
  <2> QED
    BY ONLY <1>8, <1>c, <1>10, <1>11, <2>1
<1>13. ImageOf(t) = b
  BY DEF ImageOf, b, HRL, HR, H, R, L, K, rowParts, colParts, n
<1> HIDE DEF b
<1>14. \A i \in 1 .. 6 : b[i] = H[i]
  <2>1. \A i \in 1 .. 6 : i \in 1 .. 6 + 3 * n /\ i \in 1 .. 6 + 4 * n
    BY <1>11
  <2> QED
    BY <1>9, <1>10, <1>12, <2>1
<1>15. ASSUME NEW i \in 1 .. n, NEW j \in 1 .. 3
       PROVE  b[6 + 3 * (i - 1) + j] = RowFields(t.rows[i])[j]
  <2> DEFINE x == 3 * (i - 1) + j
  <2>1. x \in 1 .. 3 * n /\ 6 + x \in 1 .. 6 + 3 * n /\ 6 + x \in 1 .. 6 + 4 * n
    BY <1>1
  <2>2. 6 + 3 * (i - 1) + j = 6 + x
    BY <1>1
  <2>3. R[x] = RowFields(t.rows[i])[j]
    BY <1>5
  <2> HIDE DEF x
  <2> QED
    BY <1>9, <1>10, <1>12, <2>1, <2>2, <2>3
<1>16. ASSUME NEW i \in 1 .. n
       PROVE  b[6 + 3 * n + i] = t.links[i]
  <2> DEFINE x == 6 + 3 * n + i
  <2>1. x \in 1 .. 6 + 4 * n
    BY <1>1
  <2>2. HRL[x] = t.links[i]
    BY <1>10 DEF L
  <2> HIDE DEF x
  <2>3. b[x] = t.links[i]
    BY <1>12, <2>1, <2>2
  <2> QED
    BY <2>3 DEF x
<1>17. ASSUME NEW k \in 1 .. m
       PROVE  LET c == t.columns[Declared[k]]
                  at == 6 + 4 * n + off[k - 1]
                  l == Len(c.dense)
              IN  /\ off[k] = off[k - 1] + 1 + 2 * l /\ off[k] <= off[m]
                  /\ b[at + 1] = l
                  /\ \A j \in 1 .. l : /\ b[at + 1 + j] = c.dense[j]
                                       /\ b[at + 1 + l + j] = c.data[j]
  <2> DEFINE c == t.columns[Declared[k]]
             at == 6 + 4 * n + off[k - 1]
             l == Len(c.dense)
             part == colParts[k]
             p == off[k - 1]
             base == 6 + 4 * n
  <2>1. /\ l \in Nat /\ Len(part) = 1 + 2 * l /\ part[1] = l
        /\ \A j \in 1 .. l : part[1 + j] = c.dense[j] /\ part[1 + l + j] = c.data[j]
    BY <1>2, <1>7, ColumnFieldsAre
  <2>2. k - 1 \in 0 .. m /\ k \in 0 .. m /\ m \in 0 .. m
    BY <1>2
  <2>3. p \in Nat /\ off[k] \in Nat /\ off[m] \in Nat
    BY <1>8, <2>2
  <2>4. off[k] = p + Len(part) /\ off[k] <= off[m]
        /\ \A j \in 1 .. Len(part) : K[p + j] = part[j]
    BY <1>8
  <2> HIDE DEF l, part, c, p
  <2>5. \A j \in 1 .. 1 + 2 * l : p + j \in 1 .. off[m]
    BY <2>1, <2>3, <2>4
  <2>6. \A j \in 1 .. 1 + 2 * l : b[base + (p + j)] = part[j]
    BY <1>12, <2>1, <2>4, <2>5
  <2>7. base \in Nat /\ at = base + p
    BY <1>11 DEF p
  <2> HIDE DEF at, base
  <2>8. at + 1 = base + (p + 1) /\ 1 \in 1 .. 1 + 2 * l
    BY <2>1, <2>3, <2>7
  <2>9. b[at + 1] = l
    BY <2>1, <2>6, <2>8
  <2>10. ASSUME NEW j \in 1 .. l
         PROVE  b[at + 1 + j] = c.dense[j] /\ b[at + 1 + l + j] = c.data[j]
    <3>1. /\ 1 + j \in 1 .. 1 + 2 * l /\ 1 + l + j \in 1 .. 1 + 2 * l
          /\ at + 1 + j = base + (p + (1 + j))
          /\ at + 1 + l + j = base + (p + (1 + l + j))
      BY <2>1, <2>3, <2>7
    <3>2. b[base + (p + (1 + j))] = part[1 + j] /\ b[base + (p + (1 + l + j))] = part[1 + l + j]
      BY <2>6, <3>1
    <3> QED
      BY <2>1, <3>1, <3>2
  <2>11. off[k] = p + 1 + 2 * l
    BY <2>1, <2>3, <2>4
  <2> QED
    BY <2>4, <2>9, <2>10, <2>11 DEF c, l, at, p, base
<1>18. \A i \in 1 .. n : /\ b[6 + 3 * (i - 1) + 1] = t.rows[i].generation
                         /\ b[6 + 3 * (i - 1) + 2] = t.rows[i].signature
                         /\ b[6 + 3 * (i - 1) + 3] = t.rows[i].alive
  <2> TAKE i \in 1 .. n
  <2>1. 1 \in 1 .. 3 /\ 2 \in 1 .. 3 /\ 3 \in 1 .. 3
    OBVIOUS
  <2>2. /\ RowFields(t.rows[i])[1] = t.rows[i].generation
        /\ RowFields(t.rows[i])[2] = t.rows[i].signature
        /\ RowFields(t.rows[i])[3] = t.rows[i].alive
    BY <1>1, RowFieldsAre
  <2> QED
    BY <1>15, <2>1, <2>2
<1>19. Len(b) >= 6
  <2>1. m \in 0 .. m
    BY <1>2
  <2>2. off[m] \in Nat
    BY <1>8, <2>1
  <2> QED
    BY <1>11, <1>12, <2>2
<1>21. /\ b[1] = Magic /\ b[2] = Version /\ b[3] = Fingerprint
       /\ b[4] = n /\ b[5] = t.head /\ b[6] = t.count
  BY <1>3, <1>14
<1> QED
  <2>1. LaidOut(t, b, off)
    BY <1>8, <1>12, <1>16, <1>17, <1>18, <1>19, <1>21 DEF LaidOut, n, m
  <2> QED
    BY <1>13, <2>1

-----------------------------------------------------------------------------
(* load finds what save wrote.                                             *)

(* The parts of a layout that load's arithmetic is about.                  *)
LEMMA LayoutFacts ==
  ASSUME NEW t, TableIs(t), NEW b, NEW off, LaidOut(t, b, off)
  PROVE  LET n == Len(t.rows)
             m == Len(Declared)
         IN  /\ n \in Nat /\ m \in Nat /\ b[4] = n
             /\ off \in [0 .. m -> Nat] /\ off[0] = 0
             /\ Len(b) = 6 + 4 * n + off[m] /\ Len(b) \in Nat /\ Len(b) >= 6
             /\ \A k \in 1 .. m :
                  LET l == Len(t.columns[Declared[k]].dense)
                  IN  /\ l \in Nat /\ off[k - 1] \in Nat /\ off[k] \in Nat
                      /\ off[k] = off[k - 1] + 1 + 2 * l /\ off[k] <= off[m]
                      /\ b[6 + 4 * n + off[k - 1] + 1] = l
<1>1. Len(t.rows) \in Nat
  <2>1. t.rows \in Seq(RowMeta)
    BY DEF TableIs
  <2> QED
    BY <2>1, LenProperties
<1>2. ASSUME NEW k \in 1 .. Len(Declared)
      PROVE  Len(t.columns[Declared[k]].dense) \in Nat
  <2>1. Declared[k] \in Columns
    BY DeclaredIs, ElementOfSeq
  <2>2. t.columns \in [Columns -> Column]
    BY DEF TableIs
  <2>3. t.columns[Declared[k]] \in Column
    BY <2>1, <2>2
  <2>4. t.columns[Declared[k]].dense \in Seq(Index)
    BY <2>3, ColumnParts
  <2> QED
    BY <2>4, LenProperties
<1>3. \A k \in 1 .. Len(Declared) : k \in 0 .. Len(Declared) /\ k - 1 \in 0 .. Len(Declared)
  BY DeclaredIs
<1> QED
  BY <1>1, <1>2, <1>3, DeclaredIs DEF LaidOut

(* The position of each column, as load computes it.                       *)
LEMMA PositionsOf ==
  ASSUME NEW bytes
  PROVE  /\ ColumnAt(bytes)[1] = LinksAt(bytes) + bytes[4]
         /\ \A k \in 1 .. Len(Declared) :
              ColumnAt(bytes)[k + 1] =
                ColumnAt(bytes)[k] + 1 + 2 * Word(bytes, ColumnAt(bytes)[k] + 1)
<1> DEFINE at == ColumnAt(bytes)
<1>1. Len(Declared) \in Nat
  BY DeclaredIs
<1>2. at = [k \in 1 .. Len(Declared) + 1 |->
              IF k = 1 THEN LinksAt(bytes) + bytes[4]
              ELSE at[k - 1] + 1 + 2 * Word(bytes, at[k - 1] + 1)]
  BY <1>1, ColumnAtRecursion
<1> HIDE DEF at
<1>3. 1 \in 1 .. Len(Declared) + 1
  BY <1>1
<1>4. at[1] = LinksAt(bytes) + bytes[4]
  BY <1>2, <1>3
<1>5. ASSUME NEW k \in 1 .. Len(Declared)
      PROVE  at[k + 1] = at[k] + 1 + 2 * Word(bytes, at[k] + 1)
  <2> DEFINE x == k + 1
  <2>1. x \in 1 .. Len(Declared) + 1 /\ x # 1 /\ x - 1 = k
    BY <1>1
  <2> HIDE DEF x
  <2>2. at[x] = at[k] + 1 + 2 * Word(bytes, at[k] + 1)
    BY <1>2, <2>1
  <2> QED
    BY <2>2 DEF x
<1> QED
  BY <1>4, <1>5 DEF at

(* In a whole buffer load finds every column where save put it.            *)
LEMMA ColumnsFound ==
  ASSUME NEW t, TableIs(t), NEW b, NEW off, LaidOut(t, b, off)
  PROVE  \A k \in 1 .. Len(Declared) + 1 :
           ColumnAt(b)[k] = 6 + 4 * Len(t.rows) + off[k - 1]
<1> DEFINE n == Len(t.rows)
           m == Len(Declared)
           at == ColumnAt(b)
           base == 6 + 4 * n
           Good(k) == at[k] = base + off[k - 1]
<1>1. /\ n \in Nat /\ m \in Nat /\ b[4] = n /\ off[0] = 0
      /\ off[m] \in Nat /\ Len(b) = base + off[m]
  <2>1. Len(Declared) \in 0 .. Len(Declared)
    BY DeclaredIs
  <2> QED
    BY <2>1, LayoutFacts
<1>2. ASSUME NEW k \in 1 .. m
      PROVE  LET l == Len(t.columns[Declared[k]].dense)
             IN  /\ l \in Nat /\ off[k - 1] \in Nat /\ off[k] \in Nat
                 /\ off[k] = off[k - 1] + 1 + 2 * l /\ off[k] <= off[m]
                 /\ b[base + off[k - 1] + 1] = l
  BY LayoutFacts
<1>3. /\ at[1] = 6 + 3 * n + n
      /\ \A k \in 1 .. m : at[k + 1] = at[k] + 1 + 2 * Word(b, at[k] + 1)
  BY <1>1, PositionsOf DEF LinksAt
<1> HIDE DEF n, m, at
<1>4. Good(1)
  BY <1>1, <1>3
<1>5. base \in Nat
  BY <1>1
<1> HIDE DEF base
<1>6. ASSUME NEW k \in 1 .. m, Good(k)
      PROVE  Good(k + 1)
  <2> DEFINE l == Len(t.columns[Declared[k]].dense)
             p == off[k - 1]
             x == base + p + 1
  <2>1. /\ l \in Nat /\ p \in Nat /\ off[k] = p + 1 + 2 * l
        /\ off[k] <= off[m] /\ b[x] = l
    BY <1>2
  <2>2. at[k] + 1 = x
    BY <1>6
  <2> HIDE DEF l, p
  <2>3. x <= Len(b) /\ base + p + 1 = x
    BY <1>1, <1>5, <2>1
  <2> HIDE DEF x
  <2>4. Word(b, x) = l
    BY <2>1, <2>3 DEF Word
  <2>5. at[k + 1] = base + p + 1 + 2 * l
    BY <1>3, <1>6, <2>2, <2>4 DEF p
  <2>6. k + 1 - 1 = k
    BY <1>1
  <2> QED
    BY <1>5, <2>1, <2>5, <2>6
<1> HIDE DEF Good
<1>7. \A k \in 1 .. m + 1 : Good(k)
  <2> DEFINE bad == {k \in 1 .. m + 1 : ~Good(k)}
  <2>1. SUFFICES ASSUME bad # {} PROVE FALSE
    OBVIOUS
  <2>2. bad \subseteq Nat
    BY <1>1
  <2>3. PICK k \in bad : \A j \in bad : k <= j
    <3> HIDE DEF bad
    <3> QED
      BY <2>1, <2>2, LeastNatural
  <2>4. k # 1
    BY <1>4, <2>3
  <2>5. k - 1 \in 1 .. m /\ k - 1 \in 1 .. m + 1 /\ ~(k <= k - 1) /\ k - 1 + 1 = k
    BY <1>1, <2>3, <2>4
  <2>6. Good(k - 1)
    BY <2>3, <2>5
  <2>7. Good(k - 1 + 1)
    BY <1>6, <2>5, <2>6
  <2> QED
    BY <2>3, <2>5, <2>7
<1> QED
  BY <1>7 DEF Good, m, at, base, n

(* A whole buffer has an acceptable header, and nothing in it is missing.  *)
LEMMA WholeIsRead ==
  ASSUME NEW t, TableIs(t), NEW b, NEW off, LaidOut(t, b, off)
  PROVE  /\ HeaderStatus(b) = "ok" /\ RowsRead(b) /\ AllRead(b)
         /\ \A k \in 1 .. Len(Declared) : ColumnRead(b, k)
<1> DEFINE n == Len(t.rows)
           m == Len(Declared)
<1>1. /\ n \in Nat /\ m \in Nat /\ off[0] = 0 /\ off[m] \in Nat
      /\ Len(b) = 6 + 4 * n + off[m] /\ Len(b) >= 6 /\ Len(b) \in Nat
  <2>1. Len(Declared) \in 0 .. Len(Declared)
    BY DeclaredIs
  <2> QED
    BY <2>1, LayoutFacts
<1>2. \A k \in 1 .. m : off[k] <= off[m]
  BY LayoutFacts
<1>3. \A k \in 1 .. m + 1 : ColumnAt(b)[k] = 6 + 4 * n + off[k - 1]
  BY ColumnsFound
<1>4. \A k \in 0 .. m : off[k] \in Nat /\ off[k] <= off[m]
  <2>1. off \in [0 .. m -> Nat]
    BY LayoutFacts
  <2>2. \A k \in 0 .. m : k = 0 \/ k \in 1 .. m
    BY <1>1
  <2> QED
    BY <1>1, <1>2, <2>1, <2>2
<1>5. \A k \in 0 .. m : k + 1 \in 1 .. m + 1 /\ k + 1 - 1 = k
  BY <1>1
<1>6. ASSUME NEW k \in 0 .. m
      PROVE  ColumnAt(b)[k + 1] <= Len(b)
  <2>1. ColumnAt(b)[k + 1] = 6 + 4 * n + off[k]
    BY <1>3, <1>5
  <2> HIDE DEF n, m
  <2> QED
    BY <1>1, <1>4, <2>1
<1>7. RowsRead(b) /\ \A k \in 1 .. m : ColumnRead(b, k)
  <2>1. ColumnAt(b)[0 + 1] <= Len(b)
    BY <1>1, <1>6
  <2>2. \A k \in 1 .. m : k \in 0 .. m
    BY <1>1
  <2> QED
    BY <1>6, <2>1, <2>2 DEF RowsRead, ColumnRead
<1>8. AllRead(b)
  BY <1>1, <1>6 DEF AllRead, ColumnRead
<1>9. HeaderStatus(b) = "ok"
  <2>1. b[1] = Magic /\ b[2] = Version /\ b[3] = Fingerprint
    BY DEF LaidOut
  <2>2. Word(b, 2) = Version /\ Word(b, 3) = Fingerprint
    BY <1>1, <2>1 DEF Word
  <2>3. ~(Len(b) < 1) /\ ~(Len(b) < 6)
    BY <1>1
  <2> QED
    BY <2>1, <2>2, <2>3 DEF HeaderStatus
<1> QED
  BY <1>7, <1>8, <1>9

(* A buffer that is cut anywhere is not taken for a whole one: a count     *)
(* that lies beyond the end reads as zero, but its place is beyond the end *)
(* already, and stays there.                                               *)
LEMMA CutIsNoticed ==
  ASSUME NEW t, TableIs(t), NEW b, NEW off, LaidOut(t, b, off),
         NEW l \in 0 .. Len(b), l # Len(b),
         HeaderStatus(SubSeq(b, 1, l)) = "ok"
  PROVE  ~AllRead(SubSeq(b, 1, l))
<1> DEFINE n == Len(t.rows)
           m == Len(Declared)
           cut == SubSeq(b, 1, l)
           whole == ColumnAt(b)
           at == ColumnAt(cut)
           Good(k) == at[k] \in Int /\ (at[k] = whole[k] \/ at[k] > l)
<1>1. /\ n \in Nat /\ m \in Nat /\ off[m] \in Nat /\ b[4] = n
      /\ Len(b) = 6 + 4 * n + off[m] /\ Len(b) \in Nat
      /\ b \in Seq(Written)
  <2>1. Len(Declared) \in 0 .. Len(Declared)
    BY DeclaredIs
  <2> QED
    BY <2>1, LayoutFacts DEF LaidOut
<1>2. l \in Nat /\ l < Len(b)
  BY <1>1
<1>3. Len(cut) = l /\ \A i \in 1 .. l : cut[i] = b[i]
  <2>1. \A i \in 1 .. l : b[i] \in Written
    <3>1. \A i \in 1 .. l : i \in 1 .. Len(b)
      BY <1>1, <1>2
    <3> QED
      BY <1>1, <3>1, ElementOfSeq
  <2>2. /\ Len(cut) = IF 1 <= l THEN l - 1 + 1 ELSE 0
        /\ \A i \in 1 .. l - 1 + 1 : cut[i] = b[1 + i - 1]
    <3>1. l \in Int /\ 1 \in Int
      BY <1>2
    <3> QED
      BY ONLY <2>1, <3>1, SubSeqProperties
  <2>3. l - 1 + 1 = l /\ (~(1 <= l) => l = 0) /\ \A i \in 1 .. l : 1 + i - 1 = i
    BY <1>2
  <2> HIDE DEF cut
  <2> QED
    BY <2>2, <2>3
<1> HIDE DEF cut
<1>4. l >= 6
  <2>1. ~(Len(cut) < 6)
    BY DEF HeaderStatus, cut
  <2> QED
    BY <1>2, <1>3, <2>1
<1>5. cut[4] = n
  <2>1. 4 \in 1 .. l
    BY <1>2, <1>4
  <2> QED
    BY <1>1, <1>3, <2>1
<1>6. /\ whole[1] = 6 + 3 * n + n
      /\ \A k \in 1 .. m : whole[k + 1] = whole[k] + 1 + 2 * Word(b, whole[k] + 1)
      /\ at[1] = 6 + 3 * n + n
      /\ \A k \in 1 .. m : at[k + 1] = at[k] + 1 + 2 * Word(cut, at[k] + 1)
  BY <1>1, <1>5, PositionsOf DEF LinksAt
<1>7. \A k \in 1 .. m + 1 : whole[k] = 6 + 4 * n + off[k - 1]
  BY ColumnsFound
<1>8. \A k \in 1 .. m + 1 : whole[k] \in Nat
  <2>1. off \in [0 .. m -> Nat]
    BY LayoutFacts
  <2>2. \A k \in 1 .. m + 1 : k - 1 \in 0 .. m
    BY <1>1
  <2> TAKE k \in 1 .. m + 1
  <2> DEFINE p == off[k - 1]
  <2>3. p \in Nat
    BY <2>1, <2>2
  <2>4. whole[k] = 6 + 4 * n + p
    BY <1>7
  <2> HIDE DEF n, m, whole, p
  <2> QED
    BY <1>1, <2>3, <2>4
<1>9. whole[m + 1] = Len(b)
  <2>1. m + 1 \in 1 .. m + 1 /\ m + 1 - 1 = m
    BY <1>1
  <2> HIDE DEF n, m, whole
  <2> QED
    BY <1>1, <1>7, <2>1
<1>10. \A k \in 1 .. m : Word(b, whole[k] + 1) \in Nat
  <2> TAKE k \in 1 .. m
  <2> DEFINE c == Len(t.columns[Declared[k]].dense)
             p == off[k - 1]
  <2>1. c \in Nat /\ p \in Nat /\ off[k] = p + 1 + 2 * c /\ off[k] <= off[m]
        /\ b[6 + 4 * n + p + 1] = c
    BY LayoutFacts
  <2>2. k \in 1 .. m + 1
    BY <1>1
  <2>3. whole[k] = 6 + 4 * n + p
    BY <1>7, <2>2
  <2> HIDE DEF n, m, whole, p, c
  <2>4. whole[k] + 1 <= Len(b)
    BY <1>1, <2>1, <2>3
  <2> QED
    BY <2>1, <2>3, <2>4 DEF Word
<1> HIDE DEF n, m, whole, at
<1>11. Good(1)
  BY <1>1, <1>6
<1>12. ASSUME NEW k \in 1 .. m, Good(k)
       PROVE  Good(k + 1)
  <2> DEFINE x == at[k]
             w == whole[k]
  <2>1. x \in Int /\ w \in Nat
    <3>1. k \in 1 .. m + 1
      BY <1>1
    <3> QED
      BY <1>8, <1>12, <3>1
  <2>2. at[k + 1] = x + 1 + 2 * Word(cut, x + 1)
    BY <1>6
  <2> HIDE DEF x, w
  <2>3. CASE x >= l
    <3>1. Word(cut, x + 1) = 0
      BY <1>2, <1>3, <2>1, <2>3 DEF Word
    <3>2. at[k + 1] = x + 1
      BY <2>1, <2>2, <3>1
    <3> QED
      BY <1>2, <2>1, <2>3, <3>2
  <2>4. CASE ~(x >= l)
    <3>1. x = w /\ x + 1 \in 1 .. l
      <4>1. x = w \/ x > l
        BY <1>12 DEF x, w
      <4> QED
        BY <1>2, <2>1, <2>4, <4>1
    <3>2. Word(cut, x + 1) = Word(b, x + 1)
      <4>1. x + 1 <= l /\ x + 1 <= Len(b)
        BY <1>1, <1>2, <3>1
      <4> QED
        BY <1>3, <3>1, <4>1 DEF Word
    <3>3. whole[k + 1] = w + 1 + 2 * Word(b, w + 1) /\ Word(b, w + 1) \in Nat
      BY <1>6, <1>10 DEF w
    <3>4. at[k + 1] = whole[k + 1]
      BY <2>2, <3>1, <3>2, <3>3
    <3> QED
      BY <2>1, <3>3, <3>4
  <2> QED
    BY <2>3, <2>4
<1> HIDE DEF Good
<1>13. Good(m + 1)
  <2> DEFINE bad == {k \in 1 .. m + 1 : ~Good(k)}
  <2>1. SUFFICES ASSUME bad # {} PROVE FALSE
    BY <1>1
  <2>2. bad \subseteq Nat
    BY <1>1
  <2>3. PICK k \in bad : \A j \in bad : k <= j
    <3> HIDE DEF bad
    <3> QED
      BY <2>1, <2>2, LeastNatural
  <2>4. k # 1
    BY <1>11, <2>3
  <2>5. k - 1 \in 1 .. m /\ k - 1 \in 1 .. m + 1 /\ ~(k <= k - 1) /\ k - 1 + 1 = k
    BY <1>1, <2>3, <2>4
  <2>6. Good(k - 1)
    BY <2>3, <2>5
  <2>7. Good(k - 1 + 1)
    BY <1>12, <2>5, <2>6
  <2> QED
    BY <2>3, <2>5, <2>7
<1>14. at[m + 1] \in Int /\ at[m + 1] > l
  BY <1>1, <1>2, <1>9, <1>13 DEF Good
<1>15. ~(at[m + 1] <= Len(cut))
  BY <1>2, <1>3, <1>14
<1> QED
  BY <1>15 DEF AllRead, ColumnRead, at, m, cut

(* A header of something else is refused.                                  *)
LEMMA ForeignIsRefused ==
  ASSUME NEW b, NEW k \in DOMAIN b \cap 1 .. 3
  PROVE  HeaderStatus([b EXCEPT ![k] = Other]) # "ok"
<1> DEFINE f == [b EXCEPT ![k] = Other]
<1>1. k \in {1, 2, 3} /\ f[k] = Other
  OBVIOUS
<1> HIDE DEF f
<1>2. Other # Magic /\ Other # Version /\ Other # Fingerprint
      /\ 0 # Version /\ 0 # Fingerprint
  BY DEF Other, Magic, Version, Fingerprint
<1>3. CASE k = 1
  BY <1>1, <1>2, <1>3 DEF HeaderStatus, f
<1>4. CASE k = 2
  <2>1. Word(f, 2) # Version
    BY <1>1, <1>2, <1>4 DEF Word
  <2> QED
    BY <2>1 DEF HeaderStatus, f
<1>5. CASE k = 3
  <2>1. Word(f, 3) # Fingerprint
    BY <1>1, <1>2, <1>5 DEF Word
  <2> QED
    BY <2>1 DEF HeaderStatus, f
<1> QED
  BY <1>1, <1>3, <1>4, <1>5

(* A part of a sequence is what stands in its place.                       *)
LEMMA PartIs ==
  ASSUME NEW S, NEW T, NEW b \in Seq(S), NEW s \in Seq(T), NEW a \in Nat,
         a + Len(s) <= Len(b), \A j \in 1 .. Len(s) : b[a + j] = s[j]
  PROVE  SubSeq(b, a + 1, a + Len(s)) = s
<1> DEFINE n == Len(s)
           lo == a + 1
           hi == a + n
           part == SubSeq(b, lo, hi)
<1>1. n \in Nat /\ Len(b) \in Nat /\ a \in Nat /\ a + n <= Len(b)
  BY LenProperties
<1>2. \A j \in 1 .. n : b[a + j] = s[j] /\ s[j] \in T
  BY ElementOfSeq
<1> HIDE DEF n
<1>3. ASSUME NEW i \in a + 1 .. a + n  PROVE b[i] \in T
  <2>1. i - a \in 1 .. n /\ a + (i - a) = i
    BY <1>1
  <2> QED
    BY <1>2, <2>1
<1>4. /\ part \in Seq(T)
      /\ Len(part) = IF lo <= hi THEN hi - lo + 1 ELSE 0
      /\ \A i \in 1 .. hi - lo + 1 : part[i] = b[lo + i - 1]
  <2>1. lo \in Int /\ hi \in Int
    BY <1>1
  <2>2. \A i \in lo .. hi : b[i] \in T
    BY <1>3
  <2> HIDE DEF lo, hi
  <2> QED
    BY ONLY <2>1, <2>2, SubSeqProperties
<1>5. hi - lo + 1 = n /\ (~(lo <= hi) => n = 0)
      /\ \A i \in 1 .. n : lo + i - 1 = a + i
  BY <1>1
<1> HIDE DEF part, lo, hi
<1>6. Len(part) = n /\ \A i \in 1 .. n : part[i] = s[i]
  <2>1. Len(part) = n
    BY <1>4, <1>5
  <2>2. \A i \in 1 .. n : part[i] = b[a + i]
    BY <1>4, <1>5
  <2> QED
    BY <1>2, <2>1, <2>2
<1>7. part = s
  BY <1>4, <1>6, SeqEqual DEF n
<1> QED
  BY <1>7 DEF part, lo, hi, n

(* The table that load makes of the buffer of a table.                     *)
Reloaded(t) ==
  [t EXCEPT !.columns = [C \in Columns |-> Replayed(t.columns[C].dense, t.columns[C].data)]]

(* It is a table again, and nothing in it that save would write differs.   *)
LEMMA ReloadedIs ==
  ASSUME NEW t, TableIs(t)
  PROVE  TableIs(Reloaded(t)) /\ SnapshotOf(Reloaded(t)) = SnapshotOf(t)
<1> DEFINE cols == [C \in Columns |-> Replayed(t.columns[C].dense, t.columns[C].data)]
           u == Reloaded(t)
<1>1. t \in [rows : Seq(RowMeta), links : Seq(IndexOrNpos), head : IndexOrNpos,
             count : Nat, stale : SUBSET Handles, columns : [Columns -> Column]]
      /\ \A C \in Columns : t.columns[C] \in Column /\ SparseSet(t.columns[C])
  BY DEF TableIs
<1>2. /\ u.rows = t.rows /\ u.links = t.links /\ u.head = t.head
      /\ u.count = t.count /\ u.stale = t.stale /\ u.columns = cols
      /\ u = [rows |-> t.rows, links |-> t.links, head |-> t.head,
              count |-> t.count, stale |-> t.stale, columns |-> cols]
  BY <1>1 DEF Reloaded
<1> HIDE DEF u
<1>3. ASSUME NEW C \in Columns
      PROVE  /\ cols[C] \in Column /\ SparseSet(cols[C])
             /\ cols[C].dense = t.columns[C].dense
             /\ cols[C].data = t.columns[C].data
             /\ RowsIn(cols[C]) = RowsIn(t.columns[C])
  BY <1>1, ReplayedSame
<1> HIDE DEF cols
<1>4. cols \in [Columns -> Column]
  BY <1>3 DEF cols
<1>5. u \in [rows : Seq(RowMeta), links : Seq(IndexOrNpos), head : IndexOrNpos,
             count : Nat, stale : SUBSET Handles, columns : [Columns -> Column]]
  BY <1>1, <1>2, <1>4
<1>6. AliveOf(u) = AliveOf(t)
  BY <1>2 DEF AliveOf
<1>7. \A chain : ChainOf(t, chain) => ChainOf(u, chain)
  BY <1>2, <1>6 DEF ChainOf
<1>8. \A C \in Columns : \A r \in RowsIn(u.columns[C]) :
        r \in AliveOf(u) /\ C \in At(u.rows, r).signature
  BY <1>2, <1>3, <1>6 DEF TableIs
<1>9. /\ Len(u.rows) <= npos /\ Len(u.links) = Len(u.rows)
      /\ u.count = Cardinality(AliveOf(u))
      /\ \A C \in Columns : SparseSet(u.columns[C])
  BY <1>2, <1>3, <1>6 DEF TableIs
<1>10. TableIs(u)
  <2>1. \E chain : ChainOf(u, chain)
    BY <1>7 DEF TableIs
  <2> QED
    BY <1>5, <1>8, <1>9, <2>1 DEF TableIs
<1>11. SnapshotOf(u) = SnapshotOf(t)
  BY <1>2, <1>3 DEF SnapshotOf
<1> QED
  BY <1>10, <1>11 DEF u

(* What load reads from a whole buffer.                                    *)
LEMMA WholeIsRestored ==
  ASSUME NEW t, TableIs(t), NEW b, NEW off, LaidOut(t, b, off)
  PROVE  /\ [k \in 1 .. b[4] |-> LoadedRow(b, k - 1)] = t.rows
         /\ LoadedLinks(b) = t.links
         /\ b[5] = t.head /\ b[6] = t.count
         /\ \A k \in 1 .. Len(Declared) :
              LET c == t.columns[Declared[k]]
              IN  LoadedColumn(b, k) = Replayed(c.dense, c.data)
<1> DEFINE n == Len(t.rows)
           m == Len(Declared)
<1>1. /\ n \in Nat /\ m \in Nat /\ off[m] \in Nat /\ b[4] = n
      /\ Len(b) = 6 + 4 * n + off[m] /\ Len(b) \in Nat
      /\ b \in Seq(Written)
  <2>1. Len(Declared) \in 0 .. Len(Declared)
    BY DeclaredIs
  <2> QED
    BY <2>1, LayoutFacts DEF LaidOut
<1>2. /\ t.rows \in Seq(RowMeta) /\ t.links \in Seq(IndexOrNpos) /\ Len(t.links) = n
      /\ t.columns \in [Columns -> Column]
      /\ \A C \in Columns : SparseSet(t.columns[C])
  BY DEF TableIs
<1>3. b[5] = t.head /\ b[6] = t.count
  BY DEF LaidOut
<1>4. ASSUME NEW k \in 1 .. n
      PROVE  LoadedRow(b, k - 1) = t.rows[k]
  <2>1. /\ b[6 + 3 * (k - 1) + 1] = t.rows[k].generation
        /\ b[6 + 3 * (k - 1) + 2] = t.rows[k].signature
        /\ b[6 + 3 * (k - 1) + 3] = t.rows[k].alive
    BY DEF LaidOut
  <2>2. /\ 7 + 3 * (k - 1) = 6 + 3 * (k - 1) + 1
        /\ 8 + 3 * (k - 1) = 6 + 3 * (k - 1) + 2
        /\ 9 + 3 * (k - 1) = 6 + 3 * (k - 1) + 3
    BY <1>1
  <2>3. LoadedRow(b, k - 1) = [generation |-> t.rows[k].generation,
                               signature  |-> t.rows[k].signature,
                               alive      |-> t.rows[k].alive]
    BY <2>1, <2>2 DEF LoadedRow
  <2>4. t.rows[k] \in RowMeta
    BY <1>2, ElementOfSeq
  <2> QED
    BY <2>3, <2>4 DEF RowMeta
<1>5. [k \in 1 .. b[4] |-> LoadedRow(b, k - 1)] = t.rows
  <2>1. t.rows = [k \in 1 .. n |-> t.rows[k]]
    BY <1>2
  <2> QED
    BY <1>1, <1>4, <2>1
<1>6. LoadedLinks(b) = t.links
  <2> DEFINE a == 6 + 3 * n
  <2>1. a \in Nat /\ a + Len(t.links) <= Len(b)
    BY <1>1, <1>2
  <2>2. \A j \in 1 .. Len(t.links) : b[a + j] = t.links[j]
    BY <1>2 DEF LaidOut
  <2> HIDE DEF a
  <2>3. SubSeq(b, a + 1, a + Len(t.links)) = t.links
    BY <1>1, <1>2, <2>1, <2>2, PartIs
  <2> QED
    BY <1>1, <1>2, <2>3 DEF LoadedLinks, LinksAt, a
<1>7. ASSUME NEW k \in 1 .. m
      PROVE  LET c == t.columns[Declared[k]]
             IN  LoadedColumn(b, k) = Replayed(c.dense, c.data)
  <2> DEFINE c == t.columns[Declared[k]]
             l == Len(c.dense)
             p == off[k - 1]
             at == 6 + 4 * n + p
  <2>1. /\ l \in Nat /\ p \in Nat /\ off[k] \in Nat
        /\ off[k] = p + 1 + 2 * l /\ off[k] <= off[m]
        /\ b[at + 1] = l
    BY LayoutFacts
  <2>2. \A j \in 1 .. l : b[at + 1 + j] = c.dense[j] /\ b[at + 1 + l + j] = c.data[j]
    BY DEF LaidOut
  <2>3. ColumnAt(b)[k] = at
    <3>1. k \in 1 .. m + 1
      BY <1>1
    <3> QED
      BY <3>1, ColumnsFound
  <2>4. c.dense \in Seq(Index) /\ c.data \in Seq(Values) /\ Len(c.data) = l
    <3>1. Declared[k] \in Columns
      BY DeclaredIs, ElementOfSeq
    <3>2. c \in Column /\ SparseSet(c)
      BY <1>2, <3>1
    <3> QED
      BY <3>2, ColumnParts DEF SparseSet
  <2>5. at \in Nat /\ at + 1 + l + l <= Len(b)
    <3> HIDE DEF n, m, l, p, c
    <3> QED
      BY <1>1, <2>1
  <2>d. Len(c.dense) = l
    OBVIOUS
  <2> HIDE DEF at, c, l
  <2>6. SubSeq(b, at + 1 + 1, at + 1 + l) = c.dense
    <3>1. at + 1 \in Nat /\ at + 1 + Len(c.dense) <= Len(b)
      BY <1>1, <2>1, <2>5, <2>d
    <3>2. \A j \in 1 .. Len(c.dense) : b[at + 1 + j] = c.dense[j]
      BY <2>2, <2>d
    <3>3. SubSeq(b, at + 1 + 1, at + 1 + Len(c.dense)) = c.dense
      BY ONLY <1>1, <2>4, <3>1, <3>2, PartIs
    <3> QED
      BY <2>d, <3>3
  <2>7. SubSeq(b, at + 1 + l + 1, at + 1 + l + l) = c.data
    <3>1. at + 1 + l \in Nat /\ at + 1 + l + Len(c.data) <= Len(b)
      BY <1>1, <2>1, <2>4, <2>5
    <3>2. \A j \in 1 .. Len(c.data) : b[at + 1 + l + j] = c.data[j]
      BY <2>2, <2>4
    <3>3. SubSeq(b, at + 1 + l + 1, at + 1 + l + Len(c.data)) = c.data
      BY ONLY <1>1, <2>4, <3>1, <3>2, PartIs
    <3> QED
      BY <2>4, <3>3
  <2>8. at + 1 + 2 * l = at + 1 + l + l
    BY <2>1, <2>5
  <2>9. LoadedColumn(b, k) = Replayed(c.dense, c.data)
    BY <2>1, <2>3, <2>6, <2>7, <2>8 DEF LoadedColumn
  <2> QED
    BY <2>9 DEF c
<1> QED
  BY <1>3, <1>5, <1>6, <1>7 DEF m

-----------------------------------------------------------------------------
(* The three ways through load.                                            *)

(* A whole buffer: the table becomes what load makes of the buffer.        *)
LEMMA LoadedIsReloaded ==
  ASSUME NEW t, TableIs(t), NEW b, b = ImageOf(t), saved = SnapshotOf(t),
         LoadOk(b)
  PROVE  Now' = Reloaded(t)
<1>1. PICK off : LaidOut(t, b, off)
  BY ImageLayout
<1>2. /\ [k \in 1 .. b[4] |-> LoadedRow(b, k - 1)] = t.rows
      /\ LoadedLinks(b) = t.links
      /\ b[5] = t.head /\ b[6] = t.count
      /\ \A k \in 1 .. Len(Declared) :
           LET c == t.columns[Declared[k]]
           IN  LoadedColumn(b, k) = Replayed(c.dense, c.data)
  BY <1>1, WholeIsRestored
<1>3. \A k \in 1 .. Len(Declared) : ColumnRead(b, k)
  BY <1>1, WholeIsRead
<1>4. m_rows' = t.rows /\ m_free_links' = t.links
      /\ m_free_head' = t.head /\ m_alive_count' = t.count
  BY <1>2 DEF LoadOk, Fill
<1>5. stale' = t.stale
  BY DEF LoadOk, SnapshotOf
<1> DEFINE ReplayedOf(C) == Replayed(t.columns[C].dense, t.columns[C].data)
           KOf(C) == CHOOSE k \in DOMAIN Declared : Declared[k] = C
           LoadedOf(C) == IF ColumnRead(b, KOf(C)) THEN LoadedColumn(b, KOf(C)) ELSE EmptyColumn
<1>6. m_columns' = [C \in Columns |-> LoadedOf(C)]
  BY DEF LoadOk, Fill
<1>7. ASSUME NEW C \in Columns  PROVE LoadedOf(C) = ReplayedOf(C)
  <2>1. \E k \in DOMAIN Declared : Declared[k] = C
    BY DeclaredIs DEF ToSet
  <2>2. PICK k : k = KOf(C)
    OBVIOUS
  <2>3. k \in DOMAIN Declared /\ Declared[k] = C
    BY <2>1, <2>2
  <2>4. k \in 1 .. Len(Declared)
    BY <2>3, DeclaredIs
  <2>5. LoadedOf(C) = LoadedColumn(b, k)
    BY <1>3, <2>2, <2>4
  <2> QED
    BY <1>2, <2>3, <2>4, <2>5
<1> HIDE DEF LoadedOf, ReplayedOf
<1>8. m_columns' = [C \in Columns |-> ReplayedOf(C)]
  BY <1>6, <1>7
<1>9. t \in [rows : Seq(RowMeta), links : Seq(IndexOrNpos), head : IndexOrNpos,
             count : Nat, stale : SUBSET Handles, columns : [Columns -> Column]]
  BY DEF TableIs
<1>10. Reloaded(t) = [rows |-> t.rows, links |-> t.links, head |-> t.head,
                      count |-> t.count, stale |-> t.stale,
                      columns |-> [C \in Columns |-> ReplayedOf(C)]]
  BY <1>9 DEF Reloaded, ReplayedOf
<1> QED
  BY <1>4, <1>5, <1>8, <1>10 DEF Now

(* Given a whole buffer load succeeds; given anything else it does not.    *)
LEMMA OnlyWholeIsOk ==
  ASSUME NEW t, TableIs(t), buffer = ImageOf(t)
  PROVE  /\ buffer # <<>>
         /\ HeaderStatus(buffer) = "ok" /\ RowsRead(buffer) /\ AllRead(buffer)
         /\ \A bytes \in Prefixes(buffer) \cup Foreign :
              bytes # buffer => HeaderStatus(bytes) # "ok" \/ ~AllRead(bytes)
<1>1. PICK off : LaidOut(t, buffer, off)
  BY ImageLayout
<1>2. HeaderStatus(buffer) = "ok" /\ RowsRead(buffer) /\ AllRead(buffer)
  BY <1>1, WholeIsRead
<1>3. buffer \in Seq(Written) /\ Len(buffer) \in Nat /\ Len(buffer) >= 6
  BY <1>1 DEF LaidOut
<1>4. buffer # <<>>
  BY <1>3, EmptySeq
<1>5. ASSUME NEW bytes \in Prefixes(buffer), bytes # buffer
      PROVE  HeaderStatus(bytes) # "ok" \/ ~AllRead(bytes)
  <2>1. PICK l \in 0 .. Len(buffer) : bytes = SubSeq(buffer, 1, l)
    BY DEF Prefixes
  <2>2. l # Len(buffer)
    BY <1>3, <1>5, <2>1, SubSeqFull
  <2> QED
    BY <1>1, <2>1, <2>2, CutIsNoticed
<1>6. ASSUME NEW bytes \in Foreign  PROVE HeaderStatus(bytes) # "ok"
  BY ForeignIsRefused DEF Foreign
<1> QED
  BY <1>2, <1>4, <1>5, <1>6

(* There is nothing to load from a buffer that is not there.               *)
LEMMA NothingIsRefused ==
  ASSUME buffer = <<>>, NEW bytes \in Prefixes(buffer) \cup Foreign
  PROVE  HeaderStatus(bytes) # "ok"
<1>1. bytes \notin Foreign
  BY DEF Foreign
<1>2. bytes = SubSeq(<<>>, 1, 0)
  <2>1. 0 .. Len(<<>>) = {0}
    BY EmptySeq
  <2> QED
    BY <1>1, <2>1 DEF Prefixes
<1>3. Len(bytes) < 1
  BY <1>2
<1> QED
  BY <1>3 DEF HeaderStatus

-----------------------------------------------------------------------------
(* The table between saves and loads.                                      *)

(* What is in the buffer is what was saved.                                *)
BufferIsSaved ==
  buffer # <<>> =>
    \E t : TableIs(t) /\ buffer = ImageOf(t) /\ saved = SnapshotOf(t)

(* What every step of a program that saves and loads keeps.                *)
SerializeInv == IInv /\ BufferIsSaved

(* The invariant speaks of the table there will be.                        *)
LEMMA NextInvIsNow == TableIs(Now)' => IInv'
BY InvIsNow, PTL

(* The empty table meets the invariant.                                    *)
LEMMA EmptiedKeeps == Init' => IInv'
<1>1. Init => IInv
  BY InitKeeps
<1> QED
  BY <1>1, PTL

(* A step of the table leaves the buffer alone.                            *)
LEMMA TableStepKeeps ==
  ASSUME SerializeInv, TableStep
  PROVE  SerializeInv'
<1>1. IInv'
  BY StableIsNext, NextKeeps DEF TableStep, SerializeInv
<1>2. buffer' = buffer /\ saved' = saved
  BY DEF TableStep
<1> QED
  BY <1>1, <1>2 DEF SerializeInv, BufferIsSaved

(* save writes the table there is.                                         *)
LEMMA SaveKeeps ==
  ASSUME SerializeInv, save
  PROVE  SerializeInv'
<1>1. IInv'
  BY StutterKeeps DEF save, SerializeInv
<1>2. buffer' = ImageOf(Now) /\ saved' = SnapshotOf(Now)
  BY SavedIsNow DEF save
<1>3. TableIs(Now)
  BY InvIsNow DEF SerializeInv
<1> QED
  BY <1>1, <1>2, <1>3 DEF SerializeInv, BufferIsSaved

(* load leaves a table behind, whatever it is given.                       *)
LEMMA LoadKeeps ==
  ASSUME SerializeInv, NEW bytes \in Prefixes(buffer) \cup Foreign, load(bytes)
  PROVE  SerializeInv'
<1>1. buffer' = <<>>
  BY DEF load
<1>2. CASE LoadRefused(bytes)
  <2>1. IInv'
    BY <1>2, StutterKeeps DEF LoadRefused, SerializeInv
  <2> QED
    BY <1>1, <2>1 DEF SerializeInv, BufferIsSaved
<1>3. CASE LoadTruncated(bytes)
  <2>1. Init'
    BY <1>3 DEF LoadTruncated, Init
  <2> QED
    BY <1>1, <2>1, EmptiedKeeps DEF SerializeInv, BufferIsSaved
<1>4. CASE LoadOk(bytes)
  <2>1. buffer # <<>>
    BY <1>4, NothingIsRefused DEF LoadOk
  <2>2. PICK t : TableIs(t) /\ buffer = ImageOf(t) /\ saved = SnapshotOf(t)
    BY <2>1 DEF SerializeInv, BufferIsSaved
  <2>3. bytes = buffer
    BY <1>4, <2>2, OnlyWholeIsOk DEF LoadOk
  <2>4. Now' = Reloaded(t)
    BY <1>4, <2>2, <2>3, LoadedIsReloaded
  <2>5. TableIs(Reloaded(t))
    BY <2>2, ReloadedIs
  <2>6. TableIs(Now)'
    BY <2>4, <2>5
  <2> QED
    BY <1>1, <2>6, NextInvIsNow DEF SerializeInv, BufferIsSaved
<1> QED
  BY <1>2, <1>3, <1>4 DEF load

(* The table is one, and the buffer holds what was saved.                  *)
THEOREM SerializeInvariance == SerializeSpec => []SerializeInv
<1>1. SerializeInit => SerializeInv
  BY InitKeeps DEF SerializeInit, SerializeInv, BufferIsSaved
<1>2. SerializeInv /\ [SerializeNext]_allVars => SerializeInv'
  <2> SUFFICES ASSUME SerializeInv, [SerializeNext]_allVars
               PROVE  SerializeInv'
    OBVIOUS
  <2>1. CASE TableStep
    BY <2>1, TableStepKeeps
  <2>2. CASE save
    BY <2>2, SaveKeeps
  <2>3. CASE \E bytes \in Prefixes(buffer) \cup Foreign : load(bytes)
    BY <2>3, LoadKeeps
  <2>4. CASE UNCHANGED allVars
    <3>1. IInv'
      BY <2>4, StutterKeeps DEF allVars, SerializeInv
    <3>2. buffer' = buffer /\ saved' = saved
      BY <2>4 DEF allVars
    <3> QED
      BY <3>1, <3>2 DEF SerializeInv, BufferIsSaved
  <2> QED
    BY <2>1, <2>2, <2>3, <2>4 DEF SerializeNext
<1> QED
  BY <1>1, <1>2, PTL DEF SerializeSpec

(* What is loaded from a whole buffer is what was saved.                   *)
LEMMA WholeLoads ==
  ASSUME SerializeInv, buffer # <<>>, load(buffer)
  PROVE  status' = "ok" /\ Snapshot' = saved
<1>1. PICK t : TableIs(t) /\ buffer = ImageOf(t) /\ saved = SnapshotOf(t)
  BY DEF SerializeInv, BufferIsSaved
<1>2. LoadOk(buffer)
  BY <1>1, OnlyWholeIsOk DEF load, LoadRefused, LoadTruncated
<1>3. Now' = Reloaded(t)
  BY <1>1, <1>2, LoadedIsReloaded
<1>4. Snapshot' = SnapshotOf(Now)'
  <2>2. (Snapshot = SnapshotOf(Now))'
    BY SavedIsNow, PTL
  <2> QED
    BY <2>2
<1>5. SnapshotOf(Now)' = SnapshotOf(Reloaded(t))
  BY <1>3 DEF SnapshotOf
<1> QED
  BY <1>1, <1>2, <1>4, <1>5, ReloadedIs DEF LoadOk

(* From anything else nothing is taken.                                    *)
LEMMA RestIsRefused ==
  ASSUME SerializeInv, NEW bytes \in Prefixes(buffer) \cup Foreign, load(bytes),
         ~(bytes = buffer /\ buffer # <<>>)
  PROVE  status' # "ok" /\ (IsEmpty' \/ UNCHANGED Snapshot)
<1>1. ~LoadOk(bytes)
  <2>1. CASE buffer = <<>>
    BY <2>1, NothingIsRefused DEF LoadOk
  <2>2. CASE buffer # <<>>
    <3>1. PICK t : TableIs(t) /\ buffer = ImageOf(t) /\ saved = SnapshotOf(t)
      BY <2>2 DEF SerializeInv, BufferIsSaved
    <3> QED
      BY <2>2, <3>1, OnlyWholeIsOk DEF LoadOk
  <2> QED
    BY <2>1, <2>2
<1>2. CASE LoadRefused(bytes)
  BY <1>2 DEF LoadRefused, vars, Snapshot
<1>3. CASE LoadTruncated(bytes)
  BY <1>3 DEF LoadTruncated, IsEmpty
<1> QED
  BY <1>1, <1>2, <1>3 DEF load

(* load restores the table that was saved, or takes nothing from a buffer  *)
(* that is not whole.                                                      *)
THEOREM LoadIsAllOrNothing == SerializeSpec => LoadAllOrNothing
<1> DEFINE Holds == \A bytes \in Prefixes(buffer) \cup Foreign :
                      load(bytes) =>
                        IF bytes = buffer /\ buffer # <<>>
                        THEN status' = "ok" /\ Snapshot' = saved
                        ELSE status' # "ok" /\ (IsEmpty' \/ UNCHANGED Snapshot)
<1>1. SerializeInv => Holds
  BY WholeLoads, RestIsRefused
<1>2. [][Holds]_allVars <=> LoadAllOrNothing
  BY DEF LoadAllOrNothing
<1> HIDE DEF Holds
<1>3. SerializeInv /\ [SerializeNext]_allVars => [Holds]_allVars
  BY <1>1
<1> QED
  BY <1>2, <1>3, SerializeInvariance, PTL DEF SerializeSpec
=============================================================================
