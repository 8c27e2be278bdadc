--------------------------- MODULE TableCallsProofs ---------------------------
(***************************************************************************)
(* The calls that touch more than one row, for every set of columns and    *)
(* values: when the observers answer alike, that the folds compute         *)
(* what their definition over the rows says, and that batches and loops    *)
(* keep what they promise to the caller although the loop bodies change    *)
(* the table under them.                                                   *)
(***************************************************************************)
EXTENDS TableCalls, SoaTableProofs

-----------------------------------------------------------------------------
(* The accessors.                                                          *)

(* The places of a column: place i holds the value of row dense[i].        *)
LEMMA PlaceHolds ==
  ASSUME IInv, NEW C \in Columns
  PROVE  LET c == m_columns[C]
         IN  /\ Len(c.dense) \in Nat
             /\ c.data \in Seq(Values) /\ Len(c.data) = Len(c.dense)
             /\ DOMAIN c.data = 1 .. Len(c.dense)
             /\ DOMAIN c.dense = 1 .. Len(c.dense)
             /\ \A i \in 1 .. Len(c.dense) : /\ c.dense[i] \in RowsIn(c)
                                             /\ c.dense[i] \in AliveSlots
                                             /\ get(c, c.dense[i]) = c.data[i]
             /\ \A r \in RowsIn(c) : \E i \in 1 .. Len(c.dense) : c.dense[i] = r
<1> DEFINE c == m_columns[C]
<1>1. /\ c \in Column /\ SparseSet(c)
      /\ c.dense \in Seq(Index) /\ ToSet(c.dense) = RowsIn(c)
  BY DenseLists DEF IInv, TypeOK, ColumnsConsistent
<1>2. RowsIn(c) \subseteq AliveSlots
  BY DEF IInv, PooledIsSigned
<1> HIDE DEF c
<1>3. /\ c.data \in Seq(Values) /\ Len(c.data) = Len(c.dense)
      /\ Len(c.dense) \in Nat /\ DOMAIN c.dense = 1 .. Len(c.dense)
      /\ DOMAIN c.data = 1 .. Len(c.dense)
  BY <1>1, ColumnFacts, LenProperties DEF Column
<1>4. \A i \in 1 .. Len(c.dense) : At(c.sparse, c.dense[i]) = i - 1
  BY <1>1, DenseBounded
<1>5. ASSUME NEW i \in 1 .. Len(c.dense)
      PROVE  get(c, c.dense[i]) = c.data[i]
  <2>1. At(c.data, i - 1) = c.data[i]
    BY DEF At
  <2> QED
    BY <1>4, <2>1 DEF get
<1> QED
  BY <1>1, <1>2, <1>3, <1>5 DEF c, ToSet

(* The slots in order, as select of optional columns walks them.           *)
LEMMA OptionalVisits ==
  ASSUME IInv
  PROVE  IsInjective(select_optional) /\ ToSet(select_optional) = AliveSlots
<1> DEFINE slots == [i \in 1 .. Len(m_rows) |-> i - 1]
<1>1. /\ Len(m_rows) \in Nat /\ Slots = 0 .. Len(m_rows) - 1
      /\ AliveSlots \subseteq Slots
  BY SlotFacts DEF IInv
<1>2. slots \in [1 .. Len(m_rows) -> Nat]
  BY <1>1
<1>3. slots \in Seq(Nat)
  <2> HIDE DEF slots
  <2> QED
    BY <1>1, <1>2, FunctionIsVector
<1>4. IsInjective(slots)
  BY <1>1 DEF IsInjective
<1>5. ToSet(slots) = Slots
  <2>1. \A i \in 1 .. Len(m_rows) : slots[i] \in Slots
    BY <1>1
  <2>2. ASSUME NEW r \in Slots
        PROVE  r + 1 \in 1 .. Len(m_rows) /\ slots[r + 1] = r
    BY <1>1
  <2>3. DOMAIN slots = 1 .. Len(m_rows)
    OBVIOUS
  <2> HIDE DEF slots
  <2> QED
    BY <2>1, <2>2, <2>3 DEF ToSet
<1> HIDE DEF slots
<1>6. /\ IsInjective(Kept(slots, AliveSlots))
      /\ ToSet(Kept(slots, AliveSlots)) = Slots \cap AliveSlots
  BY <1>3, <1>4, <1>5, KeptCorrect
<1> QED
  BY <1>1, <1>6 DEF select_optional, slots

(* The column itself is what a rolling mean over its rows reads.           *)
LEMMA RollingReadsColumn ==
  ASSUME IInv, SignatureExact, NEW C \in Columns
  PROVE  rolling_input(C) = column(C)
<1> DEFINE c       == m_columns[C]
           passing == {r \in Index : Passes({C}, r)}
<1>1. /\ Len(c.dense) \in Nat
      /\ c.data \in Seq(Values) /\ Len(c.data) = Len(c.dense)
      /\ DOMAIN c.data = 1 .. Len(c.dense)
      /\ DOMAIN c.dense = 1 .. Len(c.dense)
      /\ \A i \in 1 .. Len(c.dense) : /\ c.dense[i] \in RowsIn(c)
                                      /\ c.dense[i] \in AliveSlots
                                      /\ get(c, c.dense[i]) = c.data[i]
  BY PlaceHolds
<1>2. c.dense \in Seq(Index)
  BY DenseLists
<1>3. Drivers({C}) = {C}
  <2>1. Len(c.dense) <= Len(c.dense)
    BY <1>1
  <2> QED
    BY <2>1 DEF Drivers
<1>4. \A i \in 1 .. Len(c.dense) : c.dense[i] \in passing
  <2>1. ASSUME NEW i \in 1 .. Len(c.dense)
        PROVE  c.dense[i] \in passing
    <3> DEFINE r == c.dense[i]
    <3>1. r \in AliveSlots /\ r \in RowsIn(c) /\ r \in Index
      BY <1>1 DEF RowsIn
    <3> HIDE DEF r
    <3>2. C \in At(m_rows, r).signature
      BY <3>1 DEF IInv, PooledIsSigned, c
    <3>3. r < Len(m_rows) /\ At(m_rows, r).alive
      BY <3>1, SlotFacts DEF IInv, AliveSlots
    <3> QED
      BY <3>1, <3>2, <3>3 DEF Passes, r
  <2> QED
    BY <2>1
<1>5. Joined({C}) = Kept(c.dense, passing)
  BY <1>3 DEF Joined, select
<1> HIDE DEF passing, c
<1>6. Joined({C}) = c.dense
  BY <1>2, <1>4, <1>5, KeptWhole
<1>7. rolling_input(C) = [i \in 1 .. Len(c.dense) |-> get(c, c.dense[i])]
  BY <1>1, <1>6 DEF rolling_input, c
<1>8. rolling_input(C) = [i \in 1 .. Len(c.dense) |-> c.data[i]]
  BY <1>1, <1>7
<1>9. c.data = [i \in 1 .. Len(c.dense) |-> c.data[i]]
  BY <1>1, LenProperties
<1> QED
  BY <1>8, <1>9 DEF column, c

(* One answer, from wherever it is read.                                   *)
LEMMA AnswersAgree ==
  ASSUME IInv, SignatureExact, NEW C \in Columns, NEW id \in Handles
  PROVE  LET at == {i \in DOMAIN column(C) :
                      make_row_id(row_indices(C)[i]) = id}
         IN  /\ table_contains(C, id) <=> ~get_throws(C, id)
             /\ table_contains(C, id) <=> get_expected(C, id)[1] = "value"
             /\ table_contains(C, id) <=> (is_valid(id) /\ id.index \in validity(C))
             /\ table_contains(C, id) <=> at # {}
             /\ \A i \in at : /\ try_get(C, id) = {column(C)[i]}
                              /\ get_expected(C, id) = <<"value", column(C)[i]>>
<1> DEFINE c  == m_columns[C]
           r  == id.index
           at == {i \in DOMAIN column(C) : make_row_id(row_indices(C)[i]) = id}
<1>1. is_valid(id) => /\ r \in AliveSlots /\ r \in Index /\ id = Handle(r)
                      /\ C \in At(m_rows, r).signature <=> contains(c, r)
                      /\ contains(c, r) <=> r \in RowsIn(c)
  BY ValidIsAlive, SignatureIs DEF IInv
<1>2. table_contains(C, id) <=> is_valid(id) /\ contains(c, r)
  BY <1>1 DEF table_contains
<1>3. try_get(C, id) = IF table_contains(C, id) THEN {get(c, r)} ELSE {}
  BY <1>2 DEF try_get
<1>4. table_contains(C, id) <=> ~get_throws(C, id)
  BY <1>3 DEF get_throws
<1>5. /\ table_contains(C, id) => get_expected(C, id) = <<"value", get(c, r)>>
      /\ ~table_contains(C, id) => get_expected(C, id)[1] # "value"
  BY <1>2 DEF get_expected
<1>6. table_contains(C, id) <=> (is_valid(id) /\ id.index \in validity(C))
  BY <1>1 DEF table_contains, validity
<1>7. /\ DOMAIN c.data = 1 .. Len(c.dense)
      /\ \A i \in 1 .. Len(c.dense) : /\ c.dense[i] \in RowsIn(c)
                                      /\ c.dense[i] \in AliveSlots
                                      /\ get(c, c.dense[i]) = c.data[i]
      /\ \A q \in RowsIn(c) : \E i \in 1 .. Len(c.dense) : c.dense[i] = q
  BY PlaceHolds
<1>8. \A i : i \in at <=> i \in 1 .. Len(c.dense) /\ Handle(c.dense[i]) = id
  BY <1>7 DEF column, row_indices, make_row_id
<1>9. ASSUME NEW i \in at
      PROVE  /\ table_contains(C, id)
             /\ c.data[i] = get(c, r)
  <2>1. /\ i \in 1 .. Len(c.dense) /\ Handle(c.dense[i]) = id
        /\ c.dense[i] \in AliveSlots /\ c.dense[i] \in RowsIn(c)
        /\ get(c, c.dense[i]) = c.data[i]
    BY <1>7, <1>8
  <2>2. r = c.dense[i]
    BY <2>1 DEF Handle
  <2>3. is_valid(id)
    <3>1. r \in Slots /\ Slots = 0 .. Len(m_rows) - 1 /\ Len(m_rows) \in Nat
      BY <2>1, <2>2, SlotFacts DEF IInv
    <3>2. r < Len(m_rows)
      BY <3>1
    <3>3. At(m_rows, r).alive /\ At(m_rows, r).generation = id.generation
      BY <2>1, <2>2 DEF AliveSlots, Handle
    <3> QED
      BY <3>2, <3>3 DEF is_valid
  <2> QED
    BY <1>1, <1>2, <2>1, <2>2, <2>3
<1>10. table_contains(C, id) => at # {}
  <2>1. ASSUME table_contains(C, id)
        PROVE  \E i : i \in at
    <3>1. r \in RowsIn(c) /\ id = Handle(r)
      BY <1>1, <1>2, <2>1
    <3> QED
      BY <1>7, <1>8, <3>1
  <2> QED
    BY <2>1
<1> HIDE DEF at
<1>11. \A i \in at : /\ try_get(C, id) = {column(C)[i]}
                     /\ get_expected(C, id) = <<"value", column(C)[i]>>
  BY <1>3, <1>5, <1>9 DEF column
<1>12. table_contains(C, id) <=> get_expected(C, id)[1] = "value"
  BY <1>5
<1>13. table_contains(C, id) <=> at # {}
  BY <1>9, <1>10
<1> QED
  BY <1>4, <1>6, <1>11, <1>12, <1>13 DEF at

(* All ways to ask for a cell, or for the rows of a column, answer alike.  *)
LEMMA ObserversDoAgree ==
  ASSUME IInv, SignatureExact
  PROVE  ObserversAgree
<1>1. ASSUME NEW C \in Columns, NEW r \in AliveSlots
      PROVE  Optional(C, r) = try_get(C, Handle(r))
  <2>1. /\ r \in Index
        /\ C \in At(m_rows, r).signature <=> contains(m_columns[C], r)
    BY SignatureIs
  <2>2. Handle(r).index = r /\ is_valid(Handle(r))
    <3>1. r \in Slots /\ Slots = 0 .. Len(m_rows) - 1 /\ Len(m_rows) \in Nat
      BY SlotFacts DEF IInv
    <3>2. r < Len(m_rows) /\ At(m_rows, r).alive
      BY <3>1 DEF AliveSlots
    <3> QED
      BY <3>2 DEF Handle, is_valid
  <2> QED
    BY <2>1, <2>2 DEF Optional, try_get, table_contains
<1> QED
  BY <1>1, AnswersAgree, RollingReadsColumn, OptionalVisits DEF ObserversAgree

(* Conversely: where contains says yes and try_get finds something, the    *)
(* bit has a value behind it.                                              *)
LEMMA AgreeingIsExact ==
  ASSUME IInv, ObserversAgree
  PROVE  SignatureExact
<1>1. ASSUME NEW C \in Columns, NEW i \in AliveSlots, C \in At(m_rows, i).signature
      PROVE  contains(m_columns[C], i)
  <2> DEFINE id == Handle(i)
  <2>1. i \in Slots /\ i \in Index /\ Slots = 0 .. Len(m_rows) - 1 /\ Len(m_rows) \in Nat
    BY SlotFacts DEF IInv
  <2>2. id.index = i /\ id \in Handles
    <3>1. At(m_rows, i).generation \in Generation
      BY <2>1, SlotFacts DEF IInv, RowMeta
    <3> QED
      BY <2>1, <3>1, NposAssumption
         DEF Handle, Handles, IndexOrNpos, Index
  <2>3. is_valid(id)
    <3>1. i < Len(m_rows) /\ At(m_rows, i).alive
      BY <2>1 DEF AliveSlots
    <3> QED
      BY <3>1 DEF Handle, is_valid
  <2> HIDE DEF id
  <2>4. table_contains(C, id)
    BY <1>1, <2>2, <2>3 DEF table_contains
  <2>5. try_get(C, id) # {}
    BY <2>2, <2>4 DEF ObserversAgree, get_throws
  <2> QED
    BY <2>2, <2>5 DEF try_get
<1> QED
  BY <1>1 DEF SignatureExact

(* contains, try_get, get, get_expected, validity, the spans of a column,  *)
(* a rolling mean's input and a select of optional columns give one answer *)
(* in exactly the states of a table in which no sort by a column has taken *)
(* a value from under its bit: whatever was called, clear included, and in *)
(* every state when sorts are by columns that cover the others.            *)
THEOREM ObserversAgreeUnlessTorn ==
  /\ Spec => [](ObserversAgree <=> SignatureExact)
  /\ StableSpec => []ObserversAgree
<1>1. IInv => (ObserversAgree <=> SignatureExact)
  BY ObserversDoAgree, AgreeingIsExact
<1>2. Spec => [](ObserversAgree <=> SignatureExact)
  BY <1>1, Invariance, PTL
<1>3. StableSpec => []ObserversAgree
  BY ObserversDoAgree, StableInvariance, SignatureStaysExact, PTL
<1> QED
  BY <1>2, <1>3

-----------------------------------------------------------------------------
(* What a handle reads.                                                    *)

(* A finite set of integers has a greatest element.                        *)
LEMMA MaxIsGreatest ==
  ASSUME NEW S, IsFiniteSet(S), S \subseteq Int, S # {}
  PROVE  Max(S) \in S /\ \A k \in S : Max(S) >= k
<1> DEFINE Above(x) == {y \in S : y > x}
           sizes    == {Cardinality(Above(x)) : x \in S}
<1>1. ASSUME NEW x \in S
      PROVE  IsFiniteSet(Above(x)) /\ Cardinality(Above(x)) \in Nat
  <2>1. Above(x) \in SUBSET S
    OBVIOUS
  <2> HIDE DEF Above
  <2> QED
    BY <2>1, FS_Subset, FS_CardinalityType
<1> HIDE DEF Above
<1>2. sizes \subseteq Nat /\ sizes # {}
  BY <1>1
<1>3. PICK x \in S : \A y \in S : Cardinality(Above(x)) <= Cardinality(Above(y))
  <2>1. PICK m \in sizes : \A k \in sizes : m <= k
    BY <1>2, LeastNatural
  <2> QED
    BY <2>1
<1>4. ASSUME NEW y \in S, y > x
      PROVE  FALSE
  <2>1. Above(y) \in SUBSET Above(x) /\ y \in Above(x) /\ y \notin Above(y)
    <3>1. \A z \in S : z \in Int
      OBVIOUS
    <3>2. \A z \in S : z > y => z > x
      BY <1>4, <3>1
    <3>3. ~(y > y)
      BY <3>1
    <3> QED
      BY <1>4, <3>2, <3>3 DEF Above
  <2>2. Cardinality(Above(y)) <= Cardinality(Above(x))
    BY <1>1, <2>1, FS_Subset
  <2>3. Cardinality(Above(y)) = Cardinality(Above(x))
    BY <1>1, <1>3, <2>2
  <2> QED
    BY <1>1, <2>1, <2>3, FS_Subset
<1>5. \A y \in S : x >= y
  BY <1>4
<1> QED
  BY <1>5 DEF Max

(* What a handle says of the table, and what it reads.                     *)
TableView ==
  /\ IInv /\ SignatureExact
  /\ LiveHandles \subseteq Handles
  /\ \A h \in LiveHandles :
       /\ h.index \in AliveSlots /\ h.index \in Index /\ h = Handle(h.index)
       /\ is_valid(h)
       /\ \A C \in Columns : try_get(C, h) =
            IF h.index \in RowsIn(m_columns[C])
            THEN {get(m_columns[C], h.index)} ELSE {}
  /\ \A h \in Handles : is_valid(h) => h \in LiveHandles
  /\ \A i \in AliveSlots : Handle(i) \in LiveHandles /\ Handle(i).index = i

(* What a call under way may rely on, in every state of the table.         *)
LEMMA TableViewHolds ==
  ASSUME IInv, SignatureExact
  PROVE  TableView
<1>1. ASSUME NEW h \in LiveHandles
      PROVE  /\ is_valid(h)
             /\ \A C \in Columns : try_get(C, h) =
                  IF h.index \in RowsIn(m_columns[C])
                  THEN {get(m_columns[C], h.index)} ELSE {}
  <2>1. PICK i \in AliveSlots : h = Handle(i)
    BY DEF LiveHandles
  <2>2. h.index = i /\ is_valid(h)
    <3>1. i \in Slots /\ At(m_rows, i).alive /\ Slots = 0 .. Len(m_rows) - 1
          /\ Len(m_rows) \in Nat
      BY SlotFacts DEF IInv, AliveSlots
    <3> QED
      BY <2>1, <3>1 DEF Handle, is_valid
  <2>3. ASSUME NEW C \in Columns
        PROVE  /\ C \in At(m_rows, i).signature <=> contains(m_columns[C], i)
               /\ contains(m_columns[C], i) <=> i \in RowsIn(m_columns[C])
    BY SignatureIs
  <2> QED
    BY <2>2, <2>3 DEF try_get, table_contains
<1>2. ASSUME NEW h \in Handles, is_valid(h)
      PROVE  h \in LiveHandles
  BY <1>2, ValidIsAlive DEF IInv, LiveHandles
<1> QED
  BY <1>1, <1>2, LiveFacts, LiveHandlesAreHandles DEF TableView, IInv

(* What a handle reads is a value.                                         *)
LEMMA ReadsValues ==
  ASSUME TableView, NEW h \in LiveHandles, NEW C \in Columns
  PROVE  /\ try_get(C, h) \subseteq Values
         /\ IsFiniteSet(try_get(C, h))
<1>1. CASE h.index \notin RowsIn(m_columns[C])
  BY <1>1, FS_EmptySet DEF TableView
<1>2. CASE h.index \in RowsIn(m_columns[C])
  <2> DEFINE c == m_columns[C]
             i == h.index
  <2>1. c \in Column /\ SparseSet(c) /\ i \in Index /\ contains(c, i)
    BY <1>2 DEF TableView, IInv, TypeOK, ColumnsConsistent, RowsIn
  <2> HIDE DEF c, i
  <2>2. At(c.sparse, i) \in 0 .. Len(c.data) - 1 /\ c.data \in Seq(Values)
    BY <2>1, ColumnFacts DEF Column
  <2>3. get(c, i) \in Values
    BY <2>2, VectorAt DEF get
  <2>4. try_get(C, h) = {get(c, i)}
    BY <1>2 DEF TableView, c, i
  <2> QED
    BY <2>3, <2>4, FS_Singleton
<1> QED
  BY <1>1, <1>2

(* Nothing that a handle reads changes when the table does not.            *)
LEMMA StillReads ==
  ASSUME UNCHANGED vars
  PROVE  /\ LiveHandles' = LiveHandles
         /\ \A h, C : try_get(C, h)' = try_get(C, h)
         /\ \A h : is_valid(h)' = is_valid(h)
         /\ m_columns' = m_columns /\ m_rows' = m_rows
         /\ \A i : Handle(i)' = Handle(i)
BY DEF vars, LiveHandles, Handle, AliveSlots, Slots, try_get, table_contains,
       is_valid

(* assign: one cell holds the value, and the others are as they were.      *)
LEMMA AssignReads ==
  ASSUME TableView, TableView', NEW id \in Handles, NEW D \in Columns,
         NEW v \in Values, assign(D, id, v)
  PROVE  /\ id \in LiveHandles
         /\ LiveHandles' = LiveHandles
         /\ \A h \in LiveHandles, C \in Columns :
              try_get(C, h)' = IF C = D /\ h = id THEN {v} ELSE try_get(C, h)
         /\ \A h \in Handles : is_valid(h)' = is_valid(h)
         /\ \A C \in Columns : C # D => m_columns'[C] = m_columns[C]
         /\ id.index \in RowsIn(m_columns[D]) =>
              m_columns'[D].dense = m_columns[D].dense
         /\ \A i \in AliveSlots : Handle(i)' = Handle(i)
<1> DEFINE i   == id.index
           sig == At(m_rows, i).signature \cup {D}
<1>1. /\ TypeOK /\ SlotsFit /\ ColumnsConsistent /\ IInv
      /\ AliveSlots \subseteq Slots
  BY SlotFacts DEF IInv, TableView
<1>2. PICK chain : FreeChain(chain)
  BY DEF IInv, TableView
<1>3. /\ i \in AliveSlots /\ i \in Index /\ id = Handle(i)
      /\ m_columns' = [m_columns EXCEPT ![D] = emplace(@, i, v)]
      /\ SignatureWith(i, sig) /\ m_free_links' = m_free_links
      /\ m_free_head' = m_free_head
  BY <1>1, ValidIsAlive DEF assign
<1>4. sig \in SUBSET Columns
  BY <1>1, <1>3, SlotFacts DEF RowMeta
<1> HIDE DEF i, sig
<1>5. /\ \A j \in Slots : At(m_rows', j).generation = At(m_rows, j).generation
      /\ AliveSlots' = AliveSlots
  BY <1>1, <1>2, <1>3, <1>4, SignatureStep
<1>6. LiveHandles' = LiveHandles /\ \A j \in AliveSlots : Handle(j)' = Handle(j)
  BY <1>1, <1>5, SameLive DEF Handle
<1>7. id \in LiveHandles /\ id.index = i
  BY <1>3 DEF LiveHandles, i
<1>8. /\ m_columns[D] \in Column /\ SparseSet(m_columns[D])
      /\ m_columns'[D] = emplace(m_columns[D], i, v)
      /\ \A C \in Columns : C # D => m_columns'[C] = m_columns[C]
  BY <1>1, <1>3 DEF TypeOK, ColumnsConsistent
<1>9. /\ RowsIn(m_columns'[D]) = RowsIn(m_columns[D]) \cup {i}
      /\ get(m_columns'[D], i) = v
      /\ \A q \in RowsIn(m_columns[D]) \ {i} :
           get(m_columns'[D], q) = get(m_columns[D], q)
  BY <1>3, <1>8, EmplaceCorrect
<1>10. \A h \in LiveHandles : h.index = i <=> h = id
  BY <1>3, <1>7 DEF TableView
<1>11. ASSUME NEW h \in LiveHandles, NEW C \in Columns
       PROVE  try_get(C, h)' = IF C = D /\ h = id THEN {v} ELSE try_get(C, h)
  <2>1. /\ try_get(C, h) = IF h.index \in RowsIn(m_columns[C])
                           THEN {get(m_columns[C], h.index)} ELSE {}
        /\ try_get(C, h)' = IF h.index \in RowsIn(m_columns'[C])
                            THEN {get(m_columns'[C], h.index)} ELSE {}
    BY <1>6 DEF TableView
  <2>2. CASE C # D
    BY <1>8, <2>1, <2>2
  <2>3. CASE C = D /\ h = id
    BY <1>7, <1>9, <2>1, <2>3
  <2>4. CASE C = D /\ h # id
    BY <1>9, <1>10, <2>1, <2>4
  <2> QED
    BY <2>2, <2>3, <2>4
<1>12. i \in RowsIn(m_columns[D]) => m_columns'[D].dense = m_columns[D].dense
  <2>1. ASSUME i \in RowsIn(m_columns[D])
        PROVE  RowsIn(emplace(m_columns[D], i, v)) = RowsIn(m_columns[D])
    BY <1>8, <1>9, <2>1
  <2> QED
    BY <1>3, <1>8, <2>1, ListUnchanged
<1>13. \A h \in Handles : is_valid(h)' = is_valid(h)
  BY <1>6 DEF TableView, is_valid
<1> QED
  BY <1>6, <1>7, <1>8, <1>11, <1>12, <1>13

-----------------------------------------------------------------------------
(* The inductive invariant, for each call one.                             *)

(* The handles handed out so far are the rows that are new.                *)
BatchAdds ==
  call.op = "insert_batch" =>
    /\ IsInjective(call.ids)
    /\ ToSet(call.ids) \cap call.before = {}
    /\ LiveHandles = call.before \cup ToSet(call.ids)

(* What holds between the steps of insert_batch.                           *)
Inserting ==
  /\ call.op = "insert_batch"
  /\ call = [op |-> "insert_batch", left |-> call.left, ids |-> call.ids,
             before |-> call.before]
  /\ call.ids \in Seq(Handles)
  /\ BatchAdds

(* Of assign_batch: the input keeps step with the handles, and every cell  *)
(* has the last value given for it so far.                                 *)
Assigning ==
  /\ call.op = "assign_batch"
  /\ call = [op |-> "assign_batch", C |-> call.C, ids |-> call.ids,
             values |-> call.values, k |-> call.k, it |-> call.k,
             before |-> call.before]
  /\ call.C \in Columns
  /\ call.ids \in Seq(Handles)
  /\ call.values \in Seq(Values) /\ Len(call.values) = Len(call.ids)
  /\ call.k \in 1 .. Len(call.ids) + 1
  /\ DOMAIN call.before = LiveHandles
  /\ \A id \in LiveHandles, C \in Columns :
       C # call.C \/ (\A j \in 1 .. call.k - 1 : call.ids[j] # id)
         => try_get(C, id) = call.before[id][C]
  /\ \A id \in LiveHandles : \A j \in 1 .. call.k - 1 :
       call.ids[j] = id /\ (\A l \in j + 1 .. call.k - 1 : call.ids[l] # id)
         => try_get(call.C, id) = {call.values[j]}

(* The row of turn j of a loop.                                            *)
RowAt(j) == IF call.op = "rows" THEN j - 1
            ELSE m_columns[call.driver].dense[j]

(* Of a loop: what was yielded lies behind the iterator, and what matched  *)
(* all along lies ahead of it or was yielded.                              *)
Looped ==
  /\ Looping
  /\ call = [op |-> call.op, required |-> call.required,
             driver |-> call.driver, pos |-> call.pos, end |-> call.end,
             yielded |-> call.yielded, matched |-> call.matched,
             body |-> call.body]
  /\ call.required \subseteq Columns
  /\ call.pos \in Nat /\ call.end \in Nat /\ call.pos <= call.end
  /\ call.yielded \in Seq(Handles) /\ IsInjective(call.yielded)
  /\ call.op = "select" => /\ call.driver \in call.required
                           /\ call.end = Len(m_columns[call.driver].dense)
  /\ call.op = "rows" => call.required = {} /\ call.end <= Len(m_rows)
  /\ \A h \in ToSet(call.yielded) : \E j \in 1 .. call.pos : h.index = RowAt(j)
  /\ \A h \in call.matched :
       /\ h \in LiveHandles /\ Matches(call.required, h)
       /\ \E j \in 1 .. call.end :
            h.index = RowAt(j) /\ (j <= call.pos => h \in ToSet(call.yielded))

(* Of assign_from: what the rows' inputs were when it was called, and what *)
(* they give; each row that has them has its result, or one waiting.       *)
Full(id) == \A D \in call.In : call.before[id][D] # {}

Derived(id) == Max(UNION {call.before[id][D] : D \in call.In})

Deriving ==
  /\ call.op = "assign_from"
  /\ call = [op |-> "assign_from", Out |-> call.Out, In |-> call.In,
             before |-> call.before, results |-> call.results]
  /\ call.Out \in Columns
  /\ DOMAIN call.before = LiveHandles
  /\ call.results \in Seq(Handles \X Values)
  /\ \A i \in 1 .. Len(call.results) :
       /\ call.results[i][1] \in LiveHandles
       /\ Full(call.results[i][1])
       /\ call.results[i][2] = Derived(call.results[i][1])
  /\ \A id \in LiveHandles, C \in Columns :
       C # call.Out \/ ~Full(id) => try_get(C, id) = call.before[id][C]
  /\ \A id \in LiveHandles :
       Full(id) => \/ try_get(call.Out, id) = {Derived(id)}
                   \/ \E i \in 1 .. Len(call.results) : call.results[i][1] = id

(* Of for_each_dirty: the rows behind the iterator are clean, the others   *)
(* as they were.                                                           *)
Cleaning ==
  /\ call.op = "for_each_dirty"
  /\ call = [op |-> "for_each_dirty", C |-> call.C, pos |-> call.pos,
             before |-> call.before]
  /\ call.C \in Columns
  /\ call.pos \in 0 .. Len(m_columns[call.C].dense)
  /\ DOMAIN call.before = LiveHandles
  /\ \A id \in LiveHandles, C \in Columns :
       C # call.C \/ try_get(C, id) = {} => try_get(C, id) = call.before[id][C]
  /\ \A j \in 1 .. Len(m_columns[call.C].dense) :
       LET id == Handle(m_columns[call.C].dense[j])
       IN  /\ id \in LiveHandles
           /\ call.before[id][call.C] # {}
           /\ try_get(call.C, id) = IF j <= call.pos THEN {0}
                                    ELSE call.before[id][call.C]

CallInv == Idle \/ Inserting \/ Assigning \/ Looped \/ Deriving \/ Cleaning

(* Whatever the call, its step is one that StableNext lets a program take, *)
(* or leaves the table alone.                                              *)
LEMMA CallIsStable ==
  ASSUME TableView, CallInv, [CallNext]_callVars
  PROVE  [StableNext]_vars
<1>1. TypeOK /\ LiveHandles \subseteq Handles
  BY DEF TableView, IInv
<1>2. CASE Single
  BY <1>2 DEF Single
<1>3. CASE BatchInsert \/ BatchOverflow
  BY <1>3 DEF BatchInsert, BatchOverflow, StableNext, CommonNext, insert
<1>4. CASE BatchAssign
  <2>1. Assigning
    BY <1>4 DEF BatchAssign, CallInv, Idle, None, Inserting, Looped, Looping,
                Deriving, Cleaning
  <2>2. call.k \in 1 .. Len(call.ids) /\ call.it = call.k
        /\ Len(call.ids) \in Nat
    <3>1. Len(call.ids) \in Nat /\ call.k \in 1 .. Len(call.ids) + 1
      BY <2>1, LenProperties DEF Assigning
    <3>2. call.it = call.k
      BY <2>1 DEF Assigning
    <3> QED
      BY <1>4, <3>1, <3>2 DEF BatchAssign
  <2>3. /\ call.C \in Columns /\ call.ids[call.k] \in Handles
        /\ call.values[call.it] \in Values
    BY <2>1, <2>2, ElementOfSeq DEF Assigning
  <2> QED
    BY <1>4, <2>3 DEF BatchAssign, StableNext, CommonNext
<1>5. CASE Body
  BY <1>1, <1>5 DEF Body, StableNext, CommonNext
<1>6. CASE AssignNext
  <2>1. Deriving
    BY <1>6 DEF AssignNext, CallInv, Idle, None, Inserting, Looped, Looping,
                Assigning, Cleaning
  <2>2. /\ call.Out \in Columns /\ call.results \in Seq(Handles \X Values)
        /\ call.results # <<>>
    BY <1>6, <2>1 DEF AssignNext, Deriving
  <2>3. Head(call.results) \in Handles \X Values
    BY <2>2, HeadTailProperties
  <2> QED
    BY <1>6, <2>2, <2>3 DEF AssignNext, StableNext, CommonNext
<1>7. CASE DirtyTurn
  <2>1. Cleaning
    BY <1>7 DEF DirtyTurn, CallInv, Idle, None, Inserting, Looped, Looping,
                Assigning, Deriving
  <2> DEFINE row == At(m_columns[call.C].dense, call.pos)
  <2>2. call.C \in Columns
    BY <2>1 DEF Cleaning
  <2>3. UNCHANGED vars \/ assign(call.C, Handle(row), 0)
    BY <1>7 DEF DirtyTurn
  <2>4. ASSUME assign(call.C, Handle(row), 0)
        PROVE  Handle(row) \in Handles
    <3>1. row \in Nat
      <4>1. m_columns[call.C].dense \in Seq(Index)
        BY <2>2, DenseLists DEF TableView
      <4>2. call.pos \in 0 .. Len(m_columns[call.C].dense) - 1
        <5>1. call.pos \in 0 .. Len(m_columns[call.C].dense)
          BY <2>1 DEF Cleaning
        <5>2. Len(m_columns[call.C].dense) \in Nat
          BY <4>1, LenProperties
        <5>3. call.pos < Len(m_columns[call.C].dense)
          BY <1>7 DEF DirtyTurn
        <5> QED
          BY <5>1, <5>2, <5>3
      <4>3. row \in Index
        BY <4>1, <4>2, VectorAt
      <4> QED
        BY <4>3 DEF Index
    <3>2. row \in AliveSlots
      <4>1. row < Len(m_rows) /\ At(m_rows, row).alive
        BY <2>4 DEF assign, is_valid, Handle
      <4>2. Len(m_rows) \in Nat
        BY <1>1, LenProperties DEF TypeOK
      <4> HIDE DEF row
      <4> QED
        BY <3>1, <4>1, <4>2 DEF AliveSlots, Slots
    <3> QED
      BY <1>1, <3>2 DEF LiveHandles
  <2> HIDE DEF row
  <2> QED
    BY <2>2, <2>3, <2>4, MaskAssumption DEF StableNext, CommonNext
<1>8. CASE \/ InsertBatch \/ BatchInserted \/ AssignBatch \/ BatchSkip
           \/ BatchAssigned \/ Select \/ ForEachRow \/ Turn \/ LoopEnds
           \/ AssignFrom \/ AssignFromEnds \/ ForEachDirty \/ DirtyEnds
           \/ UNCHANGED callVars
  <2>1. UNCHANGED vars
    BY <1>8 DEF InsertBatch, BatchInserted, AssignBatch, BatchSkip,
       BatchAssigned, Select, ForEachRow, Turn, LoopEnds, AssignFrom,
       AssignFromEnds, ForEachDirty, DirtyEnds, Ends, callVars, vars
  <2> QED
    BY <2>1
<1> QED
  BY <1>2, <1>3, <1>4, <1>5, <1>6, <1>7, <1>8 DEF CallNext

-----------------------------------------------------------------------------
(* insert_batch.                                                           *)

(* insert: one handle more.                                                *)
LEMMA InsertReads ==
  ASSUME TableView, TableView', InsertRecycled \/ InsertGrown
  PROVE  LET i   == IF m_free_head # npos THEN m_free_head ELSE Len(m_rows)
             new == [index |-> i, generation |-> At(m_rows', i).generation]
         IN  /\ LiveHandles' = LiveHandles \cup {new}
             /\ new \notin LiveHandles
             /\ new \in Handles
<1> DEFINE h   == IF m_free_head # npos THEN m_free_head ELSE Len(m_rows)
           new == [index |-> h, generation |-> At(m_rows', h).generation]
<1>1. /\ TypeOK /\ SlotsFit /\ AliveSlots \subseteq Slots
  BY SlotFacts DEF IInv, TableView
<1>2. PICK chain : FreeChain(chain)
  BY DEF IInv, TableView
<1>3. /\ h \notin AliveSlots
      /\ AliveSlots' = AliveSlots \cup {h}
      /\ \A j \in AliveSlots : At(m_rows', j) = At(m_rows, j)
  <2>1. CASE InsertRecycled
    <3>1. h = m_free_head
      BY <2>1 DEF InsertRecycled
    <3>2. /\ m_free_head \notin AliveSlots
          /\ \A j \in Slots : j # m_free_head => At(m_rows', j) = At(m_rows, j)
          /\ AliveSlots' = AliveSlots \cup {m_free_head}
      BY <1>1, <1>2, <2>1, PopChain
    <3> QED
      BY <1>1, <3>1, <3>2
  <2>2. CASE InsertGrown
    <3>1. h = Len(m_rows)
      BY <2>2 DEF InsertGrown
    <3>2. /\ Len(m_rows) \notin Slots
          /\ \A j \in Slots : At(m_rows', j) = At(m_rows, j)
          /\ AliveSlots' = AliveSlots \cup {Len(m_rows)}
      BY <1>1, <1>2, <2>2, GrowChain
    <3> QED
      BY <1>1, <3>1, <3>2
  <2> QED
    BY <2>1, <2>2
<1> HIDE DEF h
<1>4. LiveHandles' = LiveHandles \cup {new}
  BY <1>3 DEF LiveHandles, Handle
<1>5. new.index = h
  OBVIOUS
<1>6. new \notin LiveHandles
  BY <1>3, <1>5 DEF TableView
<1>7. new \in Handles
  BY <1>4 DEF TableView
<1> QED
  BY <1>4, <1>6, <1>7 DEF h

(* Which call is under way, from its op.                                   *)
LEMMA CallIs ==
  ASSUME CallInv
  PROVE  /\ call.op = "insert_batch" => Inserting
         /\ call.op = "assign_batch" => Assigning
         /\ call.op \in {"select", "rows"} => Looped
         /\ call.op = "assign_from" => Deriving
         /\ call.op = "for_each_dirty" => Cleaning
         /\ call.op = "none" => Idle
<1>1. Idle => call.op = "none"
  BY DEF Idle, None
<1>2. /\ Inserting => call.op = "insert_batch"
      /\ Assigning => call.op = "assign_batch"
      /\ Looped => call.op \in {"select", "rows"}
      /\ Deriving => call.op = "assign_from"
      /\ Cleaning => call.op = "for_each_dirty"
  BY DEF Inserting, Assigning, Looped, Looping, Deriving, Cleaning
<1> QED
  BY <1>1, <1>2 DEF CallInv

(* Each handle handed out so far is new, and names a row.                  *)
LEMMA InsertBatchKeeps ==
  ASSUME TableView, TableView', CallInv,
         InsertBatch \/ BatchInsert
  PROVE  Inserting'
<1>1. CASE InsertBatch
  <2>1. PICK count \in 0 .. MaxBatch :
          call' = [op |-> "insert_batch", left |-> count, ids |-> <<>>,
                   before |-> LiveHandles]
    BY <1>1 DEF InsertBatch
  <2>2. /\ call'.op = "insert_batch" /\ call'.ids = <<>>
        /\ call'.before = LiveHandles /\ call'.left = count
    BY <2>1
  <2>3. LiveHandles' = LiveHandles
    BY <1>1, StillReads DEF InsertBatch
  <2>4. <<>> \in Seq(Handles) /\ IsInjective(<<>>) /\ ToSet(<<>>) = {}
    BY EmptySeq DEF IsInjective, ToSet
  <2>5. BatchAdds'
    BY <2>2, <2>3, <2>4 DEF BatchAdds
  <2> QED
    BY <2>1, <2>2, <2>4, <2>5 DEF Inserting
<1>2. CASE BatchInsert
  <2> DEFINE i   == IF m_free_head # npos THEN m_free_head ELSE Len(m_rows)
             new == [index |-> i, generation |-> At(m_rows', i).generation]
             ids == call.ids
  <2>1. Inserting /\ call.op = "insert_batch"
    BY <1>2, CallIs DEF BatchInsert
  <2>2. /\ ids \in Seq(Handles) /\ IsInjective(ids)
        /\ ToSet(ids) \cap call.before = {}
        /\ LiveHandles = call.before \cup ToSet(ids)
    BY <2>1 DEF Inserting, BatchAdds
  <2>3. /\ LiveHandles' = LiveHandles \cup {new}
        /\ new \notin LiveHandles /\ new \in Handles
    BY <1>2, InsertReads DEF BatchInsert
  <2>4. call' = [call EXCEPT !.left = call.left - 1, !.ids = Append(ids, new)]
    BY <1>2 DEF BatchInsert
  <2> HIDE DEF i, new, ids
  <2>5. call' = [op |-> "insert_batch", left |-> call.left - 1,
                 ids |-> Append(ids, new), before |-> call.before]
    <3>1. PICK l, b : call = [op |-> "insert_batch", left |-> l, ids |-> ids,
                              before |-> b]
      BY <2>1 DEF Inserting, ids
    <3> DEFINE less == call.left - 1
               more == Append(ids, new)
    <3>2. call' = [call EXCEPT !.left = less, !.ids = more]
      BY <2>4
    <3> HIDE DEF less, more
    <3>3. call' = [op |-> "insert_batch", left |-> less, ids |-> more,
                   before |-> b]
      BY <3>1, <3>2
    <3>4. call.before = b
      BY <3>1
    <3> QED
      BY <3>3, <3>4 DEF less, more
  <2>6. /\ call'.op = "insert_batch" /\ call'.ids = Append(ids, new)
        /\ call'.before = call.before /\ call'.left = call.left - 1
    BY <2>5
  <2>7. /\ Append(ids, new) \in Seq(Handles)
        /\ Len(Append(ids, new)) = Len(ids) + 1
        /\ \A j \in 1 .. Len(ids) : Append(ids, new)[j] = ids[j]
        /\ Append(ids, new)[Len(ids) + 1] = new
        /\ Len(ids) \in Nat /\ DOMAIN ids = 1 .. Len(ids)
        /\ DOMAIN Append(ids, new) = 1 .. Len(ids) + 1
    BY <2>2, <2>3, AppendProperties, LenProperties
  <2>8. ToSet(Append(ids, new)) = ToSet(ids) \cup {new}
    BY <2>7 DEF ToSet
  <2>9. IsInjective(Append(ids, new))
    <3>1. \A j \in 1 .. Len(ids) : ids[j] # new
      BY <2>2, <2>3, <2>7 DEF ToSet
    <3>2. \A j, k \in 1 .. Len(ids) : ids[j] = ids[k] => j = k
      BY <2>2, <2>7 DEF IsInjective
    <3>3. \A j \in 1 .. Len(ids) + 1 : j \in 1 .. Len(ids) \/ j = Len(ids) + 1
      BY <2>7
    <3> QED
      BY <2>7, <3>1, <3>2, <3>3 DEF IsInjective
  <2>10. BatchAdds'
    BY <2>2, <2>3, <2>6, <2>8, <2>9 DEF BatchAdds
  <2> QED
    BY <2>5, <2>6, <2>7, <2>10 DEF Inserting
<1> QED
  BY <1>1, <1>2

-----------------------------------------------------------------------------
(* assign_batch.                                                           *)

(* The cells as a table of what every handle reads.                        *)
LEMMA CellsRead ==
  /\ DOMAIN Cells = LiveHandles
  /\ \A id \in LiveHandles, C \in Columns : Cells[id][C] = try_get(C, id)
BY DEF Cells

(* assign_batch takes its arguments.                                       *)
LEMMA AssignBatchStarts ==
  ASSUME TableView, AssignBatch
  PROVE  Assigning'
<1>1. PICK C \in Columns, n \in 1 .. MaxBatch :
        \E ids \in [1 .. n -> LiveHandles \cup stale], vals \in [1 .. n -> Values] :
          call' = [op |-> "assign_batch", C |-> C, ids |-> ids, values |-> vals,
                   k |-> 1, it |-> 1, before |-> Cells]
  BY DEF AssignBatch
<1>2. PICK ids \in [1 .. n -> LiveHandles \cup stale], vals \in [1 .. n -> Values] :
        call' = [op |-> "assign_batch", C |-> C, ids |-> ids, values |-> vals,
                 k |-> 1, it |-> 1, before |-> Cells]
  BY <1>1
<1>3. /\ call'.op = "assign_batch" /\ call'.C = C /\ call'.ids = ids
      /\ call'.values = vals /\ call'.k = 1 /\ call'.it = 1
      /\ call'.before = Cells
  BY <1>2
<1>4. ids \in Seq(Handles) /\ Len(ids) = n /\ vals \in Seq(Values) /\ Len(vals) = n
  <2>1. n \in Nat /\ ids \in [1 .. n -> Handles]
    <3>1. LiveHandles \cup stale \subseteq Handles
      BY DEF TableView, IInv, TypeOK
    <3>2. n \in Nat
      BY CallAssumption
    <3> QED
      BY <3>1, <3>2
  <2> QED
    BY <2>1, FunctionIsVector
<1>5. /\ LiveHandles' = LiveHandles
      /\ \A h, D : try_get(D, h)' = try_get(D, h)
  BY StillReads DEF AssignBatch
<1>6. 1 \in 1 .. n + 1 /\ \A j : j \notin 1 .. 1 - 1
  <2>1. n \in Nat
    BY <1>4, LenProperties
  <2> QED
    BY <2>1
<1>7. \A id \in LiveHandles', D \in Columns :
         try_get(D, id)' = call'.before[id][D]
  BY <1>3, <1>5, CellsRead
<1>8. DOMAIN call'.before = LiveHandles'
  BY <1>3, <1>5, CellsRead
<1>9. call' = [op |-> "assign_batch", C |-> call'.C, ids |-> call'.ids,
               values |-> call'.values, k |-> call'.k, it |-> call'.k,
               before |-> call'.before]
  BY <1>2, <1>3
<1> QED
  BY <1>3, <1>4, <1>6, <1>7, <1>8, <1>9 DEF Assigning

(* The record of an assign_batch, one handle further.                      *)
LEMMA BatchRecord ==
  ASSUME NEW c, NEW d, NEW x, NEW y,
         c = [op |-> "assign_batch", C |-> c.C, ids |-> c.ids,
              values |-> c.values, k |-> c.k, it |-> c.it,
              before |-> c.before],
         d = [c EXCEPT !.k = x, !.it = y]
  PROVE  /\ d = [op |-> "assign_batch", C |-> c.C, ids |-> c.ids,
                 values |-> c.values, k |-> x, it |-> y, before |-> c.before]
         /\ d.op = "assign_batch" /\ d.C = c.C /\ d.ids = c.ids
         /\ d.values = c.values /\ d.k = x /\ d.it = y /\ d.before = c.before
<1>1. PICK C, s, v, k, i, b :
        /\ c = [op |-> "assign_batch", C |-> C, ids |-> s, values |-> v,
                k |-> k, it |-> i, before |-> b]
        /\ C = c.C /\ s = c.ids /\ v = c.values /\ b = c.before
  OBVIOUS
<1>2. c = [op |-> "assign_batch", C |-> C, ids |-> s, values |-> v,
           k |-> k, it |-> i, before |-> b]
  BY <1>1
<1>3. d = [op |-> "assign_batch", C |-> C, ids |-> s, values |-> v,
           k |-> x, it |-> y, before |-> b]
  BY ONLY <1>2, d = [c EXCEPT !.k = x, !.it = y]
<1> QED
  BY ONLY <1>1, <1>3

(* One handle further: the facts of the call that the two steps share.     *)
LEMMA AssigningFacts ==
  ASSUME Assigning, call.k <= Len(call.ids)
  PROVE  /\ call.k \in 1 .. Len(call.ids) /\ call.it = call.k
         /\ call.C \in Columns /\ call.ids[call.k] \in Handles
         /\ call.values[call.k] \in Values
         /\ call.k \in Nat /\ Len(call.ids) \in Nat
         /\ \A d : d = [call EXCEPT !.k = call.k + 1, !.it = call.it + 1] =>
              /\ d.op = "assign_batch" /\ d.C = call.C /\ d.ids = call.ids
              /\ d.values = call.values /\ d.k = call.k + 1
              /\ d.before = call.before
              /\ d = [op |-> "assign_batch", C |-> d.C, ids |-> d.ids,
                      values |-> d.values, k |-> d.k, it |-> d.k,
                      before |-> d.before]
<1>1. Len(call.ids) \in Nat /\ call.k \in 1 .. Len(call.ids) + 1
  BY LenProperties DEF Assigning
<1>2. call.k \in 1 .. Len(call.ids) /\ call.k \in Nat
  BY <1>1
<1>3. call = [op |-> "assign_batch", C |-> call.C, ids |-> call.ids,
              values |-> call.values, k |-> call.k, it |-> call.k,
              before |-> call.before]
  BY DEF Assigning
<1>4. call.it = call.k
  BY ONLY <1>3
<1>5. /\ call.C \in Columns /\ call.ids[call.k] \in Handles
      /\ call.values[call.k] \in Values
  BY <1>2, ElementOfSeq DEF Assigning
<1>6. ASSUME NEW d, d = [call EXCEPT !.k = call.k + 1, !.it = call.it + 1]
      PROVE  /\ d.op = "assign_batch" /\ d.C = call.C /\ d.ids = call.ids
             /\ d.values = call.values /\ d.k = call.k + 1
             /\ d.before = call.before
             /\ d = [op |-> "assign_batch", C |-> d.C, ids |-> d.ids,
                     values |-> d.values, k |-> d.k, it |-> d.k,
                     before |-> d.before]
  <2> DEFINE x == call.k + 1
             y == call.it + 1
  <2>1. call = [op |-> "assign_batch", C |-> call.C, ids |-> call.ids,
                values |-> call.values, k |-> call.k, it |-> call.it,
                before |-> call.before]
    BY <1>3, <1>4
  <2>2. d = [call EXCEPT !.k = x, !.it = y] /\ y = x
    BY <1>4, <1>6
  <2> HIDE DEF x, y
  <2>3. /\ d = [op |-> "assign_batch", C |-> call.C, ids |-> call.ids,
                values |-> call.values, k |-> x, it |-> y, before |-> call.before]
        /\ d.op = "assign_batch" /\ d.C = call.C /\ d.ids = call.ids
        /\ d.values = call.values /\ d.k = x /\ d.it = y
        /\ d.before = call.before
    BY <2>1, <2>2, BatchRecord
  <2> QED
    BY ONLY <2>2, <2>3 DEF x
<1> QED
  BY <1>1, <1>2, <1>4, <1>5, <1>6

(* A handle is skipped or its value assigned.                              *)
LEMMA AssignBatchKeeps ==
  ASSUME TableView, TableView', Assigning, BatchSkip \/ BatchAssign
  PROVE  Assigning'
<1> DEFINE k   == call.k
           ids == call.ids
           h   == ids[k]
           D   == call.C
           v   == call.values[k]
<1>1. call.k <= Len(call.ids)
  BY DEF BatchSkip, BatchAssign
<1>2. /\ k \in 1 .. Len(ids) /\ k \in Nat /\ Len(ids) \in Nat
      /\ D \in Columns /\ h \in Handles /\ v \in Values /\ call.it = k
  BY <1>1, AssigningFacts
<1>3. call' = [call EXCEPT !.k = call.k + 1, !.it = call.it + 1]
  BY DEF BatchSkip, BatchAssign
<1>4. /\ call'.op = "assign_batch" /\ call'.C = D /\ call'.ids = ids
      /\ call'.values = call.values /\ call'.k = k + 1
      /\ call'.before = call.before
      /\ call' = [op |-> "assign_batch", C |-> call'.C, ids |-> call'.ids,
                  values |-> call'.values, k |-> call'.k, it |-> call'.k,
                  before |-> call'.before]
  BY <1>1, <1>3, AssigningFacts
<1>5. /\ ids \in Seq(Handles) /\ call.values \in Seq(Values)
      /\ Len(call.values) = Len(ids) /\ DOMAIN call.before = LiveHandles
      /\ \A id \in LiveHandles, C \in Columns :
           C # D \/ (\A j \in 1 .. k - 1 : ids[j] # id)
             => try_get(C, id) = call.before[id][C]
      /\ \A id \in LiveHandles : \A j \in 1 .. k - 1 :
           ids[j] = id /\ (\A l \in j + 1 .. k - 1 : ids[l] # id)
             => try_get(D, id) = {call.values[j]}
  BY DEF Assigning
\* the cell of the handle, if it has one, is assigned; the others stay
<1>6. /\ LiveHandles' = LiveHandles
      /\ \A id \in LiveHandles, C \in Columns :
           try_get(C, id)' = IF C = D /\ id = h THEN {v} ELSE try_get(C, id)
  <2>1. CASE BatchSkip
    <3>1. h \notin LiveHandles
      BY <2>1 DEF BatchSkip, TableView
    <3> QED
      BY <2>1, <3>1, StillReads DEF BatchSkip
  <2>2. CASE BatchAssign
    <3>1. assign(D, h, v)
      BY <1>2, <2>2 DEF BatchAssign
    <3> QED
      BY <1>2, <3>1, AssignReads
  <2> QED
    BY <2>1, <2>2
<1> HIDE DEF k, ids, h, v, D
<1>7. k + 1 \in 1 .. Len(ids) + 1 /\ k + 1 - 1 = k
  BY <1>2
<1>8. \A j \in 1 .. k - 1 : j \in 1 .. k /\ j # k
  BY <1>2
<1>9. \A j \in 1 .. k : j \in 1 .. k - 1 \/ j = k
  BY <1>2
<1>10. ASSUME NEW id \in LiveHandles, NEW C \in Columns,
              C # D \/ (\A j \in 1 .. k : ids[j] # id)
       PROVE  try_get(C, id)' = call.before[id][C]
  <2>1. C # D \/ (id # h /\ \A j \in 1 .. k - 1 : ids[j] # id)
    BY <1>2, <1>8, <1>10 DEF h
  <2> QED
    BY <1>5, <1>6, <2>1
<1>11. ASSUME NEW id \in LiveHandles, NEW j \in 1 .. k, NEW C \in Columns,
              ids[j] = id, \A l \in j + 1 .. k : ids[l] # id, C = D
       PROVE  try_get(C, id)' = {call.values[j]}
  <2>1. CASE j = k
    BY <1>2, <1>6, <1>11, <2>1 DEF h, v
  <2>2. CASE j # k
    <3>1. j \in 1 .. k - 1 /\ k \in j + 1 .. k
      BY <1>2, <2>2
    <3>2. id # h
      BY <1>11, <3>1 DEF h
    <3>3. \A l \in j + 1 .. k - 1 : ids[l] # id
      BY <1>2, <1>11
    <3>4. try_get(D, id) = {call.values[j]}
      BY <1>5, <1>11, <3>1, <3>3
    <3> QED
      BY <1>2, <1>6, <1>11, <3>2, <3>4
  <2> QED
    BY <2>1, <2>2
<1>12. \A id \in LiveHandles', C \in Columns :
         C # call'.C \/ (\A j \in 1 .. call'.k - 1 : call'.ids[j] # id)
           => try_get(C, id)' = call'.before[id][C]
  <2>1. call'.k = k + 1
    BY <1>4
  <2>2. call'.k - 1 = k
    BY ONLY <1>2, <2>1
  <2> QED
    BY <1>4, <1>6, <1>10, <2>2
<1>13. \A id \in LiveHandles' : \A j \in 1 .. call'.k - 1 :
         call'.ids[j] = id /\ (\A l \in j + 1 .. call'.k - 1 : call'.ids[l] # id)
           => try_get(call.C, id)' = {call'.values[j]}
  BY <1>2, <1>4, <1>6, <1>7, <1>11
<1> QED
  BY <1>2, <1>4, <1>5, <1>6, <1>7, <1>12, <1>13 DEF Assigning

(* At its end, every cell has the last value given for it.                 *)
LEMMA AssignBatchIsExact ==
  ASSUME TableView, CallInv
  PROVE  AssignBatchExact
<1> SUFFICES ASSUME call.op = "assign_batch", call.k > Len(call.ids)
             PROVE  Cells = [id \in DOMAIN call.before |-> [C \in Columns |->
                      IF C = call.C /\ id \in ToSet(call.ids)
                      THEN {call.values[Max({k \in DOMAIN call.ids :
                                               call.ids[k] = id})]}
                      ELSE call.before[id][C]]]
  BY DEF AssignBatchExact
<1> DEFINE ids == call.ids
           At1(id) == {k \in DOMAIN ids : ids[k] = id}
<1>1. Assigning
  BY CallIs
<1>2. /\ ids \in Seq(Handles) /\ Len(ids) \in Nat /\ DOMAIN ids = 1 .. Len(ids)
      /\ call.k = Len(ids) + 1 /\ call.k - 1 = Len(ids)
      /\ DOMAIN call.before = LiveHandles /\ call.C \in Columns
  <2>1. ids \in Seq(Handles) /\ call.k \in 1 .. Len(ids) + 1
    BY <1>1 DEF Assigning
  <2>2. Len(ids) \in Nat /\ DOMAIN ids = 1 .. Len(ids)
    BY <2>1, LenProperties
  <2>3. call.k = Len(ids) + 1 /\ call.k - 1 = Len(ids)
    BY <2>1, <2>2
  <2> QED
    BY <1>1, <2>1, <2>2, <2>3 DEF Assigning
<1>3. ASSUME NEW id \in LiveHandles, NEW C \in Columns
      PROVE  try_get(C, id) = IF C = call.C /\ id \in ToSet(ids)
                              THEN {call.values[Max(At1(id))]}
                              ELSE call.before[id][C]
  <2>1. CASE C = call.C /\ id \in ToSet(ids)
    <3>1. At1(id) # {} /\ At1(id) \in SUBSET (1 .. Len(ids)) /\ At1(id) \subseteq Int
      BY <1>2, <2>1 DEF ToSet
    <3>2. IsFiniteSet(At1(id))
      <4>1. IsFiniteSet(1 .. Len(ids))
        BY <1>2, 1 \in Int, Len(ids) \in Int, FS_Interval
      <4> QED
        BY <3>1, <4>1, FS_Subset
    <3> DEFINE m == Max(At1(id))
    <3>3. m \in At1(id) /\ \A l \in At1(id) : m >= l
      BY <3>1, <3>2, MaxIsGreatest
    <3> HIDE DEF m
    <3>4. m \in 1 .. call.k - 1 /\ ids[m] = id /\ m \in Int
      BY <1>2, <3>3
    <3>5. \A l \in m + 1 .. call.k - 1 : ids[l] # id
      <4>1. ASSUME NEW l \in m + 1 .. call.k - 1, ids[l] = id
            PROVE  FALSE
        <5>1. l \in 1 .. Len(ids) /\ l > m /\ l \in Int
          BY <1>2, <3>4
        <5>2. l \in At1(id)
          BY <1>2, <4>1, <5>1
        <5>3. m >= l
          BY <3>3, <5>2
        <5> QED
          BY <3>4, <5>1, <5>3
      <4> QED
        BY <4>1
    <3>6. try_get(call.C, id) = {call.values[m]}
      BY <1>1, <3>4, <3>5 DEF Assigning
    <3> QED
      BY <2>1, <3>6 DEF m
  <2>2. CASE ~(C = call.C /\ id \in ToSet(ids))
    <3>1. C # call.C \/ (\A j \in 1 .. call.k - 1 : ids[j] # id)
      BY <1>2, <2>2 DEF ToSet
    <3> QED
      BY <1>1, <2>2, <3>1 DEF Assigning
  <2> QED
    BY <2>1, <2>2
<1> QED
  BY <1>2, <1>3 DEF Cells

-----------------------------------------------------------------------------
(* Loops.                                                                  *)

(* The filter lets through the rows whose handles read every required      *)
(* column.                                                                 *)
LEMMA PassesIsMatch ==
  ASSUME TableView, NEW Required, Required \subseteq Columns
  PROVE  /\ \A h \in LiveHandles :
              Passes(Required, h.index) <=> Matches(Required, h)
         /\ \A r \in Nat : Passes(Required, r) => r \in AliveSlots
<1>1. Len(m_rows) \in Nat /\ AliveSlots \subseteq Slots
  BY SlotFacts DEF TableView, IInv
<1>2. ASSUME NEW h \in LiveHandles
      PROVE  Passes(Required, h.index) <=> Matches(Required, h)
  <2>1. h.index \in AliveSlots /\ is_valid(h)
    BY DEF TableView
  <2>2. h.index < Len(m_rows) /\ At(m_rows, h.index).alive
    BY <2>1 DEF is_valid
  <2>3. ASSUME NEW C \in Required
        PROVE  C \in At(m_rows, h.index).signature <=> try_get(C, h) # {}
    <3>1. C \in Columns
      OBVIOUS
    <3>2. /\ C \in At(m_rows, h.index).signature <=> contains(m_columns[C], h.index)
          /\ contains(m_columns[C], h.index) <=> h.index \in RowsIn(m_columns[C])
      BY <2>1, <3>1, SignatureIs DEF TableView
    <3>3. try_get(C, h) # {} <=> h.index \in RowsIn(m_columns[C])
      BY <3>1 DEF TableView
    <3> QED
      BY <3>2, <3>3
  <2> QED
    BY <2>1, <2>2, <2>3 DEF Passes, Matches
<1>3. \A r \in Nat : Passes(Required, r) => r \in AliveSlots
  BY <1>1 DEF Passes, AliveSlots, Slots
<1> QED
  BY <1>2, <1>3

(* A loop starts before the first of the rows that match.                  *)
LEMMA LoopStarts ==
  ASSUME TableView, TableView', Select \/ ForEachRow
  PROVE  Looped'
<1>1. PICK op, Required, driver, end : call' = Loop(op, Required, driver, end)
  BY DEF Select, ForEachRow
<1>2. /\ call'.op = op /\ call'.required = Required /\ call'.driver = driver
      /\ call'.pos = 0 /\ call'.end = end /\ call'.yielded = <<>>
      /\ call'.matched = Matching(Required) /\ call'.body = 0
  BY <1>1 DEF Loop
<1>3. call' = [op |-> call'.op, required |-> call'.required,
               driver |-> call'.driver, pos |-> call'.pos, end |-> call'.end,
               yielded |-> call'.yielded, matched |-> call'.matched,
               body |-> call'.body]
  BY <1>1, <1>2 DEF Loop
<1>4. UNCHANGED vars
  BY DEF Select, ForEachRow
<1>5. /\ LiveHandles' = LiveHandles
      /\ \A h, C : try_get(C, h)' = try_get(C, h)
      /\ \A h : is_valid(h)' = is_valid(h)
      /\ m_columns' = m_columns /\ m_rows' = m_rows
  BY <1>4, StillReads
<1>6. <<>> \in Seq(Handles) /\ IsInjective(<<>>) /\ ToSet(<<>>) = {}
  BY EmptySeq DEF IsInjective, ToSet
<1>7. /\ Required \subseteq Columns
      /\ end \in Nat
      /\ op \in {"select", "rows"}
      /\ op = "select" => driver \in Required /\ end = Len(m_columns[driver].dense)
      /\ op = "rows" => Required = {} /\ end = Len(m_rows)
  <2>1. CASE Select
    <3>1. PICK R \in (SUBSET Columns) \ {{}}, D \in Columns :
            /\ D \in R
            /\ call' = Loop("select", R, D, Len(m_columns[D].dense))
      BY <2>1 DEF Select, Drivers
    <3>2. /\ op = "select" /\ Required = R /\ driver = D
          /\ end = Len(m_columns[D].dense)
      BY <1>2, <3>1 DEF Loop
    <3>3. m_columns[D].dense \in Seq(Index)
      BY DenseLists DEF TableView
    <3> QED
      BY <3>1, <3>2, <3>3, LenProperties
  <2>2. CASE ForEachRow
    <3>1. call' = Loop("rows", {}, "none", Len(m_rows))
      BY <2>2 DEF ForEachRow, RowsEnd
    <3>2. op = "rows" /\ Required = {} /\ end = Len(m_rows)
      BY <1>2, <3>1 DEF Loop
    <3>3. Len(m_rows) \in Nat
      BY SlotFacts DEF TableView, IInv
    <3> QED
      BY <3>2, <3>3
  <2> QED
    BY <2>1, <2>2
<1>8. ASSUME NEW h \in Matching(Required)
      PROVE  \E j \in 1 .. end :
               h.index = IF op = "rows" THEN j - 1 ELSE m_columns[driver].dense[j]
  <2>1. h \in LiveHandles /\ Matches(Required, h)
    BY DEF Matching
  <2>2. CASE op = "rows"
    <3>1. h.index \in 0 .. Len(m_rows) - 1 /\ Len(m_rows) \in Nat
      BY <2>1, SlotFacts DEF TableView, IInv
    <3>2. h.index + 1 \in 1 .. end /\ h.index = h.index + 1 - 1
      BY <1>7, <2>2, <3>1
    <3> QED
      BY <2>2, <3>1, <3>2
  <2>3. CASE op = "select"
    <3>1. driver \in Columns /\ try_get(driver, h) # {}
      BY <1>7, <2>1, <2>3 DEF Matches
    <3>2. h.index \in RowsIn(m_columns[driver])
      BY <2>1, <3>1 DEF TableView
    <3>3. h.index \in ToSet(m_columns[driver].dense)
          /\ m_columns[driver].dense \in Seq(Index)
      BY <3>1, <3>2, DenseLists DEF TableView
    <3>4. DOMAIN m_columns[driver].dense = 1 .. end
      BY <1>7, <2>3, <3>3, LenProperties
    <3> QED
      BY <2>3, <3>3, <3>4 DEF ToSet
  <2> QED
    BY <1>7, <2>2, <2>3
<1>9. \A j : j \notin 1 .. 0
  OBVIOUS
<1>10. ASSUME NEW h \in call'.matched
       PROVE  /\ h \in LiveHandles' /\ Matches(call.required, h)'
              /\ \E j \in 1 .. call'.end :
                   /\ h.index = RowAt(j)'
                   /\ j <= call'.pos => h \in ToSet(call'.yielded)
  <2>1. h \in LiveHandles /\ Matches(Required, h) /\ h \in Matching(Required)
    BY <1>2, <1>10 DEF Matching
  <2>2. PICK j \in 1 .. end :
          h.index = IF op = "rows" THEN j - 1 ELSE m_columns[driver].dense[j]
    BY <1>8, <2>1
  <2>3. h.index = RowAt(j)'
    BY <1>2, <1>5, <2>2 DEF RowAt
  <2>4. ~(j <= 0)
    OBVIOUS
  <2> QED
    BY <1>2, <1>5, <2>1, <2>3, <2>4 DEF Matches
<1>11. Looping'
  BY <1>2, <1>7 DEF Looping
<1>12. /\ call'.required \subseteq Columns /\ call'.pos \in Nat
       /\ call'.end \in Nat /\ call'.pos <= call'.end
       /\ call'.yielded \in Seq(Handles) /\ IsInjective(call'.yielded)
       /\ ToSet(call'.yielded) = {}
  BY <1>2, <1>6, <1>7
<1>13. /\ call'.op = "select" =>
            /\ call'.driver \in call'.required
            /\ call'.end = Len(m_columns'[call'.driver].dense)
       /\ call'.op = "rows" => call'.required = {} /\ call'.end <= Len(m_rows')
  BY <1>2, <1>5, <1>7
<1> QED
  BY <1>3, <1>10, <1>11, <1>12, <1>13 DEF Looped

(* The record of a loop after a turn, and after a change by its body.      *)
LEMMA LoopRecord ==
  ASSUME NEW c, NEW d, NEW x, NEW y,
         c = [op |-> c.op, required |-> c.required, driver |-> c.driver,
              pos |-> c.pos, end |-> c.end, yielded |-> c.yielded,
              matched |-> c.matched, body |-> c.body]
  PROVE  /\ d = [c EXCEPT !.pos = x, !.yielded = y] =>
              /\ d = [op |-> d.op, required |-> d.required, driver |-> d.driver,
                      pos |-> d.pos, end |-> d.end, yielded |-> d.yielded,
                      matched |-> d.matched, body |-> d.body]
              /\ d.op = c.op /\ d.required = c.required /\ d.driver = c.driver
              /\ d.pos = x /\ d.end = c.end /\ d.yielded = y
              /\ d.matched = c.matched
         /\ d = [c EXCEPT !.body = x, !.matched = y] =>
              /\ d = [op |-> d.op, required |-> d.required, driver |-> d.driver,
                      pos |-> d.pos, end |-> d.end, yielded |-> d.yielded,
                      matched |-> d.matched, body |-> d.body]
              /\ d.op = c.op /\ d.required = c.required /\ d.driver = c.driver
              /\ d.pos = c.pos /\ d.end = c.end /\ d.yielded = c.yielded
              /\ d.matched = y
<1>1. PICK o, r, w, p, e, s, m, b :
        /\ c = [op |-> o, required |-> r, driver |-> w, pos |-> p, end |-> e,
                yielded |-> s, matched |-> m, body |-> b]
        /\ o = c.op /\ r = c.required /\ w = c.driver /\ p = c.pos
        /\ e = c.end /\ s = c.yielded /\ m = c.matched /\ b = c.body
  OBVIOUS
<1>2. c = [op |-> o, required |-> r, driver |-> w, pos |-> p, end |-> e,
           yielded |-> s, matched |-> m, body |-> b]
  BY <1>1
<1>3. d = [c EXCEPT !.pos = x, !.yielded = y] =>
        d = [op |-> o, required |-> r, driver |-> w, pos |-> x, end |-> e,
             yielded |-> y, matched |-> m, body |-> b]
  BY ONLY <1>2
<1>4. d = [c EXCEPT !.body = x, !.matched = y] =>
        d = [op |-> o, required |-> r, driver |-> w, pos |-> p, end |-> e,
             yielded |-> s, matched |-> y, body |-> x]
  BY ONLY <1>2
<1> QED
  BY ONLY <1>1, <1>3, <1>4

(* The turns of a loop see each row once.                                  *)
LEMMA RowsOnce ==
  ASSUME TableView, Looped
  PROVE  /\ \A j \in 1 .. call.end : RowAt(j) \in Nat
         /\ \A j, k \in 1 .. call.end : RowAt(j) = RowAt(k) => j = k
<1>1. CASE call.op = "rows"
  <2>1. \A j \in 1 .. call.end : RowAt(j) = j - 1
    BY <1>1 DEF RowAt
  <2>2. call.end \in Nat
    BY DEF Looped
  <2> QED
    BY <2>1, <2>2
<1>2. CASE call.op = "select"
  <2> DEFINE dense == m_columns[call.driver].dense
  <2>1. /\ dense \in Seq(Index) /\ IsInjective(dense) /\ call.end = Len(dense)
    BY <1>2, DenseLists DEF Looped, TableView
  <2>2. DOMAIN dense = 1 .. call.end
    BY <2>1, LenProperties
  <2>3. \A j \in 1 .. call.end : RowAt(j) = dense[j] /\ dense[j] \in Index
    BY <1>2, <2>1, ElementOfSeq DEF RowAt
  <2> HIDE DEF dense
  <2> QED
    BY <2>1, <2>2, <2>3 DEF IsInjective, Index
<1> QED
  BY <1>1, <1>2 DEF Looped, Looping

(* What a turn does: it takes the row of its place, and yields its handle  *)
(* when the filter lets it through.                                        *)
LEMMA TurnFacts ==
  ASSUME TableView, Looped, Turn
  PROVE  LET n   == call.pos + 1
             row == RowAt(n)
         IN  /\ n \in 1 .. call.end /\ call.pos \in Nat /\ row \in Nat
             /\ UNCHANGED vars
             /\ call' = [op |-> call'.op, required |-> call'.required,
                  driver |-> call'.driver, pos |-> call'.pos, end |-> call'.end,
                  yielded |-> call'.yielded, matched |-> call'.matched,
                  body |-> call'.body]
             /\ call'.op = call.op /\ call'.required = call.required
             /\ call'.driver = call.driver /\ call'.pos = n
             /\ call'.end = call.end /\ call'.matched = call.matched
             /\ \/ /\ Passes(call.required, row)
                   /\ Handle(row) \in LiveHandles /\ Handle(row).index = row
                   /\ Matches(call.required, Handle(row))
                   /\ call'.yielded = Append(call.yielded, Handle(row))
                \/ /\ ~Passes(call.required, row)
                   /\ call'.yielded = call.yielded
<1> DEFINE n   == call.pos + 1
           row == RowAt(n)
           new == IF Passes(call.required, row)
                  THEN Append(call.yielded, Handle(row)) ELSE call.yielded
<1>1. /\ call.pos \in Nat /\ call.end \in Nat /\ call.required \subseteq Columns
      /\ call.op \in {"select", "rows"}
  BY DEF Looped, Looping
<1>2. call.pos < call.end
  BY DEF Turn
<1>3. n \in 1 .. call.end
  BY <1>1, <1>2
<1>4. row \in Nat
  BY <1>3, RowsOnce
<1>5. row = Candidate
  <2>1. call.pos = n - 1
    BY <1>1
  <2> QED
    BY <2>1 DEF RowAt, Candidate, At
<1>6. /\ call' = [call EXCEPT !.pos = n, !.yielded = new]
      /\ UNCHANGED vars
  BY <1>5 DEF Turn
<1>7. Passes(call.required, row) =>
        /\ Handle(row) \in LiveHandles /\ Handle(row).index = row
        /\ Matches(call.required, Handle(row))
  <2> HIDE DEF row
  <2>1. ASSUME Passes(call.required, row)
        PROVE  Handle(row) \in LiveHandles /\ Handle(row).index = row
    <3>1. row \in AliveSlots
      BY <1>1, <1>4, <2>1, PassesIsMatch
    <3> QED
      BY <3>1 DEF TableView
  <2>2. ASSUME Passes(call.required, row)
        PROVE  Matches(call.required, Handle(row))
    <3>1. Passes(call.required, Handle(row).index)
      BY <2>1, <2>2
    <3> QED
      BY <1>1, <2>1, <2>2, <3>1, PassesIsMatch
  <2> QED
    BY <2>1, <2>2
<1> HIDE DEF n, row
<1>8. call = [op |-> call.op, required |-> call.required,
              driver |-> call.driver, pos |-> call.pos, end |-> call.end,
              yielded |-> call.yielded, matched |-> call.matched,
              body |-> call.body]
  BY DEF Looped
<1>9. /\ call' = [op |-> call'.op, required |-> call'.required,
                  driver |-> call'.driver, pos |-> call'.pos, end |-> call'.end,
                  yielded |-> call'.yielded, matched |-> call'.matched,
                  body |-> call'.body]
      /\ call'.op = call.op /\ call'.required = call.required
      /\ call'.driver = call.driver /\ call'.pos = n
      /\ call'.end = call.end /\ call'.matched = call.matched
      /\ call'.yielded = new
  <2> HIDE DEF new
  <2> QED
    BY <1>6, <1>8, LoopRecord
<1>10. \/ /\ Passes(call.required, row)
          /\ call'.yielded = Append(call.yielded, Handle(row))
       \/ /\ ~Passes(call.required, row)
          /\ call'.yielded = call.yielded
  BY ONLY <1>9
<1> HIDE DEF new
<1>11. UNCHANGED vars
  BY <1>6
<1> QED
  BY ONLY <1>1, <1>3, <1>4, <1>7, <1>9, <1>10, <1>11 DEF n, row

(* A turn.                                                                 *)
LEMMA TurnKeeps ==
  ASSUME TableView, TableView', Looped, Turn
  PROVE  Looped'
<1> DEFINE n   == call.pos + 1
           row == RowAt(n)
           h   == Handle(row)
           old == call.yielded
           new == call'.yielded
<1>1. /\ n \in 1 .. call.end /\ call.pos \in Nat /\ row \in Nat
      /\ call'.op = call.op /\ call'.required = call.required
      /\ call'.driver = call.driver /\ call'.pos = n
      /\ call'.end = call.end /\ call'.matched = call.matched
      /\ \/ /\ Passes(call.required, row)
            /\ h \in LiveHandles /\ h.index = row
            /\ Matches(call.required, h)
            /\ new = Append(old, h)
         \/ /\ ~Passes(call.required, row)
            /\ new = old
  BY TurnFacts
<1>2. /\ LiveHandles' = LiveHandles
      /\ \A id, C : try_get(C, id)' = try_get(C, id)
      /\ \A id : is_valid(id)' = is_valid(id)
      /\ m_columns' = m_columns /\ m_rows' = m_rows
  BY StillReads, TurnFacts
<1>3. /\ call.required \subseteq Columns /\ call.end \in Nat
      /\ old \in Seq(Handles) /\ IsInjective(old)
      /\ call.op \in {"select", "rows"}
      /\ \A id \in ToSet(old) : \E j \in 1 .. call.pos : id.index = RowAt(j)
      /\ \A id \in call.matched :
           /\ id \in LiveHandles /\ Matches(call.required, id)
           /\ \E j \in 1 .. call.end :
                id.index = RowAt(j) /\ (j <= call.pos => id \in ToSet(old))
      /\ call.op = "select" => /\ call.driver \in call.required
                               /\ call.end = Len(m_columns[call.driver].dense)
      /\ call.op = "rows" => call.required = {} /\ call.end <= Len(m_rows)
  BY DEF Looped, Looping
<1>4. /\ \A j \in 1 .. n : j \in 1 .. call.end /\ (j \in 1 .. call.pos \/ j = n)
      /\ \A j \in 1 .. call.pos : j \in 1 .. n /\ j # n
      /\ \A j \in 1 .. call.end : j <= n => j <= call.pos \/ j = n
      /\ n \in Nat /\ n <= call.end
  BY <1>1, <1>3
<1>5. \A j : RowAt(j)' = RowAt(j)
  BY <1>1, <1>2 DEF RowAt
<1> HIDE DEF n, row, h, old, new
<1>6. \A id \in ToSet(old) : id.index # row
  BY <1>1, <1>3, <1>4, RowsOnce DEF row
<1>7. /\ new \in Seq(Handles) /\ IsInjective(new)
      /\ ToSet(old) \subseteq ToSet(new)
      /\ Passes(call.required, row) => h \in ToSet(new)
      /\ \A id \in ToSet(new) : id \in ToSet(old) \/ id.index = row
  <2>1. CASE new = old /\ ~Passes(call.required, row)
    BY <1>3, <2>1
  <2>2. CASE new = Append(old, h) /\ h \in LiveHandles /\ h.index = row
    <3>1. h \in Handles
      BY <2>2 DEF TableView
    <3>2. /\ new \in Seq(Handles) /\ Len(new) = Len(old) + 1
          /\ \A j \in 1 .. Len(old) : new[j] = old[j]
          /\ new[Len(old) + 1] = h
          /\ Len(old) \in Nat /\ DOMAIN old = 1 .. Len(old)
          /\ DOMAIN new = 1 .. Len(old) + 1
      BY <1>3, <2>2, <3>1, AppendProperties, LenProperties
    <3>3. ToSet(new) = ToSet(old) \cup {h}
      BY <3>2 DEF ToSet
    <3>4. IsInjective(new)
      <4>1. \A j \in 1 .. Len(old) : old[j] # h
        BY <1>6, <2>2, <3>2 DEF ToSet
      <4>2. \A j, k \in 1 .. Len(old) : old[j] = old[k] => j = k
        BY <1>3, <3>2 DEF IsInjective
      <4>3. \A j \in 1 .. Len(old) + 1 : j \in 1 .. Len(old) \/ j = Len(old) + 1
        BY <3>2
      <4> QED
        BY <3>2, <4>1, <4>2, <4>3 DEF IsInjective
    <3> QED
      BY <2>2, <3>2, <3>3, <3>4
  <2> QED
    BY <1>1, <2>1, <2>2
<1>8. ASSUME NEW id \in ToSet(new)
      PROVE  \E j \in 1 .. n : id.index = RowAt(j)
  <2>1. CASE id.index = row
    BY <1>1, <1>4, <2>1 DEF row
  <2>2. CASE id \in ToSet(old)
    BY <1>3, <1>4, <2>2
  <2> QED
    BY <1>7, <2>1, <2>2
<1>9. ASSUME NEW id \in call.matched
      PROVE  \E j \in 1 .. call.end :
               id.index = RowAt(j) /\ (j <= n => id \in ToSet(new))
  <2>1. PICK j \in 1 .. call.end :
          id.index = RowAt(j) /\ (j <= call.pos => id \in ToSet(old))
    BY <1>3
  <2>2. ASSUME j = n
        PROVE  id \in ToSet(new)
    <3>1. id \in LiveHandles /\ Matches(call.required, id) /\ id.index = row
      BY <1>3, <2>1, <2>2 DEF row
    <3>2. Passes(call.required, row)
      BY <1>3, <3>1, PassesIsMatch
    <3>3. id = h
      BY <3>1 DEF TableView, h
    <3> QED
      BY <1>7, <3>2, <3>3
  <2> QED
    BY <1>4, <1>7, <2>1, <2>2
<1>10. Looping'
  BY <1>1, <1>3 DEF Looping
<1>11. call' = [op |-> call'.op, required |-> call'.required,
                driver |-> call'.driver, pos |-> call'.pos, end |-> call'.end,
                yielded |-> call'.yielded, matched |-> call'.matched,
                body |-> call'.body]
  BY TurnFacts
<1>12. \A id \in call'.matched :
         /\ id \in LiveHandles' /\ Matches(call.required, id)'
         /\ \E j \in 1 .. call'.end :
              id.index = RowAt(j)' /\ (j <= call'.pos => id \in ToSet(call'.yielded))
  BY <1>1, <1>2, <1>3, <1>5, <1>9 DEF Matches, new
<1>13. \A id \in ToSet(call'.yielded) : \E j \in 1 .. call'.pos : id.index = RowAt(j)'
  BY <1>1, <1>5, <1>8 DEF new
<1>14. /\ call'.required \subseteq Columns /\ call'.pos \in Nat
       /\ call'.end \in Nat /\ call'.pos <= call'.end
       /\ call'.yielded \in Seq(Handles) /\ IsInjective(call'.yielded)
  BY <1>1, <1>3, <1>4, <1>7 DEF new
<1>15. /\ call'.op = "select" =>
            /\ call'.driver \in call'.required
            /\ call'.end = Len(m_columns'[call'.driver].dense)
       /\ call'.op = "rows" => call'.required = {} /\ call'.end <= Len(m_rows')
  BY <1>1, <1>2, <1>3
<1> QED
  BY <1>10, <1>11, <1>12, <1>13, <1>14, <1>15 DEF Looped

(* No operation but clear takes slots away.                                *)
LEMMA SlotsRemain ==
  ASSUME TableView,
         \/ insert
         \/ \E id \in LiveHandles : erase(id)
         \/ \E id \in LiveHandles, C \in Columns : unassign(C, id)
         \/ \E id \in LiveHandles, C \in Columns, v \in Values : assign(C, id, v)
  PROVE  Len(m_rows) \in Nat /\ Len(m_rows') \in Nat /\ Len(m_rows) <= Len(m_rows')
<1>1. /\ TypeOK /\ SlotsFit /\ Len(m_rows) \in Nat
      /\ \A h \in LiveHandles : h.index \in AliveSlots
      /\ \A i \in AliveSlots : At(m_rows, i) \in RowMeta
  BY SlotFacts DEF TableView, IInv
<1>2. PICK chain : FreeChain(chain)
  BY DEF TableView, IInv
<1>3. CASE InsertRecycled
  BY <1>1, <1>2, <1>3, PopChain
<1>4. CASE InsertGrown
  BY <1>1, <1>2, <1>4, GrowChain
<1>5. CASE InsertOverflow
  BY <1>1, <1>5 DEF InsertOverflow, vars
<1>6. ASSUME NEW id \in LiveHandles, erase(id)
      PROVE  Len(m_rows') = Len(m_rows)
  BY <1>1, <1>2, <1>6, RetireChain, PushChain DEF erase
<1>7. ASSUME NEW id \in LiveHandles, NEW sig \in SUBSET Columns,
             SignatureWith(id.index, sig),
             m_free_links' = m_free_links, m_free_head' = m_free_head
      PROVE  Len(m_rows') = Len(m_rows)
  BY <1>1, <1>2, <1>7, SignatureStep
<1>8. ASSUME NEW id \in LiveHandles, NEW C \in Columns, unassign(C, id)
      PROVE  Len(m_rows') = Len(m_rows)
  <2>1. At(m_rows, id.index).signature \ {C} \in SUBSET Columns
    BY <1>1 DEF RowMeta
  <2> QED
    BY <1>7, <1>8, <2>1 DEF unassign
<1>9. ASSUME NEW id \in LiveHandles, NEW C \in Columns, NEW v \in Values,
             assign(C, id, v)
      PROVE  Len(m_rows') = Len(m_rows)
  <2>1. At(m_rows, id.index).signature \cup {C} \in SUBSET Columns
    BY <1>1 DEF RowMeta
  <2> QED
    BY <1>7, <1>9, <2>1 DEF assign
<1> QED
  BY <1>1, <1>3, <1>4, <1>5, <1>6, <1>8, <1>9 DEF insert

(* A change by the body.                                                   *)
LEMMA BodyKeeps ==
  ASSUME TableView, TableView', Looped, Body
  PROVE  Looped'
<1> DEFINE left == {id \in call.matched : /\ is_valid(id)'
                                          /\ \A C \in call.required :
                                               try_get(C, id)' # {}}
           more == call.body + 1
<1>1. /\ call.required \subseteq Columns /\ call.pos \in Nat /\ call.end \in Nat
      /\ call.pos <= call.end
      /\ call.yielded \in Seq(Handles) /\ IsInjective(call.yielded)
      /\ call.op \in {"select", "rows"}
      /\ \A id \in ToSet(call.yielded) :
           \E j \in 1 .. call.pos : id.index = RowAt(j)
      /\ \A id \in call.matched :
           /\ id \in LiveHandles
           /\ \E j \in 1 .. call.end :
                id.index = RowAt(j) /\ (j <= call.pos => id \in ToSet(call.yielded))
      /\ call.op = "select" => /\ call.driver \in call.required
                               /\ call.end = Len(m_columns[call.driver].dense)
      /\ call.op = "rows" => call.required = {} /\ call.end <= Len(m_rows)
  BY DEF Looped, Looping
<1>2. call' = [call EXCEPT !.body = more, !.matched = left]
  BY DEF Body
<1>3. call = [op |-> call.op, required |-> call.required,
              driver |-> call.driver, pos |-> call.pos, end |-> call.end,
              yielded |-> call.yielded, matched |-> call.matched,
              body |-> call.body]
  BY DEF Looped
<1> HIDE DEF left, more
<1>4. /\ call' = [op |-> call'.op, required |-> call'.required,
                  driver |-> call'.driver, pos |-> call'.pos, end |-> call'.end,
                  yielded |-> call'.yielded, matched |-> call'.matched,
                  body |-> call'.body]
      /\ call'.op = call.op /\ call'.required = call.required
      /\ call'.driver = call.driver /\ call'.pos = call.pos
      /\ call'.end = call.end /\ call'.yielded = call.yielded
      /\ call'.matched = left
  BY <1>2, <1>3, LoopRecord
<1>5. /\ Len(m_rows) \in Nat /\ Len(m_rows') \in Nat
      /\ Len(m_rows) <= Len(m_rows')
  BY SlotsRemain DEF Body
<1>6. call.op = "select" => m_columns'[call.driver].dense = m_columns[call.driver].dense
  BY DEF Body
<1>7. \A j : RowAt(j)' = RowAt(j)
  BY <1>1, <1>4, <1>6 DEF RowAt
<1>8. ASSUME NEW id \in left
      PROVE  id \in LiveHandles' /\ Matches(call.required, id)'
  <2>1. /\ id \in LiveHandles /\ id \in Handles /\ is_valid(id)'
        /\ \A C \in call.required : try_get(C, id)' # {}
    BY <1>1 DEF left, TableView
  <2> QED
    BY <1>4, <2>1 DEF TableView, Matches
<1>9. Looping'
  BY <1>1, <1>4 DEF Looping
<1>10. \A id \in call'.matched :
         /\ id \in LiveHandles' /\ Matches(call.required, id)'
         /\ \E j \in 1 .. call'.end :
              id.index = RowAt(j)' /\ (j <= call'.pos => id \in ToSet(call'.yielded))
  BY <1>1, <1>4, <1>7, <1>8 DEF left
<1>11. \A id \in ToSet(call'.yielded) : \E j \in 1 .. call'.pos : id.index = RowAt(j)'
  BY <1>1, <1>4, <1>7
<1>12. /\ call'.required \subseteq Columns /\ call'.pos \in Nat
       /\ call'.end \in Nat /\ call'.pos <= call'.end
       /\ call'.yielded \in Seq(Handles) /\ IsInjective(call'.yielded)
  BY <1>1, <1>4
<1>13. /\ call'.op = "select" =>
            /\ call'.driver \in call'.required
            /\ call'.end = Len(m_columns'[call'.driver].dense)
       /\ call'.op = "rows" => call'.required = {} /\ call'.end <= Len(m_rows')
  BY <1>1, <1>4, <1>5, <1>6
<1> QED
  BY <1>4, <1>9, <1>10, <1>11, <1>12, <1>13 DEF Looped

(* At its end, a loop has visited what matched all along.                  *)
LEMMA LoopIsComplete ==
  ASSUME CallInv
  PROVE  LoopComplete
<1> SUFFICES ASSUME Looping
             PROVE  /\ IsInjective(call.yielded)
                    /\ call.pos = call.end => call.matched \subseteq ToSet(call.yielded)
  BY DEF LoopComplete
<1>1. Looped
  BY CallIs DEF Looping
<1> QED
  BY <1>1 DEF Looped

(* What a turn yields matches.                                             *)
LEMMA YieldMatches ==
  ASSUME TableView, CallInv, [CallNext]_callVars,
         Looping, call'.op = call.op, call'.yielded # call.yielded
  PROVE  Matches(call.required, Last(call'.yielded))
<1>1. Looped /\ call.op \in {"select", "rows"}
  BY CallIs DEF Looping
<1>2. CASE Turn
  <2> DEFINE h == Handle(RowAt(call.pos + 1))
  <2>1. /\ h \in LiveHandles /\ Matches(call.required, h)
        /\ call'.yielded = Append(call.yielded, h)
    BY <1>1, <1>2, TurnFacts
  <2> HIDE DEF h
  <2>2. call.yielded \in Seq(Handles) /\ h \in Handles
    BY <1>1, <2>1 DEF Looped, TableView
  <2>3. Last(Append(call.yielded, h)) = h
    <3>1. /\ Len(Append(call.yielded, h)) = Len(call.yielded) + 1
          /\ Append(call.yielded, h)[Len(call.yielded) + 1] = h
      BY <2>2, AppendProperties
    <3> QED
      BY <3>1 DEF Last
  <2> QED
    BY <2>1, <2>3
<1>3. CASE Body
  <2> DEFINE left == {id \in call.matched : /\ is_valid(id)'
                                            /\ \A C \in call.required :
                                                 try_get(C, id)' # {}}
             more == call.body + 1
  <2>1. call' = [call EXCEPT !.body = more, !.matched = left]
    BY <1>3 DEF Body
  <2>2. call = [op |-> call.op, required |-> call.required,
                driver |-> call.driver, pos |-> call.pos, end |-> call.end,
                yielded |-> call.yielded, matched |-> call.matched,
                body |-> call.body]
    BY <1>1 DEF Looped
  <2> HIDE DEF left, more
  <2>3. call'.yielded = call.yielded
    BY <2>1, <2>2, LoopRecord
  <2> QED
    BY <2>3
<1>4. CASE LoopEnds
  BY <1>1, <1>4 DEF LoopEnds, Ends, None
<1>5. CASE UNCHANGED callVars
  BY <1>5 DEF callVars
<1>6. Turn \/ Body \/ LoopEnds \/ UNCHANGED callVars
  BY <1>1 DEF CallNext, Single, Idle, None, InsertBatch, BatchInsert,
     BatchOverflow, BatchInserted, AssignBatch, BatchSkip, BatchAssign,
     BatchAssigned, Select, ForEachRow, AssignFrom, AssignNext,
     AssignFromEnds, ForEachDirty, DirtyTurn, DirtyEnds
<1> QED
  BY <1>2, <1>3, <1>4, <1>5, <1>6

-----------------------------------------------------------------------------
(* compute::assign_from.                                                   *)

(* op applied to the inputs of a row that has them all is a value.         *)
LEMMA OpOfIsValue ==
  ASSUME TableView, NEW In \in SUBSET Columns, In # {},
         NEW h \in LiveHandles, \A D \in In : try_get(D, h) # {}
  PROVE  OpOf(In, h) \in Values
<1> DEFINE S == UNION {try_get(C, h) : C \in In}
           f == [C \in In |-> get(m_columns[C], h.index)]
<1>1. \A C \in In : try_get(C, h) = {f[C]} /\ try_get(C, h) \subseteq Values
  <2>1. ASSUME NEW C \in In
        PROVE  try_get(C, h) = {get(m_columns[C], h.index)}
               /\ try_get(C, h) \subseteq Values
    <3>1. C \in Columns /\ try_get(C, h) # {}
      OBVIOUS
    <3> QED
      BY <3>1, ReadsValues DEF TableView
  <2> QED
    BY <2>1
<1> HIDE DEF f
<1>2. f = [C \in In |-> f[C]]
  BY DEF f
<1>3. S = {f[C] : C \in In}
  BY <1>1
<1>4. S \subseteq Values /\ S # {}
  BY <1>1
<1>5. IsFiniteSet(S)
  <2>1. IsFiniteSet(In)
    BY ColumnsAssumption, FS_Subset
  <2>2. f \in Surjection(In, S)
    BY <1>2, <1>3 DEF Surjection
  <2> HIDE DEF S
  <2> QED
    BY <2>1, <2>2, FS_Surjection
<1> HIDE DEF S
<1>6. Max(S) \in S
  BY <1>4, <1>5, ValuesAssumption, MaxIsGreatest
<1> QED
  BY <1>4, <1>6 DEF OpOf, S

(* assign_from collects a result for every row that has the inputs.        *)
LEMMA AssignFromStarts ==
  ASSUME TableView, TableView', AssignFrom
  PROVE  Deriving'
<1>0. PICK Out \in Columns : \E In \in (SUBSET (Columns \ {Out})) \ {{}} :
        \E driver \in Drivers(In) :
          LET rows == select(In, driver)
          IN  call' = [op |-> "assign_from", Out |-> Out, In |-> In,
                       before |-> Cells,
                       results |-> [i \in DOMAIN rows |->
                         <<Handle(rows[i]), OpOf(In, Handle(rows[i]))>>]]
  BY DEF AssignFrom
<1>1. PICK In \in (SUBSET (Columns \ {Out})) \ {{}} :
        \E driver \in Drivers(In) :
          LET rows == select(In, driver)
          IN  call' = [op |-> "assign_from", Out |-> Out, In |-> In,
                       before |-> Cells,
                       results |-> [i \in DOMAIN rows |->
                         <<Handle(rows[i]), OpOf(In, Handle(rows[i]))>>]]
  BY <1>0
<1>2. PICK driver \in Drivers(In) :
        LET rows == select(In, driver)
        IN  call' = [op |-> "assign_from", Out |-> Out, In |-> In,
                     before |-> Cells,
                     results |-> [i \in DOMAIN rows |->
                       <<Handle(rows[i]), OpOf(In, Handle(rows[i]))>>]]
  BY <1>1
<1> DEFINE rows    == select(In, driver)
           results == [i \in DOMAIN rows |->
                         <<Handle(rows[i]), OpOf(In, Handle(rows[i]))>>]
<1>3. In \in SUBSET Columns /\ In # {} /\ driver \in Columns
  BY <1>1, <1>2 DEF Drivers
<1>4. /\ rows \in Seq(Index)
      /\ ToSet(rows) = {r \in AliveSlots : \A C \in In : contains(m_columns[C], r)}
  <2>1. m_columns[driver].dense \in Seq(Index) /\ IsInjective(m_columns[driver].dense)
    BY <1>3, DenseLists DEF TableView
  <2>2. SelectExact
    BY JoinIsExact DEF TableView
  <2> QED
    BY <1>1, <1>3, <2>1, <2>2, KeptCorrect DEF select, SelectExact
<1>5. call' = [op |-> "assign_from", Out |-> Out, In |-> In,
               before |-> Cells, results |-> results]
  BY <1>2
<1> HIDE DEF rows
<1>6. Len(rows) \in Nat /\ DOMAIN rows = 1 .. Len(rows)
  BY <1>4, LenProperties
<1>7. ASSUME NEW h \in LiveHandles
      PROVE  (\A D \in In : try_get(D, h) # {}) <=> h.index \in ToSet(rows)
  <2>1. h.index \in AliveSlots /\ h.index \in Index
    BY DEF TableView
  <2>2. \A D \in In : try_get(D, h) # {} <=> contains(m_columns[D], h.index)
    BY <1>3, <2>1 DEF TableView, RowsIn
  <2> QED
    BY <1>4, <2>1, <2>2
<1>8. ASSUME NEW i \in 1 .. Len(rows)
      PROVE  LET h == Handle(rows[i])
             IN  /\ h \in LiveHandles /\ h \in Handles
                 /\ \A D \in In : try_get(D, h) # {}
                 /\ OpOf(In, h) \in Values
  <2> DEFINE h == Handle(rows[i])
  <2>1. rows[i] \in ToSet(rows) /\ rows[i] \in AliveSlots
    BY <1>4, <1>6 DEF ToSet
  <2>2. h \in LiveHandles /\ h \in Handles /\ h.index = rows[i]
    BY <2>1 DEF TableView
  <2> HIDE DEF h
  <2>3. \A D \in In : try_get(D, h) # {}
    BY <1>7, <2>1, <2>2
  <2>4. OpOf(In, h) \in Values
    BY <1>3, <2>2, <2>3, OpOfIsValue
  <2> QED
    BY <2>2, <2>3, <2>4 DEF h
<1>9. results \in Seq(Handles \X Values) /\ Len(results) = Len(rows)
  <2>1. results \in [1 .. Len(rows) -> Handles \X Values]
    BY <1>6, <1>8
  <2> HIDE DEF results
  <2> QED
    BY <1>6, <2>1, FunctionIsVector
<1>10. \A i \in 1 .. Len(rows) : /\ results[i][1] = Handle(rows[i])
                                 /\ results[i][2] = OpOf(In, Handle(rows[i]))
  BY <1>6
<1> HIDE DEF results
<1>11. /\ call'.op = "assign_from" /\ call'.Out = Out /\ call'.In = In
       /\ call'.before = Cells /\ call'.results = results
  BY <1>5
<1>12. /\ LiveHandles' = LiveHandles
       /\ \A h, D : try_get(D, h)' = try_get(D, h)
  BY StillReads DEF AssignFrom
<1>13. ASSUME NEW h \in LiveHandles
       PROVE  /\ Full(h)' <=> \A D \in In : try_get(D, h) # {}
              /\ Derived(h)' = OpOf(In, h)
  <2>1. \A D \in In : Cells[h][D] = try_get(D, h)
    BY <1>3, CellsRead
  <2>2. {Cells[h][D] : D \in In} = {try_get(D, h) : D \in In}
    BY <2>1
  <2> QED
    BY <1>11, <2>1, <2>2 DEF Full, Derived, OpOf
<1>14. \A i \in 1 .. Len(call'.results) :
         /\ call'.results[i][1] \in LiveHandles'
         /\ Full(call.results[i][1])'
         /\ call'.results[i][2] = Derived(call.results[i][1])'
  <2>1. ASSUME NEW i \in 1 .. Len(rows), NEW h, h = Handle(rows[i])
        PROVE  /\ results[i][1] = h /\ h \in LiveHandles
               /\ Full(h)' /\ results[i][2] = Derived(h)'
    BY <1>8, <1>10, <1>13, <2>1
  <2> QED
    BY <1>9, <1>11, <1>12, <2>1
<1>15. \A h \in LiveHandles', C \in Columns :
         C # call'.Out \/ ~Full(h)' => try_get(C, h)' = call'.before[h][C]
  BY <1>11, <1>12, CellsRead
<1>16. ASSUME NEW h \in LiveHandles', Full(h)'
       PROVE  \E i \in 1 .. Len(call'.results) : call'.results[i][1] = h
  <2>1. h \in LiveHandles /\ h.index \in ToSet(rows) /\ h = Handle(h.index)
    BY <1>7, <1>12, <1>13, <1>16 DEF TableView
  <2>2. PICK i \in 1 .. Len(rows) : rows[i] = h.index
    BY <1>6, <2>1 DEF ToSet
  <2> QED
    BY <1>9, <1>10, <1>11, <2>1, <2>2
<1>17. /\ call' = [op |-> "assign_from", Out |-> call'.Out, In |-> call'.In,
                   before |-> call'.before, results |-> call'.results]
       /\ DOMAIN call'.before = LiveHandles'
       /\ call'.results \in Seq(Handles \X Values) /\ call'.Out \in Columns
  BY <1>5, <1>9, <1>11, <1>12, CellsRead
<1> QED
  BY <1>11, <1>14, <1>15, <1>16, <1>17 DEF Deriving

(* The record of an assign_from, one result further.                       *)
LEMMA FromRecord ==
  ASSUME NEW c, NEW d, NEW x,
         c = [op |-> "assign_from", Out |-> c.Out, In |-> c.In,
              before |-> c.before, results |-> c.results],
         d = [c EXCEPT !.results = x]
  PROVE  /\ d = [op |-> "assign_from", Out |-> d.Out, In |-> d.In,
                 before |-> d.before, results |-> d.results]
         /\ d.op = "assign_from" /\ d.Out = c.Out /\ d.In = c.In
         /\ d.before = c.before /\ d.results = x
<1>1. PICK o, n, b, r :
        /\ c = [op |-> "assign_from", Out |-> o, In |-> n, before |-> b,
                results |-> r]
        /\ o = c.Out /\ n = c.In /\ b = c.before /\ r = c.results
  OBVIOUS
<1>2. c = [op |-> "assign_from", Out |-> o, In |-> n, before |-> b, results |-> r]
  BY <1>1
<1>3. d = [op |-> "assign_from", Out |-> o, In |-> n, before |-> b, results |-> x]
  BY ONLY <1>2, d = [c EXCEPT !.results = x]
<1> QED
  BY ONLY <1>1, <1>3

(* The second pass: a result is assigned.                                  *)
LEMMA AssignNextKeeps ==
  ASSUME TableView, TableView', Deriving, AssignNext
  PROVE  Deriving'
<1> DEFINE results == call.results
           rest    == Tail(call.results)
           h       == results[1][1]
           v       == results[1][2]
<1>1. /\ results \in Seq(Handles \X Values) /\ results # <<>>
      /\ call.Out \in Columns /\ DOMAIN call.before = LiveHandles
      /\ \A i \in 1 .. Len(results) :
           /\ results[i][1] \in LiveHandles
           /\ Full(results[i][1])
           /\ results[i][2] = Derived(results[i][1])
      /\ \A id \in LiveHandles, C \in Columns :
           C # call.Out \/ ~Full(id) => try_get(C, id) = call.before[id][C]
      /\ \A id \in LiveHandles :
           Full(id) => \/ try_get(call.Out, id) = {Derived(id)}
                       \/ \E i \in 1 .. Len(results) : results[i][1] = id
  BY DEF Deriving, AssignNext
<1>2. /\ Len(results) \in Nat \ {0}
      /\ rest \in Seq(Handles \X Values) /\ Len(rest) = Len(results) - 1
      /\ \A i \in 1 .. Len(rest) : rest[i] = results[i + 1]
      /\ Head(results) = results[1]
  BY <1>1, EmptySeq, HeadTailProperties DEF Head
<1>3. 1 \in 1 .. Len(results) /\ results[1] \in Handles \X Values
  BY <1>1, <1>2, ElementOfSeq
<1>4. h \in LiveHandles /\ h \in Handles /\ v \in Values /\ Full(h) /\ v = Derived(h)
  BY <1>1, <1>3
<1>5. assign(call.Out, h, v) /\ call' = [call EXCEPT !.results = rest]
  BY <1>2 DEF AssignNext
<1>6. call = [op |-> "assign_from", Out |-> call.Out, In |-> call.In,
              before |-> call.before, results |-> call.results]
  BY DEF Deriving
<1> HIDE DEF rest, h, v
<1>7. /\ call' = [op |-> "assign_from", Out |-> call'.Out, In |-> call'.In,
                  before |-> call'.before, results |-> call'.results]
      /\ call'.op = "assign_from" /\ call'.Out = call.Out /\ call'.In = call.In
      /\ call'.before = call.before /\ call'.results = rest
  BY <1>5, <1>6, FromRecord
<1> HIDE DEF results
<1>8. /\ LiveHandles' = LiveHandles
      /\ \A id \in LiveHandles, C \in Columns :
           try_get(C, id)' = IF C = call.Out /\ id = h THEN {v} ELSE try_get(C, id)
  BY <1>1, <1>4, <1>5, AssignReads
<1>9. \A id : (Full(id)' <=> Full(id)) /\ Derived(id)' = Derived(id)
  BY <1>7 DEF Full, Derived
<1>10. \A i \in 1 .. Len(rest) : i + 1 \in 1 .. Len(results)
  BY <1>2
<1>11. \A i \in 1 .. Len(results) : i = 1 \/ (i - 1 \in 1 .. Len(rest) /\ i - 1 + 1 = i)
  BY <1>2
<1>12. \A i \in 1 .. Len(call'.results) :
         /\ call'.results[i][1] \in LiveHandles'
         /\ Full(call.results[i][1])'
         /\ call'.results[i][2] = Derived(call.results[i][1])'
  <2>1. ASSUME NEW i \in 1 .. Len(rest)
        PROVE  /\ rest[i][1] \in LiveHandles /\ Full(rest[i][1])
               /\ rest[i][2] = Derived(rest[i][1])
    <3>1. PICK k \in 1 .. Len(results) : rest[i] = results[k]
      BY <1>2, <1>10
    <3> QED
      BY <1>1, <3>1
  <2> QED
    BY <1>7, <1>8, <1>9, <2>1
<1>13. ASSUME NEW id \in LiveHandles', NEW C \in Columns,
              C # call'.Out \/ ~Full(id)'
       PROVE  try_get(C, id)' = call'.before[id][C]
  <2>1. ~(C = call.Out /\ id = h)
    BY <1>4, <1>7, <1>9, <1>13
  <2> QED
    BY <1>1, <1>7, <1>8, <1>9, <1>13, <2>1
<1>14. ASSUME NEW id \in LiveHandles', NEW C \in Columns, C = call'.Out, Full(id)'
       PROVE  \/ try_get(C, id)' = {Derived(id)'}
              \/ \E i \in 1 .. Len(call'.results) : call'.results[i][1] = id
  <2>1. id \in LiveHandles /\ Full(id) /\ C = call.Out
    BY <1>7, <1>8, <1>9, <1>14
  <2>2. CASE id = h
    BY <1>4, <1>8, <1>9, <2>1, <2>2
  <2>3. CASE id # h /\ try_get(call.Out, id) = {Derived(id)}
    BY <1>8, <1>9, <2>1, <2>3
  <2>4. ASSUME id # h, NEW i \in 1 .. Len(results), results[i][1] = id
        PROVE  \E k \in 1 .. Len(rest) : rest[k][1] = id
    <3>1. i # 1
      BY <2>4 DEF h
    <3>2. i - 1 \in 1 .. Len(rest) /\ rest[i - 1] = results[i]
      BY <1>2, <1>11, <3>1
    <3> QED
      BY <2>4, <3>2
  <2> QED
    BY <1>1, <1>7, <2>1, <2>2, <2>3, <2>4
<1>15. call'.Out \in Columns
  BY <1>1, <1>7
<1>16. \A id \in LiveHandles' :
         Full(id)' => \/ try_get(call.Out, id)' = {Derived(id)'}
                      \/ \E i \in 1 .. Len(call'.results) : call'.results[i][1] = id
  BY <1>14, <1>15
<1>17. DOMAIN call'.before = LiveHandles' /\ call'.results \in Seq(Handles \X Values)
  BY <1>1, <1>2, <1>7, <1>8
<1> QED
  BY <1>7, <1>12, <1>13, <1>15, <1>16, <1>17 DEF Deriving

(* At its end, the output column is what the inputs gave.                  *)
LEMMA AssignFromIsExact ==
  ASSUME CallInv
  PROVE  AssignFromExact
<1> SUFFICES ASSUME call.op = "assign_from", call.results = <<>>
             PROVE  Cells = [id \in DOMAIN call.before |-> [C \in Columns |->
                      IF C = call.Out /\ \A D \in call.In : call.before[id][D] # {}
                      THEN {Max(UNION {call.before[id][D] : D \in call.In})}
                      ELSE call.before[id][C]]]
  BY DEF AssignFromExact
<1>1. Deriving
  BY CallIs
<1>2. \A i : i \notin 1 .. Len(call.results)
  BY EmptySeq
<1>3. ASSUME NEW id \in LiveHandles, NEW C \in Columns
      PROVE  try_get(C, id) = IF C = call.Out /\ Full(id) THEN {Derived(id)}
                              ELSE call.before[id][C]
  BY <1>1, <1>2 DEF Deriving
<1>4. DOMAIN call.before = LiveHandles
  BY <1>1 DEF Deriving
<1> QED
  BY <1>3, <1>4 DEF Cells, Full, Derived

-----------------------------------------------------------------------------
(* timeseries::for_each_dirty.                                             *)

(* An element of the driver's dense vector is a row with a value.          *)
LEMMA DenseReads ==
  ASSUME TableView, NEW C \in Columns
  PROVE  LET dense == m_columns[C].dense
         IN  /\ Len(dense) \in Nat
             /\ \A j \in 1 .. Len(dense) :
                  /\ dense[j] \in AliveSlots /\ dense[j] \in Nat
                  /\ Handle(dense[j]) \in LiveHandles
                  /\ Handle(dense[j]).index = dense[j]
                  /\ dense[j] \in RowsIn(m_columns[C])
                  /\ try_get(C, Handle(dense[j])) =
                       {get(m_columns[C], dense[j])}
             /\ \A j, k \in 1 .. Len(dense) : dense[j] = dense[k] => j = k
             /\ \A h \in LiveHandles :
                  try_get(C, h) # {} =>
                    \E j \in 1 .. Len(dense) : h = Handle(dense[j])
<1> DEFINE dense == m_columns[C].dense
<1>1. /\ dense \in Seq(Index) /\ IsInjective(dense)
      /\ ToSet(dense) = RowsIn(m_columns[C])
  BY DenseLists DEF TableView
<1> HIDE DEF dense
<1>2. Len(dense) \in Nat /\ DOMAIN dense = 1 .. Len(dense)
  BY <1>1, LenProperties
<1>3. ASSUME NEW j \in 1 .. Len(dense)
      PROVE  /\ dense[j] \in AliveSlots /\ dense[j] \in Nat
             /\ Handle(dense[j]) \in LiveHandles
             /\ Handle(dense[j]).index = dense[j]
             /\ dense[j] \in RowsIn(m_columns[C])
             /\ try_get(C, Handle(dense[j])) = {get(m_columns[C], dense[j])}
  <2>1. dense[j] \in RowsIn(m_columns[C])
    BY <1>1, <1>2 DEF ToSet
  <2>2. dense[j] \in AliveSlots /\ dense[j] \in Nat
    BY <2>1 DEF TableView, IInv, PooledIsSigned, RowsIn, Index
  <2>3. Handle(dense[j]) \in LiveHandles /\ Handle(dense[j]).index = dense[j]
    BY <2>2 DEF TableView
  <2> QED
    BY <2>1, <2>2, <2>3 DEF TableView
<1>4. ASSUME NEW h \in LiveHandles, try_get(C, h) # {}
      PROVE  \E j \in 1 .. Len(dense) : h = Handle(dense[j])
  <2>1. h.index \in RowsIn(m_columns[C]) /\ h = Handle(h.index)
    BY <1>4 DEF TableView
  <2>2. PICK j \in 1 .. Len(dense) : dense[j] = h.index
    BY <1>1, <1>2, <2>1 DEF ToSet
  <2> QED
    BY <2>1, <2>2
<1> QED
  BY <1>1, <1>2, <1>3, <1>4 DEF dense, IsInjective

(* The loop starts with every row as it was.                               *)
LEMMA ForEachDirtyStarts ==
  ASSUME TableView, ForEachDirty
  PROVE  Cleaning'
<1>1. PICK C \in Columns :
        call' = [op |-> "for_each_dirty", C |-> C, pos |-> 0, before |-> Cells]
  BY DEF ForEachDirty
<1>2. /\ call'.op = "for_each_dirty" /\ call'.C = C /\ call'.pos = 0
      /\ call'.before = Cells
  BY <1>1
<1>3. call' = [op |-> "for_each_dirty", C |-> call'.C, pos |-> call'.pos,
               before |-> call'.before]
  BY <1>1, <1>2
<1>4. /\ LiveHandles' = LiveHandles
      /\ \A h, D : try_get(D, h)' = try_get(D, h)
      /\ m_columns' = m_columns
      /\ \A i : Handle(i)' = Handle(i)
  BY StillReads DEF ForEachDirty
<1> DEFINE dense == m_columns[C].dense
<1>5. /\ Len(dense) \in Nat
      /\ \A j \in 1 .. Len(dense) :
           /\ Handle(dense[j]) \in LiveHandles
           /\ try_get(C, Handle(dense[j])) = {get(m_columns[C], dense[j])}
  BY DenseReads
<1> HIDE DEF dense
<1>6. ASSUME NEW j \in 1 .. Len(dense), NEW id, id = Handle(dense[j])
      PROVE  /\ id \in LiveHandles
             /\ Cells[id][C] # {}
             /\ try_get(C, id) = IF j <= 0 THEN {0} ELSE Cells[id][C]
  <2>1. id \in LiveHandles /\ try_get(C, id) # {} /\ ~(j <= 0)
    BY <1>5, <1>6
  <2> QED
    BY <2>1, CellsRead
<1>7. \A j \in 1 .. Len(m_columns'[call'.C].dense) :
        LET id == Handle(m_columns[call.C].dense[j])'
        IN  /\ id \in LiveHandles'
            /\ call'.before[id][call'.C] # {}
            /\ try_get(call.C, Handle(m_columns[call.C].dense[j]))' =
                 IF j <= call'.pos THEN {0} ELSE call'.before[id][call'.C]
  BY <1>2, <1>4, <1>6 DEF dense
<1>8. \A id \in LiveHandles', D \in Columns :
        D # call'.C \/ try_get(D, id)' = {} => try_get(D, id)' = call'.before[id][D]
  BY <1>2, <1>4, CellsRead
<1>9. /\ call'.C \in Columns /\ DOMAIN call'.before = LiveHandles'
      /\ call'.pos \in 0 .. Len(m_columns'[call'.C].dense)
  BY <1>2, <1>4, <1>5, CellsRead DEF dense
<1> QED
  BY <1>2, <1>3, <1>7, <1>8, <1>9 DEF Cleaning

(* The record of a for_each_dirty, one row further.                        *)
LEMMA DirtyRecord ==
  ASSUME NEW c, NEW d, NEW x,
         c = [op |-> "for_each_dirty", C |-> c.C, pos |-> c.pos,
              before |-> c.before],
         d = [c EXCEPT !.pos = x]
  PROVE  /\ d = [op |-> "for_each_dirty", C |-> d.C, pos |-> d.pos,
                 before |-> d.before]
         /\ d.op = "for_each_dirty" /\ d.C = c.C /\ d.pos = x
         /\ d.before = c.before
<1>1. PICK C, p, b :
        /\ c = [op |-> "for_each_dirty", C |-> C, pos |-> p, before |-> b]
        /\ C = c.C /\ p = c.pos /\ b = c.before
  OBVIOUS
<1>2. c = [op |-> "for_each_dirty", C |-> C, pos |-> p, before |-> b]
  BY <1>1
<1>3. d = [op |-> "for_each_dirty", C |-> C, pos |-> x, before |-> b]
  BY ONLY <1>2, d = [c EXCEPT !.pos = x]
<1> QED
  BY ONLY <1>1, <1>3

(* A row is visited, and cleaned when its mask is dirty.                   *)
LEMMA DirtyTurnKeeps ==
  ASSUME TableView, TableView', Cleaning, DirtyTurn
  PROVE  Cleaning'
<1> DEFINE C     == call.C
           dense == m_columns[C].dense
           n     == call.pos + 1
           row   == dense[n]
           h     == Handle(row)
<1>1. /\ C \in Columns /\ DOMAIN call.before = LiveHandles
      /\ call.pos \in 0 .. Len(dense)
      /\ \A id \in LiveHandles, D \in Columns :
           D # C \/ try_get(D, id) = {} => try_get(D, id) = call.before[id][D]
      /\ \A j \in 1 .. Len(dense) :
           /\ Handle(dense[j]) \in LiveHandles
           /\ call.before[Handle(dense[j])][C] # {}
           /\ try_get(C, Handle(dense[j])) =
                IF j <= call.pos THEN {0} ELSE call.before[Handle(dense[j])][C]
  BY DEF Cleaning
<1>2. /\ Len(dense) \in Nat
      /\ \A j \in 1 .. Len(dense) :
           /\ dense[j] \in AliveSlots
           /\ Handle(dense[j]) \in LiveHandles
           /\ Handle(dense[j]).index = dense[j]
           /\ dense[j] \in RowsIn(m_columns[C])
           /\ try_get(C, Handle(dense[j])) = {get(m_columns[C], dense[j])}
      /\ \A j, k \in 1 .. Len(dense) : dense[j] = dense[k] => j = k
  BY <1>1, DenseReads
<1>3. call.pos < Len(dense)
  BY DEF DirtyTurn
<1>4. /\ n \in 1 .. Len(dense) /\ n \in 0 .. Len(dense) /\ call.pos \in Nat
      /\ \A j \in 1 .. Len(dense) : j <= n <=> j <= call.pos \/ j = n
  <2> HIDE DEF dense
  <2> QED
    BY <1>1, <1>2, <1>3
<1>5. /\ row \in AliveSlots /\ h \in LiveHandles /\ h \in Handles
      /\ h.index = row /\ row \in RowsIn(m_columns[C])
      /\ try_get(C, h) = {get(m_columns[C], row)}
  BY <1>2, <1>4 DEF TableView
<1>6. Passes({C}, row)
  <2> HIDE DEF h, row
  <2>1. Matches({C}, h)
    BY <1>5 DEF Matches, TableView
  <2> QED
    BY <1>1, <1>5, <2>1, PassesIsMatch
<1>7. At(dense, call.pos) = row
  BY DEF At
<1>8. /\ \/ assign(C, h, 0)
         \/ UNCHANGED vars /\ try_get(C, h) = {0}
      /\ call' = [call EXCEPT !.pos = n]
  <2>1. IF is_any_dirty(C, row) THEN assign(C, h, 0) ELSE UNCHANGED vars
    BY <1>6, <1>7 DEF DirtyTurn
  <2>2. ~is_any_dirty(C, row) => get(m_columns[C], row) = 0
    BY DEF is_any_dirty
  <2>3. call' = [call EXCEPT !.pos = n]
    BY DEF DirtyTurn
  <2> HIDE DEF h, row, C
  <2> QED
    BY <1>5, <2>1, <2>2, <2>3
<1>9. call = [op |-> "for_each_dirty", C |-> call.C, pos |-> call.pos,
              before |-> call.before]
  BY DEF Cleaning
<1> HIDE DEF n
<1>10. /\ call' = [op |-> "for_each_dirty", C |-> call'.C, pos |-> call'.pos,
                   before |-> call'.before]
       /\ call'.op = "for_each_dirty" /\ call'.C = C /\ call'.pos = n
       /\ call'.before = call.before
  BY <1>8, <1>9, DirtyRecord
<1> HIDE DEF C, dense, row, h
<1>11. /\ LiveHandles' = LiveHandles
       /\ \A id \in LiveHandles, D \in Columns :
            try_get(D, id)' = IF D = C /\ id = h THEN {0} ELSE try_get(D, id)
       /\ m_columns'[call.C].dense = dense
       /\ \A i \in AliveSlots : Handle(i)' = Handle(i)
  <2>1. CASE assign(C, h, 0)
    <3>1. /\ LiveHandles' = LiveHandles
          /\ \A id \in LiveHandles, D \in Columns :
               try_get(D, id)' = IF D = C /\ id = h THEN {0} ELSE try_get(D, id)
          /\ m_columns'[C].dense = m_columns[C].dense
          /\ \A i \in AliveSlots : Handle(i)' = Handle(i)
      BY <1>1, <1>5, <2>1, MaskAssumption, AssignReads
    <3> QED
      BY <3>1 DEF C, dense
  <2>2. CASE UNCHANGED vars /\ try_get(C, h) = {0}
    BY <2>2, StillReads DEF dense, C
  <2> QED
    BY <1>8, <2>1, <2>2
<1>12. m_columns'[call'.C].dense = dense
  BY <1>10, <1>11 DEF C
<1>13. ASSUME NEW j \in 1 .. Len(dense), NEW id, id = Handle(dense[j]),
              NEW D, D = C
       PROVE  /\ id = Handle(dense[j])' /\ id \in LiveHandles'
              /\ call'.before[id][D] # {}
              /\ try_get(D, id)' = IF j <= n THEN {0} ELSE call'.before[id][D]
  <2>1. /\ id \in LiveHandles /\ call.before[id][D] # {} /\ D \in Columns
        /\ try_get(D, id) = IF j <= call.pos THEN {0} ELSE call.before[id][D]
        /\ dense[j] \in AliveSlots /\ id.index = dense[j]
    BY <1>1, <1>2, <1>13
  <2>2. id = h <=> j = n
    BY <1>2, <1>4, <1>5, <1>13, <2>1 DEF h, row
  <2>3. try_get(D, id)' = IF j <= n THEN {0} ELSE call.before[id][D]
    BY <1>4, <1>11, <1>13, <2>1, <2>2
  <2>4. id = Handle(dense[j])'
    <3>1. \A i \in AliveSlots : Handle(i)' = Handle(i)
      BY <1>11
    <3>2. m_columns'[call'.C].dense[j] = dense[j]
      BY <1>12
    <3> QED
      BY <1>13, <2>1, <3>1, <3>2 DEF dense, C, Handle
  <2> QED
    BY <1>10, <1>11, <2>1, <2>3, <2>4
<1>14. \A j \in 1 .. Len(m_columns'[call'.C].dense) :
         LET id == Handle(m_columns[call.C].dense[j])'
         IN  /\ id \in LiveHandles'
             /\ call'.before[id][call'.C] # {}
             /\ try_get(call.C, Handle(m_columns[call.C].dense[j]))' =
                  IF j <= call'.pos THEN {0} ELSE call'.before[id][call'.C]
  BY <1>10, <1>12, <1>13 DEF dense, C
<1>15. \A id \in LiveHandles', D \in Columns :
         D # call'.C \/ try_get(D, id)' = {} => try_get(D, id)' = call'.before[id][D]
  <2>1. ASSUME NEW id \in LiveHandles, NEW D \in Columns,
               D # C \/ try_get(D, id)' = {}
        PROVE  try_get(D, id)' = call.before[id][D]
    <3>1. ~(D = C /\ id = h)
      BY <1>11, <2>1
    <3>2. try_get(D, id)' = try_get(D, id)
      BY <1>11, <3>1
    <3> QED
      BY <1>1, <2>1, <3>2
  <2> QED
    BY <1>10, <1>11, <2>1
<1>16. /\ call'.C \in Columns /\ DOMAIN call'.before = LiveHandles'
       /\ call'.pos \in 0 .. Len(m_columns'[call'.C].dense)
  BY <1>1, <1>4, <1>10, <1>11, <1>12
<1> QED
  BY <1>10, <1>14, <1>15, <1>16 DEF Cleaning

(* At its end, the column is clean and nothing else has changed.           *)
LEMMA DirtyIsVisited ==
  ASSUME TableView, CallInv
  PROVE  DirtyVisited
<1> SUFFICES ASSUME call.op = "for_each_dirty",
                    call.pos = Len(m_columns[call.C].dense)
             PROVE  Cells = [id \in DOMAIN call.before |-> [C \in Columns |->
                      IF C = call.C /\ call.before[id][C] # {} THEN {0}
                      ELSE call.before[id][C]]]
  BY DEF DirtyVisited
<1>1. Cleaning /\ call.C \in Columns /\ DOMAIN call.before = LiveHandles
  BY CallIs DEF Cleaning
<1> DEFINE dense == m_columns[call.C].dense
<1>2. ASSUME NEW id \in LiveHandles, NEW C \in Columns
      PROVE  try_get(C, id) = IF C = call.C /\ call.before[id][C] # {} THEN {0}
                              ELSE call.before[id][C]
  <2>1. CASE C # call.C \/ try_get(C, id) = {}
    BY <1>1, <2>1 DEF Cleaning
  <2>2. CASE C = call.C /\ try_get(C, id) # {}
    <3>1. PICK j \in 1 .. Len(dense) : id = Handle(dense[j])
      BY <1>1, <2>2, DenseReads
    <3>2. j <= call.pos
      BY <1>1, DenseReads
    <3>3. /\ call.before[id][call.C] # {}
          /\ try_get(call.C, id) = {0}
      BY <1>1, <3>1, <3>2 DEF Cleaning
    <3> QED
      BY <2>2, <3>3
  <2> QED
    BY <2>1, <2>2
<1> QED
  BY <1>1, <1>2 DEF Cells

-----------------------------------------------------------------------------
(* All calls together.                                                     *)

(* Between calls, nothing is under way.                                    *)
LEMMA CallInitKeeps ==
  ASSUME CallInit
  PROVE  CallInv
BY DEF CallInit, CallInv, Idle

(* Every step keeps what is said of the call under way.                    *)
LEMMA CallKeeps ==
  ASSUME TableView, TableView', CallInv, [CallNext]_callVars
  PROVE  CallInv'
<1>1. CASE Single \/ BatchOverflow \/ BatchInserted \/ BatchAssigned
           \/ LoopEnds \/ AssignFromEnds \/ DirtyEnds
  BY <1>1 DEF Single, BatchOverflow, BatchInserted, BatchAssigned, LoopEnds,
     AssignFromEnds, DirtyEnds, Ends, Idle, CallInv
<1>2. CASE InsertBatch \/ BatchInsert
  BY <1>2, InsertBatchKeeps DEF CallInv
<1>3. CASE AssignBatch
  BY <1>3, AssignBatchStarts DEF CallInv
<1>4. CASE BatchSkip \/ BatchAssign
  <2>1. call.op = "assign_batch"
    BY <1>4 DEF BatchSkip, BatchAssign
  <2> QED
    BY <1>4, <2>1, CallIs, AssignBatchKeeps DEF CallInv
<1>5. CASE Select \/ ForEachRow
  BY <1>5, LoopStarts DEF CallInv
<1>6. CASE Turn \/ Body
  <2>1. Looped
    BY <1>6, CallIs DEF Turn, Body, Looping
  <2> QED
    BY <1>6, <2>1, TurnKeeps, BodyKeeps DEF CallInv
<1>7. CASE AssignFrom
  BY <1>7, AssignFromStarts DEF CallInv
<1>8. CASE AssignNext
  <2>1. Deriving
    BY <1>8, CallIs DEF AssignNext
  <2> QED
    BY <1>8, <2>1, AssignNextKeeps DEF CallInv
<1>9. CASE ForEachDirty
  BY <1>9, ForEachDirtyStarts DEF CallInv
<1>10. CASE DirtyTurn
  <2>1. Cleaning
    BY <1>10, CallIs DEF DirtyTurn
  <2> QED
    BY <1>10, <2>1, DirtyTurnKeeps DEF CallInv
<1>11. CASE UNCHANGED callVars
  <2>1. UNCHANGED vars /\ call' = call
    BY <1>11 DEF callVars, vars
  <2>2. /\ LiveHandles' = LiveHandles
        /\ \A h, C : try_get(C, h)' = try_get(C, h)
        /\ \A h : is_valid(h)' = is_valid(h)
        /\ m_columns' = m_columns /\ m_rows' = m_rows
        /\ \A i : Handle(i)' = Handle(i)
    BY <2>1, StillReads
  <2>3. Idle => Idle'
    BY <2>1 DEF Idle
  <2>4. Inserting => Inserting'
    BY <2>1, <2>2 DEF Inserting, BatchAdds
  <2>5. ASSUME Assigning
        PROVE  Assigning'
    <3>1. \A id \in LiveHandles', C \in Columns :
            C # call'.C \/ (\A j \in 1 .. call'.k - 1 : call'.ids[j] # id)
              => try_get(C, id)' = call'.before[id][C]
      BY <2>1, <2>2, <2>5 DEF Assigning
    <3>2. ASSUME NEW id \in LiveHandles', NEW j \in 1 .. call'.k - 1, call'.ids[j] = id,
                 \A l \in j + 1 .. call'.k - 1 : call'.ids[l] # id
          PROVE  try_get(call.C, id)' = {call'.values[j]}
      <4>1. /\ id \in LiveHandles /\ j \in 1 .. call.k - 1 /\ call.ids[j] = id
            /\ \A l \in j + 1 .. call.k - 1 : call.ids[l] # id
        BY ONLY <2>1, <2>2, <3>2
      <4>2. try_get(call.C, id) = {call.values[j]}
        BY ONLY <2>5, <4>1 DEF Assigning
      <4> QED
        BY ONLY <2>1, <2>2, <4>2
    <3> QED
      BY <2>1, <2>2, <2>5, <3>1, <3>2 DEF Assigning
  <2>6. Looped => Looped'
    BY <2>1, <2>2 DEF Looped, Looping, RowAt, Matches
  <2>7. ASSUME Deriving
        PROVE  Deriving'
    <3>1. \A id : (Full(id)' <=> Full(id)) /\ Derived(id)' = Derived(id)
      BY <2>1 DEF Full, Derived
    <3> QED
      BY <2>1, <2>2, <2>7, <3>1 DEF Deriving
  <2>8. Cleaning => Cleaning'
    BY <2>1, <2>2 DEF Cleaning
  <2> QED
    BY <2>3, <2>4, <2>5, <2>6, <2>7, <2>8 DEF CallInv
<1> QED
  BY <1>1, <1>2, <1>3, <1>4, <1>5, <1>6, <1>7, <1>8, <1>9, <1>10, <1>11
     DEF CallNext

(* A call leaves the table as the table's own operations would.            *)
THEOREM CallInvariance == CallSpec => [](TableView /\ CallInv)
<1>1. CallInit => IInv /\ SignatureExact /\ CallInv
  <2> SUFFICES ASSUME CallInit PROVE IInv /\ SignatureExact /\ CallInv
    OBVIOUS
  <2>1. Init
    BY DEF CallInit
  <2>2. AliveSlots = {}
    BY <2>1, EmptySeq DEF Init, AliveSlots, Slots
  <2> QED
    BY <2>1, <2>2, InitKeeps, CallInitKeeps DEF SignatureExact
<1>2. IInv /\ SignatureExact => TableView
  BY TableViewHolds
<1>3. TableView /\ CallInv /\ [CallNext]_callVars => (IInv /\ SignatureExact)'
  <2> SUFFICES ASSUME TableView, CallInv, [CallNext]_callVars
               PROVE  (IInv /\ SignatureExact)'
    OBVIOUS
  <2>1. [StableNext]_vars /\ IInv /\ SignatureExact
    BY CallIsStable DEF TableView
  <2> QED
    BY <2>1, NextKeeps, StableIsNext, SignatureKeeps
<1>4. TableView /\ TableView' /\ CallInv /\ [CallNext]_callVars => CallInv'
  BY CallKeeps
<1> QED
  BY <1>1, <1>2, <1>3, <1>4, PTL DEF CallSpec

(* Taken apart into the steps in which they happen, batches, loops with    *)
(* bodies, assign_from and for_each_dirty do nothing to the table that a   *)
(* program could not do with single operations.                            *)
THEOREM CallsAreStable == CallSpec => StableSpec
<1>1. CallInit => Init
  BY DEF CallInit
<1>2. TableView /\ CallInv /\ [CallNext]_callVars => [StableNext]_vars
  BY CallIsStable
<1> QED
  BY <1>1, <1>2, CallInvariance, PTL DEF CallSpec, StableSpec

(* So the calls keep what the table promises of handles and values.        *)
THEOREM CallsKeepPromise == CallSpec => KeepsPromise
BY CallsAreStable, PromiseKept

(* An insert that finds neither a free slot nor a new index finds every    *)
(* index taken: no dead slot has been lost from the free list.             *)
LEMMA OverflowIsFull ==
  ASSUME IInv, InsertOverflow
  PROVE  \A i \in Index : Taken(i)
<1>1. TypeOK /\ SlotsFit
  BY DEF IInv
<1>2. PICK chain : FreeChain(chain)
  BY DEF IInv
<1>3. Slots = Index
  <2>1. /\ Len(m_rows) \in Nat /\ npos \in Nat
        /\ Len(m_rows) <= npos /\ ~(Len(m_rows) + 1 <= npos)
    BY <1>1, SlotFacts DEF SlotsFit, InsertOverflow, can_address_rows
  <2>2. Len(m_rows) = npos
    BY <2>1
  <2> QED
    BY <2>2 DEF Slots, Index
<1>4. Len(chain) = 0
  <2>1. m_free_head = npos
    BY DEF InsertOverflow
  <2>2. Len(chain) \in Nat /\ \A k \in 1 .. Len(chain) : chain[k] # npos
    BY <1>1, <1>2, ChainFacts
  <2>3. m_free_head = IF Len(chain) = 0 THEN npos ELSE chain[1]
    BY <1>2 DEF FreeChain
  <2> QED
    BY <2>1, <2>2, <2>3
<1>5. \A i \in Slots \ AliveSlots : At(m_rows, i).generation = max_generation
  BY <1>2, <1>4 DEF FreeChain
<1> QED
  BY <1>3, <1>5 DEF Taken, AliveSlots

(* insert_batch hands out one new row per handle, and no row is lost or    *)
(* gained, also when it throws in the middle; then every index is taken.   *)
THEOREM InsertBatchAddsAlways == CallSpec => InsertBatchAdds
<1> DEFINE Ids  == IF call' = None THEN call.ids ELSE call'.ids
           Adds == call.op = "insert_batch" =>
                     /\ IsInjective(Ids)
                     /\ ToSet(Ids) \cap call.before = {}
                     /\ LiveHandles' = call.before \cup ToSet(Ids)
                     /\ call' = None /\ call.left > 0 => \A i \in Index : Taken(i)'
<1>1. ASSUME TableView, TableView', CallInv, CallInv', [CallNext]_callVars,
             call.op = "insert_batch"
      PROVE  Adds
  <2>1. /\ IsInjective(call.ids)
        /\ ToSet(call.ids) \cap call.before = {}
        /\ LiveHandles = call.before \cup ToSet(call.ids)
    BY <1>1, CallIs DEF Inserting, BatchAdds
  <2>2. CASE BatchInsert
    <3>1. Inserting /\ Inserting'
      BY <1>1, <2>2, InsertBatchKeeps, CallIs
    <3>2. call'.op = "insert_batch" /\ call'.before = call.before /\ call' # None
      <4>1. PICK l, ids, b : call = [op |-> "insert_batch", left |-> l, ids |-> ids,
                                     before |-> b]
        BY <3>1 DEF Inserting
      <4>2. call'.before = call.before
        BY <2>2, <4>1 DEF BatchInsert
      <4>3. call'.op = "insert_batch"
        BY <3>1 DEF Inserting
      <4> QED
        BY <4>2, <4>3 DEF None
    <3>3. /\ IsInjective(call'.ids)
          /\ ToSet(call'.ids) \cap call'.before = {}
          /\ LiveHandles' = call'.before \cup ToSet(call'.ids)
      BY <3>1, <3>2 DEF Inserting, BatchAdds
    <3> QED
      BY <3>2, <3>3
  <2>3. CASE BatchOverflow
    <3>1. call' = None /\ InsertOverflow /\ UNCHANGED vars
      BY <2>3 DEF BatchOverflow, InsertOverflow
    <3>2. LiveHandles' = LiveHandles
      BY <3>1, StillReads
    <3>3. \A i \in Index : Taken(i)
      BY <1>1, <3>1, OverflowIsFull DEF TableView
    <3>4. \A i \in Index : Taken(i)'
      BY <3>1, <3>3 DEF Taken, Slots, vars
    <3> QED
      BY <2>1, <3>1, <3>2, <3>4
  <2>4. CASE BatchInserted
    <3>1. call' = None /\ UNCHANGED vars /\ ~(call.left > 0)
      BY <2>4 DEF BatchInserted, Ends
    <3>2. LiveHandles' = LiveHandles
      BY <3>1, StillReads
    <3> QED
      BY <2>1, <3>1, <3>2
  <2>5. CASE UNCHANGED callVars
    <3>1. UNCHANGED vars /\ call' = call /\ call # None
      BY <1>1, <2>5 DEF callVars, vars, None
    <3>2. LiveHandles' = LiveHandles
      BY <3>1, StillReads
    <3> QED
      BY <2>1, <3>1, <3>2
  <2>6. call # None
    BY <1>1 DEF None
  <2> QED
    BY <1>1, <2>2, <2>3, <2>4, <2>5, <2>6
       DEF CallNext, Single, InsertBatch, AssignBatch, BatchSkip, BatchAssign,
           BatchAssigned, Select, ForEachRow, Turn, Body, LoopEnds, Looping,
           AssignFrom, AssignNext, AssignFromEnds, ForEachDirty, DirtyTurn, DirtyEnds,
           Idle
<1>2. [][Adds]_callVars <=> InsertBatchAdds
  BY DEF InsertBatchAdds
<1>3. TableView /\ TableView' /\ CallInv /\ CallInv' /\ [CallNext]_callVars => Adds
  BY <1>1
<1> HIDE DEF Adds
<1> QED
  BY <1>2, <1>3, CallInvariance, PTL DEF CallSpec

(* assign_batch leaves each row with the last value given for it, and      *)
(* skips stale handles with their values.                                  *)
THEOREM AssignBatchStaysExact == CallSpec => []AssignBatchExact
BY AssignBatchIsExact, CallInvariance, PTL

(* A loop visits no row twice and misses none that matched all along.      *)
THEOREM LoopStaysComplete == CallSpec => []LoopComplete
BY LoopIsComplete, CallInvariance, PTL

(* What a loop hands to its body matches, whatever bodies did before.      *)
THEOREM LoopsYieldMatching == CallSpec => YieldsMatching
<1> DEFINE Holds == Looping /\ call'.op = call.op /\ call'.yielded # call.yielded
                      => Matches(call.required, Last(call'.yielded))
<1>1. TableView /\ CallInv /\ [CallNext]_callVars => Holds
  BY YieldMatches
<1>2. [][Holds]_callVars <=> YieldsMatching
  BY DEF YieldsMatching
<1> HIDE DEF Holds
<1> QED
  BY <1>1, <1>2, CallInvariance, PTL DEF CallSpec

(* assign_from writes its column for exactly the rows that have every      *)
(* input, from the inputs they had when it was called.                     *)
THEOREM AssignFromStaysExact == CallSpec => []AssignFromExact
BY AssignFromIsExact, CallInvariance, PTL

(* for_each_dirty with a callback that cleans leaves no dirty row.         *)
THEOREM DirtyAlwaysVisited == CallSpec => []DirtyVisited
BY DirtyIsVisited, CallInvariance, PTL

-----------------------------------------------------------------------------
(* Folds.                                                                  *)

(* What a loop over 0 .. n reaches from 0, step by step.                   *)
LEMMA Upwards ==
  ASSUME NEW n \in Nat, NEW G, 0 \in G, \A i \in 1 .. n : i - 1 \in G => i \in G
  PROVE  \A i \in 0 .. n : i \in G
<1> DEFINE bad == {i \in 0 .. n : i \notin G}
<1>1. SUFFICES ASSUME bad # {} PROVE FALSE
  OBVIOUS
<1>2. bad \subseteq Nat
  OBVIOUS
<1>3. PICK m \in bad : \A k \in bad : m <= k
  <2> HIDE DEF bad
  <2> QED
    BY <1>1, <1>2, LeastNatural
<1>4. m # 0
  BY <1>3
<1>5. m \in 1 .. n /\ m - 1 \in 0 .. n /\ ~(m <= m - 1)
  BY <1>3, <1>4
<1>6. m - 1 \in G
  BY <1>3, <1>5
<1> QED
  BY <1>3, <1>5, <1>6

(* A finite set without one of its members, and the sets in it.            *)
LEMMA OneLess ==
  ASSUME NEW S, IsFiniteSet(S), NEW s \in SUBSET S
  PROVE  /\ IsFiniteSet(s) /\ Cardinality(s) \in 0 .. Cardinality(S)
         /\ Cardinality(S) \in Nat
         /\ s = {} <=> Cardinality(s) = 0
         /\ \A x \in s : s \ {x} \in SUBSET S /\ Cardinality(s \ {x}) = Cardinality(s) - 1
<1>1. IsFiniteSet(s) /\ Cardinality(s) <= Cardinality(S) /\ Cardinality(S) \in Nat
      /\ Cardinality(s) \in Nat
  BY FS_Subset, FS_CardinalityType
<1>2. s = {} <=> Cardinality(s) = 0
  BY <1>1, FS_EmptySet
<1>3. \A x \in s : Cardinality(s \ {x}) = Cardinality(s) - 1
  BY <1>1, FS_RemoveElement
<1> QED
  BY <1>1, <1>2, <1>3

(* What a recursion over the sets in S computes: from z, by the step of    *)
(* the member that c takes out.                                            *)
SetResults(S, V, z, c, F) ==
  {it \in [SUBSET S -> V] :
     /\ it[{}] = z
     /\ \A s \in (SUBSET S) \ {{}} : it[s] = F[c[s]][it[s \ {c[s]}]]}

(* It has a result.                                                        *)
LEMMA SetRecursionHasResult ==
  ASSUME NEW S, IsFiniteSet(S), NEW V, NEW z \in V, NEW F, F \in [S -> [V -> V]],
         NEW c, \A s \in (SUBSET S) \ {{}} : c[s] \in s
  PROVE  SetResults(S, V, z, c, F) # {}
<1> DEFINE Sub(m) == {s \in SUBSET S : Cardinality(s) <= m}
           Next1(f, s) == F[c[s]][f[s \ {c[s]}]]
           Rec(f, m) == f[{}] = z /\ \A s \in Sub(m) \ {{}} : f[s] = Next1(f, s)
           Has(m) == \E f \in [Sub(m) -> V] : Rec(f, m)
           G == {m \in Nat : Has(m)}
           n == Cardinality(S)
<1>1. n \in Nat /\ \A s \in SUBSET S : Cardinality(s) \in 0 .. n
      /\ (s = {} <=> Cardinality(s) = 0)
  BY OneLess
<1>2. 0 \in G
  <2> DEFINE f == [s \in Sub(0) |-> z]
  <2>1. \A s \in Sub(0) : s = {}
    BY <1>1
  <2>2. {} \in Sub(0)
    BY <1>1
  <2>3. f \in [Sub(0) -> V] /\ f[{}] = z
    BY <2>2
  <2>4. Rec(f, 0)
    <3> HIDE DEF f, Sub
    <3> QED
      BY <2>1, <2>3
  <2> HIDE DEF f, Rec, Sub
  <2>5. Has(0)
    BY <2>3, <2>4
  <2> QED
    BY <2>5
<1>3. ASSUME NEW m \in 1 .. n, m - 1 \in G
      PROVE  m \in G
  <2>1. m \in Nat /\ m - 1 \in Nat /\ Has(m - 1)
    <3> HIDE DEF Has
    <3> QED
      BY <1>1, <1>3
  <2>2. PICK f \in [Sub(m - 1) -> V] : Rec(f, m - 1)
    <3> HIDE DEF Rec, Sub
    <3> QED
      BY <2>1
  <2> DEFINE g == [s \in Sub(m) |-> IF s \in Sub(m - 1) THEN f[s] ELSE Next1(f, s)]
  <2>3. ASSUME NEW s \in Sub(m), s # {}
        PROVE  /\ s \ {c[s]} \in Sub(m - 1) /\ s \ {c[s]} \in Sub(m)
               /\ c[s] \in S /\ Next1(f, s) \in V
    <3>1. s \in SUBSET S /\ c[s] \in s /\ c[s] \in S /\ Cardinality(s) <= m
      BY <2>3
    <3>2. s \ {c[s]} \in SUBSET S /\ Cardinality(s \ {c[s]}) = Cardinality(s) - 1
          /\ Cardinality(s) \in Nat
      BY <1>1, <3>1, OneLess
    <3>3. s \ {c[s]} \in Sub(m - 1) /\ s \ {c[s]} \in Sub(m)
      BY <2>1, <3>1, <3>2
    <3> HIDE DEF Sub
    <3>4. f[s \ {c[s]}] \in V
      BY <3>3
    <3>5. F[c[s]] \in [V -> V]
      BY <3>1
    <3>6. F[c[s]][f[s \ {c[s]}]] \in V
      BY <3>4, <3>5
    <3> QED
      BY <3>1, <3>3, <3>6
  <2>4. {} \in Sub(m) /\ {} \in Sub(m - 1) /\ \A s \in Sub(m - 1) : s \in Sub(m)
    BY <1>1, <2>1
  <2> HIDE DEF Sub, Next1
  <2>5. g \in [Sub(m) -> V]
    <3>1. \A s \in Sub(m) : s \notin Sub(m - 1) => s # {}
      BY <2>4
    <3> QED
      BY <2>3, <3>1
  <2>6. \A s \in Sub(m - 1) : g[s] = f[s]
    BY <2>4
  <2>7. ASSUME NEW s \in Sub(m), s # {}
        PROVE  g[s] = Next1(g, s)
    <3>1. g[s \ {c[s]}] = f[s \ {c[s]}]
      BY <2>3, <2>6, <2>7
    <3> HIDE DEF g
    <3>2. Next1(g, s) = Next1(f, s)
      BY <3>1 DEF Next1
    <3>3. s \in Sub(m - 1) => f[s] = Next1(f, s)
      BY <2>2, <2>7
    <3>4. g[s] = IF s \in Sub(m - 1) THEN f[s] ELSE Next1(f, s)
      BY DEF g
    <3> QED
      BY <3>2, <3>3, <3>4
  <2>8. Rec(g, m)
    <3>1. g[{}] = z
      BY <2>2, <2>4, <2>6
    <3> HIDE DEF g
    <3> QED
      BY <2>7, <3>1
  <2> HIDE DEF g, Rec
  <2>9. Has(m)
    BY <2>5, <2>8
  <2> HIDE DEF Has
  <2> QED
    BY <2>1, <2>9
<1>4. n \in G
  <2> HIDE DEF G, n
  <2>1. \A i \in 0 .. n : i \in G
    BY <1>1, <1>2, <1>3, Upwards
  <2> QED
    BY <1>1, <2>1
<1>5. Sub(n) = SUBSET S
  BY <1>1
<1>6. PICK f \in [Sub(n) -> V] : Rec(f, n)
  <2>1. Has(n)
    <3> HIDE DEF Has, n
    <3> QED
      BY <1>4
  <2> HIDE DEF Rec, Sub, n
  <2> QED
    BY <2>1
<1> HIDE DEF n, Sub
<1>7. f \in SetResults(S, V, z, c, F)
  BY <1>5, <1>6 DEF SetResults
<1> QED
  BY <1>7

-----------------------------------------------------------------------------
(* The values of column V summed over a set of rows.                       *)
Total(V, S) == MapThenSumSet(LAMBDA r : get(m_columns[V], r), S)

(* The same on every part of the set, one row taken out at a time.         *)
PartSums(V, S) ==
  CHOOSE iter : iter = [s \in SUBSET S |->
    IF s = {} THEN 0
    ELSE get(m_columns[V], CHOOSE x \in s : TRUE) + iter[s \ {CHOOSE x \in s : TRUE}]]

(* The rows of a set have a value in the column.                           *)
HaveValues(V, S) == IsFiniteSet(S) /\ \A r \in S : get(m_columns[V], r) \in Int

(* They are there, part by part.                                           *)
LEMMA PartSumsAre ==
  ASSUME NEW V, NEW S, HaveValues(V, S)
  PROVE  /\ Total(V, S) = PartSums(V, S)[S]
         /\ PartSums(V, S)[{}] = 0
         /\ \A s \in SUBSET S : s # {} =>
              PartSums(V, S)[s] = get(m_columns[V], CHOOSE x \in s : TRUE)
                                    + PartSums(V, S)[s \ {CHOOSE x \in s : TRUE}]
         /\ \A s \in SUBSET S : PartSums(V, S)[s] \in Int
<1> DEFINE X(r) == get(m_columns[V], r)
           First(s) == CHOOSE x \in s : TRUE
           Rec(f) == f = [s \in SUBSET S |-> IF s = {} THEN 0
                                             ELSE X(First(s)) + f[s \ {First(s)}]]
           F == [r \in S |-> [t \in Int |-> X(r) + t]]
           c == [s \in SUBSET S |-> First(s)]
           it == PartSums(V, S)
<1>1. IsFiniteSet(S) /\ \A r \in S : X(r) \in Int
  BY DEF HaveValues
<1>2. \A s \in SUBSET S : s # {} => First(s) \in s /\ First(s) \in S
  OBVIOUS
<1> HIDE DEF X, First
<1>3. PICK f \in [SUBSET S -> Int] :
        /\ f[{}] = 0
        /\ \A s \in (SUBSET S) \ {{}} : f[s] = F[c[s]][f[s \ {c[s]}]]
  <2>1. F \in [S -> [Int -> Int]] /\ 0 \in Int
    BY <1>1
  <2>2. ASSUME NEW s \in (SUBSET S) \ {{}}
        PROVE  c[s] \in s
    <3>1. First(s) \in s
      <4>1. s \in SUBSET S /\ s # {}
        OBVIOUS
      <4> QED
        BY ONLY <1>2, <4>1
    <3>2. c[s] = First(s)
      OBVIOUS
    <3> HIDE DEF c
    <3> QED
      BY <3>1, <3>2
  <2> HIDE DEF F, c
  <2>3. SetResults(S, Int, 0, c, F) # {}
    BY <1>1, <2>1, <2>2, SetRecursionHasResult
  <2> QED
    BY <2>3 DEF SetResults
<1>4. ASSUME NEW s \in SUBSET S, s # {}
      PROVE  f[s] = X(First(s)) + f[s \ {First(s)}]
  <2>1. c[s] = First(s) /\ First(s) \in S /\ s \in (SUBSET S) \ {{}}
    <3>1. c[s] = First(s)
      OBVIOUS
    <3>2. First(s) \in S
      BY ONLY <1>2, <1>4
    <3> HIDE DEF c, F
    <3> QED
      BY <1>4, <3>1, <3>2
  <2>2. f[s \ {First(s)}] \in Int
    <3>1. s \ {First(s)} \in SUBSET S
      OBVIOUS
    <3> HIDE DEF F, c
    <3> QED
      BY <1>3, <3>1
  <2>3. f[s] = F[First(s)][f[s \ {First(s)}]]
    <3> HIDE DEF F, c
    <3> QED
      BY <1>3, <2>1
  <2> QED
    BY <2>1, <2>2, <2>3
<1>5. Rec(f)
  <2> DEFINE Step(s) == IF s = {} THEN 0 ELSE X(First(s)) + f[s \ {First(s)}]
  <2> HIDE DEF F, c
  <2>1. \A s \in SUBSET S : f[s] = Step(s)
    BY <1>3, <1>4
  <2> HIDE DEF Step
  <2>2. f = [s \in SUBSET S |-> Step(s)]
    BY <1>3, <2>1
  <2> QED
    BY <2>2 DEF Step
<1>6. Rec(CHOOSE g : Rec(g))
  <2>1. \E g : Rec(g)
    <3> HIDE DEF Rec
    <3> QED
      BY <1>5
  <2> HIDE DEF Rec
  <2> QED
    BY <2>1
<1>7. it = CHOOSE g : Rec(g)
  BY DEF PartSums, X, First
<1>8. Rec(it)
  <2> HIDE DEF Rec, it
  <2> QED
    BY <1>6, <1>7
<1>9. Total(V, S) = it[S]
  BY DEF Total, MapThenSumSet, MapThenFoldSet, PartSums
<1> HIDE DEF it
<1>10. /\ it[{}] = 0
       /\ \A s \in SUBSET S : s # {} => it[s] = X(First(s)) + it[s \ {First(s)}]
  <2>1. \A s \in SUBSET S : it[s] = IF s = {} THEN 0 ELSE X(First(s)) + it[s \ {First(s)}]
    BY <1>8
  <2>2. {} \in SUBSET S
    OBVIOUS
  <2> QED
    BY <2>1, <2>2
<1> DEFINE n == Cardinality(S)
           G == {m \in 0 .. n : \A s \in SUBSET S : Cardinality(s) = m => it[s] \in Int}
<1>11. n \in Nat /\ \A s \in SUBSET S : Cardinality(s) \in 0 .. n
       /\ (s = {} <=> Cardinality(s) = 0)
  BY <1>1, OneLess
<1> HIDE DEF n
<1>12. 0 \in G
  <2>1. it[{}] \in Int
    BY <1>10
  <2>2. \A s \in SUBSET S : Cardinality(s) = 0 => it[s] \in Int
    BY <1>11, <2>1
  <2> QED
    BY <1>11, <2>2
<1>13. ASSUME NEW m \in 1 .. n, m - 1 \in G
       PROVE  m \in G
  <2>1. ASSUME NEW s \in SUBSET S, Cardinality(s) = m
        PROVE  it[s] \in Int
    <3>1. s # {} /\ First(s) \in s /\ First(s) \in S
      BY <1>2, <1>11, <2>1
    <3>2. s \ {First(s)} \in SUBSET S /\ Cardinality(s \ {First(s)}) = m - 1
      BY <1>1, <2>1, <3>1, OneLess
    <3>3. it[s \ {First(s)}] \in Int
      BY <1>13, <3>2
    <3>4. X(First(s)) \in Int
      BY <1>1, <3>1
    <3> QED
      BY <1>10, <3>1, <3>3, <3>4
  <2> QED
    BY <1>11, <2>1
<1>14. \A m \in 0 .. n : m \in G
  <2> HIDE DEF G
  <2> QED
    BY <1>11, <1>12, <1>13, Upwards
<1>15. \A s \in SUBSET S : it[s] \in Int
  BY <1>11, <1>14
<1> QED
  BY <1>9, <1>10, <1>15 DEF it, X, First

(* Whichever row is taken out first.                                       *)
LEMMA AnyFirst ==
  ASSUME NEW V, NEW S, HaveValues(V, S)
  PROVE  \A s \in SUBSET S : \A x \in s :
           PartSums(V, S)[s] = get(m_columns[V], x) + PartSums(V, S)[s \ {x}]
<1> DEFINE X(r) == get(m_columns[V], r)
           First(s) == CHOOSE x \in s : TRUE
           it == PartSums(V, S)
           n == Cardinality(S)
           G == {m \in 0 .. n : \A s \in SUBSET S : Cardinality(s) = m =>
                                  \A x \in s : it[s] = X(x) + it[s \ {x}]}
<1>1. IsFiniteSet(S) /\ \A r \in S : X(r) \in Int
  BY DEF HaveValues
<1>2. \A s \in SUBSET S : s # {} => First(s) \in s /\ First(s) \in S
  OBVIOUS
<1>3. /\ \A s \in SUBSET S : s # {} => it[s] = X(First(s)) + it[s \ {First(s)}]
      /\ \A s \in SUBSET S : it[s] \in Int
  BY PartSumsAre
<1> HIDE DEF X, First, it
<1>4. n \in Nat /\ \A s \in SUBSET S : Cardinality(s) \in 0 .. n
      /\ (s = {} <=> Cardinality(s) = 0)
      /\ \A x \in s : s \ {x} \in SUBSET S /\ Cardinality(s \ {x}) = Cardinality(s) - 1
  BY <1>1, OneLess
<1> HIDE DEF n
<1>5. 0 \in G
  BY <1>4
<1>6. ASSUME NEW m \in 1 .. n, m - 1 \in G
      PROVE  m \in G
  <2>1. ASSUME NEW s \in SUBSET S, Cardinality(s) = m, NEW x \in s
        PROVE  it[s] = X(x) + it[s \ {x}]
    <3> DEFINE c == First(s)
    <3>1. c \in s /\ it[s] = X(c) + it[s \ {c}] /\ X(c) \in Int /\ X(x) \in Int
      BY <1>1, <1>2, <1>3, <2>1
    <3> HIDE DEF c
    <3>2. CASE c = x
      BY <3>1, <3>2
    <3>3. CASE c # x
      <4>1. /\ s \ {c} \in SUBSET S /\ Cardinality(s \ {c}) = m - 1
            /\ s \ {x} \in SUBSET S /\ Cardinality(s \ {x}) = m - 1
            /\ x \in s \ {c} /\ c \in s \ {x}
        BY <1>4, <2>1, <3>1, <3>3
      <4>2. it[s \ {c}] = X(x) + it[(s \ {c}) \ {x}]
        BY <1>6, <4>1
      <4>3. it[s \ {x}] = X(c) + it[(s \ {x}) \ {c}]
        BY <1>6, <4>1
      <4>4. (s \ {c}) \ {x} = (s \ {x}) \ {c} /\ (s \ {x}) \ {c} \in SUBSET S
        OBVIOUS
      <4> DEFINE rest == it[(s \ {x}) \ {c}]
      <4>5. rest \in Int
        BY <1>3, <4>4
      <4>6. it[s] = X(c) + (X(x) + rest) /\ it[s \ {x}] = X(c) + rest
        BY <3>1, <4>2, <4>3, <4>4
      <4> HIDE DEF rest
      <4> QED
        BY <3>1, <4>5, <4>6
    <3> QED
      BY <3>2, <3>3
  <2> QED
    BY <1>4, <2>1
<1>7. \A m \in 0 .. n : m \in G
  <2> HIDE DEF G
  <2> QED
    BY <1>4, <1>5, <1>6, Upwards
<1>8. \A s \in SUBSET S : \A x \in s : it[s] = X(x) + it[s \ {x}]
  BY <1>4, <1>7
<1> QED
  BY <1>8 DEF it, X

(* Whatever larger set the parts are of.                                   *)
LEMMA AnyWhole ==
  ASSUME NEW V, NEW S, HaveValues(V, S), NEW T \in SUBSET S
  PROVE  HaveValues(V, T) /\ \A s \in SUBSET T : PartSums(V, T)[s] = PartSums(V, S)[s]
<1> DEFINE X(r) == get(m_columns[V], r)
           it == PartSums(V, S)
           jt == PartSums(V, T)
           n == Cardinality(T)
           G == {m \in 0 .. n : \A s \in SUBSET T : Cardinality(s) = m => it[s] = jt[s]}
<1>1. HaveValues(V, T) /\ IsFiniteSet(T)
  BY FS_Subset DEF HaveValues
<1>2. it[{}] = 0 /\ \A s \in SUBSET S : \A x \in s : it[s] = X(x) + it[s \ {x}]
  BY AnyFirst, PartSumsAre
<1>3. jt[{}] = 0 /\ \A s \in SUBSET T : \A x \in s : jt[s] = X(x) + jt[s \ {x}]
  BY <1>1, AnyFirst, PartSumsAre
<1> HIDE DEF X, it, jt
<1>4. n \in Nat /\ \A s \in SUBSET T : Cardinality(s) \in 0 .. n
      /\ (s = {} <=> Cardinality(s) = 0)
      /\ \A x \in s : s \ {x} \in SUBSET T /\ Cardinality(s \ {x}) = Cardinality(s) - 1
  BY <1>1, OneLess
<1> HIDE DEF n
<1>5. 0 \in G
  BY <1>2, <1>3, <1>4
<1>6. ASSUME NEW m \in 1 .. n, m - 1 \in G
      PROVE  m \in G
  <2>1. ASSUME NEW s \in SUBSET T, Cardinality(s) = m
        PROVE  it[s] = jt[s]
    <3>1. PICK x : x \in s
      BY <1>4, <2>1
    <3>2. s \in SUBSET S /\ s \ {x} \in SUBSET T /\ Cardinality(s \ {x}) = m - 1
      BY <1>4, <2>1, <3>1
    <3>3. it[s \ {x}] = jt[s \ {x}]
      BY <1>6, <3>2
    <3> QED
      BY <1>2, <1>3, <3>1, <3>2, <3>3
  <2> QED
    BY <1>4, <2>1
<1>7. \A m \in 0 .. n : m \in G
  <2> HIDE DEF G
  <2> QED
    BY <1>4, <1>5, <1>6, Upwards
<1>8. \A s \in SUBSET T : it[s] = jt[s]
  BY <1>4, <1>7
<1> QED
  BY <1>1, <1>8 DEF it, jt

(* A total is that of the set without a row, and the row.                  *)
LEMMA TotalTakes ==
  ASSUME NEW V, NEW S, HaveValues(V, S)
  PROVE  /\ Total(V, S) \in Int
         /\ S = {} => Total(V, S) = 0
         /\ \A x \in S : Total(V, S) = get(m_columns[V], x) + Total(V, S \ {x})
<1>1. S \in SUBSET S
  OBVIOUS
<1>2. Total(V, S) = PartSums(V, S)[S] /\ PartSums(V, S)[S] \in Int /\ PartSums(V, S)[{}] = 0
  BY <1>1, PartSumsAre
<1>3. ASSUME NEW x \in S
      PROVE  Total(V, S) = get(m_columns[V], x) + Total(V, S \ {x})
  <2> DEFINE T == S \ {x}
  <2>1. T \in SUBSET S /\ T \in SUBSET T
    OBVIOUS
  <2>2. PartSums(V, S)[S] = get(m_columns[V], x) + PartSums(V, S)[T]
    BY <1>1, AnyFirst
  <2> HIDE DEF T
  <2>3. HaveValues(V, T) /\ PartSums(V, T)[T] = PartSums(V, S)[T]
    BY <2>1, AnyWhole
  <2>4. Total(V, T) = PartSums(V, T)[T]
    BY <2>3, PartSumsAre
  <2> QED
    BY <1>2, <2>2, <2>3, <2>4 DEF T
<1> QED
  BY <1>2, <1>3

-----------------------------------------------------------------------------
(* Folding a vector, from left to right.                                   *)

(* The greatest of the first so many places.                               *)
LEMMA LastPlace ==
  ASSUME NEW n \in Nat, NEW s \in (SUBSET (1 .. n)) \ {{}}
  PROVE  Max(s) \in s /\ \A i \in 1 .. n : s = 1 .. i => Max(s) = i /\ s \ {Max(s)} = 1 .. i - 1
<1>1. IsFiniteSet(s) /\ s \subseteq Int /\ s # {}
  <2>1. IsFiniteSet(1 .. n) /\ s \in SUBSET (1 .. n)
    BY FS_Interval
  <2>2. IsFiniteSet(s)
    BY <2>1, FS_Subset
  <2>3. s \subseteq 1 .. n /\ s # {}
    OBVIOUS
  <2> QED
    BY <2>2, <2>3
<1>2. Max(s) \in s /\ \A k \in s : Max(s) >= k
  BY <1>1, MaxIsGreatest
<1>3. ASSUME NEW i \in 1 .. n, s = 1 .. i
      PROVE  Max(s) = i /\ s \ {Max(s)} = 1 .. i - 1
  <2>1. i \in s /\ Max(s) \in 1 .. i /\ Max(s) >= i
    BY <1>2, <1>3
  <2>2. Max(s) = i
    BY <2>1
  <2> QED
    BY <1>3, <2>2
<1> QED
  BY <1>2, <1>3

(* What a fold makes of the sets of places: a place is taken out, the last *)
(* of the set, and its step applied to what the rest gives.                *)
FoldResults(n, V, z, F) ==
  {it \in [SUBSET (1 .. n) -> V] :
     /\ it[{}] = z
     /\ \A s \in (SUBSET (1 .. n)) \ {{}} :
          Max(s) \in 1 .. n /\ it[s] = F[Max(s)][it[s \ {Max(s)}]]}

(* It has a result.                                                        *)
LEMMA FoldHasResult ==
  ASSUME NEW n \in Nat, NEW V, NEW z \in V, NEW F, F \in [1 .. n -> [V -> V]]
  PROVE  FoldResults(n, V, z, F) # {}
<1> DEFINE c == [s \in SUBSET (1 .. n) |-> Max(s)]
<1>1. ASSUME NEW s \in (SUBSET (1 .. n)) \ {{}}
      PROVE  c[s] = Max(s) /\ Max(s) \in s
  BY LastPlace
<1>2. IsFiniteSet(1 .. n)
  BY FS_Interval
<1> HIDE DEF c
<1>3. SetResults(1 .. n, V, z, c, F) # {}
  BY <1>1, <1>2, SetRecursionHasResult
<1>4. PICK it \in SetResults(1 .. n, V, z, c, F) : TRUE
  BY <1>3
<1>5. /\ it \in [SUBSET (1 .. n) -> V] /\ it[{}] = z
      /\ \A s \in (SUBSET (1 .. n)) \ {{}} : it[s] = F[c[s]][it[s \ {c[s]}]]
  BY <1>4 DEF SetResults
<1>6. it \in FoldResults(n, V, z, F)
  <2>1. \A s \in (SUBSET (1 .. n)) \ {{}} : s \subseteq 1 .. n
    OBVIOUS
  <2> QED
    BY <1>1, <1>5, <2>1 DEF FoldResults
<1> QED
  BY <1>6

-----------------------------------------------------------------------------
(* The four folds, turn by turn.                                           *)

(* What reduce_column makes of a set of places.                            *)
Reducing(C) ==
  CHOOSE iter : iter = [s \in SUBSET DOMAIN column(C) |->
    IF s = {} THEN 0
    ELSE iter[s \ {Max(s)}] + column(C)[Max(s)]]

(* It adds one value at each turn.                                         *)
LEMMA ReduceTurns ==
  ASSUME NEW C, column(C) \in Seq(Int)
  PROVE  /\ reduce_column(C) = Reducing(C)[1 .. Len(column(C))]
         /\ Reducing(C)[1 .. 0] = 0
         /\ \A i \in 1 .. Len(column(C)) :
              Reducing(C)[1 .. i] =
                Reducing(C)[1 .. i - 1] + column(C)[i]
<1> DEFINE seq == column(C)
           n == Len(seq)
           it == Reducing(C)
           After(x, i) == x + seq[i]
           Rec(f) == f = [s \in SUBSET (1 .. n) |->
                            IF s = {} THEN 0 ELSE After(f[s \ {Max(s)}], Max(s))]
           F == [i \in 1 .. n |-> [x \in Int |-> After(x, i)]]
<1>1. n \in Nat /\ DOMAIN seq = 1 .. n /\ \A i \in 1 .. n : seq[i] \in Int
  BY LenProperties
<1>2. reduce_column(C) = it[1 .. n] /\ it = CHOOSE g : Rec(g)
  BY <1>1 DEF reduce_column, FoldLeft, MapThenFoldSet, Reducing
<1>3. F \in [1 .. n -> [Int -> Int]] /\ 0 \in Int
  BY <1>1
<1>4. \A i \in 1 .. n : \A x \in Int : F[i][x] = After(x, i)
  OBVIOUS
<1> HIDE DEF seq, n, it, After, F
<1>5. PICK f \in FoldResults(n, Int, 0, F) : TRUE
  BY <1>1, <1>3, FoldHasResult
<1>6. Rec(f)
  <2>1. /\ f \in [SUBSET (1 .. n) -> Int] /\ f[{}] = 0
        /\ \A s \in (SUBSET (1 .. n)) \ {{}} :
             Max(s) \in 1 .. n /\ f[s] = F[Max(s)][f[s \ {Max(s)}]]
    BY <1>5 DEF FoldResults
  <2>2. ASSUME NEW s \in SUBSET (1 .. n), s # {}
        PROVE  f[s] = After(f[s \ {Max(s)}], Max(s))
    <3>1. f[s \ {Max(s)}] \in Int
      BY <2>1
    <3>2. Max(s) \in 1 .. n /\ f[s] = F[Max(s)][f[s \ {Max(s)}]]
      BY <2>1, <2>2
    <3> QED
      BY <1>4, <3>1, <3>2
  <2> DEFINE Step(s) == IF s = {} THEN 0 ELSE After(f[s \ {Max(s)}], Max(s))
  <2>3. \A s \in SUBSET (1 .. n) : f[s] = Step(s)
    BY <2>1, <2>2
  <2> HIDE DEF Step
  <2>4. f = [s \in SUBSET (1 .. n) |-> Step(s)]
    BY <2>1, <2>3
  <2> QED
    BY <2>4 DEF Step
<1>7. Rec(CHOOSE g : Rec(g))
  <2>1. \E g : Rec(g)
    <3> HIDE DEF Rec
    <3> QED
      BY <1>6
  <2> HIDE DEF Rec
  <2> QED
    BY <2>1
<1>8. Rec(it)
  <2> HIDE DEF Rec
  <2> QED
    BY <1>2, <1>7
<1>9. it[1 .. 0] = 0
  <2>1. 1 .. 0 = {} /\ {} \in SUBSET (1 .. n)
    OBVIOUS
  <2> QED
    BY <1>8, <2>1
<1>10. ASSUME NEW i \in 1 .. n
       PROVE  it[1 .. i] = After(it[1 .. i - 1], i)
  <2> DEFINE s == 1 .. i
  <2>1. s \in SUBSET (1 .. n) /\ i \in s
    BY <1>1
  <2>2. Max(s) = i /\ s \ {Max(s)} = 1 .. i - 1
    <3>1. s \in (SUBSET (1 .. n)) \ {{}}
      BY <2>1
    <3> QED
      BY <1>1, <3>1, LastPlace
  <2> HIDE DEF s
  <2>3. it[s] = After(it[s \ {Max(s)}], Max(s))
    BY <1>8, <2>1
  <2> QED
    BY <2>2, <2>3 DEF s
<1> QED
  BY <1>2, <1>9, <1>10 DEF seq, n, it, After

(* What count_column_if makes of a set of places.                          *)
Counting(C, v) ==
  CHOOSE iter : iter = [s \in SUBSET DOMAIN column(C) |->
    IF s = {} THEN 0
    ELSE IF column(C)[Max(s)] = v THEN iter[s \ {Max(s)}] + 1
         ELSE iter[s \ {Max(s)}]]

(* It counts one value at each turn.                                       *)
LEMMA CountTurns ==
  ASSUME NEW C, NEW v, column(C) \in Seq(Int)
  PROVE  /\ count_column_if(C, v) = Counting(C, v)[1 .. Len(column(C))]
         /\ Counting(C, v)[1 .. 0] = 0
         /\ \A i \in 1 .. Len(column(C)) :
              Counting(C, v)[1 .. i] =
                IF column(C)[i] = v THEN Counting(C, v)[1 .. i - 1] + 1
                ELSE Counting(C, v)[1 .. i - 1]
<1> DEFINE seq == column(C)
           n == Len(seq)
           it == Counting(C, v)
           After(x, i) == IF seq[i] = v THEN x + 1 ELSE x
           Rec(f) == f = [s \in SUBSET (1 .. n) |->
                            IF s = {} THEN 0 ELSE After(f[s \ {Max(s)}], Max(s))]
           F == [i \in 1 .. n |-> [x \in Int |-> After(x, i)]]
<1>1. n \in Nat /\ DOMAIN seq = 1 .. n /\ \A i \in 1 .. n : seq[i] \in Int
  BY LenProperties
<1>2. count_column_if(C, v) = it[1 .. n] /\ it = CHOOSE g : Rec(g)
  BY <1>1 DEF count_column_if, FoldLeft, MapThenFoldSet, Counting
<1>3. F \in [1 .. n -> [Int -> Int]] /\ 0 \in Int
  BY <1>1
<1>4. \A i \in 1 .. n : \A x \in Int : F[i][x] = After(x, i)
  OBVIOUS
<1> HIDE DEF seq, n, it, After, F
<1>5. PICK f \in FoldResults(n, Int, 0, F) : TRUE
  BY <1>1, <1>3, FoldHasResult
<1>6. Rec(f)
  <2>1. /\ f \in [SUBSET (1 .. n) -> Int] /\ f[{}] = 0
        /\ \A s \in (SUBSET (1 .. n)) \ {{}} :
             Max(s) \in 1 .. n /\ f[s] = F[Max(s)][f[s \ {Max(s)}]]
    BY <1>5 DEF FoldResults
  <2>2. ASSUME NEW s \in SUBSET (1 .. n), s # {}
        PROVE  f[s] = After(f[s \ {Max(s)}], Max(s))
    <3>1. f[s \ {Max(s)}] \in Int
      BY <2>1
    <3>2. Max(s) \in 1 .. n /\ f[s] = F[Max(s)][f[s \ {Max(s)}]]
      BY <2>1, <2>2
    <3> QED
      BY <1>4, <3>1, <3>2
  <2> DEFINE Step(s) == IF s = {} THEN 0 ELSE After(f[s \ {Max(s)}], Max(s))
  <2>3. \A s \in SUBSET (1 .. n) : f[s] = Step(s)
    BY <2>1, <2>2
  <2> HIDE DEF Step
  <2>4. f = [s \in SUBSET (1 .. n) |-> Step(s)]
    BY <2>1, <2>3
  <2> QED
    BY <2>4 DEF Step
<1>7. Rec(CHOOSE g : Rec(g))
  <2>1. \E g : Rec(g)
    <3> HIDE DEF Rec
    <3> QED
      BY <1>6
  <2> HIDE DEF Rec
  <2> QED
    BY <2>1
<1>8. Rec(it)
  <2> HIDE DEF Rec
  <2> QED
    BY <1>2, <1>7
<1>9. it[1 .. 0] = 0
  <2>1. 1 .. 0 = {} /\ {} \in SUBSET (1 .. n)
    OBVIOUS
  <2> QED
    BY <1>8, <2>1
<1>10. ASSUME NEW i \in 1 .. n
       PROVE  it[1 .. i] = After(it[1 .. i - 1], i)
  <2> DEFINE s == 1 .. i
  <2>1. s \in SUBSET (1 .. n) /\ i \in s
    BY <1>1
  <2>2. Max(s) = i /\ s \ {Max(s)} = 1 .. i - 1
    <3>1. s \in (SUBSET (1 .. n)) \ {{}}
      BY <2>1
    <3> QED
      BY <1>1, <3>1, LastPlace
  <2> HIDE DEF s
  <2>3. it[s] = After(it[s \ {Max(s)}], Max(s))
    BY <1>8, <2>1
  <2> QED
    BY <2>2, <2>3 DEF s
<1> QED
  BY <1>2, <1>9, <1>10 DEF seq, n, it, After

(* What a row adds to the groups, and to the counts.                       *)
SumTurn(Key, Value, groups, r) ==
  LET k == get(m_columns[Key], r)
  IN  [g \in DOMAIN groups \cup {k} |->
         IF g = k
         THEN (IF k \in DOMAIN groups THEN groups[k] ELSE 0) + get(m_columns[Value], r)
         ELSE groups[g]]

CountTurn(Key, counts, r) ==
  LET k == get(m_columns[Key], r)
  IN  [g \in DOMAIN counts \cup {k} |->
         (IF g \in DOMAIN counts THEN counts[g] ELSE 0) + (IF g = k THEN 1 ELSE 0)]

Groups == UNION {[T -> Int] : T \in SUBSET Int}

(* Maps from keys to numbers they stay.                                    *)
LEMMA GroupsStay ==
  /\ <<>> \in Groups
  /\ \A g \in Groups, Key, Value \in Columns, r \in Index :
       get(m_columns[Key], r) \in Int =>
         /\ CountTurn(Key, g, r) \in Groups
         /\ get(m_columns[Value], r) \in Int => SumTurn(Key, Value, g, r) \in Groups
<1>1. <<>> \in Groups
  <2>1. <<>> \in [{} -> Int]
    OBVIOUS
  <2> QED
    BY <2>1 DEF Groups
<1>2. ASSUME NEW g \in Groups, NEW Key \in Columns, NEW Value \in Columns, NEW r \in Index,
             get(m_columns[Key], r) \in Int
      PROVE  /\ CountTurn(Key, g, r) \in Groups
             /\ get(m_columns[Value], r) \in Int => SumTurn(Key, Value, g, r) \in Groups
  <2> DEFINE k == get(m_columns[Key], r)
             v == get(m_columns[Value], r)
             T == DOMAIN g \cup {k}
  <2>1. DOMAIN g \in SUBSET Int /\ g \in [DOMAIN g -> Int]
    BY DEF Groups
  <2>2. T \in SUBSET Int
    BY <1>2, <2>1
  <2>3. CountTurn(Key, g, r) = [j \in T |-> (IF j \in DOMAIN g THEN g[j] ELSE 0)
                                              + (IF j = k THEN 1 ELSE 0)]
    BY DEF CountTurn
  <2>4. SumTurn(Key, Value, g, r) =
          [j \in T |-> IF j = k THEN (IF k \in DOMAIN g THEN g[k] ELSE 0) + v ELSE g[j]]
    BY DEF SumTurn
  <2> HIDE DEF k, v
  <2>5. CountTurn(Key, g, r) \in [T -> Int]
    BY <2>1, <2>3
  <2>6. v \in Int => SumTurn(Key, Value, g, r) \in [T -> Int]
    BY <2>1, <2>4
  <2> HIDE DEF T
  <2> QED
    BY <2>2, <2>5, <2>6 DEF Groups, v
<1> QED
  BY <1>1, <1>2

(* The rows of a join, as its folds read them.                             *)
Readable(rows, Key, Value) ==
  /\ Key \in Columns /\ Value \in Columns /\ rows \in Seq(Index)
  /\ \A i \in 1 .. Len(rows) : get(m_columns[Key], rows[i]) \in Int
                              /\ get(m_columns[Value], rows[i]) \in Int

(* What group_sum makes of a set of places.                                *)
Summing(Key, Value) ==
  CHOOSE iter : iter = [s \in SUBSET DOMAIN Joined({Key, Value}) |->
    IF s = {} THEN <<>>
    ELSE SumTurn(Key, Value, iter[s \ {Max(s)}], Joined({Key, Value})[Max(s)])]

(* It adds one row to the groups at each turn.                             *)
LEMMA SumTurns ==
  ASSUME NEW Key, NEW Value, Readable(Joined({Key, Value}), Key, Value)
  PROVE  /\ group_sum(Key, Value) = Summing(Key, Value)[1 .. Len(Joined({Key, Value}))]
         /\ Summing(Key, Value)[1 .. 0] = <<>>
         /\ \A i \in 1 .. Len(Joined({Key, Value})) :
              Summing(Key, Value)[1 .. i] =
                SumTurn(Key, Value, Summing(Key, Value)[1 .. i - 1], Joined({Key, Value})[i])
<1> DEFINE seq == Joined({Key, Value})
           n == Len(seq)
           it == Summing(Key, Value)
           After(x, i) == SumTurn(Key, Value, x, seq[i])
           Rec(f) == f = [s \in SUBSET (1 .. n) |->
                            IF s = {} THEN <<>> ELSE After(f[s \ {Max(s)}], Max(s))]
           F == [i \in 1 .. n |-> [x \in Groups |-> After(x, i)]]
<1>1. /\ n \in Nat /\ DOMAIN seq = 1 .. n
      /\ \A i \in 1 .. n : /\ seq[i] \in Index
                             /\ get(m_columns[Key], seq[i]) \in Int
                             /\ get(m_columns[Value], seq[i]) \in Int
      /\ Key \in Columns /\ Value \in Columns
  BY LenProperties DEF Readable
<1>2. group_sum(Key, Value) = it[1 .. n] /\ it = CHOOSE g : Rec(g)
  BY <1>1 DEF group_sum, group_reduce, SumTurn, FoldLeft, MapThenFoldSet, Summing
<1>3. F \in [1 .. n -> [Groups -> Groups]] /\ <<>> \in Groups
  BY <1>1, GroupsStay
<1>4. \A i \in 1 .. n : \A x \in Groups : F[i][x] = After(x, i)
  OBVIOUS
<1> HIDE DEF seq, n, it, After, F
<1>5. PICK f \in FoldResults(n, Groups, <<>>, F) : TRUE
  BY <1>1, <1>3, FoldHasResult
<1>6. Rec(f)
  <2>1. /\ f \in [SUBSET (1 .. n) -> Groups] /\ f[{}] = <<>>
        /\ \A s \in (SUBSET (1 .. n)) \ {{}} :
             Max(s) \in 1 .. n /\ f[s] = F[Max(s)][f[s \ {Max(s)}]]
    BY <1>5 DEF FoldResults
  <2>2. ASSUME NEW s \in SUBSET (1 .. n), s # {}
        PROVE  f[s] = After(f[s \ {Max(s)}], Max(s))
    <3>1. f[s \ {Max(s)}] \in Groups
      BY <2>1
    <3>2. Max(s) \in 1 .. n /\ f[s] = F[Max(s)][f[s \ {Max(s)}]]
      BY <2>1, <2>2
    <3> QED
      BY <1>4, <3>1, <3>2
  <2> DEFINE Step(s) == IF s = {} THEN <<>> ELSE After(f[s \ {Max(s)}], Max(s))
  <2>3. \A s \in SUBSET (1 .. n) : f[s] = Step(s)
    BY <2>1, <2>2
  <2> HIDE DEF Step
  <2>4. f = [s \in SUBSET (1 .. n) |-> Step(s)]
    BY <2>1, <2>3
  <2> QED
    BY <2>4 DEF Step
<1>7. Rec(CHOOSE g : Rec(g))
  <2>1. \E g : Rec(g)
    <3> HIDE DEF Rec
    <3> QED
      BY <1>6
  <2> HIDE DEF Rec
  <2> QED
    BY <2>1
<1>8. Rec(it)
  <2> HIDE DEF Rec
  <2> QED
    BY <1>2, <1>7
<1>9. it[1 .. 0] = <<>>
  <2>1. 1 .. 0 = {} /\ {} \in SUBSET (1 .. n)
    OBVIOUS
  <2> QED
    BY <1>8, <2>1
<1>10. ASSUME NEW i \in 1 .. n
       PROVE  it[1 .. i] = After(it[1 .. i - 1], i)
  <2> DEFINE s == 1 .. i
  <2>1. s \in SUBSET (1 .. n) /\ i \in s
    BY <1>1
  <2>2. Max(s) = i /\ s \ {Max(s)} = 1 .. i - 1
    <3>1. s \in (SUBSET (1 .. n)) \ {{}}
      BY <2>1
    <3> QED
      BY <1>1, <3>1, LastPlace
  <2> HIDE DEF s
  <2>3. it[s] = After(it[s \ {Max(s)}], Max(s))
    BY <1>8, <2>1
  <2> QED
    BY <2>2, <2>3 DEF s
<1> QED
  BY <1>2, <1>9, <1>10 DEF seq, n, it, After

(* What group_count makes of a set of places.                              *)
GroupCounting(Key) ==
  CHOOSE iter : iter = [s \in SUBSET DOMAIN Joined({Key}) |->
    IF s = {} THEN <<>>
    ELSE CountTurn(Key, iter[s \ {Max(s)}], Joined({Key})[Max(s)])]

(* It counts one row at each turn.                                         *)
LEMMA GroupCountTurns ==
  ASSUME NEW Key, Readable(Joined({Key}), Key, Key)
  PROVE  /\ group_count(Key) = GroupCounting(Key)[1 .. Len(Joined({Key}))]
         /\ GroupCounting(Key)[1 .. 0] = <<>>
         /\ \A i \in 1 .. Len(Joined({Key})) :
              GroupCounting(Key)[1 .. i] =
                CountTurn(Key, GroupCounting(Key)[1 .. i - 1], Joined({Key})[i])
<1> DEFINE seq == Joined({Key})
           n == Len(seq)
           it == GroupCounting(Key)
           After(x, i) == CountTurn(Key, x, seq[i])
           Rec(f) == f = [s \in SUBSET (1 .. n) |->
                            IF s = {} THEN <<>> ELSE After(f[s \ {Max(s)}], Max(s))]
           F == [i \in 1 .. n |-> [x \in Groups |-> After(x, i)]]
<1>1. /\ n \in Nat /\ DOMAIN seq = 1 .. n
      /\ \A i \in 1 .. n : /\ seq[i] \in Index
                             /\ get(m_columns[Key], seq[i]) \in Int
                             /\ get(m_columns[Key], seq[i]) \in Int
      /\ Key \in Columns /\ Key \in Columns
  BY LenProperties DEF Readable
<1>2. group_count(Key) = it[1 .. n] /\ it = CHOOSE g : Rec(g)
  BY <1>1 DEF group_count, CountTurn, FoldLeft, MapThenFoldSet, GroupCounting
<1>3. F \in [1 .. n -> [Groups -> Groups]] /\ <<>> \in Groups
  BY <1>1, GroupsStay
<1>4. \A i \in 1 .. n : \A x \in Groups : F[i][x] = After(x, i)
  OBVIOUS
<1> HIDE DEF seq, n, it, After, F
<1>5. PICK f \in FoldResults(n, Groups, <<>>, F) : TRUE
  BY <1>1, <1>3, FoldHasResult
<1>6. Rec(f)
  <2>1. /\ f \in [SUBSET (1 .. n) -> Groups] /\ f[{}] = <<>>
        /\ \A s \in (SUBSET (1 .. n)) \ {{}} :
             Max(s) \in 1 .. n /\ f[s] = F[Max(s)][f[s \ {Max(s)}]]
    BY <1>5 DEF FoldResults
  <2>2. ASSUME NEW s \in SUBSET (1 .. n), s # {}
        PROVE  f[s] = After(f[s \ {Max(s)}], Max(s))
    <3>1. f[s \ {Max(s)}] \in Groups
      BY <2>1
    <3>2. Max(s) \in 1 .. n /\ f[s] = F[Max(s)][f[s \ {Max(s)}]]
      BY <2>1, <2>2
    <3> QED
      BY <1>4, <3>1, <3>2
  <2> DEFINE Step(s) == IF s = {} THEN <<>> ELSE After(f[s \ {Max(s)}], Max(s))
  <2>3. \A s \in SUBSET (1 .. n) : f[s] = Step(s)
    BY <2>1, <2>2
  <2> HIDE DEF Step
  <2>4. f = [s \in SUBSET (1 .. n) |-> Step(s)]
    BY <2>1, <2>3
  <2> QED
    BY <2>4 DEF Step
<1>7. Rec(CHOOSE g : Rec(g))
  <2>1. \E g : Rec(g)
    <3> HIDE DEF Rec
    <3> QED
      BY <1>6
  <2> HIDE DEF Rec
  <2> QED
    BY <2>1
<1>8. Rec(it)
  <2> HIDE DEF Rec
  <2> QED
    BY <1>2, <1>7
<1>9. it[1 .. 0] = <<>>
  <2>1. 1 .. 0 = {} /\ {} \in SUBSET (1 .. n)
    OBVIOUS
  <2> QED
    BY <1>8, <2>1
<1>10. ASSUME NEW i \in 1 .. n
       PROVE  it[1 .. i] = After(it[1 .. i - 1], i)
  <2> DEFINE s == 1 .. i
  <2>1. s \in SUBSET (1 .. n) /\ i \in s
    BY <1>1
  <2>2. Max(s) = i /\ s \ {Max(s)} = 1 .. i - 1
    <3>1. s \in (SUBSET (1 .. n)) \ {{}}
      BY <2>1
    <3> QED
      BY <1>1, <3>1, LastPlace
  <2> HIDE DEF s
  <2>3. it[s] = After(it[s \ {Max(s)}], Max(s))
    BY <1>8, <2>1
  <2> QED
    BY <2>2, <2>3 DEF s
<1> QED
  BY <1>2, <1>9, <1>10 DEF seq, n, it, After

-----------------------------------------------------------------------------
(* What the folds come to.                                                 *)

(* The first i rows of a vector.                                           *)
Passed(q, i) == {q[j] : j \in 1 .. i}

(* Each turn passes one row more.                                          *)
LEMMA PassedIs ==
  ASSUME NEW q \in Seq(Index), IsInjective(q)
  PROVE  /\ Passed(q, 0) = {} /\ Passed(q, Len(q)) = ToSet(q)
         /\ \A i \in 0 .. Len(q) : Passed(q, i) \subseteq Index /\ IsFiniteSet(Passed(q, i))
         /\ \A i \in 1 .. Len(q) : /\ Passed(q, i) = Passed(q, i - 1) \cup {q[i]}
                                   /\ q[i] \notin Passed(q, i - 1)
                                   /\ q[i] \in Index
<1>1. Len(q) \in Nat /\ DOMAIN q = 1 .. Len(q) /\ \A i \in 1 .. Len(q) : q[i] \in Index
  BY LenProperties
<1>2. Passed(q, 0) = {} /\ Passed(q, Len(q)) = ToSet(q)
  BY <1>1 DEF Passed, ToSet
<1>3. ASSUME NEW i \in 0 .. Len(q)
      PROVE  Passed(q, i) \subseteq Index /\ IsFiniteSet(Passed(q, i))
  <2>1. Passed(q, i) \in SUBSET Index
    BY <1>1 DEF Passed
  <2>2. IsFiniteSet(Index)
    BY NposAssumption, FS_Interval DEF Index
  <2> QED
    BY <2>1, <2>2, FS_Subset
<1>4. ASSUME NEW i \in 1 .. Len(q)
      PROVE  /\ Passed(q, i) = Passed(q, i - 1) \cup {q[i]}
             /\ q[i] \notin Passed(q, i - 1) /\ q[i] \in Index
  <2>1. 1 .. i = (1 .. i - 1) \cup {i}
    BY <1>1
  <2>2. \A j \in 1 .. i - 1 : j # i /\ j \in DOMAIN q /\ i \in DOMAIN q
    BY <1>1
  <2>3. \A j \in 1 .. i - 1 : q[j] # q[i]
    BY <2>2 DEF IsInjective
  <2> QED
    BY <1>1, <2>1, <2>3 DEF Passed
<1> QED
  BY <1>2, <1>3, <1>4

(* A total grows by the row that is added.                                 *)
LEMMA TotalGrows ==
  ASSUME NEW V, NEW S, NEW x, x \notin S, HaveValues(V, S), get(m_columns[V], x) \in Int
  PROVE  /\ HaveValues(V, S \cup {x})
         /\ Total(V, S \cup {x}) = Total(V, S) + get(m_columns[V], x)
<1> DEFINE T == S \cup {x}
<1>1. HaveValues(V, T)
  BY FS_AddElement DEF HaveValues
<1>2. T \ {x} = S /\ x \in T
  OBVIOUS
<1> HIDE DEF T
<1>3. Total(V, T) = get(m_columns[V], x) + Total(V, S) /\ Total(V, S) \in Int
  BY <1>1, <1>2, TotalTakes
<1> QED
  BY <1>1, <1>3 DEF T

(* The rows of q so far with this key.                                     *)
WithKey(Key, q, i, k) == {r \in Passed(q, i) : get(m_columns[Key], r) = k}

KeysOf(Key, q, i) == {get(m_columns[Key], r) : r \in Passed(q, i)}

(* How they change with a turn.                                            *)
KeyTurn(Key, q, i) ==
  LET key == get(m_columns[Key], q[i])
  IN  /\ KeysOf(Key, q, i) = KeysOf(Key, q, i - 1) \cup {key}
      /\ WithKey(Key, q, i, key) = WithKey(Key, q, i - 1, key) \cup {q[i]}
      /\ q[i] \notin WithKey(Key, q, i - 1, key)
      /\ \A k : k # key => WithKey(Key, q, i, k) = WithKey(Key, q, i - 1, k)

(* From none, turn by turn.                                                *)
LEMMA WithKeyIs ==
  ASSUME NEW Key, NEW q \in Seq(Index), IsInjective(q)
  PROVE  /\ KeysOf(Key, q, 0) = {}
         /\ \A i \in 0 .. Len(q) : \A k :
              /\ IsFiniteSet(WithKey(Key, q, i, k))
              /\ k \notin KeysOf(Key, q, i) => WithKey(Key, q, i, k) = {}
         /\ \A i \in 1 .. Len(q) : KeyTurn(Key, q, i)
<1>1. /\ Passed(q, 0) = {}
      /\ \A i \in 0 .. Len(q) : IsFiniteSet(Passed(q, i))
      /\ \A i \in 1 .. Len(q) : /\ Passed(q, i) = Passed(q, i - 1) \cup {q[i]}
                                /\ q[i] \notin Passed(q, i - 1)
  BY PassedIs
<1>2. ASSUME NEW i \in 0 .. Len(q), NEW k
      PROVE  IsFiniteSet(WithKey(Key, q, i, k))
             /\ (k \notin KeysOf(Key, q, i) => WithKey(Key, q, i, k) = {})
  <2>1. WithKey(Key, q, i, k) \in SUBSET Passed(q, i)
    BY DEF WithKey
  <2>2. IsFiniteSet(WithKey(Key, q, i, k))
    BY <1>1, <2>1, FS_Subset
  <2>3. k \notin KeysOf(Key, q, i) => WithKey(Key, q, i, k) = {}
    BY DEF WithKey, KeysOf
  <2> QED
    BY <2>2, <2>3
<1>3. KeysOf(Key, q, 0) = {}
  BY <1>1 DEF KeysOf
<1>4. ASSUME NEW i \in 1 .. Len(q)
      PROVE  KeyTurn(Key, q, i)
  <2> DEFINE r == q[i]
             key == get(m_columns[Key], r)
             P == Passed(q, i - 1)
  <2>1. Passed(q, i) = P \cup {r} /\ r \notin P
    BY <1>1
  <2> HIDE DEF r, P
  <2>2. KeysOf(Key, q, i) = KeysOf(Key, q, i - 1) \cup {key}
    BY <2>1 DEF KeysOf, P
  <2>3. \A k : WithKey(Key, q, i, k) =
                  WithKey(Key, q, i - 1, k) \cup (IF k = key THEN {r} ELSE {})
    BY <2>1 DEF WithKey, P
  <2>4. r \notin WithKey(Key, q, i - 1, key)
    BY <2>1 DEF WithKey, P
  <2> HIDE DEF key
  <2> QED
    BY <2>2, <2>3, <2>4 DEF key, r, KeyTurn
<1> QED
  BY <1>2, <1>3, <1>4

(* The sum of every group is that of its rows.                             *)
LEMMA SumsAreTotals ==
  ASSUME NEW Key, NEW Value, Readable(Joined({Key, Value}), Key, Value),
         IsInjective(Joined({Key, Value}))
  PROVE  LET q == Joined({Key, Value})
         IN  group_sum(Key, Value) =
               [k \in KeysOf(Key, q, Len(q)) |-> Total(Value, WithKey(Key, q, Len(q), k))]
<1> DEFINE q == Joined({Key, Value})
           n == Len(q)
           it == Summing(Key, Value)
           Sum(i) == [k \in KeysOf(Key, q, i) |-> Total(Value, WithKey(Key, q, i, k))]
           G == {i \in 0 .. n : it[1 .. i] = Sum(i)}
<1>1. /\ group_sum(Key, Value) = it[1 .. n] /\ it[1 .. 0] = <<>>
      /\ \A i \in 1 .. n : it[1 .. i] = SumTurn(Key, Value, it[1 .. i - 1], q[i])
  BY SumTurns
<1>2. /\ q \in Seq(Index) /\ IsInjective(q) /\ n \in Nat
      /\ \A i \in 1 .. n : get(m_columns[Value], q[i]) \in Int
  BY LenProperties DEF Readable
<1> HIDE DEF q, n, it
<1>3. \A i \in 0 .. n : \A k : HaveValues(Value, WithKey(Key, q, i, k))
  <2>1. \A i \in 0 .. n : \A k : IsFiniteSet(WithKey(Key, q, i, k))
    BY <1>2, WithKeyIs DEF n
  <2>2. \A i \in 0 .. n : \A r \in Passed(q, i) : get(m_columns[Value], r) \in Int
    <3>1. \A i \in 0 .. n : \A j \in 1 .. i : j \in 1 .. n
      BY <1>2
    <3> QED
      BY <1>2, <3>1 DEF Passed
  <2> QED
    BY <2>1, <2>2 DEF HaveValues, WithKey
<1>4. 0 \in G
  <2>1. KeysOf(Key, q, 0) = {}
    BY <1>2, WithKeyIs
  <2>2. Sum(0) = <<>>
    BY <2>1
  <2>3. it[1 .. 0] = Sum(0) /\ 0 \in 0 .. n
    <3> HIDE DEF Sum
    <3> QED
      BY <1>1, <1>2, <2>2
  <2> HIDE DEF Sum
  <2> QED
    BY <2>3
<1>5. ASSUME NEW i \in 1 .. n, i - 1 \in G
      PROVE  i \in G
  <2> DEFINE r == q[i]
             key == get(m_columns[Key], r)
             g == it[1 .. i - 1]
             v == get(m_columns[Value], r)
  <2>1. i \in 0 .. n /\ i - 1 \in 0 .. n /\ g = Sum(i - 1) /\ v \in Int
    BY <1>2, <1>5
  <2>2. /\ KeysOf(Key, q, i) = KeysOf(Key, q, i - 1) \cup {key}
        /\ WithKey(Key, q, i, key) = WithKey(Key, q, i - 1, key) \cup {r}
        /\ r \notin WithKey(Key, q, i - 1, key)
        /\ \A k : k # key => WithKey(Key, q, i, k) = WithKey(Key, q, i - 1, k)
    <3>1. i \in 1 .. Len(q)
      BY DEF n
    <3>2. KeyTurn(Key, q, i)
      BY ONLY <1>2, <3>1, WithKeyIs
    <3> QED
      BY <3>2 DEF KeyTurn
  <2>3. it[1 .. i] = [k \in DOMAIN g \cup {key} |->
                        IF k = key THEN (IF key \in DOMAIN g THEN g[key] ELSE 0) + v
                        ELSE g[k]]
    BY <1>1 DEF SumTurn
  <2> HIDE DEF r, key, v
  <2>4. Total(Value, WithKey(Key, q, i, key)) =
          Total(Value, WithKey(Key, q, i - 1, key)) + v
    BY <1>3, <2>1, <2>2, TotalGrows DEF v
  <2>5. DOMAIN g = KeysOf(Key, q, i - 1)
        /\ \A k \in KeysOf(Key, q, i - 1) : g[k] = Total(Value, WithKey(Key, q, i - 1, k))
    <3> HIDE DEF g
    <3> QED
      BY <2>1
  <2>6. key \notin KeysOf(Key, q, i - 1) => Total(Value, WithKey(Key, q, i - 1, key)) = 0
    <3>1. key \notin KeysOf(Key, q, i - 1) => WithKey(Key, q, i - 1, key) = {}
      BY <1>2, <2>1, WithKeyIs DEF n
    <3> QED
      BY <1>3, <2>1, <3>1, TotalTakes
  <2> HIDE DEF g
  <2>7. ASSUME NEW k \in KeysOf(Key, q, i)
        PROVE  (IF k = key THEN (IF key \in DOMAIN g THEN g[key] ELSE 0) + v ELSE g[k])
                 = Total(Value, WithKey(Key, q, i, k))
    <3>1. CASE k = key /\ key \in DOMAIN g
      BY <2>4, <2>5, <3>1
    <3>2. CASE k = key /\ key \notin DOMAIN g
      BY <2>4, <2>5, <2>6, <3>2
    <3>3. CASE k # key
      BY <2>2, <2>5, <3>3
    <3> QED
      BY <3>1, <3>2, <3>3
  <2>8. it[1 .. i] = Sum(i)
    <3>1. DOMAIN g \cup {key} = KeysOf(Key, q, i)
      BY <2>2, <2>5
    <3> QED
      BY <2>3, <2>7, <3>1
  <2> QED
    BY <2>1, <2>8
<1>6. n \in G
  <2>1. n \in 0 .. n
    BY <1>2
  <2> HIDE DEF G
  <2> QED
    BY <1>2, <1>4, <1>5, <2>1, Upwards
<1>7. it[1 .. n] = Sum(n)
  BY <1>6
<1> QED
  BY <1>1, <1>7 DEF q, n

(* The count of every group is that of its rows.                           *)
LEMMA CountsAreSizes ==
  ASSUME NEW Key, Readable(Joined({Key}), Key, Key), IsInjective(Joined({Key}))
  PROVE  LET q == Joined({Key})
         IN  group_count(Key) =
               [k \in KeysOf(Key, q, Len(q)) |-> Cardinality(WithKey(Key, q, Len(q), k))]
<1> DEFINE q == Joined({Key})
           n == Len(q)
           it == GroupCounting(Key)
           Size(i) == [k \in KeysOf(Key, q, i) |-> Cardinality(WithKey(Key, q, i, k))]
           G == {i \in 0 .. n : it[1 .. i] = Size(i)}
<1>1. /\ group_count(Key) = it[1 .. n] /\ it[1 .. 0] = <<>>
      /\ \A i \in 1 .. n : it[1 .. i] = CountTurn(Key, it[1 .. i - 1], q[i])
  BY GroupCountTurns
<1>2. q \in Seq(Index) /\ IsInjective(q) /\ n \in Nat
  BY LenProperties DEF Readable
<1> HIDE DEF q, n, it
<1>3. \A i \in 0 .. n : \A k : /\ IsFiniteSet(WithKey(Key, q, i, k))
                               /\ Cardinality(WithKey(Key, q, i, k)) \in Nat
  BY <1>2, WithKeyIs, FS_CardinalityType DEF n
<1>4. 0 \in G
  <2>1. KeysOf(Key, q, 0) = {}
    BY <1>2, WithKeyIs
  <2>2. Size(0) = <<>>
    BY <2>1
  <2>3. it[1 .. 0] = Size(0) /\ 0 \in 0 .. n
    <3> HIDE DEF Size
    <3> QED
      BY <1>1, <1>2, <2>2
  <2> HIDE DEF Size
  <2> QED
    BY <2>3
<1>5. ASSUME NEW i \in 1 .. n, i - 1 \in G
      PROVE  i \in G
  <2> DEFINE r == q[i]
             key == get(m_columns[Key], r)
             g == it[1 .. i - 1]
             Now(k) == Cardinality(WithKey(Key, q, i, k))
             Then(k) == Cardinality(WithKey(Key, q, i - 1, k))
  <2>1. i \in 0 .. n /\ i - 1 \in 0 .. n /\ g = Size(i - 1)
    BY <1>2, <1>5
  <2>2. /\ KeysOf(Key, q, i) = KeysOf(Key, q, i - 1) \cup {key}
        /\ WithKey(Key, q, i, key) = WithKey(Key, q, i - 1, key) \cup {r}
        /\ r \notin WithKey(Key, q, i - 1, key)
        /\ \A k : k # key => WithKey(Key, q, i, k) = WithKey(Key, q, i - 1, k)
    <3>1. i \in 1 .. Len(q)
      BY DEF n
    <3>2. KeyTurn(Key, q, i)
      BY ONLY <1>2, <3>1, WithKeyIs
    <3> QED
      BY <3>2 DEF KeyTurn
  <2>3. it[1 .. i] = [k \in DOMAIN g \cup {key} |->
                        (IF k \in DOMAIN g THEN g[k] ELSE 0) + (IF k = key THEN 1 ELSE 0)]
    BY <1>1 DEF CountTurn
  <2>4. Then(key) \in Nat /\ Now(key) = Then(key) + 1
    <3>1. IsFiniteSet(WithKey(Key, q, i - 1, key)) /\ Then(key) \in Nat
      BY <1>3, <2>1
    <3> HIDE DEF r, key
    <3> QED
      BY <2>2, <3>1, FS_AddElement
  <2> HIDE DEF r, key
  <2>5. DOMAIN g = KeysOf(Key, q, i - 1)
        /\ \A k \in KeysOf(Key, q, i - 1) : g[k] = Then(k)
    <3> HIDE DEF g
    <3> QED
      BY <2>1
  <2>6. \A k : /\ Then(k) \in Nat
               /\ k \notin KeysOf(Key, q, i - 1) => Then(k) = 0
    <3>1. \A k : k \notin KeysOf(Key, q, i - 1) => WithKey(Key, q, i - 1, k) = {}
      BY <1>2, <2>1, WithKeyIs DEF n
    <3> QED
      BY <1>3, <2>1, <3>1, FS_EmptySet
  <2>7. \A k : k # key => Now(k) = Then(k)
    BY <2>2
  <2> HIDE DEF g, Now, Then
  <2>8. ASSUME NEW k \in KeysOf(Key, q, i)
        PROVE  (IF k \in DOMAIN g THEN g[k] ELSE 0) + (IF k = key THEN 1 ELSE 0) = Now(k)
    <3>1. (IF k \in DOMAIN g THEN g[k] ELSE 0) = Then(k)
      BY <2>5, <2>6
    <3>2. CASE k = key
      BY <2>4, <3>1, <3>2
    <3>3. CASE k # key
      BY <2>6, <2>7, <3>1, <3>3
    <3> QED
      BY <3>2, <3>3
  <2>9. it[1 .. i] = Size(i)
    <3>1. DOMAIN g \cup {key} = KeysOf(Key, q, i)
      BY <2>2, <2>5
    <3>2. Size(i) = [k \in KeysOf(Key, q, i) |-> Now(k)]
      BY DEF Now
    <3> HIDE DEF Size
    <3> QED
      BY <2>3, <2>8, <3>1, <3>2
  <2> QED
    BY <2>1, <2>9
<1>6. n \in G
  <2>1. n \in 0 .. n
    BY <1>2
  <2> HIDE DEF G
  <2> QED
    BY <1>2, <1>4, <1>5, <2>1, Upwards
<1>7. it[1 .. n] = Size(n)
  BY <1>6
<1> QED
  BY <1>1, <1>7 DEF q, n

(* A fold over the values of a column is one over its rows.                *)
LEMMA ColumnFolds ==
  ASSUME IInv, NEW C \in Columns
  PROVE  /\ reduce_column(C) = Total(C, RowsIn(m_columns[C]))
         /\ \A v : count_column_if(C, v) =
                     Cardinality({r \in RowsIn(m_columns[C]) : get(m_columns[C], r) = v})
<1> DEFINE c == m_columns[C]
           q == c.dense
           data == column(C)
           n == Len(q)
<1>1. /\ n \in Nat /\ data \in Seq(Values) /\ Len(data) = n
      /\ \A i \in 1 .. n : get(c, q[i]) = data[i] /\ data[i] \in Values
  <2>1. /\ n \in Nat /\ data \in Seq(Values) /\ Len(data) = n
        /\ \A i \in 1 .. n : get(c, q[i]) = data[i]
    BY PlaceHolds DEF column
  <2> QED
    BY <2>1, LenProperties
<1>2. q \in Seq(Index) /\ IsInjective(q) /\ ToSet(q) = RowsIn(c)
  BY DenseLists
<1>3. Values \subseteq Int /\ \A i \in 1 .. n : data[i] \in Int
  BY <1>1, ValuesAssumption
<1>4. data \in Seq(Int)
  <2> HIDE DEF data, n
  <2>1. data \in [1 .. n -> Int]
    BY <1>1, <1>3, LenProperties
  <2> QED
    BY <1>1, <2>1, FunctionIsVector
<1>5. /\ Passed(q, 0) = {} /\ Passed(q, n) = RowsIn(c)
      /\ \A i \in 0 .. n : IsFiniteSet(Passed(q, i))
      /\ \A i \in 1 .. n : Passed(q, i) = Passed(q, i - 1) \cup {q[i]}
                           /\ q[i] \notin Passed(q, i - 1)
  BY <1>2, PassedIs
<1>6. \A i \in 0 .. n : \A r \in Passed(q, i) : get(c, r) \in Int
  <2>1. \A i \in 0 .. n : \A j \in 1 .. i : j \in 1 .. n
    BY <1>1
  <2> QED
    BY <1>1, <1>3, <2>1 DEF Passed
<1>7. reduce_column(C) = Total(C, RowsIn(c))
  <2> DEFINE it == Reducing(C)
             G == {i \in 0 .. n : it[1 .. i] = Total(C, Passed(q, i))}
  <2>1. /\ reduce_column(C) = it[1 .. n] /\ it[1 .. 0] = 0
        /\ \A i \in 1 .. n : it[1 .. i] = it[1 .. i - 1] + data[i]
    BY <1>1, <1>4, ReduceTurns
  <2> HIDE DEF it, data, q, n
  <2>2. \A i \in 0 .. n : HaveValues(C, Passed(q, i))
    BY <1>5, <1>6 DEF HaveValues, c
  <2>3. 0 \in G
    <3>1. 0 \in 0 .. n
      BY <1>1
    <3>2. Total(C, Passed(q, 0)) = 0
      BY <1>5, <2>2, <3>1, TotalTakes
    <3> QED
      BY <2>1, <3>1, <3>2
  <2>4. ASSUME NEW i \in 1 .. n, i - 1 \in G
        PROVE  i \in G
    <3>1. i \in 0 .. n /\ i - 1 \in 0 .. n
      BY <1>1
    <3>2. Total(C, Passed(q, i - 1) \cup {q[i]}) = Total(C, Passed(q, i - 1)) + data[i]
      <4> DEFINE S == Passed(q, i - 1)
                 x == q[i]
      <4>1. get(m_columns[C], x) = data[i] /\ data[i] \in Int
        BY <1>1, <1>3 DEF c
      <4>2. x \notin S /\ HaveValues(C, S)
        BY <1>5, <2>2, <3>1
      <4> HIDE DEF S, x
      <4>3. Total(C, S \cup {x}) = Total(C, S) + get(m_columns[C], x)
        BY <4>1, <4>2, TotalGrows
      <4> QED
        BY <4>1, <4>3 DEF S, x
    <3> QED
      BY <1>5, <2>1, <2>4, <3>1, <3>2
  <2>5. n \in G
    <3>1. n \in 0 .. n
      BY <1>1
    <3> HIDE DEF G
    <3> QED
      BY <1>1, <2>3, <2>4, <3>1, Upwards
  <2> QED
    BY <1>5, <2>1, <2>5
<1>8. ASSUME NEW v
      PROVE  count_column_if(C, v) = Cardinality({r \in RowsIn(c) : get(c, r) = v})
  <2> DEFINE it == Counting(C, v)
             W(i) == {r \in Passed(q, i) : get(c, r) = v}
             G == {i \in 0 .. n : it[1 .. i] = Cardinality(W(i))}
  <2>1. /\ count_column_if(C, v) = it[1 .. n] /\ it[1 .. 0] = 0
        /\ \A i \in 1 .. n : it[1 .. i] = IF data[i] = v THEN it[1 .. i - 1] + 1
                                          ELSE it[1 .. i - 1]
    BY <1>1, <1>4, CountTurns
  <2> HIDE DEF it, data, q, n, c
  <2>2. \A i \in 0 .. n : IsFiniteSet(W(i)) /\ Cardinality(W(i)) \in Nat
    <3>1. \A i \in 0 .. n : W(i) \in SUBSET Passed(q, i)
      OBVIOUS
    <3> HIDE DEF W
    <3> QED
      BY <1>5, <3>1, FS_Subset, FS_CardinalityType
  <2>3. W(0) = {} /\ W(n) = {r \in RowsIn(c) : get(c, r) = v}
    BY <1>5
  <2>4. \A i \in 1 .. n : /\ W(i) = W(i - 1) \cup (IF data[i] = v THEN {q[i]} ELSE {})
                          /\ q[i] \notin W(i - 1)
    BY <1>1, <1>5
  <2> HIDE DEF W
  <2>5. 0 \in G
    <3>1. 0 \in 0 .. n
      BY <1>1
    <3>2. Cardinality(W(0)) = 0
      BY <2>3, FS_EmptySet
    <3> QED
      BY <2>1, <3>1, <3>2
  <2>6. ASSUME NEW i \in 1 .. n, i - 1 \in G
        PROVE  i \in G
    <3>1. i \in 0 .. n /\ i - 1 \in 0 .. n
      BY <1>1
    <3>2. CASE data[i] = v
      <4>1. W(i) = W(i - 1) \cup {q[i]} /\ q[i] \notin W(i - 1)
        BY <2>4, <3>2
      <4>2. Cardinality(W(i)) = Cardinality(W(i - 1)) + 1
        BY <2>2, <3>1, <4>1, FS_AddElement
      <4> QED
        BY <2>1, <2>6, <3>1, <3>2, <4>2
    <3>3. CASE data[i] # v
      <4>1. W(i) = W(i - 1)
        BY <2>4, <3>3
      <4> QED
        BY <2>1, <2>6, <3>1, <3>3, <4>1
    <3> QED
      BY <3>2, <3>3
  <2>7. n \in G
    <3>1. n \in 0 .. n
      BY <1>1
    <3> HIDE DEF G
    <3> QED
      BY <1>1, <2>5, <2>6, <3>1, Upwards
  <2> QED
    BY <2>1, <2>3, <2>7
<1> QED
  BY <1>7, <1>8

-----------------------------------------------------------------------------
(* What the folds go over.                                                 *)

(* A join lists the rows with all its columns, each once.                  *)
LEMMA JoinedIs ==
  ASSUME IInv, SignatureExact, NEW Required \in (SUBSET Columns) \ {{}}
  PROVE  /\ Joined(Required) \in Seq(Index) /\ IsInjective(Joined(Required))
         /\ ToSet(Joined(Required)) = RowsOf(Required)
<1> DEFINE sizes  == {Len(m_columns[C].dense) : C \in Required}
           driver == CHOOSE C \in Drivers(Required) : TRUE
<1>1. Required # {} /\ \A C \in Required : C \in Columns
  OBVIOUS
<1>2. driver \in Drivers(Required)
  <2>1. sizes \subseteq Nat /\ sizes # {}
    <3>1. ASSUME NEW C \in Columns
          PROVE  Len(m_columns[C].dense) \in Nat
      BY PlaceHolds
    <3> QED
      BY <1>1, <3>1
  <2>2. PICK m \in sizes : \A k \in sizes : m <= k
    <3> HIDE DEF sizes
    <3> QED
      BY <2>1, LeastNatural
  <2>3. PICK C \in Required : Len(m_columns[C].dense) = m
    OBVIOUS
  <2>4. C \in Drivers(Required)
    BY <2>2, <2>3 DEF Drivers
  <2> QED
    BY <2>4
<1>3. driver \in Columns
  BY <1>1, <1>2 DEF Drivers
<1>4. SelectExact
  BY JoinIsExact
<1> HIDE DEF driver
<1>5. /\ IsInjective(select(Required, driver))
      /\ ToSet(select(Required, driver)) = RowsOf(Required)
  BY <1>2, <1>4 DEF SelectExact, RowsOf
<1>6. select(Required, driver) \in Seq(Index)
  BY <1>3, DenseLists, KeptCorrect DEF select
<1> QED
  BY <1>5, <1>6 DEF Joined, driver

(* The rows with one column are the rows of that column.                   *)
LEMMA RowsOfOne ==
  ASSUME IInv, NEW C \in Columns
  PROVE  RowsOf({C}) = RowsIn(m_columns[C])
<1>1. AliveSlots \subseteq Index
  BY SlotFacts DEF IInv
<1> QED
  BY <1>1 DEF RowsOf, RowsIn, IInv, PooledIsSigned

(* A fold over a join reads values.                                        *)
LEMMA JoinReadable ==
  ASSUME IInv, SignatureExact, NEW K \in Columns, NEW V \in Columns
  PROVE  Readable(Joined({K, V}), K, V)
<1> DEFINE q == Joined({K, V})
<1>1. {K, V} \in (SUBSET Columns) \ {{}}
  OBVIOUS
<1>2. q \in Seq(Index) /\ ToSet(q) = RowsOf({K, V})
  BY <1>1, JoinedIs
<1> HIDE DEF q
<1>3. DOMAIN q = 1 .. Len(q) /\ \A i \in 1 .. Len(q) : q[i] \in Index
  BY <1>2, LenProperties
<1>4. \A i \in 1 .. Len(q) : q[i] \in RowsOf({K, V})
  BY <1>2, <1>3 DEF ToSet
<1>5. \A i \in 1 .. Len(q) : contains(m_columns[K], q[i]) /\ contains(m_columns[V], q[i])
  BY <1>4 DEF RowsOf
<1>6. \A i \in 1 .. Len(q) : get(m_columns[K], q[i]) \in Int /\ get(m_columns[V], q[i]) \in Int
  BY <1>3, <1>5, ValuesCompare
<1>7. Readable(q, K, V)
  BY <1>2, <1>6 DEF Readable
<1> QED
  BY <1>7 DEF q

(* The folds compute what their definition over the rows says.             *)
LEMMA FoldsAre ==
  ASSUME IInv, SignatureExact
  PROVE  FoldsExact
<1>1. ASSUME NEW K \in Columns, NEW V \in Columns
      PROVE  LET rows == RowsOf({K, V})
                 keys == {get(m_columns[K], r) : r \in rows}
             IN  group_sum(K, V) =
                   [k \in keys |-> Total(V, {r \in rows : get(m_columns[K], r) = k})]
  <2> DEFINE q == Joined({K, V})
  <2>1. {K, V} \in (SUBSET Columns) \ {{}}
    OBVIOUS
  <2>2. q \in Seq(Index) /\ IsInjective(q) /\ ToSet(q) = RowsOf({K, V})
    BY <2>1, JoinedIs
  <2>3. Readable(q, K, V)
    BY JoinReadable
  <2>4. group_sum(K, V) =
          [k \in KeysOf(K, q, Len(q)) |-> Total(V, WithKey(K, q, Len(q), k))]
    BY <2>2, <2>3, SumsAreTotals
  <2> HIDE DEF q
  <2>5. Passed(q, Len(q)) = RowsOf({K, V})
    BY <2>2, PassedIs
  <2> QED
    BY <2>4, <2>5 DEF KeysOf, WithKey
<1>2. ASSUME NEW K \in Columns
      PROVE  LET rows == RowsOf({K})
             IN  /\ group_count(K) =
                      [k \in {get(m_columns[K], r) : r \in rows} |->
                         Cardinality({r \in rows : get(m_columns[K], r) = k})]
                 /\ \A v : ToSet(select_where(K, v)) =
                             {r \in rows : get(m_columns[K], r) = v}
  <2> DEFINE q == Joined({K})
  <2>1. {K} \in (SUBSET Columns) \ {{}} /\ {K, K} = {K}
    OBVIOUS
  <2>2. q \in Seq(Index) /\ IsInjective(q) /\ ToSet(q) = RowsOf({K})
    BY <2>1, JoinedIs
  <2>3. Readable(q, K, K)
    BY <2>1, JoinReadable
  <2>4. group_count(K) =
          [k \in KeysOf(K, q, Len(q)) |-> Cardinality(WithKey(K, q, Len(q), k))]
    BY <2>2, <2>3, CountsAreSizes
  <2>5. ASSUME NEW v
        PROVE  ToSet(select_where(K, v)) =
                 {r \in RowsOf({K}) : get(m_columns[K], r) = v}
    <3> DEFINE S == {r \in RowsIn(m_columns[K]) : get(m_columns[K], r) = v}
    <3>1. ToSet(Kept(q, S)) = ToSet(q) \cap S
      <4> HIDE DEF q, S
      <4> QED
        BY <2>2, KeptCorrect
    <3> QED
      BY <2>2, <3>1, RowsOfOne DEF select_where
  <2> HIDE DEF q
  <2>6. Passed(q, Len(q)) = RowsOf({K})
    BY <2>2, PassedIs
  <2>7. group_count(K) =
          [k \in {get(m_columns[K], r) : r \in RowsOf({K})} |->
             Cardinality({r \in RowsOf({K}) : get(m_columns[K], r) = k})]
    BY <2>4, <2>6 DEF KeysOf, WithKey
  <2> QED
    BY <2>5, <2>7
<1>3. ASSUME NEW K \in Columns
      PROVE  /\ reduce_column(K) = Total(K, RowsOf({K}))
             /\ \A v : count_column_if(K, v) =
                         Cardinality({r \in RowsOf({K}) : get(m_columns[K], r) = v})
  BY ColumnFolds, RowsOfOne
<1> QED
  BY <1>1, <1>2, <1>3 DEF FoldsExact, Total

(* Whichever column drives and however rows have moved, every fold counts  *)
(* each row of its join once, in the group of its key.                     *)
THEOREM FoldsStayExact == StableSpec => []FoldsExact
BY FoldsAre, StableInvariance, SignatureStaysExact, PTL
=============================================================================
