------------------------- MODULE DynamicTableProofs -------------------------
(***************************************************************************)
(* Proofs about dynamic_table, for any names, types, payloads and number   *)
(* of rows: a pointer from get leads to a live cell of the right type, and *)
(* the whole implements TypedStore.                                        *)
(***************************************************************************)
EXTENDS DynamicTable, SequenceTheorems, FiniteSetTheorems, TLAPS

(* A column only has cells of its own type, and only of alive rows: this   *)
(* is what get relies on when it does not ask is_alive.                    *)
CellsSound ==
  \A n \in DOMAIN m_columns : \A r \in DOMAIN m_columns[n].cells :
    /\ r \in AliveRows
    /\ m_columns[n].cells[r].type = m_columns[n].type_key

(* size() is the number of alive rows.                                     *)
Counted == IsFiniteSet(AliveRows) /\ m_alive_count = Cardinality(AliveRows)

IInv == TypeOK /\ CellsSound /\ Counted

Cell == [type : Types, is : Payloads]

-----------------------------------------------------------------------------
(* Maps.                                                                   *)

(* A map is a function on some of the keys.                                *)
LEMMA MapIs ==
  ASSUME NEW S, NEW R, NEW m
  PROVE  m \in Maps(S, R) <=> /\ DOMAIN m \subseteq S
                              /\ m \in [DOMAIN m -> R]
<1>1. ASSUME m \in Maps(S, R)
      PROVE  DOMAIN m \subseteq S /\ m \in [DOMAIN m -> R]
  <2>1. PICK D \in SUBSET S : m \in [D -> R]
    BY <1>1 DEF Maps
  <2> QED
    BY <2>1
<1> QED
  BY <1>1 DEF Maps

(* Assigning to a key and erasing one leave a map of the same kind.        *)
LEMMA MapKept ==
  ASSUME NEW S, NEW R, NEW m \in Maps(S, R), NEW x \in S, NEW y \in R
  PROVE  With(m, x, y) \in Maps(S, R) /\ Without(m, x) \in Maps(S, R)
<1>1. DOMAIN m \subseteq S /\ m \in [DOMAIN m -> R]
  BY MapIs
<1>2. With(m, x, y) \in [DOMAIN m \cup {x} -> R] /\ DOMAIN m \cup {x} \subseteq S
  BY <1>1 DEF With
<1>3. Without(m, x) \in [DOMAIN m \ {x} -> R] /\ DOMAIN m \ {x} \subseteq S
  BY <1>1 DEF Without
<1> QED
  BY <1>2, <1>3, MapIs

(* Erasing a key that need not be one.                                     *)
LEMMA MapWithout ==
  ASSUME NEW S, NEW R, NEW m \in Maps(S, R), NEW x
  PROVE  Without(m, x) \in Maps(S, R)
<1>1. DOMAIN m \subseteq S /\ m \in [DOMAIN m -> R]
  BY MapIs
<1>2. Without(m, x) \in [DOMAIN m \ {x} -> R] /\ DOMAIN m \ {x} \subseteq S
  BY <1>1 DEF Without
<1> QED
  BY <1>2, MapIs

(* The empty map is a map of any kind.                                     *)
LEMMA MapEmpty ==
  ASSUME NEW S, NEW R
  PROVE  EmptyMap \in Maps(S, R)
<1>1. DOMAIN EmptyMap \subseteq S /\ EmptyMap \in [DOMAIN EmptyMap -> R]
  BY DEF EmptyMap
<1> QED
  BY <1>1, MapIs

(* A column of the table.                                                  *)
LEMMA ColumnAt ==
  ASSUME TypeOK, NEW n \in DOMAIN m_columns
  PROVE  /\ n \in Names
         /\ m_columns[n] \in Column
         /\ m_columns[n].type_key \in Types
         /\ m_columns[n].metadata \in Maps(Keys, Texts)
         /\ m_columns[n].cells \in Maps(Nat, Cell)
<1>1. DOMAIN m_columns \subseteq Names /\ m_columns \in [DOMAIN m_columns -> Column]
  BY MapIs DEF TypeOK
<1> QED
  BY <1>1 DEF Column, Cell

-----------------------------------------------------------------------------
(* The rows.                                                               *)

(* What insert_row does to the set of alive rows.                          *)
LEMMA RowInserted ==
  ASSUME TypeOK, m_alive' = Append(m_alive, TRUE)
  PROVE  /\ m_alive' \in Seq(BOOLEAN) /\ Len(m_alive') = Len(m_alive) + 1
         /\ Rows' = Rows \cup {Len(m_alive)}
         /\ AliveRows' = AliveRows \cup {Len(m_alive)}
         /\ Len(m_alive) \in Nat /\ Len(m_alive) \notin AliveRows
<1>1. m_alive \in Seq(BOOLEAN) /\ Len(m_alive) \in Nat
  BY DEF TypeOK
<1>2. /\ m_alive' \in Seq(BOOLEAN)
      /\ Len(m_alive') = Len(m_alive) + 1
      /\ \A i \in 1 .. Len(m_alive) : m_alive'[i] = m_alive[i]
      /\ m_alive'[Len(m_alive) + 1] = TRUE
  BY <1>1
<1>3. Rows' = Rows \cup {Len(m_alive)}
  BY <1>1, <1>2 DEF Rows
<1>4. ASSUME NEW r \in Rows  PROVE m_alive'[r + 1] = m_alive[r + 1]
  <2>1. r + 1 \in 1 .. Len(m_alive)
    BY <1>1 DEF Rows
  <2> QED
    BY <1>2, <2>1, Zenon
<1>5. AliveRows' = AliveRows \cup {Len(m_alive)}
  BY <1>1, <1>2, <1>3, <1>4 DEF AliveRows, is_alive, Rows
<1>6. Len(m_alive) \notin AliveRows
  BY <1>1 DEF AliveRows, Rows
<1> QED
  BY <1>1, <1>2, <1>3, <1>5, <1>6

(* What erase_row does to it.                                              *)
LEMMA RowErased ==
  ASSUME TypeOK, NEW r, is_alive(r), m_alive' = [m_alive EXCEPT ![r + 1] = FALSE]
  PROVE  /\ m_alive' \in Seq(BOOLEAN) /\ Len(m_alive') = Len(m_alive)
         /\ Rows' = Rows
         /\ AliveRows' = AliveRows \ {r}
         /\ r \in AliveRows
<1>1. m_alive \in Seq(BOOLEAN) /\ Len(m_alive) \in Nat /\ r \in 0 .. Len(m_alive) - 1
  BY DEF TypeOK, is_alive, Rows
<1>2. /\ m_alive' \in Seq(BOOLEAN)
      /\ Len(m_alive') = Len(m_alive)
      /\ m_alive'[r + 1] = FALSE
      /\ \A i \in 1 .. Len(m_alive) : i # r + 1 => m_alive'[i] = m_alive[i]
  <2>1. r + 1 \in 1 .. Len(m_alive) /\ DOMAIN m_alive = 1 .. Len(m_alive)
    BY <1>1
  <2>2. m_alive' \in Seq(BOOLEAN) /\ Len(m_alive') = Len(m_alive)
    BY <1>1, <2>1
  <2> QED
    BY <2>1, <2>2, Zenon
<1>3. Rows' = Rows
  BY <1>2 DEF Rows
<1>4. /\ m_alive'[r + 1] = FALSE
      /\ \A x \in Rows : x # r => m_alive'[x + 1] = m_alive[x + 1]
  <2>1. ASSUME NEW x \in Rows, x # r  PROVE m_alive'[x + 1] = m_alive[x + 1]
    <3>1. x + 1 \in 1 .. Len(m_alive) /\ x + 1 # r + 1
      BY <1>1, <2>1 DEF Rows
    <3> QED
      BY <1>2, <3>1, Zenon
  <2> QED
    BY <1>2, <2>1
<1>5. AliveRows' = AliveRows \ {r}
  BY <1>3, <1>4 DEF AliveRows, is_alive
<1> QED
  BY <1>2, <1>3, <1>5 DEF AliveRows, is_alive

(* size() is a number, and counts the alive rows, after every step.        *)
LEMMA CountKept == IInv /\ [Next]_vars => Counted' /\ m_alive_count' \in Nat
<1> SUFFICES ASSUME IInv, [Next]_vars PROVE Counted' /\ m_alive_count' \in Nat
  OBVIOUS
<1> USE DEF IInv, Counted
<1>1. CASE insert_row
  <2>1. /\ AliveRows' = AliveRows \cup {Len(m_alive)}
        /\ Len(m_alive) \notin AliveRows
    BY <1>1, RowInserted DEF insert_row
  <2>2. IsFiniteSet(AliveRows') /\ Cardinality(AliveRows') = Cardinality(AliveRows) + 1
    BY <2>1, FS_AddElement
  <2> QED
    BY <1>1, <2>2, FS_CardinalityType DEF insert_row, TypeOK
<1>2. ASSUME NEW r, erase_row(r)  PROVE Counted' /\ m_alive_count' \in Nat
  <2>1. AliveRows' = AliveRows \ {r} /\ r \in AliveRows
    BY <1>2, RowErased DEF erase_row
  <2>2. IsFiniteSet(AliveRows') /\ Cardinality(AliveRows') = Cardinality(AliveRows) - 1
    BY <2>1, FS_RemoveElement
  <2> QED
    BY <1>2, <2>2, FS_CardinalityType DEF erase_row
<1>3. CASE UNCHANGED <<m_alive, m_alive_count>>
  BY <1>3 DEF AliveRows, is_alive, Rows, TypeOK
<1> QED
  BY <1>1, <1>2, <1>3
     DEF Next, vars, Refused, add_column, remove_column, set, SetThrows, Stored,
         set_metadata

-----------------------------------------------------------------------------
(* The columns.                                                            *)

(* Storing a cell of the column's type for an alive row.                   *)
LEMMA StoreKeeps ==
  ASSUME IInv, NEW T, NEW r, NEW name, NEW p \in Payloads,
         typed(T, name), is_alive(r), Stored(r, name, Value(T, p))
  PROVE  m_columns' \in Maps(Names, Column) /\ CellsSound'
<1> USE DEF IInv
<1> DEFINE c == m_columns[name]
           v == Value(T, p)
<1>1. /\ name \in DOMAIN m_columns /\ c.type_key = T /\ r \in AliveRows
      /\ DOMAIN m_columns \subseteq Names /\ m_columns \in [DOMAIN m_columns -> Column]
  BY MapIs DEF typed, has_column, TypeOK, AliveRows, is_alive
<1>2. r \in Nat
  BY DEF is_alive, Rows, TypeOK
<1>3. v \in Cell /\ v.type = c.type_key
  BY <1>1, ColumnAt DEF Value, Cell
<1>4. With(c.cells, r, v) \in Maps(Nat, Cell)
  BY <1>1, <1>2, <1>3, ColumnAt, MapKept
<1>5. [c EXCEPT !.cells = With(@, r, v)] \in Column
  BY <1>1, <1>4, ColumnAt DEF Column, Cell
<1>6. m_columns' = [m_columns EXCEPT ![name] = [c EXCEPT !.cells = With(@, r, v)]]
  BY DEF Stored
<1>7. m_columns' \in [DOMAIN m_columns -> Column] /\ DOMAIN m_columns' = DOMAIN m_columns
  BY <1>1, <1>5, <1>6
<1>8. m_columns' \in Maps(Names, Column)
  BY <1>1, <1>7, MapIs
<1>9. AliveRows' = AliveRows
  BY DEF Stored, AliveRows, is_alive, Rows
<1>10. ASSUME NEW n \in DOMAIN m_columns', NEW x \in DOMAIN m_columns'[n].cells
       PROVE  x \in AliveRows' /\ m_columns'[n].cells[x].type = m_columns'[n].type_key
  <2>1. CASE n # name
    <3>1. m_columns'[n] = m_columns[n] /\ n \in DOMAIN m_columns
      BY <1>1, <1>6, <1>7, <2>1
    <3> QED
      BY <1>9, <1>10, <3>1 DEF CellsSound
  <2>2. CASE n = name
    <3>1. /\ m_columns'[n].cells = With(c.cells, r, v)
          /\ m_columns'[n].type_key = c.type_key
      BY <1>1, <1>6, <2>2, ColumnAt DEF Column
    <3>2. x \in DOMAIN c.cells \cup {r}
      BY <1>10, <3>1 DEF With
    <3>3. m_columns'[n].cells[x] = IF x = r THEN v ELSE c.cells[x]
      BY <3>1, <3>2 DEF With
    <3>4. CASE x = r
      BY <1>1, <1>3, <1>9, <3>1, <3>3, <3>4
    <3>5. CASE x # r
      <4>1. x \in DOMAIN c.cells
        BY <3>2, <3>5
      <4> QED
        BY <1>1, <1>9, <3>1, <3>3, <3>5, <4>1 DEF CellsSound
    <3> QED
      BY <3>4, <3>5
  <2> QED
    BY <2>1, <2>2
<1>11. CellsSound'
  BY <1>10 DEF CellsSound
<1> QED
  BY <1>8, <1>11

(* Erasing a row takes its cell out of every column.                       *)
LEMMA EraseKeeps ==
  ASSUME IInv, NEW r, erase_row(r)
  PROVE  m_columns' \in Maps(Names, Column) /\ CellsSound'
<1> USE DEF IInv
<1>1. DOMAIN m_columns \subseteq Names /\ m_columns \in [DOMAIN m_columns -> Column]
  BY MapIs DEF TypeOK
<1>2. m_columns' = [n \in DOMAIN m_columns |->
                      [m_columns[n] EXCEPT !.cells = Without(@, r)]]
  BY DEF erase_row
<1>3. ASSUME NEW n \in DOMAIN m_columns
      PROVE  /\ m_columns'[n] \in Column
             /\ m_columns'[n].cells = Without(m_columns[n].cells, r)
             /\ m_columns'[n].type_key = m_columns[n].type_key
  <2>1. Without(m_columns[n].cells, r) \in Maps(Nat, Cell)
    BY ColumnAt, MapWithout
  <2> QED
    BY <1>2, <2>1, ColumnAt DEF Column, Cell
<1>4. m_columns' \in Maps(Names, Column)
  BY <1>1, <1>2, <1>3, MapIs
<1>5. AliveRows' = AliveRows \ {r}
  BY RowErased DEF erase_row
<1>6. CellsSound'
  <2> SUFFICES ASSUME NEW n \in DOMAIN m_columns, NEW x \in DOMAIN m_columns'[n].cells
               PROVE  /\ x \in AliveRows'
                      /\ m_columns'[n].cells[x].type = m_columns'[n].type_key
    BY <1>2 DEF CellsSound
  <2>1. /\ x \in DOMAIN m_columns[n].cells /\ x # r
        /\ m_columns'[n].cells[x] = m_columns[n].cells[x]
    BY <1>3 DEF Without
  <2> QED
    BY <1>3, <1>5, <2>1 DEF CellsSound
<1> QED
  BY <1>4, <1>6

(* Adding, removing and labelling a column.                                *)
LEMMA AddKeeps ==
  ASSUME IInv, NEW T \in Types, NEW name \in Names, add_column(T, name)
  PROVE  m_columns' \in Maps(Names, Column) /\ CellsSound'
<1> USE DEF IInv
<1> DEFINE new == [type_key |-> T, metadata |-> EmptyMap, cells |-> EmptyMap]
<1>1. new \in Column
  BY MapEmpty DEF Column
<1>2. m_columns' = With(m_columns, name, new)
  BY DEF add_column
<1>3. m_columns' \in Maps(Names, Column)
  BY <1>1, <1>2, MapKept DEF TypeOK
<1>4. AliveRows' = AliveRows
  BY DEF add_column, AliveRows, is_alive, Rows
<1>5. /\ DOMAIN m_columns' = DOMAIN m_columns \cup {name}
      /\ DOMAIN m_columns'[name].cells = {}
      /\ \A n \in DOMAIN m_columns : n # name => m_columns'[n] = m_columns[n]
  BY <1>2 DEF With, EmptyMap
<1> QED
  BY <1>3, <1>4, <1>5 DEF CellsSound

(* remove_column takes a column and all its cells away.                    *)
LEMMA RemoveKeeps ==
  ASSUME IInv, NEW name, remove_column(name)
  PROVE  m_columns' \in Maps(Names, Column) /\ CellsSound'
<1>1. m_columns' = Without(m_columns, name) /\ AliveRows' = AliveRows
  BY DEF remove_column, AliveRows, is_alive, Rows
<1> QED
  BY <1>1, MapWithout DEF IInv, TypeOK, CellsSound, Without

(* set_metadata leaves the cells of the column alone.                      *)
LEMMA LabelKeeps ==
  ASSUME IInv, NEW name, NEW key \in Keys, NEW text \in Texts,
         set_metadata(name, key, text)
  PROVE  m_columns' \in Maps(Names, Column) /\ CellsSound'
<1> USE DEF IInv
<1> DEFINE c == [m_columns[name] EXCEPT !.metadata = With(@, key, text)]
<1>1. /\ DOMAIN m_columns \subseteq Names /\ m_columns \in [DOMAIN m_columns -> Column]
      /\ name \in DOMAIN m_columns
  BY MapIs DEF TypeOK, set_metadata, has_column
<1>2. With(m_columns[name].metadata, key, text) \in Maps(Keys, Texts)
  BY <1>1, ColumnAt, MapKept
<1>3. /\ c \in Column
      /\ c.cells = m_columns[name].cells /\ c.type_key = m_columns[name].type_key
  BY <1>1, <1>2, ColumnAt DEF Column
<1>4. m_columns' = [m_columns EXCEPT ![name] = c]
  BY DEF set_metadata
<1>5. m_columns' \in Maps(Names, Column)
  BY <1>1, <1>3, <1>4, MapIs
<1>6. AliveRows' = AliveRows
  BY DEF set_metadata, AliveRows, is_alive, Rows
<1>7. \A n \in DOMAIN m_columns' : /\ n \in DOMAIN m_columns
                                   /\ m_columns'[n].cells = m_columns[n].cells
                                   /\ m_columns'[n].type_key = m_columns[n].type_key
  BY <1>1, <1>3, <1>4
<1> QED
  BY <1>5, <1>6, <1>7 DEF CellsSound

-----------------------------------------------------------------------------
(* Every step keeps the invariant.                                         *)
LEMMA InvariantKept == IInv /\ [Next]_vars => IInv'
<1> SUFFICES ASSUME IInv, [Next]_vars PROVE IInv'
  OBVIOUS
<1>1. Counted' /\ m_alive_count' \in Nat
  BY CountKept
<1>2. m_columns' \in Maps(Names, Column) /\ CellsSound' /\ m_alive' \in Seq(BOOLEAN)
  <2>1. CASE insert_row
    BY <2>1, RowInserted DEF insert_row, IInv, TypeOK, CellsSound
  <2>2. ASSUME NEW r, erase_row(r)
        PROVE  m_columns' \in Maps(Names, Column) /\ CellsSound' /\ m_alive' \in Seq(BOOLEAN)
    BY <2>2, EraseKeeps, RowErased DEF erase_row, IInv
  <2>3. ASSUME NEW name, remove_column(name)
        PROVE  m_columns' \in Maps(Names, Column) /\ CellsSound' /\ m_alive' \in Seq(BOOLEAN)
    BY <2>3, RemoveKeeps DEF remove_column, IInv, TypeOK
  <2>4. ASSUME NEW T \in Types, NEW name \in Names, add_column(T, name)
        PROVE  m_columns' \in Maps(Names, Column) /\ CellsSound' /\ m_alive' \in Seq(BOOLEAN)
    BY <2>4, AddKeeps DEF add_column, IInv, TypeOK
  <2>5. ASSUME NEW name, NEW key \in Keys, NEW text \in Texts,
               set_metadata(name, key, text)
        PROVE  m_columns' \in Maps(Names, Column) /\ CellsSound' /\ m_alive' \in Seq(BOOLEAN)
    BY <2>5, LabelKeeps DEF set_metadata, IInv, TypeOK
  <2>6. ASSUME NEW T, NEW r, NEW name, NEW p \in Payloads,
               typed(T, name), is_alive(r), Stored(r, name, Value(T, p))
        PROVE  m_columns' \in Maps(Names, Column) /\ CellsSound' /\ m_alive' \in Seq(BOOLEAN)
    BY <2>6, StoreKeeps DEF Stored, IInv, TypeOK
  <2>7. CASE UNCHANGED vars
    BY <2>7 DEF vars, IInv, TypeOK, CellsSound, AliveRows, is_alive, Rows
  <2> QED
    BY <2>1, <2>2, <2>3, <2>4, <2>5, <2>6, <2>7 DEF Next, Refused, set, SetThrows
<1> QED
  BY <1>1, <1>2 DEF IInv, TypeOK

(* The inductive invariant holds in every reachable state.                 *)
THEOREM Invariance == Spec => []IInv
<1>1. Init => IInv
  <2> SUFFICES ASSUME Init PROVE IInv
    OBVIOUS
  <2>1. AliveRows = {} /\ DOMAIN m_columns = {}
    BY DEF Init, AliveRows, is_alive, Rows, EmptyMap
  <2>2. Counted
    BY <2>1, FS_EmptySet DEF Init, Counted
  <2> QED
    BY <2>1, <2>2, MapEmpty DEF Init, IInv, TypeOK, CellsSound
<1> QED
  BY <1>1, InvariantKept, PTL DEF Spec

(* Types: every column has its key, its metadata and its cells, and size() *)
(* never falls below zero, however often a row is erased.                  *)
THEOREM TypeCorrect == Spec => []TypeOK
<1>1. IInv => TypeOK
  BY DEF IInv
<1> QED
  BY <1>1, Invariance, PTL

(* A pointer from get leads to a value of the asked type in an alive row.  *)
THEOREM PointersSafe == Spec => []GetSafe
<1>1. IInv => GetSafe
  <2> SUFFICES ASSUME IInv, NEW T \in Types, NEW r \in 0 .. MaxRows, NEW name \in Names,
                      NEW v \in get(T, r, name)
               PROVE  v.type = T /\ is_alive(r)
    BY DEF GetSafe
  <2>1. /\ name \in DOMAIN m_columns /\ m_columns[name].type_key = T
        /\ r \in DOMAIN m_columns[name].cells
        /\ v = m_columns[name].cells[r]
    BY DEF get, typed, has_column
  <2> QED
    BY <2>1 DEF IInv, CellsSound, AliveRows
<1> QED
  BY <1>1, Invariance, PTL

-----------------------------------------------------------------------------
(* The refinement: what the variables of TypedStore stand for.             *)

TypeOf  == [n \in DOMAIN m_columns |-> m_columns[n].type_key]
LabelOf == [p \in Labels |-> m_columns[p[1]].metadata[p[2]]]
CellOf  == [p \in Cells |-> m_columns[p[2]].cells[p[1]]]

(* The cells of the store are those of the columns: each is in a row there *)
(* is.                                                                     *)
LEMMA CellIs ==
  ASSUME IInv, NEW r, NEW n
  PROVE  <<r, n>> \in Cells <=> n \in DOMAIN m_columns /\ r \in DOMAIN m_columns[n].cells
<1>1. n \in DOMAIN m_columns /\ r \in DOMAIN m_columns[n].cells => r \in Rows
  BY DEF IInv, CellsSound, AliveRows
<1> QED
  BY <1>1 DEF Cells

(* The same after the step.                                                *)
LEMMA CellIsNext ==
  ASSUME IInv', NEW r, NEW n
  PROVE  <<r, n>> \in Cells' <=> n \in DOMAIN m_columns' /\ r \in DOMAIN m_columns'[n].cells
<1>1. n \in DOMAIN m_columns' /\ r \in DOMAIN m_columns'[n].cells => r \in Rows'
  BY DEF IInv, CellsSound, AliveRows
<1> QED
  BY <1>1 DEF Cells

(* Labels are the keys of the columns' metadata.                           *)
LEMMA LabelIs ==
  ASSUME IInv, NEW n, NEW k
  PROVE  <<n, k>> \in Labels <=> n \in DOMAIN m_columns /\ k \in DOMAIN m_columns[n].metadata
<1>1. ASSUME n \in DOMAIN m_columns, k \in DOMAIN m_columns[n].metadata
      PROVE  k \in Keys
  BY <1>1, ColumnAt, MapIs DEF IInv
<1> QED
  BY <1>1 DEF Labels

(* The same after the step.                                                *)
LEMMA LabelIsNext ==
  ASSUME IInv', NEW n, NEW k
  PROVE  <<n, k>> \in Labels' <=> n \in DOMAIN m_columns' /\ k \in DOMAIN m_columns'[n].metadata
<1>1. DOMAIN m_columns' \subseteq Names /\ m_columns' \in [DOMAIN m_columns' -> Column]
  BY MapIs DEF IInv, TypeOK
<1>2. ASSUME n \in DOMAIN m_columns', k \in DOMAIN m_columns'[n].metadata
      PROVE  k \in Keys
  <2>1. m_columns'[n].metadata \in Maps(Keys, Texts)
    BY <1>1, <1>2 DEF Column
  <2> QED
    BY <1>2, <2>1, MapIs
<1> QED
  BY <1>2 DEF Labels

(* Cells and labels are pairs.                                             *)
LEMMA CellsPairs ==
  /\ \A p \in Cells : p = <<p[1], p[2]>>
  /\ \A p \in Cells' : p = <<p[1], p[2]>>
BY DEF Cells

(* Labels are pairs, before the step and after it.                         *)
LEMMA LabelsPairs ==
  /\ \A p \in Labels : p = <<p[1], p[2]>>
  /\ \A p \in Labels' : p = <<p[1], p[2]>>
BY DEF Labels

(* Columns with the same cells, and with the same metadata, are the same   *)
(* to the store.                                                           *)
LEMMA SameCells ==
  ASSUME IInv, IInv',
         \A n \in DOMAIN m_columns \cap DOMAIN m_columns' :
           m_columns'[n].cells = m_columns[n].cells,
         \A n \in DOMAIN m_columns \ DOMAIN m_columns' : DOMAIN m_columns[n].cells = {},
         \A n \in DOMAIN m_columns' \ DOMAIN m_columns : DOMAIN m_columns'[n].cells = {}
  PROVE  CellOf' = CellOf
<1>1. Cells' = Cells
  <2>1. ASSUME NEW r, NEW n
        PROVE  <<r, n>> \in Cells' <=> <<r, n>> \in Cells
    <3>1. <<r, n>> \in Cells
            <=> n \in DOMAIN m_columns /\ r \in DOMAIN m_columns[n].cells
      BY CellIs
    <3>2. <<r, n>> \in Cells'
            <=> n \in DOMAIN m_columns' /\ r \in DOMAIN m_columns'[n].cells
      BY CellIsNext
    <3> QED
      BY <3>1, <3>2
  <2> QED
    BY <2>1, CellsPairs
<1>2. \A p \in Cells : m_columns'[p[2]].cells[p[1]] = m_columns[p[2]].cells[p[1]]
  <2> SUFFICES ASSUME NEW p \in Cells
               PROVE  m_columns'[p[2]].cells[p[1]] = m_columns[p[2]].cells[p[1]]
    OBVIOUS
  <2>1. <<p[1], p[2]>> \in Cells'
    BY <1>1, CellsPairs
  <2>2. p[2] \in DOMAIN m_columns' /\ p[1] \in DOMAIN m_columns'[p[2]].cells
    BY <2>1, CellIsNext
  <2> QED
    BY <2>2
<1> QED
  BY <1>1, <1>2 DEF CellOf

(* A step that keeps the metadata of every column keeps the labels.        *)
LEMMA SameLabels ==
  ASSUME IInv, IInv',
         \A n \in DOMAIN m_columns \cap DOMAIN m_columns' :
           m_columns'[n].metadata = m_columns[n].metadata,
         \A n \in DOMAIN m_columns \ DOMAIN m_columns' : DOMAIN m_columns[n].metadata = {},
         \A n \in DOMAIN m_columns' \ DOMAIN m_columns : DOMAIN m_columns'[n].metadata = {}
  PROVE  LabelOf' = LabelOf
<1>1. Labels' = Labels
  <2>1. ASSUME NEW n, NEW k
        PROVE  <<n, k>> \in Labels' <=> <<n, k>> \in Labels
    <3>1. <<n, k>> \in Labels
            <=> n \in DOMAIN m_columns /\ k \in DOMAIN m_columns[n].metadata
      BY LabelIs
    <3>2. <<n, k>> \in Labels'
            <=> n \in DOMAIN m_columns' /\ k \in DOMAIN m_columns'[n].metadata
      BY LabelIsNext
    <3> QED
      BY <3>1, <3>2
  <2> QED
    BY <2>1, LabelsPairs
<1>2. \A p \in Labels : m_columns'[p[1]].metadata[p[2]] = m_columns[p[1]].metadata[p[2]]
  <2> SUFFICES ASSUME NEW p \in Labels
               PROVE  m_columns'[p[1]].metadata[p[2]] = m_columns[p[1]].metadata[p[2]]
    OBVIOUS
  <2>1. <<p[1], p[2]>> \in Labels'
    BY <1>1, LabelsPairs
  <2>2. p[1] \in DOMAIN m_columns' /\ p[2] \in DOMAIN m_columns'[p[1]].metadata
    BY <2>1, LabelIsNext
  <2> QED
    BY <2>2
<1> QED
  BY <1>1, <1>2 DEF LabelOf

(* With the same columns the store differs in its rows only.               *)
LEMMA RowsOnly ==
  ASSUME IInv, IInv', UNCHANGED m_columns
  PROVE  UNCHANGED <<TypeOf, LabelOf, CellOf>>
<1>1. CellOf' = CellOf
  BY SameCells
<1>2. LabelOf' = LabelOf
  BY SameLabels
<1> QED
  BY <1>1, <1>2 DEF TypeOf

(* A column that is there is a column with its three parts; the names.     *)
LEMMA ColumnsIs ==
  ASSUME IInv
  PROVE  DOMAIN m_columns \subseteq Names /\ m_columns \in [DOMAIN m_columns -> Column]
BY MapIs DEF IInv, TypeOK

(* insert_row is the store's InsertRow.                                    *)
LEMMA InsertIsInsert ==
  ASSUME IInv, IInv', insert_row
  PROVE  Store!InsertRow
<1>1. UNCHANGED <<TypeOf, LabelOf, CellOf>>
  BY RowsOnly DEF insert_row
<1>2. Len(m_alive') = Len(m_alive) + 1 /\ AliveRows' = AliveRows \cup {Len(m_alive)}
  BY RowInserted DEF insert_row, IInv
<1> QED
  BY <1>1, <1>2 DEF Store!InsertRow, insert_row, TypeOf, LabelOf, CellOf

(* add_column is the store's AddColumn.                                    *)
LEMMA AddIsAdd ==
  ASSUME IInv, IInv', NEW T, NEW name, add_column(T, name)
  PROVE  Store!AddColumn(name, T)
<1> DEFINE new == [type_key |-> T, metadata |-> EmptyMap, cells |-> EmptyMap]
<1>1. /\ name \notin DOMAIN m_columns
      /\ DOMAIN m_columns' = DOMAIN m_columns \cup {name}
      /\ m_columns'[name] = new
      /\ \A n \in DOMAIN m_columns : m_columns'[n] = m_columns[n]
  BY DEF add_column, has_column, With
<1>2. CellOf' = CellOf
  <2>1. DOMAIN m_columns'[name].cells = {}
    BY <1>1 DEF EmptyMap
  <2> QED
    BY <1>1, <2>1, SameCells
<1>3. LabelOf' = LabelOf
  <2>1. DOMAIN m_columns'[name].metadata = {}
    BY <1>1 DEF EmptyMap
  <2> QED
    BY <1>1, <2>1, SameLabels
<1>4. TypeOf' = Store!With(TypeOf, name, T)
  BY <1>1 DEF TypeOf, Store!With
<1>5. UNCHANGED <<m_alive, m_alive_count>> /\ AliveRows' = AliveRows
  BY DEF add_column, AliveRows, is_alive, Rows
<1> QED
  BY <1>1, <1>2, <1>3, <1>4, <1>5 DEF Store!AddColumn, TypeOf, LabelOf, CellOf

(* remove_column is the store's RemoveColumn.                              *)
LEMMA RemoveIsRemove ==
  ASSUME IInv, IInv', NEW name, remove_column(name)
  PROVE  Store!RemoveColumn(name)
<1>1. /\ name \in DOMAIN m_columns
      /\ DOMAIN m_columns' = DOMAIN m_columns \ {name}
      /\ \A n \in DOMAIN m_columns' : m_columns'[n] = m_columns[n]
  BY DEF remove_column, has_column, Without
<1>2. DOMAIN m_columns \subseteq Names
  BY ColumnsIs
<1>3. UNCHANGED <<m_alive, m_alive_count>> /\ AliveRows' = AliveRows /\ Rows' = Rows
  BY DEF remove_column, AliveRows, is_alive, Rows
<1>4. TypeOf' = Store!Only(TypeOf, Names \ {name})
  BY <1>1, <1>2 DEF TypeOf, Store!Only
<1>5. CellOf' = Store!Only(CellOf, Nat \X (Names \ {name}))
  <2>1. Rows \subseteq Nat
    BY DEF IInv, TypeOK, Rows
  <2>2. Cells' = Cells \cap (Nat \X (Names \ {name}))
    BY <1>1, <1>2, <1>3, <2>1 DEF Cells
  <2>3. \A p \in Cells' : m_columns'[p[2]].cells[p[1]] = m_columns[p[2]].cells[p[1]]
    BY <1>1 DEF Cells
  <2> QED
    BY <2>2, <2>3 DEF CellOf, Store!Only
<1>6. LabelOf' = Store!Only(LabelOf, (Names \ {name}) \X Keys)
  <2>1. Labels' = Labels \cap ((Names \ {name}) \X Keys)
    BY <1>1, <1>2 DEF Labels
  <2>2. \A p \in Labels' : m_columns'[p[1]].metadata[p[2]] = m_columns[p[1]].metadata[p[2]]
    BY <1>1 DEF Labels
  <2> QED
    BY <2>1, <2>2 DEF LabelOf, Store!Only
<1> QED
  BY <1>1, <1>3, <1>4, <1>5, <1>6 DEF Store!RemoveColumn, TypeOf, LabelOf, CellOf

(* erase_row is the store's EraseRow.                                      *)
LEMMA EraseIsErase ==
  ASSUME IInv, IInv', NEW r, erase_row(r)
  PROVE  Store!EraseRow(r)
<1>1. /\ AliveRows' = AliveRows \ {r} /\ r \in AliveRows
      /\ Rows' = Rows /\ Len(m_alive') = Len(m_alive)
      /\ m_alive_count' = m_alive_count - 1
  BY RowErased DEF erase_row, IInv
<1>2. DOMAIN m_columns \subseteq Names /\ m_columns \in [DOMAIN m_columns -> Column]
  BY ColumnsIs
<1>3. m_columns' = [n \in DOMAIN m_columns |->
                      [m_columns[n] EXCEPT !.cells = Without(@, r)]]
  BY DEF erase_row
<1>4. /\ DOMAIN m_columns' = DOMAIN m_columns
      /\ \A n \in DOMAIN m_columns :
           /\ m_columns'[n].type_key = m_columns[n].type_key
           /\ m_columns'[n].metadata = m_columns[n].metadata
           /\ m_columns'[n].cells = Without(m_columns[n].cells, r)
  BY <1>2, <1>3 DEF Column
<1>5. TypeOf' = TypeOf
  BY <1>4 DEF TypeOf
<1>6. LabelOf' = LabelOf
  BY <1>4, SameLabels
<1>7. CellOf' = Store!Only(CellOf, (Nat \ {r}) \X Names)
  <2>1. Rows \subseteq Nat
    BY DEF IInv, TypeOK, Rows
  <2>2. \A n \in DOMAIN m_columns :
          /\ DOMAIN m_columns'[n].cells = DOMAIN m_columns[n].cells \ {r}
          /\ \A x \in DOMAIN m_columns'[n].cells :
               m_columns'[n].cells[x] = m_columns[n].cells[x]
    BY <1>4 DEF Without
  <2>3. Cells' = Cells \cap ((Nat \ {r}) \X Names)
    BY <1>1, <1>2, <1>4, <2>1, <2>2 DEF Cells
  <2>4. \A p \in Cells' : m_columns'[p[2]].cells[p[1]] = m_columns[p[2]].cells[p[1]]
    BY <1>4, <2>2 DEF Cells
  <2> QED
    BY <2>3, <2>4 DEF CellOf, Store!Only
<1> QED
  BY <1>1, <1>5, <1>6, <1>7 DEF Store!EraseRow, TypeOf, LabelOf, CellOf

(* A value that set has stored is the store's Set.                         *)
LEMMA StoreIsSet ==
  ASSUME IInv, IInv', NEW T, NEW r, NEW name, NEW p \in Payloads,
         typed(T, name), is_alive(r), Stored(r, name, Value(T, p))
  PROVE  Store!Set(r, name, p)
<1> DEFINE v == Value(T, p)
<1>1. /\ name \in DOMAIN m_columns /\ m_columns[name].type_key = T
      /\ m_columns \in [DOMAIN m_columns -> Column]
  BY ColumnsIs DEF typed, has_column
<1>2. /\ UNCHANGED <<m_alive, m_alive_count>>
      /\ AliveRows' = AliveRows /\ Rows' = Rows /\ r \in AliveRows /\ r \in Rows
  BY DEF Stored, AliveRows, is_alive, Rows
<1>3. /\ DOMAIN m_columns' = DOMAIN m_columns
      /\ \A n \in DOMAIN m_columns :
           /\ m_columns'[n].type_key = m_columns[n].type_key
           /\ m_columns'[n].metadata = m_columns[n].metadata
           /\ n # name => m_columns'[n].cells = m_columns[n].cells
      /\ m_columns'[name].cells = With(m_columns[name].cells, r, v)
  BY <1>1 DEF Stored, Column
<1>4. TypeOf' = TypeOf
  BY <1>3 DEF TypeOf
<1>5. LabelOf' = LabelOf
  BY <1>3, SameLabels
<1>6. CellOf' = Store!With(CellOf, <<r, name>>, v)
  <2>1. Cells' = Cells \cup {<<r, name>>}
    <3>1. \A x \in Rows, n \in DOMAIN m_columns :
            x \in DOMAIN m_columns'[n].cells
              <=> x \in DOMAIN m_columns[n].cells \/ (n = name /\ x = r)
      BY <1>3 DEF With
    <3> QED
      BY <1>1, <1>2, <1>3, <3>1 DEF Cells
  <2>2. m_columns'[name].cells[r] = v
    BY <1>3 DEF With
  <2>3. ASSUME NEW q \in Cells, q # <<r, name>>
        PROVE  m_columns'[q[2]].cells[q[1]] = m_columns[q[2]].cells[q[1]]
    <3>1. q = <<q[1], q[2]>> /\ q[2] \in DOMAIN m_columns
          /\ q[1] \in DOMAIN m_columns[q[2]].cells
      BY DEF Cells
    <3>2. CASE q[2] # name
      BY <1>3, <3>1, <3>2
    <3>3. CASE q[2] = name
      <4>1. q[1] # r
        BY <2>3, <3>1, <3>3
      <4> QED
        BY <1>3, <3>1, <3>3, <4>1 DEF With
    <3> QED
      BY <3>2, <3>3
  <2> QED
    BY <2>1, <2>2, <2>3 DEF CellOf, Store!With
<1>7. v = [type |-> TypeOf[name], is |-> p]
  BY <1>1 DEF TypeOf, Value
<1>8. name \in DOMAIN TypeOf
  BY <1>1 DEF TypeOf
<1> QED
  BY <1>2, <1>4, <1>5, <1>6, <1>7, <1>8 DEF Store!Set, TypeOf, LabelOf, CellOf

(* set_metadata is the store's Label.                                      *)
LEMMA LabelIsLabel ==
  ASSUME IInv, IInv', NEW name, NEW key \in Keys, NEW text,
         set_metadata(name, key, text)
  PROVE  Store!Label(name, key, text)
<1>1. name \in DOMAIN m_columns /\ m_columns \in [DOMAIN m_columns -> Column]
  BY ColumnsIs DEF set_metadata, has_column
<1>2. /\ UNCHANGED <<m_alive, m_alive_count>>
      /\ AliveRows' = AliveRows
  BY DEF set_metadata, AliveRows, is_alive, Rows
<1>3. /\ DOMAIN m_columns' = DOMAIN m_columns
      /\ \A n \in DOMAIN m_columns :
           /\ m_columns'[n].type_key = m_columns[n].type_key
           /\ m_columns'[n].cells = m_columns[n].cells
           /\ n # name => m_columns'[n].metadata = m_columns[n].metadata
      /\ m_columns'[name].metadata = With(m_columns[name].metadata, key, text)
  BY <1>1 DEF set_metadata, Column
<1>4. TypeOf' = TypeOf
  BY <1>3 DEF TypeOf
<1>5. CellOf' = CellOf
  BY <1>3, SameCells
<1>6. LabelOf' = Store!With(LabelOf, <<name, key>>, text)
  <2>1. Labels' = Labels \cup {<<name, key>>}
    <3>1. \A n \in DOMAIN m_columns, k \in Keys :
            k \in DOMAIN m_columns'[n].metadata
              <=> k \in DOMAIN m_columns[n].metadata \/ (n = name /\ k = key)
      BY <1>3 DEF With
    <3> QED
      BY <1>1, <1>3, <3>1 DEF Labels
  <2>2. m_columns'[name].metadata[key] = text
    BY <1>3 DEF With
  <2>3. ASSUME NEW q \in Labels, q # <<name, key>>
        PROVE  m_columns'[q[1]].metadata[q[2]] = m_columns[q[1]].metadata[q[2]]
    <3>1. q = <<q[1], q[2]>> /\ q[1] \in DOMAIN m_columns
          /\ q[2] \in DOMAIN m_columns[q[1]].metadata
      BY DEF Labels
    <3>2. CASE q[1] # name
      BY <1>3, <3>1, <3>2
    <3>3. CASE q[1] = name
      <4>1. q[2] # key
        BY <2>3, <3>1, <3>3
      <4> QED
        BY <1>3, <3>1, <3>3, <4>1 DEF With
    <3> QED
      BY <3>2, <3>3
  <2> QED
    BY <2>1, <2>2, <2>3 DEF LabelOf, Store!With
<1>7. name \in DOMAIN TypeOf
  BY <1>1 DEF TypeOf
<1> QED
  BY <1>2, <1>4, <1>5, <1>6, <1>7 DEF Store!Label, TypeOf, LabelOf, CellOf

(* Every step of dynamic_table is a step of the store, or none.            *)
LEMMA StepIsStore ==
  ASSUME IInv, [Next]_vars, IInv'
  PROVE  [Store!Next]_(Store!sVars)
<1>1. CASE insert_row
  BY <1>1, InsertIsInsert DEF Store!Next
<1>2. ASSUME NEW r, erase_row(r)  PROVE Store!Next
  <2>1. r \in AliveRows /\ Store!EraseRow(r)
    BY <1>2, EraseIsErase, RowErased DEF erase_row, IInv
  <2> QED
    BY <2>1 DEF Store!Next
<1>3. ASSUME NEW name \in Names, remove_column(name)  PROVE Store!Next
  BY <1>3, RemoveIsRemove DEF Store!Next
<1>4. ASSUME NEW T \in Types, NEW name \in Names, add_column(T, name)
      PROVE  Store!Next
  BY <1>4, AddIsAdd DEF Store!Next
<1>5. ASSUME NEW name \in Names, NEW key \in Keys, NEW text \in Texts,
             set_metadata(name, key, text)
      PROVE  Store!Next
  BY <1>5, LabelIsLabel DEF Store!Next
<1>6. ASSUME NEW T, NEW r, NEW name \in Names, NEW p \in Payloads,
             typed(T, name), is_alive(r), Stored(r, name, Value(T, p))
      PROVE  Store!Next
  <2>1. r \in AliveRows /\ Store!Set(r, name, p)
    BY <1>6, StoreIsSet DEF AliveRows, is_alive
  <2> QED
    BY <2>1 DEF Store!Next
<1>7. CASE UNCHANGED vars
  <2>1. UNCHANGED <<TypeOf, LabelOf, CellOf>>
    BY <1>7, RowsOnly DEF vars
  <2>2. AliveRows' = AliveRows /\ UNCHANGED <<m_alive, m_alive_count>>
    BY <1>7 DEF vars, AliveRows, is_alive, Rows
  <2> QED
    BY <2>1, <2>2 DEF Store!sVars, TypeOf, LabelOf, CellOf
<1> QED
  BY <1>1, <1>2, <1>3, <1>4, <1>5, <1>6, <1>7 DEF Next, Refused, set, SetThrows

(* dynamic_table implements TypedStore: a flat store of typed cells.       *)
THEOREM IsTypedStore == Spec => KeepsStore
<1>1. Init => Store!Init
  <2> SUFFICES ASSUME Init PROVE Store!Init
    OBVIOUS
  <2>1. /\ DOMAIN m_columns = {} /\ m_alive = <<>> /\ m_alive_count = 0
        /\ AliveRows = {} /\ Cells = {} /\ Labels = {}
    BY DEF Init, EmptyMap, AliveRows, is_alive, Rows, Cells, Labels
  <2> QED
    BY <2>1 DEF Store!Init
<1>2. IInv /\ [Next]_vars /\ IInv' => [Store!Next]_(Store!sVars)
  BY StepIsStore
<1> QED
  BY <1>1, <1>2, Invariance, PTL DEF Spec, KeepsStore, Store!Spec
=============================================================================
