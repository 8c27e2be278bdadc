---------------------------- MODULE DynamicTable ----------------------------
(***************************************************************************)
(* dynamic_table (include/soatable/dynamic.hpp): columns added and removed *)
(* by name at run time, each with a type key, string metadata and a map    *)
(* from rows to cells; rows are never reused.  A value is its type and a   *)
(* payload, so that a cast to the wrong type would show.                   *)
(***************************************************************************)
EXTENDS Integers, Sequences, FiniteSets

CONSTANTS Names, Types,     \* of columns
          Keys, Texts,      \* of metadata
          Payloads, Blank,  \* what a cell holds; a value-initialised one
          MaxRows           \* bound: rows inserted

ASSUME PayloadsAssumption == Blank \in Payloads
ASSUME RowsAssumption     == MaxRows \in Nat

VARIABLES m_columns,        \* name -> column, of the columns there are
          m_alive,          \* row -> alive
          m_alive_count     \* what size() returns

vars == <<m_columns, m_alive, m_alive_count>>

-----------------------------------------------------------------------------
Value(T, p) == [type |-> T, is |-> p]

(* unordered_map: m[x] = y, and erase(x).                                  *)
With(m, x, y)  == [z \in DOMAIN m \cup {x} |-> IF z = x THEN y ELSE m[z]]
Without(m, x)  == [z \in DOMAIN m \ {x} |-> m[z]]
EmptyMap       == [z \in {} |-> {}]

Rows        == 0 .. Len(m_alive) - 1
is_alive(r) == r \in Rows /\ m_alive[r + 1]
AliveRows   == {r \in Rows : is_alive(r)}

has_column(name) == name \in DOMAIN m_columns

(* Mutant: any column of that name will do.                                *)
TypedUnchecked(T, name) == has_column(name)

(* typed<T>: the column is there and its cells are of type T.              *)
typed(T, name) == has_column(name) /\ m_columns[name].type_key = T

-----------------------------------------------------------------------------
Init == /\ m_columns = EmptyMap
        /\ m_alive = <<>>
        /\ m_alive_count = 0

(* Mutant: a column of the same name is replaced.                          *)
AddColumnReplaces(T, name) ==
  /\ m_columns' = With(m_columns, name, [type_key |-> T, metadata |-> EmptyMap,
                                         cells |-> EmptyMap])
  /\ UNCHANGED <<m_alive, m_alive_count>>

add_column(T, name) ==
  /\ ~has_column(name)
  /\ m_columns' = With(m_columns, name, [type_key |-> T, metadata |-> EmptyMap,
                                         cells |-> EmptyMap])
  /\ UNCHANGED <<m_alive, m_alive_count>>

remove_column(name) ==
  /\ has_column(name)
  /\ m_columns' = Without(m_columns, name)
  /\ UNCHANGED <<m_alive, m_alive_count>>

insert_row ==
  /\ Len(m_alive) < MaxRows
  /\ m_alive' = Append(m_alive, TRUE)
  /\ m_alive_count' = m_alive_count + 1
  /\ UNCHANGED m_columns

(* erase_row: every column drops the row's cell.                           *)
erase_row(r) ==
  /\ is_alive(r)
  /\ m_columns' = [n \in DOMAIN m_columns |->
                     [m_columns[n] EXCEPT !.cells = Without(@, r)]]
  /\ m_alive' = [m_alive EXCEPT ![r + 1] = FALSE]
  /\ m_alive_count' = m_alive_count - 1

Stored(r, name, v) ==
  /\ m_columns' = [m_columns EXCEPT ![name].cells = With(@, r, v)]
  /\ UNCHANGED <<m_alive, m_alive_count>>

(* set<T>: column, type and row are checked before anything changes.       *)
set(T, r, name, p) ==
  /\ typed(T, name)
  /\ is_alive(r)
  /\ Stored(r, name, Value(T, p))

(* The assignment throws, after operator[] has made the cell: a cell that  *)
(* was not there stays, value-initialised; another holds anything.         *)
SetThrows(T, r, name) ==
  /\ typed(T, name)
  /\ is_alive(r)
  /\ \E p \in Payloads :
       /\ r \notin DOMAIN m_columns[name].cells => p = Blank
       /\ Stored(r, name, Value(T, p))

set_metadata(name, key, text) ==
  /\ has_column(name)
  /\ m_columns' = [m_columns EXCEPT ![name].metadata = With(@, key, text)]
  /\ UNCHANGED <<m_alive, m_alive_count>>

(* What is turned away before anything changes: set, erase_row, removal or *)
(* labelling where the column, its type or the row is not the one asked    *)
(* for; some of them throw.                                                *)
Refused(T, r, name) ==
  /\ ~typed(T, name) \/ ~is_alive(r)
  /\ UNCHANGED vars

Next ==
  \/ insert_row
  \/ \E r \in 0 .. MaxRows : erase_row(r)
  \/ \E name \in Names : remove_column(name)
  \/ \E T \in Types, r \in 0 .. MaxRows, name \in Names : Refused(T, r, name)
  \/ \E T \in Types, name \in Names : add_column(T, name)
  \/ \E name \in Names, key \in Keys, text \in Texts : set_metadata(name, key, text)
  \/ \E T \in Types, r \in 0 .. MaxRows, name \in Names : SetThrows(T, r, name)
  \/ \E T \in Types, r \in 0 .. MaxRows, name \in Names, p \in Payloads :
       set(T, r, name, p)

Spec == Init /\ [][Next]_vars

-----------------------------------------------------------------------------
(* get<T>, as the set of what the pointer points to.  The row is looked up *)
(* in the column only: is_alive is not asked.                              *)
get(T, r, name) ==
  IF typed(T, name) /\ r \in DOMAIN m_columns[name].cells
  THEN {m_columns[name].cells[r]}
  ELSE {}

get_metadata(name, key) ==
  IF has_column(name) /\ key \in DOMAIN m_columns[name].metadata
  THEN {m_columns[name].metadata[key]}
  ELSE {}

-----------------------------------------------------------------------------
Maps(S, R) == UNION {[D -> R] : D \in SUBSET S}

Column == [type_key : Types, metadata : Maps(Keys, Texts),
           cells : Maps(Nat, [type : Types, is : Payloads])]

TypeOK ==
  /\ m_columns \in Maps(Names, Column)
  /\ m_alive \in Seq(BOOLEAN)
  /\ m_alive_count \in Nat

(* A pointer from get leads to a value of the asked type, whatever was     *)
(* removed and added under the same name, and never to a cell of a row     *)
(* that has been erased, although get asks neither.                        *)
GetSafe ==
  \A T \in Types, r \in 0 .. MaxRows, name \in Names :
    \A v \in get(T, r, name) : v.type = T /\ is_alive(r)

(* The table implements TypedStore: each call is one step of the flat      *)
(* store.                                                                  *)
Cells == {p \in Rows \X (DOMAIN m_columns) : p[1] \in DOMAIN m_columns[p[2]].cells}

Labels == {p \in (DOMAIN m_columns) \X Keys :
             p[2] \in DOMAIN m_columns[p[1]].metadata}

Store == INSTANCE TypedStore WITH
  next   <- Len(m_alive),
  live   <- AliveRows,
  size   <- m_alive_count,
  type   <- [n \in DOMAIN m_columns |-> m_columns[n].type_key],
  labels <- [p \in Labels |-> m_columns[p[1]].metadata[p[2]]],
  cells  <- [p \in Cells |-> m_columns[p[2]].cells[p[1]]]

(* No cell, label or row appears, changes or goes but by the call that is  *)
(* about it, and size() counts the rows there are, however often one is    *)
(* erased.                                                                 *)
KeepsStore == Store!Spec
=============================================================================
