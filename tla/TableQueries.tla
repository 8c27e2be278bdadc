---------------------------- MODULE TableQueries ----------------------------
(***************************************************************************)
(* What reads a basic_soa_table without changing it: the accessors and     *)
(* spans of include/soatable/soatable.hpp that SoaTable does not have, and *)
(* the folds of query.hpp and compute.hpp over a select or over a column.  *)
(*                                                                         *)
(* The accessors answer the same question, has this row this column, from  *)
(* different places: the signature, the column, or both.                   *)
(***************************************************************************)
EXTENDS SoaTable

(* get<C>(id) throws out_of_range when try_get finds nothing.              *)
get_throws(C, id) == try_get(C, id) = {}

(* get_expected<C>(id): an access_error, or the value.  It asks the column *)
(* and not the signature.                                                  *)
get_expected(C, id) ==
  IF ~is_valid(id) THEN <<"invalid_row">>
  ELSE IF ~contains(m_columns[C], id.index) THEN <<"missing_column">>
  ELSE <<"value", get(m_columns[C], id.index)>>

(* column<C>() and row_indices<C>(): the dense values, and their rows.     *)
column(C) == m_columns[C].data

row_indices(C) == m_columns[C].dense

(* validity<C>(): the bits set in the bitmap over the row slots.           *)
validity(C) == {i \in AliveSlots : C \in At(m_rows, i).signature}

(* select or view of columns, any of the smallest of which drives.         *)
Joined(Required) == select(Required, CHOOSE C \in Drivers(Required) : TRUE)

(* select of optional columns only: every alive row, in slot order, each   *)
(* column with what its try_get finds.                                     *)
select_optional ==
  Kept([i \in 1 .. Len(m_rows) |-> i - 1], AliveSlots)

(* Mutant: the row's index taken for the dense index.                      *)
OptionalDense(C, r) ==
  IF r < Len(m_columns[C].data) THEN {At(m_columns[C].data, r)} ELSE {}

Optional(C, r) ==
  IF contains(m_columns[C], r) THEN {get(m_columns[C], r)} ELSE {}

(* query::select_where: a filter on top of view; here, has it this value.  *)
select_where(C, v) ==
  Kept(Joined({C}), {r \in RowsIn(m_columns[C]) : get(m_columns[C], r) = v})

-----------------------------------------------------------------------------
(* query::group_reduce: a map from key to accumulator, started at init for *)
(* every new key.  key_of is the key itself; any projection is a           *)
(* renaming of keys that may put two of them together.                     *)
group_reduce(Key, Value, init, op(_, _)) ==
  FoldLeft(LAMBDA groups, r :
             LET k   == get(m_columns[Key], r)
                 acc == IF k \in DOMAIN groups THEN groups[k] ELSE init
                 new == op(acc, get(m_columns[Value], r))
             IN  [g \in DOMAIN groups \cup {k} |->
                    IF g = k THEN new ELSE groups[g]],
           <<>>, Joined({Key, Value}))

(* Mutant: groups by the value and sums the keys.                          *)
GroupSumSwapped(Key, Value) ==
  group_reduce(Value, Key, 0, LAMBDA acc, v : acc + v)

group_sum(Key, Value) ==
  group_reduce(Key, Value, 0, LAMBDA acc, v : acc + v)

group_count(Key) ==
  FoldLeft(LAMBDA counts, r :
             LET k == get(m_columns[Key], r)
             IN  [g \in DOMAIN counts \cup {k} |->
                    (IF g \in DOMAIN counts THEN counts[g] ELSE 0)
                      + (IF g = k THEN 1 ELSE 0)],
           <<>>, Joined({Key}))

(* compute::reduce_column and compute::count_column_if: over all values of *)
(* the column, tile by tile (one tile here): the sum, and how often v.     *)
reduce_column(C) == FoldLeft(+, 0, column(C))

count_column_if(C, v) == FoldLeft(LAMBDA total, x : IF x = v THEN total + 1 ELSE total,
                                  0, column(C))

(* The values timeseries::rolling_mean_column hands to rolling_mean.       *)
rolling_input(C) ==
  LET rows == Joined({C}) IN [i \in DOMAIN rows |-> get(m_columns[C], rows[i])]

-----------------------------------------------------------------------------
(* Has this row this column: contains, try_get, get, get_expected, the     *)
(* validity bitmap and the pair of spans give one answer, whoever asks     *)
(* with whatever handle.  (The header's error-handling contract lists them *)
(* as flavours of one accessor.)  A select of optional columns visits      *)
(* every alive row once, and finds in each column the same again.          *)
ObserversAgree ==
  \A C \in Columns :
    /\ \A id \in Handles :
         LET at == {i \in DOMAIN column(C) :
                      make_row_id(row_indices(C)[i]) = id}
         IN  /\ table_contains(C, id) <=> ~get_throws(C, id)
             /\ table_contains(C, id) <=> get_expected(C, id)[1] = "value"
             /\ table_contains(C, id) <=> (is_valid(id) /\ id.index \in validity(C))
             /\ table_contains(C, id) <=> at # {}
             /\ \A i \in at : /\ try_get(C, id) = {column(C)[i]}
                              /\ get_expected(C, id) = <<"value", column(C)[i]>>
    /\ rolling_input(C) = column(C)
    /\ IsInjective(select_optional)
    /\ ToSet(select_optional) = AliveSlots
    /\ \A r \in AliveSlots : Optional(C, r) = try_get(C, Handle(r))

(* What the folds compute is what their definition over the rows says,     *)
(* whichever column drives and however rows have moved: one group per key  *)
(* that occurs in a row with both columns, each such row counted once.     *)
RowsOf(Required) ==
  {r \in AliveSlots : \A C \in Required : contains(m_columns[C], r)}

FoldsExact ==
  /\ \A K, V \in Columns :
       LET rows == RowsOf({K, V})
           keys == {get(m_columns[K], r) : r \in rows}
       IN  group_sum(K, V) =
             [k \in keys |->
                MapThenSumSet(LAMBDA r : get(m_columns[V], r),
                              {r \in rows : get(m_columns[K], r) = k})]
  /\ \A K \in Columns :
       LET rows == RowsOf({K})
       IN  /\ group_count(K) =
                [k \in {get(m_columns[K], r) : r \in rows} |->
                   Cardinality({r \in rows : get(m_columns[K], r) = k})]
           /\ reduce_column(K) =
                MapThenSumSet(LAMBDA r : get(m_columns[K], r), rows)
           /\ \A v \in Values :
                /\ count_column_if(K, v) =
                     Cardinality({r \in rows : get(m_columns[K], r) = v})
                /\ ToSet(select_where(K, v)) =
                     {r \in rows : get(m_columns[K], r) = v}
=============================================================================
