---------------------------- MODULE ColumnVector ----------------------------
(***************************************************************************)
(* The sparse-to-dense storage of one column: column_vector in             *)
(* include/soatable/soatable.hpp.  A column is a record of the three       *)
(* vectors the class keeps,                                                *)
(*                                                                         *)
(*   sparse : row index   -> dense index, npos when the row has no value   *)
(*   dense  : dense index -> row index                                     *)
(*   data   : dense index -> value                                         *)
(*                                                                         *)
(* and every member function that changes them is an operator from a       *)
(* column to a column, its statements in the order of the source.  Indices *)
(* are those of the code, from 0; At and Put do the shift to TLA+          *)
(* sequences.  Capacity (reserve, shrink_to_fit) is not state.             *)
(*                                                                         *)
(* npos is 2^32 - 1 in the code.  Here it is a parameter, so that a small  *)
(* instance reaches the end of the index space.                            *)
(***************************************************************************)
EXTENDS Integers, SequencesExt

CONSTANTS npos,     \* the largest index, kept as the "absent" sentinel
          Values    \* what a cell can hold; numbers, so that columns sort

ASSUME NposAssumption   == npos \in Nat \ {0}
ASSUME ValuesAssumption == Values \subseteq Int

-----------------------------------------------------------------------------
(* A C++ vector: element i, and the vector with element i overwritten.     *)

At(v, i)     == v[i + 1]
Put(v, i, x) == [v EXCEPT ![i + 1] = x]

Index       == 0 .. npos - 1    \* what can name a row or a dense position
IndexOrNpos == 0 .. npos

Column == [sparse : Seq(IndexOrNpos), dense : Seq(Index), data : Seq(Values)]

EmptyColumn == [sparse |-> <<>>, dense |-> <<>>, data |-> <<>>]

contains(c, r) == /\ r < Len(c.sparse)
                  /\ At(c.sparse, r) # npos

get(c, r) == At(c.data, At(c.sparse, r))      \* wants contains(c, r)

(* m_sparse.resize(n, npos), called only to grow.                          *)
Resized(sparse, n) ==
  [k \in 1 .. (IF n > Len(sparse) THEN n ELSE Len(sparse)) |->
     IF k <= Len(sparse) THEN sparse[k] ELSE npos]

(* emplace: overwrite in place, or append to the two dense vectors and     *)
(* write the sparse slot last.                                             *)
emplace(c, r, v) ==
  LET sparse == Resized(c.sparse, r + 1)
      slot   == At(sparse, r)
  IN  IF slot # npos
      THEN [c EXCEPT !.sparse = sparse, !.data = Put(@, slot, v)]
      ELSE [sparse |-> Put(sparse, r, Len(c.dense)),
            dense  |-> Append(c.dense, r),
            data   |-> Append(c.data, v)]

(* Mutant: the row is moved without its value.                             *)
FillHoleRowOnly(c, hole) ==
  [c EXCEPT !.sparse = Put(@, Last(c.dense), hole),
            !.dense  = Put(@, hole, Last(@))]

(* The hole that remove leaves is filled with the last element, unless the *)
(* hole is the last element.                                               *)
FillHole(c, hole) ==
  IF hole = Len(c.data) - 1
  THEN c
  ELSE [sparse |-> Put(c.sparse, Last(c.dense), hole),
        dense  |-> Put(c.dense, hole, Last(c.dense)),
        data   |-> Put(c.data, hole, Last(c.data))]

remove(c, r) ==
  IF ~contains(c, r)
  THEN c
  ELSE LET filled == FillHole(c, At(c.sparse, r))
       IN  [sparse |-> Put(filled.sparse, r, npos),
            dense  |-> Front(filled.dense),
            data   |-> Front(filled.data)]

(* The entries of order that are in S, pushed back one by one.             *)
Kept(order, S) ==
  LET upto[i \in 0 .. Len(order)] ==
        IF i = 0 THEN <<>>
        ELSE IF order[i] \in S THEN Append(upto[i - 1], order[i])
        ELSE upto[i - 1]
  IN  upto[Len(order)]

(* The rows that have a value, read off the sparse vector.                 *)
RowsIn(c) == {r \in Index : contains(c, r)}

(* reorder: rebuild the dense vectors in the given row order, skipping the *)
(* rows the column does not have, then rebuild the sparse vector at its    *)
(* old size.  A row the order does not name loses its value.               *)
reorder(c, order) ==
  LET dense == Kept(order, RowsIn(c))
  IN  [sparse |-> [k \in 1 .. Len(c.sparse) |->
                     IF \E i \in 1 .. Len(dense) : dense[i] = k - 1
                     THEN (CHOOSE i \in 1 .. Len(dense) : dense[i] = k - 1) - 1
                     ELSE npos],
       dense  |-> dense,
       data   |-> [i \in 1 .. Len(dense) |-> get(c, dense[i])]]

-----------------------------------------------------------------------------
(* What the three vectors must be to each other: data and dense are of one *)
(* length, and sparse and dense are inverse.                               *)
SparseSet(c) ==
  /\ Len(c.data) = Len(c.dense)
  /\ \A r \in Index :
       contains(c, r) => /\ At(c.sparse, r) < Len(c.dense)
                         /\ At(c.dense, At(c.sparse, r)) = r
  /\ \A d \in 0 .. Len(c.dense) - 1 :
       /\ At(c.dense, d) < Len(c.sparse)
       /\ At(c.sparse, At(c.dense, d)) = d
=============================================================================
