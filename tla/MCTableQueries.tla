--------------------------- MODULE MCTableQueries ---------------------------
(* TableQueries on small instances: the columns are interchangeable.       *)
EXTENDS TableQueries

ColumnSymmetry == Permutations(Columns)
=============================================================================
