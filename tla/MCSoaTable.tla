----------------------------- MODULE MCSoaTable -----------------------------
(* SoaTable on small instances.  Nothing in the code depends on which      *)
(* column is which, so the columns are interchangeable.                    *)
EXTENDS SoaTable

ColumnSymmetry == Permutations(Columns)
=============================================================================
