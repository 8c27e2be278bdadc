---------------------------- MODULE MCTableCalls ----------------------------
(* TableCalls on small instances: the columns are interchangeable, and no  *)
(* action but AssignBatch reads the history of invalidated handles.        *)
EXTENDS TableCalls

ColumnSymmetry == Permutations(Columns)
=============================================================================
