\* The documented part, on three rows: invariants of the slots and columns, and sorts.
SPECIFICATION StableSpec
CONSTANTS
  Columns = {Age, Name}
  Age = Age
  Name = Name
  Values = {0}
  npos = 3
  max_generation = 1
  MaxCriteria = 2
SYMMETRY ColumnSymmetry
INVARIANTS
  FreeListSound
  StaleNeverValid
  SignatureExact
  SelectExact
PROPERTY
  SortAligns
