\* Accessors, folds and the comparator of sort_by_multi, on every pattern of values and missing columns that three rows can have.
SPECIFICATION StableSpec
CONSTANTS
  Columns = {Age, Name}
  Age = Age
  Name = Name
  Values = {0, 1}
  npos = 3
  max_generation = 0
  MaxCriteria = 2
SYMMETRY ColumnSymmetry
INVARIANTS
  MultiOrderStrict
  ObserversAgree
  FoldsExact
