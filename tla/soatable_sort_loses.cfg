\* sort_by_column by a column that some rows lack.
SPECIFICATION Spec
CONSTANTS
  Columns = {Age, Name}
  Age = Age
  Name = Name
  Values = {0, 1}
  npos = 2
  max_generation = 1
  MaxCriteria = 1
SYMMETRY ColumnSymmetry
PROPERTY
  SortKeepsValues
