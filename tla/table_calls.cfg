\* Batches, loops and their bodies, on two rows, each recycled once and then retired.
SPECIFICATION CallSpec
CONSTANTS
  Columns = {Age, Name}
  Age = Age
  Name = Name
  Values = {0, 1}
  npos = 2
  max_generation = 1
  MaxCriteria = 1
  MaxBatch = 2
  MaxBody = 2
SYMMETRY ColumnSymmetry
INVARIANTS
  AssignBatchExact
  LoopComplete
  AssignFromExact
  DirtyVisited
PROPERTIES
  InsertBatchAdds
  YieldsMatching
  KeepsPromise
