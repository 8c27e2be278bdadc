\* Every operation, clear and sorts that lose values included, and every fault, on three rows: the row, the one that remove moves, and another.
SPECIFICATION FaultSpec
CONSTANTS
  Columns = {0, 1}
  Values = {0, 1}
  npos = 3
  max_generation = 0
  MaxCriteria = 1
VIEW ProgramState
INVARIANTS
  TypeOK
  ColumnsConsistent
  PooledIsSigned
PROPERTIES
  TornByEraseOrSort
  FaultContained
