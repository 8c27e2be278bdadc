\* Two tasks and the calling thread, up to two exceptions anywhere.
SPECIFICATION Spec
CONSTANTS
  ColumnCount = 3
  Values = {0, 1}
  npos = 2
  MovedFrom = 99
  MaxFaults = 2
INVARIANTS
  TasksWithinCall
  ReturnSorts
  FailureContained
PROPERTY CallEnds
