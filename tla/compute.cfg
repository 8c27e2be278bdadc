\* Three tiles of two elements, up to two exceptions a call.
SPECIFICATION ComputeSpec
CONSTANTS
  TileSize = 2
  Values = {0, 1, 2}
  MaxSize = 5
  ConstructorThrows = TRUE
  parallel_compute_threshold = 3
  MaxFaults = 2
  digits = 4
  Modulus = 4
INVARIANTS
  SpansCoverElements
  ParallelIsSerial
  TasksWithinCall
  FailureContained
  FieldsIndependent
  BitmapExact
  EncodingsNearest
  WindowsExact
PROPERTIES
  ActsAsVector
  CallEnds
