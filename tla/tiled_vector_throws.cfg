\* The same when an element's constructor throws.
SPECIFICATION Spec
CONSTANTS
  TileSize = 2
  Values = {0}
  MaxSize = 5
  ConstructorThrows = TRUE
INVARIANT BackIsLast
