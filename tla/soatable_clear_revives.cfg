\* Handles held across clear.
SPECIFICATION Spec
CONSTANTS
  Columns = {Age}
  Age = Age
  Values = {0}
  npos = 2
  max_generation = 1
  MaxCriteria = 1
INVARIANT
  StaleNeverValid
