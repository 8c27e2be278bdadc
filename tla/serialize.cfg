\* Save, change, load whole, cut or foreign buffers, and go on.
SPECIFICATION SerializeSpec
CONSTANTS
  Columns = {Age, Name}
  Age = Age
  Name = Name
  Values = {0}
  npos = 2
  max_generation = 1
  MaxCriteria = 1
  MaxChanges = 2
PROPERTY LoadAllOrNothing
