\* Two columns that come and go with either of two types, and the rows under them.
SPECIFICATION Spec
CONSTANTS
  Names = {age, temp}
  age = age
  temp = temp
  Types = {int, text}
  int = int
  text = text
  Keys = {unit}
  unit = unit
  Texts = {m}
  m = m
  Payloads = {0, 1}
  Blank = 0
  MaxRows = 3
INVARIANTS
  GetSafe
PROPERTY
  KeepsStore
