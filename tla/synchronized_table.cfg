\* Three threads, four calls of read or write among them, two cells.
SPECIFICATION FairSpec
CONSTANTS
  Threads = {t1, t2, t3}
  t1 = t1
  t2 = t2
  t3 = t3
  Cells = {size, price}
  size = size
  price = price
  MaxCalls = 4
INVARIANTS
  Exclusion
PROPERTIES
  KeepsAtomic
  CallsEnd
