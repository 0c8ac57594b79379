SPECIFICATION Spec
CONSTANTS
  r1 = r1
  r2 = r2
  r3 = r3
  NLots = 2
  Refs = {r1, r2, r3}
  Qty <- Wanted
  Workers = {w1, w2}
  Sweepers = {s1}
  Consignments = {1, 2}
  MaxStock = 2
SYMMETRY LastTwo
INVARIANT BooksAgree
PROPERTY FirstExpiredFirst
CHECK_DEADLOCK FALSE
