\* A later transaction that ends first: is the other still listed?
SPECIFICATION Spec
CONSTANTS
  Null = Null  Wild = Wild
  Node = {1, 2, 3}
  MaxConn = 2
  Fd = {1, 2}
  MaxCheck = 1
CHECK_DEADLOCK FALSE
INVARIANTS
  ListsAll
