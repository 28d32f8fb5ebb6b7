\* Two connections, two descriptors, three transactions and a checkpoint.
SPECIFICATION FairSpec
CONSTANTS
  Null = Null  Wild = Wild
  Node = {1, 2, 3}
  MaxConn = 2
  Fd = {1, 2}
  MaxCheck = 1
CHECK_DEADLOCK FALSE
INVARIANTS
  FollowsOrder
  OwnConnection
  NamesCheckpoint
  StopAfterCheckpoint
  DestroysOne
PROPERTIES
  Stops
