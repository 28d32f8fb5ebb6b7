\* The code's own buffer sizes, every way the bytes may be cut into packets.
SPECIFICATION FairSpec
CONSTANTS
  Garbled = "garbled"
  Name = {"a", "b", "v", "w"}
  Scripts <- MCScripts
CHECK_DEADLOCK FALSE
INVARIANTS
  RestInBuffer
  RedoRestores
PROPERTIES
  RollbackRestores
  HandlerEnds
