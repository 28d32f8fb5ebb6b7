\* Two clients, every command, one key with two values and a checkpoint: locks,
\* before-images, what the hash table holds while transactions run and roll
\* back, the chain of a rollback, and what the checkpoint lists.
SPECIFICATION Spec
CONSTANTS
  c1 = c1  c2 = c2  a = a  b = b  v = v  w = w  s1 = s1  s2 = s2
  None = None  Empty = Empty  NoKey = NoKey  NoOwner = NoOwner  NoReply = NoReply
  Client = {c1, c2}
  Key = {a}
  Value = {v, w}
  Stripe = {s1, s2}
  StripeOf <- MCStripeOf
  Command = {"begin", "get", "set", "del", "commit", "abort", "disconnect"}
  Garbage <- MCGarbage
  MaxTx = 2
  MaxLsn = 9
  MaxCheck = 1
  MaxHeld = 2
SYMMETRY Symmetry
CHECK_DEADLOCK FALSE
INVARIANTS
  TypeOK
  LocksMatchList
  BeforeImage
  WriteAhead
  DirtyOnlyUnderLock
  PrevChain
  RolledBack
  RollbackFindsItsRecords
  CheckListsUnfinished
PROPERTIES
  StrictWrite
