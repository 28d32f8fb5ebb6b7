\* Two clients, a checkpoint at any point and two crashes, also of the recovery
\* and with a snapshot process that outlives its server.
SPECIFICATION RecoverySpec
CONSTANTS
  c1 = c1  c2 = c2  a = a  b = b  v = v  w = w  s1 = s1
  None = None  Empty = Empty  NoKey = NoKey  NoOwner = NoOwner
  Client = {c1, c2}
  Key = {a}
  Value = {v}
  Stripe = {s1}
  StripeOf <- MCStripeOf
  Command = {"begin", "set", "commit", "abort"}
  Garbage <- MCGarbage
  MaxTx = 2
  MaxLsn = 8
  MaxCheck = 1
  MaxHeld = 1
  MaxCrash = 2
SYMMETRY Symmetry
CHECK_DEADLOCK FALSE
INVARIANTS
  TxIdsUnique
  CheckedIsThere
PROPERTIES
  RecoversCommitted
  UndoesOnce
  DiesOnlyOf
