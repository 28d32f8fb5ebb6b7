\* A transaction open at a crash, with no checkpoint behind its BEGIN.
SPECIFICATION RecoverySpec
CONSTANTS
  c1 = c1  c2 = c2  a = a  b = b  v = v  w = w  s1 = s1
  None = None  Empty = Empty  NoKey = NoKey  NoOwner = NoOwner
  Client = {c1, c2}
  Key = {a}
  Value = {v}
  Stripe = {s1}
  StripeOf <- MCStripeOf
  Command = {"begin", "set", "commit", "abort"}
  Garbage <- MCNoGarbage
  MaxTx = 2
  MaxLsn = 9
  MaxCheck = 1
  MaxHeld = 1
  MaxCrash = 1
SYMMETRY Symmetry
CHECK_DEADLOCK FALSE
PROPERTIES
  LosersRolledBack
