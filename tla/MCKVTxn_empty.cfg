\* A key is set to the empty value, and the transaction aborted.
SPECIFICATION Spec
CONSTANTS
  c1 = c1  c2 = c2  a = a  b = b  v = v  w = w  s1 = s1  s2 = s2
  None = None  Empty = Empty  NoKey = NoKey  NoOwner = NoOwner  NoReply = NoReply
  Client = {c1, c2}
  Key = {a}
  Value = {Empty}
  Stripe = {s1, s2}
  StripeOf <- MCStripeOf
  Command = {"begin", "set", "abort"}
  Garbage <- MCGarbage
  MaxTx = 1
  MaxLsn = 7
  MaxCheck = 0
  MaxHeld = 1
SYMMETRY ClientSymmetry
CHECK_DEADLOCK FALSE
INVARIANTS
  NeverCommittedIsAbsent
