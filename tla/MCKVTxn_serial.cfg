\* Two clients, two keys under two locks, on which they can deadlock: reads
\* against writes, commits and aborts of the other transaction, and what
\* finishes when the threads are scheduled fairly.
SPECIFICATION FairSpec
CONSTANTS
  c1 = c1  c2 = c2  a = a  b = b  v = v  w = w  s1 = s1  s2 = s2
  None = None  Empty = Empty  NoKey = NoKey  NoOwner = NoOwner  NoReply = NoReply
  Client = {c1, c2}
  Key = {a, b}
  Value = {v}
  Stripe = {s1, s2}
  StripeOf <- MCStripeOf
  Command = {"begin", "get", "set", "commit", "abort", "disconnect"}
  Garbage <- MCGarbage
  MaxTx = 2
  MaxLsn = 7
  MaxCheck = 0
  MaxHeld = 1
CHECK_DEADLOCK FALSE
PROPERTIES
  Serializable
  EndingFinishes
  CommandsFinish
