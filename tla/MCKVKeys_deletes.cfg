\* A deletion between whose two steps the table grows.
SPECIFICATION Spec
CONSTANTS
  t1 = t1  t2 = t2  k1 = k1  k2 = k2  k3 = k3  k4 = k4  v = v  w = w  s1 = s1  s2 = s2
  Thread = {t1, t2}
  NoOwner = NoOwner
  Stripe = {s1, s2}
  MaxHeld = 1
  Key = {k1, k2, k3, k4}
  Value = {v}
  None = None
  NoKey = NoKey
  Hash <- MCHash
  StripeOf <- MCStripeOf
SYMMETRY Symmetry
CHECK_DEADLOCK FALSE
PROPERTIES
  DeletesWhatIsThere
