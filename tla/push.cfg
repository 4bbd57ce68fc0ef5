SPECIFICATION PushSpec
CONSTANTS
  Parent = {p1}
  Child = {c1, c2}
  Code = {k1, k2}
  Phone = {f1, f2}
  Claim = {d1, d2}
  Lifetime = 0
  MaxTime = 1
  MaxTokens = 1
  MaxFaults = 1
  Reminder = {r1}
  TokenLife = 2
  Margin = 1
INVARIANT PairedAsAgreed
INVARIANT CachedTokenWorks
PROPERTY ImplementsDelivery
SYMMETRY Symmetry
CHECK_DEADLOCK FALSE
