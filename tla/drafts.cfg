SPECIFICATION FairSpec
CONSTANTS
  Parent = {p}
  Child = {a, b}
  Draft = {d1}
  Request = {r1, r2, r3}
  Proposals = {"mission", "untimely", "protected", "nameless", "device", "unsupported"}
  TTL = 1
  MaxTime = 2
  MaxMessages = 1
  MaxTaps = 3
  MaxFaults = 2
INVARIANT TypeOK
PROPERTY ImplementsAgreement
INVARIANT AppliedWasAgreed
PROPERTY MessagesAnswered
CHECK_DEADLOCK FALSE
