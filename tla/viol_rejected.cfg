SPECIFICATION Spec
CONSTANTS
  Parent = {}
  Child = {a}
  Draft = {d1}
  Request = {r1}
  Proposals = {"mission"}
  TTL = 1
  MaxTime = 1
  MaxMessages = 1
  MaxTaps = 2
  MaxFaults = 0
PROPERTY NoEffectOnceRejected
CHECK_DEADLOCK FALSE
