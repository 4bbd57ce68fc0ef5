SPECIFICATION FairSpec
CONSTANTS
  Command = {c1}
  Poll = {p1, p2}
  TTL = 2
  MaxTime = 3
  MaxFaults = 2
INVARIANT TypeOK
INVARIANT ClosedHasResult
PROPERTY ImplementsInbox
PROPERTY ResultArrives
PROPERTY ClosedInTheEnd
CHECK_DEADLOCK FALSE
