SPECIFICATION Spec
CONSTANTS
  Pid = {p1, p2, p3}
  MaxKills = 1
  MaxSaves = 2
PROPERTY RefusedOnlyIfTaken
INVARIANT OneBridge
INVARIANT SessionsKept
CHECK_DEADLOCK FALSE
