SPECIFICATION FairSpec
CONSTANTS
  Chat = {a, b}
  Run = {1, 2, 3}
  None = None
  Commands = {"prompt", "new", "cancel"}
  Codes = {"ok", "stale"}
  MaxUpdates = 3
  MaxFaults = 1
INVARIANT SessionIsOwn
INVARIANT OneRun
PROPERTY ImplementsQueue
PROPERTY UpdatesTaken
PROPERTY RunsEnd
CHECK_DEADLOCK FALSE
