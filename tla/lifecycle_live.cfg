SPECIFICATION FairSpec
CONSTANTS
  Occurrence = {o1}
  Child = {c1}
  Request = {r1, r2}
  ChildOf <- OneChild
  ScheduledFor <- AtZero
  Policy <- BinsOnly
  Operation = {"snooze", "done", "proof", "approve", "reject"}
  Minutes = {1}
  NotifyDeadline = 1
  Horizon = 2
  MaxTime = 3
  MaxFaults = 0
PROPERTY MissionsResolve
CHECK_DEADLOCK FALSE
