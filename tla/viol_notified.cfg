SPECIFICATION FairSpec
CONSTANTS
  Occurrence = {o1}
  Child = {c1}
  Request = {r1}
  ChildOf <- OneChild
  ScheduledFor <- AtZero
  Policy <- BinsOnly
  Operation = {"snooze"}
  Minutes = {1}
  NotifyDeadline = 1
  Horizon = 2
  MaxTime = 3
  MaxFaults = 1
PROPERTY NotifiedResolves
CHECK_DEADLOCK FALSE
