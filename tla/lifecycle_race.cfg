SPECIFICATION Spec
CONSTANTS
  Occurrence = {o1}
  Child = {c1}
  Request = {r1, r2}
  ChildOf <- OneChild
  ScheduledFor <- AtZero
  Policy <- PianoOnly
  Operation = {"snooze", "done", "proof", "approve", "reject"}
  Minutes = {1, 3}
  NotifyDeadline = 1
  Horizon = 2
  MaxTime = 3
  MaxFaults = 2
INVARIANT TypeOK
INVARIANT CoinsEarned
INVARIANT NotifiedIsArmed
INVARIANT RemindedOnce
INVARIANT MissedOnce
INVARIANT SnoozedIsArmed
PROPERTY ImplementsAccount
SYMMETRY Symmetry
CHECK_DEADLOCK FALSE
