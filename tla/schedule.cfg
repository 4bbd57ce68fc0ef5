SPECIFICATION FairSpec
CONSTANTS
  Template = {t1}
  Zones <- ManyZones
  Day = 4
  HorizonDays = 1
  Slots <- SomeSlots
  Rules = {"freq=daily", "once"}
  Start = 4
  MaxTime = 9
  MaxUpdates = 1
  MaxFaults = 1
INVARIANT TypeOK
INVARIANT OnTime
INVARIANT DaysApart
PROPERTY HorizonCovered
PROPERTY TemplatesScheduled
CHECK_DEADLOCK FALSE
