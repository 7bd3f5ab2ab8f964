SPECIFICATION FairSpec
CONSTANTS
  i1 = i1
  i2 = i2
  a = a
  b = b
  Nobody = Nobody
  Items = {i1, i2}
  Submits = {a, b}
  Choices = {i1}
  Credits = {110, 119}
  OldRows <- MCOldRows
  NewItemsPerDay = 1
  QueueLimit = 1
  Window = 1
  MaxDay = 2
INVARIANTS
  TypeOK
  DailyCap
  OneAnswerADay
  ScheduleOfLog
  CountOfQueue
  StreakIsRun
PROPERTIES
  ImplementsJournal
  EverySubmitEnds
CHECK_DEADLOCK FALSE
