CONSTANTS
  t1 = t1
  t2 = t2
  Tasks <- MCTasks
  Rounds <- MCRounds
  Refused <- NoSession
  MaxFaults = 2
SPECIFICATION FairSpec
INVARIANTS
  TaskTypeOK
  OneVerdict
  DeletedStaysDeleted
  NoticeOnce
PROPERTIES
  TaskIsTold
CHECK_DEADLOCK FALSE
