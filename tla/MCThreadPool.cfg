SPECIFICATION FairSpec
CONSTANTS
  Workers = {w1, w2}
  Tasks = {t1, t2, t3}
  NoTask = NoTask
INVARIANTS
  TypeOK
  NoLostWakeup
  JoinDrains
PROPERTIES
  ImplementsTaskExecutor
  JoinReturns
  AcceptedTasksRun
