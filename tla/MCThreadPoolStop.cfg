SPECIFICATION FairSpec
CONSTANTS
  Workers = {w1}
  Tasks = {t1, t2}
  NoTask = NoTask
PROPERTY StopReturns
