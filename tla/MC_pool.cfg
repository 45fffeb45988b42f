SPECIFICATION FairSpec
CONSTANTS
  Workers = {w1, w2}
  Callers = {c1, c2}
  Tasks = {t1, t2, t3}
  NoTask = NoTask
CHECK_DEADLOCK FALSE
INVARIANTS
  RunsOnce
  ShutdownDrains
  NoLostWakeup
PROPERTIES
  ImplementsTaskQueue
  AcceptedTaskEnds
  DestructorReturns
