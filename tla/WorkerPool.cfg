SPECIFICATION FairSpec
CONSTANTS
  Masters = {m1}
  Workers = {w1, w2, w3}
  Tasks = {t1, t2, t3}
  NoTask = NoTask
INVARIANTS
  TypeOK
  TasksOnce
  QuietAfterShutdown
PROPERTIES
  WaitExact
  CallsReturn
