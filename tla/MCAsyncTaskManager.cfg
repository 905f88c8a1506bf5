SPECIFICATION FairSpec
CONSTANTS
  t1 = t1
  t2 = t2
  t3 = t3
  w1 = w1
  w2 = w2
  NoTask = NoTask
  Tasks = {t1, t2, t3}
  Workers = {w1, w2}
  MaxThread = 2
INVARIANTS
  TypeOK
  ThreadsServeTheQueue
  CtxHasOneOwner
PROPERTIES
  ImplementsPool
  EverythingSettles
