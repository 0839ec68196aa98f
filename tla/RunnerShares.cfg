SPECIFICATION RunnerFairSpec
CONSTANTS
  t1 = t1
  t2 = t2
  t3 = t3
  d1 = d1
  d2 = d2
  Tasks = {t1, t2, t3}
  Dispatchers = {d1, d2}
  Scale = 2
  Weights <- Ratios
  MaxCalls = 4
  MaxSettings = 1
  Nil = Nil
INVARIANTS RunnerTypes OneCursor FairShare
PROPERTIES AgedInOrder EveryTaskServed
CHECK_DEADLOCK FALSE
