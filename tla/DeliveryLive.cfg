SPECIFICATION LiveSpec
CONSTANTS
  a1 = a1
  c1 = c1
  c2 = c2
  h1 = h1
  o1 = o1
  Orders = {o1}
  Cards = {c1, c2}
  Autos = {a1}
  Handlers = {h1}
  Callers = {"scheduler"}
  Settings <- SchedulerEligible
  Verdicts = {"allow"}
  Faults = {}
  MaxInst = 1
  MaxTries = 2
  MaxToggles = 0
  Nil = Nil
PROPERTIES EveryOrderHandled
