SPECIFICATION FairSpec
CONSTANTS
  r1 = r1
  r2 = r2
  r3 = r3
  Requests = {r1, r2, r3}
  Kinds = {"add", "startup", "update", "remove"}
  Nil = Nil
INVARIANTS TypeInv OneTask
PROPERTIES EveryRequestEnds
CHECK_DEADLOCK FALSE
