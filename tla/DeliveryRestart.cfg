SPECIFICATION Spec
CONSTANTS
  a1 = a1
  a2 = a2
  c1 = c1
  c2 = c2
  h1 = h1
  o1 = o1
  Orders = {o1}
  Cards = {c1, c2}
  Autos = {a1, a2}
  Handlers = {h1}
  Callers = {"manual"}
  Settings <- AnySetting
  Verdicts = {"allow"}
  Faults = {"restart"}
  MaxInst = 2
  MaxTries = 2
  MaxToggles = 2
  Nil = Nil
SYMMETRY Symmetric
INVARIANTS AtMostOneCard OneFlowPerOrder CardOnlyUnconfirmed
