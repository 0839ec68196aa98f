SPECIFICATION AgentSpec
CONSTANTS
  p1 = p1
  p2 = p2
  d1 = d1
  d2 = d2
  c1 = c1
  c2 = c2
  c3 = c3
  Users = {1, 2, 3}
  Cards = {c1}
  Deliveries = {}
  Pickups = {p1, p2}
  Deal <- SharedDeals
  Prices <- OnePrice
  FirstBalance <- EnoughForBoth
  FirstRows <- AllHaveRows
  Gap <- Alone
  FirstLines <- SharedLines
  MaxRounds = 2
  Postings = {}
  Nil = Nil
INVARIANTS PickupsShareNoLine
CHECK_DEADLOCK FALSE
