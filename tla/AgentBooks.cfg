SPECIFICATION AgentFairSpec
CONSTANTS
  d1 = d1
  d2 = d2
  p1 = p1
  p2 = p2
  c1 = c1
  c2 = c2
  c3 = c3
  Users = {1, 2, 3, 4}
  Cards = {c1, c2, c3}
  Deliveries = {d1, d2}
  Pickups = {p1, p2}
  Deal <- FourDeals
  Prices <- FourPrices
  FirstBalance <- Balances
  FirstRows <- DealersHaveRows
  Gap <- Neighbours
  FirstLines <- TwoLines
  MaxRounds = 2
  Postings <- Withdrawal
  Nil = Nil
INVARIANTS AgentTypes BooksMatch PickupsDeadlockOnInserts DeliveriesShareNoLine
PROPERTIES    EveryOrderEnds
CHECK_DEADLOCK FALSE
