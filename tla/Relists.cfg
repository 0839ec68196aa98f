SPECIFICATION FairSpec
CONSTANTS
  Workers = {w1, w2}
  Orders = {o1}
  First = first
  Nil = nil
  Dead = dead
  MaxAttempts = 2
  MaxPosts = 3
  MaxListings = 2
  Budgets <- SmallBudgets
INVARIANTS TypeOK ListedOnce
PROPERTIES OnlyWhileEnabled SuccessMovesRule EveryClaimEnds ListingFollowed
