---------------------------- MODULE MCAgentOrders ----------------------------
(* Four users. User 1 sells card c1 through user 3 (d1), and through user 3 *)
(* to user 4 (d2). User 1 sells c2 through user 3 to user 4, who picks it   *)
(* up (p1), and user 2 sells c3 through user 4 to user 3 (p2). Users 1 and  *)
(* 2 have earned nothing yet and have no balance row; the two rows would be *)
(* neighbours. User 3 may raise the price of d2.                            *)
EXTENDS AgentOrders, TLC

CONSTANTS d1, d2, p1, p2, c1, c2, c3

Of(c, d, l, w) == [card |-> c, dealer |-> d, level1 |-> l, owner |-> w]
At1(n1, n2, f, who) == [cost1 |-> n1, cost2 |-> n2, fee |-> f, payer |-> who]

FourDeals ==
  d1 :> Of(c1, 3, Nil, 1) @@ d2 :> Of(c1, 4, 3, 1) @@ p1 :> Of(c2, 4, 3, 1) @@ p2 :> Of(c3, 3, 4, 2)
FourPrices ==
  d1 :> {At1(1, 1, 1, "distributor")}
  @@ d2 :> {At1(1, 2, 1, "dealer"), At1(1, 3, 1, "dealer")}
  @@ p1 :> {At1(1, 2, 1, "dealer")} @@ p2 :> {At1(1, 2, 1, "dealer")}
Balances == 1 :> 0 @@ 2 :> 0 @@ 3 :> 1 @@ 4 :> 3
DealersHaveRows == {{3, 4}}
Neighbours == 1 :> 1 @@ 2 :> 1 @@ 3 :> 3 @@ 4 :> 4
Withdrawal == {[who |-> 1, amount |-> -1]}
TwoLines == c1 :> <<"x", "y">> @@ c2 :> <<"x">> @@ c3 :> <<"x">>

(* Two dealers of one card pick it up at the same time.                     *)
SharedDeals == p1 :> Of(c1, 2, Nil, 1) @@ p2 :> Of(c1, 3, Nil, 1)
OnePrice == p1 :> {At1(1, 1, 1, "dealer")} @@ p2 :> {At1(1, 1, 1, "dealer")}
EnoughForBoth == 1 :> 0 @@ 2 :> 2 @@ 3 :> 2
AllHaveRows == {{1, 2, 3}}
Alone == [u \in Users |-> u]
SharedLines == c1 :> <<"x", "y">>
=============================================================================
