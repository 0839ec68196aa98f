------------------------- MODULE DeliveryRefinement -------------------------
(* How Delivery keeps DeliveryContract. *)
EXTENDS Delivery

(* The contract, seen through the history of consumed and received cards.   *)
HeldFor(o) == IF given[o] = {} THEN Nil ELSE CHOOSE c \in given[o] : TRUE
Contract == INSTANCE DeliveryContract WITH
  pool <- stock,
  held <- [o \in Orders |-> HeldFor(o)],
  received <- [o \in Orders |-> chat[o] # {} /\ chat[o] \subseteq given[o]],
  recorded <- [o \in Orders |-> row[o].content]

(* Auto flows and sellers' clicks keep the contract: every card consumed is *)
(* consumed once for its order, sent at most once, and in the end recorded. *)
KeepsContract == Contract!Spec
=============================================================================
