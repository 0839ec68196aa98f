-------------------------- MODULE DeliveryContract --------------------------
(***************************************************************************)
(* What delivering promises, whatever runs it: a line of the stock leaves  *)
(* the stock for one order, no order takes a second line, what reaches the *)
(* buyer is the line taken for the order, and the line is recorded with    *)
(* the order, once, after which nothing more happens to the order.         *)
(***************************************************************************)
CONSTANTS Orders, Cards, Nil

VARIABLES
  pool,     \* lines that may still be sold
  held,     \* the line taken for each order
  received, \* whether the buyer of each order has it
  recorded  \* the line shown with each order

vars == <<pool, held, received, recorded>>

Init ==
  /\ pool = Cards
  /\ held = [o \in Orders |-> Nil] /\ recorded = [o \in Orders |-> Nil]
  /\ received = [o \in Orders |-> FALSE]

Hand(o) ==
  /\ held[o] = Nil
  /\ \E c \in pool : pool' = pool \ {c} /\ held' = [held EXCEPT ![o] = c]
  /\ UNCHANGED <<received, recorded>>

Receive(o) ==
  /\ held[o] # Nil /\ recorded[o] = Nil /\ ~received[o]
  /\ received' = [received EXCEPT ![o] = TRUE]
  /\ UNCHANGED <<pool, held, recorded>>

Record(o) ==
  /\ held[o] # Nil /\ recorded[o] = Nil
  /\ recorded' = [recorded EXCEPT ![o] = held[o]]
  /\ UNCHANGED <<pool, held, received>>

Next == \E o \in Orders : Hand(o) \/ Receive(o) \/ Record(o)

Spec == Init /\ [][Next]_vars /\ \A o \in Orders : WF_vars(Record(o))
=============================================================================
