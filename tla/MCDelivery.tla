----------------------------- MODULE MCDelivery -----------------------------
(* Small instances of Delivery for TLC. *)
EXTENDS DeliveryRefinement, DeliveryInvariant, TLC

AnySetting == AllSettings
SendFirstOn == {[mode |-> "sendFirst", autoConfirm |-> TRUE]}

(* Settings under which the scheduler looks at the account and no failed    *)
(* confirmation keeps a card back.                                          *)
SchedulerEligible ==
  {s \in AllSettings : /\ s.autoConfirm \/ s.mode = "onlyCard"
                       /\ s.mode # "confirmFirst"}

Symmetric == Permutations(Autos) \cup Permutations(Handlers) \cup Permutations(Cards)
=============================================================================
