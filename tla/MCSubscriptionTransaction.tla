---------------------- MODULE MCSubscriptionTransaction ----------------------
(* Instances of SubscriptionTransaction for TLC. *)
EXTENDS SubscriptionTransaction

CONSTANTS a, b

Documents == {a, b}
=============================================================================
