--------------------------- MODULE MCStripeEvents ---------------------------
(* A subscription, a renewal, a change made in Stripe's portal, a top-up.  *)
EXTENDS StripeEvents, TLC

Subscribe == [kind |-> "subscribe", plan |-> "pro",       named |-> TRUE]
Topup     == [kind |-> "topup",     plan |-> "developer", named |-> TRUE]
Cycle     == [kind |-> "cycle",     plan |-> "developer", named |-> TRUE]
Change    == [kind |-> "change",    plan |-> "team",      named |-> FALSE]

FourEvents == <<Subscribe, Topup, Cycle, Change>>
TwoEvents == <<Topup, Change>>

DeliverySymmetry == Permutations(Delivery)
=============================================================================
