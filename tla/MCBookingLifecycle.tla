------------------------ MODULE MCBookingLifecycle ------------------------
(* Instances of BookingLifecycle for TLC. *)
EXTENDS BookingLifecycle, FiniteSets, TLC

CONSTANTS t1, t2, b1, b2, e1, e2

\* The rule of migration 0014, and one whose shares leave the provider nothing.
SandboxRule == [platform |-> 1200, cashback |-> 200, partner |-> 200]
GreedyRule == [platform |-> 4999, cashback |-> 2500, partner |-> 2501]

Fixed(value, min) == [type |-> "fixed", value |-> value, max |-> 0, min |-> min]
Percentage(value, max, min) == [type |-> "percentage", value |-> value, max |-> max, min |-> min]

SomeCoupons == {NoCoupon, Fixed(100, 100), Fixed(2000, 150), Fixed(2000, 8000),
                Percentage(5000, 100000, 100), Percentage(5000, 120, 100), Percentage(100, 100, 200)}

\* Around the minimum, the thresholds of the coupons and the rounding.
BoundaryPrices == {100, 149, 150, 201, 333, 2101, 7999, 10000}

\* Two kinds of behaviour: calls race on bookings of one price without coupon, a
\* settlement of another amount being the only event under way, and reviews, which touch
\* no other booking, of a booking alone; or one booking of any price and coupon is born
\* and nothing else happens.
Plain(b) == intents[b] = None \/ (intents[b].list = 10000 /\ intents[b].discount = 0)
ServesEvent(t) == pc[t] # "idle" /\ call[t].kind \in {"settlement", "refund"}
OnePriceOrOneBirth ==
  \/ /\ \A b \in Bookings : Plain(b)
     /\ \A x \in Bookings \X Participants : reviews[x] # None =>
          \A b \in Bookings \ {x[1]} : bookings[b] = "none"
     /\ \A t \in Transactions : ServesEvent(t) /\ call[t].amount # 10000 =>
          /\ call[t].amount = 333 /\ call[t].kind = "settlement"
          /\ \A u \in Transactions \ {t} : ~ServesEvent(u)
  \/ /\ \A t \in Transactions : pc[t] = "idle"
     /\ Cardinality({b \in Bookings : intents[b] # None}) = 1

Symmetry == Permutations(Transactions) \cup Permutations(Bookings) \cup Permutations(Events)
=============================================================================
