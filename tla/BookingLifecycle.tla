------------------------- MODULE BookingLifecycle -------------------------
(***************************************************************************)
(* The life of a booking after its acceptance: transition, cancel and      *)
(* review (api/bookings/bookings.service.ts) against each other and        *)
(* against the signed events of ingestSandboxEvent (api/finance/finance    *)
(* .service.ts), statement by statement, as concurrent READ COMMITTED      *)
(* transactions.                                                           *)
(*                                                                         *)
(* A transaction publishes its writes at COMMIT; until then it holds the   *)
(* rows it has written or locked, and the unique keys it has inserted, and *)
(* whoever needs one of them waits and then sees it as committed.          *)
(* Histories, audit rows and notifications are inserted in the same        *)
(* transaction and left out.                                               *)
(***************************************************************************)
EXTENDS FinancialSnapshot

CONSTANTS Transactions,  \* calls being served, one transaction each
          Bookings,
          Events,        \* ids of signed events
          Participants,  \* who may review: the customer and the provider
          Ratings,
          Prices,        \* amounts of accepted proposals
          Reserved,      \* campaign reservations a request may have
          Rule,          \* the active commercial rule
          None

ASSUME RuleAssumption == Rule \in Rules
ASSUME PricesAssumption == Prices \subseteq ListPrices
ASSUME ReservedAssumption == Reserved \subseteq Coupons \cup {NoCoupon}
ASSUME NoCouponAssumption == NoCoupon \notin Coupons

Statuses == {"none", "scheduled", "in_progress", "completed", "cancelled"}
Cancellable == {"scheduled", "in_progress"}
Cancellations == [prior : Cancellable]
Cases == [priority : {"normal", "high"}]
Intents == [list : Nat, discount : Nat, gross : Nat \ {0}, allocation : [Entries -> Nat],
            reservation : {"none", "redeemed", "ineligible"},
            status : {"authorized", "settled", "refunded"}]

Transitions == [kind : {"in_progress", "completed"}, booking : Bookings]
Cancels == [kind : {"cancelled"}, booking : Bookings]
Reviews == [kind : {"review"}, booking : Bookings, author : Participants, rating : Ratings]
SignedEvents == [kind : {"settlement", "refund"}, booking : Bookings, event : Events,
                 amount : Nat \ {0}]
Transacted == [kind : {"settlement", "refund"}, booking : Bookings, amount : Nat \ {0}]
Calls == Transitions \cup Cancels \cup Reviews \cup SignedEvents

ASSUME NoneAssumption ==
  None \notin Cancellations \cup Cases \cup Intents \cup Transacted \cup Calls \cup Ratings

VARIABLES bookings,      \* committed bookings.status
          requests,      \* committed service_requests.status, in the words of
                         \* the booking: 'booked' is "scheduled"
          cancellations, \* booking_cancellations, unique by booking
          cases,         \* support_cases, unique by booking
          reviews,       \* service_reviews, unique by booking and author
          intents,       \* payment_intents with their payment_allocations
          ledger,        \* financial_ledger_entries: credits minus debits by entry
          transacted,    \* payment_transactions by idempotency_key
          pc, call,      \* each transaction: its next statement, its arguments,
          read,          \* the booking status it has read,
          holds          \* and the rows and keys it has locked

committed == <<bookings, requests, cancellations, cases, reviews, intents, ledger, transacted>>
vars == <<committed, pc, call, read, holds>>

NothingPosted == [e \in Entries |-> 0]

Statements == {"idle", "read", "policy", "cancellation", "booking", "request", "case",
               "review", "lookup", "join", "intent", "transaction", "reconcile", "commit"}

Rows == ({"booking", "request", "cancellation", "case", "intent"} \X Bookings)
        \cup ({"transaction"} \X Events)
        \cup ({"review"} \X (Bookings \X Participants))

LifecycleTypeOK ==
  /\ bookings \in [Bookings -> Statuses]
  /\ requests \in [Bookings -> Statuses]
  /\ cancellations \in [Bookings -> Cancellations \cup {None}]
  /\ cases \in [Bookings -> Cases \cup {None}]
  /\ reviews \in [Bookings \X Participants -> Ratings \cup {None}]
  /\ intents \in [Bookings -> Intents \cup {None}]
  /\ ledger \in [Bookings -> [Entries -> Int]]
  /\ transacted \in [Events -> Transacted \cup {None}]
  /\ pc \in [Transactions -> Statements]
  /\ call \in [Transactions -> Calls \cup {None}]
  /\ read \in [Transactions -> Statuses]
  /\ holds \in [Transactions -> SUBSET Rows]

Init ==
  /\ bookings = [b \in Bookings |-> "none"]
  /\ requests = [b \in Bookings |-> "none"]
  /\ cancellations = [b \in Bookings |-> None]
  /\ cases = [b \in Bookings |-> None]
  /\ reviews = [x \in Bookings \X Participants |-> None]
  /\ intents = [b \in Bookings |-> None]
  /\ ledger = [b \in Bookings |-> NothingPosted]
  /\ transacted = [e \in Events |-> None]
  /\ pc = [t \in Transactions |-> "idle"]
  /\ call = [t \in Transactions |-> None]
  /\ read = [t \in Transactions |-> "none"]
  /\ holds = [t \in Transactions |-> {}]

\* The acceptance inserts the booking, and its trigger the financial snapshot.
InsertBooking(b, price, coupon, partnered) ==
  /\ bookings[b] = "none"
  /\ bookings' = [bookings EXCEPT ![b] = "scheduled"]
  /\ requests' = [requests EXCEPT ![b] = "scheduled"]
  /\ intents' = [intents EXCEPT ![b] = Snapshot(Rule, coupon, price, partnered)]
  /\ UNCHANGED <<cancellations, cases, reviews, ledger, transacted, pc, call, read, holds>>

-----------------------------------------------------------------------------
(* Statements and locks *)

Kind(t) == call[t].kind
Booking(t) == call[t].booking
Authored(t) == <<Booking(t), call[t].author>>

First(kind) == IF kind \in {"settlement", "refund"} THEN "lookup" ELSE "read"

\* The order of the statements of each handler.

\* Mutant: the request is updated before the booking.
RequestFirst == [read |-> "request", request |-> "booking", booking |-> "commit"]

InTransition == [read |-> "booking", booking |-> "request", request |-> "commit"]

InCancel == [read |-> "policy", policy |-> "cancellation", cancellation |-> "booking",
             booking |-> "request", request |-> "case", case |-> "commit"]

InReview == [read |-> "review", review |-> "commit"]

InEvent == [lookup |-> "join", join |-> "intent", intent |-> "transaction",
            transaction |-> "reconcile", reconcile |-> "commit"]

Order(kind) == IF kind \in {"in_progress", "completed"} THEN InTransition
               ELSE IF kind = "cancelled" THEN InCancel
               ELSE IF kind = "review" THEN InReview
               ELSE InEvent

Proceed(t) == pc' = [pc EXCEPT ![t] = Order(Kind(t))[@]]

\* The row or key the next statement locks.
Wanted(t) ==
  IF pc[t] \in {"cancellation", "booking", "request", "case", "intent"}
  THEN {<<pc[t], Booking(t)>>}
  ELSE IF pc[t] = "transaction" THEN {<<"transaction", call[t].event>>}
  ELSE IF pc[t] = "review" THEN {<<"review", Authored(t)>>}
  ELSE {}

Blockers(t) == {u \in Transactions \ {t} : holds[u] \cap Wanted(t) # {}}

\* A statement that locks what it wants, once nobody else holds it.
Lock(t) ==
  /\ Blockers(t) = {}
  /\ holds' = [holds EXCEPT ![t] = @ \cup Wanted(t)]
  /\ Proceed(t)
  /\ UNCHANGED <<committed, call, read>>

\* A statement that only reads.
Look(t) == Proceed(t) /\ UNCHANGED <<committed, call, holds>>

\* The amounts an event may state: that of the intent or another.
Claimable(b) == Prices \cup (IF intents[b] = None THEN {} ELSE {intents[b].gross})

Receive(t, c) ==
  /\ pc[t] = "idle"
  /\ bookings[c.booking] # "none"
  /\ call' = [call EXCEPT ![t] = c]
  /\ pc' = [pc EXCEPT ![t] = First(c.kind)]
  /\ UNCHANGED <<committed, read, holds>>

-----------------------------------------------------------------------------
(* transition, cancel, review *)

\* transitionRules[status].from
From(kind) == IF kind = "in_progress" THEN "scheduled" ELSE "in_progress"

\* The status a call asks for in its SELECT, and a first review of its author.
Permits(t, status) ==
  IF Kind(t) = "cancelled" THEN status \in Cancellable
  ELSE IF Kind(t) = "review" THEN status = "completed" /\ reviews[Authored(t)] = None
  ELSE status = From(Kind(t))

ReadBooking(t) ==
  /\ pc[t] = "read"
  /\ Permits(t, bookings[Booking(t)])
  /\ read' = [read EXCEPT ![t] = bookings[Booking(t)]]
  /\ Look(t)

\* The insert policy of booking_cancellations reads the booking once more.
CheckPolicy(t) ==
  /\ pc[t] = "policy"
  /\ bookings[Booking(t)] \in Cancellable
  /\ Look(t)
  /\ UNCHANGED read

InsertCancellation(t) ==
  /\ pc[t] = "cancellation"
  /\ cancellations[Booking(t)] = None
  /\ Lock(t)

\* Mutant: the UPDATE has no AND status = $3.
UpdateBookingBlindly(t) == pc[t] = "booking" /\ Lock(t)

\* Mutant: the UPDATE accepts any status its call could have read.
UpdateBookingIfPermitted(t) ==
  /\ pc[t] = "booking"
  /\ Permits(t, bookings[Booking(t)])
  /\ Lock(t)

\* UPDATE bookings ... WHERE status is still the one read.
UpdateBooking(t) ==
  /\ pc[t] = "booking"
  /\ bookings[Booking(t)] = read[t]
  /\ Lock(t)

UpdateRequest(t) == pc[t] = "request" /\ Lock(t)

InsertCase(t) ==
  /\ pc[t] = "case"
  /\ cases[Booking(t)] = None
  /\ Lock(t)

\* Mutant: ON CONFLICT DO UPDATE.
UpsertReview(t) == pc[t] = "review" /\ Lock(t)

\* ON CONFLICT DO NOTHING, and no row is an error.
InsertReview(t) ==
  /\ pc[t] = "review"
  /\ reviews[Authored(t)] = None
  /\ Lock(t)

-----------------------------------------------------------------------------
(* ingestSandboxEvent *)

Intent(t) == intents[Booking(t)]
Content(c) == [kind |-> c.kind, booking |-> c.booking, amount |-> c.amount]

\* The SELECT by eventId, before anything is locked.
LookUp(t) ==
  /\ pc[t] = "lookup"
  /\ transacted[call[t].event] = None
  /\ Look(t)
  /\ UNCHANGED read

\* SELECT intent JOIN booking ... FOR UPDATE OF intent takes its snapshot of
\* the booking when it starts; only the intent is read again after a wait.
JoinBooking(t) ==
  /\ pc[t] = "join"
  /\ read' = [read EXCEPT ![t] = bookings[Booking(t)]]
  /\ Look(t)

\* Mutant: a settlement does not ask for a completed booking.
SettlesAnything(t) ==
  /\ Intent(t).gross = call[t].amount
  /\ IF Kind(t) = "settlement"
     THEN Intent(t).status = "authorized"
     ELSE \/ Intent(t).status = "settled"
          \/ Intent(t).status = "authorized" /\ read[t] = "cancelled"

\* The checks between the SELECT and the first INSERT.
Applicable(t) ==
  /\ Intent(t).gross = call[t].amount
  /\ IF Kind(t) = "settlement"
     THEN Intent(t).status = "authorized" /\ read[t] = "completed"
     ELSE \/ Intent(t).status = "settled"
          \/ Intent(t).status = "authorized" /\ read[t] = "cancelled"

\* Mutant: the intent is read without FOR UPDATE.
ReadIntent(t) ==
  /\ pc[t] = "intent"
  /\ Applicable(t)
  /\ Look(t)
  /\ UNCHANGED read

LockIntent(t) ==
  /\ pc[t] = "intent"
  /\ Applicable(t)
  /\ Lock(t)

\* Mutant: the key is not unique.
InsertAnyTransaction(t) == pc[t] = "transaction" /\ Lock(t)

\* INSERT INTO payment_transactions, unique by idempotency_key.
InsertTransaction(t) ==
  /\ pc[t] = "transaction"
  /\ transacted[call[t].event] = None
  /\ Lock(t)

\* The ledger of the intent with the entries the event inserts: a settlement
\* credits each allocation, a refund debits it if it was credited.
Posted(t) == [e \in Entries |-> ledger[Booking(t)][e] +
  IF Kind(t) = "settlement" THEN Intent(t).allocation[e]
  ELSE IF Intent(t).status = "settled" THEN 0 - Intent(t).allocation[e]
  ELSE 0]

Expected(t) == IF Kind(t) = "settlement" THEN call[t].amount ELSE 0

\* The ledger check before COMMIT.
Reconcile(t) ==
  /\ pc[t] = "reconcile"
  /\ Net(Posted(t)) = Expected(t)
  /\ Look(t)
  /\ UNCHANGED read

-----------------------------------------------------------------------------
(* The end of a transaction *)

End(t) ==
  /\ pc' = [pc EXCEPT ![t] = "idle"]
  /\ call' = [call EXCEPT ![t] = None]
  /\ read' = [read EXCEPT ![t] = "none"]
  /\ holds' = [holds EXCEPT ![t] = {}]

MoveBooking(t) ==
  /\ bookings' = [bookings EXCEPT ![Booking(t)] = Kind(t)]
  /\ requests' = [requests EXCEPT ![Booking(t)] = Kind(t)]

CommitTransition(t) ==
  /\ pc[t] = "commit" /\ Kind(t) \in {"in_progress", "completed"}
  /\ MoveBooking(t)
  /\ End(t)
  /\ UNCHANGED <<cancellations, cases, reviews, intents, ledger, transacted>>

CommitCancel(t) ==
  /\ pc[t] = "commit" /\ Kind(t) = "cancelled"
  /\ MoveBooking(t)
  /\ cancellations' = [cancellations EXCEPT ![Booking(t)] = [prior |-> read[t]]]
  /\ cases' = [cases EXCEPT ![Booking(t)] =
       [priority |-> IF read[t] = "in_progress" THEN "high" ELSE "normal"]]
  /\ End(t)
  /\ UNCHANGED <<reviews, intents, ledger, transacted>>

CommitReview(t) ==
  /\ pc[t] = "commit" /\ Kind(t) = "review"
  /\ reviews' = [reviews EXCEPT ![Authored(t)] = call[t].rating]
  /\ End(t)
  /\ UNCHANGED <<bookings, requests, cancellations, cases, intents, ledger, transacted>>

CommitEvent(t) ==
  /\ pc[t] = "commit" /\ Kind(t) \in {"settlement", "refund"}
  /\ transacted' = [transacted EXCEPT ![call[t].event] = Content(call[t])]
  /\ ledger' = [ledger EXCEPT ![Booking(t)] = Posted(t)]
  /\ intents' = [intents EXCEPT ![Booking(t)].status =
       IF Kind(t) = "settlement" THEN "settled" ELSE "refunded"]
  /\ End(t)
  /\ UNCHANGED <<bookings, requests, cancellations, cases, reviews>>

\* A known event, which is answered as a duplicate if its content is the same;
\* a check that fails once its statement need not wait; any other error or a
\* crash: all end the transaction without a write.
Abandon(t) == pc[t] # "idle" /\ End(t) /\ UNCHANGED committed

Step(t) ==
  \/ ReadBooking(t) \/ CheckPolicy(t) \/ InsertCancellation(t) \/ UpdateBooking(t)
  \/ UpdateRequest(t) \/ InsertCase(t) \/ InsertReview(t)
  \/ LookUp(t) \/ JoinBooking(t) \/ LockIntent(t) \/ InsertTransaction(t) \/ Reconcile(t)
  \/ CommitTransition(t) \/ CommitCancel(t) \/ CommitReview(t) \/ CommitEvent(t)

Next ==
  \/ \E b \in Bookings, price \in Prices, coupon \in Reserved, partnered \in BOOLEAN :
       InsertBooking(b, price, coupon, partnered)
  \/ \E t \in Transactions :
       \/ \E c \in Transitions \cup Cancels \cup Reviews : Receive(t, c)
       \/ \E b \in Bookings, e \in Events, kind \in {"settlement", "refund"} :
            \E amount \in Claimable(b) :
              Receive(t, [kind |-> kind, booking |-> b, event |-> e, amount |-> amount])
       \/ Step(t) \/ Abandon(t)

Spec == Init /\ [][Next]_vars

-----------------------------------------------------------------------------
(* Properties *)

\* The request shows the status of its booking; a booking is cancelled if and
\* only if it has a cancellation, with a case, whatever start, completion and
\* cancellations were served at the same time.
EndingsAreCoherent == \A b \in Bookings :
  /\ requests[b] = bookings[b]
  /\ bookings[b] = "cancelled" <=> cancellations[b] # None
  /\ cancellations[b] # None <=> cases[b] # None

\* A booking moves along scheduled, in_progress, completed, and is cancelled
\* only before its completion; the cancellation records the status the booking
\* had, on which the priority of the case depends.
BookingPath == [][\A b \in Bookings : bookings'[b] # bookings[b] =>
  \/ bookings'[b] = "scheduled" /\ bookings[b] = "none"
  \/ bookings'[b] = "in_progress" /\ bookings[b] = "scheduled"
  \/ bookings'[b] = "completed" /\ bookings[b] = "in_progress"
  \/ /\ bookings'[b] = "cancelled"
     /\ bookings[b] \in Cancellable
     /\ cancellations'[b].prior = bookings[b]
     /\ cases'[b].priority = "high" <=> bookings[b] = "in_progress"]_vars

\* A review is of a completed service and is never replaced, even by a call of
\* its author that saw none.
ReviewsStand == [][\A x \in Bookings \X Participants : reviews'[x] # reviews[x] =>
  reviews[x] = None /\ bookings[x[1]] = "completed"]_vars

\* No set of calls waits in a circle: whoever locks a booking and its request
\* does so in this order, and events lock the intent before their key.
NoCircularWait == \A circle \in SUBSET Transactions :
  circle # {} => \E t \in circle : Blockers(t) \cap circle = {}

Applied(b, kind) == {e \in Events :
  transacted[e] # None /\ transacted[e].booking = b /\ transacted[e].kind = kind}

\* The ledger of an intent is its allocations while it is settled and nothing
\* before and after, for every beneficiary and whatever events are repeated,
\* reordered or processed at once (docs/security/payment-security.md:28).
LedgerBalances == \A b \in Bookings :
  ledger[b] = IF intents[b] # None /\ intents[b].status = "settled"
              THEN intents[b].allocation ELSE NothingPosted

\* At most one settlement and one refund is ever applied to an intent, and its
\* status tells which.
EventsTellStatus == \A b \in Bookings :
  /\ \A kind \in {"settlement", "refund"} : \A d, e \in Applied(b, kind) : d = e
  /\ intents[b] # None =>
       /\ intents[b].status = "refunded" <=> Applied(b, "refund") # {}
       /\ intents[b].status = "authorized" =>
            Applied(b, "settlement") \cup Applied(b, "refund") = {}
       /\ intents[b].status = "settled" => Applied(b, "settlement") # {}

\* Only a completed service is ever settled, and an intent is refunded without
\* a settlement only for a cancelled one, although the booking is not locked.
MoneyFollowsBooking == \A b \in Bookings :
  /\ Applied(b, "settlement") # {} => bookings[b] = "completed"
  /\ Applied(b, "refund") # {} /\ Applied(b, "settlement") = {} => bookings[b] = "cancelled"

\* The snapshot of a booking reconciles: no allocation is negative, together
\* they are the gross amount, which with the discount is the proposal's, and
\* something is left to pay (docs/security/payment-security.md:29).
SnapshotReconciles == \A b \in Bookings : intents[b] # None =>
  /\ \A e \in Entries : intents[b].allocation[e] >= 0
  /\ Net(intents[b].allocation) = intents[b].gross
  /\ intents[b].gross > 0 /\ intents[b].discount >= 0
  /\ intents[b].list = intents[b].gross + intents[b].discount

\* The records of the money agree at every commit, whatever events are repeated,
\* reordered or served at once: the snapshot reconciles, the ledger and the status
\* are those of the events applied, and these follow the end of the service.
FinanceReconciles ==
  SnapshotReconciles /\ LedgerBalances /\ EventsTellStatus /\ MoneyFollowsBooking

\* A booking's past is never rewritten: neither its statuses nor its reviews.
PastStands == BookingPath /\ ReviewsStand
=============================================================================
