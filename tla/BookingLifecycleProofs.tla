----------------------- MODULE BookingLifecycleProofs -----------------------
(***************************************************************************)
(* The safety of BookingLifecycle for any number of calls, bookings and    *)
(* events.                                                                 *)
(***************************************************************************)
EXTENDS BookingLifecycle, FinancialSnapshotProofs

Moves == {"in_progress", "completed", "cancelled"}
Signed == {"settlement", "refund"}

-----------------------------------------------------------------------------
(* The inductive invariant *)

\* Two transactions never hold the same row or key.
Exclusive == \A t, u \in Transactions : t # u => holds[t] \cap holds[u] = {}

\* A transaction executes the statements of the call it serves.
Fits(t) ==
  /\ pc[t] # "idle" => call[t] \in Calls /\ bookings[Booking(t)] # "none"
  /\ pc[t] \in {"policy", "cancellation", "case"} => Kind(t) = "cancelled"
  /\ pc[t] \in {"booking", "request"} => Kind(t) \in Moves
  /\ pc[t] = "review" => Kind(t) = "review"
  /\ pc[t] \in {"lookup", "join", "intent", "transaction", "reconcile"} => Kind(t) \in Signed
  /\ pc[t] = "read" => Kind(t) \notin Signed

\* The status from which a transition or cancellation may start.
Departs(kind, status) ==
  IF kind = "cancelled" THEN status \in Cancellable ELSE status = From(kind)

\* Once it has locked the booking, a call that moves it knows its status.
Moving(t) == pc[t] # "idle" /\ Kind(t) \in Moves =>
  /\ pc[t] # "read" => Departs(Kind(t), read[t])
  /\ pc[t] \in {"request", "case", "commit"} =>
       <<"booking", Booking(t)>> \in holds[t] /\ bookings[Booking(t)] = read[t]

\* A review that goes on is of a completed booking.
Reviewing(t) == pc[t] # "idle" /\ Kind(t) = "review" =>
  /\ pc[t] # "read" => bookings[Booking(t)] = "completed"
  /\ pc[t] = "commit" => <<"review", Authored(t)>> \in holds[t] /\ reviews[Authored(t)] = None

\* The end of a booking, once read, is still its status; from the lock of the
\* intent on, the event is the one that applies to it.
Paying(t) == pc[t] # "idle" /\ Kind(t) \in Signed =>
  /\ pc[t] \notin {"lookup", "join"} /\ read[t] \in {"completed", "cancelled"} =>
       bookings[Booking(t)] = read[t]
  /\ pc[t] \in {"transaction", "reconcile", "commit"} =>
       <<"intent", Booking(t)>> \in holds[t] /\ Applicable(t)
  /\ pc[t] \in {"reconcile", "commit"} =>
       <<"transaction", call[t].event>> \in holds[t] /\ transacted[call[t].event] = None

Local(t) == Fits(t) /\ Moving(t) /\ Reviewing(t) /\ Paying(t)

\* A booking has its intent from the start.
Snapped == \A b \in Bookings : bookings[b] = "none" <=> intents[b] = None

Stored == EndingsAreCoherent /\ LedgerBalances /\ EventsTellStatus /\ MoneyFollowsBooking
          /\ SnapshotReconciles /\ Snapped

IInv == LifecycleTypeOK /\ Exclusive /\ (\A t \in Transactions : Local(t)) /\ Stored

-----------------------------------------------------------------------------
(* Calls *)

\* What the kind of a call tells of its arguments.
LEMMA CallFields ==
  ASSUME NEW c \in Calls
  PROVE  /\ c.booking \in Bookings
         /\ c.kind \in Moves \cup Signed \cup {"review"}
         /\ c.kind = "review" => c.author \in Participants /\ c.rating \in Ratings
         /\ c.kind \in Signed => c.event \in Events /\ c.amount \in Nat \ {0}
BY DEF Calls, Transitions, Cancels, Reviews, SignedEvents, Moves, Signed

\* A transaction that is not idle serves a call of a booking that exists.
LEMMA Serving ==
  ASSUME IInv, NEW t \in Transactions, pc[t] # "idle"
  PROVE  /\ call[t] \in Calls
         /\ Booking(t) \in Bookings
         /\ bookings[Booking(t)] # "none" /\ intents[Booking(t)] \in Intents
         /\ Kind(t) \in Moves \cup Signed \cup {"review"}
         /\ Kind(t) = "review" => Authored(t) \in Bookings \X Participants
         /\ Kind(t) \in Signed => call[t].event \in Events /\ call[t].amount \in Nat \ {0}
<1>1. call[t] \in Calls /\ bookings[Booking(t)] # "none"
  BY DEF IInv, Local, Fits
<1>2. Booking(t) \in Bookings
  BY <1>1, CallFields DEF Booking
<1>3. intents[Booking(t)] \in Intents
  BY <1>1, <1>2 DEF IInv, Stored, Snapped, LifecycleTypeOK
<1> QED BY <1>1, <1>2, <1>3, CallFields DEF Booking, Kind, Authored

\* A statement locks rows and keys of the tables.
LEMMA WantedRows ==
  ASSUME IInv, NEW t \in Transactions, pc[t] # "idle"
  PROVE  Wanted(t) \in SUBSET Rows
<1>1. Fits(t)
  BY DEF IInv, Local
<1> QED BY <1>1, Serving DEF Fits, Wanted, Rows

LEMMA InitInv == Init => IInv
<1> SUFFICES ASSUME Init PROVE IInv
  OBVIOUS
<1>1. LifecycleTypeOK
  BY DEF Init, LifecycleTypeOK, Statuses, Statements, NothingPosted
<1>2. Exclusive /\ \A t \in Transactions : Local(t)
  BY DEF Init, Exclusive, Local, Fits, Moving, Reviewing, Paying
<1>3. EndingsAreCoherent /\ LedgerBalances /\ SnapshotReconciles /\ Snapped
  BY DEF Init, EndingsAreCoherent, LedgerBalances, SnapshotReconciles, Snapped
<1>4. EventsTellStatus /\ MoneyFollowsBooking
  BY DEF Init, EventsTellStatus, MoneyFollowsBooking, Applied
<1> QED BY <1>1, <1>2, <1>3, <1>4 DEF IInv, Stored

-----------------------------------------------------------------------------
(* What the steps of others leave to a transaction *)

\* The step changes nothing that u has locked, and no booking that has ended.
Spares(u) == pc[u] # "idle" =>
  /\ bookings'[Booking(u)] # bookings[Booking(u)] =>
       /\ <<"booking", Booking(u)>> \notin holds[u]
       /\ bookings[Booking(u)] \notin {"completed", "cancelled"}
       /\ bookings'[Booking(u)] # "none"
  /\ intents'[Booking(u)] # intents[Booking(u)] => <<"intent", Booking(u)>> \notin holds[u]
  /\ Kind(u) = "review" /\ reviews'[Authored(u)] # reviews[Authored(u)] =>
       <<"review", Authored(u)>> \notin holds[u]
  /\ Kind(u) \in Signed /\ transacted'[call[u].event] # transacted[call[u].event] =>
       <<"transaction", call[u].event>> \notin holds[u]

LEMMA OthersStay ==
  ASSUME IInv, NEW u \in Transactions, Spares(u),
         pc'[u] = pc[u], call'[u] = call[u], read'[u] = read[u], holds'[u] = holds[u]
  PROVE  Local(u)'
<1>1. Local(u)
  BY DEF IInv
<1>2. CASE pc[u] = "idle"
  BY <1>2 DEF Local, Fits, Moving, Reviewing, Paying
<1>3. CASE pc[u] # "idle"
  <2>1. Kind(u)' = Kind(u) /\ Booking(u)' = Booking(u) /\ Authored(u)' = Authored(u)
    BY DEF Kind, Booking, Authored
  <2>2. Fits(u)'
    BY <1>1, <1>3, <2>1 DEF Local, Fits, Spares, Calls, Transitions, Cancels, Reviews, SignedEvents
  <2>3. Moving(u)'
    BY <1>1, <1>3, <2>1 DEF Local, Moving, Spares, Departs, From
  <2>4. Reviewing(u)'
    BY <1>1, <1>3, <2>1 DEF Local, Reviewing, Spares
  <2>5. Paying(u)'
    BY <1>1, <1>3, <2>1 DEF Local, Paying, Spares, Applicable, Intent
  <2> QED BY <2>2, <2>3, <2>4, <2>5 DEF Local
<1> QED BY <1>2, <1>3

\* A step that writes nothing.
LEMMA Unwritten ==
  ASSUME IInv, UNCHANGED committed
  PROVE  Stored' /\ \A u \in Transactions : Spares(u)
<1>1. UNCHANGED <<bookings, requests, cancellations, cases, reviews, intents, ledger, transacted>>
  BY DEF committed
<1>2. EndingsAreCoherent' /\ LedgerBalances' /\ SnapshotReconciles' /\ Snapped'
  BY <1>1 DEF IInv, Stored, EndingsAreCoherent, LedgerBalances, SnapshotReconciles, Snapped
<1>3. EventsTellStatus' /\ MoneyFollowsBooking'
  BY <1>1 DEF IInv, Stored, EventsTellStatus, MoneyFollowsBooking, Applied
<1> QED BY <1>1, <1>2, <1>3 DEF Stored, Spares

-----------------------------------------------------------------------------
(* Statements that publish nothing *)

\* Where each handler goes from each of its statements.
LEMMA Proceeds ==
  ASSUME IInv, NEW t \in Transactions, pc[t] \notin {"idle", "commit"}, Proceed(t)
  PROVE  /\ pc' \in [Transactions -> Statements] /\ pc'[t] # "idle"
         /\ \A u \in Transactions \ {t} : pc'[u] = pc[u]
         /\ pc[t] = "read" /\ Kind(t) = "cancelled" => pc'[t] = "policy"
         /\ pc[t] = "read" /\ Kind(t) \in {"in_progress", "completed"} => pc'[t] = "booking"
         /\ pc[t] = "read" /\ Kind(t) = "review" => pc'[t] = "review"
         /\ pc[t] = "policy" => pc'[t] = "cancellation"
         /\ pc[t] = "cancellation" => pc'[t] = "booking"
         /\ pc[t] = "booking" => pc'[t] = "request"
         /\ pc[t] = "request" /\ Kind(t) = "cancelled" => pc'[t] = "case"
         /\ pc[t] = "request" /\ Kind(t) \in {"in_progress", "completed"} => pc'[t] = "commit"
         /\ pc[t] \in {"case", "review", "reconcile"} => pc'[t] = "commit"
         /\ pc[t] = "lookup" => pc'[t] = "join"
         /\ pc[t] = "join" => pc'[t] = "intent"
         /\ pc[t] = "intent" => pc'[t] = "transaction"
         /\ pc[t] = "transaction" => pc'[t] = "reconcile"
<1>1. pc \in [Transactions -> Statements] /\ Fits(t) /\ Kind(t) \in Moves \cup Signed \cup {"review"}
  BY Serving DEF IInv, LifecycleTypeOK, Local
<1>2. pc' = [pc EXCEPT ![t] = Order(Kind(t))[pc[t]]]
  BY DEF Proceed
<1>3. pc'[t] = Order(Kind(t))[pc[t]] /\ \A u \in Transactions \ {t} : pc'[u] = pc[u]
  BY <1>1, <1>2
<1>4. CASE Kind(t) \in {"in_progress", "completed"}
  <2>1. pc[t] \in {"read", "booking", "request"}
    BY <1>1, <1>4 DEF Fits, Statements, Signed, Moves
  <2> QED BY <1>1, <1>2, <1>3, <1>4, <2>1 DEF Order, InTransition, Statements
<1>5. CASE Kind(t) = "cancelled"
  <2>1. pc[t] \in {"read", "policy", "cancellation", "booking", "request", "case"}
    BY <1>1, <1>5 DEF Fits, Statements, Signed, Moves
  <2> QED BY <1>1, <1>2, <1>3, <1>5, <2>1 DEF Order, InCancel, Statements
<1>6. CASE Kind(t) = "review"
  <2>1. pc[t] \in {"read", "review"}
    BY <1>1, <1>6 DEF Fits, Statements, Signed, Moves
  <2> QED BY <1>1, <1>2, <1>3, <1>6, <2>1 DEF Order, InReview, Statements
<1>7. CASE Kind(t) \in Signed
  <2>1. pc[t] \in {"lookup", "join", "intent", "transaction", "reconcile"}
    BY <1>1, <1>7 DEF Fits, Statements, Signed, Moves
  <2> QED BY <1>1, <1>2, <1>3, <1>7, <2>1 DEF Order, InEvent, Statements, Signed
<1> QED BY <1>1, <1>4, <1>5, <1>6, <1>7 DEF Moves

\* Only t moves.
Alone(t) == \A u \in Transactions \ {t} :
  pc'[u] = pc[u] /\ call'[u] = call[u] /\ read'[u] = read[u] /\ holds'[u] = holds[u]

\* What is left to show of a step that publishes nothing.
LEMMA QuietStep ==
  ASSUME IInv, NEW t \in Transactions, UNCHANGED committed, Alone(t),
         LifecycleTypeOK', Exclusive', Local(t)'
  PROVE  IInv'
<1>1. \A u \in Transactions \ {t} : Local(u)'
  BY OthersStay, Unwritten DEF Alone
<1> QED BY <1>1, Unwritten DEF IInv

LEMMA LockStep ==
  ASSUME IInv, NEW t \in Transactions, pc[t] \notin {"idle", "commit"}, Lock(t), Local(t)'
  PROVE  IInv'
<1>1. UNCHANGED committed /\ call' = call /\ read' = read
  BY DEF Lock
<1>2. LifecycleTypeOK /\ Exclusive
  BY DEF IInv
<1>3. holds' = [holds EXCEPT ![t] = holds[t] \cup Wanted(t)]
  BY DEF Lock
<1>4. pc' \in [Transactions -> Statements] /\ \A u \in Transactions \ {t} : pc'[u] = pc[u]
  BY Proceeds DEF Lock
<1>5. holds' \in [Transactions -> SUBSET Rows]
  BY <1>2, <1>3, WantedRows DEF LifecycleTypeOK
<1>6. LifecycleTypeOK'
  BY <1>1, <1>2, <1>4, <1>5 DEF LifecycleTypeOK, committed
<1>7. \A u \in Transactions \ {t} : holds'[u] = holds[u] /\ holds[u] \cap Wanted(t) = {}
  BY <1>2, <1>3 DEF LifecycleTypeOK, Lock, Blockers
<1>8. holds'[t] = holds[t] \cup Wanted(t)
  BY <1>2, <1>3 DEF LifecycleTypeOK
<1>9. Exclusive'
  BY <1>2, <1>7, <1>8 DEF Exclusive
<1> QED BY <1>1, <1>4, <1>6, <1>7, <1>9, QuietStep DEF Alone

LEMMA LookStep ==
  ASSUME IInv, NEW t \in Transactions, pc[t] \notin {"idle", "commit"}, Look(t),
         NEW status \in Statuses, read' = [read EXCEPT ![t] = status], Local(t)'
  PROVE  IInv'
<1>1. UNCHANGED committed /\ call' = call /\ holds' = holds
  BY DEF Look
<1>2. LifecycleTypeOK /\ Exclusive
  BY DEF IInv
<1>3. pc' \in [Transactions -> Statements] /\ \A u \in Transactions \ {t} : pc'[u] = pc[u]
  BY Proceeds DEF Look
<1>4. read' \in [Transactions -> Statuses] /\ \A u \in Transactions \ {t} : read'[u] = read[u]
  BY <1>2 DEF LifecycleTypeOK
<1>5. LifecycleTypeOK'
  BY <1>1, <1>2, <1>3, <1>4 DEF LifecycleTypeOK, committed
<1>6. Exclusive'
  BY <1>1, <1>2 DEF Exclusive
<1> QED BY <1>1, <1>3, <1>4, <1>5, <1>6, QuietStep DEF Alone

\* The call of a transaction does not change while it is served.
LEMMA SameCall ==
  ASSUME NEW t \in Transactions, call' = call
  PROVE  Kind(t)' = Kind(t) /\ Booking(t)' = Booking(t) /\ Authored(t)' = Authored(t)
BY DEF Kind, Booking, Authored

LEMMA ReadBookingInv ==
  ASSUME IInv, NEW t \in Transactions, ReadBooking(t)
  PROVE  IInv'
<1>1. pc[t] = "read" /\ Look(t) /\ Proceed(t) /\ UNCHANGED committed /\ call' = call /\ holds' = holds
  BY DEF ReadBooking, Look
<1>2. Fits(t) /\ Kind(t) \in Moves \cup {"review"} /\ bookings[Booking(t)] # "none"
  BY <1>1, Serving DEF IInv, Local, Fits
<1>3. bookings[Booking(t)] \in Statuses /\ Booking(t) \in Bookings
  BY <1>1, Serving DEF IInv, LifecycleTypeOK
<1>4. read' = [read EXCEPT ![t] = bookings[Booking(t)]] /\ read'[t] = bookings[Booking(t)]
  BY DEF ReadBooking, IInv, LifecycleTypeOK
<1>5. pc'[t] \in {"policy", "booking", "review"}
      /\ (pc'[t] = "policy" => Kind(t) = "cancelled")
      /\ (pc'[t] = "booking" => Kind(t) \in Moves) /\ (pc'[t] = "review" => Kind(t) = "review")
  BY <1>1, <1>2, Proceeds DEF Moves
<1>6. Fits(t)'
  BY <1>1, <1>2, <1>5, SameCall DEF Fits, committed, Signed, Moves
<1>7. Moving(t)' /\ Reviewing(t)' /\ Paying(t)'
  BY <1>1, <1>2, <1>4, <1>5, SameCall
     DEF Moving, Reviewing, Paying, Departs, ReadBooking, Permits, committed, Signed, Moves, From
<1> QED BY <1>1, <1>3, <1>4, <1>6, <1>7, LookStep DEF Local

\* A look that leaves the status already read.
LEMMA KeepRead ==
  ASSUME IInv, NEW t \in Transactions, read' = read
  PROVE  read[t] \in Statuses /\ read' = [read EXCEPT ![t] = read[t]]
BY DEF IInv, LifecycleTypeOK

LEMMA CheckPolicyInv ==
  ASSUME IInv, NEW t \in Transactions, CheckPolicy(t)
  PROVE  IInv'
<1>1. /\ pc[t] = "policy" /\ Look(t) /\ Proceed(t) /\ UNCHANGED committed
      /\ call' = call /\ holds' = holds /\ read' = read
  BY DEF CheckPolicy, Look
<1>2. Local(t) /\ pc'[t] = "cancellation" /\ Kind(t) = "cancelled"
  BY <1>1, Proceeds DEF IInv, Local, Fits
<1>3. Local(t)'
  BY <1>1, <1>2, SameCall DEF Local, Fits, Moving, Reviewing, Paying, Departs, committed, Signed, Moves
<1> QED BY <1>1, <1>3, KeepRead, LookStep

LEMMA InsertCancellationInv ==
  ASSUME IInv, NEW t \in Transactions, InsertCancellation(t)
  PROVE  IInv'
<1>1. /\ pc[t] = "cancellation" /\ Lock(t) /\ Proceed(t) /\ UNCHANGED committed
      /\ call' = call /\ read' = read
  BY DEF InsertCancellation, Lock
<1>2. Local(t) /\ pc'[t] = "booking" /\ Kind(t) = "cancelled"
  BY <1>1, Proceeds DEF IInv, Local, Fits
<1>3. Local(t)'
  BY <1>1, <1>2, SameCall DEF Local, Fits, Moving, Reviewing, Paying, Departs, committed, Signed, Moves
<1> QED BY <1>1, <1>3, LockStep

\* What t holds once it has locked what it wants.
LEMMA Locked ==
  ASSUME IInv, NEW t \in Transactions, Lock(t)
  PROVE  holds'[t] = holds[t] \cup Wanted(t)
BY DEF IInv, LifecycleTypeOK, Lock

LEMMA UpdateBookingInv ==
  ASSUME IInv, NEW t \in Transactions, UpdateBooking(t)
  PROVE  IInv'
<1>1. /\ pc[t] = "booking" /\ Lock(t) /\ Proceed(t) /\ UNCHANGED committed
      /\ call' = call /\ read' = read /\ bookings[Booking(t)] = read[t]
  BY DEF UpdateBooking, Lock
<1>2. Local(t) /\ pc'[t] = "request" /\ Kind(t) \in Moves
  BY <1>1, Proceeds DEF IInv, Local, Fits
<1>3. <<"booking", Booking(t)>> \in holds'[t]
  BY <1>1, Locked DEF Wanted
<1>4. Local(t)'
  BY <1>1, <1>2, <1>3, SameCall
     DEF Local, Fits, Moving, Reviewing, Paying, Departs, From, committed, Signed, Moves
<1> QED BY <1>1, <1>4, LockStep

LEMMA UpdateRequestInv ==
  ASSUME IInv, NEW t \in Transactions, UpdateRequest(t)
  PROVE  IInv'
<1>1. /\ pc[t] = "request" /\ Lock(t) /\ Proceed(t) /\ UNCHANGED committed
      /\ call' = call /\ read' = read
  BY DEF UpdateRequest, Lock
<1>2. Local(t) /\ Kind(t) \in Moves /\ pc'[t] \in {"case", "commit"}
      /\ (pc'[t] = "case" => Kind(t) = "cancelled")
  BY <1>1, Proceeds DEF IInv, Local, Fits, Moves
<1>3. Local(t)'
  BY <1>1, <1>2, Locked, SameCall
     DEF Local, Fits, Moving, Reviewing, Paying, Departs, From, committed, Signed, Moves
<1> QED BY <1>1, <1>3, LockStep

LEMMA InsertCaseInv ==
  ASSUME IInv, NEW t \in Transactions, InsertCase(t)
  PROVE  IInv'
<1>1. /\ pc[t] = "case" /\ Lock(t) /\ Proceed(t) /\ UNCHANGED committed
      /\ call' = call /\ read' = read
  BY DEF InsertCase, Lock
<1>2. Local(t) /\ Kind(t) = "cancelled" /\ pc'[t] = "commit"
  BY <1>1, Proceeds DEF IInv, Local, Fits
<1>3. Local(t)'
  BY <1>1, <1>2, Locked, SameCall
     DEF Local, Fits, Moving, Reviewing, Paying, Departs, committed, Signed, Moves
<1> QED BY <1>1, <1>3, LockStep

LEMMA InsertReviewInv ==
  ASSUME IInv, NEW t \in Transactions, InsertReview(t)
  PROVE  IInv'
<1>1. /\ pc[t] = "review" /\ Lock(t) /\ Proceed(t) /\ UNCHANGED committed
      /\ call' = call /\ read' = read /\ reviews[Authored(t)] = None
  BY DEF InsertReview, Lock
<1>2. Local(t) /\ Kind(t) = "review" /\ pc'[t] = "commit"
  BY <1>1, Proceeds DEF IInv, Local, Fits
<1>3. <<"review", Authored(t)>> \in holds'[t]
  BY <1>1, Locked DEF Wanted
<1>4. Local(t)'
  BY <1>1, <1>2, <1>3, SameCall
     DEF Local, Fits, Moving, Reviewing, Paying, committed, Signed, Moves
<1> QED BY <1>1, <1>4, LockStep

LEMMA LookUpInv ==
  ASSUME IInv, NEW t \in Transactions, LookUp(t)
  PROVE  IInv'
<1>1. /\ pc[t] = "lookup" /\ Look(t) /\ Proceed(t) /\ UNCHANGED committed
      /\ call' = call /\ holds' = holds /\ read' = read
  BY DEF LookUp, Look
<1>2. Local(t) /\ pc'[t] = "join" /\ Kind(t) \in Signed
  BY <1>1, Proceeds DEF IInv, Local, Fits
<1>3. Local(t)'
  BY <1>1, <1>2, SameCall DEF Local, Fits, Moving, Reviewing, Paying, committed, Signed, Moves
<1> QED BY <1>1, <1>3, KeepRead, LookStep

LEMMA JoinBookingInv ==
  ASSUME IInv, NEW t \in Transactions, JoinBooking(t)
  PROVE  IInv'
<1>1. /\ pc[t] = "join" /\ Look(t) /\ Proceed(t) /\ UNCHANGED committed
      /\ call' = call /\ holds' = holds
  BY DEF JoinBooking, Look
<1>2. Local(t) /\ pc'[t] = "intent" /\ Kind(t) \in Signed
  BY <1>1, Proceeds DEF IInv, Local, Fits
<1>3. bookings[Booking(t)] \in Statuses
  BY <1>1, Serving DEF IInv, LifecycleTypeOK
<1>4. read' = [read EXCEPT ![t] = bookings[Booking(t)]] /\ read'[t] = bookings[Booking(t)]
  BY DEF JoinBooking, IInv, LifecycleTypeOK
<1>5. Local(t)'
  BY <1>1, <1>2, <1>4, SameCall DEF Local, Fits, Moving, Reviewing, Paying, committed, Signed, Moves
<1> QED BY <1>1, <1>3, <1>4, <1>5, LookStep

\* Nothing an event compares changes with a statement that publishes nothing.
LEMMA StillApplicable ==
  ASSUME NEW t \in Transactions, UNCHANGED committed, call' = call, read' = read
  PROVE  Applicable(t)' <=> Applicable(t)
BY SameCall DEF Applicable, Intent, committed

LEMMA LockIntentInv ==
  ASSUME IInv, NEW t \in Transactions, LockIntent(t)
  PROVE  IInv'
<1>1. /\ pc[t] = "intent" /\ Lock(t) /\ Proceed(t) /\ UNCHANGED committed
      /\ call' = call /\ read' = read /\ Applicable(t)
  BY DEF LockIntent, Lock
<1>2. Local(t) /\ pc'[t] = "transaction" /\ Kind(t) \in Signed
  BY <1>1, Proceeds DEF IInv, Local, Fits
<1>3. <<"intent", Booking(t)>> \in holds'[t]
  BY <1>1, Locked DEF Wanted
<1>4. Local(t)'
  BY <1>1, <1>2, <1>3, SameCall, StillApplicable
     DEF Local, Fits, Moving, Reviewing, Paying, committed, Signed, Moves
<1> QED BY <1>1, <1>4, LockStep

LEMMA InsertTransactionInv ==
  ASSUME IInv, NEW t \in Transactions, InsertTransaction(t)
  PROVE  IInv'
<1>1. /\ pc[t] = "transaction" /\ Lock(t) /\ Proceed(t) /\ UNCHANGED committed
      /\ call' = call /\ read' = read /\ transacted[call[t].event] = None
  BY DEF InsertTransaction, Lock
<1>2. Local(t) /\ pc'[t] = "reconcile" /\ Kind(t) \in Signed
  BY <1>1, Proceeds DEF IInv, Local, Fits
<1>3. <<"transaction", call[t].event>> \in holds'[t] /\ holds[t] \subseteq holds'[t]
  BY <1>1, Locked DEF Wanted
<1>4. Local(t)'
  BY <1>1, <1>2, <1>3, SameCall, StillApplicable
     DEF Local, Fits, Moving, Reviewing, Paying, committed, Signed, Moves
<1> QED BY <1>1, <1>4, LockStep

LEMMA ReconcileInv ==
  ASSUME IInv, NEW t \in Transactions, Reconcile(t)
  PROVE  IInv'
<1>1. /\ pc[t] = "reconcile" /\ Look(t) /\ Proceed(t) /\ UNCHANGED committed
      /\ call' = call /\ holds' = holds /\ read' = read
  BY DEF Reconcile, Look
<1>2. Local(t) /\ pc'[t] = "commit" /\ Kind(t) \in Signed
  BY <1>1, Proceeds DEF IInv, Local, Fits
<1>3. Local(t)'
  BY <1>1, <1>2, SameCall, StillApplicable
     DEF Local, Fits, Moving, Reviewing, Paying, committed, Signed, Moves
<1> QED BY <1>1, <1>3, KeepRead, LookStep

LEMMA ReceiveInv ==
  ASSUME IInv, NEW t \in Transactions, NEW c \in Calls, Receive(t, c)
  PROVE  IInv'
<1>1. /\ pc[t] = "idle" /\ UNCHANGED <<committed, read, holds>> /\ bookings[c.booking] # "none"
      /\ call' = [call EXCEPT ![t] = c] /\ pc' = [pc EXCEPT ![t] = First(c.kind)]
  BY DEF Receive
<1>2. LifecycleTypeOK /\ Exclusive
  BY DEF IInv
<1>3. call'[t] = c /\ pc'[t] = First(c.kind) /\ Alone(t)
  BY <1>1, <1>2 DEF LifecycleTypeOK, Alone
<1>4. First(c.kind) \in Statements
  BY DEF First, Statements
<1>5. LifecycleTypeOK'
  BY <1>1, <1>2, <1>4 DEF LifecycleTypeOK, committed
<1>6. Exclusive'
  BY <1>1, <1>2 DEF Exclusive
<1>7. Local(t)'
  BY <1>1, <1>3, CallFields
     DEF Local, Fits, Moving, Reviewing, Paying, First, Kind, Booking, committed, Signed, Moves
<1> QED BY <1>1, <1>3, <1>5, <1>6, <1>7, QuietStep

-----------------------------------------------------------------------------
(* The end of a transaction *)

\* However it ends, a transaction leaves no lock and nothing to show of itself.
LEMMA Ends ==
  ASSUME IInv, NEW t \in Transactions, End(t)
  PROVE  /\ pc' \in [Transactions -> Statements] /\ call' \in [Transactions -> Calls \cup {None}]
         /\ read' \in [Transactions -> Statuses] /\ holds' \in [Transactions -> SUBSET Rows]
         /\ Alone(t) /\ Exclusive' /\ Local(t)'
<1>1. LifecycleTypeOK /\ Exclusive
  BY DEF IInv
<1>2. /\ pc' \in [Transactions -> Statements] /\ call' \in [Transactions -> Calls \cup {None}]
      /\ read' \in [Transactions -> Statuses] /\ holds' \in [Transactions -> SUBSET Rows]
  BY <1>1 DEF LifecycleTypeOK, End, Statements, Statuses
<1>3. Alone(t) /\ pc'[t] = "idle" /\ holds'[t] = {}
  BY <1>1 DEF LifecycleTypeOK, End, Alone
<1>4. Exclusive'
  BY <1>1, <1>3 DEF Exclusive, Alone
<1>5. Local(t)'
  BY <1>3 DEF Local, Fits, Moving, Reviewing, Paying
<1> QED BY <1>2, <1>3, <1>4, <1>5

LEMMA AbandonInv ==
  ASSUME IInv, NEW t \in Transactions, Abandon(t)
  PROVE  IInv'
<1>1. UNCHANGED committed /\ End(t)
  BY DEF Abandon
<1>2. LifecycleTypeOK'
  BY <1>1, Ends DEF IInv, LifecycleTypeOK, committed
<1> QED BY <1>1, <1>2, Ends, QuietStep

\* What is left to show of a COMMIT: the tables, and that it spares the others.
LEMMA CommitStep ==
  ASSUME IInv, NEW t \in Transactions, End(t), LifecycleTypeOK', Stored',
         \A u \in Transactions \ {t} : Spares(u)
  PROVE  IInv'
<1>1. \A u \in Transactions \ {t} : Local(u)'
  BY Ends, OthersStay DEF Alone
<1> QED BY <1>1, Ends DEF IInv

\* A COMMIT that moves a booking moves it, with its request, from a status the
\* call may start from, and disturbs nobody.
LEMMA Moved ==
  ASSUME IInv, NEW t \in Transactions, pc[t] = "commit", Kind(t) \in Moves, MoveBooking(t),
         UNCHANGED <<reviews, intents, transacted>>
  PROVE  /\ bookings' \in [Bookings -> Statuses] /\ requests' \in [Bookings -> Statuses]
         /\ \A b \in Bookings \ {Booking(t)} : bookings'[b] = bookings[b] /\ requests'[b] = requests[b]
         /\ bookings'[Booking(t)] = Kind(t) /\ requests'[Booking(t)] = Kind(t)
         /\ bookings[Booking(t)] = read[t] /\ read[t] \in Cancellable
         /\ Kind(t) # "cancelled" => read[t] = From(Kind(t))
         /\ \A u \in Transactions \ {t} : Spares(u)
<1>1. LifecycleTypeOK /\ Exclusive /\ Moving(t) /\ Booking(t) \in Bookings
  BY Serving DEF IInv, Local
<1>2. /\ bookings' \in [Bookings -> Statuses] /\ requests' \in [Bookings -> Statuses]
      /\ \A b \in Bookings \ {Booking(t)} : bookings'[b] = bookings[b] /\ requests'[b] = requests[b]
      /\ bookings'[Booking(t)] = Kind(t) /\ requests'[Booking(t)] = Kind(t)
  BY <1>1 DEF LifecycleTypeOK, MoveBooking, Moves, Statuses
<1>3. /\ bookings[Booking(t)] = read[t] /\ read[t] \in Cancellable
      /\ Kind(t) # "cancelled" => read[t] = From(Kind(t))
      /\ <<"booking", Booking(t)>> \in holds[t]
  BY <1>1 DEF Moving, Departs, From, Cancellable, Moves
<1>4. ASSUME NEW u \in Transactions \ {t}
      PROVE  Spares(u)
  <2>1. CASE pc[u] = "idle"
    BY <2>1 DEF Spares
  <2>2. CASE pc[u] # "idle"
    <3>1. Booking(u) \in Bookings
      BY <2>2, Serving
    <3>2. <<"booking", Booking(t)>> \notin holds[u]
      BY <1>1, <1>3 DEF Exclusive
    <3> QED BY <1>2, <1>3, <3>1, <3>2 DEF Spares, Cancellable, Moves
  <2> QED BY <2>1, <2>2
<1> QED BY <1>2, <1>3, <1>4

LEMMA CommitTransitionInv ==
  ASSUME IInv, NEW t \in Transactions, CommitTransition(t)
  PROVE  IInv'
<1>1. /\ pc[t] = "commit" /\ Kind(t) \in {"in_progress", "completed"} /\ MoveBooking(t) /\ End(t)
      /\ UNCHANGED <<cancellations, cases, reviews, intents, ledger, transacted>>
  BY DEF CommitTransition
<1>2. /\ bookings' \in [Bookings -> Statuses] /\ requests' \in [Bookings -> Statuses]
      /\ \A b \in Bookings \ {Booking(t)} : bookings'[b] = bookings[b] /\ requests'[b] = requests[b]
      /\ bookings'[Booking(t)] = Kind(t) /\ requests'[Booking(t)] = Kind(t)
      /\ bookings[Booking(t)] \in Cancellable
      /\ \A u \in Transactions \ {t} : Spares(u)
  BY <1>1, Moved DEF Moves
<1>3. LifecycleTypeOK'
  BY <1>1, <1>2, Ends DEF IInv, LifecycleTypeOK
<1>4. EndingsAreCoherent'
  BY <1>1, <1>2 DEF IInv, Stored, EndingsAreCoherent, Cancellable
<1>5. LedgerBalances' /\ SnapshotReconciles'
  BY <1>1 DEF IInv, Stored, LedgerBalances, SnapshotReconciles
<1>6. EventsTellStatus'
  BY <1>1 DEF IInv, Stored, EventsTellStatus, Applied
<1>7. MoneyFollowsBooking'
  BY <1>1, <1>2 DEF IInv, Stored, MoneyFollowsBooking, Applied, Cancellable
<1>8. Snapped'
  BY <1>1, <1>2 DEF IInv, Stored, Snapped, Cancellable
<1> QED BY <1>1, <1>2, <1>3, <1>4, <1>5, <1>6, <1>7, <1>8, CommitStep DEF Stored

LEMMA CommitCancelInv ==
  ASSUME IInv, NEW t \in Transactions, CommitCancel(t)
  PROVE  IInv'
<1>1. /\ pc[t] = "commit" /\ Kind(t) = "cancelled" /\ MoveBooking(t) /\ End(t)
      /\ cancellations' = [cancellations EXCEPT ![Booking(t)] = [prior |-> read[t]]]
      /\ cases' = [cases EXCEPT ![Booking(t)] =
           [priority |-> IF read[t] = "in_progress" THEN "high" ELSE "normal"]]
      /\ UNCHANGED <<reviews, intents, ledger, transacted>>
  BY DEF CommitCancel
<1>2. /\ bookings' \in [Bookings -> Statuses] /\ requests' \in [Bookings -> Statuses]
      /\ \A b \in Bookings \ {Booking(t)} : bookings'[b] = bookings[b] /\ requests'[b] = requests[b]
      /\ bookings'[Booking(t)] = "cancelled" /\ requests'[Booking(t)] = "cancelled"
      /\ bookings[Booking(t)] = read[t] /\ read[t] \in Cancellable
      /\ \A u \in Transactions \ {t} : Spares(u)
  BY <1>1, Moved DEF Moves
<1>3. LifecycleTypeOK /\ Booking(t) \in Bookings
  BY <1>1, Serving DEF IInv
<1>4. [prior |-> read[t]] \in Cancellations
  BY <1>2 DEF Cancellations
<1>5. [priority |-> IF read[t] = "in_progress" THEN "high" ELSE "normal"] \in Cases
  BY DEF Cases
<1>6. /\ cancellations' \in [Bookings -> Cancellations \cup {None}]
      /\ cases' \in [Bookings -> Cases \cup {None}]
      /\ cancellations'[Booking(t)] # None /\ cases'[Booking(t)] # None
      /\ \A b \in Bookings \ {Booking(t)} :
           cancellations'[b] = cancellations[b] /\ cases'[b] = cases[b]
  BY <1>1, <1>3, <1>4, <1>5, NoneAssumption DEF LifecycleTypeOK
<1>7. LifecycleTypeOK'
  BY <1>1, <1>2, <1>3, <1>6, Ends DEF LifecycleTypeOK
<1>8. EndingsAreCoherent'
  BY <1>2, <1>6 DEF IInv, Stored, EndingsAreCoherent
<1>9. LedgerBalances' /\ SnapshotReconciles'
  BY <1>1 DEF IInv, Stored, LedgerBalances, SnapshotReconciles
<1>10. EventsTellStatus'
  BY <1>1 DEF IInv, Stored, EventsTellStatus, Applied
<1>11. MoneyFollowsBooking'
  BY <1>1, <1>2 DEF IInv, Stored, MoneyFollowsBooking, Applied, Cancellable
<1>12. Snapped'
  BY <1>1, <1>2 DEF IInv, Stored, Snapped, Cancellable
<1> QED BY <1>1, <1>2, <1>7, <1>8, <1>9, <1>10, <1>11, <1>12, CommitStep DEF Stored

LEMMA CommitReviewInv ==
  ASSUME IInv, NEW t \in Transactions, CommitReview(t)
  PROVE  IInv'
<1>1. /\ pc[t] = "commit" /\ Kind(t) = "review" /\ End(t)
      /\ reviews' = [reviews EXCEPT ![Authored(t)] = call[t].rating]
      /\ UNCHANGED <<bookings, requests, cancellations, cases, intents, ledger, transacted>>
  BY DEF CommitReview
<1>2. LifecycleTypeOK /\ Exclusive /\ <<"review", Authored(t)>> \in holds[t]
      /\ Authored(t) \in Bookings \X Participants
  BY <1>1, Serving DEF IInv, Local, Reviewing
<1>3. call[t].rating \in Ratings
  BY <1>1, Serving, CallFields DEF Kind
<1>4. reviews' \in [Bookings \X Participants -> Ratings \cup {None}]
      /\ \A x \in (Bookings \X Participants) \ {Authored(t)} : reviews'[x] = reviews[x]
  BY <1>1, <1>2, <1>3 DEF LifecycleTypeOK
<1>5. LifecycleTypeOK'
  BY <1>1, <1>2, <1>4, Ends DEF LifecycleTypeOK
<1>6. Stored'
  <2>1. EndingsAreCoherent' /\ LedgerBalances' /\ SnapshotReconciles' /\ Snapped'
    BY <1>1 DEF IInv, Stored, EndingsAreCoherent, LedgerBalances, SnapshotReconciles, Snapped
  <2>2. EventsTellStatus' /\ MoneyFollowsBooking'
    BY <1>1 DEF IInv, Stored, EventsTellStatus, MoneyFollowsBooking, Applied
  <2> QED BY <2>1, <2>2 DEF Stored
<1>7. ASSUME NEW u \in Transactions \ {t}
      PROVE  Spares(u)
  <2>1. <<"review", Authored(t)>> \notin holds[u]
    BY <1>2 DEF Exclusive
  <2> QED BY <1>1, <1>4, <2>1, Serving DEF Spares
<1> QED BY <1>1, <1>5, <1>6, <1>7, CommitStep

\* The tables after the COMMIT of an event.
LEMMA EventTables ==
  ASSUME IInv, NEW t \in Transactions, CommitEvent(t)
  PROVE  LET b == Booking(t)
             e == call[t].event
             i == intents[b]
         IN /\ b \in Bookings /\ e \in Events /\ Kind(t) \in Signed /\ i \in Intents
            /\ <<"intent", b>> \in holds[t] /\ <<"transaction", e>> \in holds[t]
            /\ transacted[e] = None /\ Applicable(t)
            /\ Intent(t).status = "authorized" => bookings[b] = read[t]
            /\ transacted' \in [Events -> Transacted \cup {None}]
            /\ transacted'[e] = Content(call[t]) /\ transacted'[e] # None
            /\ \A d \in Events \ {e} : transacted'[d] = transacted[d]
            /\ intents' \in [Bookings -> Intents \cup {None}] /\ intents'[b] \in Intents
            /\ intents'[b].status = IF Kind(t) = "settlement" THEN "settled" ELSE "refunded"
            /\ intents'[b].allocation = i.allocation /\ intents'[b].gross = i.gross
            /\ intents'[b].list = i.list /\ intents'[b].discount = i.discount
            /\ \A a \in Bookings \ {b} : intents'[a] = intents[a]
<1> DEFINE b == Booking(t)
           e == call[t].event
           i == intents[b]
           status == IF Kind(t) = "settlement" THEN "settled" ELSE "refunded"
<1>1. /\ pc[t] = "commit" /\ Kind(t) \in Signed
      /\ transacted' = [transacted EXCEPT ![e] = Content(call[t])]
      /\ intents' = [intents EXCEPT ![b].status = status]
  BY DEF CommitEvent, Signed
<1>2. LifecycleTypeOK /\ Paying(t) /\ call[t] \in Calls /\ b \in Bookings /\ e \in Events
      /\ i \in Intents /\ call[t].amount \in Nat \ {0}
  BY <1>1, Serving DEF IInv, Local
<1>3. /\ <<"intent", b>> \in holds[t] /\ <<"transaction", e>> \in holds[t]
      /\ transacted[e] = None /\ Applicable(t)
      /\ read[t] \in {"completed", "cancelled"} => bookings[b] = read[t]
  BY <1>1, <1>2 DEF Paying
<1>4. Intent(t).status = "authorized" => bookings[b] = read[t]
  BY <1>1, <1>3 DEF Applicable
<1>5. Content(call[t]) \in Transacted
  BY <1>1, <1>2 DEF Content, Transacted, Kind, Booking, Signed
<1>6. /\ transacted' \in [Events -> Transacted \cup {None}]
      /\ transacted'[e] = Content(call[t]) /\ transacted'[e] # None
      /\ \A d \in Events \ {e} : transacted'[d] = transacted[d]
  BY <1>1, <1>2, <1>5, NoneAssumption DEF LifecycleTypeOK
<1>7. intents'[b] = [i EXCEPT !.status = status] /\ \A a \in Bookings \ {b} : intents'[a] = intents[a]
  BY <1>1, <1>2 DEF LifecycleTypeOK
<1>8. /\ [i EXCEPT !.status = status] \in Intents
      /\ [i EXCEPT !.status = status].status = status
      /\ [i EXCEPT !.status = status].allocation = i.allocation
      /\ [i EXCEPT !.status = status].gross = i.gross
      /\ [i EXCEPT !.status = status].list = i.list
      /\ [i EXCEPT !.status = status].discount = i.discount
  BY <1>2 DEF Intents
<1>9. intents' \in [Bookings -> Intents \cup {None}]
  BY <1>1, <1>2, <1>7, <1>8 DEF LifecycleTypeOK
<1> QED BY <1>1, <1>2, <1>3, <1>4, <1>6, <1>7, <1>8, <1>9

\* An event adds itself, and only itself, to what is applied to its intent.
LEMMA EventApplied ==
  ASSUME IInv, NEW t \in Transactions, CommitEvent(t), NEW b \in Bookings, NEW kind \in Signed
  PROVE  Applied(b, kind)' = Applied(b, kind) \cup
           (IF b = Booking(t) /\ kind = Kind(t) THEN {call[t].event} ELSE {})
<1> DEFINE e == call[t].event
<1>1. /\ e \in Events /\ transacted[e] = None
      /\ transacted'[e] = Content(call[t]) /\ transacted'[e] # None
      /\ \A d \in Events \ {e} : transacted'[d] = transacted[d]
  BY EventTables
<1>2. Content(call[t]).booking = Booking(t) /\ Content(call[t]).kind = Kind(t)
  BY DEF Content, Booking, Kind
<1> QED BY <1>1, <1>2 DEF Applied

\* A settlement credits the allocations, and a refund takes back what was credited.
LEMMA PostedBalance ==
  ASSUME IInv, NEW t \in Transactions, CommitEvent(t)
  PROVE  /\ Kind(t) = "settlement" => Posted(t) = intents[Booking(t)].allocation
         /\ Kind(t) = "refund" => Posted(t) = NothingPosted
<1> DEFINE b == Booking(t)
           a == intents[b].allocation
<1>1. b \in Bookings /\ Applicable(t) /\ intents[b] \in Intents
  BY EventTables
<1>2. a \in [Entries -> Nat] /\ intents[b] # None
  BY <1>1, NoneAssumption DEF Intents
<1>3. ledger[b] = IF intents[b].status = "settled" THEN a ELSE NothingPosted
  BY <1>1, <1>2 DEF IInv, Stored, LedgerBalances
<1>4. ASSUME Kind(t) = "settlement" PROVE Posted(t) = a
  <2>1. intents[b].status = "authorized"
    BY <1>1, <1>4 DEF Applicable, Intent
  <2>2. \A e \in Entries : ledger[b][e] = 0
    BY <1>3, <2>1 DEF NothingPosted
  <2>3. Posted(t) = [e \in Entries |-> ledger[b][e] + a[e]]
    BY <1>4 DEF Posted, Intent
  <2>4. \A e \in Entries : ledger[b][e] + a[e] = a[e]
    BY <1>2, <2>2
  <2>5. Posted(t) = [e \in Entries |-> a[e]]
    BY <2>3, <2>4
  <2> QED BY <1>2, <2>5
<1>5. ASSUME Kind(t) = "refund" PROVE Posted(t) = NothingPosted
  <2>1. CASE intents[b].status = "settled"
    <3>1. Posted(t) = [e \in Entries |-> ledger[b][e] + (0 - a[e])]
      BY <1>5, <2>1 DEF Posted, Intent
    <3>2. \A e \in Entries : ledger[b][e] + (0 - a[e]) = 0
      BY <1>2, <1>3, <2>1
    <3> QED BY <3>1, <3>2 DEF NothingPosted
  <2>2. CASE intents[b].status # "settled"
    <3>1. Posted(t) = [e \in Entries |-> ledger[b][e] + 0]
      BY <1>5, <2>2 DEF Posted, Intent
    <3>2. \A e \in Entries : ledger[b][e] + 0 = 0
      BY <1>3, <2>2 DEF NothingPosted
    <3> QED BY <3>1, <3>2 DEF NothingPosted
  <2> QED BY <2>1, <2>2
<1> QED BY <1>4, <1>5

LEMMA CommitEventInv ==
  ASSUME IInv, NEW t \in Transactions, CommitEvent(t)
  PROVE  IInv'
<1>0. PICK b \in Bookings : b = Booking(t)
  BY EventTables
<1> DEFINE e == call[t].event
           i == intents[b]
<1>1. /\ pc[t] = "commit" /\ End(t)
      /\ ledger' = [ledger EXCEPT ![b] = Posted(t)]
      /\ UNCHANGED <<bookings, requests, cancellations, cases, reviews>>
  BY <1>0 DEF CommitEvent
<1>2. LifecycleTypeOK /\ Exclusive /\ Stored
  BY DEF IInv
<1>3. /\ b \in Bookings /\ e \in Events /\ Kind(t) \in Signed /\ i \in Intents
      /\ <<"intent", b>> \in holds[t] /\ <<"transaction", e>> \in holds[t]
      /\ Applicable(t) /\ Intent(t) = i
      /\ Intent(t).status = "authorized" => bookings[b] = read[t]
      /\ \A d \in Events \ {e} : transacted'[d] = transacted[d]
      /\ \A a \in Bookings \ {b} : intents'[a] = intents[a]
  BY <1>0, EventTables DEF Intent
<1>4. /\ transacted' \in [Events -> Transacted \cup {None}]
      /\ intents' \in [Bookings -> Intents \cup {None}]
  BY <1>0, EventTables
<1>5. /\ intents'[b] \in Intents
      /\ intents'[b].status = IF Kind(t) = "settlement" THEN "settled" ELSE "refunded"
      /\ intents'[b].allocation = i.allocation /\ intents'[b].gross = i.gross
      /\ intents'[b].list = i.list /\ intents'[b].discount = i.discount
  BY <1>0, EventTables
<1>6. i # None /\ intents'[b] # None
  BY <1>3, <1>5, NoneAssumption
<1>7. LifecycleTypeOK'
  <2>1. Posted(t) \in [Entries -> Int]
    <3>1. i.allocation \in [Entries -> Nat]
      BY <1>3 DEF Intents
    <3> QED BY <1>0, <1>3, <3>1, PostedBalance DEF Signed, NothingPosted
  <2>2. ledger' \in [Bookings -> [Entries -> Int]]
    BY <1>1, <1>2, <2>1 DEF LifecycleTypeOK
  <2> QED BY <1>1, <1>2, <1>4, <2>2, Ends DEF LifecycleTypeOK
<1>8. EndingsAreCoherent'
  BY <1>1, <1>2 DEF Stored, EndingsAreCoherent
<1>9. Snapped'
  BY <1>1, <1>2, <1>3, <1>6 DEF Stored, Snapped
<1>10. SnapshotReconciles'
  BY <1>2, <1>3, <1>5, <1>6 DEF Stored, SnapshotReconciles
<1>11. LedgerBalances'
  <2>1. ledger'[b] = Posted(t) /\ \A a \in Bookings \ {b} : ledger'[a] = ledger[a]
    BY <1>1, <1>2, <1>3 DEF LifecycleTypeOK
  <2>2. ledger'[b] = IF intents'[b].status = "settled" THEN intents'[b].allocation ELSE NothingPosted
    BY <1>3, <1>5, <1>0, <2>1, PostedBalance DEF Signed
  <2> QED BY <1>2, <1>3, <1>6, <2>1, <2>2 DEF Stored, LedgerBalances, NothingPosted
<1>12. ASSUME NEW a \in Bookings \ {b}, NEW kind \in Signed
       PROVE  Applied(a, kind)' = Applied(a, kind)
  <2>1. Applied(a, kind)' =
          Applied(a, kind) \cup (IF a = Booking(t) /\ kind = Kind(t) THEN {e} ELSE {})
    BY EventApplied
  <2> QED BY <1>0, <2>1
<1>13. ASSUME NEW kind \in Signed
       PROVE  Applied(b, kind)' = IF kind = Kind(t) THEN Applied(b, kind) \cup {e} ELSE Applied(b, kind)
  <2>1. Applied(b, kind)' =
          Applied(b, kind) \cup (IF b = Booking(t) /\ kind = Kind(t) THEN {e} ELSE {})
    BY EventApplied
  <2> QED BY <1>0, <2>1
<1>14. Applied(b, Kind(t)) = {}
  BY <1>2, <1>3, <1>6 DEF Stored, EventsTellStatus, Applicable, Signed, Intents
<1>15. EventsTellStatus'
  <2>1. ASSUME NEW a \in Bookings \ {b}
        PROVE  /\ \A d, f \in Applied(a, "settlement")' : d = f
               /\ \A d, f \in Applied(a, "refund")' : d = f
               /\ intents'[a] # None =>
                    /\ intents'[a].status = "refunded" <=> Applied(a, "refund")' # {}
                    /\ intents'[a].status = "authorized" =>
                         Applied(a, "settlement")' \cup Applied(a, "refund")' = {}
                    /\ intents'[a].status = "settled" => Applied(a, "settlement")' # {}
    <3>1. /\ Applied(a, "settlement")' = Applied(a, "settlement")
          /\ Applied(a, "refund")' = Applied(a, "refund")
      BY <1>12 DEF Signed
    <3> QED BY <1>2, <1>3, <3>1 DEF Stored, EventsTellStatus
  <2>2. CASE Kind(t) = "settlement"
    <3>1. i.status = "authorized"
      BY <1>3, <2>2 DEF Applicable
    <3>2. Applied(b, "settlement")' = {e}
      BY <1>13, <1>14, <2>2 DEF Signed
    <3>3. Applied(b, "refund")' = {}
      <4>1. Applied(b, "refund")' = Applied(b, "refund")
        BY <1>13, <2>2 DEF Signed
      <4> QED BY <1>2, <1>3, <1>6, <3>1, <4>1 DEF Stored, EventsTellStatus
    <3> QED BY <1>3, <1>5, <2>1, <2>2, <3>2, <3>3 DEF EventsTellStatus
  <2>3. CASE Kind(t) = "refund"
    <3>1. Applied(b, "refund")' = {e}
      BY <1>13, <1>14, <2>3 DEF Signed
    <3>2. Applied(b, "settlement")' = Applied(b, "settlement")
      BY <1>13, <2>3 DEF Signed
    <3>3. \A d, f \in Applied(b, "settlement")' : d = f
      BY <1>2, <1>3, <3>2 DEF Stored, EventsTellStatus
    <3> QED BY <1>3, <1>5, <2>1, <2>3, <3>1, <3>3 DEF EventsTellStatus
  <2> QED BY <1>3, <2>2, <2>3 DEF Signed
<1>16. MoneyFollowsBooking'
  <2>1. ASSUME NEW a \in Bookings \ {b}
        PROVE  /\ Applied(a, "settlement")' # {} => bookings'[a] = "completed"
               /\ Applied(a, "refund")' # {} /\ Applied(a, "settlement")' = {} =>
                    bookings'[a] = "cancelled"
    <3>1. /\ Applied(a, "settlement")' = Applied(a, "settlement")
          /\ Applied(a, "refund")' = Applied(a, "refund")
      BY <1>12 DEF Signed
    <3> QED BY <1>1, <1>2, <3>1 DEF Stored, MoneyFollowsBooking
  <2>2. /\ Applied(b, "settlement")' # {} => bookings'[b] = "completed"
        /\ Applied(b, "refund")' # {} /\ Applied(b, "settlement")' = {} =>
             bookings'[b] = "cancelled"
    <3>1. CASE Kind(t) = "settlement"
      <4>1. bookings[b] = "completed"
        BY <1>3, <3>1 DEF Applicable
      <4>2. Applied(b, "settlement")' # {}
        BY <1>13, <3>1 DEF Signed
      <4> QED BY <1>1, <4>1, <4>2
    <3>2. CASE Kind(t) = "refund"
      <4>1. Applied(b, "settlement")' = Applied(b, "settlement")
        BY <1>13, <3>2 DEF Signed
      <4>2. CASE i.status = "settled"
        BY <1>1, <1>2, <1>3, <1>6, <4>1, <4>2 DEF Stored, EventsTellStatus, MoneyFollowsBooking
      <4>3. CASE i.status = "authorized"
        <5>1. bookings[b] = "cancelled"
          BY <1>3, <3>2, <4>3 DEF Applicable
        <5>2. Applied(b, "settlement") = {}
          BY <1>2, <1>3, <1>6, <4>3 DEF Stored, EventsTellStatus
        <5> QED BY <1>1, <4>1, <5>1, <5>2
      <4> QED BY <1>3, <3>2, <4>2, <4>3 DEF Applicable
    <3> QED BY <1>3, <3>1, <3>2 DEF Signed
  <2> QED BY <2>1, <2>2 DEF MoneyFollowsBooking
<1>17. ASSUME NEW u \in Transactions \ {t}
       PROVE  Spares(u)
  <2>1. <<"intent", b>> \notin holds[u] /\ <<"transaction", e>> \notin holds[u]
    BY <1>2, <1>3 DEF Exclusive
  <2> QED BY <1>0, <1>1, <1>3, <2>1, Serving DEF Spares
<1> QED BY <1>1, <1>7, <1>8, <1>9, <1>10, <1>11, <1>15, <1>16, <1>17, CommitStep DEF Stored

-----------------------------------------------------------------------------
(* The booking and its snapshot *)

\* What the trigger inserts with a booking.
LEMMA SnapshotFacts ==
  ASSUME NEW price \in Prices, NEW coupon \in Reserved, NEW partnered \in BOOLEAN
  PROVE  LET s == Snapshot(Rule, coupon, price, partnered)
         IN /\ s \in Intents /\ s.status = "authorized"
            /\ \A e \in Entries : s.allocation[e] >= 0
            /\ Net(s.allocation) = s.gross /\ s.gross > 0 /\ s.discount >= 0
            /\ s.list = s.gross + s.discount
<1> DEFINE d == Discount(coupon, price)
           g == price - d
           a == Allocate(Rule, g, partnered)
           r == Redemption(coupon, d)
           s == Snapshot(Rule, coupon, price, partnered)
<1>1. Rule \in Rules /\ price \in ListPrices /\ coupon \in Coupons \cup {NoCoupon}
  BY RuleAssumption, PricesAssumption, ReservedAssumption
<1>2. price \in Nat
  BY <1>1 DEF ListPrices
<1>3. d \in Nat /\ g \in Nat /\ g >= MinimumAmount
  BY <1>1, DiscountLeavesMinimum
<1>4. a \in [Entries -> Nat] /\ Net(a) = g
  BY <1>1, <1>3, AllocationsReconcile
<1>5. r \in {"none", "redeemed", "ineligible"}
  BY DEF Redemption
<1>6. s = [list |-> price, discount |-> d, gross |-> g, reservation |-> r,
           allocation |-> a, status |-> "authorized"]
  BY DEF Snapshot
<1> HIDE DEF d, a, r, s
<1>7. g \in Nat \ {0} /\ price = g + d
  BY <1>2, <1>3 DEF MinimumAmount
<1> HIDE DEF g
<1>8. s \in Intents
  BY <1>2, <1>3, <1>4, <1>5, <1>6, <1>7 DEF Intents
<1>9. /\ s.status = "authorized" /\ s.allocation = a /\ s.gross = g
      /\ s.discount = d /\ s.list = price
  BY <1>6
<1>10. \A e \in Entries : a[e] >= 0
  BY <1>4
<1>11. g > 0 /\ d >= 0
  BY <1>3, <1>7
<1> QED BY <1>4, <1>7, <1>8, <1>9, <1>10, <1>11 DEF s

LEMMA InsertBookingInv ==
  ASSUME IInv, NEW b \in Bookings, NEW price \in Prices, NEW coupon \in Reserved,
         NEW partnered \in BOOLEAN, InsertBooking(b, price, coupon, partnered)
  PROVE  IInv'
<1> DEFINE s == Snapshot(Rule, coupon, price, partnered)
<1>1. /\ bookings[b] = "none" /\ bookings' = [bookings EXCEPT ![b] = "scheduled"]
      /\ requests' = [requests EXCEPT ![b] = "scheduled"] /\ intents' = [intents EXCEPT ![b] = s]
      /\ UNCHANGED <<cancellations, cases, reviews, ledger, transacted, pc, call, read, holds>>
  BY DEF InsertBooking
<1>2. /\ s \in Intents /\ s.status = "authorized"
      /\ \A e \in Entries : s.allocation[e] >= 0
      /\ Net(s.allocation) = s.gross /\ s.gross > 0 /\ s.discount >= 0
      /\ s.list = s.gross + s.discount
  BY SnapshotFacts
<1> HIDE DEF s
<1>3. s # None
  BY <1>2, NoneAssumption
<1>4. LifecycleTypeOK /\ Exclusive /\ Stored
  BY DEF IInv
<1>5. /\ bookings' \in [Bookings -> Statuses] /\ requests' \in [Bookings -> Statuses]
      /\ intents' \in [Bookings -> Intents \cup {None}]
      /\ bookings'[b] = "scheduled" /\ requests'[b] = "scheduled" /\ intents'[b] = s
      /\ \A c \in Bookings \ {b} :
           bookings'[c] = bookings[c] /\ requests'[c] = requests[c] /\ intents'[c] = intents[c]
  BY <1>1, <1>2, <1>4 DEF LifecycleTypeOK, Statuses
<1>6. LifecycleTypeOK'
  BY <1>1, <1>4, <1>5 DEF LifecycleTypeOK
<1>7. EndingsAreCoherent' /\ Snapped'
  BY <1>1, <1>3, <1>4, <1>5 DEF Stored, EndingsAreCoherent, Snapped
<1>8. intents[b] = None /\ ledger[b] = NothingPosted
  BY <1>1, <1>4 DEF Stored, Snapped, LedgerBalances
<1>9. LedgerBalances'
  BY <1>1, <1>2, <1>3, <1>4, <1>5, <1>8 DEF Stored, LedgerBalances, NothingPosted
<1>10. SnapshotReconciles'
  BY <1>2, <1>4, <1>5 DEF Stored, SnapshotReconciles
<1>11. Applied(b, "settlement") = {} /\ Applied(b, "refund") = {}
  BY <1>1, <1>4 DEF Stored, MoneyFollowsBooking
<1>12. EventsTellStatus'
  BY <1>1, <1>2, <1>4, <1>5, <1>11 DEF Stored, EventsTellStatus, Applied
<1>13. MoneyFollowsBooking'
  BY <1>1, <1>4, <1>5, <1>11 DEF Stored, MoneyFollowsBooking, Applied
<1>14. ASSUME NEW u \in Transactions
       PROVE  Spares(u)
  <2>1. pc[u] # "idle" => Booking(u) \in Bookings \ {b}
    BY <1>1, Serving
  <2> QED BY <1>1, <1>5, <2>1 DEF Spares
<1>15. \A u \in Transactions : Local(u)'
  BY <1>1, <1>14, OthersStay
<1>16. Exclusive'
  BY <1>1, <1>4 DEF Exclusive
<1> QED BY <1>6, <1>7, <1>9, <1>10, <1>12, <1>13, <1>15, <1>16 DEF IInv, Stored

-----------------------------------------------------------------------------
(* The specification *)

LEMMA ClaimableAmounts ==
  ASSUME IInv, NEW b \in Bookings, NEW amount \in Claimable(b)
  PROVE  amount \in Nat \ {0}
<1>1. ASSUME amount \in Prices PROVE amount \in Nat \ {0}
  BY <1>1, PricesAssumption DEF ListPrices, MinimumAmount
<1>2. ASSUME intents[b] # None, amount = intents[b].gross PROVE amount \in Nat \ {0}
  BY <1>2 DEF IInv, LifecycleTypeOK, Intents
<1> QED BY <1>1, <1>2 DEF Claimable

LEMMA StepInv ==
  ASSUME IInv, NEW t \in Transactions, Step(t)
  PROVE  IInv'
BY ReadBookingInv, CheckPolicyInv, InsertCancellationInv, UpdateBookingInv, UpdateRequestInv,
   InsertCaseInv, InsertReviewInv, LookUpInv, JoinBookingInv, LockIntentInv,
   InsertTransactionInv, ReconcileInv, CommitTransitionInv, CommitCancelInv, CommitReviewInv,
   CommitEventInv
   DEF Step

\* Every step of the specification, or none, preserves the invariant.
LEMMA NextInv == IInv /\ [Next]_vars => IInv'
<1> SUFFICES ASSUME IInv, [Next]_vars PROVE IInv'
  OBVIOUS
<1>1. ASSUME NEW b \in Bookings, NEW price \in Prices, NEW coupon \in Reserved,
             NEW partnered \in BOOLEAN, InsertBooking(b, price, coupon, partnered)
      PROVE  IInv'
  BY <1>1, InsertBookingInv
<1>2. ASSUME NEW t \in Transactions, NEW c \in Transitions \cup Cancels \cup Reviews, Receive(t, c)
      PROVE  IInv'
  BY <1>2, ReceiveInv DEF Calls
<1>3. ASSUME NEW t \in Transactions, NEW b \in Bookings, NEW e \in Events, NEW kind \in Signed,
             NEW amount \in Claimable(b),
             Receive(t, [kind |-> kind, booking |-> b, event |-> e, amount |-> amount])
      PROVE  IInv'
  <2>1. [kind |-> kind, booking |-> b, event |-> e, amount |-> amount] \in Calls
    BY ClaimableAmounts DEF Calls, SignedEvents, Signed
  <2> QED BY <1>3, <2>1, ReceiveInv
<1>4. ASSUME NEW t \in Transactions, Step(t) \/ Abandon(t)
      PROVE  IInv'
  BY <1>4, StepInv, AbandonInv
<1>5. CASE UNCHANGED vars
  <2>1. UNCHANGED <<committed, pc, call, read, holds>>
    BY <1>5 DEF vars
  <2>2. LifecycleTypeOK' /\ Exclusive'
    BY <2>1 DEF IInv, LifecycleTypeOK, Exclusive, committed
  <2>3. \A u \in Transactions : Local(u)'
    BY <2>1, Unwritten, OthersStay
  <2> QED BY <2>1, <2>2, <2>3, Unwritten DEF IInv
<1> QED BY <1>1, <1>2, <1>3, <1>4, <1>5 DEF Next, Signed

\* The inductive invariant holds in every reachable state.
THEOREM AlwaysIInv == Spec => []IInv
BY InitInv, NextInv, PTL DEF Spec

\* The state of the tables and of the transactions is well typed.
THEOREM TypeCorrect == Spec => []LifecycleTypeOK
<1>1. IInv => LifecycleTypeOK
  BY DEF IInv
<1> QED BY <1>1, AlwaysIInv, PTL

\* Cancellation, case, request and booking agree at every commit, however many
\* starts, completions and cancellations are served at once.
THEOREM EndingsCoherent == Spec => []EndingsAreCoherent
<1>1. IInv => EndingsAreCoherent
  BY DEF IInv, Stored
<1> QED BY <1>1, AlwaysIInv, PTL

\* The ledger of every intent balances under any number of repeated, reordered
\* and simultaneous events, for every commercial rule and reservation.
THEOREM LedgerAlwaysBalances == Spec => []LedgerBalances
<1>1. IInv => LedgerBalances
  BY DEF IInv, Stored
<1> QED BY <1>1, AlwaysIInv, PTL

\* One settlement and one refund at most, told by the status of the intent.
THEOREM StatusTellsEvents == Spec => []EventsTellStatus
<1>1. IInv => EventsTellStatus
  BY DEF IInv, Stored
<1> QED BY <1>1, AlwaysIInv, PTL

\* The unlocked booking of the join never lets money move against the service:
\* the statuses an event relies on are the ones a booking never leaves.
THEOREM MoneyAlwaysFollows == Spec => []MoneyFollowsBooking
<1>1. IInv => MoneyFollowsBooking
  BY DEF IInv, Stored
<1> QED BY <1>1, AlwaysIInv, PTL

\* Every snapshot reconciles, by the arithmetic of the trigger.
THEOREM SnapshotsReconcile == Spec => []SnapshotReconciles
<1>1. IInv => SnapshotReconciles
  BY DEF IInv, Stored
<1> QED BY <1>1, AlwaysIInv, PTL

\* The money reconciles from the snapshot to the last refund, for every commercial
\* rule, reservation and number of bookings, events and transactions.
THEOREM FinanceAlwaysReconciles == Spec => []FinanceReconciles
<1>1. IInv => FinanceReconciles
  BY DEF IInv, Stored, FinanceReconciles
<1> QED BY <1>1, AlwaysIInv, PTL

-----------------------------------------------------------------------------
(* What a step never does *)

\* A booking moves along its path, and a cancellation records the status it
\* ended, since the row is locked in the status that was read.
THEOREM BookingsFollowPath == Spec => BookingPath
<1> DEFINE Path(b) == bookings'[b] # bookings[b] =>
      \/ bookings'[b] = "scheduled" /\ bookings[b] = "none"
      \/ bookings'[b] = "in_progress" /\ bookings[b] = "scheduled"
      \/ bookings'[b] = "completed" /\ bookings[b] = "in_progress"
      \/ /\ bookings'[b] = "cancelled"
         /\ bookings[b] \in Cancellable
         /\ cancellations'[b].prior = bookings[b]
         /\ cases'[b].priority = "high" <=> bookings[b] = "in_progress"
<1>1. ASSUME IInv, [Next]_vars, NEW b \in Bookings
      PROVE  Path(b)
  <2>1. ASSUME NEW a \in Bookings, NEW price \in Prices, NEW coupon \in Reserved,
               NEW partnered \in BOOLEAN, InsertBooking(a, price, coupon, partnered)
        PROVE  Path(b)
    BY <1>1, <2>1 DEF InsertBooking, IInv, LifecycleTypeOK
  <2>2. ASSUME NEW t \in Transactions, CommitTransition(t)
        PROVE  Path(b)
    <3>1. pc[t] = "commit" /\ Kind(t) \in {"in_progress", "completed"} /\ MoveBooking(t)
          /\ UNCHANGED <<reviews, intents, transacted>>
      BY <2>2 DEF CommitTransition
    <3>2. /\ \A a \in Bookings \ {Booking(t)} : bookings'[a] = bookings[a]
          /\ bookings'[Booking(t)] = Kind(t) /\ bookings[Booking(t)] = From(Kind(t))
      BY <1>1, <3>1, Moved DEF Moves
    <3> QED BY <1>1, <3>1, <3>2 DEF From
  <2>3. ASSUME NEW t \in Transactions, CommitCancel(t)
        PROVE  Path(b)
    <3>1. pc[t] = "commit" /\ Kind(t) = "cancelled" /\ MoveBooking(t)
          /\ UNCHANGED <<reviews, intents, transacted>>
          /\ cancellations' = [cancellations EXCEPT ![Booking(t)] = [prior |-> read[t]]]
          /\ cases' = [cases EXCEPT ![Booking(t)] =
               [priority |-> IF read[t] = "in_progress" THEN "high" ELSE "normal"]]
      BY <2>3 DEF CommitCancel
    <3>2. /\ \A a \in Bookings \ {Booking(t)} : bookings'[a] = bookings[a]
          /\ bookings'[Booking(t)] = "cancelled" /\ bookings[Booking(t)] = read[t]
          /\ read[t] \in Cancellable /\ Booking(t) \in Bookings
      BY <1>1, <3>1, Moved, Serving DEF Moves
    <3>3. /\ cancellations'[Booking(t)] = [prior |-> read[t]]
          /\ cases'[Booking(t)] =
               [priority |-> IF read[t] = "in_progress" THEN "high" ELSE "normal"]
      BY <1>1, <3>1, <3>2 DEF IInv, LifecycleTypeOK
    <3> QED BY <1>1, <3>2, <3>3 DEF Cancellable
  <2>4. ASSUME UNCHANGED bookings PROVE Path(b)
    BY <2>4
  <2> QED
    BY <1>1, <2>1, <2>2, <2>3, <2>4
       DEF Next, Step, vars, committed, Receive, Abandon, Look, Lock, ReadBooking, CheckPolicy,
           InsertCancellation, UpdateBooking, UpdateRequest, InsertCase, InsertReview, LookUp,
           JoinBooking, LockIntent, InsertTransaction, Reconcile, CommitReview, CommitEvent
<1>2. IInv /\ [Next]_vars => [\A b \in Bookings : Path(b)]_vars
  BY <1>1
<1> QED BY <1>2, AlwaysIInv, PTL DEF Spec, BookingPath

\* A review is written once, and only of a completed service.
THEOREM ReviewsAlwaysStand == Spec => ReviewsStand
<1> DEFINE Stands(x) == reviews'[x] # reviews[x] => reviews[x] = None /\ bookings[x[1]] = "completed"
<1>1. ASSUME IInv, [Next]_vars, NEW x \in Bookings \X Participants
      PROVE  Stands(x)
  <2>1. ASSUME NEW t \in Transactions, CommitReview(t)
        PROVE  Stands(x)
    <3>1. pc[t] = "commit" /\ Kind(t) = "review"
          /\ reviews' = [reviews EXCEPT ![Authored(t)] = call[t].rating]
      BY <2>1 DEF CommitReview
    <3>2. reviews[Authored(t)] = None /\ bookings[Booking(t)] = "completed"
      BY <1>1, <3>1 DEF IInv, Local, Reviewing
    <3>3. Authored(t)[1] = Booking(t)
      BY DEF Authored
    <3> QED BY <1>1, <3>1, <3>2, <3>3 DEF IInv, LifecycleTypeOK
  <2>2. ASSUME UNCHANGED reviews PROVE Stands(x)
    BY <2>2
  <2> QED
    BY <1>1, <2>1, <2>2
       DEF Next, Step, vars, committed, Receive, Abandon, Look, Lock, ReadBooking, CheckPolicy,
           InsertCancellation, UpdateBooking, UpdateRequest, InsertCase, InsertReview, LookUp,
           JoinBooking, LockIntent, InsertTransaction, Reconcile, CommitTransition, CommitCancel,
           CommitEvent, InsertBooking
<1>2. IInv /\ [Next]_vars => [\A x \in Bookings \X Participants : Stands(x)]_vars
  BY <1>1
<1> QED BY <1>2, AlwaysIInv, PTL DEF Spec, ReviewsStand

\* Statuses and reviews of the past stand, whatever calls and commits are served at once.
THEOREM PastAlwaysStands == Spec => PastStands
BY BookingsFollowPath, ReviewsAlwaysStand DEF PastStands

-----------------------------------------------------------------------------
(* No calls wait in a circle *)

\* The tables in which a call at this statement may have locked something.
Behind(statement) ==
  CASE statement = "booking" -> {"cancellation"}
    [] statement = "request" -> {"cancellation", "booking"}
    [] statement = "case" -> {"cancellation", "booking", "request"}
    [] statement = "transaction" -> {"intent"}
    [] statement = "reconcile" -> {"intent", "transaction"}
    [] statement = "commit" -> {"cancellation", "booking", "request", "case", "intent",
                                "transaction", "review"}
    [] OTHER -> {}

\* Every call has locked only what comes before its statement.
InOrder == \A t \in Transactions : \A row \in holds[t] : row[1] \in Behind(pc[t])

\* A row belongs to the table its statement names.
LEMMA WantedTable ==
  ASSUME NEW t \in Transactions
  PROVE  /\ \A row \in Wanted(t) : row[1] = pc[t]
         /\ pc[t] \notin {"cancellation", "booking", "request", "case", "intent", "transaction",
                          "review"} => Wanted(t) = {}
BY DEF Wanted

\* The statement after the one that locked may have locked its table and those before.
LEMMA BehindGrows ==
  ASSUME IInv, NEW t \in Transactions, pc[t] \notin {"idle", "commit"}, Proceed(t)
  PROVE  /\ Behind(pc[t]) \subseteq Behind(pc'[t])
         /\ Wanted(t) # {} => pc[t] \in Behind(pc'[t])
<1>1. pc[t] \in Statements /\ Fits(t) /\ Kind(t) \in Moves \cup Signed \cup {"review"}
  BY Serving DEF IInv, LifecycleTypeOK, Local
<1>2. CASE pc[t] \in {"read", "policy", "lookup", "join"}
  <2>1. Behind(pc[t]) = {} /\ Wanted(t) = {}
    BY <1>2, WantedTable DEF Behind
  <2> QED BY <2>1
<1>3. CASE pc[t] \in {"cancellation", "booking"}
  BY <1>3, Proceeds DEF Behind
<1>4. CASE pc[t] = "request"
  <2>1. Kind(t) \in Moves
    BY <1>1, <1>4 DEF Fits
  <2>2. pc'[t] \in {"case", "commit"}
    BY <1>4, <2>1, Proceeds DEF Moves
  <2> QED BY <1>4, <2>2 DEF Behind
<1>5. CASE pc[t] \in {"case", "review", "reconcile"}
  <2>1. pc'[t] = "commit"
    BY <1>5, Proceeds
  <2>2. pc[t] = "reconcile" => Wanted(t) = {}
    BY WantedTable
  <2> QED BY <1>5, <2>1, <2>2 DEF Behind
<1>6. CASE pc[t] \in {"intent", "transaction"}
  BY <1>6, Proceeds DEF Behind
<1> QED BY <1>1, <1>2, <1>3, <1>4, <1>5, <1>6 DEF Statements

\* A statement that locks what it wants or nothing keeps the order.
LEMMA OrderAdvances ==
  ASSUME IInv, InOrder, NEW t \in Transactions, pc[t] \notin {"idle", "commit"}, Proceed(t),
         holds' = holds \/ holds' = [holds EXCEPT ![t] = holds[t] \cup Wanted(t)]
  PROVE  InOrder'
<1>1. /\ holds'[t] \subseteq holds[t] \cup Wanted(t)
      /\ \A u \in Transactions \ {t} : holds'[u] = holds[u] /\ pc'[u] = pc[u]
  BY Proceeds DEF IInv, LifecycleTypeOK
<1>2. \A row \in holds'[t] : row[1] \in Behind(pc'[t])
  BY <1>1, BehindGrows, WantedTable DEF InOrder
<1> QED BY <1>1, <1>2 DEF InOrder

\* A call starts with nothing locked and ends so.
LEMMA OrderEnds ==
  ASSUME IInv, InOrder, NEW t \in Transactions, End(t)
  PROVE  InOrder'
BY Ends DEF InOrder, Alone, End, IInv, LifecycleTypeOK

\* Every step keeps the order of the locks.
LEMMA NextKeepsOrder == IInv /\ InOrder /\ [Next]_vars => InOrder'
<1> SUFFICES ASSUME IInv, InOrder, [Next]_vars PROVE InOrder'
  OBVIOUS
<1>1. ASSUME NEW t \in Transactions, Step(t)
      PROVE  InOrder'
  <2>1. CASE CommitTransition(t) \/ CommitCancel(t) \/ CommitReview(t) \/ CommitEvent(t)
    BY <2>1, OrderEnds DEF CommitTransition, CommitCancel, CommitReview, CommitEvent
  <2>2. CASE InsertCancellation(t) \/ UpdateBooking(t) \/ UpdateRequest(t) \/ InsertCase(t)
             \/ InsertReview(t) \/ LockIntent(t) \/ InsertTransaction(t)
    <3>1. pc[t] \notin {"idle", "commit"} /\ Lock(t)
      BY <2>2 DEF InsertCancellation, UpdateBooking, UpdateRequest, InsertCase, InsertReview,
                  LockIntent, InsertTransaction
    <3> QED BY <3>1, OrderAdvances DEF Lock
  <2>3. CASE ReadBooking(t) \/ CheckPolicy(t) \/ LookUp(t) \/ JoinBooking(t) \/ Reconcile(t)
    <3>1. pc[t] \notin {"idle", "commit"} /\ Look(t)
      BY <2>3 DEF ReadBooking, CheckPolicy, LookUp, JoinBooking, Reconcile
    <3> QED BY <3>1, OrderAdvances DEF Look
  <2> QED BY <1>1, <2>1, <2>2, <2>3 DEF Step
<1>2. ASSUME NEW t \in Transactions, NEW c, Receive(t, c)
      PROVE  InOrder'
  <2>1. pc[t] = "idle" /\ holds' = holds /\ \A u \in Transactions \ {t} : pc'[u] = pc[u]
    BY <1>2 DEF Receive, IInv, LifecycleTypeOK
  <2>2. holds[t] = {}
    BY <2>1 DEF InOrder, Behind
  <2> QED BY <2>1, <2>2 DEF InOrder
<1>3. ASSUME NEW t \in Transactions, Abandon(t)
      PROVE  InOrder'
  BY <1>3, OrderEnds DEF Abandon
<1>4. ASSUME UNCHANGED <<pc, holds>> PROVE InOrder'
  BY <1>4 DEF InOrder
<1> QED BY <1>1, <1>2, <1>3, <1>4 DEF Next, vars, InsertBooking

\* However many calls are served at once, some call of any that wait for each
\* other waits for none of them: the locks are taken in one order of tables.
THEOREM CallsNeverDeadlock == Spec => []NoCircularWait
<1>1. Init => InOrder
  BY DEF Init, InOrder
<1>2. ASSUME InOrder, NEW circle \in SUBSET Transactions, circle # {}
      PROVE  \E t \in circle : Blockers(t) \cap circle = {}
  <2>1. \A t, u \in circle : u \in Blockers(t) => pc[t] \in Behind(pc[u])
    <3> SUFFICES ASSUME NEW t \in circle, NEW u \in circle, u \in Blockers(t)
                 PROVE  pc[t] \in Behind(pc[u])
      OBVIOUS
    <3>1. PICK row \in holds[u] : row \in Wanted(t)
      BY DEF Blockers
    <3> QED BY <1>2, <3>1, WantedTable DEF InOrder
  <2>2. \A t \in circle : pc[t] \in {"reconcile", "commit"} => Blockers(t) = {}
    BY WantedTable DEF Blockers
  <2>3. CASE \E t \in circle : pc[t] \in {"reconcile", "commit"}
    BY <2>2, <2>3
  <2>4. CASE \E t \in circle : pc[t] = "case"
             /\ \A u \in circle : pc[u] \notin {"reconcile", "commit"}
    BY <2>1, <2>4 DEF Behind
  <2>5. CASE \E t \in circle : pc[t] = "request"
             /\ \A u \in circle : pc[u] \notin {"case", "reconcile", "commit"}
    BY <2>1, <2>5 DEF Behind
  <2>6. CASE \E t \in circle : pc[t] = "booking"
             /\ \A u \in circle : pc[u] \notin {"request", "case", "reconcile", "commit"}
    BY <2>1, <2>6 DEF Behind
  <2>7. CASE \E t \in circle : pc[t] = "transaction"
             /\ \A u \in circle : pc[u] \notin {"reconcile", "commit"}
    BY <2>1, <2>7 DEF Behind
  <2>8. CASE \A u \in circle :
               pc[u] \notin {"booking", "request", "case", "transaction", "reconcile", "commit"}
    BY <1>2, <2>1, <2>8 DEF Behind
  <2> QED BY <2>3, <2>4, <2>5, <2>6, <2>7, <2>8
<1>3. InOrder => NoCircularWait
  BY <1>2 DEF NoCircularWait
<1>4. IInv /\ InOrder /\ [Next]_vars => (IInv /\ InOrder)'
  BY NextInv, NextKeepsOrder
<1> QED BY <1>1, <1>3, <1>4, InitInv, PTL DEF Spec
=============================================================================
