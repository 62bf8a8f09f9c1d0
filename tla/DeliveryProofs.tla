--------------------------- MODULE DeliveryProofs ---------------------------
(***************************************************************************)
(* Proofs, for any number of notifications, devices, processes, requests   *)
(* and messages and any limits, of the safety of push delivery, of report  *)
(* simulations and of a conversation's synchronisation.  What must come to *)
(* an end in them is left to TLC.                                          *)
(***************************************************************************)
EXTENDS MCDelivery, FiniteSetTheorems, SequenceTheorems, TLAPS

-----------------------------------------------------------------------------
(* Push delivery: the inductive invariant *)

\* The processes that have a push request for a delivery on its way.
Senders(x) == {w \in PushWorkers : flight[w][x] = "sending"}
Attempts(x) == IF queue[x] = NotQueued THEN 0 ELSE queue[x].attempts

\* A notification's deliveries are queued by its COMMIT and not before.
QueuedAtCommit == \A n \in Notices : inserting[n].stage # "committed" =>
  \A d \in Devices : queue[<<n, d>>] = NotQueued

\* Every request on its way has been counted as an attempt.
SendsAreCounted == \A x \in Deliveries :
  IsFiniteSet(Senders(x)) /\ accepted[x] + Cardinality(Senders(x)) <= Attempts(x)

\* What a process is about to record as sent has been accepted.
ResultsAreTrue == \A w \in PushWorkers, x \in Deliveries : flight[w][x] = "sent" => accepted[x] > 0

\* A delivery that has ended is not leased: no lease of it can lapse.
EndedIsFree == \A x \in Deliveries :
  queue[x] # NotQueued /\ queue[x].outcome # "pending" => queue[x].lease # "held"

PushInv ==
  /\ PushTypeOK
  /\ QueuedAtCommit
  /\ SendsAreCounted
  /\ ResultsAreTrue
  /\ EndedIsFree
  /\ SentWasAccepted

\* What any step but a COMMIT may do to the row of a delivery.
RowMoves(x) ==
  IF queue[x] = NotQueued THEN queue'[x] = NotQueued
  ELSE /\ queue'[x] \in PushRows
       /\ queue'[x].attempts >= queue[x].attempts
       /\ queue'[x].outcome # "pending" => queue'[x].lease # "held"
       /\ queue[x].outcome # "pending" => queue'[x] = queue[x]
       /\ queue'[x].outcome = "sent" => queue[x].outcome = "sent" \/ accepted[x] > 0

LEMMA PushInitInv == PushInit => PushInv
<1> SUFFICES ASSUME PushInit PROVE PushInv
  OBVIOUS
<1>1. PushTypeOK
  BY DEF PushInit, PushTypeOK, Deliveries, Flights
<1>2. \A x \in Deliveries : Senders(x) = {} /\ accepted[x] = 0 /\ Attempts(x) = 0
  BY DEF PushInit, Senders, Attempts
<1>3. SendsAreCounted
  BY <1>2, FS_EmptySet DEF SendsAreCounted
<1>4. QueuedAtCommit /\ ResultsAreTrue /\ EndedIsFree /\ SentWasAccepted
  BY DEF PushInit, QueuedAtCommit, ResultsAreTrue, EndedIsFree, SentWasAccepted, Deliveries
<1> QED BY <1>1, <1>3, <1>4 DEF PushInv

\* A row that ends keeps its attempts and gives up its lease.
LEMMA EndedRow ==
  ASSUME NEW row \in PushRows, NEW o \in Outcomes
  PROVE  /\ End(row, o) \in PushRows
         /\ End(row, o).outcome = o /\ End(row, o).lease = "free"
         /\ End(row, o).attempts = row.attempts
BY DEF PushRows, End

LEMMA RowFacts ==
  ASSUME NEW row \in PushRows
  PROVE  /\ row # NotQueued
         /\ row.attempts \in Nat /\ row.attempts <= MaxAttempts
         /\ row.lease \in {"free", "held", "lapsed"} /\ row.due \in BOOLEAN /\ row.outcome \in Outcomes
<1>1. row # NotQueued
  BY NotQueuedAssumption
<1>2. row.attempts \in 0..MaxAttempts
  BY DEF PushRows
<1> QED BY <1>1, <1>2, PushAssumption DEF PushRows

\* A row that stays is a move, and so is one of a pending row that stays pending
\* with the attempts it has, or more, or that ends otherwise than as sent.
LEMMA RowStays ==
  ASSUME PushInv, NEW x \in Deliveries, queue'[x] = queue[x]
  PROVE  RowMoves(x) /\ queue'[x] \in PushRows \cup {NotQueued}
<1>1. queue[x] \in PushRows \cup {NotQueued}
  BY DEF PushInv, PushTypeOK
<1>2. CASE queue[x] = NotQueued
  BY <1>1, <1>2 DEF RowMoves
<1>3. CASE queue[x] # NotQueued
  <2>1. queue[x] \in PushRows /\ queue[x].attempts \in Nat
    BY <1>1, <1>3, RowFacts
  <2> QED BY <1>3, <2>1 DEF RowMoves, PushInv, EndedIsFree
<1> QED BY <1>2, <1>3

LEMMA RowGoesOn ==
  ASSUME PushInv, NEW x \in Deliveries, Pending(x), queue'[x] \in PushRows,
         queue'[x].attempts >= queue[x].attempts,
         \/ queue'[x].outcome = "pending"
         \/ queue'[x].lease = "free" /\ (queue'[x].outcome = "sent" => accepted[x] > 0)
  PROVE  RowMoves(x) /\ queue'[x] \in PushRows \cup {NotQueued}
BY DEF RowMoves, Pending

LEMMA PendingRow ==
  ASSUME PushInv, NEW x \in Deliveries, Pending(x)
  PROVE  queue[x] \in PushRows /\ queue[x].attempts \in Nat /\ queue[x].outcome = "pending"
<1>1. queue[x] \in PushRows
  BY DEF PushInv, PushTypeOK, Pending
<1> QED BY <1>1, RowFacts DEF Pending

\* The rows that the recipient, time and finished requests leave behind.
LEMMA EndPendingMoves ==
  ASSUME PushInv, NEW S, NEW o \in Outcomes \ {"pending", "sent"}, EndPending(S, o)
  PROVE  queue' \in [Deliveries -> PushRows \cup {NotQueued}] /\ \A x \in Deliveries : RowMoves(x)
<1>1. \A x \in Deliveries : queue'[x] = IF x \in S /\ Pending(x) THEN End(queue[x], o) ELSE queue[x]
  BY DEF EndPending
<1>2. ASSUME NEW x \in Deliveries PROVE RowMoves(x) /\ queue'[x] \in PushRows \cup {NotQueued}
  <2>1. CASE ~(x \in S /\ Pending(x))
    BY <1>1, <2>1, RowStays
  <2>2. CASE x \in S /\ Pending(x)
    <3>1. queue[x] \in PushRows /\ queue[x].attempts \in Nat /\ queue'[x] = End(queue[x], o)
      BY <1>1, <2>2, PendingRow
    <3>2. /\ queue'[x] \in PushRows /\ queue'[x].outcome = o /\ queue'[x].lease = "free"
          /\ queue'[x].attempts = queue[x].attempts
      BY <3>1, EndedRow
    <3> QED BY <2>2, <3>1, <3>2, RowGoesOn
  <2> QED BY <2>1, <2>2
<1>3. queue' = [x \in Deliveries |-> queue'[x]]
  BY DEF EndPending
<1> QED BY <1>2, <1>3

LEMMA UpdatePreferencesMoves ==
  ASSUME PushInv, NEW enabled \in BOOLEAN, NEW silent \in BOOLEAN, UpdatePreferences(enabled, silent)
  PROVE  queue' \in [Deliveries -> PushRows \cup {NotQueued}] /\ \A x \in Deliveries : RowMoves(x)
<1>1. \A x \in Deliveries : queue'[x] =
        IF ~Pending(x) THEN queue[x]
        ELSE IF ~enabled THEN End(queue[x], "suppressed")
        ELSE [queue[x] EXCEPT !.due = @ /\ ~silent]
  BY DEF UpdatePreferences
<1>2. ASSUME NEW x \in Deliveries PROVE RowMoves(x) /\ queue'[x] \in PushRows \cup {NotQueued}
  <2>1. CASE ~Pending(x)
    BY <1>1, <2>1, RowStays
  <2>2. CASE Pending(x) /\ ~enabled
    <3>1. queue[x] \in PushRows /\ queue[x].attempts \in Nat /\ queue'[x] = End(queue[x], "suppressed")
      BY <1>1, <2>2, PendingRow
    <3>2. /\ queue'[x] \in PushRows /\ queue'[x].outcome = "suppressed" /\ queue'[x].lease = "free"
          /\ queue'[x].attempts = queue[x].attempts
      BY <3>1, EndedRow DEF Outcomes
    <3> QED BY <2>2, <3>1, <3>2, RowGoesOn
  <2>3. CASE Pending(x) /\ enabled
    <3>1. /\ queue[x] \in PushRows /\ queue[x].attempts \in Nat /\ queue[x].outcome = "pending"
          /\ queue'[x] = [queue[x] EXCEPT !.due = @ /\ ~silent]
      BY <1>1, <2>3, PendingRow
    <3>2. /\ queue'[x] \in PushRows /\ queue'[x].outcome = "pending"
          /\ queue'[x].attempts = queue[x].attempts
      BY <3>1 DEF PushRows
    <3>3. queue'[x].attempts >= queue[x].attempts
      BY <3>1, <3>2
    <3> QED BY <2>3, <3>2, <3>3, RowGoesOn
  <2> QED BY <2>1, <2>2, <2>3
<1>3. queue' = [x \in Deliveries |-> queue'[x]]
  BY DEF UpdatePreferences
<1> QED BY <1>2, <1>3

LEMMA DispatchMoves ==
  ASSUME PushInv, NEW w \in PushWorkers, Dispatch(w)
  PROVE  /\ queue' \in [Deliveries -> PushRows \cup {NotQueued}] /\ \A x \in Deliveries : RowMoves(x)
         /\ \A x \in Deliveries : Claimable(x) => Attempts(x)' = Attempts(x) + 1
<1>1. /\ \A x \in Deliveries : queue'[x] = IF Claimable(x) THEN Claimed(queue[x]) ELSE queue[x]
      /\ queue' = [x \in Deliveries |-> queue'[x]]
  <2> DEFINE due == {x \in Deliveries : Claimable(x)}
  <2>1. queue' = [x \in Deliveries |-> IF x \in due THEN Claimed(queue[x]) ELSE queue[x]]
    BY DEF Dispatch
  <2>2. \A x \in Deliveries : x \in due <=> Claimable(x)
    OBVIOUS
  <2> HIDE DEF due
  <2> QED BY <2>1, <2>2
<1>2. ASSUME NEW x \in Deliveries
      PROVE  /\ RowMoves(x) /\ queue'[x] \in PushRows \cup {NotQueued}
             /\ Claimable(x) => Attempts(x)' = Attempts(x) + 1
  <2>1. CASE ~Claimable(x)
    BY <1>1, <2>1, RowStays
  <2>2. CASE Claimable(x)
    <3>1. /\ queue[x] \in PushRows /\ queue[x].attempts < MaxAttempts
          /\ queue[x].attempts \in Nat /\ queue[x].outcome = "pending" /\ Pending(x)
      BY <2>2, PendingRow DEF Claimable
    <3>2. queue'[x] = Claimed(queue[x])
      BY <1>1, <2>2
    <3>3. queue'[x].attempts = queue[x].attempts + 1 /\ queue'[x].outcome = "pending"
      BY <3>1, <3>2 DEF PushRows, Claimed
    <3>4. queue[x].attempts + 1 \in 0..MaxAttempts
      BY <3>1, PushAssumption
    <3>5. queue'[x] \in PushRows
      BY <3>1, <3>2, <3>4 DEF PushRows, Claimed
    <3>6. Attempts(x)' = Attempts(x) + 1
      BY <3>1, <3>3, <3>5, RowFacts DEF Attempts
    <3> QED BY <3>1, <3>3, <3>5, <3>6, RowGoesOn
  <2> QED BY <2>1, <2>2
<1> QED BY <1>1, <1>2

LEMMA ConcludeMoves ==
  ASSUME PushInv, NEW x \in Deliveries, NEW result \in {"sent", "gone", "retry"}, Concludes(x),
         result = "sent" => accepted[x] > 0, Conclude(x, result)
  PROVE  /\ queue' \in [Deliveries -> PushRows \cup {NotQueued}] /\ \A y \in Deliveries : RowMoves(y)
         /\ subscribed' \in [Devices -> BOOLEAN]
<1>1. /\ queue \in [Deliveries -> PushRows \cup {NotQueued}]
      /\ subscribed \in [Devices -> BOOLEAN]
      /\ Pending(x) /\ queue[x] \in PushRows /\ queue[x].outcome = "pending" /\ queue[x].attempts \in Nat
  BY PendingRow DEF PushInv, PushTypeOK, Concludes
<1>2. CASE result = "gone"
  <2>1. /\ EndPending(IF subscribed[x[2]] THEN Notices \X {x[2]} ELSE {x}, "subscription_revoked")
        /\ subscribed' = [subscribed EXCEPT ![x[2]] = FALSE]
    BY <1>2 DEF Conclude
  <2> QED BY <1>1, <2>1, EndPendingMoves DEF Outcomes
<1>3. CASE result # "gone"
  <2> DEFINE row == queue'[x]
  <2>1. /\ UNCHANGED subscribed
        /\ \/ queue' = [queue EXCEPT ![x].lease = "free", ![x].due = FALSE]
           \/ result = "retry" /\ queue' = [queue EXCEPT ![x] = End(@, "failed")]
           \/ result = "sent" /\ queue' = [queue EXCEPT ![x] = End(@, "sent")]
    BY <1>3 DEF Conclude
  <2>2. /\ row \in PushRows /\ row.attempts = queue[x].attempts /\ row.lease = "free"
        /\ (row.outcome = "sent" => accepted[x] > 0)
        /\ queue' = [queue EXCEPT ![x] = row]
    <3>1. CASE queue' = [queue EXCEPT ![x].lease = "free", ![x].due = FALSE]
      <4>1. row = [queue[x] EXCEPT !.lease = "free", !.due = FALSE]
        BY <1>1, <3>1
      <4>2. row \in PushRows /\ row.attempts = queue[x].attempts /\ row.lease = "free"
             /\ row.outcome = "pending"
        BY <1>1, <4>1 DEF PushRows
      <4> QED BY <1>1, <3>1, <4>2
    <3>2. CASE result = "retry" /\ queue' = [queue EXCEPT ![x] = End(@, "failed")]
      <4>1. row = End(queue[x], "failed")
        BY <1>1, <3>2
      <4> QED BY <1>1, <3>2, <4>1, EndedRow DEF Outcomes
    <3>3. CASE result = "sent" /\ queue' = [queue EXCEPT ![x] = End(@, "sent")]
      <4>1. row = End(queue[x], "sent")
        BY <1>1, <3>3
      <4> QED BY <1>1, <3>3, <4>1, EndedRow DEF Outcomes
    <3> QED BY <2>1, <3>1, <3>2, <3>3
  <2>3. \A y \in Deliveries \ {x} : queue'[y] = queue[y]
    BY <1>1, <2>2
  <2>4. ASSUME NEW y \in Deliveries PROVE RowMoves(y)
    <3>1. CASE y = x
      BY <1>1, <2>2, <3>1, RowGoesOn
    <3>2. CASE y # x
      BY <2>3, <3>2, RowStays
    <3> QED BY <3>1, <3>2
  <2>5. queue' \in [Deliveries -> PushRows \cup {NotQueued}]
    BY <1>1, <2>2
  <2> QED BY <1>1, <2>1, <2>4, <2>5
<1> QED BY <1>2, <1>3

LEMMA PassingMoves ==
  ASSUME PushInv, Passing
  PROVE  queue' \in [Deliveries -> PushRows \cup {NotQueued}] /\ \A x \in Deliveries : RowMoves(x)
<1>1. queue \in [Deliveries -> PushRows \cup {NotQueued}]
  BY DEF PushInv, PushTypeOK
<1>2. PICK x \in Deliveries : LeaseLapses(x) \/ BecomesDue(x)
  BY DEF Passing
<1>3. Pending(x)
  BY <1>2 DEF LeaseLapses, BecomesDue, Pending, PushInv, EndedIsFree
<1>4. queue[x] \in PushRows /\ queue[x].outcome = "pending" /\ queue[x].attempts \in Nat
  BY <1>3, PendingRow
<1>5. /\ queue'[x] \in PushRows /\ queue'[x].outcome = "pending"
      /\ queue'[x].attempts = queue[x].attempts
      /\ queue' = [queue EXCEPT ![x] = queue'[x]]
  <2>1. CASE LeaseLapses(x)
    <3>1. queue'[x] = [queue[x] EXCEPT !.lease = "lapsed"]
      BY <1>1, <2>1 DEF LeaseLapses
    <3> QED BY <1>1, <1>4, <2>1, <3>1 DEF LeaseLapses, PushRows
  <2>2. CASE BecomesDue(x)
    <3>1. queue'[x] = [queue[x] EXCEPT !.due = TRUE]
      BY <1>1, <2>2 DEF BecomesDue
    <3> QED BY <1>1, <1>4, <2>2, <3>1 DEF BecomesDue, PushRows
  <2> QED BY <1>2, <2>1, <2>2
<1>6. ASSUME NEW y \in Deliveries PROVE RowMoves(y)
  <2>1. CASE y = x
    BY <1>3, <1>4, <1>5, <2>1, RowGoesOn
  <2>2. CASE y # x
    BY <1>1, <1>5, <2>2, RowStays
  <2> QED BY <2>1, <2>2
<1> QED BY <1>1, <1>5, <1>6

-----------------------------------------------------------------------------
(* Push delivery: a step *)

\* The row of a delivery moves, or a COMMIT queues it.
RowStep(x) ==
  \/ RowMoves(x)
  \/ /\ queue[x] = NotQueued /\ queue'[x] \in PushRows
     /\ queue'[x].attempts = 0 /\ queue'[x].lease = "free" /\ queue'[x].outcome = "pending"

\* The requests on their way for a delivery: some end unanswered, one is
\* answered, or one is sent for an attempt that is counted.
SendsStep(x) ==
  \/ Senders(x)' \subseteq Senders(x) /\ accepted'[x] = accepted[x]
  \/ \E w \in Senders(x) :
       Senders(x)' = Senders(x) \ {w} /\ accepted'[x] \in {accepted[x], accepted[x] + 1}
  \/ \E w \in PushWorkers : /\ Senders(x)' = Senders(x) \cup {w} /\ accepted'[x] = accepted[x]
                            /\ Attempts(x)' = Attempts(x) + 1

\* What every step of push delivery does.
PushStep ==
  /\ PushTypeOK' /\ QueuedAtCommit'
  /\ \A x \in Deliveries : RowStep(x) /\ SendsStep(x)
  /\ \A w \in PushWorkers, x \in Deliveries :
       flight'[w][x] = "sent" => flight[w][x] = "sent" \/ accepted'[x] > 0

LEMMA AttemptsGrow ==
  ASSUME PushInv, NEW x \in Deliveries, RowStep(x)
  PROVE  Attempts(x) \in Nat /\ Attempts(x)' \in Nat /\ Attempts(x)' >= Attempts(x)
<1>1. queue[x] \in PushRows \cup {NotQueued}
  BY DEF PushInv, PushTypeOK
<1>2. CASE queue[x] = NotQueued
  <2>1. Attempts(x) = 0
    BY <1>2 DEF Attempts
  <2>2. Attempts(x)' = 0
    BY <1>2 DEF RowStep, RowMoves, Attempts
  <2> QED BY <2>1, <2>2
<1>3. CASE queue[x] # NotQueued
  <2>1. queue[x] \in PushRows /\ queue'[x] \in PushRows /\ queue'[x].attempts >= queue[x].attempts
    BY <1>1, <1>3 DEF RowStep, RowMoves
  <2>2. Attempts(x) = queue[x].attempts /\ Attempts(x)' = queue'[x].attempts
    BY <2>1, RowFacts DEF Attempts
  <2> QED BY <2>1, <2>2, RowFacts
<1> QED BY <1>2, <1>3

\* Requests on their way stay within the attempts.
LEMMA SendsStayCounted ==
  ASSUME PushInv, NEW x \in Deliveries, RowStep(x), SendsStep(x)
  PROVE  /\ IsFiniteSet(Senders(x)') /\ accepted'[x] + Cardinality(Senders(x)') <= Attempts(x)'
         /\ accepted'[x] >= accepted[x]
<1> DEFINE S == Senders(x)
           T == Senders(x)'
<1>1. /\ IsFiniteSet(S) /\ Cardinality(S) \in Nat /\ accepted[x] \in Nat
      /\ accepted[x] + Cardinality(S) <= Attempts(x)
      /\ Attempts(x) \in Nat /\ Attempts(x)' \in Nat /\ Attempts(x)' >= Attempts(x)
  BY AttemptsGrow, FS_CardinalityType DEF PushInv, PushTypeOK, SendsAreCounted
<1>2. CASE T \subseteq S /\ accepted'[x] = accepted[x]
  <2>1. IsFiniteSet(T) /\ Cardinality(T) \in Nat /\ Cardinality(T) <= Cardinality(S)
    BY <1>1, <1>2, FS_Subset, FS_CardinalityType
  <2> QED BY <1>1, <1>2, <2>1
<1>3. CASE \E w \in S : T = S \ {w} /\ accepted'[x] \in {accepted[x], accepted[x] + 1}
  <2>1. IsFiniteSet(T) /\ Cardinality(T) = Cardinality(S) - 1
    BY <1>1, <1>3, FS_RemoveElement
  <2> QED BY <1>1, <1>3, <2>1
<1>4. CASE \E w \in PushWorkers : /\ T = S \cup {w} /\ accepted'[x] = accepted[x]
                                  /\ Attempts(x)' = Attempts(x) + 1
  <2>1. IsFiniteSet(T) /\ Cardinality(T) \in Nat /\ Cardinality(T) <= Cardinality(S) + 1
    <3>1. PICK w : T = S \cup {w}
      BY <1>4
    <3>2. /\ IsFiniteSet(S \cup {w})
          /\ Cardinality(S \cup {w}) \in {Cardinality(S), Cardinality(S) + 1}
      BY <1>1, FS_AddElement
    <3> QED BY <1>1, <3>1, <3>2
  <2> QED BY <1>1, <1>4, <2>1
<1> QED BY <1>2, <1>3, <1>4 DEF SendsStep

LEMMA PushStepKeeps ==
  ASSUME PushInv, PushStep
  PROVE  PushInv'
<1>1. PushTypeOK' /\ QueuedAtCommit'
  BY DEF PushStep
<1>2. SendsAreCounted'
  BY SendsStayCounted DEF PushStep, SendsAreCounted
<1>3. ASSUME NEW x \in Deliveries
      PROVE  accepted[x] \in Nat /\ accepted'[x] \in Nat /\ accepted'[x] >= accepted[x]
  BY <1>1, SendsStayCounted DEF PushStep, PushInv, PushTypeOK
<1>4. ResultsAreTrue'
  <2> SUFFICES ASSUME NEW w \in PushWorkers, NEW x \in Deliveries, flight'[w][x] = "sent"
               PROVE  accepted'[x] > 0
    BY DEF ResultsAreTrue
  <2>1. CASE accepted'[x] > 0
    BY <2>1
  <2>2. CASE flight[w][x] = "sent"
    <3>1. accepted[x] > 0
      BY <2>2 DEF PushInv, ResultsAreTrue
    <3> QED BY <1>3, <3>1
  <2> QED BY <2>1, <2>2 DEF PushStep
<1>5. EndedIsFree'
  BY DEF PushStep, RowStep, RowMoves, EndedIsFree
<1>6. SentWasAccepted'
  <2> SUFFICES ASSUME NEW x \in Deliveries, queue'[x] # NotQueued, queue'[x].outcome = "sent"
               PROVE  accepted'[x] > 0
    BY DEF SentWasAccepted
  <2>1. accepted[x] > 0
    BY DEF PushStep, RowStep, RowMoves, PushInv, SentWasAccepted
  <2> QED BY <1>3, <2>1
<1> QED BY <1>1, <1>2, <1>4, <1>5, <1>6 DEF PushInv

\* A row that only moves was queued by a COMMIT that came before.
LEMMA MovesKeepQueuedAtCommit ==
  ASSUME QueuedAtCommit, \A x \in Deliveries : RowMoves(x),
         \A n \in Notices : inserting'[n].stage # "committed" => inserting[n].stage # "committed"
  PROVE  QueuedAtCommit'
BY DEF QueuedAtCommit, RowMoves, Deliveries

\* The steps that send nothing and hear nothing of what was sent.
LEMMA QuietStep ==
  ASSUME PushInv, PushTypeOK', QueuedAtCommit', \A x \in Deliveries : RowStep(x),
         UNCHANGED <<flight, accepted>>
  PROVE  PushStep
<1>1. \A x \in Deliveries : SendsStep(x)
  BY DEF SendsStep, Senders
<1> QED BY <1>1 DEF PushStep

LEMMA InsertStep ==
  ASSUME PushInv, NEW n \in Notices, InsertNotification(n) \/ CommitNotification(n)
  PROVE  PushStep
<1>1. PushTypeOK /\ QueuedAtCommit
  BY DEF PushInv
<1>2. CASE InsertNotification(n)
  <2>1. \A x \in Deliveries : RowMoves(x)
    BY <1>2, RowStays DEF InsertNotification
  <2>2. /\ inserting' \in [Notices -> [stage : {"new", "open", "committed"}, to : SUBSET Devices,
                                       due : BOOLEAN]]
        /\ \A m \in Notices : inserting'[m].stage # "committed" => inserting[m].stage # "committed"
    BY <1>1, <1>2 DEF InsertNotification, PushTypeOK
  <2>3. PushTypeOK'
    BY <1>1, <1>2, <2>2 DEF InsertNotification, PushTypeOK
  <2>4. QueuedAtCommit'
    BY <1>1, <2>1, <2>2, MovesKeepQueuedAtCommit
  <2> QED BY <1>2, <2>1, <2>3, <2>4, QuietStep DEF InsertNotification, RowStep
<1>3. CASE CommitNotification(n)
  <2> DEFINE fresh == [attempts |-> 0, lease |-> "free", due |-> inserting[n].due,
                       outcome |-> "pending"]
             Q(x) == x[1] = n /\ x[2] \in inserting[n].to
  <2>1. inserting[n].stage = "open" /\ fresh \in PushRows
    BY <1>1, <1>3, PushAssumption DEF CommitNotification, PushTypeOK, PushRows, Outcomes
  <2>2. \A x \in Deliveries : queue'[x] = IF Q(x) THEN fresh ELSE queue[x]
    BY <1>3 DEF CommitNotification
  <2>3. ASSUME NEW x \in Deliveries
        PROVE  RowStep(x) /\ queue'[x] \in PushRows \cup {NotQueued}
    <3>1. CASE Q(x)
      <4>1. PICK m \in Notices, d \in Devices : x = <<m, d>>
        BY DEF Deliveries
      <4>2. queue[x] = NotQueued
        BY <1>1, <2>1, <3>1, <4>1 DEF QueuedAtCommit
      <4> QED BY <2>1, <2>2, <3>1, <4>2 DEF RowStep
    <3>2. CASE ~Q(x)
      BY <2>2, <3>2, RowStays DEF RowStep
    <3> QED BY <3>1, <3>2
  <2>4. queue' \in [Deliveries -> PushRows \cup {NotQueued}]
    BY <1>3, <2>3 DEF CommitNotification
  <2>5. inserting' = [inserting EXCEPT ![n].stage = "committed"]
    BY <1>3 DEF CommitNotification
  <2>6. /\ inserting' \in [Notices -> [stage : {"new", "open", "committed"}, to : SUBSET Devices,
                                       due : BOOLEAN]]
        /\ \A m \in Notices \ {n} : inserting'[m] = inserting[m]
        /\ inserting'[n].stage = "committed"
    BY <1>1, <2>5 DEF PushTypeOK
  <2>7. PushTypeOK'
    BY <1>1, <1>3, <2>4, <2>6 DEF CommitNotification, PushTypeOK
  <2>8. QueuedAtCommit'
    <3> SUFFICES ASSUME NEW m \in Notices, inserting'[m].stage # "committed", NEW d \in Devices
                 PROVE  queue'[<<m, d>>] = NotQueued
      BY DEF QueuedAtCommit
    <3>1. m # n /\ queue[<<m, d>>] = NotQueued /\ <<m, d>> \in Deliveries
      BY <1>1, <2>6 DEF QueuedAtCommit, Deliveries
    <3> QED BY <2>2, <3>1
  <2> QED BY <1>3, <2>3, <2>7, <2>8, QuietStep DEF CommitNotification
<1> QED BY <1>2, <1>3

LEMMA RecipientStep ==
  ASSUME PushInv, Recipient \/ Passing \/ QuietHours
  PROVE  PushStep
<1>1. PushTypeOK /\ QueuedAtCommit
  BY DEF PushInv
<1>2. ASSUME queue' \in [Deliveries -> PushRows \cup {NotQueued}], \A x \in Deliveries : RowMoves(x),
             UNCHANGED <<inserting, flight, accepted>>, preferred' \in BOOLEAN, quiet' \in BOOLEAN,
             subscribed' \in [Devices -> BOOLEAN]
      PROVE  PushStep
  <2>1. PushTypeOK'
    BY <1>1, <1>2 DEF PushTypeOK
  <2>2. QueuedAtCommit'
    BY <1>1, <1>2, MovesKeepQueuedAtCommit
  <2> QED BY <1>2, <2>1, <2>2, QuietStep DEF RowStep
<1>3. ASSUME NEW enabled \in BOOLEAN, NEW silent \in BOOLEAN, UpdatePreferences(enabled, silent)
      PROVE  PushStep
  BY <1>1, <1>2, <1>3, UpdatePreferencesMoves DEF UpdatePreferences, PushTypeOK
<1>4. ASSUME NEW d \in Devices, SubscribePush(d) PROVE PushStep
  BY <1>1, <1>2, <1>4, RowStays DEF SubscribePush, PushTypeOK
<1>5. ASSUME NEW d \in Devices, UnsubscribePush(d) PROVE PushStep
  <2>1. queue' \in [Deliveries -> PushRows \cup {NotQueued}] /\ \A x \in Deliveries : RowMoves(x)
    BY <1>5, EndPendingMoves DEF UnsubscribePush, Outcomes
  <2> QED BY <1>1, <1>2, <1>5, <2>1 DEF UnsubscribePush, PushTypeOK
<1>6. CASE Passing
  <2>1. UNCHANGED <<recipientVars, flight, accepted>>
    BY <1>6 DEF Passing, LeaseLapses, BecomesDue
  <2> QED BY <1>1, <1>2, <1>6, <2>1, PassingMoves DEF recipientVars, PushTypeOK
<1>7. CASE QuietHours
  BY <1>1, <1>2, <1>7, RowStays DEF QuietHours, PushTypeOK
<1> QED BY <1>3, <1>4, <1>5, <1>6, <1>7 DEF Recipient

LEMMA WorkerStep ==
  ASSUME PushInv, NEW w \in PushWorkers, Attempt(w) \/ Answer(w) \/ WorkerDies(w)
  PROVE  PushStep
<1>1. PushTypeOK /\ QueuedAtCommit
  BY DEF PushInv
<1>2. ASSUME queue' \in [Deliveries -> PushRows \cup {NotQueued}], \A x \in Deliveries : RowMoves(x),
             UNCHANGED <<preferred, quiet, inserting>>, subscribed' \in [Devices -> BOOLEAN],
             flight' \in [PushWorkers -> [Deliveries -> Flights]], accepted' \in [Deliveries -> Nat]
      PROVE  PushTypeOK' /\ QueuedAtCommit' /\ \A x \in Deliveries : RowStep(x)
  BY <1>1, <1>2, MovesKeepQueuedAtCommit DEF PushTypeOK, RowStep
<1>3. CASE Dispatch(w)
  <2> DEFINE new == [x \in Deliveries |->
               IF x \in {y \in Deliveries : Claimable(y)} /\ subscribed[x[2]] THEN "sending" ELSE "none"]
  <2>1. /\ flight' = [flight EXCEPT ![w] = new] /\ new \in [Deliveries -> Flights]
        /\ UNCHANGED <<recipientVars, accepted>> /\ \A x \in Deliveries : flight[w][x] = "none"
    BY <1>3 DEF Dispatch, Flights, Busy
  <2>2. \A x \in Deliveries : /\ new[x] # "sent"
                              /\ new[x] = "sending" => Claimable(x)
    OBVIOUS
  <2> HIDE DEF new
  <2>3. flight' \in [PushWorkers -> [Deliveries -> Flights]]
    BY <1>1, <2>1 DEF PushTypeOK
  <2>4. PushTypeOK' /\ QueuedAtCommit' /\ \A x \in Deliveries : RowStep(x)
    BY <1>1, <1>2, <1>3, <2>1, <2>3, DispatchMoves DEF recipientVars, PushTypeOK
  <2>5. flight'[w] = new /\ \A v \in PushWorkers \ {w} : flight'[v] = flight[v]
    BY <1>1, <2>1 DEF PushTypeOK
  <2>6. ASSUME NEW x \in Deliveries PROVE SendsStep(x)
    <3>1. CASE new[x] = "sending"
      <4>1. Senders(x)' = Senders(x) \cup {w}
        BY <2>5, <3>1 DEF Senders
      <4> QED BY <1>3, <2>1, <2>2, <3>1, <4>1, DispatchMoves DEF SendsStep
    <3>2. CASE new[x] # "sending"
      BY <2>1, <2>5, <3>2 DEF SendsStep, Senders
    <3> QED BY <3>1, <3>2
  <2>7. \A v \in PushWorkers, x \in Deliveries : flight'[v][x] = "sent" => flight[v][x] = "sent"
    BY <2>2, <2>5
  <2> QED BY <2>4, <2>6, <2>7 DEF PushStep
<1>4. ASSUME NEW x \in Deliveries, Finish(w, x) \/ FinishFails(w, x) PROVE PushStep
  <2>1. /\ flight[w][x] \in {"sent", "gone", "retry"}
        /\ flight' = [flight EXCEPT ![w][x] = "none"]
        /\ UNCHANGED <<preferred, quiet, inserting, accepted>>
    BY <1>4 DEF Finish, FinishFails, recipientVars
  <2>2. /\ queue' \in [Deliveries -> PushRows \cup {NotQueued}] /\ \A y \in Deliveries : RowMoves(y)
        /\ subscribed' \in [Devices -> BOOLEAN]
    <3>1. CASE Concludes(x) /\ Conclude(x, flight[w][x])
      <4>1. flight[w][x] = "sent" => accepted[x] > 0
        BY DEF PushInv, ResultsAreTrue
      <4> QED BY <2>1, <3>1, <4>1, ConcludeMoves
    <3>2. CASE UNCHANGED <<queue, subscribed>>
      BY <1>1, <3>2, RowStays DEF PushTypeOK
    <3> QED BY <1>4, <3>1, <3>2 DEF Finish, FinishFails, recipientVars
  <2>3. /\ flight' \in [PushWorkers -> [Deliveries -> Flights]]
        /\ \A v \in PushWorkers, y \in Deliveries :
             flight'[v][y] = IF v = w /\ y = x THEN "none" ELSE flight[v][y]
    BY <1>1, <2>1 DEF PushTypeOK, Flights
  <2>4. PushTypeOK' /\ QueuedAtCommit' /\ \A y \in Deliveries : RowStep(y)
    BY <1>1, <1>2, <2>1, <2>2, <2>3 DEF PushTypeOK
  <2>5. ASSUME NEW y \in Deliveries PROVE SendsStep(y)
    BY <2>1, <2>3 DEF SendsStep, Senders
  <2> QED BY <2>3, <2>4, <2>5 DEF PushStep
<1>5. ASSUME NEW x \in Deliveries, NEW result \in {"sent", "gone", "retry"}, NEW took \in BOOLEAN,
             SendReturns(w, x, result, took)
      PROVE  PushStep
  <2>1. /\ flight[w][x] = "sending" /\ (result = "sent" => took)
        /\ flight' = [flight EXCEPT ![w][x] = result]
        /\ accepted' = [accepted EXCEPT ![x] = IF took THEN @ + 1 ELSE @]
        /\ UNCHANGED <<recipientVars, queue>>
    BY <1>5 DEF SendReturns
  <2>2. /\ flight' \in [PushWorkers -> [Deliveries -> Flights]]
        /\ \A v \in PushWorkers, y \in Deliveries :
             flight'[v][y] = IF v = w /\ y = x THEN result ELSE flight[v][y]
    BY <1>1, <2>1 DEF PushTypeOK, Flights
  <2>3. /\ accepted' \in [Deliveries -> Nat] /\ \A y \in Deliveries \ {x} : accepted'[y] = accepted[y]
        /\ accepted[x] \in Nat /\ accepted'[x] = IF took THEN accepted[x] + 1 ELSE accepted[x]
    BY <1>1, <2>1 DEF PushTypeOK
  <2>4. PushTypeOK' /\ QueuedAtCommit' /\ \A y \in Deliveries : RowStep(y)
    BY <1>1, <1>2, <2>1, <2>2, <2>3, RowStays DEF PushTypeOK, recipientVars
  <2>5. ASSUME NEW y \in Deliveries PROVE SendsStep(y)
    <3>1. CASE y = x
      <4>1. w \in Senders(x) /\ Senders(x)' = Senders(x) \ {w}
        BY <2>1, <2>2 DEF Senders
      <4>2. accepted'[x] \in {accepted[x], accepted[x] + 1}
        BY <2>3
      <4> QED BY <3>1, <4>1, <4>2 DEF SendsStep
    <3>2. CASE y # x
      BY <2>2, <2>3, <3>2 DEF SendsStep, Senders
    <3> QED BY <3>1, <3>2
  <2>6. \A v \in PushWorkers, y \in Deliveries :
          flight'[v][y] = "sent" => flight[v][y] = "sent" \/ accepted'[y] > 0
    <3>1. result = "sent" => accepted'[x] > 0
      BY <2>1, <2>3
    <3> QED BY <2>2, <3>1
  <2> QED BY <2>4, <2>5, <2>6 DEF PushStep
<1>6. CASE WorkerDies(w)
  <2>1. /\ flight' = [flight EXCEPT ![w] = [x \in Deliveries |-> "none"]]
        /\ UNCHANGED <<recipientVars, queue, accepted>>
    BY <1>6 DEF WorkerDies
  <2>2. /\ flight' \in [PushWorkers -> [Deliveries -> Flights]]
        /\ \A v \in PushWorkers, y \in Deliveries :
             flight'[v][y] = IF v = w THEN "none" ELSE flight[v][y]
    BY <1>1, <2>1 DEF PushTypeOK, Flights
  <2>3. PushTypeOK' /\ QueuedAtCommit' /\ \A y \in Deliveries : RowStep(y)
    BY <1>1, <1>2, <2>1, <2>2, RowStays DEF PushTypeOK, recipientVars
  <2>4. \A y \in Deliveries : SendsStep(y)
    BY <2>1, <2>2 DEF SendsStep, Senders
  <2> QED BY <2>2, <2>3, <2>4 DEF PushStep
<1> QED BY <1>3, <1>4, <1>5, <1>6 DEF Attempt, Answer

LEMMA PushNextSteps ==
  ASSUME PushInv, PushNext
  PROVE  PushStep
BY InsertStep, RecipientStep, WorkerStep DEF PushNext

-----------------------------------------------------------------------------
(* Report simulations: the inductive invariant *)

\* The versions of the schedule that the keys with a recorded response saw.
Looks == {expects[k] : k \in recorded}

\* A client has seen a version there has been, and what was recorded for it has
\* moved the schedule past that version.
LooksAreOfThePast ==
  /\ \A k \in SimulationKeys : expects[k] <= schedule.version
  /\ \A k \in recorded : 0 < expects[k] /\ expects[k] < schedule.version

\* A request carries the version its client has seen.
CallsHaveLooked == \A s \in Simulations : simAt[s] # "idle" => expects[simKey[s]] # 0

\* The row lock has one holder, which has found the schedule as its client saw it.
LockHolderIsCurrent == \A s \in Simulations : simAt[s] = "commit" =>
  Current(s) /\ \A r \in Simulations : simAt[r] = "commit" => r = s

ReportsInv ==
  /\ SchedulesTypeOK
  /\ HistoryHasEveryVersion
  /\ LooksAreOfThePast
  /\ CallsHaveLooked
  /\ LockHolderIsCurrent
  /\ OneDeliveryPerLook

LEMMA AppendVersion ==
  ASSUME NEW n \in Nat
  PROVE  Append([i \in 1..n |-> i], n + 1) = [i \in 1..n + 1 |-> i]
<1> DEFINE s == [i \in 1..n |-> i]
           t == [i \in 1..n + 1 |-> i]
<1>1. s \in Seq(Nat) /\ Len(s) = n /\ t \in Seq(Nat) /\ Len(t) = n + 1
  <2>1. s \in [1..n -> Nat] /\ t \in [1..n + 1 -> Nat]
    OBVIOUS
  <2> QED BY <2>1, LenProperties DEF Seq
<1>2. /\ Append(s, n + 1) \in Seq(Nat) /\ Len(Append(s, n + 1)) = n + 1
      /\ \A i \in 1..n : Append(s, n + 1)[i] = s[i]
      /\ Append(s, n + 1)[n + 1] = n + 1
  BY <1>1, AppendProperties
<1>3. \A i \in 1..n + 1 : Append(s, n + 1)[i] = t[i]
  BY <1>2
<1> QED BY <1>1, <1>2, <1>3, SeqEqual

LEMMA ReportsInitInv == SchedulesInit => ReportsInv
<1> SUFFICES ASSUME SchedulesInit PROVE ReportsInv
  OBVIOUS
<1>1. SchedulesTypeOK
  <2>1. (CHOOSE k \in SimulationKeys : TRUE) \in SimulationKeys
    BY ScheduleAssumption
  <2>2. deliveries \in Seq(Nat) /\ history \in Seq(Nat)
    BY DEF SchedulesInit
  <2> QED BY <2>1, <2>2 DEF SchedulesInit, SchedulesTypeOK, Working, SimulationAnswers
<1>2. HistoryHasEveryVersion
  <2>1. history = <<1>> /\ schedule.version = 1
    BY DEF SchedulesInit
  <2>2. <<1>> = [i \in 1..1 |-> i]
    OBVIOUS
  <2> QED BY <2>1, <2>2 DEF HistoryHasEveryVersion
<1>3. LooksAreOfThePast /\ CallsHaveLooked /\ LockHolderIsCurrent
  BY DEF SchedulesInit, LooksAreOfThePast, CallsHaveLooked, LockHolderIsCurrent
<1>4. OneDeliveryPerLook
  <2>1. {expects[k] : k \in recorded} = {} /\ Len(deliveries) = 0
    BY DEF SchedulesInit
  <2> QED BY <2>1, FS_EmptySet DEF OneDeliveryPerLook
<1> QED BY <1>1, <1>2, <1>3, <1>4 DEF ReportsInv

\* The steps of a request that change neither the schedule nor what is recorded.
RequestMoves(s, steps) ==
  /\ \E step \in steps : simAt' = [simAt EXCEPT ![s] = step]
  /\ UNCHANGED <<schedule, deliveries, history, recorded, expects, simKey>>

LEMMA RequestMovesKeep ==
  ASSUME ReportsInv, NEW s \in Simulations, simAt[s] # "idle",
         NEW steps \in SUBSET ({"precheck"} \cup Working \cup SimulationAnswers),
         RequestMoves(s, steps), "commit" \in steps => Unlocked /\ Current(s)
  PROVE  ReportsInv'
<1>1. PICK step \in steps : simAt' = [simAt EXCEPT ![s] = step]
  BY DEF RequestMoves
<1>2. SchedulesTypeOK'
  BY <1>1 DEF ReportsInv, SchedulesTypeOK, RequestMoves
<1>3. HistoryHasEveryVersion' /\ LooksAreOfThePast' /\ OneDeliveryPerLook'
  BY DEF ReportsInv, RequestMoves, HistoryHasEveryVersion, LooksAreOfThePast, OneDeliveryPerLook
<1>4. \A r \in Simulations : simAt'[r] = IF r = s THEN step ELSE simAt[r]
  BY <1>1 DEF ReportsInv, SchedulesTypeOK
<1>5. CallsHaveLooked'
  BY <1>4 DEF ReportsInv, RequestMoves, CallsHaveLooked
<1>6. LockHolderIsCurrent'
  BY <1>4 DEF ReportsInv, RequestMoves, LockHolderIsCurrent, Current, Unlocked
<1> QED BY <1>2, <1>3, <1>5, <1>6 DEF ReportsInv

LEMMA SimulationCallKeeps ==
  ASSUME ReportsInv, NEW s \in Simulations, NEW k \in SimulationKeys, SimulateReportDelivery(s, k)
  PROVE  ReportsInv'
<1>1. /\ SchedulesTypeOK /\ schedule.version \in Nat \ {0}
      /\ UNCHANGED <<schedule, deliveries, history, recorded>>
      /\ simAt[s] # "commit"
  BY DEF ReportsInv, SchedulesTypeOK, SimulateReportDelivery, SimulationAnswers
<1>2. /\ \A r \in Simulations : /\ simAt'[r] = IF r = s THEN "precheck" ELSE simAt[r]
                                /\ simKey'[r] = IF r = s THEN k ELSE simKey[r]
      /\ \A j \in SimulationKeys :
           expects'[j] = IF j = k /\ expects[j] = 0 THEN schedule.version ELSE expects[j]
  BY <1>1 DEF SchedulesTypeOK, SimulateReportDelivery, At
<1>3. SchedulesTypeOK'
  BY <1>1 DEF SchedulesTypeOK, SimulateReportDelivery, At, SimulationAnswers, Working
<1>4. HistoryHasEveryVersion'
  BY <1>1 DEF ReportsInv, HistoryHasEveryVersion
<1>5. \A j \in recorded : expects'[j] = expects[j]
  BY <1>1, <1>2 DEF ReportsInv, LooksAreOfThePast, SchedulesTypeOK
<1>6. LooksAreOfThePast'
  BY <1>1, <1>2, <1>5 DEF ReportsInv, LooksAreOfThePast, SchedulesTypeOK
<1>7. CallsHaveLooked'
  BY <1>1, <1>2 DEF ReportsInv, CallsHaveLooked, SchedulesTypeOK
<1>8. LockHolderIsCurrent'
  <2> SUFFICES ASSUME NEW r \in Simulations, simAt'[r] = "commit"
               PROVE  Current(r)' /\ \A q \in Simulations : simAt'[q] = "commit" => q = r
    BY DEF LockHolderIsCurrent
  <2>1. r # s /\ simAt[r] = "commit"
    BY <1>2
  <2>2. expects[simKey[r]] # 0 /\ simKey'[r] = simKey[r] /\ simKey[r] \in SimulationKeys
    BY <1>1, <1>2, <2>1 DEF ReportsInv, CallsHaveLooked, SchedulesTypeOK
  <2>3. Current(r)'
    BY <1>1, <1>2, <2>1, <2>2 DEF ReportsInv, LockHolderIsCurrent, Current
  <2> QED BY <1>2, <2>1, <2>3 DEF ReportsInv, LockHolderIsCurrent
<1>9. OneDeliveryPerLook'
  <2>1. {expects'[j] : j \in recorded} = {expects[j] : j \in recorded}
    BY <1>5
  <2> QED BY <1>1, <2>1 DEF ReportsInv, OneDeliveryPerLook
<1> QED BY <1>3, <1>4, <1>6, <1>7, <1>8, <1>9 DEF ReportsInv

\* The next version, whoever makes it.
LEMMA NextVersion ==
  ASSUME ReportsInv, schedule'.version = schedule.version + 1,
         history' = Append(history, schedule.version + 1)
  PROVE  HistoryHasEveryVersion' /\ history' \in Seq(Nat)
<1>1. schedule.version \in Nat /\ history = [i \in 1..schedule.version |-> i] /\ history \in Seq(Nat)
  BY DEF ReportsInv, SchedulesTypeOK, HistoryHasEveryVersion
<1>2. history' = [i \in 1..schedule'.version |-> i]
  BY <1>1, AppendVersion
<1> QED BY <1>1, <1>2 DEF HistoryHasEveryVersion

LEMMA CommitDeliveryKeeps ==
  ASSUME ReportsInv, NEW s \in Simulations, CommitDelivery(s)
  PROVE  ReportsInv'
<1> DEFINE key == simKey[s]
           v == schedule.version
<1>1. /\ SchedulesTypeOK /\ v \in Nat \ {0} /\ key \in SimulationKeys /\ schedule.cycle \in Nat
      /\ recorded' = recorded \cup {key} /\ UNCHANGED <<expects, simKey>>
      /\ deliveries' = Append(deliveries, schedule.cycle)
      /\ history' = Append(history, v + 1)
      /\ schedule' = [schedule EXCEPT !.version = @ + 1, !.cycle = @ + 1]
      /\ expects[key] = v
  BY DEF ReportsInv, SchedulesTypeOK, CommitDelivery, LockHolderIsCurrent, Current
<1>2. /\ schedule' \in [status : {"active", "paused"}, version : Nat \ {0}, cycle : Nat]
      /\ schedule'.version = v + 1
  <2>1. schedule \in [status : {"active", "paused"}, version : Nat \ {0}, cycle : Nat]
    BY <1>1 DEF SchedulesTypeOK
  <2>2. /\ schedule.version \in Nat \ {0} /\ schedule.cycle \in Nat
        /\ schedule.status \in {"active", "paused"}
    BY <2>1
  <2>3. schedule' = [status |-> schedule.status, version |-> schedule.version + 1,
                    cycle |-> schedule.cycle + 1]
    BY <1>1, <2>1
  <2>4. schedule.version + 1 \in Nat \ {0} /\ schedule.cycle + 1 \in Nat
    BY <2>2
  <2> QED BY <2>2, <2>3, <2>4
<1>3. HistoryHasEveryVersion' /\ history' \in Seq(Nat)
  BY <1>1, <1>2, NextVersion
<1>4. /\ deliveries' \in Seq(Nat) /\ Len(deliveries') = Len(deliveries) + 1
      /\ Len(deliveries) \in Nat
  BY <1>1, AppendProperties, LenProperties DEF SchedulesTypeOK
<1>5. \A r \in Simulations : simAt'[r] = IF r = s THEN "delivered" ELSE simAt[r]
  BY <1>1 DEF CommitDelivery, At, SchedulesTypeOK
<1>6. SchedulesTypeOK'
  BY <1>1, <1>2, <1>3, <1>4 DEF SchedulesTypeOK, CommitDelivery, At, SimulationAnswers
<1>7. LooksAreOfThePast'
  <2>1. \A k \in SimulationKeys : expects[k] \in Nat /\ expects[k] <= v
    BY <1>1 DEF ReportsInv, LooksAreOfThePast, SchedulesTypeOK
  <2>2. \A k \in recorded \cup {key} : 0 < expects[k]
    BY <1>1 DEF ReportsInv, LooksAreOfThePast
  <2>3. recorded \cup {key} \subseteq SimulationKeys
    BY <1>1 DEF SchedulesTypeOK
  <2> QED BY <1>1, <1>2, <2>1, <2>2, <2>3 DEF LooksAreOfThePast
<1>8. CallsHaveLooked'
  BY <1>1, <1>5 DEF ReportsInv, CallsHaveLooked, CommitDelivery
<1>9. LockHolderIsCurrent'
  BY <1>5 DEF ReportsInv, LockHolderIsCurrent, CommitDelivery
<1>10. OneDeliveryPerLook'
  <2>1. Looks \subseteq 1..v /\ v \notin Looks
    BY <1>1 DEF ReportsInv, LooksAreOfThePast, SchedulesTypeOK, Looks
  <2>2. IsFiniteSet(Looks)
    <3>1. IsFiniteSet(1..v)
      <4>1. v \in Int /\ 1 \in Int
        BY <1>1
      <4> QED BY <4>1, FS_Interval
    <3> QED BY <2>1, <3>1, FS_Subset
  <2>3. Looks' = Looks \cup {v}
    BY <1>1 DEF Looks
  <2>4. Cardinality(Looks') = Cardinality(Looks) + 1 /\ Cardinality(Looks) \in Nat
    BY <2>1, <2>2, <2>3, FS_AddElement, FS_CardinalityType
  <2>5. Len(deliveries) <= Cardinality(Looks)
    BY DEF ReportsInv, OneDeliveryPerLook, Looks
  <2>6. Len(deliveries') <= Cardinality(Looks')
    BY <1>4, <2>4, <2>5
  <2> QED BY <2>6 DEF OneDeliveryPerLook, Looks
<1> QED BY <1>3, <1>6, <1>7, <1>8, <1>9, <1>10 DEF ReportsInv

LEMMA ChangeScheduleStatusKeeps ==
  ASSUME ReportsInv, NEW status \in {"active", "paused"}, NEW e \in 1..MaxVersion,
         ChangeScheduleStatus(status, e)
  PROVE  ReportsInv'
<1>1. /\ SchedulesTypeOK /\ schedule.version \in Nat \ {0}
      /\ schedule' = [schedule EXCEPT !.status = status, !.version = @ + 1]
      /\ history' = Append(history, schedule.version + 1)
      /\ UNCHANGED <<deliveries, recorded, expects, simAt, simKey>>
  BY DEF ReportsInv, SchedulesTypeOK, ChangeScheduleStatus
<1>2. /\ schedule' \in [status : {"active", "paused"}, version : Nat \ {0}, cycle : Nat]
      /\ schedule'.version = schedule.version + 1
  <2>1. schedule \in [status : {"active", "paused"}, version : Nat \ {0}, cycle : Nat]
    BY <1>1 DEF SchedulesTypeOK
  <2>2. /\ schedule.version \in Nat \ {0} /\ schedule.cycle \in Nat
        /\ schedule.status \in {"active", "paused"}
    BY <2>1
  <2>3. schedule' = [status |-> status, version |-> schedule.version + 1, cycle |-> schedule.cycle]
    BY <1>1, <2>1
  <2>4. schedule.version + 1 \in Nat \ {0} /\ schedule.cycle + 1 \in Nat
    BY <2>2
  <2> QED BY <2>2, <2>3, <2>4
<1>3. HistoryHasEveryVersion' /\ history' \in Seq(Nat)
  BY <1>1, <1>2, NextVersion
<1>4. SchedulesTypeOK'
  BY <1>1, <1>2, <1>3 DEF SchedulesTypeOK
<1>5. LooksAreOfThePast'
  BY <1>1, <1>2 DEF ReportsInv, LooksAreOfThePast, SchedulesTypeOK
<1>6. CallsHaveLooked' /\ OneDeliveryPerLook'
  BY <1>1 DEF ReportsInv, CallsHaveLooked, OneDeliveryPerLook
<1>7. LockHolderIsCurrent'
  BY <1>1 DEF ChangeScheduleStatus, Unlocked, LockHolderIsCurrent
<1> QED BY <1>3, <1>4, <1>5, <1>6, <1>7 DEF ReportsInv

LEMMA ReportsNextKeeps ==
  ASSUME ReportsInv, SchedulesNext
  PROVE  ReportsInv'
<1>1. ASSUME NEW s \in Simulations, SimulationStep(s) \/ PoolTimesOut(s) \/ SimulationFails(s)
      PROVE  ReportsInv'
  <2>1. CASE CommitDelivery(s)
    BY <2>1, CommitDeliveryKeeps
  <2>2. CASE LockSchedule(s)
    <3>1. RequestMoves(s, {"commit"}) /\ simAt[s] = "lock" /\ Unlocked /\ Current(s)
      BY <2>2 DEF LockSchedule, RequestMoves, At
    <3> QED BY <3>1, RequestMovesKeep DEF Working
  <2>3. CASE Precheck(s) \/ ReserveKey(s) \/ ComputeReport(s) \/ RefuseSimulation(s)
             \/ PoolTimesOut(s) \/ SimulationFails(s)
    <3>1. /\ RequestMoves(s, {"begin", "report", "lock"} \cup SimulationAnswers)
          /\ simAt[s] # "idle"
      BY <2>3 DEF Precheck, ReserveKey, ComputeReport, RefuseSimulation, PoolTimesOut,
                  SimulationFails, RequestMoves, At, SimulationAnswers, Working
    <3> QED BY <3>1, RequestMovesKeep DEF Working, SimulationAnswers
  <2> QED BY <1>1, <2>1, <2>2, <2>3 DEF SimulationStep
<1> QED BY <1>1, SimulationCallKeeps, ChangeScheduleStatusKeeps DEF SchedulesNext

-----------------------------------------------------------------------------
(* A conversation: the inductive invariant *)

\* A message begins once, commits after it began, and is fetched after it committed.
MessagesInTurn ==
  /\ \A i, j \in 1..Len(begun) : begun[i] = begun[j] => i = j
  /\ delivered \subseteq ToSet(begun)
  /\ sync # NoSync => sync.messages \subseteq delivered

TalkInv == ConversationTypeOK /\ MessagesInTurn

LEMMA PlaceFacts ==
  ASSUME TalkInv
  PROVE  /\ \A m : Place(m) \in Nat
         /\ \A m \in ToSet(begun) : Place(m) \in 1..Len(begun) /\ begun[Place(m)] = m
<1>1. begun \in Seq(Texts) /\ Len(begun) \in Nat /\ DOMAIN begun = 1..Len(begun)
  BY LenProperties DEF TalkInv, ConversationTypeOK
<1>2. ASSUME NEW m \in ToSet(begun)
      PROVE  Place(m) \in 1..Len(begun) /\ begun[Place(m)] = m
  <2>1. \E i \in 1..Len(begun) : begun[i] = m
    BY <1>1, <1>2 DEF ToSet
  <2>2. Place(m) = CHOOSE i \in 1..Len(begun) : begun[i] = m
    BY <1>2 DEF Place
  <2> QED BY <2>1, <2>2
<1>3. ASSUME NEW m, m \notin ToSet(begun) PROVE Place(m) = 0
  BY <1>3 DEF Place
<1> QED BY <1>1, <1>2, <1>3

\* Messages that began have ranks without gaps, and the last has all behind it.
LEMMA RanksHaveNoGaps ==
  ASSUME TalkInv, NEW set, set \subseteq ToSet(begun)
  PROVE  /\ set \subseteq Texts /\ IsFiniteSet(set) /\ Cardinality(set) \in Nat
         /\ \A i \in 1..Cardinality(set) : \E m \in set : Rank(m, set) = i
         /\ set # {} => \E m \in set : \A n \in set : Behind(n, m)
<1>1. begun \in Seq(Texts) /\ Len(begun) \in Nat /\ DOMAIN begun = 1..Len(begun)
  BY LenProperties DEF TalkInv, ConversationTypeOK
<1>2. ToSet(begun) \subseteq Texts
  BY <1>1 DEF ToSet
<1>3. IsFiniteSet(set) /\ Cardinality(set) \in Nat
  BY <1>2, TextsAssumption, FS_Subset, FS_CardinalityType
<1> DEFINE rank == [m \in set |-> Rank(m, set)]
           Below(m) == {n \in set : Behind(n, m)}
<1>4. ASSUME NEW m \in set
      PROVE  /\ IsFiniteSet(Below(m)) /\ rank[m] = Cardinality(Below(m))
             /\ rank[m] \in 1..Cardinality(set) /\ m \in Below(m)
  <2>1. Below(m) \subseteq set /\ m \in Below(m)
    BY PlaceFacts DEF Behind
  <2>2. IsFiniteSet(Below(m)) /\ Cardinality(Below(m)) \in Nat /\ Cardinality(Below(m)) <= Cardinality(set)
    BY <1>3, <2>1, FS_Subset, FS_CardinalityType
  <2>3. Cardinality(Below(m)) # 0
    BY <2>1, <2>2, FS_EmptySet
  <2>4. rank[m] = Cardinality(Below(m))
    BY DEF Rank
  <2> QED BY <1>3, <2>1, <2>2, <2>3, <2>4
<1>5. ASSUME NEW m \in set, NEW n \in set, Place(m) < Place(n)
      PROVE  rank[m] # rank[n]
  <2>1. Below(m) \subseteq Below(n) /\ n \in Below(n) /\ n \notin Below(m)
    BY <1>5, PlaceFacts DEF Behind
  <2>2. Cardinality(Below(m)) # Cardinality(Below(n))
    BY <1>4, <2>1, FS_Subset
  <2> QED BY <1>4, <2>2
<1>6. rank \in Injection(set, 1..Cardinality(set))
  <2>1. rank \in [set -> 1..Cardinality(set)]
    BY <1>4
  <2>2. ASSUME NEW m \in set, NEW n \in set, rank[m] = rank[n] PROVE m = n
    <3>1. Place(m) = Place(n)
      <4>1. ~(Place(m) < Place(n)) /\ ~(Place(n) < Place(m))
        BY <1>5, <2>2
      <4> QED BY <4>1, PlaceFacts
    <3> QED BY <3>1, PlaceFacts
  <2> HIDE DEF rank
  <2> QED BY <2>1, <2>2 DEF Injection, IsInjective
<1>7. rank \in Surjection(set, 1..Cardinality(set))
  <2>1. IsFiniteSet(1..Cardinality(set)) /\ Cardinality(1..Cardinality(set)) = Cardinality(set)
    BY <1>3, FS_Interval
  <2> HIDE DEF rank
  <2> QED BY <1>6, <2>1, FS_Injection
<1>8. ASSUME NEW i \in 1..Cardinality(set) PROVE \E m \in set : Rank(m, set) = i
  <2>1. \E m \in set : rank[m] = i
    <3> HIDE DEF rank
    <3> QED BY <1>7 DEF Surjection
  <2> QED BY <2>1
<1>9. ASSUME set # {} PROVE \E m \in set : \A n \in set : Behind(n, m)
  <2>1. Cardinality(set) \in 1..Cardinality(set)
    BY <1>3, <1>9, FS_EmptySet
  <2>2. PICK m \in set : Rank(m, set) = Cardinality(set)
    BY <1>8, <2>1
  <2>3. Below(m) = set
    BY <1>3, <1>4, <2>2, FS_Subset DEF Rank
  <2> QED BY <2>3
<1> QED BY <1>2, <1>3, <1>8, <1>9

LEMMA InOrderType ==
  ASSUME TalkInv, NEW set, set \subseteq ToSet(begun)
  PROVE  InOrder(set) \in Seq(Texts)
<1>1. \A i \in 1..Cardinality(set) : (CHOOSE m \in set : Rank(m, set) = i) \in Texts
  BY RanksHaveNoGaps
<1>2. InOrder(set) \in [1..Cardinality(set) -> Texts]
  BY <1>1 DEF InOrder
<1> QED BY <1>2, RanksHaveNoGaps DEF Seq

LEMMA TalkInitInv == ConversationInit => TalkInv
<1> SUFFICES ASSUME ConversationInit PROVE TalkInv
  OBVIOUS
<1>1. begun \in Seq(Texts) /\ shown \in Seq(Texts) /\ Len(begun) = 0 /\ ToSet(begun) = {}
  BY DEF ConversationInit, ToSet
<1>2. Cardinality(Texts) >= Len(begun)
  BY <1>1, TextsAssumption, FS_CardinalityType
<1>3. ConversationTypeOK
  BY <1>1, <1>2 DEF ConversationInit, ConversationTypeOK
<1>4. MessagesInTurn
  BY <1>1 DEF ConversationInit, MessagesInTurn
<1> QED BY <1>3, <1>4 DEF TalkInv

LEMMA BeginMessageKeeps ==
  ASSUME TalkInv, NEW m \in Texts, BeginMessage(m)
  PROVE  TalkInv'
<1>1. ConversationTypeOK /\ MessagesInTurn /\ begun \in Seq(Texts) /\ Len(begun) \in Nat
  BY LenProperties DEF TalkInv, ConversationTypeOK
<1>2. /\ m \notin ToSet(begun) /\ begun' = Append(begun, m)
      /\ UNCHANGED <<delivered, lastRead, selected, shown, cursor, sync, readRef, acks>>
      /\ unanswered' \subseteq Outgoing
  BY <1>1 DEF BeginMessage, pageVars, ConversationTypeOK
<1>3. /\ begun' \in Seq(Texts) /\ Len(begun') = Len(begun) + 1
      /\ \A i \in 1..Len(begun) : begun'[i] = begun[i]
      /\ begun'[Len(begun) + 1] = m
  BY <1>1, <1>2, AppendProperties
<1>4. ToSet(begun) \subseteq ToSet(begun') /\ \A i \in 1..Len(begun) : begun[i] # m
  <2>1. DOMAIN begun = 1..Len(begun) /\ DOMAIN begun' = 1..Len(begun')
    BY <1>1, <1>3, LenProperties
  <2> QED BY <1>1, <1>2, <1>3, <2>1 DEF ToSet
<1>5. \A i, j \in 1..Len(begun') : begun'[i] = begun'[j] => i = j
  <2>1. \A i, j \in 1..Len(begun) : begun[i] = begun[j] => i = j
    BY <1>1 DEF MessagesInTurn
  <2> QED BY <1>1, <1>3, <1>4, <2>1
<1>6. Cardinality(Texts) >= Len(begun')
  <2>1. begun' \in Injection(1..Len(begun'), Texts)
    <3>1. begun' \in [1..Len(begun') -> Texts]
      BY <1>3, LenProperties
    <3> QED BY <1>5, <3>1 DEF Injection, IsInjective
  <2>2. Len(begun') \in Nat /\ Cardinality(1..Len(begun')) = Len(begun')
    BY <1>1, <1>3, FS_Interval
  <2>3. Cardinality(1..Len(begun')) <= Cardinality(Texts) /\ Cardinality(Texts) \in Nat
    BY <2>1, TextsAssumption, FS_Injection, FS_CardinalityType
  <2> QED BY <2>2, <2>3
<1>7. ConversationTypeOK'
  BY <1>1, <1>2, <1>3, <1>6 DEF ConversationTypeOK
<1>8. MessagesInTurn'
  BY <1>1, <1>2, <1>4, <1>5 DEF MessagesInTurn
<1> QED BY <1>7, <1>8 DEF TalkInv

\* What a synchronisation puts on the page.
LEMMA SyncArrivesKeeps ==
  ASSUME TalkInv, SyncArrives
  PROVE  TalkInv'
<1> DEFINE latest == Latest(sync.messages, sync.after)
<1>1. ConversationTypeOK /\ MessagesInTurn
  BY DEF TalkInv
<1>2. /\ sync # NoSync /\ sync \in Syncs
      /\ shown' = IF sync.initial THEN InOrder(sync.messages)
                  ELSE shown \o InOrder(sync.messages \ ToSet(shown))
      /\ cursor' = IF latest = NoMessage THEN cursor ELSE latest
      /\ readRef' = IF latest = NoMessage THEN readRef ELSE latest
      /\ acks' = IF latest \in {NoMessage, readRef} THEN acks ELSE acks \cup {latest}
      /\ sync' = NoSync
      /\ UNCHANGED <<begun, delivered, unanswered, lastRead, selected>>
  BY <1>1 DEF SyncArrives, ConversationTypeOK
<1>3. /\ sync.messages \subseteq ToSet(begun) /\ sync.messages \subseteq Texts
      /\ sync.after \in Texts \cup {NoMessage}
  <2>1. sync.messages \subseteq ToSet(begun)
    BY <1>1, <1>2 DEF MessagesInTurn
  <2> QED BY <1>2, <2>1 DEF Syncs
<1>4. latest \in Texts \cup {NoMessage}
  <2>1. CASE sync.messages = {}
    BY <1>3, <2>1 DEF Latest
  <2>2. CASE sync.messages # {}
    <3>1. \E m \in sync.messages : \A n \in sync.messages : Behind(n, m)
      BY <1>3, <2>2, RanksHaveNoGaps
    <3> QED BY <1>3, <2>2, <3>1 DEF Latest
  <2> QED BY <2>1, <2>2
<1> HIDE DEF latest
<1>5. shown' \in Seq(Texts)
  <2>1. InOrder(sync.messages) \in Seq(Texts) /\ InOrder(sync.messages \ ToSet(shown)) \in Seq(Texts)
    BY <1>3, InOrderType
  <2>2. shown \in Seq(Texts)
    BY <1>1 DEF ConversationTypeOK
  <2>3. shown \o InOrder(sync.messages \ ToSet(shown)) \in Seq(Texts)
    BY <2>1, <2>2, ConcatProperties
  <2> QED BY <1>2, <2>1, <2>3
<1>6. ConversationTypeOK'
  BY <1>1, <1>2, <1>4, <1>5 DEF ConversationTypeOK
<1>7. MessagesInTurn'
  BY <1>1, <1>2 DEF MessagesInTurn
<1> QED BY <1>6, <1>7 DEF TalkInv

LEMMA TalkNextKeeps ==
  ASSUME TalkInv, ConversationNext
  PROVE  TalkInv'
<1>1. ConversationTypeOK /\ MessagesInTurn
  BY DEF TalkInv
<1>2. ASSUME NEW m \in Texts, CommitMessage(m) PROVE TalkInv'
  <2>1. /\ m \in ToSet(begun) /\ delivered' = delivered \cup {m}
        /\ UNCHANGED <<begun, unanswered, lastRead, selected, shown, cursor, sync, readRef, acks>>
    BY <1>2 DEF CommitMessage, pageVars
  <2>2. ConversationTypeOK'
    BY <1>1, <2>1 DEF ConversationTypeOK
  <2>3. MessagesInTurn'
    BY <1>1, <2>1 DEF MessagesInTurn
  <2> QED BY <2>2, <2>3 DEF TalkInv
<1>3. ASSUME NEW m \in Texts, SendAnswered(m) PROVE TalkInv'
  <2>1. /\ shown' = (IF selected THEN Append(shown, m) ELSE shown)
        /\ unanswered' \subseteq unanswered
        /\ UNCHANGED <<begun, delivered, lastRead, selected, cursor, sync, readRef, acks>>
    BY <1>3 DEF SendAnswered
  <2>2. shown' \in Seq(Texts)
    BY <1>1, <2>1, AppendProperties DEF ConversationTypeOK
  <2>3. ConversationTypeOK'
    BY <1>1, <2>1, <2>2 DEF ConversationTypeOK
  <2>4. MessagesInTurn'
    BY <1>1, <2>1 DEF MessagesInTurn
  <2> QED BY <2>3, <2>4 DEF TalkInv
<1>4. ASSUME NEW m \in Texts, MarkRead(m) \/ MarkReadFails(m) PROVE TalkInv'
  <2>1. ConversationTypeOK'
    BY <1>1, <1>4 DEF MarkRead, MarkReadFails, ConversationTypeOK
  <2>2. MessagesInTurn'
    BY <1>1, <1>4 DEF MarkRead, MarkReadFails, MessagesInTurn
  <2> QED BY <2>1, <2>2 DEF TalkInv
<1>5. ASSUME SelectConversation \/ SyncMessages PROVE TalkInv'
  <2>1. /\ sync' \in Syncs /\ sync'.messages = {}
        /\ selected' \in BOOLEAN /\ cursor' \in Texts \cup {NoMessage}
        /\ readRef' \in Texts \cup {NoMessage}
        /\ UNCHANGED <<begun, delivered, unanswered, lastRead, shown, acks>>
    <3>1. \E m \in Texts \cup {NoMessage}, b \in BOOLEAN :
            sync' = [after |-> m, initial |-> b, answered |-> FALSE, messages |-> {}]
      BY <1>1, <1>5 DEF SelectConversation, SyncMessages, ConversationTypeOK
    <3>2. sync' \in Syncs /\ sync'.messages = {}
      BY <3>1 DEF Syncs
    <3> QED BY <1>1, <1>5, <3>2 DEF SelectConversation, SyncMessages, ConversationTypeOK
  <2>2. ConversationTypeOK'
    BY <1>1, <2>1 DEF ConversationTypeOK
  <2>3. MessagesInTurn'
    BY <1>1, <2>1 DEF MessagesInTurn
  <2> QED BY <2>2, <2>3 DEF TalkInv
<1>6. ASSUME LeaveConversation \/ SyncFails PROVE TalkInv'
  <2>1. /\ sync' = NoSync /\ selected' \in BOOLEAN /\ shown' \in {shown, <<>>}
        /\ UNCHANGED <<begun, delivered, unanswered, lastRead, cursor, readRef, acks>>
    BY <1>1, <1>6 DEF LeaveConversation, SyncFails, ConversationTypeOK
  <2>2. shown' \in Seq(Texts)
    <3>1. shown \in Seq(Texts) /\ <<>> \in Seq(Texts)
      BY <1>1 DEF ConversationTypeOK
    <3> QED BY <2>1, <3>1
  <2>3. ConversationTypeOK'
    BY <1>1, <2>1, <2>2 DEF ConversationTypeOK
  <2>4. MessagesInTurn'
    BY <1>1, <2>1 DEF MessagesInTurn
  <2> QED BY <2>3, <2>4 DEF TalkInv
<1>7. ASSUME MessagesAfter PROVE TalkInv'
  <2>1. /\ sync \in Syncs
        /\ sync' = [sync EXCEPT !.answered = TRUE,
                                !.messages = {m \in delivered : ~Behind(m, sync.after)}]
        /\ UNCHANGED <<begun, delivered, unanswered, lastRead, selected, shown, cursor, readRef, acks>>
    BY <1>1, <1>7 DEF MessagesAfter, ConversationTypeOK
  <2>2. sync' \in Syncs /\ sync'.messages \subseteq delivered
    <3> DEFINE found == {m \in delivered : ~Behind(m, sync.after)}
    <3>1. found \subseteq delivered /\ found \subseteq Texts
      BY <1>1 DEF ConversationTypeOK
    <3>2. sync' = [sync EXCEPT !.answered = TRUE, !.messages = found]
      BY <2>1
    <3> HIDE DEF found
    <3>3. found \in SUBSET Texts
      BY <3>1
    <3>4. sync' = [after |-> sync.after, initial |-> sync.initial, answered |-> TRUE,
                   messages |-> found]
      BY <2>1, <3>2 DEF Syncs
    <3>5. sync.after \in Texts \cup {NoMessage} /\ sync.initial \in BOOLEAN
      BY <2>1 DEF Syncs
    <3> QED BY <3>1, <3>3, <3>4, <3>5 DEF Syncs
  <2>3. ConversationTypeOK'
    BY <1>1, <2>1, <2>2 DEF ConversationTypeOK
  <2>4. MessagesInTurn'
    BY <1>1, <2>1, <2>2 DEF MessagesInTurn
  <2> QED BY <2>3, <2>4 DEF TalkInv
<1> QED BY <1>2, <1>3, <1>4, <1>5, <1>6, <1>7, BeginMessageKeeps, SyncArrivesKeeps
    DEF ConversationNext

\* The member's cursor moves forward or stays.
LEMMA TalkNextAdvances ==
  ASSUME TalkInv, ConversationNext \/ UNCHANGED lastRead
  PROVE  Behind(lastRead, lastRead')
<1>1. Behind(lastRead, lastRead)
  BY PlaceFacts DEF Behind
<1>2. UNCHANGED lastRead \/ \E m \in Texts : MayMove(m) /\ lastRead' = m
  BY DEF ConversationNext, BeginMessage, CommitMessage, SendAnswered, MarkRead, MarkReadFails,
         SelectConversation, LeaveConversation, SyncMessages, MessagesAfter, SyncArrives, SyncFails
<1> QED BY <1>1, <1>2 DEF MayMove

-----------------------------------------------------------------------------
(* The theorems *)

DeliveryInv == PushInv /\ ReportsInv /\ TalkInv

\* What the other systems leave as it was.
LEMMA PushStays == ASSUME PushInv, UNCHANGED pushVars PROVE PushInv'
<1> USE DEF pushVars
<1>1. PushTypeOK' /\ QueuedAtCommit' /\ ResultsAreTrue' /\ EndedIsFree' /\ SentWasAccepted'
  BY DEF PushInv, PushTypeOK, QueuedAtCommit, ResultsAreTrue, EndedIsFree, SentWasAccepted
<1>2. SendsAreCounted'
  BY DEF PushInv, SendsAreCounted, Senders, Attempts
<1> QED BY <1>1, <1>2 DEF PushInv

LEMMA ReportsStay == ASSUME ReportsInv, UNCHANGED scheduleVars PROVE ReportsInv'
BY DEF scheduleVars, ReportsInv, SchedulesTypeOK, HistoryHasEveryVersion, LooksAreOfThePast,
       CallsHaveLooked, LockHolderIsCurrent, Current, OneDeliveryPerLook

LEMMA TalkStays == ASSUME TalkInv, UNCHANGED conversationVars PROVE TalkInv'
BY DEF conversationVars, pageVars, TalkInv, ConversationTypeOK, MessagesInTurn

\* The three invariants hold together in every behaviour of the deliveries.
THEOREM DeliveryInvariance == DeliverySpec => []DeliveryInv
<1>1. DeliveryInit => DeliveryInv
  BY PushInitInv, ReportsInitInv, TalkInitInv DEF DeliveryInit, DeliveryInv
<1>2. DeliveryInv /\ [DeliveryNext]_deliveryVars => DeliveryInv'
  <2> SUFFICES ASSUME DeliveryInv, [DeliveryNext]_deliveryVars PROVE DeliveryInv'
    OBVIOUS
  <2>1. \/ PushNext /\ UNCHANGED <<scheduleVars, conversationVars>>
        \/ SchedulesNext /\ UNCHANGED <<pushVars, conversationVars>>
        \/ ConversationNext /\ UNCHANGED <<pushVars, scheduleVars>>
        \/ UNCHANGED <<pushVars, scheduleVars, conversationVars>>
    BY DEF DeliveryNext, deliveryVars
  <2>2. PushInv'
    BY <2>1, PushNextSteps, PushStepKeeps, PushStays DEF DeliveryInv
  <2>3. ReportsInv'
    BY <2>1, ReportsNextKeeps, ReportsStay DEF DeliveryInv
  <2>4. TalkInv'
    BY <2>1, TalkNextKeeps, TalkStays DEF DeliveryInv
  <2> QED BY <2>2, <2>3, <2>4 DEF DeliveryInv
<1> QED BY <1>1, <1>2, PTL DEF DeliverySpec

\* Every variable of push delivery, report simulations and a conversation keeps its
\* type: attempts stay within their limit (push-delivery.service.ts:51), and what a
\* page shows are messages of the conversation.
THEOREM DeliveryTypeCorrect == DeliverySpec => []DeliveryTypeOK
<1>1. DeliveryInv => DeliveryTypeOK
  BY DEF DeliveryInv, PushInv, ReportsInv, TalkInv, DeliveryTypeOK
<1> QED BY <1>1, DeliveryInvariance, PTL

\* The queue and the push provider agree, for any number of processes: leases that
\* lapse, processes that die and finishes that are lost never let the provider take
\* a delivery more often than it was claimed, nor a delivery be recorded as sent
\* that it did not take (push-delivery.service.ts, dispatch and finish).
THEOREM QueueTellsSendsHolds == DeliverySpec => []QueueTellsSends
<1>1. ASSUME PushInv PROVE QueueTellsSends
  <2>1. ASSUME NEW x \in Deliveries
        PROVE  accepted[x] <= (IF queue[x] = NotQueued THEN 0 ELSE queue[x].attempts)
    <3>1. /\ Cardinality(Senders(x)) \in Nat /\ accepted[x] \in Nat
          /\ accepted[x] + Cardinality(Senders(x)) <= Attempts(x)
      BY <1>1, FS_CardinalityType DEF PushInv, PushTypeOK, SendsAreCounted
    <3>2. Attempts(x) \in Nat
      <4>1. queue[x] \in PushRows \cup {NotQueued}
        BY <1>1 DEF PushInv, PushTypeOK
      <4> QED BY <4>1, RowFacts DEF Attempts
    <3>3. accepted[x] <= Attempts(x)
      BY <3>1, <3>2
    <3> QED BY <3>3 DEF Attempts
  <2>2. SendsWithinAttempts
    BY <2>1 DEF SendsWithinAttempts
  <2> QED BY <1>1, <2>2 DEF QueueTellsSends, PushInv
<1>2. DeliveryInv => QueueTellsSends
  BY <1>1 DEF DeliveryInv
<1> QED BY <1>2, DeliveryInvariance, PTL

\* A delivery that has ended is never touched again, whoever still holds or has
\* lost its lease (finish_notification_push_delivery, the triggers of preferences
\* and revocations).
THEOREM OutcomesAreFinalHold == DeliverySpec => OutcomesAreFinal
<1>1. ASSUME DeliveryInv, [DeliveryNext]_deliveryVars
      PROVE  [\A x \in Deliveries :
                queue[x] # NotQueued /\ queue[x].outcome # "pending" => queue'[x] = queue[x]]_pushVars
  <2>1. CASE PushNext
    <3>1. \A x \in Deliveries : RowStep(x)
      BY <1>1, <2>1, PushNextSteps DEF DeliveryInv, PushStep
    <3> QED BY <3>1 DEF RowStep, RowMoves
  <2>2. CASE UNCHANGED pushVars
    BY <2>2
  <2> QED BY <1>1, <2>1, <2>2 DEF DeliveryNext, deliveryVars
<1> QED BY <1>1, DeliveryInvariance, PTL DEF DeliverySpec, OutcomesAreFinal

\* Simulated deliveries and changes of a schedule at once: every version of the
\* schedule has its event, in order, and no version is delivered twice, however many
\* requests and keys look at it (operations.service.ts, simulateReportDelivery).
THEOREM CyclesAreToldHolds == DeliverySpec => []CyclesAreTold
<1>1. DeliveryInv => CyclesAreTold
  BY DEF DeliveryInv, ReportsInv, CyclesAreTold
<1> QED BY <1>1, DeliveryInvariance, PTL

\* The read cursor of a member never moves back, in whatever order the page's
\* confirmations arrive (messaging.service.ts, markRead).
THEOREM ReadCursorAdvancesHolds == DeliverySpec => ReadCursorAdvances
<1>1. ASSUME DeliveryInv, [DeliveryNext]_deliveryVars
      PROVE  [Behind(lastRead, lastRead')]_conversationVars
  <2>1. CASE ConversationNext
    BY <1>1, <2>1, TalkNextAdvances DEF DeliveryInv
  <2>2. CASE UNCHANGED conversationVars
    BY <2>2
  <2> QED BY <1>1, <2>1, <2>2 DEF DeliveryNext, deliveryVars
<1> QED BY <1>1, DeliveryInvariance, PTL DEF DeliverySpec, ReadCursorAdvances
=============================================================================
