---------------------------- MODULE PushDelivery ----------------------------
(***************************************************************************)
(* Web Push for one recipient: the queue a notification fills, the         *)
(* processes that dispatch it every five seconds (api/notifications/       *)
(* push-delivery.service.ts) and the recipient who changes preferences,    *)
(* subscribes and revokes devices (notifications.service.ts) meanwhile.    *)
(* One category stands for the four, which do not touch each other.        *)
(***************************************************************************)
EXTENDS Naturals

CONSTANTS Notices,      \* notifications of the recipient
          Devices,      \* its push_subscriptions
          PushWorkers,  \* API processes with a dispatch timer
          Answering,    \* those whose push requests always end
          MaxAttempts,  \* 5 in the source
          NotQueued     \* no delivery row

ASSUME PushAssumption == MaxAttempts \in Nat \ {0} /\ Answering \subseteq PushWorkers

Outcomes == {"pending", "sent", "subscription_revoked", "failed", "suppressed"}
PushRows == [attempts : 0..MaxAttempts, lease : {"free", "held", "lapsed"}, due : BOOLEAN,
         outcome : Outcomes]
Deliveries == Notices \X Devices
Flights == {"none", "sending", "sent", "gone", "retry"}

ASSUME NotQueuedAssumption == NotQueued \notin PushRows

VARIABLES preferred,  \* the category is enabled
          quiet,      \* now lies in the recipient's quiet hours
          subscribed, \* subscriptions that are not revoked
          inserting,  \* notifications being inserted, with the devices their
                      \* trigger found: a set of rows, or the stage
          queue,      \* notification_push_deliveries
          flight,     \* what each process is doing with each delivery
          accepted    \* how often the push provider accepted each delivery

pushVars == <<preferred, quiet, subscribed, inserting, queue, flight, accepted>>
recipientVars == <<preferred, quiet, subscribed, inserting>>

PushTypeOK ==
  /\ preferred \in BOOLEAN /\ quiet \in BOOLEAN
  /\ subscribed \in [Devices -> BOOLEAN]
  /\ inserting \in [Notices -> [stage : {"new", "open", "committed"}, to : SUBSET Devices,
                                due : BOOLEAN]]
  /\ queue \in [Deliveries -> PushRows \cup {NotQueued}]
  /\ flight \in [PushWorkers -> [Deliveries -> Flights]]
  /\ accepted \in [Deliveries -> Nat]

PushInit ==
  /\ preferred = TRUE /\ quiet = FALSE
  /\ subscribed = [d \in Devices |-> TRUE]
  /\ inserting = [n \in Notices |-> [stage |-> "new", to |-> {}, due |-> TRUE]]
  /\ queue = [x \in Deliveries |-> NotQueued]
  /\ flight = [w \in PushWorkers |-> [x \in Deliveries |-> "none"]]
  /\ accepted = [x \in Deliveries |-> 0]

Pending(x) == queue[x] # NotQueued /\ queue[x].outcome = "pending"
End(row, outcome) == [row EXCEPT !.outcome = outcome, !.lease = "free"]

\* Every pending row of a set of deliveries ends with the same outcome.
EndPending(set, outcome) ==
  queue' = [x \in Deliveries |->
    IF x \in set /\ Pending(x) THEN End(queue[x], outcome) ELSE queue[x]]

-----------------------------------------------------------------------------
(* The transaction of a notification *)

\* The trigger reads preferences and subscriptions as committed at this moment.
InsertNotification(n) ==
  /\ inserting[n].stage = "new"
  /\ inserting' = [inserting EXCEPT ![n] =
       [stage |-> "open", due |-> ~quiet,
        to |-> IF preferred THEN {d \in Devices : subscribed[d]} ELSE {}]]
  /\ UNCHANGED <<preferred, quiet, subscribed, queue, flight, accepted>>

CommitNotification(n) ==
  /\ inserting[n].stage = "open"
  /\ inserting' = [inserting EXCEPT ![n].stage = "committed"]
  /\ queue' = [x \in Deliveries |->
       IF x[1] = n /\ x[2] \in inserting[n].to
       THEN [attempts |-> 0, lease |-> "free", due |-> inserting[n].due, outcome |-> "pending"]
       ELSE queue[x]]
  /\ UNCHANGED <<preferred, quiet, subscribed, flight, accepted>>

-----------------------------------------------------------------------------
(* The recipient *)

\* The same preferences again change nothing; others are followed, in the same
\* transaction, by reconcile_notification_push_deliveries.
UpdatePreferences(enabled, silent) ==
  /\ <<enabled, silent>> # <<preferred, quiet>>
  /\ preferred' = enabled /\ quiet' = silent
  /\ queue' = [x \in Deliveries |->
       IF ~Pending(x) THEN queue[x]
       ELSE IF ~enabled THEN End(queue[x], "suppressed")
       ELSE [queue[x] EXCEPT !.due = @ /\ ~silent]]
  /\ UNCHANGED <<subscribed, inserting, flight, accepted>>

\* ON CONFLICT the revoked subscription of the device comes back to life.
SubscribePush(d) ==
  /\ subscribed' = [subscribed EXCEPT ![d] = TRUE]
  /\ UNCHANGED <<preferred, quiet, inserting, queue, flight, accepted>>

\* The trigger of the revocation ends what it sees pending.
UnsubscribePush(d) ==
  /\ subscribed[d]
  /\ subscribed' = [subscribed EXCEPT ![d] = FALSE]
  /\ EndPending(Notices \X {d}, "subscription_revoked")
  /\ UNCHANGED <<preferred, quiet, inserting, flight, accepted>>

-----------------------------------------------------------------------------
(* A process *)

Busy(w) == \E x \in Deliveries : flight[w][x] # "none"

\* Mutant: the attempts made are not compared with the limit when claiming.
ClaimableForEver(x) ==
  Pending(x) /\ queue[x].due /\ queue[x].lease # "held" /\ preferred /\ ~quiet

\* Mutant: a lapsed lease is never taken over.
ClaimableIfFree(x) ==
  /\ Pending(x) /\ queue[x].attempts < MaxAttempts
  /\ queue[x].due /\ queue[x].lease = "free" /\ preferred /\ ~quiet

Claimable(x) ==
  /\ Pending(x) /\ queue[x].attempts < MaxAttempts
  /\ queue[x].due /\ queue[x].lease # "held"
  /\ preferred /\ ~quiet

\* An attempt begins under a lease of five minutes.
Claimed(row) == [row EXCEPT !.attempts = @ + 1, !.lease = "held"]

\* Mutant: the attempt is counted when it is finished.
DispatchUncounted(w) ==
  LET due == {x \in Deliveries : Claimable(x)}
  IN /\ ~Busy(w) /\ due # {}
     /\ queue' = [x \in Deliveries |-> IF x \in due THEN [queue[x] EXCEPT !.lease = "held"] ELSE queue[x]]
     /\ flight' = [flight EXCEPT ![w] = [x \in Deliveries |->
          IF x \in due /\ subscribed[x[2]] THEN "sending" ELSE "none"]]
     /\ UNCHANGED <<recipientVars, accepted>>

\* dispatch: nothing while the last batch is in flight; a row of a revoked
\* subscription is locked and counted, and not returned.
Dispatch(w) ==
  LET due == {x \in Deliveries : Claimable(x)}
  IN /\ ~Busy(w) /\ due # {}
     /\ queue' = [x \in Deliveries |->
          IF x \in due THEN Claimed(queue[x]) ELSE queue[x]]
     /\ flight' = [flight EXCEPT ![w] = [x \in Deliveries |->
          IF x \in due /\ subscribed[x[2]] THEN "sending" ELSE "none"]]
     /\ UNCHANGED <<recipientVars, accepted>>

\* The provider accepts the message, knows no such subscription (404 or 410), or
\* the request fails otherwise, before or after the provider took the message.
SendReturns(w, x, result, took) ==
  /\ flight[w][x] = "sending"
  /\ result = "sent" => took
  /\ result = "gone" => ~took
  /\ flight' = [flight EXCEPT ![w][x] = result]
  /\ accepted' = [accepted EXCEPT ![x] = IF took THEN @ + 1 ELSE @]
  /\ UNCHANGED <<recipientVars, queue>>

\* Mutant: the row is found whether it is pending or not.
ConcludesAnyway(x) == queue[x] # NotQueued

\* finish_notification_push_delivery: it asks neither who holds the lease nor
\* whether it lapsed, only that the row is still pending.
Concludes(x) == Pending(x)

\* Mutant: a delivery out of attempts is recorded like one that went well.
ConcludeAsSent(x, result) ==
  /\ queue' = [queue EXCEPT ![x] = End(@, IF result = "gone" THEN "subscription_revoked" ELSE "sent")]
  /\ UNCHANGED subscribed

Conclude(x, result) ==
  CASE result = "retry" /\ queue[x].attempts < MaxAttempts ->
         /\ queue' = [queue EXCEPT ![x].lease = "free", ![x].due = FALSE]
         /\ UNCHANGED subscribed
    [] result = "gone" ->
         /\ EndPending(IF subscribed[x[2]] THEN Notices \X {x[2]} ELSE {x}, "subscription_revoked")
         /\ subscribed' = [subscribed EXCEPT ![x[2]] = FALSE]
    [] OTHER ->
         /\ queue' = [queue EXCEPT ![x] = End(@, IF result = "retry" THEN "failed" ELSE result)]
         /\ UNCHANGED subscribed

Finish(w, x) ==
  /\ flight[w][x] \in {"sent", "gone", "retry"}
  /\ flight' = [flight EXCEPT ![w][x] = "none"]
  /\ IF Concludes(x) THEN Conclude(x, flight[w][x]) ELSE UNCHANGED <<queue, subscribed>>
  /\ UNCHANGED <<preferred, quiet, inserting, accepted>>

\* The error of finish is logged and swallowed.
FinishFails(w, x) ==
  /\ flight[w][x] \in {"sent", "gone", "retry"}
  /\ flight' = [flight EXCEPT ![w][x] = "none"]
  /\ UNCHANGED <<recipientVars, queue, accepted>>

WorkerDies(w) ==
  /\ Busy(w)
  /\ flight' = [flight EXCEPT ![w] = [x \in Deliveries |-> "none"]]
  /\ UNCHANGED <<recipientVars, queue, accepted>>

-----------------------------------------------------------------------------
(* Time *)

\* Five minutes pass since locked_at.
LeaseLapses(x) ==
  /\ queue[x] # NotQueued /\ queue[x].lease = "held"
  /\ queue' = [queue EXCEPT ![x].lease = "lapsed"]
  /\ UNCHANGED <<recipientVars, flight, accepted>>

\* available_at passes: the backoff, or the end of the quiet hours.
BecomesDue(x) ==
  /\ Pending(x) /\ ~queue[x].due /\ ~quiet
  /\ queue' = [queue EXCEPT ![x].due = TRUE]
  /\ UNCHANGED <<recipientVars, flight, accepted>>

QuietHours ==
  /\ quiet' = ~quiet
  /\ UNCHANGED <<preferred, subscribed, inserting, queue, flight, accepted>>

-----------------------------------------------------------------------------
Recipient ==
  \/ \E enabled, silent \in BOOLEAN : UpdatePreferences(enabled, silent)
  \/ \E d \in Devices : SubscribePush(d) \/ UnsubscribePush(d)

Attempt(w) ==
  \/ Dispatch(w)
  \/ \E x \in Deliveries : Finish(w, x) \/ FinishFails(w, x)

Answer(w) == \E x \in Deliveries, result \in {"sent", "gone", "retry"}, took \in BOOLEAN :
               SendReturns(w, x, result, took)

Passing == \E x \in Deliveries : LeaseLapses(x) \/ BecomesDue(x)

PushNext ==
  \/ \E n \in Notices : InsertNotification(n) \/ CommitNotification(n)
  \/ Recipient \/ Passing \/ QuietHours
  \/ \E w \in PushWorkers : Attempt(w) \/ Answer(w) \/ WorkerDies(w)

\* The timers run and time passes; only some processes' requests surely end, for
\* web-push sets no timeout.
PushFairness ==
  /\ \A x \in Deliveries : WF_pushVars(LeaseLapses(x)) /\ WF_pushVars(BecomesDue(x))
  /\ \A w \in Answering : WF_pushVars(Attempt(w)) /\ WF_pushVars(Answer(w))

-----------------------------------------------------------------------------
(* Properties *)

\* A delivery that has ended keeps its outcome, its attempts and its lock: a
\* process that lost its lease, or finishes after the recipient revoked the device
\* or disabled the category, does not reopen or rename it.
OutcomesAreFinal == [][\A x \in Deliveries :
  queue[x] # NotQueued /\ queue[x].outcome # "pending" => queue'[x] = queue[x]]_pushVars

\* The provider never takes one notification for one device more often than it was
\* claimed, and never more than five times, whatever leases lapse, processes die and
\* finishes are lost while others send.
SendsWithinAttempts == \A x \in Deliveries :
  accepted[x] <= (IF queue[x] = NotQueued THEN 0 ELSE queue[x].attempts)

\* A delivery recorded as sent was accepted by the provider.
SentWasAccepted == \A x \in Deliveries :
  queue[x] # NotQueued /\ queue[x].outcome = "sent" => accepted[x] > 0

\* The queue and the provider agree: what it took is no more than was claimed, and
\* no less than what is recorded as sent.
QueueTellsSends == SendsWithinAttempts /\ SentWasAccepted

\* A pending delivery ends or uses up its attempts, as long as one process gets its
\* answers and the recipient neither disables the category nor is in quiet hours,
\* though other processes hang, die and lose their finishes.
PendingEnds == \A x \in Deliveries :
  Pending(x) ~> (~Pending(x) \/ queue[x].attempts = MaxAttempts \/ ~preferred \/ quiet)
=============================================================================
