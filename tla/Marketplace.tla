---------------------------- MODULE Marketplace ----------------------------
(***************************************************************************)
(* createProposal and acceptProposal (api/marketplace/marketplace.service  *)
(* .ts) with the triggers and policies they run into, statement by         *)
(* statement, as concurrent READ COMMITTED transactions.                   *)
(*                                                                         *)
(* A statement reads what is committed when it starts, plus the writes of  *)
(* its own transaction; a row written by an open transaction is locked and *)
(* a second writer waits, then sees the row as committed.  Writes are kept *)
(* in draft until COMMIT.  Each transaction works on one request, so its   *)
(* draft is that request's.  Notifications, histories and audit rows are   *)
(* inserted in the same transaction and left out.                          *)
(***************************************************************************)
EXTENDS Naturals, FiniteSets

CONSTANTS Transactions,  \* calls being served, one transaction each
          Requests, Providers, Amounts,
          ProposalLimit, \* active_proposal_limit of every profile
          JobLimit,      \* active_job_limit of every profile
          None           \* no row, or a row the transaction has not written

ASSUME LimitsAssumption == ProposalLimit \in Nat \ {0} /\ JobLimit \in Nat \ {0}
ASSUME CallsAssumption == Requests # {} /\ Providers # {} /\ Amounts # {}

Proposals == [status : {"sent", "accepted", "declined"}, amount : Amounts]
Statuses == {"open", "proposals_received", "booked", "closed"}
Bookings == [provider : Providers, amount : Amounts, active : BOOLEAN]

ASSUME NoneAssumption == None \notin Proposals \cup Statuses \cup Bookings

VARIABLES requests,  \* committed service_requests.status; "closed" stands for
                     \* in_progress, completed and cancelled
          proposals, \* committed proposals, unique by request and provider
          bookings,  \* committed bookings, with the amount the finance
                     \* trigger froze in the payment intent
          paused,    \* availability_status = 'paused'
          pc, call,  \* each transaction and its arguments
          draft,     \* its uncommitted writes
          todo       \* the rows its decline statement still has to visit

vars == <<requests, proposals, bookings, paused, pc, call, draft, todo>>
committed == <<requests, proposals, bookings, paused>>

Takes == {"open", "proposals_received"}

NoDraft == [proposals |-> [p \in Providers |-> None], status |-> None, booking |-> None]

MarketTypeOK ==
  /\ requests \in [Requests -> Statuses]
  /\ proposals \in [Requests -> [Providers -> Proposals \cup {None}]]
  /\ bookings \in [Requests -> Bookings \cup {None}]
  /\ paused \in [Providers -> BOOLEAN]
  /\ pc \in [Transactions -> {"idle", "insert", "profile", "upsert", "move", "slot",
                              "accept", "scan", "decline", "book", "booking", "commit"}]
  /\ call \in [Transactions -> [request : Requests, provider : Providers, amount : Amounts]]
  /\ draft \in [Transactions -> [proposals : [Providers -> Proposals \cup {None}],
                                 status : Statuses \cup {None},
                                 booking : Bookings \cup {None}]]
  /\ todo \in [Transactions -> SUBSET Providers]

Init ==
  /\ requests = [r \in Requests |-> "open"]
  /\ proposals = [r \in Requests |-> [p \in Providers |-> None]]
  /\ bookings = [r \in Requests |-> None]
  /\ paused = [p \in Providers |-> FALSE]
  /\ pc = [t \in Transactions |-> "idle"]
  /\ call = [t \in Transactions |->
       CHOOSE x \in [request : Requests, provider : Providers, amount : Amounts] : TRUE]
  /\ draft = [t \in Transactions |-> NoDraft]
  /\ todo = [t \in Transactions |-> {}]

Request(t) == call[t].request
Provider(t) == call[t].provider

Goto(t, step) == pc' = [pc EXCEPT ![t] = step]

-----------------------------------------------------------------------------
(* Locks: who makes the next statement of a transaction wait *)

Others(t) == {u \in Transactions \ {t} : pc[u] # "idle" /\ Request(u) = Request(t)}

RowHolders(t, p) == {u \in Others(t) : draft[u].proposals[p] # None}
StatusHolders(t) == {u \in Others(t) : draft[u].status # None}
BookingHolders(t) == {u \in Others(t) : draft[u].booking # None}

\* SELECT ... FOR UPDATE of the matching profile in the insert trigger, held
\* until the transaction ends.
HoldsProfile(t) ==
  pc[t] \in {"upsert", "move"} \/ (pc[t] = "commit" /\ draft[t].booking = None)

ProfileHolders(p) == {u \in Transactions : Provider(u) = p /\ HoldsProfile(u)}

Blockers(t) ==
  CASE pc[t] = "profile" -> ProfileHolders(Provider(t)) \ {t}
    [] pc[t] \in {"upsert", "accept"} -> RowHolders(t, Provider(t))
    [] pc[t] = "move" /\ requests[Request(t)] = "open" -> StatusHolders(t)
    [] pc[t] = "decline" /\ \A q \in todo[t] : RowHolders(t, q) # {} ->
         UNION {RowHolders(t, q) : q \in todo[t]}
    [] pc[t] = "book" -> StatusHolders(t)
    [] pc[t] = "booking" -> BookingHolders(t)
    [] OTHER -> {}

\* Transactions that wait for each other in a circle.
Deadlocked(t) == \E circle \in SUBSET Transactions :
  t \in circle /\ \A u \in circle : Blockers(u) \cap circle # {}

-----------------------------------------------------------------------------
(* createProposal *)

Sent(p) == {r \in Requests : proposals[r][p] # None /\ proposals[r][p].status = "sent"}
Jobs(p) == {r \in Requests : bookings[r] # None /\ bookings[r].active /\ bookings[r].provider = p}

\* Updating one's own proposal takes no capacity.
Eligible(r, p) ==
  /\ ~paused[p]
  /\ \/ proposals[r][p] # None
     \/ Cardinality(Sent(p)) < ProposalLimit /\ Cardinality(Jobs(p)) < JobLimit

\* The readings before the INSERT: profile, own proposal, blockers, request.
CreateProposal(t, r, p, a) ==
  /\ pc[t] = "idle"
  /\ Eligible(r, p)
  /\ requests[r] \in Takes
  /\ call' = [call EXCEPT ![t] = [request |-> r, provider |-> p, amount |-> a]]
  /\ Goto(t, "insert")
  /\ UNCHANGED <<committed, draft, todo>>

\* The BEFORE INSERT trigger reads the request, locking nothing ...
TriggerReadsRequest(t) ==
  /\ pc[t] = "insert"
  /\ requests[Request(t)] \in Takes
  /\ Goto(t, "profile")
  /\ UNCHANGED <<committed, call, draft, todo>>

\* Mutant: the profile is read without FOR UPDATE.
TriggerCountsUnlocked(t) ==
  /\ pc[t] = "profile"
  /\ Eligible(Request(t), Provider(t))
  /\ Goto(t, "upsert")
  /\ UNCHANGED <<committed, call, draft, todo>>

\* ... then locks the profile and counts what is committed by then.
TriggerChecksCapacity(t) ==
  /\ pc[t] = "profile"
  /\ Blockers(t) = {}
  /\ Eligible(Request(t), Provider(t))
  /\ Goto(t, "upsert")
  /\ UNCHANGED <<committed, call, draft, todo>>

Write(t, p, row) == draft' = [draft EXCEPT ![t].proposals[p] = row]

\* Mutant: the conflict clause sets the status as well.
UpsertResetsStatus(t) ==
  /\ pc[t] = "upsert"
  /\ Blockers(t) = {}
  /\ Write(t, Provider(t), [status |-> "sent", amount |-> call[t].amount])
  /\ Goto(t, "move")
  /\ UNCHANGED <<committed, call, todo>>

\* Mutant: the proposal takes the status its request is about to have.
UpsertRequestStatus(t) ==
  /\ pc[t] = "upsert"
  /\ Blockers(t) = {}
  /\ Write(t, Provider(t), [status |-> "proposals_received", amount |-> call[t].amount])
  /\ Goto(t, "move")
  /\ UNCHANGED <<committed, call, todo>>

\* INSERT ... 'sent' ON CONFLICT DO UPDATE of everything but the status.
Upsert(t) ==
  /\ pc[t] = "upsert"
  /\ Blockers(t) = {}
  /\ LET row == proposals[Request(t)][Provider(t)]
     IN Write(t, Provider(t), [status |-> IF row = None THEN "sent" ELSE row.status,
                               amount |-> call[t].amount])
  /\ Goto(t, "move")
  /\ UNCHANGED <<committed, call, todo>>

\* Mutant: the UPDATE does not ask for status = 'open'.
MoveRequestBlindly(t) ==
  /\ pc[t] = "move"
  /\ Blockers(t) = {}
  /\ draft' = [draft EXCEPT ![t].status = "proposals_received"]
  /\ Goto(t, "commit")
  /\ UNCHANGED <<committed, call, todo>>

\* UPDATE ... 'proposals_received' WHERE status = 'open'.
MoveRequest(t) ==
  /\ pc[t] = "move"
  /\ Blockers(t) = {}
  /\ draft' = IF requests[Request(t)] = "open"
              THEN [draft EXCEPT ![t].status = "proposals_received"] ELSE draft
  /\ Goto(t, "commit")
  /\ UNCHANGED <<committed, call, todo>>

-----------------------------------------------------------------------------
(* acceptProposal *)

\* The customer picks a proposal of the list; the amount is not part of the call.
AcceptProposal(t, r, p) ==
  /\ pc[t] = "idle"
  /\ proposals[r][p] # None
  /\ call' = [call EXCEPT ![t].request = r, ![t].provider = p]
  /\ Goto(t, "slot")
  /\ UNCHANGED <<committed, draft, todo>>

Acceptable(r, p) == proposals[r][p].status = "sent" /\ requests[r] = "proposals_received"

\* proposal_available_slots offers the slot.
CheckSlot(t) ==
  /\ pc[t] = "slot"
  /\ Acceptable(Request(t), Provider(t))
  /\ ~paused[Provider(t)]
  /\ Goto(t, "accept")
  /\ UNCHANGED <<committed, call, draft, todo>>

\* UPDATE proposals ... 'accepted' WHERE status = 'sent' AND the request waits.
AcceptRow(t) ==
  /\ pc[t] = "accept"
  /\ Blockers(t) = {}
  /\ Acceptable(Request(t), Provider(t))
  /\ Write(t, Provider(t), [proposals[Request(t)][Provider(t)] EXCEPT !.status = "accepted"])
  /\ Goto(t, "scan")
  /\ UNCHANGED <<committed, call, todo>>

\* Mutant: the UPDATE has no id <> proposalId.
ScanAll(t) ==
  /\ pc[t] = "scan"
  /\ todo' = [todo EXCEPT ![t] = {q \in Providers : proposals[Request(t)][q] # None}]
  /\ Goto(t, "decline")
  /\ UNCHANGED <<committed, call, draft>>

\* UPDATE proposals ... 'declined' of the request's other committed proposals,
\* one row after the other.
ScanOthers(t) ==
  /\ pc[t] = "scan"
  /\ todo' = [todo EXCEPT ![t] =
       {q \in Providers \ {Provider(t)} : proposals[Request(t)][q] # None}]
  /\ Goto(t, "decline")
  /\ UNCHANGED <<committed, call, draft>>

DeclineRow(t, q) ==
  /\ pc[t] = "decline"
  /\ q \in todo[t]
  /\ RowHolders(t, q) = {}
  /\ Write(t, q, [proposals[Request(t)][q] EXCEPT !.status = "declined"])
  /\ todo' = [todo EXCEPT ![t] = @ \ {q}]
  /\ UNCHANGED <<committed, pc, call>>

Declined(t) ==
  /\ pc[t] = "decline"
  /\ todo[t] = {}
  /\ Goto(t, "book")
  /\ UNCHANGED <<committed, call, draft, todo>>

\* UPDATE service_requests SET status = 'booked'.
BookRequest(t) ==
  /\ pc[t] = "book"
  /\ Blockers(t) = {}
  /\ draft' = [draft EXCEPT ![t].status = "booked"]
  /\ Goto(t, "booking")
  /\ UNCHANGED <<committed, call, todo>>

\* INSERT INTO bookings: unique by request; the finance trigger copies the
\* amount of the proposal into the payment intent.
InsertBooking(t) ==
  /\ pc[t] = "booking"
  /\ Blockers(t) = {}
  /\ bookings[Request(t)] = None
  /\ draft' = [draft EXCEPT ![t].booking =
       [provider |-> Provider(t), amount |-> draft[t].proposals[Provider(t)].amount,
        active |-> TRUE]]
  /\ Goto(t, "commit")
  /\ UNCHANGED <<committed, call, todo>>

-----------------------------------------------------------------------------
(* The end of a transaction *)

Written(new, old) == IF new = None THEN old ELSE new

Clear(t) ==
  /\ Goto(t, "idle")
  /\ draft' = [draft EXCEPT ![t] = NoDraft]
  /\ todo' = [todo EXCEPT ![t] = {}]

Commit(t) ==
  /\ pc[t] = "commit"
  /\ LET r == Request(t)
     IN /\ proposals' = [proposals EXCEPT ![r] =
             [p \in Providers |-> Written(draft[t].proposals[p], @[p])]]
        /\ requests' = [requests EXCEPT ![r] = Written(draft[t].status, @)]
        /\ bookings' = [bookings EXCEPT ![r] = Written(draft[t].booking, @)]
  /\ Clear(t)
  /\ UNCHANGED <<paused, call>>

Rollback(t) == Clear(t) /\ UNCHANGED <<committed, call>>

\* Mutant: an acceptance that lost a race is tried again until it succeeds.
RefuseRetries(t) ==
  /\ Blockers(t) = {}
  /\ pc[t] \in {"accept", "slot"} /\ ~Acceptable(Request(t), Provider(t))
  /\ Goto(t, "slot")
  /\ UNCHANGED <<committed, call, draft, todo>>

\* A check that does not wait and does not pass ends the call with an error.
Refuse(t) ==
  /\ Blockers(t) = {}
  /\ \/ pc[t] = "insert" /\ requests[Request(t)] \notin Takes
     \/ pc[t] = "profile" /\ ~Eligible(Request(t), Provider(t))
     \/ pc[t] = "slot" /\ (~Acceptable(Request(t), Provider(t)) \/ paused[Provider(t)])
     \/ pc[t] = "accept" /\ ~Acceptable(Request(t), Provider(t))
     \/ pc[t] = "booking" /\ bookings[Request(t)] # None
  /\ Rollback(t)

\* PostgreSQL cancels one transaction of a circle after deadlock_timeout.
DeadlockVictim(t) == Deadlocked(t) /\ Rollback(t)

\* Any other error: the schedule of the provider, a lost connection, a crash.
Abort(t) == pc[t] # "idle" /\ Rollback(t)

-----------------------------------------------------------------------------
(* The rest of the system *)

\* updateProviderMatching pauses or resumes a profile no proposal has locked.
SetAvailability(p) ==
  /\ ProfileHolders(p) = {}
  /\ paused' = [paused EXCEPT ![p] = ~@]
  /\ UNCHANGED <<requests, proposals, bookings, pc, call, draft, todo>>

\* The booking is completed or cancelled.
EndBooking(r) ==
  /\ bookings[r] # None /\ bookings[r].active
  /\ requests' = [requests EXCEPT ![r] = "closed"]
  /\ bookings' = [bookings EXCEPT ![r].active = FALSE]
  /\ UNCHANGED <<proposals, paused, pc, call, draft, todo>>

Step(t) ==
  \/ TriggerReadsRequest(t) \/ TriggerChecksCapacity(t) \/ Upsert(t) \/ MoveRequest(t)
  \/ CheckSlot(t) \/ AcceptRow(t) \/ ScanOthers(t)
  \/ \E q \in Providers : DeclineRow(t, q)
  \/ Declined(t) \/ BookRequest(t) \/ InsertBooking(t)
  \/ Commit(t) \/ Refuse(t)

Next ==
  \/ \E t \in Transactions :
       \/ \E r \in Requests, p \in Providers :
            \/ \E a \in Amounts : CreateProposal(t, r, p, a)
            \/ AcceptProposal(t, r, p)
       \/ Step(t) \/ DeadlockVictim(t) \/ Abort(t)
  \/ \E p \in Providers : SetAvailability(p)
  \/ \E r \in Requests : EndBooking(r)

Spec == Init /\ [][Next]_vars

\* Waiters on a row queue up, so a transaction that can go on again and again
\* does, and the deadlock detector runs.
FairSpec == Spec /\ \A t \in Transactions : SF_vars(Step(t)) /\ WF_vars(DeadlockVictim(t))

-----------------------------------------------------------------------------
(* Properties *)

\* A booking is born of exactly one accepted proposal of its request, and a
\* request is booked if and only if it has a booking, whatever proposals and
\* acceptances run at the same time.
BookedByOneAcceptance == \A r \in Requests :
  LET accepted == {p \in Providers :
        proposals[r][p] # None /\ proposals[r][p].status = "accepted"}
  IN /\ bookings[r] = None => accepted = {} /\ requests[r] \in Takes
     /\ bookings[r] # None => accepted = {bookings[r].provider} /\ requests[r] \notin Takes

\* Concurrent proposals of one provider never exceed its limit of active ones.
ProposalLimitHolds == \A p \in Providers : Cardinality(Sent(p)) <= ProposalLimit

\* A decision is never undone: an update of a proposal's terms that waited for the
\* acceptance does not put it back on the table, and no late proposal takes a
\* request back to an earlier status.
DecisionsAreFinal == [][\A r \in Requests :
  /\ \A p \in Providers : (proposals[r][p] # None /\ proposals[r][p].status # "sent")
       => proposals'[r][p].status = proposals[r][p].status
  /\ requests[r] # "open" => requests'[r] # "open"
  /\ requests[r] \notin Takes => requests'[r] \notin Takes]_vars

\* Every transaction ends, in spite of lock waits in a circle.
TransactionsEnd == \A t \in Transactions : (pc[t] # "idle") ~> (pc[t] = "idle")

\* "Pedidos agendados bloqueiam novas propostas" (README.md:63): no proposal is
\* waiting for an answer on a booked request.
BookedRequestsTakeNoProposals == \A r \in Requests :
  requests[r] = "booked" =>
    \A p \in Providers : proposals[r][p] # None => proposals[r][p].status # "sent"

\* The discount and the allocations are computed on the accepted proposal
\* (docs/architecture/modelo-dados.md:99): its amount is the one of the intent.
AcceptedAmountIsBooked == \A r \in Requests :
  bookings[r] # None => proposals[r][bookings[r].provider].amount = bookings[r].amount
=============================================================================
