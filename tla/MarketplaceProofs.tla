------------------------- MODULE MarketplaceProofs -------------------------
(***************************************************************************)
(* Proofs, for any number of transactions, requests, providers and amounts *)
(* and any limits, of the safety of createProposal and acceptProposal run  *)
(* as concurrent READ COMMITTED transactions.                              *)
(***************************************************************************)
EXTENDS Marketplace, FiniteSetTheorems, TLAPS

-----------------------------------------------------------------------------
(* The inductive invariant *)

\* The committed row of the proposal a transaction works on.
Row(t) == proposals[Request(t)][Provider(t)]

Proposing(t) == pc[t] = "move" \/ (pc[t] = "commit" /\ draft[t].booking = None)

Accepting(t) ==
  pc[t] \in {"scan", "decline", "book", "booking"} \/ (pc[t] = "commit" /\ draft[t].booking # None)

\* Before its first write a transaction holds no draft, and it has rows to visit
\* only inside its decline statement; they are committed, and rows stay.
Preparation(t) ==
  /\ pc[t] \in {"idle", "insert", "profile", "upsert", "slot", "accept"} => draft[t] = NoDraft
  /\ pc[t] # "decline" => todo[t] = {}
  /\ \A q \in todo[t] : q # Provider(t) /\ proposals[Request(t)][q] # None
  /\ pc[t] \in {"slot", "accept"} => Row(t) # None

\* createProposal keeps the status of its row, which it has locked, and takes the
\* request on only from 'open'.
ProposerDraft(t) == Proposing(t) =>
  /\ draft[t].booking = None
  /\ \A q \in Providers : draft[t].proposals[q] # None <=> q = Provider(t)
  /\ draft[t].proposals[Provider(t)].status = IF Row(t) = None THEN "sent" ELSE Row(t).status
  /\ draft[t].status = None
       \/ (pc[t] = "commit" /\ draft[t].status = "proposals_received" /\ requests[Request(t)] = "open")

\* acceptProposal has locked a row that is still 'sent', declines others, and comes
\* to COMMIT only when no booking of the request is committed.
AccepterDraft(t) == Accepting(t) =>
  /\ Row(t) # None /\ Row(t).status = "sent"
  /\ draft[t].proposals[Provider(t)] # None /\ draft[t].proposals[Provider(t)].status = "accepted"
  /\ \A q \in Providers \ {Provider(t)} : draft[t].proposals[q] # None =>
       draft[t].proposals[q].status = "declined" /\ proposals[Request(t)][q] # None
  /\ draft[t].status = IF pc[t] \in {"booking", "commit"} THEN "booked" ELSE None
  /\ pc[t] # "commit" => draft[t].booking = None
  /\ pc[t] = "commit" =>
       /\ draft[t].booking.provider = Provider(t)
       /\ draft[t].booking.active
       /\ bookings[Request(t)] = None

\* A new row is written under the lock of the profile, after the count.
Counted(t) ==
  (HoldsProfile(t) /\ Row(t) = None) => Cardinality(Sent(Provider(t))) < ProposalLimit

Transaction(t) == Preparation(t) /\ ProposerDraft(t) /\ AccepterDraft(t) /\ Counted(t)

\* No two transactions hold a row, a request, a booking or a profile.
Apart(t, u) ==
  /\ Request(t) = Request(u) =>
       /\ \A p \in Providers : draft[t].proposals[p] = None \/ draft[u].proposals[p] = None
       /\ draft[t].status = None \/ draft[u].status = None
       /\ draft[t].booking = None \/ draft[u].booking = None
  /\ Provider(t) = Provider(u) => ~HoldsProfile(t) \/ ~HoldsProfile(u)

Locks == \A t, u \in Transactions : t # u => Apart(t, u)

FiniteProposals == \A p \in Providers : IsFiniteSet(Sent(p))

MarketInv ==
  /\ MarketTypeOK
  /\ \A t \in Transactions : Transaction(t)
  /\ Locks
  /\ BookedByOneAcceptance
  /\ FiniteProposals
  /\ ProposalLimitHolds

-----------------------------------------------------------------------------
(* The first state, and steps that touch one transaction only *)

Calls == [request : Requests, provider : Providers, amount : Amounts]
Drafts == [proposals : [Providers -> Proposals \cup {None}], status : Statuses \cup {None},
           booking : Bookings \cup {None}]

LEMMA MarketInitInv == Init => MarketInv
<1> SUFFICES ASSUME Init PROVE MarketInv
  OBVIOUS
<1>1. Calls # {}
  <2>1. PICK r \in Requests, p \in Providers, a \in Amounts : TRUE
    BY CallsAssumption
  <2>2. [request |-> r, provider |-> p, amount |-> a] \in Calls
    BY <2>1 DEF Calls
  <2> QED BY <2>2
<1>2. (CHOOSE x \in Calls : TRUE) \in Calls
  BY <1>1
<1>3. call \in [Transactions -> Calls]
  BY <1>2 DEF Init, Calls
<1>4. MarketTypeOK
  BY <1>3 DEF Init, MarketTypeOK, Statuses, NoDraft, Calls
<1>5. \A t \in Transactions : Transaction(t)
  BY DEF Init, Transaction, Preparation, ProposerDraft, AccepterDraft, Counted, Proposing,
     Accepting, HoldsProfile
<1>6. Locks
  BY DEF Init, Locks, Apart, NoDraft, HoldsProfile
<1>7. BookedByOneAcceptance
  BY DEF Init, BookedByOneAcceptance, Takes
<1>8. \A p \in Providers : Sent(p) = {}
  BY DEF Init, Sent
<1>9. FiniteProposals /\ ProposalLimitHolds
  BY <1>8, FS_EmptySet, LimitsAssumption DEF FiniteProposals, ProposalLimitHolds
<1> QED BY <1>4, <1>5, <1>6, <1>7, <1>9 DEF MarketInv

\* A transaction whose own state and whose committed rows stay keeps its part.
LEMMA Bystander ==
  ASSUME NEW u \in Transactions, Transaction(u), UNCHANGED committed,
         pc'[u] = pc[u], call'[u] = call[u], draft'[u] = draft[u], todo'[u] = todo[u]
  PROVE  Transaction(u)'
BY DEF Transaction, Preparation, ProposerDraft, AccepterDraft, Counted, Proposing, Accepting,
   HoldsProfile, Row, Request, Provider, Sent, committed

\* What a statement of one transaction has to show.
LEMMA OwnStepInv ==
  ASSUME MarketInv, NEW t \in Transactions, UNCHANGED committed,
         \A u \in Transactions \ {t} :
           pc'[u] = pc[u] /\ call'[u] = call[u] /\ draft'[u] = draft[u] /\ todo'[u] = todo[u],
         MarketTypeOK', Transaction(t)', \A u \in Transactions \ {t} : Apart(t, u)'
  PROVE  MarketInv'
<1>1. \A u \in Transactions : Transaction(u)'
  BY Bystander DEF MarketInv
<1>2. Locks'
  BY DEF MarketInv, Locks, Apart, Request, Provider, HoldsProfile
<1>3. BookedByOneAcceptance' /\ FiniteProposals' /\ ProposalLimitHolds'
  BY DEF MarketInv, BookedByOneAcceptance, FiniteProposals, ProposalLimitHolds, Sent, committed
<1> QED BY <1>1, <1>2, <1>3 DEF MarketInv

\* No new write and no new lock: nobody gets in the way.
LEMMA QuietApart ==
  ASSUME MarketInv, NEW t \in Transactions, NEW u \in Transactions \ {t},
         pc'[u] = pc[u], call'[u] = call[u], draft'[u] = draft[u],
         \/ draft'[t] = draft[t] /\ call'[t] = call[t] /\ (HoldsProfile(t)' => HoldsProfile(t))
         \/ draft'[t] = NoDraft /\ ~HoldsProfile(t)'
  PROVE  Apart(t, u)'
<1>1. Apart(t, u)
  BY DEF MarketInv, Locks
<1>2. CASE draft'[t] = draft[t] /\ call'[t] = call[t] /\ (HoldsProfile(t)' => HoldsProfile(t))
  BY <1>1, <1>2 DEF Apart, Request, Provider, HoldsProfile
<1>3. CASE draft'[t] = NoDraft /\ ~HoldsProfile(t)'
  BY <1>3 DEF Apart, NoDraft
<1> QED BY <1>2, <1>3

\* A draft is empty in every idle transaction: only others under way hold rows.
LEMMA FreeRow ==
  ASSUME MarketInv, NEW t \in Transactions, NEW p \in Providers, RowHolders(t, p) = {},
         NEW u \in Transactions \ {t}, Request(u) = Request(t)
  PROVE  draft[u].proposals[p] = None
BY DEF MarketInv, Transaction, Preparation, NoDraft, RowHolders, Others

LEMMA FreeStatus ==
  ASSUME MarketInv, NEW t \in Transactions, StatusHolders(t) = {},
         NEW u \in Transactions \ {t}, Request(u) = Request(t)
  PROVE  draft[u].status = None
BY DEF MarketInv, Transaction, Preparation, NoDraft, StatusHolders, Others

LEMMA FreeBooking ==
  ASSUME MarketInv, NEW t \in Transactions, BookingHolders(t) = {},
         NEW u \in Transactions \ {t}, Request(u) = Request(t)
  PROVE  draft[u].booking = None
BY DEF MarketInv, Transaction, Preparation, NoDraft, BookingHolders, Others

\* What a statement that does not wait has found free.
LEMMA NotBlocked ==
  ASSUME NEW t \in Transactions, Blockers(t) = {}
  PROVE  /\ pc[t] = "profile" => ProfileHolders(Provider(t)) \ {t} = {}
         /\ pc[t] \in {"upsert", "accept"} => RowHolders(t, Provider(t)) = {}
         /\ pc[t] = "move" /\ requests[Request(t)] = "open" => StatusHolders(t) = {}
         /\ pc[t] = "book" => StatusHolders(t) = {}
         /\ pc[t] = "booking" => BookingHolders(t) = {}
BY DEF Blockers

LEMMA CallTypes ==
  ASSUME MarketInv, NEW t \in Transactions
  PROVE  Request(t) \in Requests /\ Provider(t) \in Providers /\ call[t].amount \in Amounts
BY DEF MarketInv, MarketTypeOK, Request, Provider

\* A draft with one more write is a draft.
LEMMA DraftTypes ==
  ASSUME MarketInv, NEW t \in Transactions
  PROVE  /\ \A q \in Providers, row \in Proposals :
              [draft EXCEPT ![t].proposals[q] = row] \in [Transactions -> Drafts]
         /\ \A status \in Statuses : [draft EXCEPT ![t].status = status] \in [Transactions -> Drafts]
         /\ \A booking \in Bookings : [draft EXCEPT ![t].booking = booking] \in [Transactions -> Drafts]
<1>1. draft \in [Transactions -> Drafts]
  BY DEF MarketInv, MarketTypeOK, Drafts
<1>2. draft[t] \in Drafts
  BY <1>1
<1>3. \A q \in Providers, row \in Proposals : [draft[t] EXCEPT !.proposals[q] = row] \in Drafts
  BY <1>2 DEF Drafts
<1>4. \A status \in Statuses : [draft[t] EXCEPT !.status = status] \in Drafts
  BY <1>2 DEF Drafts
<1>5. \A booking \in Bookings : [draft[t] EXCEPT !.booking = booking] \in Drafts
  BY <1>2 DEF Drafts
<1> QED BY <1>1, <1>3, <1>4, <1>5

-----------------------------------------------------------------------------
(* createProposal *)

LEMMA CreateProposalInv ==
  ASSUME MarketInv, NEW t \in Transactions, NEW r \in Requests, NEW p \in Providers,
         NEW a \in Amounts, CreateProposal(t, r, p, a)
  PROVE  MarketInv'
<1>1. MarketTypeOK'
  BY DEF MarketInv, MarketTypeOK, CreateProposal, Goto, committed
<1>2. draft[t] = NoDraft /\ todo[t] = {}
  BY DEF MarketInv, Transaction, Preparation, CreateProposal
<1>3. Transaction(t)' /\ ~HoldsProfile(t)'
  BY <1>2 DEF MarketInv, MarketTypeOK, CreateProposal, Goto, Transaction, Preparation,
     ProposerDraft, AccepterDraft, Counted, Proposing, Accepting, HoldsProfile
<1> QED BY <1>1, <1>2, <1>3, OwnStepInv, QuietApart DEF MarketInv, MarketTypeOK, CreateProposal, Goto

LEMMA TriggerReadsRequestInv ==
  ASSUME MarketInv, NEW t \in Transactions, TriggerReadsRequest(t)
  PROVE  MarketInv'
<1>1. MarketTypeOK'
  BY DEF MarketInv, MarketTypeOK, TriggerReadsRequest, Goto, committed
<1>2. draft[t] = NoDraft /\ todo[t] = {}
  BY DEF MarketInv, Transaction, Preparation, TriggerReadsRequest
<1>3. Transaction(t)' /\ ~HoldsProfile(t)'
  BY <1>2 DEF MarketInv, MarketTypeOK, TriggerReadsRequest, Goto, Transaction, Preparation,
     ProposerDraft, AccepterDraft, Counted, Proposing, Accepting, HoldsProfile
<1> QED BY <1>1, <1>2, <1>3, OwnStepInv, QuietApart
       DEF MarketInv, MarketTypeOK, TriggerReadsRequest, Goto

LEMMA TriggerChecksCapacityInv ==
  ASSUME MarketInv, NEW t \in Transactions, TriggerChecksCapacity(t)
  PROVE  MarketInv'
<1>1. MarketTypeOK'
  BY DEF MarketInv, MarketTypeOK, TriggerChecksCapacity, Goto, committed
<1>2. draft[t] = NoDraft /\ todo[t] = {}
  BY DEF MarketInv, Transaction, Preparation, TriggerChecksCapacity
<1>3. Counted(t)'
  BY DEF TriggerChecksCapacity, Eligible, Counted, Row, Request, Provider, Sent, committed
<1>4. Transaction(t)'
  BY <1>2, <1>3 DEF MarketInv, MarketTypeOK, TriggerChecksCapacity, Goto, Transaction, Preparation,
     ProposerDraft, AccepterDraft, Proposing, Accepting
<1>5. ASSUME NEW u \in Transactions \ {t} PROVE Apart(t, u)'
  <2>1. Provider(t) = Provider(u) => ~HoldsProfile(u)
    BY NotBlocked DEF TriggerChecksCapacity, ProfileHolders
  <2> QED BY <1>2, <2>1 DEF MarketInv, MarketTypeOK, TriggerChecksCapacity, Goto, Apart, NoDraft,
         HoldsProfile, Provider
<1> QED BY <1>1, <1>4, <1>5, OwnStepInv DEF MarketInv, MarketTypeOK, TriggerChecksCapacity, Goto

LEMMA UpsertInv ==
  ASSUME MarketInv, NEW t \in Transactions, Upsert(t)
  PROVE  MarketInv'
<1> DEFINE p == Provider(t)
           row == [status |-> IF Row(t) = None THEN "sent" ELSE Row(t).status,
                   amount |-> call[t].amount]
<1>0. Request(t) \in Requests /\ p \in Providers /\ call[t].amount \in Amounts
  BY CallTypes
<1>1. row \in Proposals /\ row # None
  BY <1>0, NoneAssumption DEF MarketInv, MarketTypeOK, Proposals, Row
<1>2. /\ draft[t] = NoDraft /\ todo[t] = {}
      /\ draft' = [draft EXCEPT ![t].proposals[p] = row]
      /\ pc' = [pc EXCEPT ![t] = "move"]
      /\ UNCHANGED committed /\ UNCHANGED call /\ UNCHANGED todo
  BY DEF MarketInv, Transaction, Preparation, Upsert, Write, Goto, Row
<1> HIDE DEF row
<1>3. MarketTypeOK'
  BY <1>0, <1>1, <1>2, DraftTypes DEF MarketInv, MarketTypeOK, Drafts, committed
<1>4. /\ draft'[t].booking = None /\ draft'[t].status = None
      /\ \A q \in Providers : draft'[t].proposals[q] = IF q = p THEN row ELSE None
  BY <1>0, <1>2 DEF MarketInv, MarketTypeOK, NoDraft
<1>5. Counted(t)'
  BY <1>2 DEF MarketInv, MarketTypeOK, Transaction, Counted, Upsert, HoldsProfile, Row, Request,
     Provider, Sent, committed
<1>6. Transaction(t)'
  <2>1. Row(t)' = Row(t) /\ Provider(t)' = Provider(t) /\ pc'[t] = "move" /\ todo'[t] = {}
    BY <1>2 DEF MarketInv, MarketTypeOK, Row, Request, Provider, committed
  <2>2. Preparation(t)' /\ AccepterDraft(t)'
    BY <2>1 DEF Preparation, AccepterDraft, Accepting
  <2>3. draft'[t].proposals[p].status = IF Row(t) = None THEN "sent" ELSE Row(t).status
    BY <1>0, <1>4 DEF row
  <2>4. ProposerDraft(t)'
    BY <1>0, <1>1, <1>4, <2>1, <2>3 DEF ProposerDraft
  <2> QED BY <1>5, <2>2, <2>4 DEF Transaction
<1>7. ASSUME NEW u \in Transactions \ {t} PROVE Apart(t, u)'
  <2>1. Request(u) = Request(t) => draft[u].proposals[p] = None
    BY <1>0, NotBlocked, FreeRow DEF Upsert
  <2>2. Apart(t, u) /\ HoldsProfile(t)
    BY DEF MarketInv, Locks, Upsert, HoldsProfile
  <2> QED BY <1>2, <1>4, <2>1, <2>2 DEF MarketInv, MarketTypeOK, Apart, HoldsProfile, Request, Provider
<1> QED BY <1>2, <1>3, <1>6, <1>7, OwnStepInv DEF MarketInv, MarketTypeOK

LEMMA MoveRequestInv ==
  ASSUME MarketInv, NEW t \in Transactions, MoveRequest(t)
  PROVE  MarketInv'
<1>0. Request(t) \in Requests /\ Provider(t) \in Providers
  BY CallTypes
<1>1. /\ pc[t] = "move" /\ Proposing(t) /\ HoldsProfile(t)
      /\ UNCHANGED committed /\ UNCHANGED call /\ UNCHANGED todo /\ todo[t] = {}
      /\ pc' = [pc EXCEPT ![t] = "commit"]
      /\ draft' = IF requests[Request(t)] = "open"
                  THEN [draft EXCEPT ![t].status = "proposals_received"] ELSE draft
  BY DEF MoveRequest, Proposing, HoldsProfile, Goto, MarketInv, Transaction, Preparation
<1>2. MarketTypeOK'
  <2>1. "proposals_received" \in Statuses
    BY DEF Statuses
  <2> QED BY <1>1, <2>1, DraftTypes DEF MarketInv, MarketTypeOK, Drafts, committed
<1>3. /\ draft'[t].proposals = draft[t].proposals /\ draft'[t].booking = None
      /\ draft'[t].status # None =>
           draft'[t].status = "proposals_received" /\ requests[Request(t)] = "open"
  BY <1>1 DEF MarketInv, MarketTypeOK, Transaction, ProposerDraft
<1>4. Transaction(t)'
  <2>1. /\ Row(t)' = Row(t) /\ Provider(t)' = Provider(t) /\ Request(t)' = Request(t)
        /\ pc'[t] = "commit" /\ todo'[t] = {} /\ UNCHANGED requests
    BY <1>1 DEF MarketInv, MarketTypeOK, Row, Request, Provider, committed
  <2>2. Preparation(t)' /\ AccepterDraft(t)'
    BY <1>3, <2>1 DEF Preparation, AccepterDraft, Accepting
  <2>3. ProposerDraft(t)'
    BY <1>1, <1>3, <2>1 DEF MarketInv, Transaction, ProposerDraft
  <2>4. Counted(t)'
    BY <1>1, <2>1 DEF MarketInv, Transaction, Counted, Sent, committed
  <2> QED BY <2>2, <2>3, <2>4 DEF Transaction
<1>5. ASSUME NEW u \in Transactions \ {t} PROVE Apart(t, u)'
  <2>1. (Request(u) = Request(t) /\ requests[Request(t)] = "open") => draft[u].status = None
    BY <1>1, NotBlocked, FreeStatus DEF MoveRequest
  <2>2. Apart(t, u)
    BY DEF MarketInv, Locks
  <2> QED BY <1>1, <1>3, <2>1, <2>2 DEF MarketInv, MarketTypeOK, Apart, HoldsProfile, Request, Provider
<1> QED BY <1>1, <1>2, <1>4, <1>5, OwnStepInv DEF MarketInv, MarketTypeOK

-----------------------------------------------------------------------------
(* acceptProposal *)

LEMMA AcceptProposalInv ==
  ASSUME MarketInv, NEW t \in Transactions, NEW r \in Requests, NEW p \in Providers,
         AcceptProposal(t, r, p)
  PROVE  MarketInv'
<1>1. MarketTypeOK'
  <2>1. call \in [Transactions -> Calls]
    BY DEF MarketInv, MarketTypeOK, Calls
  <2>2. [call[t] EXCEPT !.request = r, !.provider = p] \in Calls
    BY <2>1 DEF Calls
  <2>3. call' \in [Transactions -> Calls]
    BY <2>1, <2>2 DEF AcceptProposal
  <2> QED BY <2>3 DEF MarketInv, MarketTypeOK, AcceptProposal, Goto, Calls, committed
<1>2. draft[t] = NoDraft /\ todo[t] = {}
  BY DEF MarketInv, Transaction, Preparation, AcceptProposal
<1>3. call'[t].request = r /\ call'[t].provider = p
  BY DEF MarketInv, MarketTypeOK, AcceptProposal
<1>4. Transaction(t)' /\ ~HoldsProfile(t)'
  BY <1>2, <1>3 DEF MarketInv, MarketTypeOK, AcceptProposal, Goto, Transaction, Preparation, Row,
     Request, Provider, ProposerDraft, AccepterDraft, Counted, Proposing, Accepting, HoldsProfile, committed
<1> QED BY <1>1, <1>2, <1>4, OwnStepInv, QuietApart DEF MarketInv, MarketTypeOK, AcceptProposal, Goto

LEMMA CheckSlotInv ==
  ASSUME MarketInv, NEW t \in Transactions, CheckSlot(t)
  PROVE  MarketInv'
<1>1. MarketTypeOK'
  BY DEF MarketInv, MarketTypeOK, CheckSlot, Goto, committed
<1>2. draft[t] = NoDraft /\ todo[t] = {}
  BY DEF MarketInv, Transaction, Preparation, CheckSlot
<1>3. Transaction(t)' /\ ~HoldsProfile(t)'
  BY <1>2 DEF MarketInv, MarketTypeOK, CheckSlot, Goto, Transaction, Preparation, Row, Request,
     Provider, ProposerDraft, AccepterDraft, Counted, Proposing, Accepting, HoldsProfile, committed
<1> QED BY <1>1, <1>2, <1>3, OwnStepInv, QuietApart DEF MarketInv, MarketTypeOK, CheckSlot, Goto

LEMMA AcceptRowInv ==
  ASSUME MarketInv, NEW t \in Transactions, AcceptRow(t)
  PROVE  MarketInv'
<1> DEFINE p == Provider(t)
           row == [Row(t) EXCEPT !.status = "accepted"]
<1>0. Request(t) \in Requests /\ p \in Providers
  BY CallTypes
<1>1. Row(t) \in Proposals /\ Row(t).status = "sent"
  BY <1>0 DEF MarketInv, MarketTypeOK, Transaction, Preparation, AcceptRow, Acceptable, Row
<1>2. row \in Proposals /\ row # None /\ row.status = "accepted"
  BY <1>1, NoneAssumption DEF Proposals
<1>3. /\ draft[t] = NoDraft /\ todo[t] = {} /\ Row(t) # None
      /\ draft' = [draft EXCEPT ![t].proposals[p] = row]
      /\ pc' = [pc EXCEPT ![t] = "scan"]
      /\ UNCHANGED committed /\ UNCHANGED call /\ UNCHANGED todo
  BY DEF MarketInv, Transaction, Preparation, AcceptRow, Write, Goto, Row
<1> HIDE DEF row
<1>4. MarketTypeOK'
  BY <1>0, <1>2, <1>3, DraftTypes DEF MarketInv, MarketTypeOK, Drafts, committed
<1>5. /\ draft'[t].booking = None /\ draft'[t].status = None
      /\ \A q \in Providers : draft'[t].proposals[q] = IF q = p THEN row ELSE None
  BY <1>0, <1>3 DEF MarketInv, MarketTypeOK, NoDraft
<1>6. Transaction(t)' /\ ~HoldsProfile(t)'
  BY <1>0, <1>1, <1>2, <1>3, <1>5 DEF MarketInv, MarketTypeOK, Transaction, Preparation, Counted,
     ProposerDraft, AccepterDraft, Proposing, Accepting, HoldsProfile, Row, Request, Provider, committed
<1>7. ASSUME NEW u \in Transactions \ {t} PROVE Apart(t, u)'
  <2>1. Request(u) = Request(t) => draft[u].proposals[p] = None
    BY <1>0, NotBlocked, FreeRow DEF AcceptRow
  <2> QED BY <1>3, <1>5, <1>6, <2>1 DEF MarketInv, MarketTypeOK, Apart, Request, Provider
<1> QED BY <1>3, <1>4, <1>6, <1>7, OwnStepInv DEF MarketInv, MarketTypeOK

LEMMA ScanOthersInv ==
  ASSUME MarketInv, NEW t \in Transactions, ScanOthers(t)
  PROVE  MarketInv'
<1> DEFINE others == {q \in Providers \ {Provider(t)} : proposals[Request(t)][q] # None}
<1>1. /\ pc[t] = "scan" /\ pc' = [pc EXCEPT ![t] = "decline"] /\ todo' = [todo EXCEPT ![t] = others]
      /\ UNCHANGED committed /\ UNCHANGED call /\ UNCHANGED draft /\ others \subseteq Providers
  BY DEF ScanOthers, Goto
<1>2. \A q \in others : q # Provider(t) /\ proposals[Request(t)][q] # None
  OBVIOUS
<1> HIDE DEF others
<1>3. MarketTypeOK'
  BY <1>1 DEF MarketInv, MarketTypeOK, committed
<1>4. Transaction(t)' /\ ~HoldsProfile(t)'
  BY <1>1, <1>2 DEF MarketInv, MarketTypeOK, Transaction, Preparation, Row, Request,
     Provider, ProposerDraft, AccepterDraft, Counted, Proposing, Accepting, HoldsProfile, committed
<1> QED BY <1>1, <1>3, <1>4, OwnStepInv, QuietApart DEF MarketInv, MarketTypeOK

LEMMA DeclineRowInv ==
  ASSUME MarketInv, NEW t \in Transactions, NEW q \in Providers, DeclineRow(t, q)
  PROVE  MarketInv'
<1> DEFINE row == [proposals[Request(t)][q] EXCEPT !.status = "declined"]
<1>0. Request(t) \in Requests /\ Provider(t) \in Providers
  BY CallTypes
<1>1. q # Provider(t) /\ proposals[Request(t)][q] # None /\ proposals[Request(t)][q] \in Proposals
  BY <1>0 DEF MarketInv, MarketTypeOK, Transaction, Preparation, DeclineRow
<1>2. row \in Proposals /\ row # None /\ row.status = "declined"
  BY <1>1, NoneAssumption DEF Proposals
<1>3. /\ pc[t] = "decline" /\ todo' = [todo EXCEPT ![t] = @ \ {q}] /\ RowHolders(t, q) = {}
      /\ draft' = [draft EXCEPT ![t].proposals[q] = row]
      /\ UNCHANGED committed /\ UNCHANGED call /\ UNCHANGED pc
  BY DEF DeclineRow, Write
<1> HIDE DEF row
<1>4. MarketTypeOK'
  BY <1>2, <1>3, DraftTypes DEF MarketInv, MarketTypeOK, Drafts, committed
<1>5. /\ draft'[t].booking = draft[t].booking /\ draft'[t].status = draft[t].status
      /\ \A x \in Providers : draft'[t].proposals[x] = IF x = q THEN row ELSE draft[t].proposals[x]
  BY <1>3 DEF MarketInv, MarketTypeOK
<1>6. Transaction(t)' /\ ~HoldsProfile(t)'
  BY <1>0, <1>1, <1>2, <1>3, <1>5 DEF MarketInv, MarketTypeOK, Transaction, Preparation, Counted,
     ProposerDraft, AccepterDraft, Proposing, Accepting, HoldsProfile, Row, Request, Provider, committed
<1>7. ASSUME NEW u \in Transactions \ {t} PROVE Apart(t, u)'
  <2>1. Request(u) = Request(t) => draft[u].proposals[q] = None
    BY <1>3, FreeRow
  <2>2. Apart(t, u)
    BY DEF MarketInv, Locks
  <2> QED BY <1>3, <1>5, <1>6, <2>1, <2>2 DEF MarketInv, MarketTypeOK, Apart, Request, Provider
<1> QED BY <1>3, <1>4, <1>6, <1>7, OwnStepInv DEF MarketInv, MarketTypeOK

LEMMA DeclinedInv ==
  ASSUME MarketInv, NEW t \in Transactions, Declined(t)
  PROVE  MarketInv'
<1>1. MarketTypeOK'
  BY DEF MarketInv, MarketTypeOK, Declined, Goto, committed
<1>2. Transaction(t)' /\ ~HoldsProfile(t)'
  BY DEF MarketInv, MarketTypeOK, Declined, Goto, Transaction, Preparation, Row, Request,
     Provider, ProposerDraft, AccepterDraft, Counted, Proposing, Accepting, HoldsProfile, committed
<1> QED BY <1>1, <1>2, OwnStepInv, QuietApart DEF MarketInv, MarketTypeOK, Declined, Goto

LEMMA BookRequestInv ==
  ASSUME MarketInv, NEW t \in Transactions, BookRequest(t)
  PROVE  MarketInv'
<1>1. /\ pc[t] = "book" /\ pc' = [pc EXCEPT ![t] = "booking"] /\ StatusHolders(t) = {}
      /\ draft' = [draft EXCEPT ![t].status = "booked"]
      /\ UNCHANGED committed /\ UNCHANGED call /\ UNCHANGED todo
  BY NotBlocked DEF BookRequest, Goto
<1>2. MarketTypeOK'
  <2>1. "booked" \in Statuses
    BY DEF Statuses
  <2> QED BY <1>1, <2>1, DraftTypes DEF MarketInv, MarketTypeOK, Drafts, committed
<1>3. /\ draft'[t].booking = draft[t].booking /\ draft'[t].proposals = draft[t].proposals
      /\ draft'[t].status = "booked"
  BY <1>1 DEF MarketInv, MarketTypeOK
<1>4. Transaction(t)' /\ ~HoldsProfile(t)'
  <2>1. /\ Row(t)' = Row(t) /\ Provider(t)' = Provider(t) /\ Request(t)' = Request(t)
        /\ pc'[t] = "booking" /\ todo'[t] = {} /\ UNCHANGED <<proposals, bookings>>
    BY <1>1 DEF MarketInv, MarketTypeOK, Transaction, Preparation, Row, Request, Provider, committed
  <2>2. Preparation(t)' /\ ProposerDraft(t)' /\ ~HoldsProfile(t)' /\ Counted(t)'
    BY <2>1 DEF Preparation, ProposerDraft, Proposing, HoldsProfile, Counted
  <2>3. AccepterDraft(t)'
    BY <1>1, <1>3, <2>1 DEF MarketInv, Transaction, AccepterDraft, Accepting
  <2> QED BY <2>2, <2>3 DEF Transaction
<1>5. ASSUME NEW u \in Transactions \ {t} PROVE Apart(t, u)'
  <2>1. Request(u) = Request(t) => draft[u].status = None
    BY <1>1, FreeStatus
  <2>2. Apart(t, u)
    BY DEF MarketInv, Locks
  <2> QED BY <1>1, <1>3, <1>4, <2>1, <2>2 DEF MarketInv, MarketTypeOK, Apart, Request, Provider
<1> QED BY <1>1, <1>2, <1>4, <1>5, OwnStepInv DEF MarketInv, MarketTypeOK

LEMMA InsertBookingInv ==
  ASSUME MarketInv, NEW t \in Transactions, InsertBooking(t)
  PROVE  MarketInv'
<1> DEFINE booking == [provider |-> Provider(t), active |-> TRUE,
                       amount |-> draft[t].proposals[Provider(t)].amount]
<1>0. Request(t) \in Requests /\ Provider(t) \in Providers
  BY CallTypes
<1>1. draft[t].proposals[Provider(t)] \in Proposals
  BY <1>0 DEF MarketInv, MarketTypeOK, Transaction, AccepterDraft, Accepting, InsertBooking
<1>2. booking \in Bookings /\ booking # None
  <2>1. booking \in Bookings
    BY <1>0, <1>1 DEF Proposals, Bookings
  <2> QED BY <2>1, NoneAssumption
<1>3. /\ pc[t] = "booking" /\ pc' = [pc EXCEPT ![t] = "commit"] /\ BookingHolders(t) = {}
      /\ draft' = [draft EXCEPT ![t].booking = booking] /\ bookings[Request(t)] = None
      /\ UNCHANGED committed /\ UNCHANGED call /\ UNCHANGED todo
  BY NotBlocked DEF InsertBooking, Goto
<1>4. booking.provider = Provider(t) /\ booking.active
  OBVIOUS
<1> HIDE DEF booking
<1>5. MarketTypeOK'
  BY <1>2, <1>3, DraftTypes DEF MarketInv, MarketTypeOK, Drafts, committed
<1>6. /\ draft'[t].booking = booking /\ draft'[t].proposals = draft[t].proposals
      /\ draft'[t].status = draft[t].status
  BY <1>3 DEF MarketInv, MarketTypeOK
<1>7. Transaction(t)' /\ ~HoldsProfile(t)'
  <2>1. /\ Row(t)' = Row(t) /\ Provider(t)' = Provider(t) /\ Request(t)' = Request(t)
        /\ pc'[t] = "commit" /\ todo'[t] = {} /\ UNCHANGED <<proposals, bookings>>
    BY <1>3 DEF MarketInv, MarketTypeOK, Transaction, Preparation, Row, Request, Provider, committed
  <2>2. Preparation(t)' /\ ProposerDraft(t)' /\ ~HoldsProfile(t)' /\ Counted(t)'
    BY <1>2, <1>6, <2>1 DEF Preparation, ProposerDraft, Proposing, HoldsProfile, Counted
  <2>3. AccepterDraft(t)'
    BY <1>3, <1>4, <1>6, <2>1 DEF MarketInv, Transaction, AccepterDraft, Accepting
  <2> QED BY <2>2, <2>3 DEF Transaction
<1>8. ASSUME NEW u \in Transactions \ {t} PROVE Apart(t, u)'
  <2>1. Request(u) = Request(t) => draft[u].booking = None
    BY <1>3, FreeBooking
  <2>2. Apart(t, u)
    BY DEF MarketInv, Locks
  <2> QED BY <1>3, <1>6, <1>7, <2>1, <2>2 DEF MarketInv, MarketTypeOK, Apart, Request, Provider
<1> QED BY <1>3, <1>5, <1>7, <1>8, OwnStepInv DEF MarketInv, MarketTypeOK

\* A refusal, a deadlock victim and an error all leave nothing behind.
LEMMA RollbackInv ==
  ASSUME MarketInv, NEW t \in Transactions, Rollback(t)
  PROVE  MarketInv'
<1>1. MarketTypeOK'
  BY DEF MarketInv, MarketTypeOK, Rollback, Clear, Goto, NoDraft, committed
<1>2. Transaction(t)' /\ ~HoldsProfile(t)'
  BY DEF MarketInv, MarketTypeOK, Rollback, Clear, Goto, Transaction, Preparation,
     ProposerDraft, AccepterDraft, Counted, Proposing, Accepting, HoldsProfile
<1> QED BY <1>1, <1>2, OwnStepInv, QuietApart DEF MarketInv, MarketTypeOK, Rollback, Clear, Goto

-----------------------------------------------------------------------------
(* COMMIT *)

\* What COMMIT does to each committed row, request and booking.
LEMMA CommitEffect ==
  ASSUME MarketInv, NEW t \in Transactions, Commit(t)
  PROVE  /\ \A s \in Requests, q \in Providers : proposals'[s][q] =
              IF s = Request(t) /\ draft[t].proposals[q] # None
              THEN draft[t].proposals[q] ELSE proposals[s][q]
         /\ \A s \in Requests : requests'[s] =
              IF s = Request(t) /\ draft[t].status # None THEN draft[t].status ELSE requests[s]
         /\ \A s \in Requests : bookings'[s] =
              IF s = Request(t) /\ draft[t].booking # None THEN draft[t].booking ELSE bookings[s]
BY CallTypes DEF MarketInv, MarketTypeOK, Commit, Written

\* The new status of each row that COMMIT writes, proposal or acceptance.
LEMMA CommitDecides ==
  ASSUME MarketInv, NEW t \in Transactions, Commit(t),
         NEW s \in Requests, NEW q \in Providers, proposals[s][q] # None
  PROVE  /\ proposals'[s][q] # None
         /\ proposals[s][q].status # "sent" => proposals'[s][q].status = proposals[s][q].status
         /\ (proposals'[s][q].status = "sent") => (proposals[s][q].status = "sent")
<1>1. CASE s = Request(t) /\ draft[t].proposals[q] # None /\ Proposing(t)
  BY <1>1, CommitEffect, CallTypes DEF MarketInv, Transaction, ProposerDraft, Row
<1>2. CASE s = Request(t) /\ draft[t].proposals[q] # None /\ Accepting(t)
  <2>1. bookings[s] = None /\ pc[t] = "commit"
    BY <1>2 DEF MarketInv, Transaction, AccepterDraft, Commit
  <2>2. proposals[s][q].status # "accepted"
    BY <2>1 DEF MarketInv, BookedByOneAcceptance
  <2>3. proposals[s][q] \in Proposals
    BY DEF MarketInv, MarketTypeOK
  <2>4. proposals[s][q].status \in {"sent", "declined"}
    BY <2>2, <2>3 DEF Proposals
  <2>5. IF q = Provider(t)
        THEN proposals[s][q].status = "sent" /\ draft[t].proposals[q].status = "accepted"
        ELSE draft[t].proposals[q].status = "declined"
    BY <1>2, CallTypes DEF MarketInv, Transaction, AccepterDraft, Row
  <2> QED BY <1>2, <2>4, <2>5, CommitEffect
<1>3. CASE ~(s = Request(t) /\ draft[t].proposals[q] # None)
  BY <1>3, CommitEffect
<1> QED BY <1>1, <1>2, <1>3 DEF Proposing, Accepting, Commit

\* Only the insertion of a new proposal, under the profile lock, adds to a count.
LEMMA CommitCounts ==
  ASSUME MarketInv, NEW t \in Transactions, Commit(t), NEW q \in Providers
  PROVE  \/ Sent(q)' \subseteq Sent(q)
         \/ /\ q = Provider(t) /\ HoldsProfile(t) /\ Row(t) = None
            /\ Sent(q)' \subseteq Sent(q) \cup {Request(t)}
<1>1. ASSUME NEW s \in Sent(q)', s \notin Sent(q)
      PROVE  s = Request(t) /\ q = Provider(t) /\ HoldsProfile(t) /\ Row(t) = None
  <2>1. s \in Requests /\ proposals'[s][q] # None /\ proposals'[s][q].status = "sent"
    BY <1>1 DEF Sent
  <2>2. proposals[s][q] = None
    BY <1>1, <2>1, CommitDecides DEF Sent
  <2>3. s = Request(t) /\ draft[t].proposals[q] # None
    BY <2>1, <2>2, CommitEffect
  <2>4. ~Accepting(t)
    BY <2>2, <2>3 DEF MarketInv, Transaction, AccepterDraft, Row
  <2>5. Proposing(t) /\ HoldsProfile(t)
    BY <2>4 DEF Proposing, Accepting, HoldsProfile, Commit
  <2>6. q = Provider(t)
    BY <2>3, <2>5 DEF MarketInv, Transaction, ProposerDraft
  <2> QED BY <2>2, <2>3, <2>5, <2>6 DEF Row
<1> QED BY <1>1

\* What is locked by another transaction does not change under it.
LEMMA CommitRespectsLocks ==
  ASSUME MarketInv, NEW t \in Transactions, Commit(t), NEW u \in Transactions \ {t}
  PROVE  /\ pc'[u] = pc[u] /\ call'[u] = call[u] /\ draft'[u] = draft[u] /\ todo'[u] = todo[u]
         /\ \A q \in Providers : draft[u].proposals[q] # None =>
              proposals'[Request(u)][q] = proposals[Request(u)][q]
         /\ draft[u].status # None => requests'[Request(u)] = requests[Request(u)]
         /\ draft[u].booking # None => bookings'[Request(u)] = bookings[Request(u)]
<1>1. pc'[u] = pc[u] /\ call'[u] = call[u] /\ draft'[u] = draft[u] /\ todo'[u] = todo[u]
  BY DEF MarketInv, MarketTypeOK, Commit, Clear, Goto
<1>2. Apart(t, u)
  BY DEF MarketInv, Locks
<1> QED BY <1>1, <1>2, CommitEffect, CallTypes DEF Apart

LEMMA CommitBystander ==
  ASSUME MarketInv, NEW t \in Transactions, Commit(t), NEW u \in Transactions \ {t}
  PROVE  Transaction(u)'
<1>0. Request(u) \in Requests /\ Provider(u) \in Providers
  BY CallTypes
<1>1. /\ pc'[u] = pc[u] /\ call'[u] = call[u] /\ draft'[u] = draft[u] /\ todo'[u] = todo[u]
      /\ Request(u)' = Request(u) /\ Provider(u)' = Provider(u)
      /\ Row(u)' = proposals'[Request(u)][Provider(u)]
  BY CommitRespectsLocks DEF Request, Provider, Row
<1>2. \A q \in Providers : proposals[Request(u)][q] # None => proposals'[Request(u)][q] # None
  BY <1>0, CommitDecides
<1>3. todo[u] \subseteq Providers
  BY DEF MarketInv, MarketTypeOK
<1>4. Preparation(u)'
  BY <1>0, <1>1, <1>2, <1>3 DEF MarketInv, Transaction, Preparation, Row
<1>5. (Proposing(u) \/ Accepting(u)) => Row(u)' = Row(u)
  BY <1>0, <1>1, CommitRespectsLocks DEF MarketInv, Transaction, ProposerDraft, AccepterDraft, Row
<1>6. ProposerDraft(u)'
  BY <1>1, <1>5, CommitRespectsLocks DEF MarketInv, Transaction, ProposerDraft, Proposing
<1>7. AccepterDraft(u)'
  BY <1>1, <1>2, <1>5, CommitRespectsLocks DEF MarketInv, Transaction, AccepterDraft, Accepting
<1>8. Counted(u)'
  <2> SUFFICES ASSUME HoldsProfile(u)', Row(u)' = None
               PROVE  Cardinality(Sent(Provider(u))') < ProposalLimit
    BY <1>1 DEF Counted, Sent
  <2>1. HoldsProfile(u) /\ Row(u) = None
    BY <1>0, <1>1, <1>2 DEF HoldsProfile, Row
  <2>2. ~(HoldsProfile(t) /\ Provider(u) = Provider(t))
    BY <2>1 DEF MarketInv, Locks, Apart
  <2>3. Sent(Provider(u))' \subseteq Sent(Provider(u))
    <3> DEFINE q == Provider(u)
    <3> HIDE DEF q
    <3>1. q \in Providers /\ ~(HoldsProfile(t) /\ q = Provider(t))
      BY <1>0, <2>2 DEF q
    <3>2. {s \in Requests : proposals'[s][q] # None /\ proposals'[s][q].status = "sent"} \subseteq Sent(q)
      BY <3>1, CommitCounts DEF Sent
    <3> QED BY <1>1, <3>2 DEF Sent, q
  <2>4. IsFiniteSet(Sent(Provider(u))) /\ Cardinality(Sent(Provider(u))) < ProposalLimit
    BY <1>0, <2>1 DEF MarketInv, FiniteProposals, Transaction, Counted
  <2>5. Cardinality(Sent(Provider(u))') <= Cardinality(Sent(Provider(u))) /\ IsFiniteSet(Sent(Provider(u))')
    BY <2>3, <2>4, FS_Subset
  <2> QED BY <2>4, <2>5, FS_CardinalityType, LimitsAssumption
<1> QED BY <1>4, <1>6, <1>7, <1>8 DEF Transaction

\* COMMIT books the request with the one proposal it accepts, or none is accepted.
LEMMA CommitBooks ==
  ASSUME MarketInv, NEW t \in Transactions, Commit(t)
  PROVE  BookedByOneAcceptance'
<1> DEFINE r == Request(t)
           Accepted(s) == {p \in Providers : proposals[s][p] # None /\ proposals[s][p].status = "accepted"}
           AcceptedNow(s) == {p \in Providers : proposals'[s][p] # None /\ proposals'[s][p].status = "accepted"}
<1>0. r \in Requests /\ Provider(t) \in Providers /\ pc[t] = "commit"
  BY CallTypes DEF Commit
<1>1. SUFFICES ASSUME NEW s \in Requests
      PROVE  /\ bookings'[s] = None => AcceptedNow(s) = {} /\ requests'[s] \in Takes
             /\ bookings'[s] # None =>
                  AcceptedNow(s) = {bookings'[s].provider} /\ requests'[s] \notin Takes
  BY DEF BookedByOneAcceptance, Takes
<1>2. /\ bookings[s] = None => Accepted(s) = {} /\ requests[s] \in Takes
      /\ bookings[s] # None => Accepted(s) = {bookings[s].provider} /\ requests[s] \notin Takes
  BY DEF MarketInv, BookedByOneAcceptance
<1>3. CASE s # r
  BY <1>2, <1>3, CommitEffect
<1>4. CASE s = r /\ Proposing(t)
  <2>1. bookings'[s] = bookings[s]
    BY <1>4, CommitEffect DEF MarketInv, Transaction, ProposerDraft
  <2>2. requests'[s] \in Takes <=> requests[s] \in Takes
    BY <1>4, CommitEffect DEF MarketInv, Transaction, ProposerDraft, Takes
  <2>3. AcceptedNow(s) = Accepted(s)
    <3> SUFFICES ASSUME NEW q \in Providers PROVE q \in AcceptedNow(s) <=> q \in Accepted(s)
      OBVIOUS
    <3>1. CASE draft[t].proposals[q] = None
      BY <1>4, <3>1, CommitEffect
    <3>2. CASE draft[t].proposals[q] # None
      <4>1. q = Provider(t) /\ proposals'[s][q] = draft[t].proposals[q]
        BY <1>4, <3>2, CommitEffect DEF MarketInv, Transaction, ProposerDraft
      <4>2. proposals'[s][q].status = IF proposals[s][q] = None THEN "sent" ELSE proposals[s][q].status
        BY <1>4, <4>1 DEF MarketInv, Transaction, ProposerDraft, Row
      <4> QED BY <3>2, <4>1, <4>2
    <3> QED BY <3>1, <3>2
  <2> QED BY <1>2, <2>1, <2>2, <2>3
<1>5. CASE s = r /\ Accepting(t)
  <2>1. /\ draft[t].booking # None /\ draft[t].booking.provider = Provider(t)
        /\ draft[t].status = "booked" /\ bookings[s] = None
    BY <1>0, <1>5 DEF MarketInv, Transaction, AccepterDraft, Accepting
  <2>2. bookings'[s] = draft[t].booking
    BY <1>5, <2>1, CommitEffect
  <2>3. requests'[s] = "booked"
    BY <1>5, <2>1, CommitEffect, NoneAssumption DEF Statuses
  <2>4. AcceptedNow(s) = {Provider(t)}
    <3>1. proposals'[s][Provider(t)] = draft[t].proposals[Provider(t)]
           /\ proposals'[s][Provider(t)] # None /\ proposals'[s][Provider(t)].status = "accepted"
      BY <1>0, <1>5, CommitEffect DEF MarketInv, Transaction, AccepterDraft
    <3>2. ASSUME NEW q \in Providers \ {Provider(t)} PROVE q \notin AcceptedNow(s)
      <4>1. q \notin Accepted(s)
        BY <1>2, <2>1
      <4>2. draft[t].proposals[q] # None => draft[t].proposals[q].status = "declined"
        BY <1>5 DEF MarketInv, Transaction, AccepterDraft
      <4> QED BY <1>5, <4>1, <4>2, CommitEffect
    <3> QED BY <1>0, <3>1, <3>2
  <2> QED BY <2>1, <2>2, <2>3, <2>4 DEF Takes
<1> QED BY <1>0, <1>3, <1>4, <1>5 DEF Proposing, Accepting

LEMMA CommitInv ==
  ASSUME MarketInv, NEW t \in Transactions, Commit(t)
  PROVE  MarketInv'
<1>0. Request(t) \in Requests /\ Provider(t) \in Providers
  BY CallTypes
<1>1. pc' = [pc EXCEPT ![t] = "idle"] /\ draft' = [draft EXCEPT ![t] = NoDraft]
       /\ todo' = [todo EXCEPT ![t] = {}] /\ UNCHANGED <<paused, call>>
  BY DEF Commit, Clear, Goto
<1>2. MarketTypeOK'
  <2>1. proposals' \in [Requests -> [Providers -> Proposals \cup {None}]]
    <3>1. [q \in Providers |-> Written(draft[t].proposals[q], proposals[Request(t)][q])]
            \in [Providers -> Proposals \cup {None}]
      BY <1>0 DEF MarketInv, MarketTypeOK, Written
    <3> QED BY <1>0, <3>1 DEF MarketInv, MarketTypeOK, Commit
  <2>2. requests' \in [Requests -> Statuses] /\ bookings' \in [Requests -> Bookings \cup {None}]
    BY <1>0 DEF MarketInv, MarketTypeOK, Commit, Written
  <2> QED BY <1>1, <2>1, <2>2 DEF MarketInv, MarketTypeOK, NoDraft
<1>3. Transaction(t)' /\ ~HoldsProfile(t)'
  BY <1>1 DEF MarketInv, MarketTypeOK, Transaction, Preparation, ProposerDraft, AccepterDraft,
     Counted, Proposing, Accepting, HoldsProfile
<1>4. \A u \in Transactions : Transaction(u)'
  BY <1>3, CommitBystander
<1>5. Locks'
  <2>1. \A u \in Transactions \ {t} : Apart(t, u)'
    BY <1>1, <1>3, QuietApart DEF MarketInv, MarketTypeOK
  <2>2. \A u, w \in Transactions \ {t} : u # w => Apart(u, w)'
    BY <1>1 DEF MarketInv, MarketTypeOK, Locks, Apart, Request, Provider, HoldsProfile
  <2> QED BY <2>1, <2>2 DEF Locks, Apart
<1>6. FiniteProposals' /\ ProposalLimitHolds'
  <2> SUFFICES ASSUME NEW q \in Providers
               PROVE  IsFiniteSet(Sent(q)') /\ Cardinality(Sent(q)') <= ProposalLimit
    BY DEF FiniteProposals, ProposalLimitHolds, Sent
  <2>1. IsFiniteSet(Sent(q)) /\ Cardinality(Sent(q)) <= ProposalLimit /\ Cardinality(Sent(q)) \in Nat
    BY FS_CardinalityType DEF MarketInv, FiniteProposals, ProposalLimitHolds
  <2>2. CASE Sent(q)' \subseteq Sent(q)
    <3>1. IsFiniteSet(Sent(q)') /\ Cardinality(Sent(q)') <= Cardinality(Sent(q))
      BY <2>1, <2>2, FS_Subset
    <3> QED BY <2>1, <3>1, FS_CardinalityType, LimitsAssumption
  <2>3. CASE /\ q = Provider(t) /\ HoldsProfile(t) /\ Row(t) = None
             /\ Sent(q)' \subseteq Sent(q) \cup {Request(t)}
    <3>1. Cardinality(Sent(q)) < ProposalLimit
      BY <2>3 DEF MarketInv, Transaction, Counted
    <3> DEFINE more == Sent(q) \cup {Request(t)}
    <3>2. IsFiniteSet(more) /\ Cardinality(more) <= Cardinality(Sent(q)) + 1
      <4>1. /\ IsFiniteSet(more)
            /\ Cardinality(more) = IF Request(t) \in Sent(q) THEN Cardinality(Sent(q))
                                   ELSE Cardinality(Sent(q)) + 1
        BY <2>1, FS_AddElement
      <4> HIDE DEF more
      <4> QED BY <2>1, <4>1
    <3>3. IsFiniteSet(Sent(q)') /\ Cardinality(Sent(q)') <= Cardinality(more)
      BY <2>3, <3>2, FS_Subset
    <3>4. Cardinality(more) \in Nat /\ Cardinality(Sent(q)') \in Nat
      BY <3>2, <3>3, FS_CardinalityType
    <3> HIDE DEF more
    <3> QED BY <2>1, <3>1, <3>2, <3>3, <3>4, LimitsAssumption
  <2> QED BY <2>2, <2>3, CommitCounts
<1> QED BY <1>2, <1>4, <1>5, <1>6, CommitBooks DEF MarketInv

-----------------------------------------------------------------------------
(* The rest of the system, and every step *)

\* Nothing in the invariant depends on who is paused.
LEMMA PausedOnly ==
  ASSUME MarketInv, MarketTypeOK', UNCHANGED <<requests, proposals, bookings, pc, call, draft, todo>>
  PROVE  MarketInv'
<1>1. ASSUME NEW t \in Transactions PROVE Transaction(t)'
  <2>1. Preparation(t)' /\ Counted(t)'
    BY DEF MarketInv, Transaction, Preparation, Counted, HoldsProfile, Row, Request, Provider, Sent
  <2>2. ProposerDraft(t)'
    BY DEF MarketInv, Transaction, ProposerDraft, Proposing, Row, Request, Provider
  <2>3. AccepterDraft(t)'
    BY DEF MarketInv, Transaction, AccepterDraft, Accepting, Row, Request, Provider
  <2> QED BY <2>1, <2>2, <2>3 DEF Transaction
<1>2. Locks'
  BY DEF MarketInv, Locks, Apart, HoldsProfile, Request, Provider
<1>3. BookedByOneAcceptance' /\ FiniteProposals' /\ ProposalLimitHolds'
  BY DEF MarketInv, BookedByOneAcceptance, FiniteProposals, ProposalLimitHolds, Sent
<1> QED BY <1>1, <1>2, <1>3 DEF MarketInv

LEMMA SetAvailabilityInv ==
  ASSUME MarketInv, NEW p \in Providers, SetAvailability(p)
  PROVE  MarketInv'
<1>1. MarketTypeOK'
  BY DEF MarketInv, MarketTypeOK, SetAvailability
<1> QED BY <1>1, PausedOnly DEF SetAvailability

\* A request with a booking is no longer open: no transaction holds its status.
LEMMA EndBookingInv ==
  ASSUME MarketInv, NEW r \in Requests, EndBooking(r)
  PROVE  MarketInv'
<1>1. /\ bookings[r] # None /\ bookings[r] \in Bookings /\ requests[r] \notin Takes
      /\ bookings' = [bookings EXCEPT ![r].active = FALSE]
      /\ requests' = [requests EXCEPT ![r] = "closed"]
      /\ UNCHANGED <<proposals, paused, pc, call, draft, todo>>
  BY DEF MarketInv, MarketTypeOK, BookedByOneAcceptance, EndBooking
<1>2. /\ [bookings[r] EXCEPT !.active = FALSE] \in Bookings
      /\ [bookings[r] EXCEPT !.active = FALSE].provider = bookings[r].provider
  BY <1>1 DEF Bookings
<1>3. MarketTypeOK'
  BY <1>1, <1>2 DEF MarketInv, MarketTypeOK, Statuses
<1>4. \A s \in Requests :
        /\ bookings'[s] = None <=> bookings[s] = None
        /\ bookings[s] # None => bookings'[s].provider = bookings[s].provider
        /\ requests'[s] = IF s = r THEN "closed" ELSE requests[s]
  BY <1>1, <1>2, NoneAssumption DEF MarketInv, MarketTypeOK
<1>5. BookedByOneAcceptance'
  BY <1>1, <1>4 DEF MarketInv, BookedByOneAcceptance, Takes
<1>6. ASSUME NEW t \in Transactions PROVE Transaction(t)'
  <2>1. Request(t) \in Requests
    BY CallTypes
  <2>2. requests[Request(t)] = "open" => requests'[Request(t)] = "open"
    BY <1>1, <1>4, <2>1 DEF Takes
  <2>3. bookings[Request(t)] = None => bookings'[Request(t)] = None
    BY <1>4, <2>1
  <2>4. Preparation(t)' /\ Counted(t)'
    BY <1>1 DEF MarketInv, Transaction, Preparation, Counted, HoldsProfile, Row, Request, Provider, Sent
  <2>5. ProposerDraft(t)'
    BY <1>1, <2>2 DEF MarketInv, Transaction, ProposerDraft, Proposing, Row, Request, Provider
  <2>6. AccepterDraft(t)'
    BY <1>1, <2>3 DEF MarketInv, Transaction, AccepterDraft, Accepting, Row, Request, Provider
  <2> QED BY <2>4, <2>5, <2>6 DEF Transaction
<1>7. Locks' /\ FiniteProposals' /\ ProposalLimitHolds'
  BY <1>1 DEF MarketInv, Locks, Apart, HoldsProfile, Request, Provider, FiniteProposals,
     ProposalLimitHolds, Sent
<1> QED BY <1>3, <1>5, <1>6, <1>7 DEF MarketInv

LEMMA MarketNextInv ==
  ASSUME MarketInv, [Next]_vars
  PROVE  MarketInv'
<1>1. CASE UNCHANGED vars
  <2>1. MarketTypeOK'
    BY <1>1 DEF vars, MarketInv, MarketTypeOK
  <2> QED BY <1>1, <2>1, PausedOnly DEF vars
<1>2. ASSUME NEW t \in Transactions, NEW r \in Requests, NEW p \in Providers,
             AcceptProposal(t, r, p) \/ \E a \in Amounts : CreateProposal(t, r, p, a)
      PROVE  MarketInv'
  BY <1>2, CreateProposalInv, AcceptProposalInv
<1>3. ASSUME NEW t \in Transactions, Step(t) PROVE MarketInv'
  BY <1>3, TriggerReadsRequestInv, TriggerChecksCapacityInv, UpsertInv, MoveRequestInv,
     CheckSlotInv, AcceptRowInv, ScanOthersInv, DeclineRowInv, DeclinedInv, BookRequestInv,
     InsertBookingInv, CommitInv, RollbackInv DEF Step, Refuse
<1>4. ASSUME NEW t \in Transactions, DeadlockVictim(t) \/ Abort(t) PROVE MarketInv'
  BY <1>4, RollbackInv DEF DeadlockVictim, Abort
<1>5. ASSUME NEW p \in Providers, SetAvailability(p) PROVE MarketInv'
  BY <1>5, SetAvailabilityInv
<1>6. ASSUME NEW r \in Requests, EndBooking(r) PROVE MarketInv'
  BY <1>6, EndBookingInv
<1> QED BY <1>1, <1>2, <1>3, <1>4, <1>5, <1>6 DEF Next

\* The invariant holds for any number of transactions, requests and providers.
THEOREM MarketInvariance == Spec => []MarketInv
BY MarketInitInv, MarketNextInv, PTL DEF Spec

\* Every variable keeps its type, the drafts of open transactions included.
THEOREM MarketTypeCorrect == Spec => []MarketTypeOK
<1>1. MarketInv => MarketTypeOK
  BY DEF MarketInv
<1> QED BY <1>1, MarketInvariance, PTL

\* However many acceptances and proposals race, a request is booked exactly when
\* it has one booking, and the booking is that of its one accepted proposal.
THEOREM BookedByOneAcceptanceHolds == Spec => []BookedByOneAcceptance
<1>1. MarketInv => BookedByOneAcceptance
  BY DEF MarketInv
<1> QED BY <1>1, MarketInvariance, PTL

\* The profile lock and the count after it keep every provider within its limit.
THEOREM ProposalLimitIsKept == Spec => []ProposalLimitHolds
<1>1. MarketInv => ProposalLimitHolds
  BY DEF MarketInv
<1> QED BY <1>1, MarketInvariance, PTL

\* COMMIT takes a request forward only.
LEMMA CommitMovesOn ==
  ASSUME MarketInv, NEW t \in Transactions, Commit(t), NEW r \in Requests
  PROVE  /\ requests[r] # "open" => requests'[r] # "open"
         /\ requests[r] \notin Takes => requests'[r] \notin Takes
<1>1. CASE r # Request(t) \/ draft[t].status = None
  BY <1>1, CommitEffect
<1>2. CASE r = Request(t) /\ draft[t].status # None
  <2>1. requests'[r] = draft[t].status
    BY <1>2, CommitEffect
  <2>2. CASE Proposing(t)
    BY <1>2, <2>1, <2>2 DEF MarketInv, Transaction, ProposerDraft, Takes
  <2>3. CASE Accepting(t)
    BY <2>1, <2>3 DEF MarketInv, Transaction, AccepterDraft, Commit, Takes
  <2> QED BY <2>2, <2>3 DEF Proposing, Accepting, Commit
<1> QED BY <1>1, <1>2

\* Decisions are final in every step, whatever waits on whatever lock: an answered
\* proposal keeps its answer and a request never goes back.
THEOREM DecisionsAreFinalHolds == Spec => DecisionsAreFinal
<1> DEFINE Final == \A r \in Requests :
      /\ \A p \in Providers : (proposals[r][p] # None /\ proposals[r][p].status # "sent")
           => proposals'[r][p].status = proposals[r][p].status
      /\ requests[r] # "open" => requests'[r] # "open"
      /\ requests[r] \notin Takes => requests'[r] \notin Takes
<1>1. ASSUME MarketInv, [Next]_vars PROVE [Final]_vars
  <2>1. CASE UNCHANGED <<requests, proposals>>
    BY <2>1
  <2>2. ASSUME NEW t \in Transactions, Commit(t) PROVE Final
    BY <1>1, <2>2, CommitDecides, CommitMovesOn
  <2>3. ASSUME NEW r \in Requests, EndBooking(r) PROVE Final
    BY <1>1, <2>3 DEF MarketInv, MarketTypeOK, EndBooking, Takes
  <2>4. CASE UNCHANGED vars
    BY <2>1, <2>4 DEF vars
  <2>5. ASSUME NEW t \in Transactions, ~Commit(t),
               Step(t) \/ DeadlockVictim(t) \/ Abort(t)
        PROVE  UNCHANGED <<requests, proposals>>
    BY <2>5 DEF Step, TriggerReadsRequest, TriggerChecksCapacity, Upsert, MoveRequest, CheckSlot,
       AcceptRow, ScanOthers, DeclineRow, Declined, BookRequest, InsertBooking, Refuse,
       DeadlockVictim, Abort, Rollback, committed
  <2>6. ASSUME NEW t \in Transactions, NEW r \in Requests, NEW p \in Providers,
               AcceptProposal(t, r, p) \/ \E a \in Amounts : CreateProposal(t, r, p, a)
        PROVE  UNCHANGED <<requests, proposals>>
    BY <2>6 DEF AcceptProposal, CreateProposal, committed
  <2>7. ASSUME NEW p \in Providers, SetAvailability(p)
        PROVE  UNCHANGED <<requests, proposals>>
    BY <2>7 DEF SetAvailability
  <2> HIDE DEF Final
  <2> QED BY <1>1, <2>1, <2>2, <2>3, <2>4, <2>5, <2>6, <2>7 DEF Next
<1> QED BY <1>1, MarketInvariance, PTL DEF Spec, DecisionsAreFinal
=============================================================================
