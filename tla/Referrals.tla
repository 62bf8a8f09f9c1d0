----------------------------- MODULE Referrals -----------------------------
(***************************************************************************)
(* Referrals of the partner networks: invite and the public capture        *)
(* (api/partners/partners.service.ts), which assess the risk of what they  *)
(* have just inserted, and the triage of the operation                     *)
(* (reviewReferralRisk, changeReferralStatus in operations.service.ts).    *)
(***************************************************************************)
EXTENDS Naturals, FiniteSets

CONSTANTS ReferralCalls,
          Contacts,      \* pairs of a partner and an e-mail
          Triaged,       \* those whose triage the model follows, which do not interact
          Canonical(_),  \* an e-mail without case and without "+alias"
          OwnEmail(_),   \* the e-mail of a partner, canonical
          CaptureLimit,  \* 8 captures of a link in 15 minutes in the source
          NoReferral, NoVisit

ASSUME ReferralAssumption ==
  CaptureLimit \in Nat \ {0} /\ IsFiniteSet(ReferralCalls) /\ Triaged \subseteq Contacts

VARIABLES referral, \* committed partner_referrals, with assessment and review
          recent,   \* captures committed within the last 15 minutes
          known,    \* another network had the contact when its capture began
          visit     \* what each request is doing

referralVars == <<referral, recent, known, visit>>

RiskLevels == {"low", "flagged"}
Final == {"approved", "rejected"}
Referral == [status : {"invited", "in_review"} \cup Final, risk : RiskLevels,
             review : {"none", "cleared", "confirmed"}]
CaptureSteps == {"insert"} \cup RiskLevels
Visits == [of : Contacts, public : BOOLEAN, before : BOOLEAN, step : CaptureSteps]
          \cup [of : Contacts, to : {"in_review", "cleared", "confirmed"} \cup Final,
                review : {"none", "cleared", "confirmed"}, step : {"wait", "locked"}]

ASSUME NoReferralAssumption == NoReferral \notin Referral /\ NoVisit \notin Visits

ReferralsTypeOK ==
  /\ referral \in [Contacts -> Referral \cup {NoReferral}]
  /\ recent \subseteq Contacts
  /\ known \in [Contacts -> BOOLEAN]
  /\ visit \in [ReferralCalls -> Visits \cup {NoVisit}]

ReferralsInit ==
  /\ referral = [k \in Contacts |-> NoReferral]
  /\ recent = {} /\ known = [k \in Contacts |-> FALSE]
  /\ visit = [c \in ReferralCalls |-> NoVisit]

Committed == {k \in Contacts : referral[k] # NoReferral}
StepIs(c, step) == visit[c] # NoVisit /\ visit[c].step = step
Go(c, step) == visit' = [visit EXCEPT ![c].step = step]
Leave(c) == visit' = [visit EXCEPT ![c] = NoVisit]

\* Requests whose transaction has inserted, or locked, a referral.
Holds(c, k) ==
  visit[c] # NoVisit /\ visit[c].of = k
  /\ visit[c].step \in RiskLevels \cup {"locked"}
HeldByOther(c, k) == \E d \in ReferralCalls \ {c} : Holds(d, k)

-----------------------------------------------------------------------------
(* Capture by a partner (invite) or by the public page (capturePublic) *)

\* A contact of another network with an equivalent address.
InOtherNetwork(k) == \E l \in Committed : l[1] # k[1] /\ Canonical(l[2]) = Canonical(k[2])

Captured(k) == {l \in recent : l[1] = k[1]}

\* Mutant: the limit is compared with the captures of this contact only.
MayCaptureAlone(k) ==
  referral[k] = NoReferral /\ Cardinality(Captured(k) \cap {k}) < CaptureLimit

\* The public page looks for the contact and counts the captures of the link.
MayCapture(k) == referral[k] = NoReferral /\ Cardinality(Captured(k)) < CaptureLimit

StartCapture(c, k, public) ==
  /\ visit[c] = NoVisit
  /\ public => MayCapture(k)
  /\ visit' = [visit EXCEPT ![c] =
       [of |-> k, public |-> public, before |-> InOtherNetwork(k), step |-> "insert"]]
  /\ UNCHANGED <<referral, recent, known>>

\* Mutant: e-mails are compared as they were typed.
RaisesSignalTyped(k) ==
  OwnEmail(k[1]) = Canonical(k[2]) \/ \E l \in Committed : l[1] # k[1] /\ l[2] = k[2]

\* partner_referral_risk_context and evaluateReferralRisk; the volume of a day is
\* left out.
RaisesSignal(k) == OwnEmail(k[1]) = Canonical(k[2]) \/ InOtherNetwork(k)

\* ON CONFLICT DO NOTHING waits for who is inserting the same contact; the risk of
\* what was inserted is assessed from what is committed at this moment.
InsertReferral(c) ==
  /\ StepIs(c, "insert") /\ ~HeldByOther(c, visit[c].of)
  /\ IF referral[visit[c].of] # NoReferral THEN Leave(c)
     ELSE Go(c, IF RaisesSignal(visit[c].of) THEN "flagged" ELSE "low")
  /\ UNCHANGED <<referral, recent, known>>

CommitCapture(c) ==
  /\ visit[c] # NoVisit /\ visit[c].step \in RiskLevels
  /\ referral' = [referral EXCEPT ![visit[c].of] =
       [status |-> "invited", risk |-> visit[c].step, review |-> "none"]]
  /\ recent' = IF visit[c].public THEN recent \cup {visit[c].of} ELSE recent
  /\ known' = [known EXCEPT ![visit[c].of] = visit[c].before]
  /\ Leave(c)

\* Fifteen minutes pass, in which every open request ends.
WindowPasses ==
  /\ recent # {} /\ \A c \in ReferralCalls : visit[c] = NoVisit
  /\ recent' = {}
  /\ UNCHANGED <<referral, known, visit>>

-----------------------------------------------------------------------------
(* Triage by the operation *)

\* The statement starts: the review it joins is the one committed now.
StartTriage(c, k, to) ==
  /\ visit[c] = NoVisit /\ k \in Triaged /\ referral[k] # NoReferral
  /\ visit' = [visit EXCEPT ![c] =
       [of |-> k, to |-> to, review |-> referral[k].review, step |-> "wait"]]
  /\ UNCHANGED <<referral, recent, known>>

\* FOR UPDATE OF referral: the status is the one committed when the lock is free.
LockReferral(c) ==
  /\ StepIs(c, "wait") /\ ~HeldByOther(c, visit[c].of)
  /\ Go(c, "locked")
  /\ UNCHANGED <<referral, recent, known>>

\* Mutant: assessment_id is not unique and a second review replaces the first.
ReviewAgain(c) ==
  LET k == visit[c].of
  IN /\ StepIs(c, "locked") /\ visit[c].to \in {"cleared", "confirmed"}
     /\ referral[k].risk # "low" /\ referral[k].status \notin Final
     /\ referral' = [referral EXCEPT ![k].review = visit[c].to]
     /\ Leave(c)
     /\ UNCHANGED <<recent, known>>

\* The review joined may be older than the lock: the unique constraint decides.
ReviewReferralRisk(c) ==
  LET k == visit[c].of
  IN /\ StepIs(c, "locked") /\ visit[c].to \in {"cleared", "confirmed"}
     /\ referral[k].risk # "low" /\ referral[k].status \notin Final
     /\ visit[c].review = "none" /\ referral[k].review = "none"
     /\ referral' = [referral EXCEPT ![k].review = visit[c].to]
     /\ Leave(c)
     /\ UNCHANGED <<recent, known>>

ChangeReferralStatus(c) ==
  LET k == visit[c].of
      to == visit[c].to
  IN /\ StepIs(c, "locked") /\ to \in {"in_review"} \cup Final
     /\ referral[k].status = IF to = "in_review" THEN "invited" ELSE "in_review"
     /\ to \in Final /\ referral[k].risk # "low" => visit[c].review # "none"
     /\ to = "approved" => visit[c].review # "confirmed"
     /\ referral' = [referral EXCEPT ![k].status = to]
     /\ Leave(c)
     /\ UNCHANGED <<recent, known>>

\* A check fails, or the transaction does.
RefuseVisit(c) ==
  /\ visit[c] # NoVisit /\ Leave(c)
  /\ UNCHANGED <<referral, recent, known>>

ReferralsNext ==
  \/ WindowPasses
  \/ \E c \in ReferralCalls :
       \/ \E k \in Contacts : \/ \E public \in BOOLEAN : StartCapture(c, k, public)
                              \/ \E to \in {"in_review", "cleared", "confirmed"} \cup Final :
                                   StartTriage(c, k, to)
       \/ InsertReferral(c) \/ CommitCapture(c)
       \/ LockReferral(c) \/ ReviewReferralRisk(c) \/ ChangeReferralStatus(c) \/ RefuseVisit(c)

-----------------------------------------------------------------------------
(* Properties *)

\* An approved referral that raised a signal has been cleared by its one review,
\* although approving reads the review before it waits for the row.
ApprovedWasCleared == \A k \in Committed :
  referral[k].status = "approved" /\ referral[k].risk = "flagged"
    => referral[k].review = "cleared"

\* A contact that another network had committed under an equivalent address before
\* the capture began is flagged; only captures that overlap may miss each other.
DuplicatesAreFlagged == \A k \in Committed : known[k] => referral[k].risk = "flagged"

\* The captures of a link in its window exceed the limit by no more than the
\* requests that can have counted at once.
CapturesNearLimit == \A k \in Contacts :
  Cardinality(Captured(k)) <= CaptureLimit + Cardinality(ReferralCalls) - 1

\* Nobody is approved unseen: duplicates raise the signal, and a signal is reviewed.
RisksAreReviewed == DuplicatesAreFlagged /\ ApprovedWasCleared
=============================================================================
