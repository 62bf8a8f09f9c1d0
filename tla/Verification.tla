---------------------------- MODULE Verification ----------------------------
(***************************************************************************)
(* The review of a provider (api/verifications/verifications.service.ts):  *)
(* operators accept or mark the items of a checklist and decide the        *)
(* verification.  Both handlers lock the verification, so a behaviour      *)
(* follows one.  The files of the items are in PrivateUpload.              *)
(***************************************************************************)
EXTENDS Naturals, FiniteSets

CONSTANTS ReviewCalls, \* requests being served
          Items,       \* the document checks of the verification
          NoReview

VARIABLES verdict,    \* status of the verification
          checklist,  \* status of each item
          review      \* what each request is doing

reviewVars == <<verdict, checklist, review>>

Verdicts == {"submitted", "in_review", "approved", "changes_requested"}
ItemStatuses == {"pending", "accepted", "changes_requested"}

\* marks: the item a request reviews and its new status; a decision marks none.
VerificationTypeOK ==
  /\ verdict \in Verdicts /\ checklist \in [Items -> ItemStatuses]
  /\ \A c \in ReviewCalls : review[c] = NoReview \/
       /\ review[c].seen \in Verdicts /\ review[c].at \in {"locked", "counted"}
       /\ review[c].marks \subseteq Items /\ Cardinality(review[c].marks) <= 1
       /\ review[c].to \in (ItemStatuses \cup Verdicts) \ {"pending", "submitted"}

VerificationInit ==
  /\ verdict = "submitted" /\ checklist = [i \in Items |-> "pending"]
  /\ review = [c \in ReviewCalls |-> NoReview]

\* Mutant: the review of an item locks the item alone.
VerificationShared(c) == TRUE

\* FOR UPDATE of the verification, by both handlers.
VerificationFree(c) == \A d \in ReviewCalls \ {c} : review[d] = NoReview

LockFor(c, marks, to) ==
  /\ review[c] = NoReview /\ VerificationFree(c)
  /\ review' = [review EXCEPT ![c] = [marks |-> marks, to |-> to, seen |-> verdict, at |-> "locked"]]
  /\ UNCHANGED <<verdict, checklist>>

-----------------------------------------------------------------------------
\* The table of changeStatus: what a verification may become.
VerdictAllowed(status) ==
  CASE status = "submitted" -> {"in_review"}
    [] status = "in_review" -> {"approved", "changes_requested"}
    [] OTHER -> {}

\* The statement that counts the items has its own snapshot, after the lock.
CountItems(c) ==
  /\ review[c] # NoReview /\ review[c].at = "locked" /\ review[c].marks = {}
  /\ review[c].to \in VerdictAllowed(review[c].seen)
  /\ review[c].to = "approved" => \A i \in Items : checklist[i] = "accepted"
  /\ review[c].to = "changes_requested" => \E i \in Items : checklist[i] = "changes_requested"
  /\ review' = [review EXCEPT ![c].at = "counted"]
  /\ UNCHANGED <<verdict, checklist>>

ChangeVerdict(c) ==
  /\ review[c] # NoReview /\ review[c].at = "counted"
  /\ verdict' = review[c].to
  /\ review' = [review EXCEPT ![c] = NoReview]
  /\ UNCHANGED checklist

ReviewDocument(c) ==
  /\ review[c] # NoReview /\ review[c].at = "locked" /\ review[c].seen = "in_review"
  /\ \E i \in review[c].marks :
       checklist[i] # review[c].to /\ checklist' = [checklist EXCEPT ![i] = review[c].to]
  /\ review' = [review EXCEPT ![c] = NoReview]
  /\ UNCHANGED verdict

DropReview(c) ==
  /\ review[c] # NoReview
  /\ review' = [review EXCEPT ![c] = NoReview]
  /\ UNCHANGED <<verdict, checklist>>

VerificationNext == \E c \in ReviewCalls :
  \/ \E to \in Verdicts \ {"submitted"} : LockFor(c, {}, to)
  \/ \E i \in Items, to \in ItemStatuses \ {"pending"} : LockFor(c, {i}, to)
  \/ CountItems(c) \/ ChangeVerdict(c) \/ ReviewDocument(c) \/ DropReview(c)

-----------------------------------------------------------------------------
(* Properties *)

\* A decision stands on the checklist it was taken from, which nobody changes
\* after it: an approved provider has every item accepted, one that must correct
\* something has the item marked, and an item is only judged in a review.
VerdictMatchesItems ==
  /\ verdict = "submitted" => \A i \in Items : checklist[i] = "pending"
  /\ verdict = "approved" => \A i \in Items : checklist[i] = "accepted"
  /\ verdict = "changes_requested" => \E i \in Items : checklist[i] = "changes_requested"
=============================================================================
