--------------------------- MODULE PageMutations ---------------------------
(***************************************************************************)
(* How a page of app/demo/demo-experience.tsx sends its mutations: which   *)
(* Idempotency-Key a click gets, when the page forgets it, and the server, *)
(* which executes a key once and replays it afterwards (Idempotency.tla).  *)
(* The handlers of the pages share this protocol; each is described by     *)
(* the record of what it does its own way, and a behaviour follows one.    *)
(***************************************************************************)
EXTENDS Naturals, Sequences, FiniteSets

CONSTANTS Contents,  \* what the user may ask for on the page
          MaxMinted, \* bounds of the model: keys minted,
          MaxWire,   \* requests under way
          NoRequest

VARIABLES page,      \* the record of the page
          pending,   \* its keys: [print, key]
          minted,    \* keys minted so far, from 1; those after `mountedAt` are
          mountedAt, \* of the page as it is mounted now
          awaiting,  \* the request whose answer the page awaits
          wire,      \* requests that the server has not handled
          ledger,    \* those it has executed, in the order of their commits
          loaded,    \* the version of the record that the page has loaded
          announced, \* the keys whose success the page announced
          conflicted \* the server refused a key for its content

pageMutationVars ==
  <<page, pending, minted, mountedAt, awaiting, wire, ledger, loaded, announced, conflicted>>

-----------------------------------------------------------------------------
(* The pages.  keys: one for the "dialog", one "slot" for the last attempt, *)
(* a "map" by fingerprint, or "none"; versioned: the fingerprint has the    *)
(* expectedVersion; closes: a success unmounts the component; forgets: a    *)
(* success drops the key.                                                   *)

Page(keys, versioned, closes, forgets) ==
  [keys |-> keys, versioned |-> versioned, closes |-> closes, forgets |-> forgets]

finish == Page("dialog", FALSE, FALSE, FALSE)
photoUploads == Page("map", FALSE, FALSE, FALSE)
submitProposal == Page("dialog", FALSE, TRUE, FALSE)
acceptProposal == Page("map", FALSE, FALSE, FALSE)

sendText == Page("slot", FALSE, FALSE, TRUE)
createAd == Page("slot", FALSE, TRUE, TRUE)
openCase == Page("slot", FALSE, TRUE, TRUE)
openDispute == Page("slot", FALSE, TRUE, TRUE)

changeReportStatus == Page("map", TRUE, FALSE, TRUE)
simulateDelivery == Page("map", TRUE, FALSE, TRUE)
saveGate == Page("map", TRUE, FALSE, TRUE)
decidePrivacy == Page("map", TRUE, FALSE, TRUE)

createReport == Page("map", FALSE, TRUE, TRUE)
saveGoals == Page("map", FALSE, TRUE, TRUE)
actOnRegion == Page("map", FALSE, TRUE, TRUE)
actOnCategory == Page("map", FALSE, TRUE, TRUE)
moderateAd == Page("map", FALSE, TRUE, TRUE)
createCoupon == Page("map", FALSE, TRUE, TRUE)
changeCoupon == Page("map", FALSE, TRUE, TRUE)

uploadDocument == Page("map", FALSE, FALSE, TRUE)
decideReferral == Page("map", FALSE, FALSE, TRUE)
reviewRisk == Page("map", FALSE, FALSE, TRUE)
reviewVerification == Page("map", FALSE, FALSE, TRUE)
annotateCase == Page("map", FALSE, FALSE, TRUE)
saveWeekly == Page("map", FALSE, FALSE, TRUE)
createBlock == Page("map", FALSE, FALSE, TRUE)
cancelBlock == Page("map", FALSE, FALSE, TRUE)
transitionBooking == Page("map", FALSE, FALSE, TRUE)
submitReview == Page("map", FALSE, FALSE, TRUE)
submitCancellation == Page("map", FALSE, FALSE, TRUE)
sendCaseMessage == Page("map", FALSE, FALSE, TRUE)
transitionCase == Page("map", FALSE, FALSE, TRUE)
triageCase == Page("map", FALSE, FALSE, TRUE)
decideDispute == Page("map", FALSE, FALSE, TRUE)
askForPrivacy == Page("map", FALSE, FALSE, TRUE)
exportPackage == Page("map", FALSE, FALSE, TRUE)

saveMatching == Page("none", FALSE, FALSE, TRUE)
completeProfile == Page("none", FALSE, TRUE, TRUE)
savePreferences == Page("none", FALSE, FALSE, TRUE)
inviteReferral == Page("none", FALSE, TRUE, TRUE)

Pages ==
  {finish, photoUploads, submitProposal, acceptProposal, sendText, createAd, openCase,
   openDispute, changeReportStatus, simulateDelivery, saveGate, decidePrivacy, createReport,
   saveGoals, actOnRegion, actOnCategory, moderateAd, createCoupon, changeCoupon,
   uploadDocument, decideReferral, reviewRisk, reviewVerification, annotateCase, saveWeekly,
   createBlock, cancelBlock, transitionBooking, submitReview, submitCancellation,
   sendCaseMessage, transitionCase, triageCase, decideDispute, askForPrivacy, exportPackage,
   saveMatching, completeProfile, savePreferences, inviteReferral}

-----------------------------------------------------------------------------
Version == Len(ledger)
Prints == Contents \X Nat
Requests == [print : Prints, key : Nat \ {0}]

PageMutationsTypeOK ==
  /\ page \in Pages /\ pending \subseteq Requests /\ wire \subseteq Requests
  /\ minted \in Nat /\ mountedAt \in 0..minted /\ loaded \in 0..Version
  /\ awaiting \in [of : Requests, answer : {"none", "success", "refusal"}] \cup {NoRequest}
  /\ ledger \in Seq(Requests) /\ announced \in Seq(1..minted)
  /\ conflicted \in BOOLEAN

PageMutationsInit ==
  /\ page \in Pages
  /\ pending = {} /\ minted = 0 /\ mountedAt = 0 /\ awaiting = NoRequest
  /\ wire = {} /\ ledger = <<>> /\ loaded = 0 /\ announced = <<>> /\ conflicted = FALSE

\* Mutant: a map looked up by what is asked, whatever the fingerprint.
CurrentOfAny(print) == {p \in pending : p.print[1] = print[1] \/ page.keys # "none"}

\* The key the page holds for a fingerprint; the key of a dialog is for all.
CurrentFor(print) ==
  CASE page.keys = "dialog" -> pending
    [] page.keys = "none" -> {}
    [] OTHER -> {p \in pending : p.print = print}

\* Mutant: a page with one slot keeps the keys of its earlier attempts.
RememberAll(request) == pending \cup {request}

Remember(request) ==
  CASE page.keys = "slot" -> {request}
    [] page.keys = "dialog" /\ pending # {} -> pending
    [] OTHER -> pending \cup {request}

\* Mutant: a refused or lost request drops its key too.
KeptAfterFailure == {p \in pending : p.key # awaiting.of.key}

\* After the failure of a request every key is kept for the next attempt.
Kept == pending

Serving(r, answer) ==
  /\ wire' = wire \ {r}
  /\ awaiting' = IF awaiting # NoRequest /\ awaiting.of = r
                 THEN [awaiting EXCEPT !.answer = answer] ELSE awaiting

-----------------------------------------------------------------------------
\* A click; the button stays disabled until the request of the last one has ended.
Click(content) ==
  LET print == <<content, IF page.versioned THEN loaded ELSE 0>>
      held == CurrentFor(print)
      key == IF held = {} THEN minted + 1 ELSE (CHOOSE p \in held : TRUE).key
      request == [print |-> print, key |-> key]
  IN /\ awaiting = NoRequest /\ Cardinality(wire) < MaxWire /\ key <= MaxMinted
     /\ minted' = IF held = {} THEN key ELSE minted
     /\ pending' = Remember(request)
     /\ awaiting' = [of |-> request, answer |-> "none"]
     /\ wire' = wire \cup {request}
     /\ UNCHANGED <<page, mountedAt, ledger, loaded, announced, conflicted>>

\* The server executes a key it does not know, if its version is the current one.
ExecuteMutation(r) ==
  /\ r \in wire
  /\ \A i \in 1..Len(ledger) : ledger[i].key # r.key
  /\ page.versioned => r.print[2] = Version
  /\ ledger' = Append(ledger, r)
  /\ Serving(r, "success")
  /\ UNCHANGED <<page, pending, minted, mountedAt, loaded, announced, conflicted>>

\* It replays a key it knows, and refuses it for another content.
AnswerKnownKey(r) ==
  /\ r \in wire
  /\ \E i \in 1..Len(ledger) :
       /\ ledger[i].key = r.key
       /\ Serving(r, IF ledger[i].print = r.print THEN "success" ELSE "refusal")
       /\ conflicted' = (conflicted \/ ledger[i].print # r.print)
  /\ UNCHANGED <<page, pending, minted, mountedAt, ledger, loaded, announced>>

\* The request is refused for another reason, its transaction fails, or it is lost.
LoseMutation(r) ==
  /\ r \in wire
  /\ Serving(r, "refusal")
  /\ UNCHANGED <<page, pending, minted, mountedAt, ledger, loaded, announced, conflicted>>

\* Unmounting drops the keys.  The requests go on: an answer that comes later still shows
\* its notice and calls onSaved and onClose, but no form is left to send it again, and
\* the promises are about what was announced while a form is open: it is not followed.
Unmounted ==
  /\ pending' = {} /\ announced' = <<>> /\ mountedAt' = minted /\ loaded' = Version

Announce ==
  /\ awaiting # NoRequest /\ awaiting.answer = "success"
  /\ awaiting' = NoRequest
  /\ IF page.closes THEN Unmounted
     ELSE /\ announced' = Append(announced, awaiting.of.key)
          /\ pending' = IF page.forgets THEN {p \in pending : p.print # awaiting.of.print}
                        ELSE pending
          /\ UNCHANGED <<mountedAt, loaded>>
  /\ Len(announced') <= MaxMinted
  /\ UNCHANGED <<page, minted, wire, ledger, conflicted>>

\* The answer is an error, or the connection fails whatever the server did or will do.
ReportFailure ==
  /\ awaiting # NoRequest
  /\ awaiting' = NoRequest /\ pending' = Kept
  /\ UNCHANGED <<page, minted, mountedAt, wire, ledger, loaded, announced, conflicted>>

\* The page fetches the record again: after a success, or by its button.
Reload ==
  /\ awaiting = NoRequest /\ loaded # Version
  /\ loaded' = Version
  /\ UNCHANGED <<page, pending, minted, mountedAt, awaiting, wire, ledger, announced, conflicted>>

LeavePage ==
  /\ Unmounted /\ awaiting' = NoRequest
  /\ UNCHANGED <<page, minted, wire, ledger, conflicted>>

PageMutationsNext ==
  \/ \E content \in Contents : Click(content)
  \/ \E r \in wire : ExecuteMutation(r) \/ AnswerKnownKey(r) \/ LoseMutation(r)
  \/ Announce \/ ReportFailure \/ Reload \/ LeavePage

-----------------------------------------------------------------------------
(* Properties *)

Mounted(i) == ledger[i].key > mountedAt
PlaceOf(key) == CHOOSE i \in 1..Len(ledger) : ledger[i].key = key
Unseen(print) == {i \in 1..Len(ledger) :
  Mounted(i) /\ ledger[i].print = print /\ \A j \in 1..Len(announced) : announced[j] # ledger[i].key}

\* While its page stays open, what the user asks for is executed at most once before
\* the page announces it, however many clicks repeat it after answers were lost or
\* came too late.  A slot promises it for the attempt that follows directly, which
\* the pages with one slot are left out for; pages that send no key promise nothing.
ExecutedOnceUntilSeen == page.keys \in {"map", "dialog"} =>
  \A i \in 1..Len(ledger) : Cardinality(Unseen(ledger[i].print)) <= 1

\* A page that keeps a key for each fingerprint, or for the last, never meets the
\* conflict of a key used with another content.
KeysCarryOneContent == page.keys # "dialog" => ~conflicted

\* The success a page announces last is the last that took effect of those it
\* announced, where the fingerprint has the version or the page holds one key.
AnnouncedInOrder == page.versioned \/ page.keys # "map" =>
  \A i, j \in 1..Len(announced) : i < j => PlaceOf(announced[i]) <= PlaceOf(announced[j])

\* A page and its keys agree on what the user asked for: once, under one content, and
\* announced in the order it happened.
KeysServeTheUser == ExecutedOnceUntilSeen /\ KeysCarryOneContent /\ AnnouncedInOrder
=============================================================================
