----------------------------- MODULE PageReads ------------------------------
(***************************************************************************)
(* How the panels of the page read the API (app/demo/demo-experience.tsx). *)
(* A panel reads when it is mounted, when what it is about changes, when   *)
(* its user asks, when an action of its user was answered and, some of     *)
(* them, every fifteen seconds; others show what the answer to the action  *)
(* holds.  Answers come late, in any order or not at all, while others     *)
(* change what is read.  Most panels abort the read they replace; none     *)
(* holds back an answer to an action.  Panels are independent: a behaviour *)
(* follows one.                                                            *)
(***************************************************************************)
EXTENDS Naturals, FiniteSets

CONSTANTS Subjects,  \* what a panel can be about: a period, a proposal, a role
          MaxStates, \* bound of the model: changes of what is read
          NoData

ASSUME StatesAssumption == MaxStates \in Nat \ {0}

MaxReads == 2 \* bound of the model: reads of a panel at once

VARIABLES panel,   \* which panel it is
          subject, \* what it is about now
          data,    \* what it shows
          reads,   \* its reads in progress
          current, \* versions of what each request reads, on the server
          writing, \* the actions of its user not answered, and what each made
          told,    \* version its user knows to have made
          failed,  \* the last read gave nothing
          crossed  \* history: since the last read that was begun alone, there were
                   \* answers on their way together that may come in any order

readVars == <<panel, subject, data, reads, current, writing, told, failed, crossed>>

\* keyed: about one of several subjects; polls; parts: requests of one read; clears: when
\* it shows nothing, "failing" or "asking" again.  A new read "aborts" the one in
\* progress, "skips" itself when there is one, or "keeps" both.  refresh: a button reads
\* again, always or to "retry" when nothing could be shown.  answers: what an action of
\* the user ends in, its answer "shown" or a "reread".  single: one action at a time.
Panel(keyed, polls, parts, clears, rereads, refresh, answers, single) ==
  [keyed |-> keyed, polls |-> polls, parts |-> parts, clears |-> clears, rereads |-> rereads,
   refresh |-> refresh, answers |-> answers, single |-> single]
ReadOnce == Panel(FALSE, FALSE, 1, {}, "aborts", "none", {}, FALSE)
ReadOnly == Panel(FALSE, FALSE, 1, {}, "aborts", "button", {}, FALSE)
Plain == Panel(FALSE, FALSE, 1, {}, "aborts", "button", {"reread"}, FALSE)
Keyed == Panel(TRUE, FALSE, 1, {}, "aborts", "button", {"reread"}, FALSE)
Dialog == Panel(TRUE, FALSE, 1, {}, "aborts", "none", {"reread"}, FALSE)
Form == Panel(FALSE, FALSE, 1, {}, "aborts", "retry", {"shown"}, TRUE)

unreadBadge == Panel(TRUE, TRUE, 1, {}, "skips", "none", {"reread"}, FALSE)
notificationCenter == Panel(FALSE, TRUE, 1, {}, "aborts", "none", {"reread"}, FALSE)
serviceCategories == ReadOnce
serviceRegions == ReadOnce
contextualAd == Panel(TRUE, FALSE, 1, {"failing"}, "aborts", "none", {}, FALSE)
providerMatching == Form
opportunities == Plain
providerVerification == Panel(FALSE, FALSE, 1, {}, "aborts", "button", {"shown"}, FALSE)
partnerDashboard == Plain
operationReports == Keyed
reportDeliveries == Panel(FALSE, FALSE, 1, {}, "aborts", "none", {"reread"}, FALSE)
advertiserCampaigns == Plain
operationQueues == Panel(FALSE, FALSE, 3, {}, "aborts", "button", {"reread"}, FALSE)
referralDialog == Dialog
verificationDialog == Panel(TRUE, FALSE, 1, {}, "aborts", "none", {"shown"}, FALSE)
caseDialog == Dialog
providerSchedule == Panel(FALSE, FALSE, 1, {}, "aborts", "retry", {"shown", "reread"}, FALSE)
bookingActivity == Panel(FALSE, FALSE, 2, {}, "aborts", "button", {"reread"}, FALSE)
operationActivity == ReadOnly
bookingDetail == Panel(TRUE, FALSE, 1, {}, "keeps", "none", {"reread"}, FALSE)
proposalComparison == bookingDetail
proposalSlots == Panel(TRUE, FALSE, 1, {"failing", "asking"}, "keeps", "button", {}, FALSE)
supportCases == Plain
supportDetail == Keyed
matchingOperations == ReadOnly
regionManagement == Plain
catalogManagement == Plain
advertisingModeration == Plain
campaignManagement == Plain
onboardingPanel == Panel(FALSE, FALSE, 1, {}, "aborts", "retry", {"shown"}, FALSE)
notificationPreferences == Form
systemHealth == ReadOnly
operationReadiness == Form
privacyCenter == Plain
operationPrivacy == Plain
financialSandbox == Plain

ReadingPanels ==
  {unreadBadge, notificationCenter, serviceCategories, serviceRegions, contextualAd,
   providerMatching, opportunities, providerVerification, partnerDashboard,
   operationReports, reportDeliveries, advertiserCampaigns, operationQueues,
   referralDialog, verificationDialog, caseDialog, providerSchedule, bookingActivity,
   operationActivity, bookingDetail, proposalComparison, proposalSlots, supportCases,
   supportDetail, matchingOperations, regionManagement, catalogManagement,
   advertisingModeration, campaignManagement, onboardingPanel, notificationPreferences,
   systemHealth, operationReadiness, privacyCenter, operationPrivacy, financialSandbox}

Views == [subject : Subjects, place : 1..MaxReads, seen : UNION {[1..n -> 0..MaxStates] : n \in 1..3}]
Actions == [subject : Subjects, made : 1..MaxStates]

PageReadsTypeOK ==
  /\ panel \in ReadingPanels /\ subject \in Subjects /\ data \in Views \cup {NoData}
  /\ reads \subseteq Views /\ \A r, q \in reads : r.place = q.place => r = q
  /\ current \in 1..MaxStates /\ told \in 0..MaxStates /\ writing \subseteq Actions
  /\ failed \in BOOLEAN /\ crossed \in BOOLEAN

\* Nothing is answered yet: a part answered holds the version it read.  Reads in
\* progress together are told apart by their place.
NewRead(s, place) == [subject |-> s, place |-> place, seen |-> [i \in 1..panel.parts |-> 0]]
ViewOf(s, version) == [subject |-> s, place |-> 1, seen |-> [i \in 1..panel.parts |-> version]]

PageReadsInit ==
  /\ panel \in ReadingPanels /\ subject \in Subjects
  /\ data = NoData /\ reads = {NewRead(subject, 1)}
  /\ current = 1 /\ writing = {} /\ told = 0 /\ failed = FALSE /\ crossed = FALSE

\* Answers may overtake each other where a read is kept beside another, and where the
\* answer to an action is shown whatever is being read.
Unordered == panel.rereads = "keeps" \/ "shown" \in panel.answers

FreePlaces == {place \in 1..MaxReads : \A r \in reads : r.place # place}

\* Mutant: the effect does not abort the read it replaces.
AfterRereadingAll(s) == {reads \cup {NewRead(s, place)} : place \in FreePlaces}

\* What may be in progress once a read has begun.
AfterRereading(s) ==
  IF panel.rereads = "keeps" THEN {reads \cup {NewRead(s, place)} : place \in FreePlaces}
  ELSE {{NewRead(s, 1)}}

\* The panel reads, beside the actions still to be answered and the reads it keeps.
Rereads(s) ==
  /\ reads' \in AfterRereading(s) /\ failed' = FALSE
  /\ crossed' = (Unordered /\ \/ writing' # {}
                              \/ panel.rereads = "keeps" /\ (reads # {} \/ s # subject'))

-----------------------------------------------------------------------------
Asks(s) ==
  /\ subject' = s /\ UNCHANGED <<panel, current, writing, told>>
  /\ Rereads(s) /\ data' = IF "asking" \in panel.clears THEN NoData ELSE data

\* Another period, case, proposal or role is chosen: a dialog may be opened on another
\* row while the action of the one before is not answered.
Choose(s) == panel.keyed /\ s # subject /\ Asks(s)

\* "Atualizar", "Tentar novamente", or the slots of the same proposal again.
Refresh ==
  /\ panel.refresh = "button" \/ (panel.refresh = "retry" /\ data = NoData)
  /\ Asks(subject)

\* The interval and the page becoming visible, unless a read is in progress.
Poll == panel.polls /\ reads = {} /\ Asks(subject)

\* The API answers one of the requests of a read.
AnswerPart(read, i) ==
  /\ read.seen[i] = 0
  /\ reads' = (reads \ {read}) \cup {[read EXCEPT !.seen[i] = current]}
  /\ UNCHANGED <<panel, subject, data, current, writing, told, failed, crossed>>

ShowRead(read) ==
  /\ \A i \in DOMAIN read.seen : read.seen[i] # 0
  /\ data' = [read EXCEPT !.place = 1] /\ reads' = reads \ {read} /\ failed' = FALSE
  /\ UNCHANGED <<panel, subject, current, writing, told, crossed>>

\* The panel keeps what it shows, or clears it.  Most tell the user; the badge and the
\* notification center do not, nor do they read at all while the page is hidden.
ReadFails(read) ==
  /\ reads' = reads \ {read} /\ failed' = TRUE
  /\ data' = IF "failing" \in panel.clears THEN NoData ELSE data
  /\ UNCHANGED <<panel, subject, current, writing, told, crossed>>

OthersWrite ==
  /\ current < MaxStates /\ current' = current + 1
  /\ UNCHANGED <<panel, subject, data, reads, writing, told, failed, crossed>>

\* An action of the user is committed, and answered later: it waits for no read and,
\* but in the panels that disable all their buttons, for no other action.  One whose
\* answer was lost may be sent again under its key, to be answered the same.
UserWrites ==
  /\ panel.answers # {} /\ data # NoData /\ current < MaxStates
  /\ panel.single => writing = {}
  /\ current' = current + 1
  /\ writing' = writing \cup {[subject |-> subject, made |-> current + 1]}
  /\ crossed' = (crossed \/ (Unordered /\ (reads # {} \/ writing # {})))
  /\ UNCHANGED <<panel, subject, data, reads, told, failed>>

Tells(w) ==
  /\ told' = (IF w.made > told THEN w.made ELSE told) /\ writing' = writing \ {w}
  /\ UNCHANGED <<panel, subject, current>>

\* Mutant: the answer is shown as a notice only.
WriteAnsweredUnread(w) == Tells(w) /\ UNCHANGED <<data, reads, failed, crossed>>

\* The panel reads again; a dialog that keeps its reads, the row it acted on.
WriteAnswered(w) ==
  /\ "reread" \in panel.answers /\ Tells(w)
  /\ IF panel.rereads = "skips" /\ reads # {} THEN UNCHANGED <<reads, failed, crossed>>
     ELSE Rereads(IF panel.rereads = "keeps" THEN w.subject ELSE subject)
  /\ UNCHANGED data

\* The answer is what the panel shows from now on; no read is aborted for it.
WriteShown(w) ==
  /\ "shown" \in panel.answers /\ Tells(w)
  /\ \E version \in w.made..current : data' = ViewOf(w.subject, version)
  /\ failed' = FALSE /\ UNCHANGED <<reads, crossed>>

\* The answer is lost, and not asked for again: the user is told that it failed.
WriteLost(w) ==
  /\ writing' = writing \ {w}
  /\ UNCHANGED <<panel, subject, data, reads, current, told, failed, crossed>>

\* The panel is left, and opened again: its reads are aborted or ignored.  The answers
\* to its actions are not followed by anything, though their notices still appear.
Remount ==
  /\ data' = NoData /\ reads' = {NewRead(subject, 1)} /\ writing' = {}
  /\ failed' = FALSE /\ crossed' = FALSE
  /\ UNCHANGED <<panel, subject, current, told>>

PageReadsNext ==
  \/ \E s \in Subjects : Choose(s)
  \/ Refresh \/ Remount \/ Poll \/ OthersWrite \/ UserWrites
  \/ \E w \in writing : WriteAnswered(w) \/ WriteShown(w) \/ WriteLost(w)
  \/ \E read \in reads : \/ ShowRead(read) \/ ReadFails(read)
                         \/ \E i \in DOMAIN read.seen : AnswerPart(read, i)

-----------------------------------------------------------------------------
(* Properties *)

\* The panels where answers can cross: the dialogs of a booking and of its proposals,
\* which keep their reads, and those that show the answer to an action while a read,
\* or another action, is in progress.
CrossingPanels ==
  {bookingDetail, proposalComparison, proposalSlots, providerVerification,
   providerSchedule, verificationDialog, onboardingPanel}

\* A panel never goes back to an older state of the same subject, whatever answers
\* late, unless answers that nothing orders were on their way together.
PanelsNeverGoBack == [][
  ~crossed /\ data # NoData /\ data' # NoData /\ data'.subject = data.subject
    => \A i \in DOMAIN data.seen : data'.seen[i] >= data.seen[i]]_readVars

\* Such answers are met by seven panels only, and never by one that aborts its reads and
\* rereads, nor by one that lets its user do one thing at a time.  Else a panel that reads
\* nothing shows its subject, with all its user was told to have done; but the badge,
\* whose count is of its role, waits for the next poll if one was going on.
PanelsShowTheirSubject ==
  /\ crossed => panel \in CrossingPanels
  /\ reads = {} /\ ~failed /\ ~crossed =>
       /\ data.subject = subject
       /\ panel.rereads # "skips" => \A i \in DOMAIN data.seen : data.seen[i] >= told
=============================================================================
