--------------------------- MODULE PartnerSupport ---------------------------
(***************************************************************************)
(* A partner's support case and its formal dispute (api/support/           *)
(* partner-support.service.ts, migrations 0028, 0029, 0030 and 0048).      *)
(* Triage and status changes lock the case FOR UPDATE; a message reads the *)
(* status without a lock and its INSERT takes, by the foreign key, a KEY   *)
(* SHARE of the case.  A behaviour follows one case, which no other        *)
(* touches: what relates them, the limit of five open cases of a partner   *)
(* that create() counts (lines 323-330), is left out, and so are the       *)
(* deadlines.  The object of an attachment is in PrivateUpload.            *)
(***************************************************************************)
EXTENDS Naturals, Sequences

CONSTANTS TicketCalls,     \* requests being served
          MaxTicketEvents, \* bound of the model
          NoErrand

VARIABLES ticket,    \* the committed case
          ticketLog, \* its committed events
          dispute,   \* the statuses its dispute has had; empty when it has none
          errand     \* what each request is doing

ticketVars == <<ticket, ticketLog, dispute, errand>>

TicketKinds == {"open", "partner_message", "operation_message", "triage", "status", "dispute", "decide"}
Messages == {"partner_message", "operation_message"}
Priorities == {"normal", "high"}
Wanted(kind) == CASE kind = "triage" -> Priorities
                  [] kind = "status" -> {"in_review", "resolved"}
                  [] kind = "decide" -> {"in_review", "upheld", "rejected"}
                  [] OTHER -> {"nothing"}

\* due: the priority whose interval gave the first response its due date;
\* answered: the event that was the first response, 0 when there is none yet.
TicketTypeOK ==
  /\ ticket.status \in {"none", "open", "in_review", "resolved"}
  /\ ticket.priority \in Priorities /\ ticket.due \in Priorities
  /\ ticket.answered \in 0..Len(ticketLog)
  /\ \A i \in 1..Len(ticketLog) :
       ticketLog[i].message \in BOOLEAN /\ ticketLog[i].began \in 0..(i - 1)
  /\ dispute \in Seq({"open", "in_review", "upheld", "rejected"})
  /\ \A c \in TicketCalls : errand[c] = NoErrand \/
       /\ errand[c].kind \in TicketKinds /\ errand[c].to \in Wanted(errand[c].kind)
       /\ errand[c].at \in {"started", "checked", "inserted", "locked"}

TicketInit ==
  /\ ticket = [status |-> "none", priority |-> "normal", due |-> "normal", answered |-> 0]
  /\ ticketLog = <<>> /\ dispute = <<>>
  /\ errand = [c \in TicketCalls |-> NoErrand]

InErrand(c, kinds, at) == errand[c] # NoErrand /\ errand[c].kind \in kinds /\ errand[c].at = at
Advance(c, at) == errand' = [errand EXCEPT ![c].at = at]
CommitErrand(c) == errand' = [errand EXCEPT ![c] = NoErrand]

\* FOR UPDATE of the case, or of the dispute, waits for who has the same row.
RowOf(kind) == IF kind = "decide" THEN "dispute" ELSE "case"

\* Mutant: SELECT without FOR UPDATE.
TicketShared(c) == TRUE

TicketFree(c) == \A d \in TicketCalls \ {c} :
  ~(\E k \in TicketKinds : InErrand(d, {k}, "locked") /\ RowOf(k) = RowOf(errand[c].kind))

LogEvent(c, to) ==
  /\ Len(ticketLog) < MaxTicketEvents
  /\ ticketLog' = Append(ticketLog, [message |-> errand[c].kind \in Messages, to |-> to,
                                     began |-> errand[c].began])

-----------------------------------------------------------------------------
StartErrand(c, kind) ==
  /\ errand[c] = NoErrand
  /\ IF kind = "open" THEN ticket.status = "none" ELSE ticket.status # "none"
  /\ \E to \in Wanted(kind) :
       errand' = [errand EXCEPT ![c] = [kind |-> kind, to |-> to, at |-> "started", began |-> 0, seen |-> "nothing"]]
  /\ UNCHANGED <<ticket, ticketLog, dispute>>

\* create, with the first message of the case in the same transaction.
OpenTicket(c) ==
  /\ InErrand(c, {"open"}, "started") /\ ticket.status = "none"
  /\ LogEvent(c, "open") /\ CommitErrand(c)
  /\ ticket' = [ticket EXCEPT !.status = "open"]
  /\ UNCHANGED dispute

\* The reads a message and a dispute start with take no lock.
CheckTicket(c) ==
  /\ \/ InErrand(c, Messages, "started") /\ ticket.status # "resolved"
     \/ InErrand(c, {"dispute"}, "started") /\ ticket.status = "resolved" /\ dispute = <<>>
  /\ Advance(c, "checked")
  /\ UNCHANGED <<ticket, ticketLog, dispute>>

\* The policy of the INSERT reads the status in the statement's snapshot, before
\* the foreign key waits for the row.
InsertMessage(c) ==
  /\ InErrand(c, Messages, "checked") /\ ticket.status # "resolved"
  /\ errand' = [errand EXCEPT ![c].at = "inserted", ![c].began = Len(ticketLog)]
  /\ UNCHANGED <<ticket, ticketLog, dispute>>

ShareRow(c) ==
  /\ InErrand(c, Messages, "inserted") /\ TicketFree(c)
  /\ Advance(c, "locked")
  /\ UNCHANGED <<ticket, ticketLog, dispute>>

\* first_responded_at = COALESCE(first_responded_at, now())
Answered == IF ticket.answered = 0 THEN Len(ticketLog) + 1 ELSE ticket.answered

CommitCaseMessage(c) ==
  /\ InErrand(c, Messages, "locked")
  /\ LogEvent(c, "nothing") /\ CommitErrand(c)
  /\ ticket' = IF errand[c].kind = "partner_message" THEN ticket
               ELSE [ticket EXCEPT !.answered = Answered]
  /\ UNCHANGED dispute

LockTicket(c) ==
  /\ InErrand(c, {"triage", "status", "decide"}, "started") /\ TicketFree(c)
  /\ errand[c].kind = "decide" => dispute # <<>>
  /\ errand' = [errand EXCEPT ![c].at = "locked",
       ![c].seen = IF errand[c].kind = "decide" THEN dispute[Len(dispute)] ELSE ticket.status]
  /\ UNCHANGED <<ticket, ticketLog, dispute>>

\* Mutant: the due date is computed anew although the case was answered.
TriageAnyway(c) ==
  /\ InErrand(c, {"triage"}, "locked")
  /\ errand[c].seen # "resolved" /\ ~(ticket.priority = "high" /\ errand[c].to = "normal")
  /\ LogEvent(c, errand[c].to) /\ CommitErrand(c)
  /\ ticket' = [ticket EXCEPT !.priority = errand[c].to, !.due = errand[c].to]
  /\ UNCHANGED dispute

Triage(c) ==
  /\ InErrand(c, {"triage"}, "locked")
  /\ errand[c].seen # "resolved" /\ ~(ticket.priority = "high" /\ errand[c].to = "normal")
  /\ LogEvent(c, errand[c].to) /\ CommitErrand(c)
  /\ ticket' = [ticket EXCEPT !.priority = errand[c].to,
                              !.due = IF ticket.answered = 0 THEN errand[c].to ELSE @]
  /\ UNCHANGED dispute

ChangeTicketStatus(c) ==
  /\ InErrand(c, {"status"}, "locked")
  /\ errand[c].seen = IF errand[c].to = "in_review" THEN "open" ELSE "in_review"
  /\ LogEvent(c, errand[c].to) /\ CommitErrand(c)
  /\ ticket' = [ticket EXCEPT !.status = errand[c].to, !.answered = Answered]
  /\ UNCHANGED dispute

\* Mutant: the INSERT has no ON CONFLICT (case_id) and the key is not unique.
CreateDisputeAgain(c) ==
  /\ InErrand(c, {"dispute"}, "checked")
  /\ dispute' = Append(dispute, "open") /\ CommitErrand(c)
  /\ UNCHANGED <<ticket, ticketLog>>

CreateDispute(c) ==
  /\ InErrand(c, {"dispute"}, "checked") /\ dispute = <<>>
  /\ dispute' = <<"open">> /\ CommitErrand(c)
  /\ UNCHANGED <<ticket, ticketLog>>

ChangeDisputeStatus(c) ==
  /\ InErrand(c, {"decide"}, "locked")
  /\ errand[c].seen = IF errand[c].to = "in_review" THEN "open" ELSE "in_review"
  /\ dispute' = Append(dispute, errand[c].to) /\ CommitErrand(c)
  /\ UNCHANGED <<ticket, ticketLog>>

\* A check of the handler fails, or the transaction does.
RefuseErrand(c) ==
  /\ errand[c] # NoErrand
  /\ CommitErrand(c)
  /\ UNCHANGED <<ticket, ticketLog, dispute>>

TicketNext == \E c \in TicketCalls :
  \/ \E kind \in TicketKinds : StartErrand(c, kind)
  \/ OpenTicket(c) \/ CheckTicket(c) \/ InsertMessage(c) \/ ShareRow(c) \/ CommitCaseMessage(c)
  \/ LockTicket(c) \/ Triage(c) \/ ChangeTicketStatus(c)
  \/ CreateDispute(c) \/ ChangeDisputeStatus(c) \/ RefuseErrand(c)

-----------------------------------------------------------------------------
(* Properties *)

\* After the resolution only messages are filed, and only those whose INSERT had
\* begun before it: nothing else follows, and no second resolution.
OnlyLateMessages == \A i, j \in 1..Len(ticketLog) :
  (i < j /\ ticketLog[i].to = "resolved") =>
    ticketLog[j].message /\ ticketLog[j].began < i

\* The first response and its due date, which the reports of the support centre
\* are computed from, stand whatever is triaged, answered or resolved later; the
\* priority is never lowered.
FirstAnswerStands == [][
  /\ ticket.answered # 0 => ticket'.answered = ticket.answered /\ ticket'.due = ticket.due
  /\ ticket.priority = "high" => ticket'.priority = "high"]_ticketVars

\* A dispute is opened once, on a resolved case, reviewed once and decided once,
\* though two requests open it and two operators decide it.
DisputeTakesItsCourse ==
  /\ dispute # <<>> => ticket.status = "resolved"
  /\ Len(dispute) <= 3
  /\ \A i \in 1..Len(dispute) :
       dispute[i] \in <<{"open"}, {"in_review"}, {"upheld", "rejected"}>>[i]

\* A ticket is settled once: nothing but late messages follows its resolution, and
\* one dispute at most is decided on it.
TicketsTakeTheirCourse == OnlyLateMessages /\ DisputeTakesItsCourse
=============================================================================
