---------------------------- MODULE PrivacyRights ----------------------------
(***************************************************************************)
(* A data subject's request (api/privacy/privacy.service.ts): the subject  *)
(* opens it and, when it asks for access, exports a package; operators     *)
(* decide the others.  Every handler locks the request and adds an event.  *)
(* Requests do not touch each other: a behaviour follows one.              *)
(***************************************************************************)
EXTENDS Naturals, Sequences

CONSTANTS PrivacyCalls, \* requests being served
          MaxDsEvents,  \* bound of the model
          NoPrivacyTask

VARIABLES dsRequest, \* the committed request
          dsEvents,  \* its committed events
          receipts,  \* data_export_receipts: how many packages it was given
          dsTask     \* what each call is doing

privacyVars == <<dsRequest, dsEvents, receipts, dsTask>>

DsTypes == {"access", "deletion"}
DsStatuses == {"none", "open", "in_review", "awaiting_subject", "fulfilled", "denied"}
Closed == {"fulfilled", "denied"}

PrivacyTypeOK ==
  /\ dsRequest.type \in DsTypes /\ dsRequest.status \in DsStatuses /\ dsRequest.version \in Nat
  /\ \A i \in 1..Len(dsEvents) : dsEvents[i].to \in DsStatuses /\ dsEvents[i].seen \in Nat
  /\ receipts \in Nat
  /\ \A c \in PrivacyCalls : dsTask[c] = NoPrivacyTask \/
       /\ dsTask[c].to \in DsStatuses /\ dsTask[c].at \in {"started", "locked", "read"}

PrivacyInit ==
  /\ dsRequest \in [type : DsTypes, status : {"none"}, version : {1}]
  /\ dsEvents = <<>> /\ receipts = 0
  /\ dsTask = [c \in PrivacyCalls |-> NoPrivacyTask]

InTask(c, at) == dsTask[c] # NoPrivacyTask /\ dsTask[c].at = at

RequestFree(c) == \A d \in PrivacyCalls \ {c} : ~InTask(d, "locked") /\ ~InTask(d, "read")

-----------------------------------------------------------------------------
CreateDsRequest ==
  /\ dsRequest.status = "none"
  /\ dsRequest' = [dsRequest EXCEPT !.status = "open"]
  /\ dsEvents' = <<[to |-> "open", seen |-> 0, version |-> 1]>>
  /\ UNCHANGED <<receipts, dsTask>>

\* Subject and operators start from what their page shows.
StartDsTask(c, to) ==
  /\ dsTask[c] = NoPrivacyTask /\ dsRequest.status # "none"
  /\ dsTask' = [dsTask EXCEPT ![c] = [to |-> to, expected |-> dsRequest.version, at |-> "started",
                                      read |-> dsRequest]]
  /\ UNCHANGED <<dsRequest, dsEvents, receipts>>

LockRequest(c) ==
  /\ InTask(c, "started") /\ RequestFree(c)
  /\ dsTask' = [dsTask EXCEPT ![c].at = "locked", ![c].read = dsRequest]
  /\ UNCHANGED <<dsRequest, dsEvents, receipts>>

\* buildExportManifest; the sections are read one statement after the other.
BuildManifest(c) ==
  /\ InTask(c, "locked") /\ dsTask[c].to = "none"
  /\ dsTask[c].read.type = "access" /\ dsTask[c].read.status = "open"
  /\ dsTask' = [dsTask EXCEPT ![c].at = "read"]
  /\ UNCHANGED <<dsRequest, dsEvents, receipts>>

CommitDs(c, to) ==
  /\ Len(dsEvents) < MaxDsEvents
  /\ dsRequest' = [dsRequest EXCEPT !.status = to, !.version = dsTask[c].read.version + 1]
  /\ dsEvents' = Append(dsEvents, [to |-> to, seen |-> dsTask[c].expected,
                                   version |-> dsTask[c].read.version + 1])
  /\ dsTask' = [dsTask EXCEPT ![c] = NoPrivacyTask]

\* The subject decides without a version: the UPDATE asks for an open request.
GenerateExport(c) ==
  /\ InTask(c, "read") /\ dsRequest.status = "open"
  /\ CommitDs(c, "fulfilled")
  /\ receipts' = receipts + 1

\* allowedTransitions
NextDsStatuses(status) ==
  CASE status = "open" -> {"in_review"}
    [] status = "in_review" -> {"awaiting_subject"} \cup Closed
    [] status = "awaiting_subject" -> {"in_review"} \cup Closed
    [] OTHER -> {}

\* Mutant: an operator may close a request of access as fulfilled.
TransitionFulfils(c) ==
  /\ InTask(c, "locked") /\ dsTask[c].to \in NextDsStatuses(dsTask[c].read.status)
  /\ dsTask[c].read.version = dsTask[c].expected
  /\ dsRequest.version = dsTask[c].read.version
  /\ CommitDs(c, dsTask[c].to)
  /\ UNCHANGED receipts

\* Mutant: expectedVersion is not compared.
TransitionUnseen(c) ==
  /\ InTask(c, "locked") /\ dsTask[c].to \in NextDsStatuses(dsTask[c].read.status)
  /\ ~(dsTask[c].read.type = "access" /\ dsTask[c].to = "fulfilled")
  /\ CommitDs(c, dsTask[c].to)
  /\ UNCHANGED receipts

TransitionRequest(c) ==
  /\ InTask(c, "locked") /\ dsTask[c].to \in NextDsStatuses(dsTask[c].read.status)
  /\ dsTask[c].read.version = dsTask[c].expected
  /\ ~(dsTask[c].read.type = "access" /\ dsTask[c].to = "fulfilled")
  /\ dsRequest.version = dsTask[c].read.version
  /\ CommitDs(c, dsTask[c].to)
  /\ UNCHANGED receipts

DropDsTask(c) ==
  /\ dsTask[c] # NoPrivacyTask
  /\ dsTask' = [dsTask EXCEPT ![c] = NoPrivacyTask]
  /\ UNCHANGED <<dsRequest, dsEvents, receipts>>

\* A task to "none" is an export.
PrivacyNext ==
  \/ CreateDsRequest
  \/ \E c \in PrivacyCalls :
       \/ \E to \in DsStatuses \ {"open"} : StartDsTask(c, to)
       \/ LockRequest(c) \/ BuildManifest(c) \/ GenerateExport(c)
       \/ TransitionRequest(c) \/ DropDsTask(c)

-----------------------------------------------------------------------------
(* Properties *)

\* A request of access is only ever fulfilled with a package, and a package is
\* generated once, though the subject asks twice and an operator decides.
AccessHasItsReceipt ==
  /\ receipts <= 1
  /\ (dsRequest.type = "access" /\ dsRequest.status = "fulfilled") <=> receipts = 1

\* Nobody decides on a version it did not see: operators by the version they
\* send, the subject because only an open request, the first version, is exported.
DecisionsWereSeen == \A i \in 1..Len(dsEvents) :
  dsEvents[i].version = i /\ dsEvents[i].seen = i - 1
=============================================================================
