--------------------------- MODULE OperationDesk ---------------------------
(***************************************************************************)
(* The records operators change side by side in api/operations/            *)
(* operations.service.ts: a readiness gate, the report goals of a period   *)
(* and a support case.  Each handler locks its row, appends an event that  *)
(* tells the value before and after, and commits; the audit row and the    *)
(* notification of the same transaction stand with the event.  The records *)
(* do not touch each other: a behaviour follows one.                       *)
(***************************************************************************)
EXTENDS Naturals, Sequences

CONSTANTS DeskCalls,  \* requests being served
          DeskValues, \* contents of a gate or of a set of goals
          MaxEvents,  \* bound of the model
          NoTask

VARIABLES record, \* which record this is
          desk,   \* its committed row; the version of a case counts its events
          trail,  \* its committed events
          task    \* what each request is doing

deskVars == <<record, desk, trail, task>>

CaseStatuses == {"open", "in_review", "resolved"}

ASSUME DeskValuesAssumption == DeskValues # {} /\ DeskValues \cap CaseStatuses = {}

RecordValues == IF record = "case" THEN CaseStatuses ELSE DeskValues
DeskRow == [value : RecordValues, version : Nat]
DeskEvent == [from : RecordValues, to : RecordValues, version : Nat, viewed : RecordValues]

\* view: the row the operator had on the screen; read: the row the handler has
\* locked, in a sequence that is empty before.
DeskTypeOK ==
  /\ record \in {"gate", "goals", "case"}
  /\ desk \in DeskRow /\ trail \in Seq(DeskEvent)
  /\ \A c \in DeskCalls : task[c] = NoTask \/
       /\ task[c].to \in RecordValues /\ task[c].view \in DeskRow
       /\ task[c].read \in Seq(DeskRow) /\ Len(task[c].read) <= 1

DeskInit ==
  /\ record \in {"gate", "goals", "case"}
  /\ desk = [value |-> IF record = "case" THEN "open" ELSE CHOOSE v \in DeskValues : TRUE,
             version |-> 1]
  /\ trail = <<>>
  /\ task = [c \in DeskCalls |-> NoTask]

Reading(c) == task[c] # NoTask /\ task[c].read # <<>>
Read(c) == task[c].read[1]

\* Mutant: SELECT without FOR UPDATE.
RowShared(c) == TRUE

RowFree(c) == \A d \in DeskCalls \ {c} : ~Reading(d)

-----------------------------------------------------------------------------
\* The operator looks at the console and decides later, as the others do.  For a
\* case the status on the screen stands for a note.
LookAt(c, to) ==
  /\ task[c] = NoTask
  /\ to # "open" \/ desk.value = "open"
  /\ task' = [task EXCEPT ![c] = [to |-> to, view |-> desk, read |-> <<>>]]
  /\ UNCHANGED <<record, desk, trail>>

LockRow(c) ==
  /\ task[c] # NoTask /\ ~Reading(c) /\ RowFree(c)
  /\ task' = [task EXCEPT ![c].read = <<desk>>]
  /\ UNCHANGED <<record, desk, trail>>

\* The transaction of c commits the row and its event.
CommitRow(c, value) ==
  /\ Len(trail) < MaxEvents
  /\ desk' = [value |-> value, version |-> Read(c).version + 1]
  /\ trail' = Append(trail, [from |-> Read(c).value, to |-> value,
                             version |-> Read(c).version + 1, viewed |-> task[c].view.value])
  /\ task' = [task EXCEPT ![c] = NoTask]
  /\ UNCHANGED record

\* Mutant: expectedVersion is not compared.
UpdateGateUnseen(c) ==
  /\ Reading(c) /\ record = "gate"
  /\ Read(c).value # task[c].to
  /\ CommitRow(c, task[c].to)

UpdateReadinessGate(c) ==
  /\ Reading(c) /\ record = "gate"
  /\ Read(c).version = task[c].view.version /\ Read(c).value # task[c].to
  /\ CommitRow(c, task[c].to)

\* The goals of a period have no expected version: the last save wins.
UpdateReportGoals(c) ==
  /\ Reading(c) /\ record = "goals"
  /\ Read(c).value # task[c].to
  /\ CommitRow(c, task[c].to)

\* Mutant: the statuses are those the operator saw, not those of the locked row.
ChangeStatusSeen(c) ==
  /\ Reading(c) /\ record = "case"
  /\ task[c].view.value # "resolved" /\ task[c].to # task[c].view.value
  /\ task[c].to = "in_review" => task[c].view.value = "open"
  /\ CommitRow(c, task[c].to)

ChangeStatus(c) ==
  /\ Reading(c) /\ record = "case" /\ task[c].to # task[c].view.value
  /\ Read(c).value # "resolved" /\ Read(c).value # task[c].to
  /\ task[c].to = "in_review" => Read(c).value = "open"
  /\ CommitRow(c, task[c].to)

AddNote(c) ==
  /\ Reading(c) /\ record = "case" /\ task[c].to = task[c].view.value
  /\ Read(c).value # "resolved"
  /\ CommitRow(c, Read(c).value)

\* A check of the handler fails, or the transaction does.
RefuseTask(c) ==
  /\ task[c] # NoTask
  /\ task' = [task EXCEPT ![c] = NoTask]
  /\ UNCHANGED <<record, desk, trail>>

DeskNext == \E c \in DeskCalls :
  \/ \E to \in RecordValues : LookAt(c, to)
  \/ LockRow(c) \/ RefuseTask(c)
  \/ UpdateReadinessGate(c) \/ UpdateReportGoals(c) \/ ChangeStatus(c) \/ AddNote(c)

-----------------------------------------------------------------------------
(* Properties *)

\* The events of a record tell its whole history: each starts from the value the
\* one before it ended with and is one version later, and the last tells the row.
TrailsChain == \A i \in 1..Len(trail) :
  /\ trail[i].version = i + 1
  /\ i < Len(trail) => trail[i + 1].from = trail[i].to
  /\ i = Len(trail) => desk = [value |-> trail[i].to, version |-> i + 1]

\* An operator never replaces a state of a gate it had not seen.
GateSavesWereSeen == record = "gate" =>
  \A i \in 1..Len(trail) : trail[i].from = trail[i].viewed

\* A resolved case is closed: no status and no note follows, though requests that
\* saw it open are still waiting for its row.
ResolvedStays == [][desk.value = "resolved" => UNCHANGED <<desk, trail>>]_deskVars
=============================================================================
