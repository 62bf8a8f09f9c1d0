--------------------------- MODULE ProviderSchedule ---------------------------
(***************************************************************************)
(* The agenda of a provider (api/bookings/bookings.service.ts, migration   *)
(* 0042): the provider saves the week, blocks and releases periods, while  *)
(* customers accept proposals for one of its free slots.  What the         *)
(* provider does locks the settings; a block and a booking meet only in    *)
(* their triggers, under an advisory lock.  Providers do not touch each    *)
(* other: a behaviour follows one.                                         *)
(***************************************************************************)
EXTENDS Naturals, Sequences

CONSTANTS ScheduleCalls,      \* requests being served
          Periods,            \* half hours of the agenda
          Spans,              \* sets of periods a block or a booking may take
          MaxScheduleVersion, \* bound of the model
          NoScheduling

ASSUME SpansAssumption == Spans \subseteq (SUBSET Periods) \ {{}}

VARIABLES weekly,          \* periods of provider_weekly_availability
          blocks,          \* active provider_schedule_blocks
          booked,          \* how many active bookings take each span
          scheduleVersion, \* provider_schedule_settings.version
          scheduleLog,     \* provider_schedule_events
          scheduling       \* what each request is doing

agendaVars == <<weekly, blocks, booked, scheduleVersion, scheduleLog>>
providerScheduleVars == <<agendaVars, scheduling>>

Tasks == [does : {"weekly", "block", "release", "accept"}, span : SUBSET Periods,
          version : Nat, at : {"read", "locked", "written"}]

ProviderScheduleTypeOK ==
  /\ weekly \subseteq Periods /\ blocks \subseteq Spans
  /\ booked \in [Spans -> 0..1] /\ scheduleVersion \in Nat
  /\ scheduling \in [ScheduleCalls -> Tasks \cup {NoScheduling}]

ProviderScheduleInit ==
  /\ weekly = Periods /\ blocks = {} /\ booked = [s \in Spans |-> 0]
  /\ scheduleVersion = 1 /\ scheduleLog = <<>>
  /\ scheduling = [c \in ScheduleCalls |-> NoScheduling]

Doing(c, does, at) ==
  scheduling[c] # NoScheduling /\ scheduling[c].does \in does /\ scheduling[c].at = at

\* FOR UPDATE of the settings, by every change of the provider.
SettingsFree(c) == \A d \in ScheduleCalls \ {c} :
  scheduling[d] # NoScheduling => scheduling[d].does = "accept"

\* Mutant: the trigger of a block takes no advisory lock.
AdvisoryIgnored(c) == TRUE

\* pg_advisory_xact_lock of the provider, held from the trigger to the commit.
AdvisoryFree(c) == \A d \in ScheduleCalls \ {c} : ~Doing(d, {"block", "accept"}, "written")

BookedIn(span) == \E s \in Spans : booked[s] > 0 /\ s \cap span # {}
BlockedIn(span) == \E s \in blocks : s \cap span # {}

-----------------------------------------------------------------------------
\* Mutant: SELECT version without FOR UPDATE.
ReadSettings(c, does, span) ==
  /\ scheduling[c] = NoScheduling
  /\ does = "weekly" => span # weekly
  /\ scheduling' = [scheduling EXCEPT ![c] =
       [does |-> does, span |-> span, version |-> scheduleVersion, at |-> "locked"]]
  /\ UNCHANGED agendaVars

\* The same week again changes nothing and is answered at once.
LockSettings(c, does, span) ==
  /\ scheduling[c] = NoScheduling /\ SettingsFree(c)
  /\ does = "weekly" => span # weekly
  /\ scheduling' = [scheduling EXCEPT ![c] =
       [does |-> does, span |-> span, version |-> scheduleVersion, at |-> "locked"]]
  /\ UNCHANGED agendaVars

Write(c) ==
  /\ scheduling' = [scheduling EXCEPT ![c].at = "written"]
  /\ UNCHANGED agendaVars

UpsertWeekly(c) == Doing(c, {"weekly"}, "locked") /\ Write(c)

\* enforce_schedule_block_conflict, and the exclusion of overlapping blocks.
InsertBlock(c) ==
  /\ Doing(c, {"block"}, "locked") /\ AdvisoryFree(c)
  /\ ~BookedIn(scheduling[c].span) /\ ~BlockedIn(scheduling[c].span)
  /\ Write(c)

CancelBlock(c) ==
  /\ Doing(c, {"release"}, "locked") /\ scheduling[c].span \in blocks
  /\ Write(c)

CommitSchedule(c) ==
  /\ Doing(c, {"weekly", "block", "release"}, "written")
  /\ scheduleVersion < MaxScheduleVersion
  /\ LET task == scheduling[c] IN
       /\ weekly' = IF task.does = "weekly" THEN task.span ELSE weekly
       /\ blocks' = CASE task.does = "block" -> blocks \cup {task.span}
                      [] task.does = "release" -> blocks \ {task.span}
                      [] OTHER -> blocks
       /\ scheduleVersion' = task.version + 1
       /\ scheduleLog' = Append(scheduleLog,
            [does |-> task.does, span |-> task.span, version |-> task.version + 1])
  /\ scheduling' = [scheduling EXCEPT ![c] = NoScheduling]
  /\ UNCHANGED booked

-----------------------------------------------------------------------------
\* proposal_available_slots, read unlocked by acceptProposal.
FindSlot(c, span) ==
  /\ scheduling[c] = NoScheduling
  /\ span \subseteq weekly /\ ~BookedIn(span) /\ ~BlockedIn(span)
  /\ scheduling' = [scheduling EXCEPT ![c] =
       [does |-> "accept", span |-> span, version |-> 0, at |-> "read"]]
  /\ UNCHANGED agendaVars

\* enforce_booking_provider_schedule, and the exclusion of overlapping bookings.
InsertSlot(c) ==
  /\ Doing(c, {"accept"}, "read") /\ AdvisoryFree(c)
  /\ scheduling[c].span \subseteq weekly
  /\ ~BlockedIn(scheduling[c].span) /\ ~BookedIn(scheduling[c].span)
  /\ Write(c)

CommitSlot(c) ==
  /\ Doing(c, {"accept"}, "written")
  /\ booked' = [booked EXCEPT ![scheduling[c].span] = @ + 1]
  /\ scheduling' = [scheduling EXCEPT ![c] = NoScheduling]
  /\ UNCHANGED <<weekly, blocks, scheduleVersion, scheduleLog>>

\* A booking is completed or cancelled: the exclusion no longer counts it.
FreeSlot(span) ==
  /\ booked[span] > 0
  /\ booked' = [booked EXCEPT ![span] = @ - 1]
  /\ UNCHANGED <<weekly, blocks, scheduleVersion, scheduleLog, scheduling>>

\* A check fails (throwScheduleConflict) or the transaction is rolled back.
DropScheduling(c) ==
  /\ scheduling[c] # NoScheduling
  /\ scheduling' = [scheduling EXCEPT ![c] = NoScheduling]
  /\ UNCHANGED agendaVars

ProviderScheduleNext ==
  \/ \E s \in Spans : FreeSlot(s)
  \/ \E c \in ScheduleCalls :
       \/ \E days \in (SUBSET Periods) \ {{}} : LockSettings(c, "weekly", days)
       \/ \E s \in Spans : \/ LockSettings(c, "block", s) \/ LockSettings(c, "release", s)
                           \/ FindSlot(c, s)
       \/ UpsertWeekly(c) \/ InsertBlock(c) \/ CancelBlock(c) \/ CommitSchedule(c)
       \/ InsertSlot(c) \/ CommitSlot(c) \/ DropScheduling(c)

-----------------------------------------------------------------------------
(* Properties *)

\* "impede no PostgreSQL duas reservas ou bloqueios sobrepostos" (README.md:18): a
\* period is taken once, by a booking or a block, though slots are read unlocked.
PeriodsTakenOnce == \A p \in Periods :
  LET takes(s) == p \in s /\ (booked[s] > 0 \/ s \in blocks)
  IN \A s, t \in Spans :
       /\ takes(s) /\ takes(t) => s = t
       /\ takes(s) => booked[s] + (IF s \in blocks THEN 1 ELSE 0) = 1

\* Two tabs of the provider: the events alone, one for each version, tell the week
\* and the blocks of now.
TrailTellsAgenda ==
  LET last(set) == CHOOSE i \in set : \A j \in set : j <= i
      saves == {i \in 1..Len(scheduleLog) : scheduleLog[i].does = "weekly"}
      touches(s) == {i \in 1..Len(scheduleLog) :
                       scheduleLog[i].does # "weekly" /\ scheduleLog[i].span = s}
  IN /\ \A i \in 1..Len(scheduleLog) : scheduleLog[i].version = i + 1
     /\ saves # {} => weekly = scheduleLog[last(saves)].span
     /\ blocks = {s \in Spans : touches(s) # {} /\ scheduleLog[last(touches(s))].does = "block"}

\* The agenda is free of overlaps, and its events tell how it became what it is.
AgendaHolds == PeriodsTakenOnce /\ TrailTellsAgenda
=============================================================================
