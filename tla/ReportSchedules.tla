-------------------------- MODULE ReportSchedules --------------------------
(***************************************************************************)
(* One scheduled report of the operations console: its status changes and  *)
(* simulateReportDelivery (api/operations/operations.service.ts), which    *)
(* checks the schedule before its transaction, computes the report on a    *)
(* second connection of the pool and checks the schedule again under its   *)
(* row lock.  A client repeats a call with the same Idempotency-Key and    *)
(* the same expectedVersion.                                               *)
(***************************************************************************)
EXTENDS Naturals, FiniteSets, Sequences

CONSTANTS Simulations,     \* requests being served
          SimulationKeys,
          PoolSize,        \* max of the pg Pool, 10 in the source
          MaxVersion       \* bound of the model: the status changes no more after it

ASSUME ScheduleAssumption ==
  /\ PoolSize \in Nat \ {0} /\ MaxVersion \in Nat \ {0}
  /\ SimulationKeys # {}

VARIABLES schedule,   \* operation_report_delivery_schedules
          deliveries, \* operation_report_deliveries: the cycle each is for
          history,    \* versions of operation_report_delivery_events
          recorded,   \* keys with a committed response
          expects,    \* the expectedVersion a client sends with each key; 0 before
          simAt,      \* the step of each request, and
          simKey      \* its key

scheduleVars == <<schedule, deliveries, history, recorded, expects, simAt, simKey>>

Working == {"begin", "report", "lock", "commit"}
SimulationAnswers == {"delivered", "replayed", "refused", "failed"}

SchedulesTypeOK ==
  /\ schedule \in [status : {"active", "paused"}, version : Nat \ {0}, cycle : Nat]
  /\ deliveries \in Seq(Nat) /\ history \in Seq(Nat)
  /\ recorded \subseteq SimulationKeys
  /\ expects \in [SimulationKeys -> Nat]
  /\ simAt \in [Simulations -> {"idle", "precheck"} \cup Working \cup SimulationAnswers]
  /\ simKey \in [Simulations -> SimulationKeys]

SchedulesInit ==
  /\ schedule = [status |-> "active", version |-> 1, cycle |-> 0]
  /\ deliveries = <<>> /\ history = <<1>>
  /\ recorded = {}
  /\ expects = [k \in SimulationKeys |-> 0]
  /\ simAt = [s \in Simulations |-> "idle"]
  /\ simKey = [s \in Simulations |-> CHOOSE k \in SimulationKeys : TRUE]

At(s, step) == simAt' = [simAt EXCEPT ![s] = step]
Free == PoolSize - Cardinality({s \in Simulations : simAt[s] \in Working})
Current(s) == schedule.status = "active" /\ schedule.version = expects[simKey[s]]
Unlocked == \A s \in Simulations : simAt[s] # "commit"

\* The key is reserved by another open transaction.
KeyTaken(s) == \E r \in Simulations \ {s} :
  simAt[r] \in Working \ {"begin"} /\ simKey[r] = simKey[s]

-----------------------------------------------------------------------------
\* A client sends a call, or sends again one whose answer it has not seen.
SimulateReportDelivery(s, k) ==
  /\ simAt[s] \in {"idle"} \cup SimulationAnswers
  /\ simKey' = [simKey EXCEPT ![s] = k]
  /\ expects' = [expects EXCEPT ![k] = IF @ = 0 THEN schedule.version ELSE @]
  /\ At(s, "precheck")
  /\ UNCHANGED <<schedule, deliveries, history, recorded>>

\* The schedule is read in a transaction of its own.
Precheck(s) ==
  /\ simAt[s] = "precheck" /\ Free > 0
  /\ At(s, IF Current(s) THEN "begin" ELSE "refused")
  /\ UNCHANGED <<schedule, deliveries, history, recorded, expects, simKey>>

\* "begin" holds a connection and waits for the reservation of the key.
ReserveKey(s) ==
  /\ simAt[s] = "begin" /\ ~KeyTaken(s)
  /\ At(s, IF simKey[s] \in recorded THEN "replayed" ELSE "report")
  /\ UNCHANGED <<schedule, deliveries, history, recorded, expects, simKey>>

\* reports() opens a transaction on another connection, computes and releases it.
ComputeReport(s) ==
  /\ simAt[s] = "report" /\ Free > 0
  /\ At(s, "lock")
  /\ UNCHANGED <<schedule, deliveries, history, recorded, expects, simKey>>

\* Mutant: the version is not compared again under the lock.
LockWithoutVersion(s) ==
  /\ simAt[s] = "lock" /\ Unlocked /\ schedule.status = "active"
  /\ At(s, "commit")
  /\ UNCHANGED <<schedule, deliveries, history, recorded, expects, simKey>>

LockSchedule(s) ==
  /\ simAt[s] = "lock" /\ Unlocked /\ Current(s)
  /\ At(s, "commit")
  /\ UNCHANGED <<schedule, deliveries, history, recorded, expects, simKey>>

\* Mutant: the event carries the version that was read.
CommitOldVersion(s) ==
  /\ simAt[s] = "commit"
  /\ deliveries' = Append(deliveries, schedule.cycle)
  /\ schedule' = [schedule EXCEPT !.version = @ + 1, !.cycle = @ + 1]
  /\ history' = Append(history, schedule.version)
  /\ recorded' = recorded \cup {simKey[s]}
  /\ At(s, "delivered")
  /\ UNCHANGED <<expects, simKey>>

CommitDelivery(s) ==
  /\ simAt[s] = "commit"
  /\ deliveries' = Append(deliveries, schedule.cycle)
  /\ schedule' = [schedule EXCEPT !.version = @ + 1, !.cycle = @ + 1]
  /\ history' = Append(history, schedule.version + 1)
  /\ recorded' = recorded \cup {simKey[s]}
  /\ At(s, "delivered")
  /\ UNCHANGED <<expects, simKey>>

\* The version or the status has changed, or the transaction fails otherwise.
RefuseSimulation(s) ==
  /\ simAt[s] = "lock" /\ Unlocked /\ ~Current(s)
  /\ At(s, "refused")
  /\ UNCHANGED <<schedule, deliveries, history, recorded, expects, simKey>>

\* Mutant: pool.connect waits for ever.
NoTimeout(s) == FALSE /\ UNCHANGED scheduleVars

\* connectionTimeoutMillis: pool.connect gives up after five seconds.
PoolTimesOut(s) ==
  /\ simAt[s] \in {"precheck", "report"} /\ Free = 0
  /\ At(s, "failed")
  /\ UNCHANGED <<schedule, deliveries, history, recorded, expects, simKey>>

\* Any other error rolls the transaction back.
SimulationFails(s) ==
  /\ simAt[s] \in Working
  /\ At(s, "failed")
  /\ UNCHANGED <<schedule, deliveries, history, recorded, expects, simKey>>

\* changeReportDeliveryScheduleStatus: one look under the row lock.
ChangeScheduleStatus(status, expectedVersion) ==
  /\ Unlocked /\ Free > 0 /\ schedule.version <= MaxVersion
  /\ schedule.version = expectedVersion /\ schedule.status # status
  /\ schedule' = [schedule EXCEPT !.status = status, !.version = @ + 1]
  /\ history' = Append(history, schedule.version + 1)
  /\ UNCHANGED <<deliveries, recorded, expects, simAt, simKey>>

SimulationStep(s) ==
  \/ Precheck(s) \/ ReserveKey(s) \/ ComputeReport(s) \/ LockSchedule(s)
  \/ CommitDelivery(s) \/ RefuseSimulation(s)

SchedulesNext ==
  \/ \E s \in Simulations :
       \/ \E k \in SimulationKeys : SimulateReportDelivery(s, k)
       \/ SimulationStep(s) \/ PoolTimesOut(s) \/ SimulationFails(s)
  \/ \E status \in {"active", "paused"}, v \in 1..MaxVersion : ChangeScheduleStatus(status, v)

\* The server goes on with what it can do, a wait for a connection ends either way,
\* and PostgreSQL serves those who wait for a key or a row.
SchedulesFairness == \A s \in Simulations :
  /\ WF_scheduleVars(SimulationStep(s) \/ PoolTimesOut(s))
  /\ SF_scheduleVars(ReserveKey(s)) /\ SF_scheduleVars(LockSchedule(s) \/ RefuseSimulation(s))

-----------------------------------------------------------------------------
(* Properties *)

\* Every version of the schedule has one event, in order, whoever changes it.
HistoryHasEveryVersion ==
  history = [i \in 1..schedule.version |-> i]

\* A key delivers one cycle: of the calls that saw the same cycle only one
\* delivers it, and a repeated call does not deliver the next.
OneDeliveryPerLook == Len(deliveries) <= Cardinality({expects[k] : k \in recorded})

\* Deliveries and changes of the schedule at once leave one delivery for each cycle
\* that was asked for, and one event for each version.
CyclesAreTold == HistoryHasEveryVersion /\ OneDeliveryPerLook

\* Simulations that hold every connection of the pool and each wait for a second
\* one end, because waiting for a connection times out.
SimulationsEnd == \A s \in Simulations :
  simAt[s] \in {"precheck"} \cup Working ~> simAt[s] \notin {"precheck"} \cup Working
=============================================================================
