----------------------------- MODULE MCDelivery -----------------------------
(***************************************************************************)
(* The systems that must come to an end: push deliveries, report           *)
(* simulations and the synchronisation of a conversation.  They share no   *)
(* state, so a behaviour is of one of them: the others stay as they start, *)
(* where nothing of theirs is enabled and their fairness asks nothing.     *)
(* A run has no symmetry: it checks liveness.                              *)
(***************************************************************************)
EXTENDS PushDelivery, ReportSchedules, Conversation

OneNotice == {"n1"}
OneDevice == {"d1"}
TwoWorkers == {"w1", "w2"}
OneAnswers == {"w2"}
TwoSimulations == {"s1", "s2"}
TwoKeys == {"k1", "k2"}
TwoIncoming == {"m1", "m2"}
OneOutgoing == {"o1"}

VARIABLE system

DeliveryInit ==
  /\ system \in {"push", "reports", "conversation"}
  /\ PushInit /\ SchedulesInit /\ ConversationInit

DeliveryNext ==
  /\ UNCHANGED system
  /\ \/ system = "push" /\ PushNext /\ UNCHANGED <<scheduleVars, conversationVars>>
     \/ system = "reports" /\ SchedulesNext /\ UNCHANGED <<pushVars, conversationVars>>
     \/ system = "conversation" /\ ConversationNext /\ UNCHANGED <<pushVars, scheduleVars>>

deliveryVars == <<system, pushVars, scheduleVars, conversationVars>>

DeliverySpec ==
  /\ DeliveryInit /\ [][DeliveryNext]_deliveryVars
  /\ PushFairness /\ SchedulesFairness /\ ConversationFairness

\* Every variable of the three systems keeps its type.
DeliveryTypeOK == PushTypeOK /\ SchedulesTypeOK /\ ConversationTypeOK
=============================================================================
