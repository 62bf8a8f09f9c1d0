---------------------------- MODULE Conversation ----------------------------
(***************************************************************************)
(* One conversation as one of its members follows it: the transactions     *)
(* that send messages, the page's synchronisation by cursor                *)
(* (PersistentMessages in app/demo/demo-experience.tsx) and the queries    *)
(* that serve it (api/messaging/messaging.service.ts).  A message carries  *)
(* the time its transaction began, which orders messages, and becomes      *)
(* visible when the transaction commits.                                   *)
(***************************************************************************)
EXTENDS Naturals, FiniteSets, Sequences, SequencesExt

CONSTANTS Incoming, \* messages the other member sends
          Outgoing, \* messages sent from this page
          NoMessage, NoSync

Texts == Incoming \cup Outgoing

ASSUME TextsAssumption == IsFiniteSet(Texts)

VARIABLES begun,     \* messages in the order of (created_at, id)
          delivered, \* those whose transaction has committed
          unanswered,\* outgoing messages whose answer the page awaits
          selected,  \* the conversation is the selected one
          shown,     \* the messages on the page
          cursor,    \* messageCursorRef
          sync,      \* the request of syncMessages, and its answer
          readRef,   \* readCursorRef
          acks,      \* PATCH requests on their way
          lastRead   \* conversation_members.last_read_message_id

pageVars == <<selected, shown, cursor, sync, readRef, acks>>
conversationVars == <<begun, delivered, unanswered, lastRead, pageVars>>

Syncs == [after : Texts \cup {NoMessage}, initial : BOOLEAN,
          answered : BOOLEAN, messages : SUBSET Texts]

ConversationTypeOK ==
  /\ begun \in Seq(Texts) /\ Cardinality(Texts) >= Len(begun)
  /\ delivered \subseteq Texts /\ unanswered \subseteq Outgoing
  /\ selected \in BOOLEAN /\ shown \in Seq(Texts)
  /\ cursor \in Texts \cup {NoMessage} /\ readRef \in Texts \cup {NoMessage}
  /\ sync \in Syncs \cup {NoSync}
  /\ acks \subseteq Texts /\ lastRead \in Texts \cup {NoMessage}

ConversationInit ==
  /\ begun = <<>> /\ delivered = {} /\ unanswered = {}
  /\ selected = FALSE /\ shown = <<>> /\ cursor = NoMessage /\ sync = NoSync
  /\ readRef = NoMessage /\ acks = {} /\ lastRead = NoMessage

\* The place of a message in the order; what is not there comes before all.
Place(m) == IF m \notin ToSet(begun) THEN 0 ELSE CHOOSE i \in 1..Len(begun) : begun[i] = m
Behind(m, n) == Place(m) <= Place(n)
Latest(set, otherwise) ==
  IF set = {} THEN otherwise ELSE CHOOSE m \in set : \A n \in set : Behind(n, m)

\* ORDER BY: the first of a set has itself behind it, the second one more.
Rank(m, set) == Cardinality({n \in set : Behind(n, m)})
InOrder(set) == [i \in 1..Cardinality(set) |-> CHOOSE m \in set : Rank(m, set) = i]

-----------------------------------------------------------------------------
(* Sending *)

\* The transaction of send begins.
BeginMessage(m) ==
  /\ m \notin ToSet(begun)
  /\ begun' = Append(begun, m)
  /\ unanswered' = IF m \in Outgoing THEN unanswered \cup {m} ELSE unanswered
  /\ UNCHANGED <<delivered, lastRead, pageVars>>

CommitMessage(m) ==
  /\ m \in ToSet(begun) \ delivered
  /\ delivered' = delivered \cup {m}
  /\ UNCHANGED <<begun, unanswered, lastRead, pageVars>>

\* The page appends what it sent without looking whether it has it; an answer that
\* is lost is asked for again with the same key.
SendAnswered(m) ==
  /\ m \in unanswered \cap delivered
  /\ unanswered' = unanswered \ {m}
  /\ shown' = IF selected THEN Append(shown, m) ELSE shown
  /\ UNCHANGED <<begun, delivered, lastRead, selected, cursor, sync, readRef, acks>>

-----------------------------------------------------------------------------
(* The page *)

\* The effect of selectedId starts: the cursors are reset and the list is asked for.
SelectConversation ==
  /\ ~selected
  /\ selected' = TRUE /\ cursor' = NoMessage /\ readRef' = NoMessage
  /\ sync' = [after |-> NoMessage, initial |-> TRUE, answered |-> FALSE, messages |-> {}]
  /\ UNCHANGED <<begun, delivered, unanswered, lastRead, shown, acks>>

\* Its clean-up aborts what is under way; a PATCH may arrive all the same.
LeaveConversation ==
  /\ selected
  /\ selected' = FALSE /\ sync' = NoSync /\ shown' = <<>>
  /\ UNCHANGED <<begun, delivered, unanswered, lastRead, cursor, readRef, acks>>

\* The timer every four seconds, or the page becoming visible.
SyncMessages ==
  /\ selected /\ sync = NoSync /\ cursor # NoMessage
  /\ sync' = [after |-> cursor, initial |-> FALSE, answered |-> FALSE, messages |-> {}]
  /\ UNCHANGED <<begun, delivered, unanswered, lastRead, selected, shown, cursor, readRef, acks>>

\* messages: those committed and after the cursor.
MessagesAfter ==
  /\ sync # NoSync /\ ~sync.answered
  /\ sync' = [sync EXCEPT !.answered = TRUE,
                          !.messages = {m \in delivered : ~Behind(m, sync.after)}]
  /\ UNCHANGED <<begun, delivered, unanswered, lastRead, selected, shown, cursor, readRef, acks>>

\* acknowledgeRead sends a cursor once, until it fails.
SyncArrives ==
  /\ sync # NoSync /\ sync.answered
  /\ LET latest == Latest(sync.messages, sync.after)
     IN /\ shown' = IF sync.initial THEN InOrder(sync.messages)
                    ELSE shown \o InOrder(sync.messages \ ToSet(shown))
        /\ cursor' = IF latest = NoMessage THEN cursor ELSE latest
        /\ readRef' = IF latest = NoMessage THEN readRef ELSE latest
        /\ acks' = IF latest \in {NoMessage, readRef} THEN acks ELSE acks \cup {latest}
  /\ sync' = NoSync
  /\ UNCHANGED <<begun, delivered, unanswered, lastRead, selected>>

\* Mutant: a synchronisation that fails drops the cursor.
SyncForgets ==
  /\ sync # NoSync
  /\ sync' = NoSync /\ cursor' = NoMessage
  /\ UNCHANGED <<begun, delivered, unanswered, lastRead, selected, shown, readRef, acks>>

SyncFails ==
  /\ sync # NoSync
  /\ sync' = NoSync
  /\ UNCHANGED <<begun, delivered, unanswered, lastRead, selected, shown, cursor, readRef, acks>>

-----------------------------------------------------------------------------
(* Reading *)

\* Mutant: the cursor that arrives last is the one that is kept.
MayMoveAlways(m) == TRUE

MayMove(m) == Behind(lastRead, m)

\* markRead, in whatever order the requests arrive.
MarkRead(m) ==
  /\ m \in acks
  /\ acks' = acks \ {m}
  /\ lastRead' = IF MayMove(m) THEN m ELSE lastRead
  /\ UNCHANGED <<begun, delivered, unanswered, selected, shown, cursor, sync, readRef>>

MarkReadFails(m) ==
  /\ m \in acks
  /\ acks' = acks \ {m}
  /\ readRef' = IF readRef = m THEN NoMessage ELSE readRef
  /\ UNCHANGED <<begun, delivered, unanswered, lastRead, selected, shown, cursor, sync>>

ConversationNext ==
  \/ \E m \in Texts : \/ BeginMessage(m) \/ CommitMessage(m) \/ SendAnswered(m)
                      \/ MarkRead(m) \/ MarkReadFails(m)
  \/ SelectConversation \/ LeaveConversation
  \/ SyncMessages \/ MessagesAfter \/ SyncArrives \/ SyncFails

\* The timer goes on; not every request and not every answer is lost.
ConversationFairness ==
  /\ WF_conversationVars(SyncMessages)
  /\ SF_conversationVars(MessagesAfter) /\ SF_conversationVars(SyncArrives)

-----------------------------------------------------------------------------
(* Properties *)

\* What the member has read never goes back, though the page's confirmations
\* overtake each other, fail and are sent again, and outlive the page's selection.
ReadCursorAdvances == [][Behind(lastRead, lastRead')]_conversationVars

\* Once the page has a cursor, a message committed after it appears as long as the
\* conversation stays selected, although any number of synchronisations fail.
LaterMessagesArrive == \A m \in Texts :
  (selected /\ cursor # NoMessage /\ m \in delivered /\ ~Behind(m, cursor))
    ~> (~selected \/ m \in ToSet(shown) \/ Behind(m, cursor))

\* The conversation keeps up: what was read stays read, what comes later is shown.
ConversationKeepsUp == ReadCursorAdvances /\ LaterMessagesArrive
=============================================================================
