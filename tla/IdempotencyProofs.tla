------------------------- MODULE IdempotencyProofs -------------------------
(***************************************************************************)
(* Proofs, for any number of connections, keys, contents and bodies, of    *)
(* the safety of the Idempotency-Key protocol and of its refinement of     *)
(* KeyedOnce.                                                              *)
(***************************************************************************)
EXTENDS Idempotency, TLAPS

-----------------------------------------------------------------------------
(* The inductive invariant *)

\* What the transaction on connection c holds at each step of execute.
Transaction(c) ==
  /\ staged[c] # NoRow =>
       /\ pc[c] \in {"operate", "complete", "commit", "rollback"}
       /\ staged[c].hash = request[c].hash
  /\ mutated[c] => staged[c] # NoRow
  /\ pc[c] \in {"operate", "complete"} =>
       staged[c] # NoRow /\ staged[c].status = "processing"
  /\ pc[c] = "complete" => mutated[c] /\ value[c] \in Bodies
  /\ (pc[c] = "commit" /\ staged[c] # NoRow) =>
       /\ mutated[c]
       /\ staged[c].status = "completed"
       /\ staged[c].body = value[c]
       /\ value[c] \in Bodies

\* What a connection that read a committed record, or wrote one, may rely on.
Reads(c) ==
  /\ pc[c] = "lookup" => table[KeyOf(c)] # NoRow
  /\ pc[c] = "reply" \/ (pc[c] = "commit" /\ staged[c] = NoRow) =>
       /\ table[KeyOf(c)] # NoRow
       /\ table[KeyOf(c)].hash = request[c].hash
       /\ table[KeyOf(c)].body = value[c]
       /\ value[c] \in Bodies

IInv ==
  /\ TypeOK
  /\ \A c \in Connections : Transaction(c) /\ Reads(c)
  /\ OneReservation
  /\ EffectOnce
  /\ NoStuckKey
  /\ AnswersAgree

-----------------------------------------------------------------------------
(* Steps that leave the committed state and the answers alone *)

LEMMA Undisturbed ==
  ASSUME IInv, UNCHANGED <<table, effects, answers>>
  PROVE  EffectOnce' /\ NoStuckKey' /\ AnswersAgree'
BY DEF IInv, EffectOnce, NoStuckKey, AnswersAgree

LEMMA InitInv == Init => IInv
<1> SUFFICES ASSUME Init PROVE IInv
  OBVIOUS
<1>1. TypeOK
  BY DEF Init, TypeOK, Steps, Answers
<1>2. \A c \in Connections : Transaction(c) /\ Reads(c)
  BY DEF Init, Transaction, Reads
<1>3. OneReservation /\ EffectOnce /\ NoStuckKey /\ AnswersAgree
  BY DEF Init, OneReservation, EffectOnce, NoStuckKey, AnswersAgree
<1> QED BY <1>1, <1>2, <1>3 DEF IInv

LEMMA ExpireInv ==
  ASSUME IInv, NEW k \in Keys, Expire(k)
  PROVE  IInv'
<1>1. TypeOK'
  BY DEF IInv, TypeOK, Expire
<1>2. (\A c \in Connections : Transaction(c) /\ Reads(c))' /\ OneReservation'
  BY DEF IInv, Expire, Transaction, Reads, OneReservation, KeyOf
<1> QED BY <1>1, <1>2, Undisturbed DEF IInv, Expire

-----------------------------------------------------------------------------
(* The statements of one call *)

LEMMA ReceiveInv ==
  ASSUME IInv, NEW c \in Connections, NEW k \in Keys, NEW h \in Hashes, Receive(c, k, h)
  PROVE  IInv'
<1> USE NoBodyAssumption, NoRowAssumption
<1>1. TypeOK'
  BY DEF IInv, TypeOK, Rows, Steps, Transaction, Receive, Goto, KeyOf
<1>2. \A d \in Connections : Transaction(d)'
  BY DEF IInv, TypeOK, Rows, Steps, Transaction, Receive, Goto, KeyOf
<1>3. \A d \in Connections : Reads(d)'
  BY DEF IInv, TypeOK, Rows, Steps, Transaction, Reads, Receive, Goto, KeyOf
<1>4. OneReservation'
  BY DEF IInv, TypeOK, Rows, Steps, Transaction, OneReservation, Receive, Goto, KeyOf
<1> QED BY <1>1, <1>2, <1>3, <1>4, Undisturbed DEF IInv, Receive

LEMMA ReserveInv ==
  ASSUME IInv, NEW c \in Connections, Reserve(c)
  PROVE  IInv'
<1> USE NoBodyAssumption, NoRowAssumption
<1>1. TypeOK'
  BY DEF IInv, TypeOK, Rows, Steps, Transaction, Reserve, Goto, KeyOf
<1>2. \A d \in Connections : Transaction(d)'
  BY DEF IInv, TypeOK, Rows, Steps, Transaction, Reserve, Goto, KeyOf
<1>3. \A d \in Connections : Reads(d)'
  BY DEF IInv, TypeOK, Rows, Steps, Transaction, Reads, Reserve, Goto, KeyOf
<1>4. OneReservation'
  BY DEF IInv, TypeOK, Rows, Steps, Transaction, OneReservation, Reserved, Reserve, Goto, KeyOf
<1> QED BY <1>1, <1>2, <1>3, <1>4, Undisturbed DEF IInv, Reserve

LEMMA FindExistingInv ==
  ASSUME IInv, NEW c \in Connections, FindExisting(c)
  PROVE  IInv'
<1> USE NoBodyAssumption, NoRowAssumption
<1>1. TypeOK'
  BY DEF IInv, TypeOK, Rows, Steps, Transaction, FindExisting, Goto, KeyOf
<1>2. \A d \in Connections : Transaction(d)'
  BY DEF IInv, TypeOK, Rows, Steps, Transaction, FindExisting, Goto, KeyOf
<1>3. \A d \in Connections : Reads(d)'
  BY DEF IInv, TypeOK, Rows, Steps, Transaction, Reads, FindExisting, Goto, KeyOf
<1>4. OneReservation'
  BY DEF IInv, TypeOK, Rows, Steps, Transaction, OneReservation, FindExisting, Goto, KeyOf
<1> QED BY <1>1, <1>2, <1>3, <1>4, Undisturbed DEF IInv, FindExisting

LEMMA ReplayInv ==
  ASSUME IInv, NEW c \in Connections, Replay(c)
  PROVE  IInv'
<1> USE NoBodyAssumption, NoRowAssumption
<1>1. TypeOK'
  BY DEF IInv, TypeOK, Rows, Steps, Transaction, Reads, Replay, Replayable, Goto, KeyOf
<1>2. \A d \in Connections : Transaction(d)'
  BY DEF IInv, TypeOK, Rows, Steps, Transaction, Replay, Replayable, Goto, KeyOf
<1>3. \A d \in Connections : Reads(d)'
  BY DEF IInv, TypeOK, Rows, Steps, Transaction, Reads, NoStuckKey, Replay, Replayable, Goto, KeyOf
<1>4. OneReservation'
  BY DEF IInv, TypeOK, Rows, Steps, Transaction, OneReservation, Replay, Replayable, Goto, KeyOf
<1> QED BY <1>1, <1>2, <1>3, <1>4, Undisturbed DEF IInv, Replay

LEMMA ConflictInv ==
  ASSUME IInv, NEW c \in Connections, Conflict(c)
  PROVE  IInv'
<1> USE NoBodyAssumption, NoRowAssumption
<1>1. TypeOK'
  BY DEF IInv, TypeOK, Rows, Steps, Transaction, Conflict, Goto, KeyOf
<1>2. \A d \in Connections : Transaction(d)'
  BY DEF IInv, TypeOK, Rows, Steps, Transaction, Conflict, Goto, KeyOf
<1>3. \A d \in Connections : Reads(d)'
  BY DEF IInv, TypeOK, Rows, Steps, Transaction, Reads, Conflict, Goto, KeyOf
<1>4. OneReservation'
  BY DEF IInv, TypeOK, Rows, Steps, Transaction, OneReservation, Conflict, Goto, KeyOf
<1> QED BY <1>1, <1>2, <1>3, <1>4, Undisturbed DEF IInv, Conflict

LEMMA OperationReturnsInv ==
  ASSUME IInv, NEW c \in Connections, NEW b \in Bodies, OperationReturns(c, b)
  PROVE  IInv'
<1> USE NoBodyAssumption, NoRowAssumption
<1>1. TypeOK'
  BY DEF IInv, TypeOK, Rows, Steps, Transaction, OperationReturns, Goto, KeyOf
<1>2. \A d \in Connections : Transaction(d)'
  BY DEF IInv, TypeOK, Rows, Steps, Transaction, OperationReturns, Goto, KeyOf
<1>3. \A d \in Connections : Reads(d)'
  BY DEF IInv, TypeOK, Rows, Steps, Transaction, Reads, OperationReturns, Goto, KeyOf
<1>4. OneReservation'
  BY DEF IInv, TypeOK, Rows, Steps, Transaction, OneReservation, OperationReturns, Goto, KeyOf
<1> QED BY <1>1, <1>2, <1>3, <1>4, Undisturbed DEF IInv, OperationReturns

LEMMA ThrowInv ==
  ASSUME IInv, NEW c \in Connections, Throw(c)
  PROVE  IInv'
<1> USE NoBodyAssumption, NoRowAssumption
<1>1. TypeOK'
  BY DEF IInv, TypeOK, Rows, Steps, Transaction, Throw, Goto, KeyOf
<1>2. \A d \in Connections : Transaction(d)'
  BY DEF IInv, TypeOK, Rows, Steps, Transaction, Throw, Goto, KeyOf
<1>3. \A d \in Connections : Reads(d)'
  BY DEF IInv, TypeOK, Rows, Steps, Transaction, Reads, Throw, Goto, KeyOf
<1>4. OneReservation'
  BY DEF IInv, TypeOK, Rows, Steps, Transaction, OneReservation, Throw, Goto, KeyOf
<1> QED BY <1>1, <1>2, <1>3, <1>4, Undisturbed DEF IInv, Throw

LEMMA CompleteInv ==
  ASSUME IInv, NEW c \in Connections, Complete(c)
  PROVE  IInv'
<1> USE NoBodyAssumption, NoRowAssumption
<1>1. TypeOK'
  BY DEF IInv, TypeOK, Rows, Steps, Transaction, Complete, Goto, KeyOf
<1>2. \A d \in Connections : Transaction(d)'
  BY DEF IInv, TypeOK, Rows, Steps, Transaction, Complete, Goto, KeyOf
<1>3. \A d \in Connections : Reads(d)'
  BY DEF IInv, TypeOK, Rows, Steps, Transaction, Reads, Complete, Goto, KeyOf
<1>4. OneReservation'
  BY DEF IInv, TypeOK, Rows, Steps, Transaction, OneReservation, Complete, Goto, KeyOf
<1> QED BY <1>1, <1>2, <1>3, <1>4, Undisturbed DEF IInv, Complete

-----------------------------------------------------------------------------
(* The end of the transaction *)

LEMMA CommitInv ==
  ASSUME IInv, NEW c \in Connections, Commit(c)
  PROVE  IInv'
<1> USE NoBodyAssumption, NoRowAssumption
<1>1. TypeOK'
  BY DEF IInv, TypeOK, Rows, Steps, Transaction, Commit, Publish, Goto, KeyOf
<1>2. \A d \in Connections : Transaction(d)'
  BY DEF IInv, TypeOK, Rows, Steps, Transaction, Commit, Publish, Goto, KeyOf
<1>3. \A d \in Connections : Reads(d)'
  BY DEF IInv, TypeOK, Rows, Steps, Transaction, Reads, OneReservation, Commit, Publish, Goto, KeyOf
<1>4. OneReservation'
  BY DEF IInv, TypeOK, Rows, Steps, Transaction, OneReservation, Commit, Publish, Goto, KeyOf
<1>5. EffectOnce'
  BY DEF IInv, TypeOK, Rows, Steps, Transaction, OneReservation, EffectOnce, Commit, Publish, Goto, KeyOf
<1>6. NoStuckKey'
  BY DEF IInv, TypeOK, Rows, Steps, Transaction, NoStuckKey, Commit, Publish, Goto, KeyOf
<1>7. AnswersAgree'
  BY DEF IInv, TypeOK, Rows, Steps, Transaction, OneReservation, Answers, AnswersAgree, Commit, Publish, Goto, KeyOf
<1> QED BY <1>1, <1>2, <1>3, <1>4, <1>5, <1>6, <1>7 DEF IInv

LEMMA CommitUnacknowledgedInv ==
  ASSUME IInv, NEW c \in Connections, CommitUnacknowledged(c)
  PROVE  IInv'
<1> USE NoBodyAssumption, NoRowAssumption
<1>1. TypeOK'
  BY DEF IInv, TypeOK, Rows, Steps, Transaction, CommitUnacknowledged, Publish, Goto, KeyOf
<1>2. \A d \in Connections : Transaction(d)'
  BY DEF IInv, TypeOK, Rows, Steps, Transaction, CommitUnacknowledged, Publish, Goto, KeyOf
<1>3. \A d \in Connections : Reads(d)'
  BY DEF IInv, TypeOK, Rows, Steps, Transaction, Reads, OneReservation, CommitUnacknowledged, Publish, Goto, KeyOf
<1>4. OneReservation'
  BY DEF IInv, TypeOK, Rows, Steps, Transaction, OneReservation, CommitUnacknowledged, Publish, Goto, KeyOf
<1>5. EffectOnce'
  BY DEF IInv, TypeOK, Rows, Steps, Transaction, OneReservation, EffectOnce, CommitUnacknowledged, Publish, Goto, KeyOf
<1>6. NoStuckKey'
  BY DEF IInv, TypeOK, Rows, Steps, Transaction, NoStuckKey, CommitUnacknowledged, Publish, Goto, KeyOf
<1>7. AnswersAgree'
  BY DEF IInv, TypeOK, Rows, Steps, Transaction, OneReservation, Answers, AnswersAgree, CommitUnacknowledged, Publish, Goto, KeyOf
<1> QED BY <1>1, <1>2, <1>3, <1>4, <1>5, <1>6, <1>7 DEF IInv

LEMMA RollbackInv ==
  ASSUME IInv, NEW c \in Connections, Rollback(c)
  PROVE  IInv'
<1> USE NoBodyAssumption, NoRowAssumption
<1>1. TypeOK'
  BY DEF IInv, TypeOK, Rows, Steps, Transaction, Rollback, Discard, Goto, KeyOf
<1>2. \A d \in Connections : Transaction(d)'
  BY DEF IInv, TypeOK, Rows, Steps, Transaction, Rollback, Discard, Goto, KeyOf
<1>3. \A d \in Connections : Reads(d)'
  BY DEF IInv, TypeOK, Rows, Steps, Transaction, Reads, Rollback, Discard, Goto, KeyOf
<1>4. OneReservation'
  BY DEF IInv, TypeOK, Rows, Steps, Transaction, OneReservation, Rollback, Discard, Goto, KeyOf
<1> QED BY <1>1, <1>2, <1>3, <1>4, Undisturbed DEF IInv, Rollback

LEMMA ReplyInv ==
  ASSUME IInv, NEW c \in Connections, Reply(c)
  PROVE  IInv'
<1> USE NoBodyAssumption, NoRowAssumption
<1>1. TypeOK'
  BY DEF IInv, TypeOK, Rows, Steps, Transaction, Reads, Answers, Reply, Goto, KeyOf
<1>2. \A d \in Connections : Transaction(d)'
  BY DEF IInv, TypeOK, Rows, Steps, Transaction, Reply, Goto, KeyOf
<1>3. \A d \in Connections : Reads(d)'
  BY DEF IInv, TypeOK, Rows, Steps, Transaction, Reads, Reply, Goto, KeyOf
<1>4. OneReservation'
  BY DEF IInv, TypeOK, Rows, Steps, Transaction, OneReservation, Reply, Goto, KeyOf
<1>5. EffectOnce'
  BY DEF IInv, TypeOK, Rows, Steps, Transaction, OneReservation, EffectOnce, Reply, Goto, KeyOf
<1>6. NoStuckKey'
  BY DEF IInv, TypeOK, Rows, Steps, Transaction, NoStuckKey, Reply, Goto, KeyOf
<1>7. AnswersAgree'
  BY DEF IInv, TypeOK, Rows, Steps, Transaction, Reads, Answers, AnswersAgree, Reply, Goto, KeyOf
<1> QED BY <1>1, <1>2, <1>3, <1>4, <1>5, <1>6, <1>7 DEF IInv

LEMMA ReplyErrorInv ==
  ASSUME IInv, NEW c \in Connections, ReplyError(c)
  PROVE  IInv'
<1> USE NoBodyAssumption, NoRowAssumption
<1>1. TypeOK'
  BY DEF IInv, TypeOK, Rows, Steps, Transaction, ReplyError, Goto, KeyOf
<1>2. \A d \in Connections : Transaction(d)'
  BY DEF IInv, TypeOK, Rows, Steps, Transaction, ReplyError, Goto, KeyOf
<1>3. \A d \in Connections : Reads(d)'
  BY DEF IInv, TypeOK, Rows, Steps, Transaction, Reads, ReplyError, Goto, KeyOf
<1>4. OneReservation'
  BY DEF IInv, TypeOK, Rows, Steps, Transaction, OneReservation, ReplyError, Goto, KeyOf
<1> QED BY <1>1, <1>2, <1>3, <1>4, Undisturbed DEF IInv, ReplyError

LEMMA CrashInv ==
  ASSUME IInv, NEW c \in Connections, Crash(c)
  PROVE  IInv'
<1> USE NoBodyAssumption, NoRowAssumption
<1>1. TypeOK'
  BY DEF IInv, TypeOK, Rows, Steps, Transaction, Crash, Discard, Goto, KeyOf
<1>2. \A d \in Connections : Transaction(d)'
  BY DEF IInv, TypeOK, Rows, Steps, Transaction, Crash, Discard, Goto, KeyOf
<1>3. \A d \in Connections : Reads(d)'
  BY DEF IInv, TypeOK, Rows, Steps, Transaction, Reads, Crash, Discard, Goto, KeyOf
<1>4. OneReservation'
  BY DEF IInv, TypeOK, Rows, Steps, Transaction, OneReservation, Crash, Discard, Goto, KeyOf
<1> QED BY <1>1, <1>2, <1>3, <1>4, Undisturbed DEF IInv, Crash

-----------------------------------------------------------------------------
(* Every step *)

LEMMA NextInv ==
  ASSUME IInv, [Next]_idempotencyVars
  PROVE  IInv'
<1>1. CASE UNCHANGED idempotencyVars
  BY <1>1 DEF idempotencyVars, IInv, TypeOK, Transaction, Reads, OneReservation,
     EffectOnce, NoStuckKey, AnswersAgree, KeyOf
<1>2. ASSUME NEW k \in Keys, Expire(k) PROVE IInv'
  BY <1>2, ExpireInv
<1>3. ASSUME NEW c \in Connections, NEW k \in Keys, NEW h \in Hashes, Receive(c, k, h)
      PROVE  IInv'
  BY <1>3, ReceiveInv
<1>4. ASSUME NEW c \in Connections, Advance(c) PROVE IInv'
  BY <1>4, ReserveInv, FindExistingInv, ReplayInv, ConflictInv, OperationReturnsInv,
     CompleteInv, CommitInv, RollbackInv, ReplyInv, ReplyErrorInv DEF Advance
<1>5. ASSUME NEW c \in Connections, Fail(c) PROVE IInv'
  BY <1>5, ThrowInv, CommitUnacknowledgedInv, CrashInv DEF Fail
<1> QED BY <1>1, <1>2, <1>3, <1>4, <1>5 DEF Next

\* The invariant holds in every reachable state, whatever the constants are.
THEOREM Invariance == Spec => []IInv
BY InitInv, NextInv, PTL DEF Spec

\* Every variable keeps its type in every behaviour of the transactions.
THEOREM TypeCorrect == Spec => []TypeOK
<1>1. IInv => TypeOK
  BY DEF IInv
<1> QED BY <1>1, Invariance, PTL

\* However many duplicates, retries, crashes and lost acknowledgements there are,
\* the effect of a key is committed at most once, together with its record.
THEOREM EffectOnceHolds == Spec => []EffectOnce
<1>1. IInv => EffectOnce
  BY DEF IInv
<1> QED BY <1>1, Invariance, PTL

\* No key is left with a committed record that execute can never replay.
THEOREM NoStuckKeyHolds == Spec => []NoStuckKey
<1>1. IInv => NoStuckKey
  BY DEF IInv
<1> QED BY <1>1, Invariance, PTL

\* All callers of one key receive the body of its only execution.
THEOREM AnswersAgreeHolds == Spec => []AnswersAgree
<1>1. IInv => AnswersAgree
  BY DEF IInv
<1> QED BY <1>1, Invariance, PTL

\* No two open transactions hold the reservation of one key.
THEOREM OneReservationHolds == Spec => []OneReservation
<1>1. IInv => OneReservation
  BY DEF IInv
<1> QED BY <1>1, Invariance, PTL

\* One transaction, one effect, one complete record and one answer for each key,
\* for any number of connections, keys, contents and responses.
THEOREM DecidedOnceHolds == Spec => []DecidedOnce
<1>1. IInv => DecidedOnce
  BY DEF IInv, DecidedOnce
<1> QED BY <1>1, Invariance, PTL

-----------------------------------------------------------------------------
(* Action property and refinement *)

\* A committed record is written by the COMMIT that finds none, and by no other step.
LEMMA FinalStep ==
  ASSUME IInv, [Next]_idempotencyVars
  PROVE  \A k \in Keys : table[k] # NoRow => table'[k] = table[k]
<1>1. CASE UNCHANGED idempotencyVars
  BY <1>1 DEF idempotencyVars
<1>2. ASSUME NEW c \in Connections, Commit(c) \/ CommitUnacknowledged(c)
      PROVE  \A k \in Keys : table[k] # NoRow => table'[k] = table[k]
  BY <1>2 DEF IInv, TypeOK, OneReservation, Commit, CommitUnacknowledged, Publish
<1>3. ASSUME Next, ~ \E c \in Connections : Commit(c) \/ CommitUnacknowledged(c)
      PROVE  UNCHANGED table
  BY <1>3 DEF Next, Advance, Fail, Receive, Reserve, FindExisting, Replay, Conflict,
     OperationReturns, Throw, Complete, Rollback, Reply, ReplyError, Crash, Expire
<1> QED BY <1>1, <1>2, <1>3

\* Records are final: a key keeps its first committed outcome, expired or not.
THEOREM RecordsAreFinalHolds == Spec => RecordsAreFinal
<1>1. IInv /\ [Next]_idempotencyVars
        => [\A k \in Keys : table[k] # NoRow => table'[k] = table[k]]_idempotencyVars
  BY FinalStep
<1> QED BY <1>1, Invariance, PTL DEF Spec, RecordsAreFinal

\* The initial states are initial states of the promise.
LEMMA PromiseInit == Init => Promise!Init
BY DEF Init, Promise!Init, Decided

\* COMMIT of a new record decides the key, or changes nothing the promise shows.
LEMMA PublishDecides ==
  ASSUME IInv, NEW c \in Connections, pc[c] = "commit", Publish(c), UNCHANGED answers
  PROVE  [Promise!Next]_(Promise!vars)
<1> DEFINE k == KeyOf(c)
<1>0. k \in Keys
  BY DEF IInv, TypeOK, KeyOf
<1>1. CASE staged[c] = NoRow
  <2>1. Decided' = Decided
    BY <1>1 DEF Publish, Decided
  <2> QED BY <2>1 DEF Promise!vars
<1>2. CASE staged[c] # NoRow
  <2> DEFINE o == [hash |-> staged[c].hash, body |-> staged[c].body]
  <2>1. table[k] = NoRow /\ staged[c] \in Rows /\ staged[c].body \in Bodies
    BY <1>2 DEF IInv, TypeOK, Transaction, OneReservation
  <2>2. o \in Promise!Outcomes
    BY <2>1 DEF Rows, Promise!Outcomes
  <2>3. table' = [table EXCEPT ![k] = staged[c]] /\ table \in [Keys -> Rows \cup {NoRow}]
    BY <1>2 DEF Publish, IInv, TypeOK
  <2>4. Decided[k] = NoRow
    BY <1>0, <2>1 DEF Decided
  <2>5. Decided' = [Decided EXCEPT ![k] = o]
    BY <1>0, <1>2, <2>3 DEF Decided
  <2> QED BY <1>0, <2>2, <2>4, <2>5 DEF Promise!Next, Promise!Decide
<1> QED BY <1>1, <1>2

\* The response of a call repeats the decision on its key.
LEMMA ReplyAnswers ==
  ASSUME IInv, NEW c \in Connections, Reply(c)
  PROVE  Promise!Next
<1> DEFINE k == KeyOf(c)
<1>1. k \in Keys /\ table[k] # NoRow /\ table[k] \in Rows
       /\ table[k].hash = request[c].hash /\ table[k].body = value[c]
  BY DEF IInv, TypeOK, Reads, Reply, KeyOf
<1>2. Decided[k] = [hash |-> request[c].hash, body |-> value[c]]
  BY <1>1 DEF Decided
<1>3. Decided[k] # NoRow
  BY <1>1, <1>2, NoRowAssumption DEF IInv, TypeOK, Reads, Reply, Rows
<1>4. Decided' = Decided
  BY DEF Reply, Decided
<1>5. answers' = answers \cup {[key |-> k, hash |-> Decided[k].hash, body |-> Decided[k].body]}
  BY <1>2 DEF Reply
<1> QED BY <1>1, <1>3, <1>4, <1>5 DEF Promise!Next, Promise!Answer

\* Every other step is invisible to the callers.
LEMMA PromiseStep ==
  ASSUME IInv, [Next]_idempotencyVars
  PROVE  [Promise!Next]_(Promise!vars)
<1>1. CASE UNCHANGED <<table, answers>>
  BY <1>1 DEF Promise!vars, Decided
<1>2. ASSUME NEW c \in Connections, Commit(c) \/ CommitUnacknowledged(c)
      PROVE  [Promise!Next]_(Promise!vars)
  BY <1>2, PublishDecides DEF Commit, CommitUnacknowledged
<1>3. ASSUME NEW c \in Connections, Reply(c)
      PROVE  [Promise!Next]_(Promise!vars)
  BY <1>3, ReplyAnswers
<1>4. ASSUME Next, ~ \E c \in Connections : Commit(c) \/ CommitUnacknowledged(c) \/ Reply(c)
      PROVE  UNCHANGED <<table, answers>>
  BY <1>4 DEF Next, Advance, Fail, Receive, Reserve, FindExisting, Replay, Conflict,
     OperationReturns, Throw, Complete, Rollback, ReplyError, Crash, Expire
<1>5. CASE UNCHANGED idempotencyVars
  BY <1>1, <1>5 DEF idempotencyVars
<1> QED BY <1>1, <1>2, <1>3, <1>4, <1>5

\* The protocol implements the promise: callers of a key see one final decision.
THEOREM Implementation == Spec => ImplementsPromise
<1>1. IInv /\ [Next]_idempotencyVars => [Promise!Next]_(Promise!vars)
  BY PromiseStep
<1> QED BY <1>1, PromiseInit, Invariance, PTL DEF Spec, ImplementsPromise, Promise!Spec
=============================================================================
