---------------------------- MODULE Idempotency ----------------------------
(***************************************************************************)
(* api/idempotency/idempotency.service.ts run inside the transaction that  *)
(* api/database/database.service.ts opens around every idempotent route.   *)
(*                                                                         *)
(* A connection of the pool serves one call at a time.  The transaction is *)
(* PostgreSQL's READ COMMITTED: the row a call inserts is staged, seen by  *)
(* nobody else until COMMIT, but the unique index makes a second INSERT of *)
(* the same key wait for the first transaction to end (the guard of        *)
(* Reserve and FindExisting).  Connections can die at any point, COMMIT    *)
(* can succeed without its acknowledgement arriving, and callers retry     *)
(* with the same key whenever they like, with the same content or not.     *)
(***************************************************************************)
EXTENDS Naturals

CONSTANTS Connections, \* clients of the pg pool
          Keys,        \* unique (actor_id, method, route, idempotency_key)
          Hashes,      \* idempotencyRequestHash of a payload
          Bodies,      \* values the protected operation may return
          NoBody,      \* response_body IS NULL
          NoRow        \* no record of the key

ASSUME NoBodyAssumption == NoBody \notin Bodies
ASSUME NoRowAssumption ==
  /\ NoRow \notin [hash : Hashes, status : {"processing", "completed"}, body : Bodies \cup {NoBody}]
  /\ NoRow \notin [hash : Hashes, body : Bodies]

VARIABLES pc,       \* where each connection's call is
          request,  \* the call: its key and the hash of its content
          staged,   \* the row an open transaction has written
          mutated,  \* whether the open transaction holds the business effect
          value,    \* what execute is about to return
          table,    \* committed api_idempotency_records
          expired,  \* keys whose expires_at has passed
          effects,  \* how many times a key's effect has been committed
          answers   \* every successful response some caller received

txVars == <<pc, request, staged, mutated, value>>
idempotencyVars == <<pc, request, staged, mutated, value, table, expired, effects, answers>>

Rows == [hash : Hashes, status : {"processing", "completed"}, body : Bodies \cup {NoBody}]
Answers == [key : Keys, hash : Hashes, body : Bodies]
Steps == {"idle", "reserve", "lookup", "operate", "complete", "commit",
          "reply", "rollback", "failed"}

TypeOK ==
  /\ pc \in [Connections -> Steps]
  /\ request \in [Connections -> [key : Keys, hash : Hashes]]
  /\ staged \in [Connections -> Rows \cup {NoRow}]
  /\ mutated \in [Connections -> BOOLEAN]
  /\ value \in [Connections -> Bodies \cup {NoBody}]
  /\ table \in [Keys -> Rows \cup {NoRow}]
  /\ expired \in [Keys -> BOOLEAN]
  /\ effects \in [Keys -> Nat]
  /\ answers \subseteq Answers

Init ==
  /\ pc = [c \in Connections |-> "idle"]
  /\ request \in [Connections -> [key : Keys, hash : Hashes]]
  /\ staged = [c \in Connections |-> NoRow]
  /\ mutated = [c \in Connections |-> FALSE]
  /\ value = [c \in Connections |-> NoBody]
  /\ table = [k \in Keys |-> NoRow]
  /\ expired = [k \in Keys |-> FALSE]
  /\ effects = [k \in Keys |-> 0]
  /\ answers = {}

Goto(c, step) == pc' = [pc EXCEPT ![c] = step]

KeyOf(c) == request[c].key

\* Mutant: a table without the unique constraint.
ReservedWithoutIndex(k) == FALSE

\* The unique index makes an INSERT wait while another transaction that has
\* inserted the same key is still open.
Reserved(k) == \E d \in Connections : staged[d] # NoRow /\ KeyOf(d) = k

\* Mutant: the request hash is not compared.
ReplayableWhateverTheHash(row, hash, tooOld) ==
  ~tooOld /\ row.status = "completed" /\ row.body # NoBody

\* The guards of execute before it hands back the stored response.
Replayable(row, hash, tooOld) ==
  /\ row.hash = hash
  /\ ~tooOld
  /\ row.status = "completed"
  /\ row.body # NoBody

-----------------------------------------------------------------------------
(* One call, statement by statement *)

\* BEGIN, set_config, validateIdempotencyKey and the request hash.
Receive(c, k, h) ==
  /\ pc[c] = "idle"
  /\ request' = [request EXCEPT ![c] = [key |-> k, hash |-> h]]
  /\ value' = [value EXCEPT ![c] = NoBody]
  /\ Goto(c, "reserve")
  /\ UNCHANGED <<staged, mutated, table, expired, effects, answers>>

\* Mutant: the INSERT does not conflict with a committed record.
ReserveAgain(c) ==
  /\ pc[c] = "reserve"
  /\ ~Reserved(KeyOf(c))
  /\ staged' = [staged EXCEPT ![c] =
       [hash |-> request[c].hash, status |-> "processing", body |-> NoBody]]
  /\ Goto(c, "operate")
  /\ UNCHANGED <<request, mutated, value, table, expired, effects, answers>>

\* INSERT ... 'processing' ON CONFLICT DO NOTHING returned a row.
Reserve(c) ==
  /\ pc[c] = "reserve"
  /\ ~Reserved(KeyOf(c))
  /\ table[KeyOf(c)] = NoRow
  /\ staged' = [staged EXCEPT ![c] =
       [hash |-> request[c].hash, status |-> "processing", body |-> NoBody]]
  /\ Goto(c, "operate")
  /\ UNCHANGED <<request, mutated, value, table, expired, effects, answers>>

\* The same INSERT, after any wait, met a committed record.
FindExisting(c) ==
  /\ pc[c] = "reserve"
  /\ ~Reserved(KeyOf(c))
  /\ table[KeyOf(c)] # NoRow
  /\ Goto(c, "lookup")
  /\ UNCHANGED <<request, staged, mutated, value, table, expired, effects, answers>>

\* Mutant: the stored body is not loaded.
ReplayWithoutBody(c) ==
  /\ pc[c] = "lookup"
  /\ Replayable(table[KeyOf(c)], request[c].hash, expired[KeyOf(c)])
  /\ Goto(c, "commit")
  /\ UNCHANGED <<request, staged, mutated, value, table, expired, effects, answers>>

\* SELECT of the existing record: the stored body is handed back ...
Replay(c) ==
  /\ pc[c] = "lookup"
  /\ Replayable(table[KeyOf(c)], request[c].hash, expired[KeyOf(c)])
  /\ value' = [value EXCEPT ![c] = table[KeyOf(c)].body]
  /\ Goto(c, "commit")
  /\ UNCHANGED <<request, staged, mutated, table, expired, effects, answers>>

\* ... or one of the ConflictExceptions is thrown.
Conflict(c) ==
  /\ pc[c] = "lookup"
  /\ ~Replayable(table[KeyOf(c)], request[c].hash, expired[KeyOf(c)])
  /\ Goto(c, "rollback")
  /\ UNCHANGED <<request, staged, mutated, value, table, expired, effects, answers>>

\* await operation(): the business statements ran in this transaction.
OperationReturns(c, b) ==
  /\ pc[c] = "operate"
  /\ value' = [value EXCEPT ![c] = b]
  /\ mutated' = [mutated EXCEPT ![c] = TRUE]
  /\ Goto(c, "complete")
  /\ UNCHANGED <<request, staged, table, expired, effects, answers>>

\* A statement or the operation itself throws: withActor's catch.
Throw(c) ==
  /\ pc[c] \in {"reserve", "lookup", "operate", "complete", "commit"}
  /\ Goto(c, "rollback")
  /\ UNCHANGED <<request, staged, mutated, value, table, expired, effects, answers>>

\* Mutant: the UPDATE to 'completed' is missing.
CompleteWithoutUpdate(c) ==
  /\ pc[c] = "complete"
  /\ Goto(c, "commit")
  /\ UNCHANGED <<request, staged, mutated, value, table, expired, effects, answers>>

\* UPDATE ... SET status = 'completed' WHERE status = 'processing'.
Complete(c) ==
  /\ pc[c] = "complete"
  /\ staged[c] # NoRow /\ staged[c].status = "processing"
  /\ staged' = [staged EXCEPT ![c] =
       [hash |-> staged[c].hash, status |-> "completed", body |-> value[c]]]
  /\ Goto(c, "commit")
  /\ UNCHANGED <<request, mutated, value, table, expired, effects, answers>>

-----------------------------------------------------------------------------
(* The end of the transaction *)

\* Mutant: a replay overwrites the record it read.
PublishAlways(c) ==
  /\ table' = [table EXCEPT ![KeyOf(c)] = staged[c]]
  /\ effects' = IF mutated[c] THEN [effects EXCEPT ![KeyOf(c)] = @ + 1] ELSE effects
  /\ staged' = [staged EXCEPT ![c] = NoRow]
  /\ mutated' = [mutated EXCEPT ![c] = FALSE]

\* Mutant: the connection goes back to the pool with its transaction open.
PublishWithoutRelease(c) ==
  /\ table' = IF staged[c] = NoRow THEN table
              ELSE [table EXCEPT ![KeyOf(c)] = staged[c]]
  /\ effects' = IF mutated[c] THEN [effects EXCEPT ![KeyOf(c)] = @ + 1] ELSE effects
  /\ UNCHANGED <<staged, mutated>>

\* What COMMIT publishes: the record and the effect, or nothing on a replay.
Publish(c) ==
  /\ table' = IF staged[c] = NoRow THEN table
              ELSE [table EXCEPT ![KeyOf(c)] = staged[c]]
  /\ effects' = IF mutated[c] THEN [effects EXCEPT ![KeyOf(c)] = @ + 1] ELSE effects
  /\ staged' = [staged EXCEPT ![c] = NoRow]
  /\ mutated' = [mutated EXCEPT ![c] = FALSE]

Commit(c) ==
  /\ pc[c] = "commit"
  /\ Publish(c)
  /\ Goto(c, "reply")
  /\ UNCHANGED <<request, value, expired, answers>>

\* The server commits but the acknowledgement is lost: withActor's catch runs
\* ROLLBACK on a finished transaction and throws.
CommitUnacknowledged(c) ==
  /\ pc[c] = "commit"
  /\ Publish(c)
  /\ Goto(c, "failed")
  /\ UNCHANGED <<request, value, expired, answers>>

\* Mutant: an error path without ROLLBACK.
DiscardNothing(c) == UNCHANGED <<staged, mutated>>

Discard(c) ==
  /\ staged' = [staged EXCEPT ![c] = NoRow]
  /\ mutated' = [mutated EXCEPT ![c] = FALSE]

Rollback(c) ==
  /\ pc[c] = "rollback"
  /\ Discard(c)
  /\ Goto(c, "failed")
  /\ UNCHANGED <<request, value, table, expired, effects, answers>>

\* The response reaches the caller.
Reply(c) ==
  /\ pc[c] = "reply"
  /\ answers' = answers \cup {[key |-> KeyOf(c), hash |-> request[c].hash, body |-> value[c]]}
  /\ Goto(c, "idle")
  /\ UNCHANGED <<request, staged, mutated, value, table, expired, effects>>

ReplyError(c) ==
  /\ pc[c] = "failed"
  /\ Goto(c, "idle")
  /\ UNCHANGED <<request, staged, mutated, value, table, expired, effects, answers>>

\* The process or its connection dies: PostgreSQL aborts the open transaction.
\* At "reply" this is a response lost on its way.
Crash(c) ==
  /\ pc[c] # "idle"
  /\ Discard(c)
  /\ Goto(c, "idle")
  /\ UNCHANGED <<request, value, table, expired, effects, answers>>

\* 24 hours pass since the record was reserved.
Expire(k) ==
  /\ table[k] # NoRow
  /\ ~expired[k]
  /\ expired' = [expired EXCEPT ![k] = TRUE]
  /\ UNCHANGED <<pc, request, staged, mutated, value, table, effects, answers>>

-----------------------------------------------------------------------------
Advance(c) ==
  \/ Reserve(c) \/ FindExisting(c) \/ Replay(c) \/ Conflict(c)
  \/ \E b \in Bodies : OperationReturns(c, b)
  \/ Complete(c) \/ Commit(c) \/ Rollback(c) \/ Reply(c) \/ ReplyError(c)

Fail(c) == Throw(c) \/ CommitUnacknowledged(c) \/ Crash(c)

Next ==
  \/ \E c \in Connections :
       \/ \E k \in Keys, h \in Hashes : Receive(c, k, h)
       \/ Advance(c)
       \/ Fail(c)
  \/ \E k \in Keys : Expire(k)

Spec == Init /\ [][Next]_idempotencyVars

\* A connection that can execute its next statement eventually does.  Failures are
\* never forced: a call that waits on the unique index is not rescued by an error.
FairSpec == Spec /\ \A c \in Connections : WF_idempotencyVars(Advance(c))

-----------------------------------------------------------------------------
(* Properties *)

\* Retries, concurrent duplicates, lost acknowledgements and crashes never make
\* the effect of a key happen twice, and a record stands for exactly one effect:
\* neither is ever committed without the other.
EffectOnce == \A k \in Keys : effects[k] = IF table[k] = NoRow THEN 0 ELSE 1

\* No committed record is left in 'processing' (or without its response), which
\* would make execute answer "ainda está em processamento" for that key forever.
NoStuckKey == \A k \in Keys : table[k] # NoRow =>
  table[k].status = "completed" /\ table[k].body # NoBody

\* Everyone who was ever answered for a key sent the same content and received
\* the body of the one committed execution.
AnswersAgree == \A a \in answers :
  /\ table[a.key] # NoRow
  /\ table[a.key].hash = a.hash
  /\ table[a.key].body = a.body

\* At most one open transaction holds the reservation of a key, and none does
\* once the key has a committed record.
OneReservation == \A c, d \in Connections :
  staged[c] # NoRow =>
    /\ table[KeyOf(c)] = NoRow
    /\ (staged[d] # NoRow /\ KeyOf(c) = KeyOf(d)) => c = d

\* A key is decided once, whatever retries, duplicates, crashes and lost
\* acknowledgements there are: by one transaction, with one effect and one
\* complete record, which is what everyone who is answered gets.
DecidedOnce == OneReservation /\ EffectOnce /\ NoStuckKey /\ AnswersAgree

\* A committed record is never rewritten or removed, expired or not.
RecordsAreFinal == [][\A k \in Keys : table[k] # NoRow => table'[k] = table[k]]_idempotencyVars

\* Once a key is decided, every call using it ends: nobody keeps waiting on the
\* unique index.
DecidedKeyAnswersAll == \A c \in Connections, k \in Keys :
  (table[k] # NoRow /\ KeyOf(c) = k /\ pc[c] # "idle") ~> (pc[c] = "idle")

\* A reservation is always given back, by COMMIT or by ROLLBACK.
ReservationsEnd == \A c \in Connections : (staged[c] # NoRow) ~> (staged[c] = NoRow)

\* Whoever holds a key gives it back, and whoever waits for one gets an answer.
WaitsEnd == ReservationsEnd /\ DecidedKeyAnswersAll

\* The promise to the callers, with no transactions in it.
Decided == [k \in Keys |->
  IF table[k] = NoRow THEN NoRow ELSE [hash |-> table[k].hash, body |-> table[k].body]]

Promise == INSTANCE KeyedOnce WITH Undecided <- NoRow, decided <- Decided

ImplementsPromise == Promise!Spec
=============================================================================
