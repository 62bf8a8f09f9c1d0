--------------------------- MODULE PrivateUpload ---------------------------
(***************************************************************************)
(* The image attachments of one service request: the upload handler        *)
(* (api/marketplace/marketplace.service.ts) run as the protected operation *)
(* of Idempotency, the private S3 bucket, and the daily reconciliation     *)
(* (scripts/private-storage-reconciliation.mjs).  Bucket and database      *)
(* share no transaction: the handler puts the object before COMMIT and     *)
(* removes it after a failure, and the reconciliation deletes what crashes *)
(* left behind.                                                            *)
(*                                                                         *)
(* The attachment id and the object key are derived from the idempotency   *)
(* key, so a member of Keys names the call, the metadata row and the       *)
(* object.  Content is its hash; an object's ETag is its content.          *)
(***************************************************************************)
EXTENDS Idempotency, FiniteSets

CONSTANTS MaximumCount, \* maximumRequestAttachmentCount
          MaxDeletes,   \* deletions per reconciliation
          NoObject      \* no object, or no metadata row

ASSUME KeysAreOrdered == Keys \subseteq Nat  \* the order of localeCompare
ASSUME NoObjectAssumption == NoObject \notin Hashes
ASSUME MaximumCountAssumption == MaximumCount \in Nat

VARIABLES phase,    \* how far each upload is inside its operation
          named,    \* uploads whose objectKey is assigned: their catch removes it
          attached, \* committed service_request_attachments, by their content
          open,     \* whether the request still takes attachments
          objects,  \* the bucket
          aged,     \* objects last modified more than 24 hours ago
          run       \* the reconciliation under way

storeVars == <<attached, open, objects, aged>>
vars == <<pc, request, staged, mutated, value, table, expired, effects, answers,
          phase, named, attached, open, objects, aged, run>>

Contents == Hashes \cup {NoObject}

\* stale: objects older than the cutoff of the run and not modified since; a
\* LastModified comparison made later in the run gives the same answer.
NoRun == [at |-> "idle", stale |-> {}, gotRefs |-> FALSE, refs |-> {},
          listed |-> [k \in Keys |-> NoObject], todo |-> {}]

UploadTypeOK ==
  /\ TypeOK
  /\ phase \in [Connections -> {"none", "checked", "put", "inserted"}]
  /\ named \in [Connections -> BOOLEAN]
  /\ attached \in [Keys -> Contents]
  /\ open \in BOOLEAN
  /\ objects \in [Keys -> Contents]
  /\ aged \in [Keys -> BOOLEAN]
  /\ run \in [at : {"idle", "list", "refs", "recheck", "sweep", "delete"},
              stale : SUBSET Keys, gotRefs : BOOLEAN, refs : SUBSET Keys,
              listed : [Keys -> Contents], todo : SUBSET Keys]

UploadInit ==
  /\ Init
  /\ phase = [c \in Connections |-> "none"]
  /\ named = [c \in Connections |-> FALSE]
  /\ attached = [k \in Keys |-> NoObject]
  /\ open = TRUE
  /\ objects = [k \in Keys |-> NoObject]
  /\ aged = [k \in Keys |-> FALSE]
  /\ run = NoRun

Attachments == {k \in Keys : attached[k] # NoObject}

Enter(c, p) == phase' = [phase EXCEPT ![c] = p]

-----------------------------------------------------------------------------
(* The bucket *)

\* PutObject: the bytes are replaced and LastModified is now.
StorePut(k, content) ==
  /\ objects' = [objects EXCEPT ![k] = content]
  /\ aged' = [aged EXCEPT ![k] = FALSE]
  /\ run' = [run EXCEPT !.stale = @ \ {k}]

StoreDelete(k) ==
  /\ objects' = [objects EXCEPT ![k] = NoObject]
  /\ aged' = [aged EXCEPT ![k] = FALSE]

\* 24 hours pass without a new put.  An upload ends long before that.
Age(k) ==
  /\ objects[k] # NoObject
  /\ ~aged[k]
  /\ \A c \in Connections : named[c] => KeyOf(c) # k
  /\ aged' = [aged EXCEPT ![k] = TRUE]
  /\ UNCHANGED <<idempotencyVars, phase, named, attached, open, objects, run>>

-----------------------------------------------------------------------------
(* uploadRequestAttachment *)

Start(c, k, h) ==
  /\ Receive(c, k, h)
  /\ UNCHANGED <<phase, named, storeVars, run>>

\* The statements of execute and of the transaction that touch no attachment.
Protocol(c) ==
  /\ Reserve(c) \/ FindExisting(c) \/ Replay(c) \/ Conflict(c) \/ Complete(c) \/ Reply(c)
  /\ UNCHANGED <<phase, named, storeVars, run>>

\* The request is the caller's and open, and it has room, as far as committed.
CheckRequest(c) ==
  /\ pc[c] = "operate" /\ phase[c] = "none"
  /\ open
  /\ Cardinality(Attachments) < MaximumCount
  /\ Enter(c, "checked")
  /\ UNCHANGED <<idempotencyVars, named, storeVars, run>>

\* Mutant: an object left by an earlier attempt is kept.
PutUnlessPresent(c) ==
  /\ pc[c] = "operate" /\ phase[c] = "checked"
  /\ named' = [named EXCEPT ![c] = TRUE]
  /\ IF objects[KeyOf(c)] = NoObject THEN StorePut(KeyOf(c), request[c].hash)
     ELSE UNCHANGED <<objects, aged, run>>
  /\ Enter(c, "put")
  /\ UNCHANGED <<idempotencyVars, attached, open>>

\* objectKey is assigned and storage.put succeeds.
Put(c) ==
  /\ pc[c] = "operate" /\ phase[c] = "checked"
  /\ named' = [named EXCEPT ![c] = TRUE]
  /\ StorePut(KeyOf(c), request[c].hash)
  /\ Enter(c, "put")
  /\ UNCHANGED <<idempotencyVars, attached, open>>

\* storage.put throws, having stored the object or not.
PutThrows(c) ==
  /\ phase[c] = "checked"
  /\ pc[c] = "operate"
  /\ Throw(c)
  /\ named' = [named EXCEPT ![c] = TRUE]
  /\ StorePut(KeyOf(c), request[c].hash) \/ UNCHANGED <<objects, aged, run>>
  /\ UNCHANGED <<phase, attached, open>>

\* Mutant: the trigger counts without the advisory lock.
InsertMetadataUnlocked(c) ==
  /\ pc[c] = "operate" /\ phase[c] = "put"
  /\ Cardinality(Attachments) < MaximumCount
  /\ open
  /\ Enter(c, "inserted")
  /\ UNCHANGED <<idempotencyVars, named, storeVars, run>>

\* INSERT of the metadata row: the trigger takes the advisory lock of the
\* request, held until the transaction ends, and counts again; the insert policy
\* checks the status of the request again.
InsertMetadata(c) ==
  /\ pc[c] = "operate" /\ phase[c] = "put"
  /\ \A d \in Connections : phase[d] # "inserted"
  /\ Cardinality(Attachments) < MaximumCount
  /\ open
  /\ Enter(c, "inserted")
  /\ UNCHANGED <<idempotencyVars, named, storeVars, run>>

\* Mutant: the handler returns without the INSERT of the metadata.
ReturnWithoutMetadata(c) ==
  /\ phase[c] \in {"put", "inserted"}
  /\ \E b \in Bodies : OperationReturns(c, b)
  /\ UNCHANGED <<phase, named, storeVars, run>>

ReturnAttachment(c) ==
  /\ phase[c] = "inserted"
  /\ \E b \in Bodies : OperationReturns(c, b)
  /\ UNCHANGED <<phase, named, storeVars, run>>

\* Any other statement throws.
Abort(c) ==
  /\ Throw(c)
  /\ UNCHANGED <<phase, named, storeVars, run>>

\* Mutant: the response body is stored where the hash belongs.
AttachBody(c) ==
  /\ attached' = IF phase[c] = "inserted"
                 THEN [attached EXCEPT ![KeyOf(c)] = value[c]] ELSE attached
  /\ Enter(c, "none")
  /\ UNCHANGED <<open, objects, aged, run>>

\* COMMIT publishes the metadata with the idempotency record.
Attach(c) ==
  /\ attached' = IF phase[c] = "inserted"
                 THEN [attached EXCEPT ![KeyOf(c)] = request[c].hash] ELSE attached
  /\ Enter(c, "none")
  /\ UNCHANGED <<open, objects, aged, run>>

CommitUpload(c) ==
  /\ Commit(c)
  /\ Attach(c)
  /\ named' = [named EXCEPT ![c] = FALSE]

CommitUploadUnacknowledged(c) ==
  /\ CommitUnacknowledged(c)
  /\ Attach(c)
  /\ UNCHANGED named

RollbackUpload(c) ==
  /\ Rollback(c)
  /\ Enter(c, "none")
  /\ UNCHANGED <<named, storeVars, run>>

\* The catch of the handler, outside the transaction:
\* if (objectKey) await this.storage.remove(objectKey), whose errors are dropped.
Compensate(c) ==
  /\ pc[c] = "failed" /\ named[c]
  /\ named' = [named EXCEPT ![c] = FALSE]
  /\ StoreDelete(KeyOf(c)) \/ UNCHANGED <<objects, aged>>
  /\ UNCHANGED <<idempotencyVars, phase, attached, open, run>>

FailUpload(c) ==
  /\ ~named[c]
  /\ ReplyError(c)
  /\ UNCHANGED <<phase, named, storeVars, run>>

CrashUpload(c) ==
  /\ Crash(c)
  /\ Enter(c, "none")
  /\ named' = [named EXCEPT ![c] = FALSE]
  /\ UNCHANGED <<storeVars, run>>

\* A proposal of the request is accepted or the request is cancelled.
CloseRequest ==
  /\ open
  /\ open' = FALSE
  /\ UNCHANGED <<idempotencyVars, phase, named, attached, objects, aged, run>>

ExpireRecord(k) ==
  /\ Expire(k)
  /\ UNCHANGED <<phase, named, storeVars, run>>

-----------------------------------------------------------------------------
(* reconcilePrivateStorage with apply *)

\* Mutant: a cutoff of zero age.
RunStartsWithoutCutoff ==
  /\ run.at = "idle"
  /\ run' = [NoRun EXCEPT !.at = "list", !.stale = {k \in Keys : objects[k] # NoObject}]
  /\ UNCHANGED <<idempotencyVars, phase, named, storeVars>>

\* pg_try_advisory_lock, the run row, and the cutoff of 24 hours.
RunStarts ==
  /\ run.at = "idle"
  /\ run' = [NoRun EXCEPT !.at = "list", !.stale = {k \in Keys : aged[k]}]
  /\ UNCHANGED <<idempotencyVars, phase, named, storeVars>>

\* Promise.all([loadReferences, listObjects]): either may be answered first.
LoadReferences ==
  /\ run.at \in {"list", "refs"} /\ ~run.gotRefs
  /\ run' = [run EXCEPT !.gotRefs = TRUE, !.refs = Attachments,
                        !.at = IF @ = "refs" THEN "recheck" ELSE @]
  /\ UNCHANGED <<idempotencyVars, phase, named, storeVars>>

ListObjects ==
  /\ run.at = "list"
  /\ run' = [run EXCEPT
       !.listed = [k \in Keys |-> IF k \in run.stale THEN objects[k] ELSE NoObject],
       !.at = IF run.gotRefs THEN "recheck" ELSE "refs"]
  /\ UNCHANGED <<idempotencyVars, phase, named, storeVars>>

EligibleOrphans == {k \in Keys : run.listed[k] # NoObject} \ run.refs

\* Mutant: the limit is applied before the referenced objects are left out.
CandidatesCutTooEarly ==
  LET listed == {k \in Keys : run.listed[k] # NoObject}
  IN {k \in listed : Cardinality({j \in listed : j < k}) < MaxDeletes} \ run.refs

\* sort(...).slice(0, maxDeletes)
DeletionCandidates ==
  {k \in EligibleOrphans : Cardinality({j \in EligibleOrphans : j < k}) < MaxDeletes}

\* The second reading of the references; candidates now referenced are skipped.
Recheck ==
  /\ run.at = "recheck"
  /\ run' = [run EXCEPT !.todo = DeletionCandidates \ Attachments, !.at = "sweep"]
  /\ UNCHANGED <<idempotencyVars, phase, named, storeVars>>

NextCandidate == CHOOSE k \in run.todo : \A j \in run.todo : k <= j

\* HEAD: gone or changed objects are protected, the others go on to DELETE.
HeadObject ==
  /\ run.at = "sweep" /\ run.todo # {}
  /\ LET k == NextCandidate
         unchanged == objects[k] = run.listed[k] /\ k \in run.stale
     IN run' = IF unchanged THEN [run EXCEPT !.at = "delete"]
               ELSE [run EXCEPT !.todo = @ \ {k}]
  /\ UNCHANGED <<idempotencyVars, phase, named, storeVars>>

\* DELETE with IfMatch: refused when the ETag differs or the object is gone.
ConditionalDelete ==
  /\ run.at = "delete"
  /\ LET k == NextCandidate
     IN /\ IF objects[k] = run.listed[k] THEN StoreDelete(k)
           ELSE UNCHANGED <<objects, aged>>
        /\ run' = [run EXCEPT !.at = "sweep", !.todo = @ \ {k}]
  /\ UNCHANGED <<idempotencyVars, phase, named, attached, open>>

\* finishRun and the release of the lock.
RunEnds ==
  /\ run.at = "sweep" /\ run.todo = {}
  /\ run' = NoRun
  /\ UNCHANGED <<idempotencyVars, phase, named, storeVars>>

\* An error or a crash ends the run; the lock goes with the session.
RunFails ==
  /\ run.at # "idle"
  /\ ~(run.at = "sweep" /\ run.todo = {})
  /\ run' = NoRun
  /\ UNCHANGED <<idempotencyVars, phase, named, storeVars>>

-----------------------------------------------------------------------------
UploadAdvance(c) ==
  \/ Protocol(c) \/ CheckRequest(c) \/ Put(c) \/ PutThrows(c) \/ InsertMetadata(c)
  \/ ReturnAttachment(c) \/ Abort(c) \/ CommitUpload(c) \/ CommitUploadUnacknowledged(c)
  \/ RollbackUpload(c) \/ Compensate(c) \/ FailUpload(c)

UploadNext ==
  \/ \E c \in Connections :
       \/ \E k \in Keys, h \in Hashes : Start(c, k, h)
       \/ UploadAdvance(c)
       \/ CrashUpload(c)
  \/ CloseRequest
  \/ \E k \in Keys : ExpireRecord(k)

RunAdvance ==
  LoadReferences \/ ListObjects \/ Recheck \/ HeadObject \/ ConditionalDelete \/ RunEnds

ReconcileNext == RunStarts \/ RunAdvance \/ RunFails

AllNext == UploadNext \/ ReconcileNext \/ \E k \in Keys : Age(k)

UploadSpec == UploadInit /\ [][AllNext]_vars

\* The handlers alone, between two reconciliations.
UploadOnlySpec == UploadInit /\ [][UploadNext]_vars

\* The scheduler starts a run every day, a run goes on, and time passes.
FairUploadSpec ==
  /\ UploadSpec
  /\ \A k \in Keys : WF_vars(Age(k))
  /\ WF_vars(RunStarts) /\ WF_vars(RunAdvance)

-----------------------------------------------------------------------------
(* Properties *)

\* Concurrent uploads with different keys, all of which counted before any of
\* them inserted, never leave a request with more images than its limit.
AttachmentLimit == Cardinality(Attachments) <= MaximumCount

\* Every committed attachment belongs to the committed execution of its key:
\* the replayed response describes the file that was stored, in content too.
AttachmentMatchesRecord == \A k \in Keys :
  IF table[k] = NoRow THEN attached[k] = NoObject ELSE attached[k] = table[k].hash

\* The bytes under the object key of an attachment are those whose SHA-256 its
\* metadata records, even when a failed attempt with the same key and another
\* content wrote the object before.
StoredContentMatches == \A k \in Keys :
  objects[k] # NoObject /\ attached[k] # NoObject => objects[k] = attached[k]

\* What callers were told, what is recorded and what is stored are the same file.
FilesMatchAnswers == AnswersAgree /\ AttachmentMatchesRecord /\ StoredContentMatches

\* A reconciliation candidate that nobody has rewritten since the cutoff has no
\* metadata: without a concurrent put of the same key, the DELETE hits an orphan.
UnchangedCandidatesAreOrphans ==
  run.at \in {"sweep", "delete"} =>
    \A k \in run.todo \cap run.stale : attached[k] = NoObject

\* Once uploads and retries stop, every object whose upload crashed before COMMIT
\* is purged by some later run, however many orphans and attachments sort before
\* it, provided runs do not fail forever.
OrphansArePurged ==
  (<>[][~RunFails]_vars /\ <>[](\A c \in Connections : pc[c] = "idle"))
    => <>[](\A k \in Keys : objects[k] # NoObject => attached[k] # NoObject)

\* The last reconciliation shows no missing reference
\* (tests/system-health.smoke.mjs:1169): every metadata row has its object.
NoMissingReference == \A k \in Attachments : objects[k] # NoObject

\* "Arquivos recentes, referenciados, alterados durante a inspecao [...] permanecem
\* intactos" (docs/operations/private-storage-reconciliation.md:31).
ReferencedFilesStayIntact ==
  [][ConditionalDelete => \A k \in Attachments : objects'[k] = objects[k]]_vars
=============================================================================
