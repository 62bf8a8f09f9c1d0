------------------------ MODULE PrivateUploadProofs ------------------------
(***************************************************************************)
(* Proofs, for any number of connections, keys and contents, of the safety *)
(* of the attachment upload: every upload follows the Idempotency-Key      *)
(* protocol, so what IdempotencyProofs establishes holds of it, and files, *)
(* metadata, records and answers agree whatever the bucket, the            *)
(* reconciliation and the failures do.                                     *)
(***************************************************************************)
EXTENDS PrivateUpload, IdempotencyProofs, FiniteSetTheorems

-----------------------------------------------------------------------------
(* The inductive invariant, on top of IInv *)

UploadTypes ==
  /\ phase \in [Connections -> {"none", "checked", "put", "inserted"}]
  /\ named \in [Connections -> BOOLEAN]
  /\ attached \in [Keys -> Contents]
  /\ open \in BOOLEAN
  /\ objects \in [Keys -> Contents]
  /\ aged \in [Keys -> BOOLEAN]
  /\ run \in [at : {"idle", "list", "refs", "recheck", "sweep", "delete"},
              stale : SUBSET Keys, gotRefs : BOOLEAN, refs : SUBSET Keys,
              listed : [Keys -> Contents], todo : SUBSET Keys]

\* An upload is inside its operation only while it holds the reservation of its
\* key, and it reaches COMMIT with a reservation only through the INSERT.
Phases == \A c \in Connections :
  /\ phase[c] # "none" => staged[c] # NoRow
  /\ pc[c] = "complete" \/ (pc[c] = "commit" /\ staged[c] # NoRow) => phase[c] = "inserted"

\* From its put to its end an upload keeps the object from ageing, and under its
\* key there is its own content or nothing: an earlier attempt with the same key
\* may still remove the object, never replace it.
FreshObjects == \A c \in Connections :
  phase[c] \in {"put", "inserted"} =>
    /\ named[c]
    /\ ~aged[KeyOf(c)]
    /\ KeyOf(c) \notin run.stale
    /\ objects[KeyOf(c)] \in {NoObject, request[c].hash}

\* The advisory lock of the request: one counted insertion at a time, and the
\* count it read still holds.
OneInsertion == \A c \in Connections : phase[c] = "inserted" =>
  /\ \A d \in Connections : phase[d] = "inserted" => c = d
  /\ Cardinality(Attachments) < MaximumCount

UploadInv ==
  /\ UploadTypes
  /\ Phases
  /\ FreshObjects
  /\ OneInsertion
  /\ IsFiniteSet(Attachments)
  /\ AttachmentLimit
  /\ AttachmentMatchesRecord
  /\ StoredContentMatches
  /\ UnchangedCandidatesAreOrphans

-----------------------------------------------------------------------------
(* Every step of an upload is a step of the protocol, or invisible to it *)

\* Whatever the bucket and the reconciliation do, execute sees its own steps only.
LEMMA ProtocolStep ==
  ASSUME [AllNext]_vars
  PROVE  [Next]_idempotencyVars
<1>1. CASE UNCHANGED vars
  BY <1>1 DEF vars, idempotencyVars
<1>2. ASSUME NEW k \in Keys, Age(k) PROVE UNCHANGED idempotencyVars
  BY <1>2 DEF Age
<1>3. CASE ReconcileNext
  BY <1>3 DEF ReconcileNext, RunAdvance, RunStarts, LoadReferences, ListObjects, Recheck,
     HeadObject, ConditionalDelete, RunEnds, RunFails
<1>4. CASE CloseRequest
  BY <1>4 DEF CloseRequest
<1>5. ASSUME NEW k \in Keys, ExpireRecord(k) PROVE Next
  BY <1>5 DEF ExpireRecord, Next
<1>6. ASSUME NEW c \in Connections, NEW k \in Keys, NEW h \in Hashes, Start(c, k, h) PROVE Next
  BY <1>6 DEF Start, Next
<1>7. ASSUME NEW c \in Connections, UploadAdvance(c) \/ CrashUpload(c)
      PROVE  [Next]_idempotencyVars
  <2>1. ASSUME Advance(c) \/ Fail(c) PROVE Next
    BY <2>1 DEF Next
  <2>2. CASE Protocol(c)
    BY <2>1, <2>2 DEF Protocol, Advance
  <2>3. CASE CheckRequest(c) \/ Put(c) \/ InsertMetadata(c) \/ Compensate(c)
    BY <2>3 DEF CheckRequest, Put, InsertMetadata, Compensate
  <2>4. CASE PutThrows(c) \/ Abort(c) \/ CommitUploadUnacknowledged(c) \/ CrashUpload(c)
    BY <2>1, <2>4 DEF PutThrows, Abort, CommitUploadUnacknowledged, CrashUpload, Fail
  <2>5. CASE ReturnAttachment(c) \/ CommitUpload(c) \/ RollbackUpload(c) \/ FailUpload(c)
    BY <2>1, <2>5 DEF ReturnAttachment, CommitUpload, RollbackUpload, FailUpload, Advance
  <2> QED BY <1>7, <2>2, <2>3, <2>4, <2>5 DEF UploadAdvance
<1> QED BY <1>1, <1>2, <1>3, <1>4, <1>5, <1>6, <1>7 DEF AllNext, UploadNext

\* The upload handler runs the protocol of execute: its behaviours, seen through
\* the idempotency variables, are behaviours of Idempotency.
THEOREM UploadsFollowTheProtocol == UploadSpec => Spec
<1>1. UploadInit => Init
  BY DEF UploadInit
<1> QED BY <1>1, ProtocolStep, PTL DEF UploadSpec, Spec

\* An attachment is decided once per Idempotency-Key: one execution, one effect,
\* one complete record and one answer, with every retry, crash and lost COMMIT.
THEOREM UploadsAreDecidedOnce == UploadSpec => []DecidedOnce
BY UploadsFollowTheProtocol, DecidedOnceHolds, PTL

\* Seen from its callers an upload is the abstract promise of a key: decided once,
\* and every answer repeats the decision.
THEOREM UploadsKeepThePromise == UploadSpec => ImplementsPromise
BY UploadsFollowTheProtocol, Implementation

-----------------------------------------------------------------------------
(* The invariant, from the first state on *)

LEMMA UploadInitInv == UploadInit => UploadInv
<1> SUFFICES ASSUME UploadInit PROVE UploadInv
  OBVIOUS
<1>1. Attachments = {} /\ IsFiniteSet({}) /\ Cardinality({}) = 0
  BY FS_EmptySet DEF UploadInit, Attachments
<1>2. UploadTypes
  BY DEF UploadInit, UploadTypes, Contents, NoRun
<1>3. Phases /\ FreshObjects /\ OneInsertion
  BY DEF UploadInit, Init, Phases, FreshObjects, OneInsertion
<1>4. IsFiniteSet(Attachments) /\ AttachmentLimit
  BY <1>1, MaximumCountAssumption DEF AttachmentLimit
<1>5. AttachmentMatchesRecord /\ StoredContentMatches /\ UnchangedCandidatesAreOrphans
  BY DEF UploadInit, Init, AttachmentMatchesRecord, StoredContentMatches,
     UnchangedCandidatesAreOrphans, NoRun
<1> QED BY <1>2, <1>3, <1>4, <1>5 DEF UploadInv

\* The count of the attachments changes with the committed metadata only.
LEMMA SameAttachments ==
  ASSUME UploadInv, UNCHANGED <<attached, table>>
  PROVE  /\ Attachments' = Attachments
         /\ IsFiniteSet(Attachments)'
         /\ AttachmentLimit'
         /\ AttachmentMatchesRecord'
BY DEF UploadInv, Attachments, AttachmentLimit, AttachmentMatchesRecord

\* Objects of attachments may disappear, never change.
LEMMA NothingOverwritten ==
  ASSUME UploadInv, UNCHANGED attached,
         \A k \in Keys : objects'[k] \in {NoObject, objects[k]}
  PROVE  StoredContentMatches'
BY DEF UploadInv, StoredContentMatches

\* Candidates of the run are dropped, or their objects rewritten, not added.
LEMMA FewerCandidates ==
  ASSUME UploadInv, UNCHANGED attached,
         run'.at \in {"sweep", "delete"} =>
           /\ run.at \in {"sweep", "delete"}
           /\ run'.todo \cap run'.stale \subseteq run.todo \cap run.stale
  PROVE  UnchangedCandidatesAreOrphans'
BY DEF UploadInv, UnchangedCandidatesAreOrphans

\* A statement of execute that neither ends the transaction nor belongs to the
\* operation leaves the upload where it was.
LEMMA QuietStepInv ==
  ASSUME IInv, UploadInv, NEW c \in Connections,
         UNCHANGED <<phase, named, storeVars, run, table>>,
         \A d \in Connections :
           /\ phase[d] # "none" => request'[d] = request[d]
           /\ staged[d] # NoRow => staged'[d] # NoRow
           /\ pc'[d] = "complete" \/ (pc'[d] = "commit" /\ staged'[d] # NoRow)
                => phase[d] = "inserted"
  PROVE  UploadInv'
<1>1. UploadTypes'
  BY DEF UploadInv, UploadTypes, storeVars
<1>2. Phases'
  BY DEF UploadInv, Phases
<1>3. FreshObjects'
  BY DEF UploadInv, FreshObjects, storeVars, KeyOf
<1>4. OneInsertion'
  BY SameAttachments DEF UploadInv, OneInsertion, storeVars
<1>5. StoredContentMatches' /\ UnchangedCandidatesAreOrphans'
  BY DEF UploadInv, StoredContentMatches, UnchangedCandidatesAreOrphans, storeVars
<1> QED BY <1>1, <1>2, <1>3, <1>4, <1>5, SameAttachments DEF UploadInv, storeVars

-----------------------------------------------------------------------------
(* The handler *)

LEMMA StartInv ==
  ASSUME IInv, UploadInv, NEW c \in Connections, NEW k \in Keys, NEW h \in Hashes,
         Start(c, k, h)
  PROVE  UploadInv'
<1>1. staged[c] = NoRow /\ phase[c] = "none"
  BY DEF IInv, Transaction, UploadInv, Phases, Start, Receive
<1> QED BY <1>1, QuietStepInv DEF Start, Receive, Goto, IInv, TypeOK, UploadInv, Phases

LEMMA ProtocolInv ==
  ASSUME IInv, UploadInv, NEW c \in Connections, Protocol(c)
  PROVE  UploadInv'
<1>1. CASE Reserve(c)
  <2>1. staged'[c] # NoRow
    BY <1>1, NoRowAssumption DEF Reserve, IInv, TypeOK, Rows
  <2> QED BY <1>1, <2>1, QuietStepInv DEF Protocol, Reserve, Goto, IInv, TypeOK, UploadInv, Phases
<1>2. CASE FindExisting(c)
  BY <1>2, QuietStepInv DEF Protocol, FindExisting, Goto, IInv, TypeOK, UploadInv, Phases
<1>3. CASE Replay(c)
  <2>1. staged[c] = NoRow
    BY <1>3 DEF IInv, Transaction, Replay
  <2> QED BY <1>3, <2>1, QuietStepInv DEF Protocol, Replay, Goto, IInv, TypeOK, UploadInv, Phases
<1>4. CASE Conflict(c)
  BY <1>4, QuietStepInv DEF Protocol, Conflict, Goto, IInv, TypeOK, UploadInv, Phases
<1>5. CASE Complete(c)
  <2>1. staged'[c] # NoRow
    <3>1. value[c] \in Bodies /\ staged[c] \in Rows
      BY <1>5 DEF IInv, TypeOK, Transaction, Complete
    <3> QED BY <1>5, <3>1, NoRowAssumption DEF Complete, IInv, TypeOK, Rows
  <2> QED BY <1>5, <2>1, QuietStepInv DEF Protocol, Complete, Goto, IInv, TypeOK, UploadInv, Phases
<1>6. CASE Reply(c)
  BY <1>6, QuietStepInv DEF Protocol, Reply, Goto, IInv, TypeOK, UploadInv, Phases
<1> QED BY <1>1, <1>2, <1>3, <1>4, <1>5, <1>6 DEF Protocol

LEMMA ReturnAndAbortInv ==
  ASSUME IInv, UploadInv, NEW c \in Connections,
         ReturnAttachment(c) \/ Abort(c) \/ FailUpload(c)
  PROVE  UploadInv'
<1>1. CASE ReturnAttachment(c)
  BY <1>1, QuietStepInv DEF ReturnAttachment, OperationReturns, Goto, IInv, TypeOK, UploadInv, Phases
<1>2. CASE Abort(c)
  BY <1>2, QuietStepInv DEF Abort, Throw, Goto, IInv, TypeOK, UploadInv, Phases
<1>3. CASE FailUpload(c)
  BY <1>3, QuietStepInv DEF FailUpload, ReplyError, Goto, IInv, TypeOK, UploadInv, Phases
<1> QED BY <1>1, <1>2, <1>3

LEMMA CheckRequestInv ==
  ASSUME IInv, UploadInv, NEW c \in Connections, CheckRequest(c)
  PROVE  UploadInv'
<1>1. UNCHANGED <<attached, table, objects, aged, run, named, request, staged, pc>>
  BY DEF CheckRequest, idempotencyVars, storeVars
<1>2. UploadTypes'
  BY <1>1 DEF CheckRequest, Enter, UploadInv, UploadTypes, storeVars
<1>3. Phases'
  BY <1>1 DEF CheckRequest, Enter, UploadInv, UploadTypes, Phases, IInv, Transaction
<1>4. FreshObjects' /\ OneInsertion'
  BY <1>1, SameAttachments DEF CheckRequest, Enter, UploadInv, UploadTypes, FreshObjects, OneInsertion, KeyOf
<1> QED BY <1>1, <1>2, <1>3, <1>4, SameAttachments, NothingOverwritten, FewerCandidates DEF UploadInv

\* Nobody else can be between its put and its COMMIT with the key of this upload.
LEMMA SoleUploader ==
  ASSUME IInv, UploadInv, NEW c \in Connections, NEW d \in Connections,
         staged[c] # NoRow, phase[d] # "none", KeyOf(c) = KeyOf(d)
  PROVE  c = d
BY DEF IInv, UploadInv, Phases, OneReservation

\* The object of a reserved key is no attachment yet.
LEMMA ReservedIsUnattached ==
  ASSUME IInv, UploadInv, NEW c \in Connections, staged[c] # NoRow
  PROVE  KeyOf(c) \in Keys /\ attached[KeyOf(c)] = NoObject
BY DEF IInv, TypeOK, UploadInv, OneReservation, AttachmentMatchesRecord, KeyOf

LEMMA PutInv ==
  ASSUME IInv, UploadInv, NEW c \in Connections, Put(c)
  PROVE  UploadInv'
<1>0. staged[c] # NoRow /\ request[c].hash \in Hashes
  BY DEF IInv, TypeOK, Transaction, Put
<1>1. UNCHANGED <<attached, open, table, request, staged, pc>>
  BY DEF Put, idempotencyVars
<1>2. UploadTypes'
  BY <1>0, <1>1 DEF Put, StorePut, Enter, UploadInv, UploadTypes, Contents
<1>3. Phases'
  BY <1>0, <1>1 DEF Put, Enter, UploadInv, UploadTypes, Phases, IInv, Transaction
<1>4. FreshObjects'
  BY <1>0, <1>1, SoleUploader, ReservedIsUnattached
     DEF Put, StorePut, Enter, UploadInv, UploadTypes, FreshObjects, KeyOf
<1>5. OneInsertion'
  BY <1>1, SameAttachments DEF Put, Enter, UploadInv, UploadTypes, OneInsertion
<1>6. StoredContentMatches'
  BY <1>0, <1>1, ReservedIsUnattached DEF Put, StorePut, UploadInv, UploadTypes, StoredContentMatches
<1>7. UnchangedCandidatesAreOrphans'
  BY <1>1, FewerCandidates DEF Put, StorePut, UploadInv, UploadTypes
<1> QED BY <1>1, <1>2, <1>3, <1>4, <1>5, <1>6, <1>7, SameAttachments DEF UploadInv

LEMMA PutThrowsInv ==
  ASSUME IInv, UploadInv, NEW c \in Connections, PutThrows(c)
  PROVE  UploadInv'
<1>0. staged[c] # NoRow /\ request[c].hash \in Hashes
  BY DEF IInv, TypeOK, Transaction, PutThrows
<1>1. UNCHANGED <<attached, open, table, request, staged, phase>>
  BY DEF PutThrows, Throw
<1>2. UploadTypes'
  <2>1. CASE StorePut(KeyOf(c), request[c].hash)
    BY <1>0, <1>1, <2>1 DEF PutThrows, StorePut, UploadInv, UploadTypes, Contents
  <2>2. CASE UNCHANGED <<objects, aged, run>>
    BY <1>1, <2>2 DEF PutThrows, UploadInv, UploadTypes
  <2> QED BY <2>1, <2>2 DEF PutThrows
<1>3. Phases'
  BY <1>0, <1>1 DEF PutThrows, Throw, Goto, UploadInv, UploadTypes, Phases, IInv, TypeOK
<1>4. FreshObjects'
  <2>1. CASE StorePut(KeyOf(c), request[c].hash)
    BY <1>0, <1>1, <2>1, SoleUploader, ReservedIsUnattached
       DEF PutThrows, StorePut, UploadInv, UploadTypes, FreshObjects, KeyOf
  <2>2. CASE UNCHANGED <<objects, aged, run>>
    BY <1>1, <2>2 DEF PutThrows, UploadInv, UploadTypes, FreshObjects, KeyOf
  <2> QED BY <2>1, <2>2 DEF PutThrows
<1>5. OneInsertion'
  BY <1>1, SameAttachments DEF UploadInv, OneInsertion
<1>6. StoredContentMatches'
  BY <1>0, <1>1, ReservedIsUnattached DEF PutThrows, StorePut, UploadInv, UploadTypes, StoredContentMatches
<1>7. UnchangedCandidatesAreOrphans'
  BY <1>1, FewerCandidates DEF PutThrows, StorePut, UploadInv, UploadTypes
<1> QED BY <1>1, <1>2, <1>3, <1>4, <1>5, <1>6, <1>7, SameAttachments DEF UploadInv

LEMMA InsertMetadataInv ==
  ASSUME IInv, UploadInv, NEW c \in Connections, InsertMetadata(c)
  PROVE  UploadInv'
<1>1. UNCHANGED <<attached, open, table, objects, aged, run, named, request, staged, pc>>
  BY DEF InsertMetadata, idempotencyVars, storeVars
<1>2. UploadTypes'
  BY <1>1 DEF InsertMetadata, Enter, UploadInv, UploadTypes
<1>3. Phases'
  BY <1>1 DEF InsertMetadata, Enter, UploadInv, UploadTypes, Phases
<1>4. FreshObjects'
  BY <1>1 DEF InsertMetadata, Enter, UploadInv, UploadTypes, FreshObjects, KeyOf
<1>5. OneInsertion'
  BY <1>1, SameAttachments DEF InsertMetadata, Enter, UploadInv, UploadTypes, OneInsertion
<1> QED BY <1>1, <1>2, <1>3, <1>4, <1>5, SameAttachments, NothingOverwritten, FewerCandidates DEF UploadInv

\* ROLLBACK and a crash end the transaction; the object stays.
LEMMA EndWithoutCommitInv ==
  ASSUME IInv, UploadInv, NEW c \in Connections, RollbackUpload(c) \/ CrashUpload(c)
  PROVE  UploadInv'
<1>1. UNCHANGED <<attached, open, table, objects, aged, run, request>>
  BY DEF RollbackUpload, CrashUpload, Rollback, Crash, storeVars
<1>2. UploadTypes'
  BY <1>1 DEF RollbackUpload, CrashUpload, Enter, UploadInv, UploadTypes
<1>3. Phases'
  BY <1>1 DEF RollbackUpload, CrashUpload, Rollback, Crash, Discard, Goto, Enter, UploadInv,
     UploadTypes, Phases, IInv, TypeOK
<1>4. FreshObjects' /\ OneInsertion'
  BY <1>1, SameAttachments DEF RollbackUpload, CrashUpload, Enter, UploadInv, UploadTypes,
     FreshObjects, OneInsertion, KeyOf
<1> QED BY <1>1, <1>2, <1>3, <1>4, SameAttachments, NothingOverwritten, FewerCandidates DEF UploadInv

LEMMA CompensateInv ==
  ASSUME IInv, UploadInv, NEW c \in Connections, Compensate(c)
  PROVE  UploadInv'
<1>0. phase[c] = "none"
  BY DEF IInv, Transaction, UploadInv, Phases, Compensate
<1>1. UNCHANGED <<attached, open, table, phase, run, request, staged, pc>>
  BY DEF Compensate, idempotencyVars
<1>2. \A k \in Keys : objects'[k] \in {NoObject, objects[k]} /\ aged'[k] \in {FALSE, aged[k]}
  BY DEF Compensate, StoreDelete, UploadInv, UploadTypes
<1>3. UploadTypes'
  BY <1>1 DEF Compensate, StoreDelete, UploadInv, UploadTypes, Contents
<1>4. Phases'
  BY <1>1 DEF UploadInv, Phases
<1>5. FreshObjects'
  BY <1>0, <1>1, <1>2 DEF Compensate, UploadInv, UploadTypes, FreshObjects, KeyOf, IInv, TypeOK
<1>6. OneInsertion'
  BY <1>1, SameAttachments DEF UploadInv, OneInsertion
<1> QED BY <1>1, <1>2, <1>3, <1>4, <1>5, <1>6, SameAttachments, NothingOverwritten,
       FewerCandidates DEF UploadInv

-----------------------------------------------------------------------------
(* COMMIT *)

\* COMMIT of a reservation attaches the file of its key; of a replay, nothing.
LEMMA CommitInvUpload ==
  ASSUME IInv, UploadInv, NEW c \in Connections,
         CommitUpload(c) \/ CommitUploadUnacknowledged(c)
  PROVE  UploadInv'
<1> DEFINE k == KeyOf(c)
<1>0. /\ pc[c] = "commit" /\ Publish(c) /\ Attach(c)
      /\ k \in Keys /\ request[c].hash \in Hashes
      /\ UNCHANGED <<open, objects, aged, run, request>>
      /\ pc' = [pc EXCEPT ![c] = "reply"] \/ pc' = [pc EXCEPT ![c] = "failed"]
  BY DEF CommitUpload, CommitUploadUnacknowledged, Commit, CommitUnacknowledged, Attach,
     Goto, IInv, TypeOK, KeyOf
<1>1. UploadTypes'
  BY <1>0 DEF CommitUpload, CommitUploadUnacknowledged, Attach, Enter, UploadInv, UploadTypes, Contents
<1>2. Phases'
  BY <1>0 DEF Publish, Attach, Enter, UploadInv, UploadTypes, Phases, IInv, TypeOK
<1>3. FreshObjects'
  BY <1>0 DEF CommitUpload, CommitUploadUnacknowledged, Attach, Enter, UploadInv, UploadTypes,
     FreshObjects, KeyOf
<1>4. CASE phase[c] # "inserted"
  <2>1. staged[c] = NoRow
    BY <1>0, <1>4 DEF UploadInv, Phases
  <2>2. UNCHANGED <<attached, table>>
    BY <1>0, <1>4, <2>1 DEF Attach, Publish
  <2>3. OneInsertion'
    BY <1>0, <2>2, SameAttachments DEF Attach, Enter, UploadInv, UploadTypes, OneInsertion
  <2> QED BY <1>0, <1>1, <1>2, <1>3, <2>2, <2>3, SameAttachments, NothingOverwritten,
         FewerCandidates DEF UploadInv
<1>5. CASE phase[c] = "inserted"
  <2>1. /\ staged[c] # NoRow /\ staged[c] \in Rows /\ staged[c].hash = request[c].hash
        /\ table[k] = NoRow /\ attached[k] = NoObject
    BY <1>0, <1>5, ReservedIsUnattached DEF UploadInv, Phases, IInv, TypeOK, Transaction, OneReservation
  <2>2. /\ table' = [table EXCEPT ![k] = staged[c]]
        /\ attached' = [attached EXCEPT ![k] = request[c].hash]
        /\ phase' = [phase EXCEPT ![c] = "none"]
    BY <1>0, <1>5, <2>1 DEF Attach, Publish, Enter
  <2>3. Attachments' = Attachments \cup {k} /\ k \notin Attachments
    BY <1>0, <2>1, <2>2, NoObjectAssumption DEF Attachments, UploadInv, UploadTypes
  <2>4. IsFiniteSet(Attachments') /\ Cardinality(Attachments') = Cardinality(Attachments) + 1
    BY <2>3, FS_AddElement DEF UploadInv
  <2>5. Cardinality(Attachments) < MaximumCount /\ Cardinality(Attachments) \in Nat
    BY <1>5, FS_CardinalityType DEF UploadInv, OneInsertion
  <2>6. AttachmentLimit'
    BY <2>4, <2>5, MaximumCountAssumption DEF AttachmentLimit
  <2>7. OneInsertion'
    BY <1>5, <2>2 DEF UploadInv, UploadTypes, OneInsertion
  <2>8. AttachmentMatchesRecord'
    BY <1>0, <2>1, <2>2 DEF AttachmentMatchesRecord, UploadInv, UploadTypes, IInv, TypeOK
  <2>9. StoredContentMatches'
    BY <1>0, <1>5, <2>2 DEF StoredContentMatches, UploadInv, UploadTypes, FreshObjects
  <2>10. UnchangedCandidatesAreOrphans'
    BY <1>0, <1>5, <2>2 DEF UnchangedCandidatesAreOrphans, UploadInv, UploadTypes, FreshObjects
  <2> QED BY <1>1, <1>2, <1>3, <2>4, <2>6, <2>7, <2>8, <2>9, <2>10 DEF UploadInv
<1> QED BY <1>4, <1>5

-----------------------------------------------------------------------------
(* Time, the request, and the reconciliation *)

LEMMA EnvironmentInv ==
  ASSUME IInv, UploadInv,
         CloseRequest \/ (\E k \in Keys : ExpireRecord(k)) \/ (\E k \in Keys : Age(k))
  PROVE  UploadInv'
<1>1. UNCHANGED <<attached, table, objects, run, named, request, staged, phase, pc>>
  BY DEF CloseRequest, ExpireRecord, Expire, Age, idempotencyVars, storeVars
<1>2. UploadTypes'
  BY <1>1 DEF CloseRequest, ExpireRecord, Age, storeVars, UploadInv, UploadTypes
<1>3. Phases' /\ OneInsertion'
  BY <1>1, SameAttachments DEF UploadInv, Phases, OneInsertion
<1>4. FreshObjects'
  <2>1. \A c \in Connections : named[c] /\ ~aged[KeyOf(c)] /\ KeyOf(c) \in Keys => ~aged'[KeyOf(c)]
    BY DEF CloseRequest, ExpireRecord, Age, storeVars, UploadInv, UploadTypes
  <2>2. \A c \in Connections : KeyOf(c) \in Keys /\ KeyOf(c)' = KeyOf(c)
    BY <1>1 DEF IInv, TypeOK, KeyOf
  <2> QED BY <1>1, <2>1, <2>2 DEF UploadInv, FreshObjects
<1> QED BY <1>1, <1>2, <1>3, <1>4, SameAttachments, NothingOverwritten, FewerCandidates DEF UploadInv

\* A run changes the bucket only by its DELETE, and its stale set only when it
\* starts, with objects no upload has just put.
LEMMA RunInv ==
  ASSUME IInv, UploadInv, ReconcileNext
  PROVE  UploadInv'
<1>1. UNCHANGED <<attached, open, table, named, request, staged, phase, pc>>
  BY DEF ReconcileNext, RunAdvance, RunStarts, LoadReferences, ListObjects, Recheck,
     HeadObject, ConditionalDelete, RunEnds, RunFails, idempotencyVars, storeVars
<1> DEFINE Unharmed ==
      /\ \A k \in Keys : objects'[k] \in {NoObject, objects[k]} /\ aged'[k] \in {FALSE, aged[k]}
      /\ objects' \in [Keys -> Contents] /\ aged' \in [Keys -> BOOLEAN]
<1>2. Unharmed
  <2>1. CASE UNCHANGED <<objects, aged>>
    BY <2>1 DEF UploadInv, UploadTypes
  <2>2. CASE ConditionalDelete
    <3>1. StoreDelete(NextCandidate) \/ UNCHANGED <<objects, aged>>
      BY <2>2 DEF ConditionalDelete
    <3>2. CASE StoreDelete(NextCandidate)
      <4>1. objects \in [Keys -> Contents] /\ aged \in [Keys -> BOOLEAN] /\ NoObject \in Contents
        BY DEF UploadInv, UploadTypes, Contents
      <4>2. \A k \in Keys : objects'[k] \in {NoObject, objects[k]} /\ aged'[k] \in {FALSE, aged[k]}
        BY <3>2, <4>1 DEF StoreDelete
      <4>3. objects' \in [Keys -> Contents] /\ aged' \in [Keys -> BOOLEAN]
        BY <3>2, <4>1 DEF StoreDelete
      <4> QED BY <4>2, <4>3
    <3> QED BY <2>1, <3>1, <3>2
  <2> QED BY <2>1, <2>2 DEF ReconcileNext, RunAdvance, RunStarts, LoadReferences, ListObjects,
         Recheck, HeadObject, RunEnds, RunFails, storeVars
<1>4. /\ run' \in [at : {"idle", "list", "refs", "recheck", "sweep", "delete"},
                   stale : SUBSET Keys, gotRefs : BOOLEAN, refs : SUBSET Keys,
                   listed : [Keys -> Contents], todo : SUBSET Keys]
      /\ run'.stale \subseteq run.stale \cup {k \in Keys : aged[k]}
      /\ run'.at \in {"sweep", "delete"} =>
           \A k \in run'.todo \cap run'.stale : attached[k] = NoObject
  <2>1. run \in [at : {"idle", "list", "refs", "recheck", "sweep", "delete"},
                 stale : SUBSET Keys, gotRefs : BOOLEAN, refs : SUBSET Keys,
                 listed : [Keys -> Contents], todo : SUBSET Keys]
        /\ objects \in [Keys -> Contents]
    BY DEF UploadInv, UploadTypes
  <2>2. CASE RunStarts
    <3> DEFINE none == [k \in Keys |-> NoObject]
    <3>1. run' = [at |-> "list", stale |-> {k \in Keys : aged[k]}, gotRefs |-> FALSE, refs |-> {},
                  listed |-> none, todo |-> {}]
      BY <2>2 DEF RunStarts, NoRun
    <3>2. none \in [Keys -> Contents]
      BY DEF Contents
    <3> HIDE DEF none
    <3> QED BY <3>1, <3>2
  <2>3. CASE LoadReferences
    <3>1. Attachments \in SUBSET Keys
      BY DEF Attachments
    <3>2. \E step \in {"list", "recheck"} :
            run' = [run EXCEPT !.gotRefs = TRUE, !.refs = Attachments, !.at = step]
      BY <2>1, <2>3 DEF LoadReferences
    <3> QED BY <2>1, <3>1, <3>2
  <2>4. CASE ListObjects
    <3> DEFINE found == [k \in Keys |-> IF k \in run.stale THEN objects[k] ELSE NoObject]
    <3>1. found \in [Keys -> Contents]
      BY <2>1 DEF Contents
    <3>2. run' = [run EXCEPT !.listed = found, !.at = IF run.gotRefs THEN "recheck" ELSE "refs"]
      BY <2>4 DEF ListObjects
    <3> HIDE DEF found
    <3> QED BY <2>1, <3>1, <3>2
  <2>5. CASE Recheck
    <3>1. DeletionCandidates \in SUBSET Keys
      BY DEF DeletionCandidates, EligibleOrphans
    <3>2. run' = [run EXCEPT !.todo = DeletionCandidates \ Attachments, !.at = "sweep"]
      BY <2>5 DEF Recheck
    <3>3. \A k \in DeletionCandidates \ Attachments : attached[k] = NoObject
      BY <3>1 DEF Attachments
    <3> DEFINE unreferenced == DeletionCandidates \ Attachments
    <3>4. unreferenced \in SUBSET Keys
      BY <3>1
    <3> HIDE DEF unreferenced
    <3> QED BY <2>1, <3>2, <3>3, <3>4 DEF unreferenced
  <2>6. CASE HeadObject
    <3>1. run' = [run EXCEPT !.at = "delete"] \/ run' = [run EXCEPT !.todo = @ \ {NextCandidate}]
      BY <2>6 DEF HeadObject
    <3>2. run.at = "sweep"
      BY <2>6 DEF HeadObject
    <3> QED BY <2>1, <3>1, <3>2 DEF UploadInv, UnchangedCandidatesAreOrphans
  <2>7. CASE ConditionalDelete
    <3>1. run' = [run EXCEPT !.at = "sweep", !.todo = @ \ {NextCandidate}] /\ run.at = "delete"
      BY <2>7 DEF ConditionalDelete
    <3> QED BY <2>1, <3>1 DEF UploadInv, UnchangedCandidatesAreOrphans
  <2>8. CASE RunEnds \/ RunFails
    <3> DEFINE none == [k \in Keys |-> NoObject]
    <3>1. run' = [at |-> "idle", stale |-> {}, gotRefs |-> FALSE, refs |-> {},
                  listed |-> none, todo |-> {}]
      BY <2>8 DEF RunEnds, RunFails, NoRun
    <3>2. none \in [Keys -> Contents]
      BY DEF Contents
    <3> HIDE DEF none
    <3> QED BY <3>1, <3>2
  <2> QED BY <2>2, <2>3, <2>4, <2>5, <2>6, <2>7, <2>8 DEF ReconcileNext, RunAdvance
<1>5. UploadTypes'
  BY <1>1, <1>2, <1>4 DEF UploadInv, UploadTypes
<1>6. Phases' /\ OneInsertion'
  BY <1>1, SameAttachments DEF UploadInv, Phases, OneInsertion
<1>7. FreshObjects'
  BY <1>1, <1>2, <1>4 DEF UploadInv, UploadTypes, FreshObjects, KeyOf, IInv, TypeOK
<1>8. UnchangedCandidatesAreOrphans'
  BY <1>1, <1>4 DEF UnchangedCandidatesAreOrphans
<1> QED BY <1>1, <1>2, <1>5, <1>6, <1>7, <1>8, SameAttachments, NothingOverwritten DEF UploadInv

-----------------------------------------------------------------------------
(* Every step *)

LEMMA UploadNextInv ==
  ASSUME IInv, UploadInv, [AllNext]_vars
  PROVE  UploadInv'
<1>1. CASE UNCHANGED vars
  BY <1>1 DEF vars, UploadInv, UploadTypes, Phases, FreshObjects, OneInsertion, Attachments,
     AttachmentLimit, AttachmentMatchesRecord, StoredContentMatches,
     UnchangedCandidatesAreOrphans, KeyOf
<1>2. ASSUME NEW c \in Connections, NEW k \in Keys, NEW h \in Hashes, Start(c, k, h)
      PROVE  UploadInv'
  BY <1>2, StartInv
<1>3. ASSUME NEW c \in Connections, UploadAdvance(c) \/ CrashUpload(c)
      PROVE  UploadInv'
  BY <1>3, ProtocolInv, CheckRequestInv, PutInv, PutThrowsInv, InsertMetadataInv,
     ReturnAndAbortInv, CommitInvUpload, EndWithoutCommitInv, CompensateInv DEF UploadAdvance
<1>4. CASE CloseRequest \/ (\E k \in Keys : ExpireRecord(k)) \/ (\E k \in Keys : Age(k))
  BY <1>4, EnvironmentInv
<1>5. CASE ReconcileNext
  BY <1>5, RunInv
<1> QED BY <1>1, <1>2, <1>3, <1>4, <1>5 DEF AllNext, UploadNext

\* The invariant of the uploads, the bucket and the reconciliation.
THEOREM UploadInvariance == UploadSpec => [](IInv /\ UploadInv)
<1>1. UploadSpec => []IInv
  BY UploadsFollowTheProtocol, Invariance, PTL
<1>2. IInv /\ UploadInv /\ [AllNext]_vars => UploadInv'
  BY UploadNextInv
<1> QED BY <1>1, <1>2, UploadInitInv, PTL DEF UploadSpec

\* Every variable of the upload, the bucket and the run keeps its type.
THEOREM UploadTypeCorrect == UploadSpec => []UploadTypeOK
<1>1. IInv /\ UploadInv => UploadTypeOK
  BY DEF IInv, UploadInv, UploadTypes, UploadTypeOK
<1> QED BY <1>1, UploadInvariance, PTL

\* What callers were told, what the records say, the metadata and the stored bytes
\* are one file for each key, through retries, races on the bucket and purges.
THEOREM FilesMatchAnswersHolds == UploadSpec => []FilesMatchAnswers
<1>1. IInv /\ UploadInv => FilesMatchAnswers
  BY DEF IInv, UploadInv, FilesMatchAnswers
<1> QED BY <1>1, UploadInvariance, PTL

\* However many uploads race, the request never has more images than its limit.
THEOREM AttachmentLimitHolds == UploadSpec => []AttachmentLimit
<1>1. UploadInv => AttachmentLimit
  BY DEF UploadInv
<1> QED BY <1>1, UploadInvariance, PTL

\* A candidate of the reconciliation nobody rewrote since the cutoff is an orphan.
THEOREM CandidatesAreOrphans == UploadSpec => []UnchangedCandidatesAreOrphans
<1>1. UploadInv => UnchangedCandidatesAreOrphans
  BY DEF UploadInv
<1> QED BY <1>1, UploadInvariance, PTL
=============================================================================
