---------------------------- MODULE RelayerProofs ----------------------------
(***************************************************************************)
(* Proofs about the relayer, for any sets of ids, groups, senders, nonces  *)
(* and contents, any number of concurrent requests, any batch size and     *)
(* threshold, and any bound on the clock: its invariants, and that it      *)
(* implements WriteBehind.                                                 *)
(***************************************************************************)
EXTENDS RelayerRefinement, HandlersProofs

(***************************************************************************)
(* What the worker makes of a message.                                     *)
(***************************************************************************)
\* walrus_sync.rs: the three workflows upload with an archived status.
LEMMA ToStatusType ==
    ASSUME NEW s \in PendingStatus
    PROVE  /\ to_status(s) \in SyncStatus
           /\ to_status(s) \notin PendingStatus
BY DEF to_status, PendingStatus, SyncStatus

\* walrus_sync.rs: a copied message serialises to a patch of that message.
LEMMA ForWalrusType ==
    ASSUME NEW i \in MessageIds, NEW m \in Message, NEW s \in SyncStatus
    PROVE  ForWalrus(i, m, s) \in Patch
BY DEF ForWalrus, Patch, Message

\* memory.rs, get_messages_by_sync_status: a batch holds matching messages only.
LEMMA BatchSubset ==
    ASSUME NEW matching, NEW s \in Batches(matching)
    PROVE  s \subseteq matching
BY DEF Batches

(***************************************************************************)
(* Type correctness.  The handlers' steps and the worker's steps are       *)
(* proved apart; each leaves the other side's variables alone.             *)
(***************************************************************************)
AllTypes == AppTypeOK /\ HandlersTypeOK /\ WorkerTypeOK

LEMMA TypesOfHandlers == AllTypes => HandlersTypeInv
BY DEF AllTypes, HandlersTypeInv

LEMMA NoBatchType ==
    /\ NoBatch \in [MessageIds -> Message \cup {None}]
    /\ NoBatch \in [MessageIds -> Patch \cup {None}]
BY DEF NoBatch

\* The end of a workflow keeps the worker's own variables well typed.
LEMMA EndFlowTypes ==
    ASSUME WorkerTypeOK, EndFlow
    PROVE  /\ phase' \in {"select", "query"}
           /\ flow' \in PendingStatus
           /\ batch' \in [MessageIds -> Message \cup {None}]
           /\ patch_ids' \in [MessageIds -> Patch \cup {None}]
           /\ message_count' \in Nat
BY NoBatchType DEF WorkerTypeOK, EndFlow, PendingStatus

\* What the uploads of a batch add to Walrus is patches.
LEMMA QuiltType ==
    ASSUME AllTypes
    PROVE  Quilt \subseteq Patch
<1>1. ASSUME NEW i \in InBatch
      PROVE  ForWalrus(i, batch[i], to_status(flow)) \in Patch
  <2>1. i \in MessageIds /\ batch[i] \in Message
    BY <1>1 DEF AllTypes, WorkerTypeOK, InBatch
  <2> QED
    BY <2>1, ToStatusType, ForWalrusType DEF AllTypes, WorkerTypeOK
<1> QED
  BY <1>1 DEF Quilt

LEMMA WorkerStepTypes ==
    ASSUME AllTypes, WorkerStep
    PROVE  AppTypeOK' /\ WorkerTypeOK'
<1> USE DEF AllTypes, AppTypeOK, StorageTypeOK
<1>1. CASE TimerTick
  BY <1>1 DEF TimerTick, StartCycle, WorkerTypeOK, PendingStatus, appVars, storageVars
<1>2. CASE ReceiveAndContinue
  BY <1>2 DEF ReceiveAndContinue, Receive, WorkerTypeOK, storageVars
<1>3. CASE ReceiveAndSync
  BY <1>3 DEF ReceiveAndSync, Receive, StartCycle, WorkerTypeOK, PendingStatus, storageVars
<1>4. CASE QueryEmpty
  BY <1>4, EndFlowTypes DEF QueryEmpty, WorkerTypeOK, appVars, storageVars
<1>5. CASE Query
  BY <1>5 DEF Query, WorkerTypeOK, appVars, storageVars
<1>6. ASSUME NEW listed \in SUBSET InBatch, UploadSucceeds(listed)
      PROVE  AppTypeOK' /\ WorkerTypeOK'
  <2>1. \A i \in listed : ForWalrus(i, batch[i], to_status(flow)) \in Patch
    BY <1>6, QuiltType DEF Quilt
  <2> QED
    BY <1>6, <2>1, QuiltType DEF UploadSucceeds, WorkerTypeOK, appVars, storageVars
<1>7. CASE UploadFails
  BY <1>7, EndFlowTypes, QuiltType DEF UploadFails, WorkerTypeOK, appVars, storageVars
<1>9. CASE StoresLate
  BY <1>9 DEF StoresLate, StoreLate, WorkerTypeOK, appVars, storageVars
<1>8. ASSUME NEW i \in MessageIds, Mark(i)
      PROVE  AppTypeOK' /\ WorkerTypeOK'
  <2>1. AppTypeOK'
    <3>1. CASE patch_ids[i] = None
      BY <1>8, <3>1 DEF Mark, MarkOrSkip, storageVars
    <3>2. CASE patch_ids[i] # None
      <4>1. patch_ids[i] \in Patch /\ to_status(flow) \in SyncStatus
        BY <3>2, ToStatusType DEF WorkerTypeOK
      <4>2. UpdateSyncStatus(i, to_status(flow), patch_ids[i])
        BY <1>8, <3>2 DEF Mark, MarkOrSkip
      <4>3. messages[i] \in Message
        BY <4>2 DEF UpdateSyncStatus, contains_key
      <4>4. SetSyncStatus(messages[i], to_status(flow), patch_ids[i], now) \in Message
        BY <4>1, <4>3, SetSyncStatusType
      <4> QED
        BY <1>8, <4>2, <4>4 DEF UpdateSyncStatus, Tick, Mark
    <3> QED
      BY <3>1, <3>2
  <2>2. WorkerTypeOK'
    <3>1. CASE EndFlow
      BY <1>8, <3>1, EndFlowTypes DEF Mark, WorkerTypeOK
    <3>2. CASE ~EndFlow
      BY <1>8, <3>2 DEF Mark, WorkerTypeOK
    <3> QED
      BY <3>1, <3>2
  <2> QED
    BY <2>1, <2>2
<1> QED
  BY <1>1, <1>2, <1>3, <1>4, <1>5, <1>6, <1>7, <1>8, <1>9 DEF WorkerStep, Uploads, Marks

(***************************************************************************)
(* What a step does to the stored messages: nothing, one new message, one  *)
(* client write to one message, or one mark by the worker.                 *)
(***************************************************************************)
Marked(i) ==
    /\ messages[i] \in Message /\ messages'[i] \in Message /\ Only(i)
    /\ patch_ids[i] \in Patch
    /\ messages'[i] = SetSyncStatus(messages[i], to_status(flow), patch_ids[i], now)
    /\ now' = now + 1

\* walrus_sync.rs: the worker writes to storage in its final loop only, and the
\* marked message is one of its batch.
LEMMA WorkerEffects ==
    ASSUME AllTypes, WorkerStep
    PROVE  /\ UNCHANGED <<group_orders, nonces>>
           /\ \/ messages' = messages /\ now' = now
              \/ \E i \in InBatch : Mark(i) /\ Marked(i)
<1> USE DEF AllTypes, AppTypeOK, StorageTypeOK, WorkerTypeOK
<1>1. ASSUME NEW i \in MessageIds, Mark(i), patch_ids[i] # None
      PROVE  Marked(i) /\ UNCHANGED <<group_orders, nonces>> /\ i \in InBatch
  <2> DEFINE m == SetSyncStatus(messages[i], to_status(flow), patch_ids[i], now)
  <2>1. patch_ids[i] \in Patch /\ to_status(flow) \in SyncStatus
    BY <1>1, ToStatusType
  <2>2. /\ messages[i] \in Message
        /\ messages' = [messages EXCEPT ![i] = m]
        /\ now' = now + 1
        /\ UNCHANGED <<group_orders, nonces>>
    BY <1>1 DEF Mark, MarkOrSkip, UpdateSyncStatus, contains_key, Tick
  <2>3. messages'[i] = m /\ Only(i) /\ m \in Message
    BY <2>1, <2>2, SetSyncStatusType DEF Only
  <2> QED
    BY <1>1, <2>1, <2>2, <2>3 DEF Marked, Mark
<1>2. ASSUME NEW i \in MessageIds, Mark(i), patch_ids[i] = None
      PROVE  UNCHANGED storageVars
  BY <1>2 DEF Mark, MarkOrSkip
<1>3. CASE TimerTick \/ ReceiveAndContinue \/ ReceiveAndSync \/ QueryEmpty \/ Query
           \/ Uploads \/ UploadFails \/ StoresLate
  BY <1>3 DEF TimerTick, ReceiveAndContinue, ReceiveAndSync, Receive, QueryEmpty, Query,
              Uploads, UploadSucceeds, UploadFails, StoresLate, StoreLate, appVars, storageVars
<1> QED
  BY <1>1, <1>2, <1>3 DEF WorkerStep, Marks, storageVars

\* message.rs, memory.rs: a stored message is never removed, and its group,
\* sender, order and creation time are never written again.
LEMMA IdentityKept ==
    ASSUME AllTypes, StampsPast, NEW i \in Stored,
           (\E t \in Tasks : HandlerStep(t)) \/ WorkerStep
    PROVE  messages'[i] \in Message /\ contains_key(i)' /\ SameIdentity(i)
<1>1. i \in MessageIds /\ messages[i] \in Message
  BY TypesOfHandlers, StoredMessage
<1>2. CASE messages' = messages
  BY <1>1, <1>2, NoneIsNoMessage DEF SameIdentity, contains_key
<1>3. ASSUME NEW j \in MessageIds, Marked(j)
      PROVE  messages'[i] \in Message /\ SameIdentity(i)
  BY <1>1, <1>3 DEF Marked, Only, SameIdentity, SetSyncStatus, Message
<1>4. CASE WorkerStep
  BY <1>1, <1>2, <1>3, <1>4, WorkerEffects, NoneIsNoMessage DEF InBatch, contains_key
<1>5. CASE \E t \in Tasks : HandlerStep(t)
  BY <1>5, TypesOfHandlers, HandlersKeepIdentity
<1> QED
  BY <1>4, <1>5

\* The worker disturbs none of it: it takes no order and rewrites no nonce.
LEMMA WorkerKeepsClientInv ==
    ASSUME AllTypes, StampsPast, ClientInv, WorkerStep, UNCHANGED handlerVars
    PROVE  ClientInv'
<1>0. HandlersTypeInv /\ MessagesTypeOK /\ NoncesDiffer
  BY TypesOfHandlers DEF MessagesTypeOK, AllTypes, AppTypeOK, StorageTypeOK, ClientInv, NoncesExact
<1>1. \A i \in Stored : SameIdentity(i) /\ contains_key(i)'
  BY IdentityKept
<1>2. Stored' = Stored /\ StoredNonces' = StoredNonces /\ NoncesDiffer'
  <2>1. CASE messages' = messages
    BY <1>0, <2>1, StorageFrame
  <2>2. ASSUME NEW j \in InBatch, Mark(j), Marked(j)
        PROVE  Stored' = Stored /\ StoredNonces' = StoredNonces /\ NoncesDiffer'
    <3>1. j \in Stored /\ messages'[j] \in Message /\ messages'[j].nonce = messages[j].nonce
      BY <2>2, NoneIsNoMessage DEF Marked, SetSyncStatus, Message, InBatch, Stored, contains_key
    <3>2. messages' = [messages EXCEPT ![j] = messages'[j]]
      BY <2>2 DEF Marked, Mark, MarkOrSkip, UpdateSyncStatus, AllTypes, AppTypeOK, StorageTypeOK,
         storageVars
    <3> QED
      BY <1>0, <3>1, <3>2, MessageWritten, NoncesUntouched DEF Stored
  <2> QED
    BY <2>1, <2>2, WorkerEffects
<1>3. UNCHANGED <<group_orders, nonces, pc, req>>
  BY WorkerEffects DEF handlerVars
<1>4. WriterOwnsMessage'
  BY <1>0, <1>1, <1>3, OwnerKept DEF WriterOwnsMessage, ClientInv
<1>5. OrdersUnique'
  BY <1>1, <1>2, <1>3, OrdersFrame DEF ClientInv
<1> QED
  BY <1>2, <1>3, <1>4, <1>5 DEF ClientInv, NoncesExact

(***************************************************************************)
(* The archive side of the invariant, under the steps of the handlers.     *)
(***************************************************************************)
\* The patches stored or still under way, seen with the types they have.
LEMMA SentFacts ==
    ASSUME AllTypes, ArchiveInv
    PROVE  /\ Sent \subseteq Patch
           /\ \A q \in Sent : /\ q \in Patch /\ q.id \in Stored
                              /\ q.updated_at \in Nat
                              /\ q.updated_at <= messages[q.id].updated_at
<1>1. Sent \subseteq Patch
  BY DEF Sent, AllTypes, WorkerTypeOK
<1>2. ASSUME NEW q \in Sent
      PROVE  /\ q \in Patch /\ q.id \in Stored /\ q.updated_at \in Nat
             /\ q.updated_at <= messages[q.id].updated_at
  <2>1. q \in Patch /\ q.id \in MessageIds /\ q.updated_at \in Nat /\ q.id \in Stored
    BY <1>1 DEF Patch, ArchiveInv, PatchesOfStored, Stored
  <2>2. messages[q.id] \in Message /\ messages[q.id].updated_at \in Nat
    BY <2>1, TypesOfHandlers, StoredMessage DEF Message
  <2>3. CASE q.updated_at < messages[q.id].updated_at
    BY <2>1, <2>2, <2>3
  <2>4. CASE q = ForWalrus(q.id, messages[q.id], to_status(messages[q.id].sync_status))
    BY <2>1, <2>2, <2>4 DEF ForWalrus
  <2> QED
    BY <2>1, <2>3, <2>4 DEF ArchiveInv, PatchesOfStored
<1> QED
  BY <1>1, <1>2

\* walrus_sync.rs: while the worker works on its copies, client writes only make
\* the messages newer and pending, and touch nothing that is archived.
LEMMA ArchiveHandlerStep ==
    ASSUME AllTypes, ArchiveInv, NEW t \in Tasks, HandlerStep(t), UNCHANGED workerVars,
           clobbered' = {i \in clobbered : messages'[i] = messages[i]}
    PROVE  ArchiveInv'
<1> USE DEF ArchiveInv
<1>1. /\ UNCHANGED <<phase, flow, batch, patch_ids, walrus, abandoned>>
      /\ InBatch' = InBatch /\ Sent' = Sent
  BY DEF workerVars, InBatch, Sent
<1>2. \A i \in Stored : /\ i \in MessageIds /\ messages[i] \in Message
                        /\ messages[i].updated_at \in Nat /\ messages[i].updated_at < now
                        /\ Kept(i) \/ Rewritten(i)
  BY TypesOfHandlers, StoredMessage, HandlerEffectOn DEF Message, StampsPast
<1>3. \A i \in Stored : i \in Stored' /\ contains_key(i)' /\ SameIdentity(i)
  BY <1>2, NoneIsNoMessage DEF Kept, Rewritten, SameIdentity, Stored, contains_key
<1>4. now \in Nat
  BY DEF AllTypes, AppTypeOK, StorageTypeOK
<1>5. StampsPast'
  BY TypesOfHandlers, StampsHandlerStep
<1>6. BatchByPhase'
  BY <1>1 DEF BatchByPhase, NoBatch
<1>7. BatchCopies'
  <2> SUFFICES ASSUME NEW i \in InBatch
               PROVE  /\ Pending(i)'
                      /\ batch[i].sync_status = flow
                      /\ batch[i].group_id = messages'[i].group_id
                      /\ batch[i].sender = messages'[i].sender
                      /\ batch[i].order = messages'[i].order
                      /\ \/ batch[i] = messages'[i]
                         \/ batch[i].updated_at < messages'[i].updated_at
    BY <1>1 DEF BatchCopies
  <2>1. i \in Stored /\ batch[i] \in Message
    BY DEF BatchCopies, Pending, Stored, InBatch, AllTypes, WorkerTypeOK
  <2>2. CASE Kept(i)
    BY <2>2, <1>3, <2>1 DEF Kept, BatchCopies, Pending, contains_key
  <2>3. CASE Rewritten(i)
    BY <2>3, <1>2, <1>3, <1>4, <2>1 DEF Rewritten, SameIdentity, BatchCopies, Pending, Message
  <2> QED
    BY <1>2, <2>1, <2>2, <2>3
<1>8. PatchesOfBatch' /\ AnswersStored' /\ PatchesDiffer'
  BY <1>1 DEF PatchesOfBatch, AnswersStored, ForWalrus, PatchesDiffer
<1>9. \A q \in Sent : /\ q.id \in Stored
                      /\ q.updated_at \in Nat
                      /\ q.updated_at <= messages[q.id].updated_at
  BY SentFacts
<1>10. PatchesOfStored'
  <2> SUFFICES ASSUME NEW q \in Sent
               PROVE  /\ messages'[q.id] # None
                      /\ q.group_id = messages'[q.id].group_id
                      /\ q.sender = messages'[q.id].sender
                      /\ q.order = messages'[q.id].order
                      /\ \/ q.updated_at < messages'[q.id].updated_at
                         \/ /\ messages'[q.id].sync_status \in PendingStatus
                            /\ q = ForWalrus(q.id, messages'[q.id],
                                             to_status(messages'[q.id].sync_status))
    BY <1>1 DEF PatchesOfStored, contains_key
  <2>1. q.id \in Stored /\ messages'[q.id] # None /\ SameIdentity(q.id)
    BY <1>3, <1>9 DEF contains_key
  <2>2. CASE Kept(q.id)
    BY <2>1, <2>2 DEF Kept, PatchesOfStored
  <2>3. CASE Rewritten(q.id)
    BY <2>1, <2>3, <1>2, <1>4, <1>9 DEF Rewritten, SameIdentity, PatchesOfStored
  <2> QED
    BY <1>2, <1>9, <2>2, <2>3
<1>11. PatchIdsStored'
  <2> SUFFICES ASSUME NEW i \in Stored', messages'[i].quilt_patch_id # None
               PROVE  /\ messages'[i].quilt_patch_id \in walrus
                      /\ messages'[i].quilt_patch_id.id = i
    BY <1>1 DEF PatchIdsStored
  <2>1. CASE i \in Stored
    BY <1>2, <2>1 DEF Kept, Rewritten, PatchIdsStored
  <2>2. CASE i \notin Stored
    BY <2>2, TypesOfHandlers, HandlerEffectOn DEF Created, Stored, contains_key
  <2> QED
    BY <2>1, <2>2
<1>12. ArchivedIsLatest'
  <2> SUFFICES ASSUME NEW i \in MessageIds, Archived(i)', i \notin clobbered'
               PROVE  /\ Latest(Sent, i, messages[i].quilt_patch_id)'
                      /\ (messages[i].quilt_patch_id \in walrus)'
                      /\ Shows(messages[i].quilt_patch_id, messages[i])'
    BY DEF ArchivedIsLatest
  <2>1. i \in Stored
    BY TypesOfHandlers, HandlerEffectOn DEF Archived, contains_key, Created, PendingStatus
  <2>2. Kept(i)
    BY <1>2, <2>1 DEF Rewritten, Archived
  <2>3. Archived(i) /\ i \notin clobbered
    BY <2>2 DEF Kept, Archived, contains_key
  <2> QED
    BY <1>1, <2>2, <2>3 DEF ArchivedIsLatest, Latest, Shows, Kept
<1> QED
  BY <1>5, <1>6, <1>7, <1>8, <1>10, <1>11, <1>12

(***************************************************************************)
(* The archive side of the invariant, under the steps of the worker.       *)
(***************************************************************************)
\* Messages still to be marked after the step were to be marked before it.
BatchShrinks ==
    \A i \in InBatch' : /\ i \in InBatch
                        /\ batch'[i] = batch[i] /\ patch_ids'[i] = patch_ids[i]
                        /\ flow' = flow

LEMMA EmptyBatchShrinks ==
    ASSUME batch' = NoBatch
    PROVE  BatchShrinks
BY DEF BatchShrinks, InBatch, NoBatch

\* The stored messages, the patches and the copies, with the types they have.
LEMMA ArchiveFacts ==
    ASSUME AllTypes, ArchiveInv
    PROVE  /\ now \in Nat
           /\ \A i \in Stored : /\ i \in MessageIds /\ messages[i] \in Message
                                /\ messages[i].updated_at \in Nat
                                /\ messages[i].updated_at < now
           /\ \A q \in Sent : /\ q \in Patch /\ q.id \in Stored
                              /\ q.updated_at \in Nat
                              /\ q.updated_at <= messages[q.id].updated_at
           /\ \A i \in InBatch : /\ i \in Stored /\ batch[i] \in Message
                                 /\ batch[i].updated_at \in Nat
                                 /\ batch[i].updated_at <= messages[i].updated_at
<1>1. now \in Nat
  BY DEF AllTypes, AppTypeOK, StorageTypeOK
<1>2. \A i \in Stored : /\ i \in MessageIds /\ messages[i] \in Message
                        /\ messages[i].updated_at \in Nat
                        /\ messages[i].updated_at < now
  BY TypesOfHandlers, StoredMessage DEF Message, ArchiveInv, StampsPast
<1>4. \A i \in InBatch : /\ i \in Stored /\ batch[i] \in Message
                         /\ batch[i].updated_at \in Nat
  BY DEF ArchiveInv, BatchCopies, Pending, Stored, InBatch, AllTypes, WorkerTypeOK, Message
<1>5. \A i \in InBatch : batch[i].updated_at <= messages[i].updated_at
  BY <1>2, <1>4 DEF ArchiveInv, BatchCopies
<1> QED
  BY <1>1, <1>2, <1>4, <1>5, SentFacts

\* walrus_sync.rs: a step that writes nothing to storage, at which Walrus stores
\* at most something that was under way already.
LEMMA BatchFrame ==
    ASSUME AllTypes, ArchiveInv, UNCHANGED <<messages, now, pc, req, abandoned, clobbered>>,
           walrus \subseteq walrus', Sent' = Sent, BatchShrinks, BatchByPhase'
    PROVE  ArchiveInv'
<1> USE DEF ArchiveInv
<1>1. UNCHANGED Stored
  BY DEF Stored, contains_key
<1>2. StampsPast' /\ PatchesOfStored' /\ PatchesDiffer'
  BY <1>1 DEF StampsPast, PatchesOfStored, PatchesDiffer, contains_key, ForWalrus
<1>3. BatchCopies'
  BY DEF BatchShrinks, BatchCopies, Pending, contains_key
<1>4. PatchesOfBatch' /\ AnswersStored' /\ PatchIdsStored'
  BY <1>1 DEF BatchShrinks, PatchesOfBatch, AnswersStored, PatchIdsStored, ForWalrus
<1>5. ArchivedIsLatest'
  BY DEF ArchivedIsLatest, Archived, contains_key, Latest, Shows
<1> QED
  BY <1>2, <1>3, <1>4, <1>5

\* walrus_sync.rs, the query: the batch is a copy of pending messages.
LEMMA ArchiveQuery ==
    ASSUME AllTypes, ArchiveInv, Query, UNCHANGED <<pc, req, clobbered>>
    PROVE  ArchiveInv'
<1> USE DEF ArchiveInv
<1>1. /\ UNCHANGED <<messages, now, walrus, abandoned, flow, patch_ids>> /\ phase' = "upload"
      /\ Sent' = Sent
  BY DEF Query, appVars, storageVars, Sent
<1>2. UNCHANGED Stored
  BY <1>1 DEF Stored, contains_key
<1>3. /\ StampsPast' /\ PatchesOfStored' /\ PatchesDiffer'
      /\ PatchIdsStored' /\ ArchivedIsLatest'
  BY <1>1, <1>2 DEF StampsPast, PatchesOfStored, PatchesDiffer, PatchIdsStored,
     contains_key, ForWalrus, ArchivedIsLatest, Archived, Latest, Shows
<1>4. PICK s \in Batches(WithSyncStatus(flow)) :
         batch' = [i \in MessageIds |-> IF i \in s THEN messages[i] ELSE None]
  BY DEF Query
<1>5. \A i \in InBatch' : /\ i \in MessageIds /\ i \in Stored
                          /\ batch'[i] = messages[i] /\ messages[i].sync_status = flow
  BY <1>4, BatchSubset DEF InBatch, WithSyncStatus
<1>6. patch_ids = NoBatch
  BY DEF Query, BatchByPhase
<1>7. BatchByPhase'
  BY <1>1, <1>6 DEF BatchByPhase, NoBatch
<1>8. BatchCopies'
  BY <1>1, <1>5 DEF BatchCopies, Pending, Stored, contains_key, AllTypes, WorkerTypeOK
<1>9. PatchesOfBatch'
  BY <1>1, <1>5 DEF PatchesOfBatch, PatchesOfStored, ForWalrus
<1>10. AnswersStored'
  BY <1>1, <1>5, <1>6 DEF AnswersStored, NoBatch
<1> QED
  BY <1>3, <1>7, <1>8, <1>9, <1>10

\* A patch of the quilt is the one of its copy.
LEMMA QuiltPatches ==
    ASSUME AllTypes, ArchiveInv, NEW q \in Quilt
    PROVE  /\ q.id \in InBatch
           /\ q = ForWalrus(q.id, batch[q.id], to_status(flow))
           /\ q.updated_at = batch[q.id].updated_at
           /\ q.group_id = batch[q.id].group_id
           /\ q.sender = batch[q.id].sender
           /\ q.order = batch[q.id].order
BY DEF Quilt, ForWalrus

\* No other patch of the same message has the stamp of its copy.
LEMMA QuiltDiffers ==
    ASSUME AllTypes, ArchiveInv, NEW p \in Quilt, NEW q \in Sent,
           p.id = q.id, p.updated_at = q.updated_at
    PROVE  p = q
<1>1. /\ p.id \in InBatch /\ p = ForWalrus(p.id, batch[p.id], to_status(flow))
      /\ p.updated_at = batch[p.id].updated_at
  BY QuiltPatches
<1>2. batch[p.id].updated_at \in Nat
  BY <1>1, ArchiveFacts
<1> DEFINE i == p.id
<1>3. \/ q.updated_at < batch[i].updated_at
      \/ q = ForWalrus(i, batch[i], to_status(flow))
  BY <1>1 DEF ArchiveInv, PatchesOfBatch
<1> HIDE DEF i
<1>4. ~(q.updated_at < batch[i].updated_at)
  BY <1>1, <1>2 DEF i
<1>5. p = ForWalrus(i, batch[i], to_status(flow))
  BY <1>1 DEF i
<1> QED
  BY <1>3, <1>4, <1>5

\* client.rs, store_quilt: a quilt that is sent, whether or not it is answered,
\* upsets no message that is archived already.
LEMMA ArchiveUpload ==
    ASSUME AllTypes, ArchiveInv, UNCHANGED <<messages, now, pc, req, clobbered>>,
           Sent' = Sent \cup Quilt, walrus \subseteq walrus',
           abandoned' = abandoned \/ abandoned' = abandoned \cup {Quilt}
    PROVE  /\ StampsPast' /\ PatchesOfStored' /\ PatchesDiffer'
           /\ PatchIdsStored' /\ ArchivedIsLatest'
<1> USE DEF ArchiveInv
<1>1. UNCHANGED Stored
  BY DEF Stored, contains_key
<1>2. StampsPast' /\ PatchIdsStored'
  BY <1>1 DEF StampsPast, PatchIdsStored
<1>3. PatchesOfStored'
  <2> SUFFICES ASSUME NEW q \in Quilt
               PROVE  /\ contains_key(q.id)
                      /\ q.group_id = messages[q.id].group_id
                      /\ q.sender = messages[q.id].sender
                      /\ q.order = messages[q.id].order
                      /\ \/ q.updated_at < messages[q.id].updated_at
                         \/ /\ messages[q.id].sync_status \in PendingStatus
                            /\ q = ForWalrus(q.id, messages[q.id],
                                             to_status(messages[q.id].sync_status))
    BY DEF PatchesOfStored, contains_key, ForWalrus
  <2> DEFINE i == q.id
  <2>1. /\ i \in InBatch /\ q = ForWalrus(i, batch[i], to_status(flow))
        /\ q.updated_at = batch[i].updated_at /\ q.group_id = batch[i].group_id
        /\ q.sender = batch[i].sender /\ q.order = batch[i].order
    BY QuiltPatches
  <2> HIDE DEF i
  <2>2. /\ contains_key(i) /\ q.group_id = messages[i].group_id
        /\ q.sender = messages[i].sender /\ q.order = messages[i].order
    BY <2>1 DEF BatchCopies, Pending
  <2>3. CASE batch[i].updated_at < messages[i].updated_at
    BY <2>1, <2>2, <2>3 DEF i
  <2>4. CASE batch[i] = messages[i]
    <3>1. messages[i].sync_status = flow /\ messages[i].sync_status \in PendingStatus
      BY <2>1, <2>4 DEF BatchCopies, Pending
    <3>2. q = ForWalrus(i, messages[i], to_status(messages[i].sync_status))
      BY <2>1, <2>4, <3>1
    <3> QED
      BY <2>2, <3>1, <3>2 DEF i
  <2> QED
    BY <2>1, <2>3, <2>4 DEF BatchCopies
<1>4. PatchesDiffer'
  <2>1. \A p, q \in Quilt : p.id = q.id => p = q
    BY QuiltPatches
  <2>3. \A p, q \in Sent' : p.id = q.id /\ p.updated_at = q.updated_at => p = q
    BY <2>1, QuiltDiffers DEF PatchesDiffer
  <2>4. \A quilt \in abandoned' : \A p, q \in quilt : p.id = q.id => p = q
    BY <2>1 DEF PatchesDiffer
  <2> QED
    BY <2>3, <2>4 DEF PatchesDiffer
<1>5. ArchivedIsLatest'
  <2> SUFFICES ASSUME NEW i \in MessageIds, Archived(i), i \notin clobbered
               PROVE  /\ Latest(Sent, i, messages[i].quilt_patch_id)'
                      /\ (messages[i].quilt_patch_id \in walrus)'
                      /\ Shows(messages[i].quilt_patch_id, messages[i])'
    BY DEF ArchivedIsLatest, Archived, contains_key
  <2>1. \A q \in Quilt : q.id # i
    BY QuiltPatches DEF BatchCopies, Pending, Archived
  <2> QED
    BY <2>1 DEF ArchivedIsLatest, Latest, Shows
<1> QED
  BY <1>2, <1>3, <1>4, <1>5

\* walrus_sync.rs, the last loop: either way, one message fewer is to be marked.
LEMMA MarkShrinks ==
    ASSUME AllTypes, ArchiveInv, NEW i \in MessageIds, Mark(i)
    PROVE  /\ BatchShrinks /\ BatchByPhase' /\ i \notin InBatch'
           /\ walrus' = walrus /\ abandoned' = abandoned /\ Sent' = Sent
<1>1. walrus' = walrus /\ abandoned' = abandoned /\ Sent' = Sent
  BY DEF Mark, Sent
<1>2. CASE EndFlow
  BY <1>1, <1>2, EmptyBatchShrinks DEF Mark, EndFlow, BatchByPhase, InBatch, NoBatch
<1>3. CASE ~EndFlow
  <2>1. /\ batch' = [batch EXCEPT ![i] = None]
        /\ UNCHANGED <<phase, flow, patch_ids>>
        /\ phase = "mark"
    BY <1>3 DEF Mark
  <2> QED
    BY <1>1, <2>1 DEF BatchShrinks, BatchByPhase, InBatch, AllTypes, WorkerTypeOK
<1> QED
  BY <1>2, <1>3

\* walrus_sync.rs, memory.rs: marking a message that is still what was copied
\* makes it archived, with its newest patch; another one counts as clobbered.
LEMMA ArchiveMark ==
    ASSUME AllTypes, ArchiveInv, NEW i \in InBatch, Mark(i), Marked(i),
           UNCHANGED <<pc, req>>,
           clobbered' = clobbered \cup
              {j \in MessageIds : messages'[j] # messages[j] /\ messages[j] # batch[j]}
    PROVE  ArchiveInv'
<1> USE DEF ArchiveInv
<1> DEFINE p == patch_ids[i]
<1>1. /\ i \in Stored /\ i \in MessageIds /\ batch[i] \in Message
      /\ p \in Patch /\ p # None
      /\ p = ForWalrus(i, batch[i], to_status(flow)) /\ p \in walrus
      /\ messages[i].updated_at \in Nat /\ messages[i].updated_at < now /\ now \in Nat
  BY ArchiveFacts, NoneIsNoMessage DEF Marked, AnswersStored, InBatch
<1>2. /\ messages'[i] \in Message
      /\ SameIdentity(i)
      /\ messages'[i].content = messages[i].content
      /\ messages'[i].nonce = messages[i].nonce
      /\ messages'[i].sync_status = to_status(flow)
      /\ messages'[i].quilt_patch_id = p
      /\ messages'[i].updated_at = now
      /\ now' = now + 1
  BY DEF Marked, SetSyncStatus, Message, SameIdentity
<1>3. \A j \in MessageIds \ {i} : messages'[j] = messages[j]
  BY DEF Marked, Only
<1>4. /\ BatchShrinks /\ BatchByPhase' /\ i \notin InBatch'
      /\ walrus' = walrus /\ abandoned' = abandoned /\ Sent' = Sent
  BY <1>1, MarkShrinks
<1>5. Stored' = Stored
  BY <1>1, <1>2, <1>3, NoneIsNoMessage DEF Stored, contains_key
<1>6. StampsPast'
  <2>1. \A j \in Stored : messages'[j].updated_at < now'
    BY <1>1, <1>2, <1>3, ArchiveFacts
  <2>2. \A t \in Tasks : pc[t] \in {"create", "insert"} => req[t].created_at < now'
    BY <1>1, <1>2 DEF StampsPast, AllTypes, HandlersTypeOK, RequestTypeOK, Draft
  <2> QED
    BY <1>5, <2>1, <2>2 DEF StampsPast
<1>7. \A j \in InBatch' : j # i /\ j \in InBatch /\ messages'[j] = messages[j]
  BY <1>3, <1>4 DEF BatchShrinks, InBatch
<1>8. BatchCopies' /\ PatchesOfBatch' /\ AnswersStored'
  <2>1. BatchCopies'
    BY <1>4, <1>7 DEF BatchShrinks, BatchCopies, Pending, contains_key
  <2>2. PatchesOfBatch' /\ AnswersStored'
    BY <1>4, <1>7 DEF BatchShrinks, PatchesOfBatch, AnswersStored, ForWalrus
  <2> QED
    BY <2>1, <2>2
<1>9. \A q \in Sent : q.id = i => q.updated_at < messages'[i].updated_at
  BY <1>1, <1>2, ArchiveFacts
<1>10. \A q \in Sent : q.id \in Stored /\ q.id \in MessageIds
  BY ArchiveFacts
<1>11. PatchesOfStored' /\ PatchesDiffer'
  <2> SUFFICES ASSUME NEW q \in Sent
               PROVE  /\ messages'[q.id] # None
                      /\ q.group_id = messages'[q.id].group_id
                      /\ q.sender = messages'[q.id].sender
                      /\ q.order = messages'[q.id].order
                      /\ \/ q.updated_at < messages'[q.id].updated_at
                         \/ /\ messages'[q.id].sync_status \in PendingStatus
                            /\ q = ForWalrus(q.id, messages'[q.id],
                                             to_status(messages'[q.id].sync_status))
    BY <1>4 DEF PatchesOfStored, PatchesDiffer, contains_key
  <2>1. CASE q.id = i
    BY <1>1, <1>2, <1>9, <2>1, NoneIsNoMessage DEF PatchesOfStored, SameIdentity
  <2>2. CASE q.id # i
    BY <1>3, <1>10, <2>2 DEF PatchesOfStored, contains_key
  <2> QED
    BY <2>1, <2>2
<1>12. PatchIdsStored'
  <2> SUFFICES ASSUME NEW j \in Stored, messages'[j].quilt_patch_id # None
               PROVE  /\ messages'[j].quilt_patch_id \in walrus
                      /\ messages'[j].quilt_patch_id.id = j
    BY <1>4, <1>5 DEF PatchIdsStored
  <2>1. CASE j = i
    BY <1>1, <1>2, <2>1 DEF ForWalrus
  <2>2. CASE j # i
    BY <1>3, <2>2, ArchiveFacts DEF PatchIdsStored
  <2> QED
    BY <2>1, <2>2
<1>13. ArchivedIsLatest'
  <2> SUFFICES ASSUME NEW j \in MessageIds, Archived(j)', j \notin clobbered'
               PROVE  /\ Latest(Sent, j, messages[j].quilt_patch_id)'
                      /\ (messages[j].quilt_patch_id \in walrus)'
                      /\ Shows(messages[j].quilt_patch_id, messages[j])'
    BY DEF ArchivedIsLatest
  <2>1. CASE j = i
    <3>1. messages'[i] # messages[i]
      BY <1>1, <1>2
    <3>2. messages[i] = batch[i]
      BY <2>1, <3>1
    <3>3. \A q \in Sent : q.id = i => q = p \/ q.updated_at < p.updated_at
      BY <1>1 DEF PatchesOfBatch, ForWalrus
    <3>4. p \in Sent
      BY <1>1 DEF Sent
    <3>5. Latest(Sent, j, messages[j].quilt_patch_id)'
      BY <1>1, <1>2, <1>4, <2>1, <3>3, <3>4 DEF Latest, ForWalrus
    <3>6. Shows(messages[j].quilt_patch_id, messages[j])'
      BY <1>1, <1>2, <2>1, <3>2 DEF Shows, ForWalrus, SameIdentity
    <3> QED
      BY <1>1, <1>2, <1>4, <2>1, <3>5, <3>6
  <2>2. CASE j # i
    <3>1. messages'[j] = messages[j] /\ Archived(j) /\ j \notin clobbered
      BY <1>3, <2>2 DEF Archived, contains_key
    <3> QED
      BY <1>4, <3>1 DEF ArchivedIsLatest, Latest, Shows
  <2> QED
    BY <2>1, <2>2
<1> QED
  BY <1>4, <1>6, <1>8, <1>11, <1>12, <1>13

LEMMA ArchiveWorkerStep ==
    ASSUME AllTypes, ArchiveInv, WorkerStep, UNCHANGED handlerVars,
           clobbered' = clobbered \cup
              {j \in MessageIds : messages'[j] # messages[j] /\ messages[j] # batch[j]}
    PROVE  ArchiveInv'
<1>0. UNCHANGED <<pc, req>>
  BY DEF handlerVars
<1>1. ASSUME messages' = messages PROVE clobbered' = clobbered
  BY <1>1
<1>2. CASE TimerTick \/ ReceiveAndContinue \/ ReceiveAndSync
  <2>1. UNCHANGED <<messages, now, walrus, abandoned, batch, patch_ids>> /\ Sent' = Sent
    BY <1>2 DEF TimerTick, ReceiveAndContinue, ReceiveAndSync, Receive, StartCycle,
                appVars, storageVars, Sent
  <2>2. batch = NoBatch /\ patch_ids = NoBatch /\ phase' \in {"select", "query"}
    BY <1>2 DEF TimerTick, ReceiveAndContinue, ReceiveAndSync, Receive, StartCycle,
                ArchiveInv, BatchByPhase
  <2>3. BatchByPhase' /\ BatchShrinks
    BY <2>1, <2>2, EmptyBatchShrinks DEF BatchByPhase, NoBatch
  <2> QED
    BY <1>0, <1>1, <2>1, <2>3, BatchFrame
<1>3. CASE QueryEmpty
  <2>1. UNCHANGED <<messages, now, walrus, abandoned>> /\ Sent' = Sent
    BY <1>3 DEF QueryEmpty, appVars, storageVars, Sent
  <2>2. BatchShrinks /\ BatchByPhase'
    BY <1>3, EmptyBatchShrinks DEF QueryEmpty, EndFlow, BatchByPhase, NoBatch
  <2> QED
    BY <1>0, <1>1, <2>1, <2>2, BatchFrame
<1>4. CASE Query
  BY <1>0, <1>1, <1>4, ArchiveQuery DEF Query, appVars, storageVars
<1>5. ASSUME NEW listed \in SUBSET InBatch, UploadSucceeds(listed)
      PROVE  ArchiveInv'
  <2>1. /\ UNCHANGED <<messages, now, batch, flow, abandoned>>
        /\ walrus' = walrus \cup Quilt /\ Sent' = Sent \cup Quilt
        /\ phase' = "mark"
        /\ patch_ids' = [i \in MessageIds |->
              IF i \in listed THEN ForWalrus(i, batch[i], to_status(flow)) ELSE None]
    BY <1>5 DEF UploadSucceeds, appVars, storageVars, Sent
  <2>2. /\ StampsPast' /\ PatchesOfStored' /\ PatchesDiffer'
        /\ PatchIdsStored' /\ ArchivedIsLatest'
    BY <1>0, <1>1, <2>1, ArchiveUpload
  <2>3. BatchByPhase'
    BY <2>1 DEF BatchByPhase
  <2>4. BatchCopies'
    BY <2>1 DEF ArchiveInv, BatchCopies, InBatch, Pending, contains_key
  <2>5. PatchesOfBatch'
    <3> SUFFICES ASSUME NEW i \in InBatch, NEW q \in Sent \cup Quilt, q.id = i
                 PROVE  \/ q.updated_at < batch[i].updated_at
                        \/ q = ForWalrus(i, batch[i], to_status(flow))
      BY <2>1 DEF PatchesOfBatch, InBatch, ForWalrus
    <3>1. CASE q \in Sent
      BY <3>1 DEF ArchiveInv, PatchesOfBatch
    <3>2. CASE q \in Quilt
      BY <3>2 DEF Quilt, ForWalrus
    <3> QED
      BY <3>1, <3>2
  <2>6. AnswersStored'
    BY <2>1 DEF AnswersStored, InBatch, Quilt, ForWalrus
  <2> QED
    BY <2>2, <2>3, <2>4, <2>5, <2>6 DEF ArchiveInv
<1>6. CASE UploadFails
  <2>1. /\ UNCHANGED <<messages, now, walrus>>
        /\ abandoned' = abandoned \cup {Quilt} /\ Sent' = Sent \cup Quilt
        /\ batch' = NoBatch /\ patch_ids' = NoBatch /\ InBatch' = {}
    BY <1>6 DEF UploadFails, EndFlow, appVars, storageVars, InBatch, NoBatch, Sent
  <2>2. /\ StampsPast' /\ PatchesOfStored' /\ PatchesDiffer'
        /\ PatchIdsStored' /\ ArchivedIsLatest'
    BY <1>0, <1>1, <2>1, ArchiveUpload
  <2>3. BatchByPhase' /\ BatchCopies' /\ PatchesOfBatch' /\ AnswersStored'
    BY <2>1 DEF BatchByPhase, BatchCopies, PatchesOfBatch, AnswersStored, NoBatch
  <2> QED
    BY <2>2, <2>3 DEF ArchiveInv
<1>9. CASE StoresLate
  <2>1. /\ UNCHANGED <<messages, now, abandoned, batch, patch_ids, flow, phase>>
        /\ walrus \subseteq walrus' /\ Sent' = Sent
    BY <1>9 DEF StoresLate, StoreLate, appVars, storageVars, Sent
  <2>2. BatchShrinks /\ BatchByPhase'
    BY <2>1 DEF BatchShrinks, BatchByPhase, InBatch, NoBatch, ArchiveInv
  <2> QED
    BY <1>0, <1>1, <2>1, <2>2, BatchFrame
<1>7. ASSUME NEW i \in MessageIds, Mark(i), messages' = messages, now' = now
      PROVE  ArchiveInv'
  BY <1>0, <1>1, <1>7, MarkShrinks, BatchFrame
<1>8. ASSUME NEW i \in InBatch, Mark(i), Marked(i)
      PROVE  ArchiveInv'
  BY <1>0, <1>8, ArchiveMark
<1> QED
  BY <1>2, <1>3, <1>4, <1>5, <1>6, <1>7, <1>8, <1>9, WorkerEffects DEF WorkerStep, Uploads, Marks

(***************************************************************************)
(* The theorems.                                                           *)
(***************************************************************************)
LEMMA InitEstablishesInv == Init => IInv
<1> SUFFICES ASSUME Init PROVE IInv
  OBVIOUS
<1>0. HandlersInv
  BY NoRequestsInv DEF Init, NoRequests
<1> USE DEF Init, AppInit, StorageInit, HandlersInit, WorkerInit
<1>1. Stored = {} /\ InBatch = {}
  BY DEF Stored, contains_key, InBatch, NoBatch
<1>2. TypeOK
  BY <1>0, NoBatchType DEF HandlersInv, HandlersTypeInv, TypeOK, WorkerTypeOK, PendingStatus
<1>3. Sent = {}
  BY DEF Sent
<1>4. ArchiveInv
  BY <1>0, <1>1, <1>3 DEF HandlersInv, ArchiveInv, BatchByPhase, BatchCopies, PatchesOfBatch,
     PatchesOfStored, PatchesDiffer, PatchIdsStored, AnswersStored, ArchivedIsLatest,
     Archived, contains_key
<1> QED
  BY <1>0, <1>2, <1>4 DEF IInv, HandlersInv

LEMMA NextKeepsInv == IInv /\ [Next]_vars => IInv'
<1> SUFFICES ASSUME IInv, [Next]_vars PROVE IInv'
  OBVIOUS
<1>0. AllTypes /\ StampsPast /\ clobbered \subseteq MessageIds
  BY DEF IInv, TypeOK, AllTypes, ArchiveInv
<1>1. ASSUME NEW t \in Tasks, Serve(HandlerStep(t))
      PROVE  IInv'
  <2>1. TypeOK'
    BY <1>0, <1>1, TypesOfHandlers, HandlerStepTypes
    DEF Serve, TypeOK, AllTypes, WorkerTypeOK, workerVars
  <2>2. ClientInv' /\ ArchiveInv'
    BY <1>0, <1>1, TypesOfHandlers, HandlersKeepClientInv, ArchiveHandlerStep DEF Serve, IInv
  <2> QED
    BY <2>1, <2>2 DEF IInv
<1>2. CASE SyncToWalrus
  <2>1. TypeOK'
    BY <1>0, <1>2, WorkerStepTypes
    DEF SyncToWalrus, Work, TypeOK, AllTypes, HandlersTypeOK, RequestTypeOK, handlerVars
  <2>2. ClientInv' /\ ArchiveInv'
    BY <1>0, <1>2, WorkerKeepsClientInv, ArchiveWorkerStep DEF SyncToWalrus, Work, IInv
  <2> QED
    BY <2>1, <2>2 DEF IInv
<1>3. CASE UNCHANGED vars
  <2>1. /\ UNCHANGED <<messages, now, pc, req, walrus, abandoned, clobbered, batch, patch_ids,
                       flow, phase, nonces, group_orders, notifications, message_count>>
        /\ Sent' = Sent
    BY <1>3 DEF vars, appVars, storageVars, handlerVars, workerVars, Sent
  <2>2. HandlersInv
    BY <1>0, TypesOfHandlers DEF HandlersInv, IInv
  <2>3. HandlersInv'
    BY <1>3, <2>2, HandlersFrame DEF vars
  <2>4. TypeOK'
    BY <2>1, <2>3 DEF IInv, TypeOK, WorkerTypeOK, HandlersInv, HandlersTypeInv
  <2>5. BatchShrinks /\ BatchByPhase'
    BY <2>1 DEF BatchShrinks, BatchByPhase, InBatch, IInv, ArchiveInv, NoBatch
  <2>6. ArchiveInv'
    BY <1>0, <2>1, <2>5, BatchFrame DEF IInv
  <2> QED
    BY <2>3, <2>4, <2>6 DEF IInv, HandlersInv
<1> QED
  BY <1>1, <1>2, <1>3 DEF Next, ServeRequest

\* The inductive invariant holds of every behaviour of handlers and sync worker.
THEOREM InvariantHolds == Spec => []IInv
BY InitEstablishesInv, NextKeepsInv, PTL DEF Spec

\* The state of handlers, storage, channel, worker and archive stays well typed.
THEOREM TypeCorrect == Spec => []TypeOK
<1>1. IInv => TypeOK
  BY DEF IInv
<1> QED
  BY <1>1, InvariantHolds, PTL

\* storage/memory.rs: the nonce set never leaks or forgets a nonce, and no two
\* stored messages share one, however creations and edits interleave.
THEOREM NoncesStayExact == Spec => []NoncesExact
<1>1. IInv => NoncesExact
  BY DEF IInv, ClientInv
<1> QED
  BY <1>1, InvariantHolds, PTL

\* storage/memory.rs: no order is handed out twice in a group, although the
\* counter and the messages are under different locks.
THEOREM OrdersStayUnique == Spec => []OrdersUnique
<1>1. IInv => OrdersUnique
  BY DEF IInv, ClientInv
<1> QED
  BY <1>1, InvariantHolds, PTL

\* handlers.rs: the ownership check of PUT and DELETE, made on a stale copy,
\* holds of the message that is written.
THEOREM OnlyOwnersWrite == Spec => []WriterOwnsMessage
<1>1. IInv => WriterOwnsMessage
  BY DEF IInv, ClientInv
<1> QED
  BY <1>1, InvariantHolds, PTL

\* walrus_sync.rs: whatever uploads fail, are retried, or are stored without an
\* answer and however late, Walrus holds no patch that is newer than, or foreign to, its message.
THEOREM ArchiveNeverAhead == Spec => []ArchiveFollowsStorage
<1>1. ASSUME IInv PROVE ArchiveFollowsStorage
  <2>1. AllTypes /\ ArchiveInv
    BY <1>1 DEF IInv, TypeOK, AllTypes
  <2>2. \A p \in walrus : p \in Sent /\ p.updated_at <= messages[p.id].updated_at
    BY <2>1, SentFacts DEF Sent
  <2> QED
    BY <2>1, <2>2 DEF ArchiveFollowsStorage, ArchiveInv, PatchesOfStored, PatchIdsStored
<1> QED
  BY <1>1, InvariantHolds, PTL

\* walrus_sync.rs: unless the worker overwrote a client write, a reader that
\* takes the latest patch sees an archived message as the relayer serves it.
THEOREM ArchiveIsCurrent == Spec => []ArchiveShowsMessage
<1>1. IInv => ArchiveShowsMessage
  BY DEF IInv, ArchiveInv, ArchivedIsLatest, ArchiveShowsMessage, LatestPatch, Latest, Sent
<1> QED
  BY <1>1, InvariantHolds, PTL

\* handlers.rs, walrus_sync.rs: one step, seen from one stored message.
LEMMA OwnerEditsStep ==
    ASSUME IInv, Next, NEW i \in Stored
    PROVE  OwnerEdits(i)
<1>1. AllTypes /\ StampsPast /\ ClientInv
  BY DEF IInv, TypeOK, AllTypes, ArchiveInv
<1>2. contains_key(i)' /\ SameIdentity(i)
  BY <1>1, IdentityKept DEF Next, ServeRequest, Serve, SyncToWalrus, Work
<1>3. i \in MessageIds /\ messages[i] \in Message
  BY <1>1, TypesOfHandlers, StoredMessage
<1>4. CASE SyncToWalrus
  <2>1. messages'[i].content = messages[i].content /\ messages'[i].nonce = messages[i].nonce
    <3>1. CASE messages' = messages
      BY <3>1
    <3>2. ASSUME NEW j \in InBatch, Marked(j)
          PROVE  messages'[i].content = messages[i].content
                 /\ messages'[i].nonce = messages[i].nonce
      BY <1>3, <3>2 DEF Marked, Only, SetSyncStatus, Message, InBatch
    <3> QED
      BY <1>1, <1>4, <3>1, <3>2, WorkerEffects DEF SyncToWalrus, Work
  <2> QED
    BY <1>2, <2>1 DEF OwnerEdits, SameIdentity
<1>5. ASSUME NEW t \in Tasks, HandlerStep(t)
      PROVE  OwnerEdits(i)
  <2>1. CASE UpdateWrites(t) /\ req[t].id = i
    BY <1>1, <1>2, <2>1 DEF OwnerEdits, SameIdentity, UpdateWrites, ClientInv,
                            WriterOwnsMessage, MayChange
  <2>2. CASE UpdateWrites(t) /\ req[t].id # i
    BY <1>2, <2>2 DEF OwnerEdits, SameIdentity, UpdateWrites, UpdateMessage,
                      AllTypes, AppTypeOK, StorageTypeOK
  <2>3. CASE DeleteWrites(t)
    <3>1. messages' = [messages EXCEPT ![req[t].id] = mark_for_deletion(@, now)]
      BY <2>3 DEF DeleteWrites, DeleteMessage
    <3>2. now \in Nat /\ messages \in [MessageIds -> Message \cup {None}]
      BY <1>1 DEF AllTypes, AppTypeOK, StorageTypeOK
    <3>3. messages'[i].content = messages[i].content /\ messages'[i].nonce = messages[i].nonce
      BY <1>3, <3>1, <3>2, MarkForDeletionType
    <3> QED
      BY <1>2, <3>3 DEF OwnerEdits, SameIdentity
  <2>4. CASE CreateInserts(t)
    <3>1. messages'[i] = messages[i]
      BY <1>1, <1>3, <2>4, NoneIsNoMessage DEF CreateInserts, InsertMessage, DuplicateId,
         contains_key, AllTypes, AppTypeOK, StorageTypeOK
    <3> QED
      BY <1>2, <3>1 DEF OwnerEdits, SameIdentity
  <2>5. CASE CreateMessage(t) \/ CreateTakesOrder(t) \/ CreateRejected(t)
             \/ CreateNotifies(t) \/ UpdateChecks(t) \/ UpdateRejected(t) \/ DeleteChecks(t)
    <3>1. messages' = messages
      BY <2>5 DEF CreateMessage, CreateTakesOrder, TakeOrder, CreateRejected, RejectInsert,
                  CreateNotifies, UpdateChecks, UpdateRejected, RejectUpdate, DeleteChecks,
                  appVars, storageVars
    <3> QED
      BY <1>2, <3>1 DEF OwnerEdits, SameIdentity
  <2> QED
    BY <1>5, <2>1, <2>2, <2>3, <2>4, <2>5 DEF HandlerStep, HandlerContinues
<1> QED
  BY <1>4, <1>5 DEF Next, ServeRequest, Serve

\* handlers.rs, walrus_sync.rs: in no step of any behaviour does a stored message
\* disappear, change its identity, or say something its owner has not put there.
THEOREM OnlyOwnersEdit == Spec => OnlyOwnerEdits
<1>1. IInv /\ [Next]_vars => [\A i \in Stored : OwnerEdits(i)]_vars
  BY OwnerEditsStep
<1> QED
  BY <1>1, InvariantHolds, PTL DEF Spec, OnlyOwnerEdits

(***************************************************************************)
(* What a message says, and what a reader makes of patches.                *)
(***************************************************************************)
LEMMA SaysType ==
    ASSUME NEW m, m.content \in Contents, m.nonce \in Nonces, m.updated_at \in Nat
    PROVE  /\ Says(m) # None
           /\ Says(m).text = <<m.content, m.nonce>>
           /\ Says(m).deleted = is_deleted(m)
           /\ Says(m).at = m.updated_at
           /\ <<m.content, m.nonce>> \in Contents \X Nonces
<1> DEFINE d == is_deleted(m)  x == <<m.content, m.nonce>>  u == m.updated_at
<1>1. x \in Contents \X Nonces /\ d \in BOOLEAN /\ u \in Nat
  BY DEF is_deleted
<1>2. Says(m) = [text |-> x, deleted |-> d, at |-> u]
  BY DEF Says
<1> HIDE DEF d, x, u
<1>3. Says(m) \in [text : Contents \X Nonces, deleted : BOOLEAN, at : Nat]
  BY <1>1, <1>2
<1>4. Says(m) # None
  BY <1>3, RefinementAssumption
<1>5. Says(m).text = x /\ Says(m).deleted = d /\ Says(m).at = u
  BY <1>2
<1> QED
  BY <1>1, <1>4, <1>5 DEF d, x, u

LEMMA LatestRead ==
    ASSUME NEW W \in SUBSET Patch, NEW i \in MessageIds, NEW p, Latest(W, i, p)
    PROVE  /\ Reads(W)[i] = Says(p)
           /\ Reads(W)[i] # None /\ Reads(W)[i].at = p.updated_at
<1> DEFINE c == CHOOSE q \in W : Latest(W, i, q)
<1>1. c \in W /\ Latest(W, i, c)
  BY DEF Latest
<1>2. c.updated_at \in Nat /\ p.updated_at \in Nat /\ p \in W /\ p \in Patch /\ p.id = i
  BY <1>1 DEF Latest, Patch
<1>3. c = p
  BY <1>1, <1>2 DEF Latest
<1> HIDE DEF c
<1>4. Reads(W)[i] = Says(c)
  BY <1>2 DEF Reads, c
<1>5. p.content \in Contents /\ p.nonce \in Nonces
  BY <1>2 DEF Patch
<1> QED
  BY <1>2, <1>3, <1>4, <1>5, SaysType

LEMMA NothingRead ==
    ASSUME NEW W, NEW i \in MessageIds, \A q \in W : q.id # i
    PROVE  Reads(W)[i] = None
BY DEF Reads

\* W is what was stored, Q a quilt that is stored now: a reader finds the latest
\* patch of each message there, which is that of the quilt if it is newer.
LEMMA QuiltRead ==
    ASSUME NEW W \in SUBSET Patch, NEW Q \in SUBSET Patch, NEW i \in MessageIds,
           \A p, q \in Q : p.id = q.id => p = q,
           \A p, q \in W \cup Q : p.id = q.id /\ p.updated_at = q.updated_at => p = q,
           (\E p \in W : p.id = i) => \E p \in W : Latest(W, i, p)
    PROVE  /\ (\E p \in W \cup Q : p.id = i) => \E p \in W \cup Q : Latest(W \cup Q, i, p)
           /\ Reads(W \cup Q)[i] =
                 IF Reads(Q)[i] # None /\ (Reads(W)[i] # None => Reads(W)[i].at < Reads(Q)[i].at)
                 THEN Reads(Q)[i] ELSE Reads(W)[i]
<1> DEFINE V == W \cup Q
<1>0. V \in SUBSET Patch /\ \A p \in V : p.updated_at \in Nat
  BY DEF Patch
<1>1. CASE ~\E p \in Q : p.id = i
  <2>1. Reads(Q)[i] = None
    BY <1>1, NothingRead
  <2>2. CASE \E p \in W : p.id = i
    <3>1. PICK p \in W : Latest(W, i, p)
      BY <2>2
    <3>2. Latest(V, i, p)
      BY <1>1, <3>1 DEF Latest
    <3>3. Reads(V)[i] = Says(p) /\ Reads(W)[i] = Says(p)
      <4> HIDE DEF V
      <4> QED
        BY <1>0, <3>1, <3>2, LatestRead
    <3> QED
      BY <2>1, <3>2, <3>3 DEF Latest
  <2>3. CASE ~\E p \in W : p.id = i
    <3>1. \A q \in V : q.id # i
      BY <1>1, <2>3
    <3>2. Reads(V)[i] = None /\ Reads(W)[i] = None
      <4> HIDE DEF V
      <4> QED
        BY <2>3, <3>1, NothingRead
    <3> QED
      BY <2>1, <3>1, <3>2
  <2> QED
    BY <2>2, <2>3
<1>2. CASE \E p \in Q : p.id = i
  <2>1. PICK p \in Q : p.id = i
    BY <1>2
  <2>2. Latest(Q, i, p)
    BY <2>1 DEF Latest
  <2>3. Reads(Q)[i] = Says(p) /\ Reads(Q)[i] # None /\ Reads(Q)[i].at = p.updated_at
    BY <2>2, LatestRead
  <2>4. CASE ~\E q \in W : q.id = i
    <3>1. Latest(V, i, p)
      BY <2>2, <2>4 DEF Latest
    <3>2. Reads(V)[i] = Says(p)
      <4> HIDE DEF V
      <4> QED
        BY <1>0, <3>1, LatestRead
    <3>3. Reads(W)[i] = None
      BY <2>4, NothingRead
    <3> QED
      BY <2>3, <3>1, <3>2, <3>3 DEF Latest
  <2>5. CASE \E q \in W : q.id = i
    <3>1. PICK l \in W : Latest(W, i, l)
      BY <2>5
    <3>2. Reads(W)[i] = Says(l) /\ Reads(W)[i] # None /\ Reads(W)[i].at = l.updated_at
      BY <3>1, LatestRead
    <3>3. CASE l.updated_at < p.updated_at
      <4>1. Latest(V, i, p)
        BY <1>0, <2>2, <3>1, <3>3 DEF Latest
      <4>2. Reads(V)[i] = Says(p)
        <5> HIDE DEF V
        <5> QED
          BY <1>0, <4>1, LatestRead
      <4> QED
        BY <2>3, <3>2, <3>3, <4>1, <4>2 DEF Latest
    <3>4. CASE ~(l.updated_at < p.updated_at)
      <4>1. p = l \/ p.updated_at < l.updated_at
        BY <1>0, <2>1, <3>1, <3>4 DEF Latest
      <4>2. Latest(V, i, l)
        BY <1>0, <2>2, <3>1, <4>1 DEF Latest
      <4>3. Reads(V)[i] = Says(l)
        <5> HIDE DEF V
        <5> QED
          BY <1>0, <4>2, LatestRead
      <4> QED
        BY <2>3, <3>2, <3>4, <4>2, <4>3 DEF Latest
    <3> QED
      BY <3>3, <3>4
  <2> QED
    BY <2>4, <2>5
<1> QED
  BY <1>1, <1>2

(***************************************************************************)
(* The refinement needs one thing more of a state than the invariant says: *)
(* a reader of Walrus finds a latest patch of every message it has any of. *)
(***************************************************************************)
LatestExists ==
    \A i \in MessageIds : (\E p \in walrus : p.id = i) => \E p \in walrus : Latest(walrus, i, p)

\* client.rs, store_quilt: the quilt of the batch, or one given up earlier, is
\* stored as a whole and shows where it is newer.
LEMMA QuiltStored ==
    ASSUME AllTypes, ArchiveInv, LatestExists, NEW Q, Q \in abandoned \/ Q = Quilt,
           walrus' = walrus \cup Q
    PROVE  /\ LatestExists'
           /\ Reads(walrus') = WB!Shown(Reads(Q))
<1>1. walrus \in SUBSET Patch /\ Q \in SUBSET Patch
  BY QuiltType DEF AllTypes, WorkerTypeOK
<1>2. \A p, q \in Q : p.id = q.id => p = q
  BY QuiltPatches DEF ArchiveInv, PatchesDiffer
<1>3. \A p, q \in walrus \cup Q : p.id = q.id /\ p.updated_at = q.updated_at => p = q
  <2>1. CASE Q \in abandoned
    BY <2>1 DEF ArchiveInv, PatchesDiffer, Sent
  <2>2. CASE Q = Quilt
    BY <1>2, <2>2, QuiltDiffers DEF ArchiveInv, PatchesDiffer, Sent
  <2> QED
    BY <2>1, <2>2
<1>4. ASSUME NEW i \in MessageIds
      PROVE  /\ (\E p \in walrus \cup Q : p.id = i) =>
                   \E p \in walrus \cup Q : Latest(walrus \cup Q, i, p)
             /\ Reads(walrus \cup Q)[i] =
                   IF Reads(Q)[i] # None
                      /\ (Reads(walrus)[i] # None => Reads(walrus)[i].at < Reads(Q)[i].at)
                   THEN Reads(Q)[i] ELSE Reads(walrus)[i]
  <2>1. (\E p \in walrus : p.id = i) => \E p \in walrus : Latest(walrus, i, p)
    BY DEF LatestExists
  <2> QED
    BY <1>1, <1>2, <1>3, <2>1, QuiltRead
<1>5. LatestExists'
  BY <1>4 DEF LatestExists, Latest
<1>6. Reads(walrus') = [i \in MessageIds |-> Reads(walrus')[i]]
  BY DEF Reads
<1> QED
  BY <1>4, <1>5, <1>6 DEF WB!Shown

LEMMA InitLatest == Init => LatestExists
BY DEF Init, WorkerInit, LatestExists

\* What a step does to Walrus: nothing, or it stores one quilt.
LEMMA WalrusMoves ==
    ASSUME IInv, [Next]_vars
    PROVE  \/ walrus' = walrus
           \/ \E Q : (Q \in abandoned \/ Q = Quilt) /\ walrus' = walrus \cup Q
<1>1. ASSUME NEW i \in MessageIds, Mark(i) PROVE walrus' = walrus
  BY <1>1 DEF Mark
<1>2. CASE WorkerStep
  BY <1>1, <1>2 DEF WorkerStep, TimerTick, StartCycle, ReceiveAndContinue, ReceiveAndSync,
     QueryEmpty, Query, Uploads, UploadSucceeds, UploadFails, StoresLate, StoreLate, Marks
<1> QED
  BY <1>2 DEF Next, ServeRequest, Serve, SyncToWalrus, Work, vars, workerVars

LEMMA NextLatest ==
    ASSUME IInv, LatestExists, [Next]_vars
    PROVE  LatestExists'
<1>0. AllTypes /\ ArchiveInv
  BY DEF IInv, TypeOK, AllTypes
<1>1. CASE walrus' = walrus
  BY <1>1 DEF LatestExists, Latest
<1>2. ASSUME NEW Q, Q \in abandoned \/ Q = Quilt, walrus' = walrus \cup Q
      PROVE  LatestExists'
  BY <1>0, <1>2, QuiltStored
<1> QED
  BY <1>1, <1>2, WalrusMoves

(***************************************************************************)
(* The steps of the handlers: a write or a deletion, or nothing at all.    *)
(***************************************************************************)
\* Parts of the mapping.
Dones == [i \in MessageIds |-> Archived(i)]

Late == {Reads(quilt) : quilt \in abandoned}

LEMMA ArchiveSame ==
    ASSUME UNCHANGED <<batch, walrus, abandoned>>
    PROVE  Sends' = Sends /\ Late' = Late /\ Reads(walrus)' = Reads(walrus)
<1>1. Sends' = Sends
  BY DEF Sends, is_deleted, Says
<1>2. Reads(walrus)' = Reads(walrus)
  BY DEF Reads, Latest, Says, is_deleted
<1>3. Late' = Late
  BY DEF Late, Reads, Latest, Says, is_deleted
<1> QED
  BY <1>1, <1>2, <1>3

LEMMA ServesSame ==
    ASSUME messages' = messages
    PROVE  Serves' = Serves /\ Dones' = Dones
BY DEF Serves, Dones, Archived, contains_key, is_deleted, Says

LEMMA NothingMaps ==
    ASSUME UNCHANGED <<messages, batch, walrus, abandoned>>
    PROVE  UNCHANGED WB!vars
BY ArchiveSame, ServesSame DEF WB!vars, Dones, Late

\* A message is written: it gets a later stamp than it had.
LEMMA BecomesMaps ==
    ASSUME NEW i \in MessageIds, NEW m \in Message, messages'[i] = m, Only(i),
           messages[i] # None =>
              messages[i] \in Message /\ messages[i].updated_at < m.updated_at,
           NEW x, x = <<m.content, m.nonce>>, NEW d, d = is_deleted(m)
    PROVE  /\ WB!Becomes(i, x, d)
           /\ x \in Contents \X Nonces
           /\ Dones' = [Dones EXCEPT ![i] = m.sync_status \notin PendingStatus]
<1>1. m # None /\ m.content \in Contents /\ m.nonce \in Nonces /\ m.updated_at \in Nat
  BY NoneIsNoMessage DEF Message
<1>2. Serves' = [Serves EXCEPT ![i] = Says(m)]
  BY <1>1 DEF Serves, contains_key, Only, is_deleted, Says
<1>3. Serves'[i] = Says(m)
  BY <1>2 DEF Serves
<1>4. Says(m) # None /\ Says(m).at = m.updated_at /\ x \in Contents \X Nonces
  BY <1>1, SaysType
<1>5. Says(m) = [text |-> x, deleted |-> d, at |-> Serves'[i].at]
  BY <1>3, <1>4 DEF Says
<1>6. Serves[i] # None => Serves[i].at < Serves'[i].at
  <2> SUFFICES ASSUME Serves[i] # None PROVE Serves[i].at < Serves'[i].at
    OBVIOUS
  <2>1. messages[i] # None /\ Serves[i] = Says(messages[i])
    BY DEF Serves, contains_key
  <2>2. /\ messages[i].content \in Contents /\ messages[i].nonce \in Nonces
        /\ messages[i].updated_at \in Nat
    BY <2>1 DEF Message
  <2>3. Serves[i].at = messages[i].updated_at
    BY <2>1, <2>2, SaysType
  <2> QED
    BY <1>3, <1>4, <2>1, <2>3
<1>7. Dones' = [Dones EXCEPT ![i] = m.sync_status \notin PendingStatus]
  BY <1>1 DEF Dones, Archived, contains_key, Only
<1>8. WB!Becomes(i, x, d)
  BY <1>1, <1>2, <1>3, <1>4, <1>5, <1>6 DEF WB!Becomes
<1> QED
  BY <1>4, <1>7, <1>8

\* handlers.rs: what a POST stores and a PUT writes is a new text, a DELETE only
\* sets the flag; every other step of a handler is invisible.
LEMMA HandlerMaps ==
    ASSUME HandlersTypeInv, StampsPast, NEW t \in Tasks, HandlerStep(t), UNCHANGED workerVars
    PROVE  WB!Next \/ UNCHANGED WB!vars
<1> USE DEF HandlersTypeInv, AppTypeOK, StorageTypeOK, HandlersTypeOK, RequestTypeOK
<1>0. UNCHANGED <<batch, walrus, abandoned>>
  BY DEF workerVars
<1>1. Sends' = Sends /\ Late' = Late /\ Reads(walrus)' = Reads(walrus)
  BY <1>0, ArchiveSame
<1>2. ASSUME NEW i \in MessageIds, NEW m \in Message, messages' = [messages EXCEPT ![i] = m],
             m.sync_status \in PendingStatus, m.sync_status # "DeletePending",
             messages[i] # None =>
                messages[i] \in Message /\ messages[i].updated_at < m.updated_at
      PROVE  WB!Next
  <2>1. PICK x : x = <<m.content, m.nonce>>
    OBVIOUS
  <2>2. is_deleted(m) = FALSE
    BY <1>2 DEF is_deleted, PendingStatus
  <2>3. /\ WB!Becomes(i, x, FALSE) /\ x \in Contents \X Nonces
        /\ Dones' = [Dones EXCEPT ![i] = FALSE]
    <3>1. messages'[i] = m /\ Only(i)
      BY <1>2 DEF Only
    <3> QED
      BY <1>2, <2>1, <2>2, <3>1, BecomesMaps
  <2>4. WB!Write(i, x)
    BY <1>1, <2>3 DEF WB!Write, Dones, Late
  <2> QED
    BY <2>3, <2>4 DEF WB!Next
<1>3. CASE CreateInserts(t)
  <2> DEFINE i == req[t].id  m == Drafted(req[t])
  <2>1. /\ req[t] \in Draft /\ i \in MessageIds /\ messages[i] = None
        /\ messages' = [messages EXCEPT ![i] = m]
    BY <1>3 DEF CreateInserts, InsertMessage, Draft, DuplicateId, contains_key
  <2>2. m \in Message /\ m.sync_status = "SyncPending"
    BY <2>1, DraftedType
  <2> HIDE DEF i, m
  <2> QED
    BY <1>2, <2>1, <2>2 DEF PendingStatus
<1>4. CASE UpdateWrites(t)
  <2> DEFINE i == req[t].id
             m == update_content(messages[i], req[t].content, req[t].nonce, now)
  <2>1. /\ i \in MessageIds /\ req[t].content \in Contents /\ req[t].nonce \in Nonces
        /\ messages[i] \in Message /\ messages' = [messages EXCEPT ![i] = m] /\ now \in Nat
        /\ i \in Stored
    BY <1>4 DEF UpdateWrites, UpdateMessage, Edit, contains_key, Stored
  <2>2. m \in Message /\ m.sync_status = "UpdatePending" /\ m.updated_at = now
    BY <2>1, UpdateContentType
  <2>3. messages[i].updated_at < now
    BY <2>1 DEF StampsPast
  <2> HIDE DEF i, m
  <2> QED
    BY <1>2, <2>1, <2>2, <2>3 DEF PendingStatus
<1>5. CASE DeleteWrites(t)
  <2> DEFINE i == req[t].id  m == mark_for_deletion(messages[i], now)
  <2>1. /\ i \in MessageIds /\ messages[i] \in Message /\ messages[i] # None
        /\ messages' = [messages EXCEPT ![i] = m] /\ now \in Nat /\ i \in Stored
    BY <1>5 DEF DeleteWrites, DeleteMessage, Deletion, contains_key, Stored
  <2>2. /\ m \in Message /\ m.sync_status = "DeletePending" /\ m.updated_at = now
        /\ m.content = messages[i].content /\ m.nonce = messages[i].nonce
    BY <2>1, MarkForDeletionType
  <2>3. messages[i].updated_at < now
    BY <2>1 DEF StampsPast
  <2>4. messages'[i] = m /\ Only(i)
    BY <2>1 DEF Only
  <2> HIDE DEF i, m
  <2>5. is_deleted(m) = TRUE
    BY <2>2 DEF is_deleted
  <2>6. PICK x : x = <<m.content, m.nonce>>
    OBVIOUS
  <2>7. WB!Becomes(i, x, TRUE) /\ Dones' = [Dones EXCEPT ![i] = FALSE]
    BY <2>1, <2>2, <2>3, <2>4, <2>5, <2>6, BecomesMaps DEF PendingStatus
  <2>8. Serves[i] # None /\ Serves[i].text = x
    <3>1. Serves[i] = Says(messages[i])
      BY <2>1 DEF Serves, contains_key
    <3>2. /\ messages[i].content \in Contents /\ messages[i].nonce \in Nonces
          /\ messages[i].updated_at \in Nat
      BY <2>1 DEF Message
    <3> QED
      BY <2>2, <2>6, <3>1, <3>2, SaysType
  <2>9. WB!Becomes(i, Serves[i].text, TRUE)
    BY <2>7, <2>8
  <2>10. WB!Delete(i)
    BY <1>1, <2>7, <2>8, <2>9 DEF WB!Delete, Dones, Late
  <2> QED
    BY <2>1, <2>10 DEF WB!Next
<1>6. CASE CreateMessage(t) \/ CreateTakesOrder(t) \/ CreateRejected(t)
           \/ CreateNotifies(t) \/ UpdateChecks(t) \/ UpdateRejected(t) \/ DeleteChecks(t)
  <2>1. messages' = messages
    BY <1>6 DEF CreateMessage, CreateTakesOrder, TakeOrder, CreateRejected, RejectInsert,
                CreateNotifies, UpdateChecks, UpdateRejected, RejectUpdate, DeleteChecks,
                appVars, storageVars
  <2> QED
    BY <1>0, <2>1, NothingMaps
<1> QED
  BY <1>3, <1>4, <1>5, <1>6 DEF HandlerStep, HandlerContinues

(***************************************************************************)
(* The steps of the worker and of Walrus.                                  *)
(***************************************************************************)
\* What a copy says: the running workflow decides whether it says deleted.
LEMMA CopySays ==
    ASSUME AllTypes, ArchiveInv, NEW i \in InBatch
    PROVE  LET p == ForWalrus(i, batch[i], to_status(flow))
           IN  /\ i \in MessageIds
               /\ Sends[i] # None /\ Sends[i] = Says(p)
               /\ Sends[i].deleted = (flow = "DeletePending")
<1> DEFINE p == ForWalrus(i, batch[i], to_status(flow))
<1>1. /\ i \in MessageIds /\ batch[i] # None /\ batch[i] \in Message
      /\ batch[i].content \in Contents /\ batch[i].nonce \in Nonces
      /\ batch[i].updated_at \in Nat
      /\ batch[i].sync_status = flow /\ flow \in PendingStatus
  BY DEF InBatch, AllTypes, WorkerTypeOK, ArchiveInv, BatchCopies, Message
<1>2. is_deleted(batch[i]) = (flow = "DeletePending")
  BY <1>1 DEF is_deleted, PendingStatus
<1>3. /\ p.sync_status = to_status(flow) /\ p.content = batch[i].content
      /\ p.nonce = batch[i].nonce /\ p.updated_at = batch[i].updated_at
  BY DEF ForWalrus
<1> HIDE DEF p
<1>4. is_deleted(p) = (flow = "DeletePending")
  BY <1>1, <1>3 DEF is_deleted, to_status, PendingStatus
<1>5. Sends[i] = Says(batch[i])
  BY <1>1 DEF Sends
<1>6. Says(p) = Sends[i]
  BY <1>2, <1>3, <1>4, <1>5 DEF Says
<1>7. Sends[i] # None /\ Sends[i].deleted = (flow = "DeletePending")
  BY <1>1, <1>2, <1>5, SaysType
<1> QED
  BY <1>1, <1>6, <1>7 DEF p

\* walrus_sync.rs: a reader of the quilt alone sees the copies.
LEMMA QuiltSays ==
    ASSUME AllTypes, ArchiveInv
    PROVE  Reads(Quilt) = Sends
<1>1. ASSUME NEW i \in MessageIds PROVE Reads(Quilt)[i] = Sends[i]
  <2>1. CASE i \in InBatch
    <3> DEFINE p == ForWalrus(i, batch[i], to_status(flow))
    <3>1. p \in Quilt /\ p.id = i
      BY <2>1 DEF Quilt, ForWalrus
    <3>2. Latest(Quilt, i, p)
      BY <3>1, QuiltPatches DEF Latest
    <3>3. Sends[i] = Says(p)
      BY <2>1, CopySays
    <3> HIDE DEF p
    <3> QED
      BY <3>2, <3>3, QuiltType, LatestRead
  <2>2. CASE i \notin InBatch
    <3>1. \A q \in Quilt : q.id # i
      BY <2>2, QuiltPatches
    <3>2. Sends[i] = None
      BY <2>2 DEF Sends, InBatch
    <3> QED
      BY <3>1, <3>2, NothingRead
  <2> QED
    BY <2>1, <2>2
<1>2. Reads(Quilt) = [i \in MessageIds |-> Reads(Quilt)[i]]
  BY DEF Reads
<1>3. Sends = [i \in MessageIds |-> Sends[i]]
  BY DEF Sends
<1> QED
  BY <1>1, <1>2, <1>3

LEMMA EmptyBatch == batch = NoBatch => Sends = WB!Nothing
BY DEF NoBatch, Sends, WB!Nothing

\* walrus_sync.rs, the query: some of the pending messages are copied.
LEMMA QueryMaps ==
    ASSUME AllTypes, ArchiveInv, Query
    PROVE  WB!Next
<1>1. PICK s \in Batches(WithSyncStatus(flow)) :
        /\ s # {}
        /\ batch' = [i \in MessageIds |-> IF i \in s THEN messages[i] ELSE None]
  BY DEF Query
<1>2. UNCHANGED <<messages, walrus, abandoned>> /\ batch = NoBatch
  BY DEF Query, appVars, storageVars, ArchiveInv, BatchByPhase
<1>3. \A i \in s : i \in MessageIds /\ contains_key(i) /\ messages[i].sync_status \in PendingStatus
  BY BatchSubset DEF WithSyncStatus, Stored, AllTypes, WorkerTypeOK
<1>4. \A i \in s : Serves[i] = Says(messages[i]) /\ ~Dones[i]
  BY <1>3 DEF Serves, Dones, Archived
<1>5. \A i \in s : Serves[i] # None
  <2> SUFFICES ASSUME NEW i \in s PROVE Serves[i] # None
    OBVIOUS
  <2>1. messages[i] \in Message
    BY <1>3 DEF AllTypes, AppTypeOK, StorageTypeOK, contains_key
  <2>2. /\ messages[i].content \in Contents /\ messages[i].nonce \in Nonces
        /\ messages[i].updated_at \in Nat
    BY <2>1 DEF Message
  <2> QED
    BY <1>4, <2>2, SaysType
<1>6. Sends' = [i \in MessageIds |-> IF i \in s THEN Serves[i] ELSE None]
  BY <1>1, <1>3 DEF Sends, Serves, contains_key, is_deleted, Says
<1>7. Late' = Late /\ Reads(walrus)' = Reads(walrus)
  BY <1>2 DEF Late, Reads, Latest, Says, is_deleted
<1>8. Sends = WB!Nothing
  BY <1>2, EmptyBatch
<1>9. WB!Take(s)
  BY <1>1, <1>2, <1>4, <1>5, <1>6, <1>7, <1>8, <1>3, ServesSame DEF WB!Take, Dones, Late
<1>10. s \in SUBSET MessageIds
  BY <1>3
<1> QED
  BY <1>9, <1>10 DEF WB!Next

\* client.rs, store_quilt: the copies arrive, the upload is given up, or what was
\* given up arrives after all.
LEMMA UploadMaps ==
    ASSUME AllTypes, ArchiveInv, LatestExists, Uploads \/ UploadFails \/ StoresLate
    PROVE  WB!Next
<1>1. messages' = messages
  BY DEF Uploads, UploadSucceeds, UploadFails, StoresLate, StoreLate, appVars, storageVars
<1>2. Serves' = Serves /\ Dones' = Dones
  BY <1>1, ServesSame
<1>3. CASE Uploads
  <2>1. walrus' = walrus \cup Quilt /\ UNCHANGED <<batch, abandoned>>
    BY <1>3 DEF Uploads, UploadSucceeds
  <2>2. Sends' = Sends /\ Late' = Late
    BY <2>1 DEF Sends, Late, Reads, Latest, is_deleted, Says
  <2>3. Reads(walrus') = WB!Shown(Sends)
    BY <2>1, QuiltStored, QuiltSays
  <2>4. WB!Arrive
    BY <1>2, <2>2, <2>3 DEF WB!Arrive, Dones, Late
  <2> QED
    BY <2>4 DEF WB!Next
<1>4. CASE UploadFails
  <2>1. batch' = NoBatch /\ walrus' = walrus /\ abandoned' = abandoned \cup {Quilt}
    BY <1>4 DEF UploadFails, EndFlow
  <2>2. Sends' = WB!Nothing
    BY <2>1 DEF Sends, NoBatch, WB!Nothing
  <2>3. Reads(walrus)' = Reads(walrus)
    BY <2>1 DEF Reads, Latest, is_deleted, Says
  <2>4. Late' = {Reads(quilt) : quilt \in abandoned'}
    BY DEF Late, Reads, Latest, is_deleted, Says
  <2>5. Late' = Late \cup {Sends}
    BY <2>1, <2>4, QuiltSays DEF Late
  <2>6. WB!GiveUp
    BY <1>2, <2>2, <2>3, <2>5 DEF WB!GiveUp, Dones, Late
  <2> QED
    BY <2>6 DEF WB!Next
<1>5. CASE StoresLate
  <2>1. PICK quilt \in abandoned : walrus' = walrus \cup quilt /\ UNCHANGED <<batch, abandoned>>
    BY <1>5 DEF StoresLate, StoreLate
  <2>2. Sends' = Sends /\ Late' = Late
    BY <2>1 DEF Sends, Late, Reads, Latest, is_deleted, Says
  <2>3. PICK copies \in Late : Reads(walrus') = WB!Shown(copies)
    <3>1. Reads(quilt) \in Late
      BY DEF Late
    <3>2. Reads(walrus') = WB!Shown(Reads(quilt))
      BY <2>1, QuiltStored
    <3> QED
      BY <3>1, <3>2
  <2>4. WB!ArriveLate(copies)
    BY <1>2, <2>2, <2>3 DEF WB!ArriveLate, Dones, Late
  <2> QED
    BY <2>3, <2>4 DEF WB!Next, Late
<1> QED
  BY <1>3, <1>4, <1>5

\* The last loop leaves the copies of the other messages.
LEMMA MarkedLeaves ==
    ASSUME AllTypes, NEW i \in MessageIds, Mark(i)
    PROVE  Sends' = [Sends EXCEPT ![i] = None]
<1>1. batch' = [batch EXCEPT ![i] = None]
  BY DEF Mark, EndFlow, InBatch, NoBatch, AllTypes, WorkerTypeOK
<1> QED
  BY <1>1 DEF Sends, AllTypes, WorkerTypeOK, is_deleted, Says

\* memory.rs, update_sync_status: a listed message is marked as what was
\* archived of it; an unlisted one is left as it is.
LEMMA MarkMaps ==
    ASSUME AllTypes, ArchiveInv, LatestExists, NEW i \in InBatch, Mark(i)
    PROVE  WB!Next
<1> DEFINE p == ForWalrus(i, batch[i], to_status(flow))
<1>1. /\ i \in MessageIds /\ Sends[i] # None /\ Sends[i] = Says(p)
      /\ Sends[i].deleted = (flow = "DeletePending")
  BY CopySays
<1>2. Sends' = [Sends EXCEPT ![i] = None]
  BY <1>1, MarkedLeaves
<1>3. walrus' = walrus /\ abandoned' = abandoned
  BY DEF Mark
<1>4. Late' = Late /\ Reads(walrus)' = Reads(walrus)
  BY <1>3 DEF Late, Reads, Latest, is_deleted, Says
<1>5. CASE patch_ids[i] = None
  <2>1. messages' = messages
    BY <1>5 DEF Mark, MarkOrSkip, storageVars
  <2>2. WB!Skip(i)
    BY <1>1, <1>2, <1>4, <2>1, ServesSame DEF WB!Skip, Dones, Late
  <2> QED
    BY <1>1, <2>2 DEF WB!Next
<1>6. CASE patch_ids[i] # None
  <2> DEFINE m == SetSyncStatus(messages[i], to_status(flow), patch_ids[i], now)
  <2>1. p \in walrus /\ p = patch_ids[i] /\ p \in Patch
    BY <1>6 DEF ArchiveInv, AnswersStored, AllTypes, WorkerTypeOK
  <2>2. Latest(walrus, i, p)
    BY <2>1 DEF Latest, ArchiveInv, PatchesOfBatch, ForWalrus, Sent
  <2>3. Reads(walrus)[i] = Sends[i]
    <3>1. walrus \in SUBSET Patch
      BY DEF AllTypes, WorkerTypeOK
    <3> HIDE DEF p
    <3> QED
      BY <1>1, <2>2, <3>1, LatestRead
  <2>4. /\ messages[i] \in Message /\ messages[i] # None /\ now \in Nat /\ i \in Stored
        /\ messages' = [messages EXCEPT ![i] = m]
    BY <1>1, <1>6 DEF Mark, MarkOrSkip, UpdateSyncStatus, contains_key, AllTypes, AppTypeOK,
                      StorageTypeOK, Stored
  <2>5. /\ m \in Message /\ m.sync_status = to_status(flow) /\ m.updated_at = now
        /\ m.content = messages[i].content /\ m.nonce = messages[i].nonce
    <3>1. to_status(flow) \in SyncStatus /\ patch_ids[i] \in Patch
      BY <2>1, ToStatusType DEF AllTypes, WorkerTypeOK
    <3> QED
      BY <2>4, <3>1, SetSyncStatusType
  <2>6. messages'[i] = m /\ Only(i)
    BY <1>1, <2>4 DEF AllTypes, AppTypeOK, StorageTypeOK, Only
  <2>7. flow \in PendingStatus
    BY DEF AllTypes, WorkerTypeOK
  <2>8. messages[i].updated_at < m.updated_at
    BY <2>4, <2>5 DEF ArchiveInv, StampsPast
  <2> HIDE DEF m, p
  <2>9. is_deleted(m) = Sends[i].deleted /\ m.sync_status \notin PendingStatus
    BY <1>1, <2>5, <2>7 DEF is_deleted, to_status, PendingStatus
  <2>10. Serves[i] # None /\ Serves[i].text = <<m.content, m.nonce>>
    <3>1. Serves[i] = Says(messages[i])
      BY <1>1, <2>4 DEF Serves, contains_key
    <3>2. /\ messages[i].content \in Contents /\ messages[i].nonce \in Nonces
          /\ messages[i].updated_at \in Nat
      BY <2>4 DEF Message
    <3> QED
      BY <2>5, <3>1, <3>2, SaysType
  <2>11. /\ WB!Becomes(i, Serves[i].text, Sends[i].deleted)
         /\ Dones' = [Dones EXCEPT ![i] = TRUE]
    <3>1. PICK x, d : x = Serves[i].text /\ d = Sends[i].deleted
      OBVIOUS
    <3>2. x = <<m.content, m.nonce>> /\ d = is_deleted(m)
      BY <2>9, <2>10, <3>1
    <3>3. WB!Becomes(i, x, d) /\ Dones' = [Dones EXCEPT ![i] = TRUE]
      BY <1>1, <2>4, <2>5, <2>6, <2>8, <2>9, <3>2, BecomesMaps
    <3> QED
      BY <3>1, <3>3
  <2>12. WB!Confirm(i)
    BY <1>1, <1>2, <1>4, <2>3, <2>10, <2>11 DEF WB!Confirm, Dones, Late
  <2> QED
    BY <1>1, <2>12 DEF WB!Next
<1> QED
  BY <1>5, <1>6

LEMMA WorkerMaps ==
    ASSUME AllTypes, ArchiveInv, LatestExists, WorkerStep
    PROVE  WB!Next \/ UNCHANGED WB!vars
<1>1. CASE TimerTick \/ ReceiveAndContinue \/ ReceiveAndSync
  <2>1. UNCHANGED <<messages, batch, walrus, abandoned>>
    BY <1>1 DEF TimerTick, ReceiveAndContinue, ReceiveAndSync, Receive, StartCycle,
                appVars, storageVars
  <2> QED
    BY <2>1, NothingMaps
<1>2. CASE QueryEmpty
  <2>1. UNCHANGED <<messages, batch, walrus, abandoned>>
    BY <1>2 DEF QueryEmpty, EndFlow, ArchiveInv, BatchByPhase, appVars, storageVars
  <2> QED
    BY <2>1, NothingMaps
<1>3. ASSUME NEW i \in MessageIds, Mark(i) PROVE WB!Next
  BY <1>3, MarkMaps DEF Mark
<1> QED
  BY <1>1, <1>2, <1>3, QueryMaps, UploadMaps DEF WorkerStep, Marks

(***************************************************************************)
(* The refinement.                                                         *)
(***************************************************************************)
LEMMA InitMaps == Init => WB!Init
<1> SUFFICES ASSUME Init PROVE WB!Init
  OBVIOUS
<1>1. /\ messages = [i \in MessageIds |-> None] /\ batch = NoBatch
      /\ walrus = {} /\ abandoned = {}
  BY DEF Init, AppInit, StorageInit, WorkerInit
<1>2. Serves = WB!Nothing /\ Sends = WB!Nothing
      /\ [i \in MessageIds |-> Archived(i)] = [i \in MessageIds |-> FALSE]
  BY <1>1 DEF Serves, Sends, Archived, contains_key, NoBatch, WB!Nothing
<1>3. Reads(walrus) = WB!Nothing /\ {Reads(quilt) : quilt \in abandoned} = {}
  BY <1>1 DEF Reads, WB!Nothing
<1> QED
  BY <1>2, <1>3 DEF WB!Init

LEMMA NextMaps ==
    ASSUME IInv, LatestExists, [Next]_vars
    PROVE  [WB!Next]_WB!vars
<1>1. AllTypes /\ ArchiveInv /\ HandlersTypeInv /\ StampsPast
  BY TypesOfHandlers DEF IInv, TypeOK, AllTypes, ArchiveInv
<1>2. CASE ServeRequest
  BY <1>1, <1>2, HandlerMaps DEF ServeRequest, Serve
<1>3. CASE SyncToWalrus
  BY <1>1, <1>3, WorkerMaps DEF SyncToWalrus, Work
<1>4. CASE UNCHANGED vars
  BY <1>4, NothingMaps DEF vars, appVars, storageVars, workerVars
<1> QED
  BY <1>2, <1>3, <1>4 DEF Next

\* handlers.rs, walrus_sync.rs: statuses, batches, retries, late arrivals and
\* patches amount to an archive that lags behind the messages and never goes back.
THEOREM RelayerWritesBehind == Spec => ImplementsWriteBehind
<1>1. Init => LatestExists /\ WB!Init
  BY InitLatest, InitMaps
<1>2. IInv /\ LatestExists /\ [Next]_vars => LatestExists' /\ [WB!Next]_WB!vars
  BY NextLatest, NextMaps
<1> QED
  BY <1>1, <1>2, InvariantHolds, PTL DEF Spec, ImplementsWriteBehind, WB!Spec
=============================================================================
