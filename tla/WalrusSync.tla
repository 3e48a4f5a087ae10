----------------------------- MODULE WalrusSync -----------------------------
(***************************************************************************)
(* WalrusSyncService (services/walrus_sync.rs): one background task that   *)
(* archives pending messages to Walrus.  A cycle runs three workflows one  *)
(* after the other; each copies a batch of messages out of the storage,    *)
(* uploads it as one quilt (a network call that takes up to a minute), and *)
(* then marks the messages one by one.  Nothing is locked meanwhile.       *)
(*                                                                         *)
(* `walrus` and `abandoned` are external: the patches of every quilt Walrus *)
(* has stored, and the quilts of uploads that failed for the worker, which *)
(* a publisher slower than the client's timeout may still store.           *)
(***************************************************************************)
EXTENDS AppState, FiniteSets

CONSTANTS
    BatchSize,          \* WALRUS_SYNC_BATCH_SIZE
    MessageThreshold    \* WALRUS_SYNC_MESSAGE_THRESHOLD, 0 = timer only

ASSUME WalrusSyncAssumption ==
    /\ IsFiniteSet(MessageIds)
    /\ BatchSize \in Nat
    /\ MessageThreshold \in Nat

VARIABLES
    phase,          \* where the worker is: in select!, or in sync_messages
    flow,           \* the workflow of sync_messages it is in, by from_status
    batch,          \* id -> the copy taken by the query and not yet marked, or None
    patch_ids,      \* id -> the patch id in the publisher's answer, or None
    message_count,  \* notifications received since the last cycle
    walrus,         \* external: the patches stored
    abandoned       \* external: the quilts of failed uploads

workerVars == <<phase, flow, batch, patch_ids, message_count, walrus, abandoned>>

NoBatch == [i \in MessageIds |-> None]

InBatch == {i \in MessageIds : batch[i] # None}

WorkerTypeOK ==
    /\ phase \in {"select", "query", "upload", "mark"}
    /\ flow \in PendingStatus
    /\ batch \in [MessageIds -> Message \cup {None}]
    /\ patch_ids \in [MessageIds -> Patch \cup {None}]
    /\ message_count \in Nat
    /\ walrus \subseteq Patch
    /\ abandoned \subseteq SUBSET Patch

WorkerInit ==
    /\ phase = "select"
    /\ flow = "SyncPending"
    /\ batch = NoBatch
    /\ patch_ids = NoBatch
    /\ message_count = 0
    /\ walrus = {}
    /\ abandoned = {}

------------------------------------------------------------------------------
(* run: what starts a cycle *)

StartCycle ==
    /\ phase' = "query"
    /\ flow' = "SyncPending"
    /\ UNCHANGED <<batch, patch_ids, walrus, abandoned>>

TimerTick ==
    /\ phase = "select"
    /\ StartCycle
    /\ UNCHANGED <<message_count, appVars>>

\* Fault: off by one.
ThresholdReached_Exceeded(count) ==
    MessageThreshold # 0 /\ count > MessageThreshold

ThresholdReached(count) ==
    MessageThreshold # 0 /\ count >= MessageThreshold

\* Fault: a closed or empty channel is taken for a notification.
Receive_Unguarded ==
    /\ phase = "select"
    /\ message_count < MessageThreshold
    /\ notifications' = notifications - 1
    /\ message_count' = message_count + 1
    /\ UNCHANGED storageVars

Receive ==
    /\ phase = "select"
    /\ notifications > 0
    /\ notifications' = notifications - 1
    /\ message_count' = message_count + 1
    /\ UNCHANGED storageVars

ReceiveAndContinue ==
    /\ Receive
    /\ ~ThresholdReached(message_count + 1)
    /\ UNCHANGED <<phase, flow, batch, patch_ids, walrus, abandoned>>

ReceiveAndSync ==
    /\ Receive
    /\ ThresholdReached(message_count + 1)
    /\ StartCycle

------------------------------------------------------------------------------
(* sync_messages *)

to_status(from) ==
    CASE from = "SyncPending" -> "Synced"
      [] from = "UpdatePending" -> "Updated"
      [] from = "DeletePending" -> "Deleted"

\* Fault: the message is serialised with the status it has.
ForWalrus_OwnStatus(id, m, status) ==
    [id |-> id, group_id |-> m.group_id, sender |-> m.sender, order |-> m.order,
     content |-> m.content, nonce |-> m.nonce, updated_at |-> m.updated_at,
     sync_status |-> m.sync_status]

\* The message as it is uploaded: serialised with the target status.
ForWalrus(id, m, status) ==
    [id |-> id, group_id |-> m.group_id, sender |-> m.sender, order |-> m.order,
     content |-> m.content, nonce |-> m.nonce, updated_at |-> m.updated_at,
     sync_status |-> status]

\* The limit the service was built with: a quilt holds at most 666 patches.
Limit == IF BatchSize < 666 THEN BatchSize ELSE 666

Batches(matching) ==
    {s \in SUBSET matching :
        \/ Cardinality(s) = Limit
        \/ s = matching /\ Cardinality(s) < Limit}

\* Fault: the cycle ends before the deletions.
EndFlow_ForgetsDeletes ==
    /\ batch' = NoBatch
    /\ patch_ids' = NoBatch
    /\ IF flow = "UpdatePending"
       THEN phase' = "select" /\ flow' = "SyncPending" /\ message_count' = 0
       ELSE phase' = "query" /\ flow' = "UpdatePending" /\ UNCHANGED message_count

\* sync_messages returns, with or without an error: the next workflow starts,
\* or the cycle ends, which forgets the count whatever was achieved.
EndFlow ==
    /\ batch' = NoBatch
    /\ patch_ids' = NoBatch
    /\ IF flow = "DeletePending"
       THEN phase' = "select" /\ flow' = "SyncPending" /\ message_count' = 0
       ELSE /\ phase' = "query"
            /\ flow' = IF flow = "SyncPending" THEN "UpdatePending" ELSE "DeletePending"
            /\ UNCHANGED message_count

QueryEmpty ==
    /\ phase = "query"
    /\ {} \in Batches(WithSyncStatus(flow))
    /\ EndFlow
    /\ UNCHANGED <<walrus, abandoned, appVars>>

Query ==
    /\ phase = "query"
    /\ \E s \in Batches(WithSyncStatus(flow)) :
          /\ s # {}
          /\ batch' = [i \in MessageIds |-> IF i \in s THEN messages[i] ELSE None]
    /\ phase' = "upload"
    /\ UNCHANGED <<flow, patch_ids, message_count, walrus, abandoned, appVars>>

Quilt == {ForWalrus(i, batch[i], to_status(flow)) : i \in InBatch}

\* Fault: patch ids are matched to messages by position, not by identifier.
UploadSucceeds_ByPosition(listed) ==
    /\ phase = "upload"
    /\ walrus' = walrus \cup Quilt
    /\ \E j \in InBatch :
          patch_ids' = [i \in MessageIds |->
              IF i \in listed THEN ForWalrus(j, batch[j], to_status(flow)) ELSE None]
    /\ phase' = "mark"
    /\ UNCHANGED <<flow, batch, message_count, abandoned, appVars>>

\* store_quilt answers 200 and the body parses.  The answer lists patch ids by
\* identifier; nothing in the code relies on every identifier being listed.
UploadSucceeds(listed) ==
    /\ phase = "upload"
    /\ walrus' = walrus \cup Quilt
    /\ patch_ids' = [i \in MessageIds |->
                        IF i \in listed THEN ForWalrus(i, batch[i], to_status(flow)) ELSE None]
    /\ phase' = "mark"
    /\ UNCHANGED <<flow, batch, message_count, abandoned, appVars>>

\* Fault: an error answer is taken for success.
UploadFails_Ignored ==
    /\ phase = "upload"
    /\ abandoned' = abandoned \cup {Quilt}
    /\ patch_ids' = [i \in MessageIds |->
                        IF i \in InBatch THEN ForWalrus(i, batch[i], to_status(flow)) ELSE None]
    /\ phase' = "mark"
    /\ UNCHANGED <<flow, batch, message_count, walrus, appVars>>

\* store_quilt returns an error.  The request may have been lost or refused, the
\* answer lost or unreadable, or the client's 60 seconds are over and the
\* publisher is still at work: the worker gives the quilt up and cannot tell.
UploadFails ==
    /\ phase = "upload"
    /\ abandoned' = abandoned \cup {Quilt}
    /\ EndFlow
    /\ UNCHANGED <<walrus, appVars>>

\* Walrus stores a quilt whose upload failed: at once, after the messages have
\* changed, after newer uploads, or never.  No answer reaches the worker.
StoreLate(quilt) ==
    /\ quilt \in abandoned
    /\ walrus' = walrus \cup quilt
    /\ UNCHANGED <<phase, flow, batch, patch_ids, message_count, abandoned, appVars>>

\* One iteration of the final loop, for message id.  The status is assigned
\* without looking at the one the message has by now.
MarkOrSkip(id) ==
    IF patch_ids[id] # None
    THEN UpdateSyncStatus(id, to_status(flow), patch_ids[id])
    ELSE UNCHANGED storageVars

Mark(id) ==
    /\ phase = "mark"
    /\ id \in InBatch
    /\ MarkOrSkip(id)
    /\ IF InBatch = {id}
       THEN EndFlow
       ELSE /\ batch' = [batch EXCEPT ![id] = None]
            /\ UNCHANGED <<phase, flow, patch_ids, message_count>>
    /\ UNCHANGED <<walrus, abandoned, notifications>>

------------------------------------------------------------------------------
Marks == \E i \in MessageIds : Mark(i)

Uploads == \E listed \in SUBSET InBatch : UploadSucceeds(listed)

StoresLate == \E quilt \in abandoned : StoreLate(quilt)

\* The steps of the worker, and the one that Walrus takes by itself.
WorkerStep ==
    \/ TimerTick
    \/ ReceiveAndContinue
    \/ ReceiveAndSync
    \/ QueryEmpty
    \/ Query
    \/ Uploads
    \/ UploadFails
    \/ StoresLate
    \/ Marks
=============================================================================
