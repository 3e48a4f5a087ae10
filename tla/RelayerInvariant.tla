-------------------------- MODULE RelayerInvariant ---------------------------
(***************************************************************************)
(* The inductive invariant behind the safety properties of the relayer.    *)
(* TLC checks it on small instances, RelayerProofs proves it.              *)
(***************************************************************************)
EXTENDS Relayer

\* The locals of sync_messages live from the query to the last mark only.
BatchByPhase ==
    /\ phase \in {"select", "query"} => batch = NoBatch
    /\ phase # "mark" => patch_ids = NoBatch

\* A copy still to be marked is of a pending message: it has the status of the
\* running workflow, and is the message itself or an earlier state of it.
BatchCopies ==
    \A i \in InBatch :
        /\ Pending(i)
        /\ batch[i].sync_status = flow
        /\ batch[i].group_id = messages[i].group_id
        /\ batch[i].sender = messages[i].sender
        /\ batch[i].order = messages[i].order
        /\ \/ batch[i] = messages[i]
           \/ batch[i].updated_at < messages[i].updated_at

\* What Walrus has stored or may yet store.
Sent == walrus \cup UNION abandoned

\* The patches of a message are older than its copy, or are the copy's own.
PatchesOfBatch ==
    \A i \in InBatch, q \in Sent : q.id = i =>
        \/ q.updated_at < batch[i].updated_at
        \/ q = ForWalrus(i, batch[i], to_status(flow))

\* The patches of a message keep its identity and are older than the message,
\* except for the one of its present state while its status does not say so yet.
PatchesOfStored ==
    \A q \in Sent :
        /\ contains_key(q.id)
        /\ q.group_id = messages[q.id].group_id
        /\ q.sender = messages[q.id].sender
        /\ q.order = messages[q.id].order
        /\ \/ q.updated_at < messages[q.id].updated_at
           \/ /\ messages[q.id].sync_status \in PendingStatus
              /\ q = ForWalrus(q.id, messages[q.id],
                               to_status(messages[q.id].sync_status))

\* A quilt that arrives late changes nothing for a reader of an archived message.
ArchivedIsLatest ==
    \A i \in MessageIds : Archived(i) /\ i \notin clobbered =>
        /\ Latest(Sent, i, messages[i].quilt_patch_id)
        /\ messages[i].quilt_patch_id \in walrus
        /\ Shows(messages[i].quilt_patch_id, messages[i])

\* A quilt has one patch of a message at most, and a message has one patch at
\* most with a given stamp.
PatchesDiffer ==
    /\ \A quilt \in abandoned : \A p, q \in quilt : p.id = q.id => p = q
    /\ \A p, q \in Sent : p.id = q.id /\ p.updated_at = q.updated_at => p = q

\* A quilt_patch_id names a stored patch of that very message.
PatchIdsStored ==
    \A i \in Stored : messages[i].quilt_patch_id # None =>
        messages[i].quilt_patch_id \in walrus /\ messages[i].quilt_patch_id.id = i

\* A listed patch id names the stored patch of the copy.
AnswersStored ==
    \A i \in InBatch : patch_ids[i] # None =>
        /\ patch_ids[i] = ForWalrus(i, batch[i], to_status(flow))
        /\ patch_ids[i] \in walrus

ArchiveInv ==
    /\ StampsPast
    /\ BatchByPhase
    /\ BatchCopies
    /\ PatchesOfBatch
    /\ PatchesOfStored
    /\ ArchivedIsLatest
    /\ PatchesDiffer
    /\ PatchIdsStored
    /\ AnswersStored

IInv == TypeOK /\ ClientInv /\ ArchiveInv
=============================================================================
