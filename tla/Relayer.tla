------------------------------- MODULE Relayer -------------------------------
(***************************************************************************)
(* The message side of the relayer as main.rs wires it: the request        *)
(* handlers and the Walrus sync worker, running concurrently over one      *)
(* AppState.                                                               *)
(*                                                                         *)
(* `clobbered` is a history variable no code reads: the messages whose     *)
(* last client write was overwritten by the worker, because it came after  *)
(* the worker had copied the message and before it marked it.              *)
(***************************************************************************)
EXTENDS Handlers, WalrusSync

VARIABLE clobbered

vars == <<appVars, handlerVars, workerVars, clobbered>>

TypeOK ==
    /\ AppTypeOK
    /\ HandlersTypeOK
    /\ WorkerTypeOK
    /\ clobbered \subseteq MessageIds

Init ==
    /\ AppInit
    /\ HandlersInit
    /\ WorkerInit
    /\ clobbered = {}

\* A step of a handler.  A client write leaves the message pending again,
\* whatever was lost before.
Serve(A) ==
    /\ A
    /\ clobbered' = {i \in clobbered : messages'[i] = messages[i]}
    /\ UNCHANGED workerVars

\* A step of the worker.  It clobbers the messages it changes although they
\* are no longer what it copied.
Work(A) ==
    /\ A
    /\ clobbered' = clobbered \cup
          {i \in MessageIds : messages'[i] # messages[i] /\ messages[i] # batch[i]}
    /\ UNCHANGED handlerVars

ServeRequest == \E t \in Tasks : Serve(HandlerStep(t))

SyncToWalrus == Work(WorkerStep)

Next == ServeRequest \/ SyncToWalrus

Spec == Init /\ [][Next]_vars

(***************************************************************************)
(* Fairness.  Tokio polls every task that can run, so a request being      *)
(* served and a worker that is not waiting go on (weak fairness).  Nothing *)
(* is assumed of the arrival of requests.  Two assumptions more are stated *)
(* with the property that needs them: the interval timer fires again and   *)
(* again, and Walrus answers some of the uploads tried again and again     *)
(* with all patch ids (strong fairness of that outcome only).              *)
(***************************************************************************)
HandlerFairness == \A t \in Tasks : WF_vars(Serve(HandlerContinues(t)))

WorkerFairness ==
    /\ WF_vars(Work(QueryEmpty \/ Query \/ Uploads \/ UploadFails \/ Marks))
    /\ WF_vars(Work(ReceiveAndContinue \/ ReceiveAndSync))

FairSpec == Spec /\ HandlerFairness /\ WorkerFairness

TimerFairness == WF_vars(Work(TimerTick))

WalrusFairness == SF_vars(Work(UploadSucceeds(InBatch)))

------------------------------------------------------------------------------
(* What the archive promises. *)

Pending(i) == contains_key(i) /\ messages[i].sync_status \in PendingStatus

Archived(i) == contains_key(i) /\ messages[i].sync_status \notin PendingStatus

\* Of the patches of message i, p is the one with the latest updated_at.
Latest(patches, i, p) ==
    /\ p \in patches
    /\ p.id = i
    /\ \A q \in patches : q.id = i => q = p \/ q.updated_at < p.updated_at

\* What a reader of Walrus shows for message i (the rule in walrus_sync.rs's
\* header).
LatestPatch(i, p) == Latest(walrus, i, p)

\* The reader of patch p sees message m as the relayer serves it.
Shows(p, m) ==
    /\ p.group_id = m.group_id /\ p.sender = m.sender /\ p.order = m.order
    /\ p.content = m.content /\ p.nonce = m.nonce
    /\ p.sync_status = m.sync_status

\* A message whose status says archived and whose last write was not clobbered
\* reads the same from Walrus as from the relayer: the patch its
\* quilt_patch_id names is the latest one and shows the current content and
\* status, after any mix of retried, ambiguous and partly answered uploads.
ArchiveShowsMessage ==
    \A i \in MessageIds : Archived(i) /\ i \notin clobbered =>
        /\ LatestPatch(i, messages[i].quilt_patch_id)
        /\ Shows(messages[i].quilt_patch_id, messages[i])

\* Walrus never runs ahead of the relayer or mixes messages up: every patch,
\* those of failed uploads included, belongs to a stored message, keeps its
\* group, sender and order, and is no newer than it; and a quilt_patch_id names
\* a stored patch of that very message.
ArchiveFollowsStorage ==
    /\ \A p \in walrus :
          /\ contains_key(p.id)
          /\ p.group_id = messages[p.id].group_id
          /\ p.sender = messages[p.id].sender
          /\ p.order = messages[p.id].order
          /\ p.updated_at <= messages[p.id].updated_at
    /\ \A i \in Stored : messages[i].quilt_patch_id # None =>
          messages[i].quilt_patch_id \in walrus /\ messages[i].quilt_patch_id.id = i

\* No step gives a stored message another identity or takes away one that is not
\* Deleted, and none but the PUT of its own sender, authorized for its group,
\* changes what it says: not another member's PUT, not a request for another
\* group, and not the worker, which writes only the fields it is about.
OwnerEdits(i) ==
    /\ contains_key(i)' \/ messages[i].sync_status = "Deleted"
    /\ contains_key(i)' =>
          /\ messages'[i].group_id = messages[i].group_id
          /\ messages'[i].sender = messages[i].sender
          /\ messages'[i].order = messages[i].order
          /\ messages'[i].created_at = messages[i].created_at
          /\ \/ /\ messages'[i].content = messages[i].content
                /\ messages'[i].nonce = messages[i].nonce
             \/ \E t \in Tasks : /\ pc[t] = "update" /\ req[t].id = i
                                 /\ req[t].sender = messages[i].sender
                                 /\ req[t].group_id = messages[i].group_id

OnlyOwnerEdits == [][\A i \in Stored : OwnerEdits(i)]_vars

\* The worker drains every workflow, however often uploads fail before one is
\* answered: a pending message does not stay pending.
PendingEventuallyHandled ==
    TimerFairness /\ WalrusFairness => \A i \in MessageIds : Pending(i) ~> ~Pending(i)

\* Once the notifications counted and queued reach the threshold, a cycle starts
\* without the timer's help: those that came while the worker was busy still
\* count.  The ones a cycle has counted are forgotten when it ends.
ThresholdTriggersSync ==
    /\ phase = "select"
    /\ MessageThreshold # 0 /\ notifications + message_count >= MessageThreshold
    ~> phase = "query"

------------------------------------------------------------------------------
(* What documentation and tests say, and the code does not keep. *)

\* message.rs: Synced is "Message successfully archived to Walrus", Updated is
\* "Message updated and re-synced to Walrus".
ArchivedStatusMeansArchived ==
    \A i \in MessageIds : Archived(i) =>
        \E p \in walrus : p.id = i /\ p.content = messages[i].content

\* message.rs: Deleted is "Message deleted from both relayer and Walrus", so it
\* is never served as a live message again.
DeletedStaysDeleted ==
    [][\A i \in Stored : messages[i].sync_status = "Deleted" =>
          ~contains_key(i)' \/ is_deleted(messages'[i])]_vars
=============================================================================
