------------------------------ MODULE Messages ------------------------------
(***************************************************************************)
(* The data of the relayer: a stored message, its synchronisation status   *)
(* with Walrus, the patch that archives it, and the changes made to one    *)
(* message (models/message.rs, handlers/messages/response.rs).             *)
(*                                                                         *)
(* A `content` stands for what a client replaces as a whole: the cipher    *)
(* text, the key version, the attachments, the signature and the public    *)
(* key.  The nonce is kept apart because storage looks at it.              *)
(***************************************************************************)
EXTENDS Naturals

CONSTANTS
    MessageIds,     \* the UUIDs that Message::new may draw
    Groups,         \* group ids
    Senders,        \* wallet addresses
    Nonces,         \* 12-byte nonces
    Contents,       \* everything else a client writes
    None            \* Rust's None: an absent map entry or field

SyncStatus == {"SyncPending", "Synced", "UpdatePending", "Updated",
               "DeletePending", "Deleted"}

PendingStatus == {"SyncPending", "UpdatePending", "DeletePending"}

\* What Walrus holds for one message: the JSON of the message, serialised
\* with the status it is about to get, under the identifier msg-<id>.
\* Content addressing makes the patch its own identifier.
Patch == [id : MessageIds, group_id : Groups, sender : Senders, order : Nat,
          content : Contents, nonce : Nonces, updated_at : Nat,
          sync_status : SyncStatus]

\* A message that storage holds (the id is its key in the map).
Message == [group_id : Groups, sender : Senders, order : Nat,
            content : Contents, nonce : Nonces,
            created_at : Nat, updated_at : Nat,
            sync_status : SyncStatus, quilt_patch_id : Patch \cup {None}]

ASSUME MessagesAssumption == None \notin Message /\ None \notin Patch

\* A message as create_message stores it: SyncPending, never archived, both
\* timestamps taken by the same call of Utc::now.
NewMessage(group, sender, content, nonce, created, order) ==
    [group_id |-> group, sender |-> sender, order |-> order,
     content |-> content, nonce |-> nonce,
     created_at |-> created, updated_at |-> created,
     sync_status |-> "SyncPending", quilt_patch_id |-> None]

update_content(m, content, nonce, t) ==
    [m EXCEPT !.content = content, !.nonce = nonce,
              !.sync_status = "UpdatePending", !.updated_at = t]

\* Fault: a deletion does not count as an update.
mark_for_deletion_KeepsStamp(m, t) ==
    [m EXCEPT !.sync_status = "DeletePending"]

mark_for_deletion(m, t) ==
    [m EXCEPT !.sync_status = "DeletePending", !.updated_at = t]

\* The fields update_sync_status assigns; the worker always has a patch id.
SetSyncStatus(m, status, patch, t) ==
    [m EXCEPT !.sync_status = status, !.updated_at = t,
              !.quilt_patch_id = patch]

\* The flag a client sees in a MessageResponse.
is_deleted(m) == m.sync_status \in {"DeletePending", "Deleted"}
=============================================================================
