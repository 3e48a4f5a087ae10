---------------------------- MODULE StorageProofs -----------------------------
(***************************************************************************)
(* Lemmas about messages and the storage that the proofs of all modules    *)
(* above them share.                                                       *)
(***************************************************************************)
EXTENDS Storage, TLAPS

(***************************************************************************)
(* What the operations on one message yield.                               *)
(***************************************************************************)
\* message.rs, Message::new and set_order: every field is set.
LEMMA NewMessageType ==
    ASSUME NEW g \in Groups, NEW s \in Senders, NEW c \in Contents, NEW n \in Nonces,
           NEW t \in Nat, NEW o \in Nat
    PROVE  LET w == NewMessage(g, s, c, n, t, o)
           IN  /\ w \in Message
               /\ w.group_id = g /\ w.sender = s /\ w.order = o
               /\ w.content = c /\ w.nonce = n
               /\ w.sync_status = "SyncPending" /\ w.quilt_patch_id = None
               /\ w.created_at = t /\ w.updated_at = t
BY DEF NewMessage, Message, SyncStatus

\* message.rs, update_content: only content, nonce, status and stamp change.
LEMMA UpdateContentType ==
    ASSUME NEW m \in Message, NEW c \in Contents, NEW n \in Nonces, NEW t \in Nat
    PROVE  LET w == update_content(m, c, n, t)
           IN  /\ w \in Message
               /\ w.group_id = m.group_id /\ w.sender = m.sender
               /\ w.order = m.order /\ w.created_at = m.created_at
               /\ w.quilt_patch_id = m.quilt_patch_id
               /\ w.sync_status = "UpdatePending" /\ w.updated_at = t
               /\ w.content = c /\ w.nonce = n
BY DEF update_content, Message, SyncStatus

\* message.rs, mark_for_deletion: only status and stamp change.
LEMMA MarkForDeletionType ==
    ASSUME NEW m \in Message, NEW t \in Nat
    PROVE  LET w == mark_for_deletion(m, t)
           IN  /\ w \in Message
               /\ w.group_id = m.group_id /\ w.sender = m.sender
               /\ w.order = m.order /\ w.created_at = m.created_at
               /\ w.quilt_patch_id = m.quilt_patch_id
               /\ w.sync_status = "DeletePending" /\ w.updated_at = t
               /\ w.content = m.content /\ w.nonce = m.nonce
BY DEF mark_for_deletion, Message, SyncStatus

\* memory.rs, update_sync_status: only status, patch id and stamp change.
LEMMA SetSyncStatusType ==
    ASSUME NEW m \in Message, NEW s \in SyncStatus, NEW p \in Patch, NEW t \in Nat
    PROVE  LET w == SetSyncStatus(m, s, p, t)
           IN  /\ w \in Message
               /\ w.group_id = m.group_id /\ w.sender = m.sender
               /\ w.order = m.order /\ w.created_at = m.created_at
               /\ w.content = m.content /\ w.nonce = m.nonce
               /\ w.sync_status = s /\ w.quilt_patch_id = p /\ w.updated_at = t
BY DEF SetSyncStatus, Message, SyncStatus

\* A message or a patch is never mistaken for an absent one.
LEMMA NoneIsNoMessage == None \notin Message /\ None \notin Patch
BY MessagesAssumption

(***************************************************************************)
(* What the operations do to the map of messages.                          *)
(***************************************************************************)
MessagesTypeOK == messages \in [MessageIds -> Message \cup {None}]

LEMMA StoredIsMessage ==
    ASSUME MessagesTypeOK, NEW i \in Stored
    PROVE  i \in MessageIds /\ messages[i] \in Message
BY DEF Stored, contains_key, MessagesTypeOK

\* HashMap::insert and get_mut: one message is stored or replaced.
LEMMA MessageWritten ==
    ASSUME MessagesTypeOK, NEW i \in MessageIds, NEW m \in Message,
           messages' = [messages EXCEPT ![i] = m]
    PROVE  /\ MessagesTypeOK'
           /\ Stored' = Stored \cup {i}
           /\ messages'[i] = m
           /\ \A j \in MessageIds \ {i} : messages'[j] = messages[j]
BY NoneIsNoMessage DEF MessagesTypeOK, Stored, contains_key

\* create_message: a nonce nobody uses comes into use.
LEMMA NonceAdded ==
    ASSUME MessagesTypeOK, NoncesDiffer, NEW i \in MessageIds \ Stored, NEW m \in Message,
           m.nonce \notin StoredNonces, messages' = [messages EXCEPT ![i] = m]
    PROVE  StoredNonces' = StoredNonces \cup {m.nonce} /\ NoncesDiffer'
<1>1. /\ Stored' = Stored \cup {i}
      /\ messages'[i] = m
      /\ \A j \in Stored : messages'[j] = messages[j]
  BY MessageWritten DEF Stored
<1> QED
  BY <1>1 DEF StoredNonces, NoncesDiffer

\* update_message: a message exchanges its nonce for one nobody else uses.
LEMMA NonceReplaced ==
    ASSUME MessagesTypeOK, NoncesDiffer, NEW i \in Stored, NEW m \in Message,
           m.nonce = messages[i].nonce \/ m.nonce \notin StoredNonces,
           messages' = [messages EXCEPT ![i] = m]
    PROVE  /\ StoredNonces' = (StoredNonces \ {messages[i].nonce}) \cup {m.nonce}
           /\ NoncesDiffer'
<1>1. /\ Stored' = Stored
      /\ messages'[i] = m
      /\ \A j \in Stored \ {i} : messages'[j] = messages[j]
  BY MessageWritten DEF Stored
<1>2. \A j \in Stored \ {i} :
         messages[j].nonce # messages[i].nonce /\ messages[j].nonce # m.nonce
  BY DEF NoncesDiffer, StoredNonces
<1>3. StoredNonces' = {messages'[j].nonce : j \in Stored}
  BY <1>1 DEF StoredNonces
<1>4. ASSUME NEW x \in (StoredNonces \ {messages[i].nonce}) \cup {m.nonce}
      PROVE  \E j \in Stored : x = messages'[j].nonce
  <2>1. CASE x = m.nonce
    BY <1>1, <2>1
  <2>2. CASE x \in StoredNonces /\ x # messages[i].nonce
    BY <1>1, <2>2 DEF StoredNonces
  <2> QED
    BY <2>1, <2>2
<1>5. ASSUME NEW j \in Stored
      PROVE  messages'[j].nonce \in (StoredNonces \ {messages[i].nonce}) \cup {m.nonce}
  BY <1>1, <1>2 DEF StoredNonces
<1>6. NoncesDiffer'
  BY <1>1, <1>2 DEF NoncesDiffer
<1> QED
  BY <1>3, <1>4, <1>5, <1>6

\* delete_message and update_sync_status leave the nonces alone.
LEMMA NoncesUntouched ==
    ASSUME MessagesTypeOK, NoncesDiffer, NEW i \in Stored, NEW m \in Message,
           m.nonce = messages[i].nonce, messages' = [messages EXCEPT ![i] = m]
    PROVE  StoredNonces' = StoredNonces /\ NoncesDiffer'
<1>1. messages[i].nonce \in StoredNonces
  BY DEF StoredNonces
<1>2. StoredNonces' = (StoredNonces \ {m.nonce}) \cup {m.nonce} /\ NoncesDiffer'
  BY NonceReplaced
<1> QED
  BY <1>1, <1>2

\* A step that stores nothing.
LEMMA StorageFrame ==
    ASSUME messages' = messages
    PROVE  /\ Stored' = Stored /\ StoredNonces' = StoredNonces
           /\ NoncesDiffer <=> NoncesDiffer'
BY DEF Stored, StoredNonces, NoncesDiffer, contains_key
=============================================================================
