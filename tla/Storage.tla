------------------------------- MODULE Storage -------------------------------
(***************************************************************************)
(* InMemoryStorage (storage/memory.rs).  Each of the three maps has a lock *)
(* of its own.  update_message, delete_message and update_sync_status run  *)
(* wholly under the messages lock and are one step each; create_message    *)
(* takes the group_orders lock, releases it, and then takes the messages   *)
(* lock: it is two steps, and other requests run in between.               *)
(*                                                                         *)
(* `now` is the clock behind Utc::now().  Every operation that stamps a    *)
(* message reads it, and no two stamps are equal.                          *)
(***************************************************************************)
EXTENDS Messages

VARIABLES
    messages,       \* id -> the stored message, or None
    group_orders,   \* group -> highest order handed out (0: no entry yet)
    nonces,         \* the nonces of the duplicate check
    now             \* the clock

storageVars == <<messages, group_orders, nonces, now>>

StorageTypeOK ==
    /\ messages \in [MessageIds -> Message \cup {None}]
    /\ group_orders \in [Groups -> Nat]
    /\ nonces \subseteq Nonces
    /\ now \in Nat

StorageInit ==
    /\ messages = [i \in MessageIds |-> None]
    /\ group_orders = [g \in Groups |-> 0]
    /\ nonces = {}
    /\ now = 0

contains_key(id) == messages[id] # None

Stored == {i \in MessageIds : contains_key(i)}

\* A call of Utc::now() whose result is used: the reading is the current
\* `now`, and later readings are greater.
Tick == now' = now + 1

------------------------------------------------------------------------------
(* create_message, in its two critical sections. *)

\* Fault: the next order is looked up in the stored messages, not in a counter.
next_order_FromMessages(group) ==
    LET orders == {messages[i].order : i \in {j \in Stored : messages[j].group_id = group}}
    IN  CHOOSE n \in 1..(now + 1) : \A o \in orders : o < n

\* The number the group's counter hands out next, whether or not the message
\* it is meant for is stored in the end.
next_order(group) == group_orders[group] + 1

TakeOrder(group) ==
    /\ group_orders' = [group_orders EXCEPT ![group] = next_order(group)]
    /\ UNCHANGED <<messages, nonces, now>>

DuplicateId(id) == contains_key(id)

\* Fault: the nonces of deleted messages do not count.
DuplicateNonce_LiveOnly(nonce) ==
    \E i \in Stored : messages[i].nonce = nonce /\ ~is_deleted(messages[i])

DuplicateNonce(nonce) == nonce \in nonces

InsertMessage(id, message) ==
    /\ ~DuplicateId(id)
    /\ ~DuplicateNonce(message.nonce)
    /\ nonces' = nonces \cup {message.nonce}
    /\ messages' = [messages EXCEPT ![id] = message]
    /\ UNCHANGED <<group_orders, now>>

\* Err(DuplicateId) or Err(DuplicateNonce): nothing is stored, and the order
\* taken before is not given back.
RejectInsert(id, message) ==
    /\ DuplicateId(id) \/ DuplicateNonce(message.nonce)
    /\ UNCHANGED storageVars

------------------------------------------------------------------------------
(* The operations that change a stored message. *)

\* The new nonce may be the message's own, and no other message's.
NonceFree(id, nonce) ==
    messages[id].nonce = nonce \/ nonce \notin nonces

\* Fault: the nonce that the edit replaces stays in the set.
UpdateMessage_KeepsOldNonce(id, content, nonce) ==
    /\ contains_key(id)
    /\ NonceFree(id, nonce)
    /\ nonces' = nonces \cup {nonce}
    /\ messages' = [messages EXCEPT ![id] = update_content(@, content, nonce, now)]
    /\ Tick
    /\ UNCHANGED group_orders

UpdateMessage(id, content, nonce) ==
    /\ contains_key(id)
    /\ NonceFree(id, nonce)
    /\ nonces' = (nonces \ {messages[id].nonce}) \cup {nonce}
    /\ messages' = [messages EXCEPT ![id] = update_content(@, content, nonce, now)]
    /\ Tick
    /\ UNCHANGED group_orders

\* Err(NotFound) or Err(DuplicateNonce).
RejectUpdate(id, nonce) ==
    /\ ~contains_key(id) \/ ~NonceFree(id, nonce)
    /\ UNCHANGED storageVars

DeleteMessage(id) ==
    /\ contains_key(id)
    /\ messages' = [messages EXCEPT ![id] = mark_for_deletion(@, now)]
    /\ Tick
    /\ UNCHANGED <<group_orders, nonces>>

UpdateSyncStatus(id, status, patch) ==
    /\ contains_key(id)
    /\ messages' = [messages EXCEPT ![id] = SetSyncStatus(@, status, patch, now)]
    /\ Tick
    /\ UNCHANGED <<group_orders, nonces>>

\* The filter of get_messages_by_sync_status; `take(limit)` keeps an
\* arbitrary part of it, since a HashMap is iterated in no particular order.
WithSyncStatus(status) ==
    {i \in Stored : messages[i].sync_status = status}

------------------------------------------------------------------------------
(* For the properties: the nonces in use, and that no message shares its own. *)

StoredNonces == {messages[i].nonce : i \in Stored}

NoncesDiffer ==
    \A i, j \in Stored : messages[i].nonce = messages[j].nonce => i = j
=============================================================================
