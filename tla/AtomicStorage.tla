---------------------------- MODULE AtomicStorage ----------------------------
(***************************************************************************)
(* What InMemoryStorage promises its callers: each critical section of     *)
(* Storage happens at once, with arguments of the caller's choice.  The    *)
(* arguments of a step are read off its outcome.                           *)
(***************************************************************************)
EXTENDS Storage

\* Message::new, outside any lock, only takes a stamp.
StampTaken == Tick /\ UNCHANGED <<messages, group_orders, nonces>>

Inserted(i) == contains_key(i)' /\ InsertMessage(i, messages'[i])

Updated(i) ==
    contains_key(i)' /\ UpdateMessage(i, messages'[i].content, messages'[i].nonce)

StatusSet(i) ==
    contains_key(i)' /\ UpdateSyncStatus(i, messages'[i].sync_status,
                                         messages'[i].quilt_patch_id)

Next ==
    \/ StampTaken
    \/ \E g \in Groups : TakeOrder(g)
    \/ \E i \in MessageIds :
          Inserted(i) \/ Updated(i) \/ DeleteMessage(i) \/ StatusSet(i)

Spec == StorageInit /\ [][Next]_storageVars
=============================================================================
