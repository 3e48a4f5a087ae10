---------------------------- MODULE HandlersProofs ----------------------------
(***************************************************************************)
(* Proofs about the handlers and the storage, for any number of concurrent *)
(* requests and any sets of ids, groups, senders, nonces and contents.     *)
(* The lemmas are about one step of a handler: whatever else runs beside   *)
(* it, the modules that compose the handlers use them.                     *)
(***************************************************************************)
EXTENDS Handlers, StorageProofs

LEMMA DraftedType ==
    ASSUME NEW d \in Draft
    PROVE  LET m == Drafted(d)
           IN  /\ d.id \in MessageIds /\ m \in Message
               /\ m.group_id = d.group_id /\ m.sender = d.sender /\ m.order = d.order
               /\ m.content = d.content /\ m.nonce = d.nonce
               /\ m.sync_status = "SyncPending" /\ m.quilt_patch_id = None
               /\ m.created_at = d.created_at /\ m.updated_at = d.created_at
BY NewMessageType DEF Draft, Drafted

LEMMA HandlerStepTypes ==
    ASSUME HandlersTypeInv, NEW t \in Tasks, HandlerStep(t)
    PROVE  AppTypeOK' /\ HandlersTypeOK'
<1> USE DEF HandlersTypeInv, AppTypeOK, StorageTypeOK, HandlersTypeOK, RequestTypeOK
<1>1. CASE CreateMessage(t)
  BY <1>1 DEF CreateMessage, Accept, Goto, Tick, Draft
<1>2. CASE UpdateChecks(t)
  BY <1>2 DEF UpdateChecks, Accept, Goto, Edit, appVars, storageVars
<1>3. CASE DeleteChecks(t)
  BY <1>3 DEF DeleteChecks, Accept, Goto, Deletion, appVars, storageVars
<1>4. CASE CreateTakesOrder(t)
  <2>1. req[t] \in Draft
    BY <1>4 DEF CreateTakesOrder
  <2>2. next_order(req[t].group_id) \in Nat
    BY <2>1 DEF next_order, Draft
  <2>3. [req[t] EXCEPT !.order = next_order(req[t].group_id)] \in Draft
    BY <2>1, <2>2 DEF Draft
  <2> QED
    BY <1>4, <2>1, <2>2, <2>3 DEF CreateTakesOrder, TakeOrder, Goto
<1>5. CASE CreateInserts(t)
  <2>1. /\ req[t] \in Draft
        /\ req[t].id \in MessageIds
        /\ req[t].nonce \in Nonces
        /\ Drafted(req[t]).nonce = req[t].nonce
    BY <1>5 DEF CreateInserts, Draft, Drafted, NewMessage
  <2>2. Drafted(req[t]) \in Message
    BY <2>1, DraftedType
  <2> QED
    BY <1>5, <2>1, <2>2 DEF CreateInserts, InsertMessage, Goto
<1>6. CASE CreateRejected(t)
  BY <1>6 DEF CreateRejected, RejectInsert, Goto, storageVars
<1>7. CASE CreateNotifies(t)
  BY <1>7 DEF CreateNotifies, SendNotification, Goto, storageVars
<1>8. CASE UpdateWrites(t)
  <2> DEFINE r == req[t]
  <2>1. r.id \in MessageIds /\ r.content \in Contents /\ r.nonce \in Nonces
    BY <1>8 DEF UpdateWrites, Edit
  <2>2. messages[r.id] \in Message
    BY <1>8, <2>1 DEF UpdateWrites, UpdateMessage, contains_key
  <2>3. update_content(messages[r.id], r.content, r.nonce, now) \in Message
    BY <2>1, <2>2, UpdateContentType
  <2> QED
    BY <1>8, <2>1, <2>3 DEF UpdateWrites, UpdateMessage, Tick, Goto
<1>9. CASE UpdateRejected(t)
  BY <1>9 DEF UpdateRejected, RejectUpdate, Goto, storageVars
<1>10. CASE DeleteWrites(t)
  <2>1. req[t].id \in MessageIds
    BY <1>10 DEF DeleteWrites, Deletion
  <2>2. messages[req[t].id] \in Message
    BY <1>10, <2>1 DEF DeleteWrites, DeleteMessage, contains_key
  <2>3. mark_for_deletion(messages[req[t].id], now) \in Message
    BY <2>2, MarkForDeletionType
  <2> QED
    BY <1>10, <2>1, <2>3 DEF DeleteWrites, DeleteMessage, Tick, Goto
<1> QED
  BY <1>1, <1>2, <1>3, <1>4, <1>5, <1>6, <1>7, <1>8, <1>9, <1>10
  DEF HandlerStep, HandlerContinues

(***************************************************************************)
(* What a step does to the stored messages: nothing, one new message, or   *)
(* one client write to one message.                                        *)
(***************************************************************************)
Untouched == messages' = messages /\ now' \in Nat /\ now <= now'

Only(i) == \A j \in MessageIds \ {i} : messages'[j] = messages[j]

SameIdentity(i) ==
    /\ messages'[i].group_id = messages[i].group_id
    /\ messages'[i].sender = messages[i].sender
    /\ messages'[i].order = messages[i].order
    /\ messages'[i].created_at = messages[i].created_at

Created(i) ==
    /\ messages[i] = None /\ messages'[i] \in Message /\ Only(i)
    /\ messages'[i].sync_status = "SyncPending"
    /\ messages'[i].quilt_patch_id = None
    /\ messages'[i].updated_at < now /\ now' = now

Rewritten(i) ==
    /\ messages[i] \in Message /\ messages'[i] \in Message /\ Only(i)
    /\ SameIdentity(i)
    /\ messages'[i].sync_status \in PendingStatus
    /\ messages'[i].quilt_patch_id = messages[i].quilt_patch_id
    /\ messages'[i].updated_at = now /\ now' = now + 1

\* handlers.rs, memory.rs: no handler does anything else to the stored messages.
LEMMA HandlerEffects ==
    ASSUME HandlersTypeInv, StampsPast, NEW t \in Tasks, HandlerStep(t)
    PROVE  \/ Untouched
           \/ \E i \in MessageIds : Created(i)
           \/ \E i \in MessageIds : Rewritten(i)
<1> USE DEF HandlersTypeInv, AppTypeOK, StorageTypeOK, HandlersTypeOK, RequestTypeOK
<1>1. CASE CreateInserts(t)
  <2> DEFINE i == req[t].id
  <2>1. i \in MessageIds /\ req[t] \in Draft /\ req[t].created_at < now
    BY <1>1 DEF CreateInserts, Draft, StampsPast
  <2>2. Drafted(req[t]) \in Message
    BY <2>1, DraftedType
  <2>3. /\ messages[i] = None
        /\ messages' = [messages EXCEPT ![i] = Drafted(req[t])]
        /\ now' = now
    BY <1>1 DEF CreateInserts, InsertMessage, DuplicateId, contains_key
  <2>4. messages'[i] = Drafted(req[t]) /\ Only(i)
    BY <2>1, <2>3 DEF Only
  <2>5. Created(i)
    BY <2>1, <2>2, <2>3, <2>4 DEF Created, Drafted, NewMessage
  <2> QED
    BY <2>1, <2>5
<1>2. CASE UpdateWrites(t)
  <2> DEFINE i == req[t].id
             m == update_content(messages[i], req[t].content, req[t].nonce, now)
  <2>1. i \in MessageIds /\ req[t].content \in Contents /\ req[t].nonce \in Nonces
    BY <1>2 DEF UpdateWrites, Edit
  <2>2. /\ messages[i] \in Message
        /\ messages' = [messages EXCEPT ![i] = m]
        /\ now' = now + 1
    BY <1>2, <2>1 DEF UpdateWrites, UpdateMessage, contains_key, Tick
  <2>3. messages'[i] = m /\ Only(i) /\ m \in Message
    BY <2>1, <2>2, UpdateContentType DEF Only
  <2>4. Rewritten(i)
    BY <2>1, <2>2, <2>3, UpdateContentType DEF Rewritten, SameIdentity, PendingStatus
  <2> QED
    BY <2>1, <2>4
<1>3. CASE DeleteWrites(t)
  <2> DEFINE i == req[t].id
             m == mark_for_deletion(messages[i], now)
  <2>1. i \in MessageIds
    BY <1>3 DEF DeleteWrites, Deletion
  <2>2. /\ messages[i] \in Message
        /\ messages' = [messages EXCEPT ![i] = m]
        /\ now' = now + 1
    BY <1>3, <2>1 DEF DeleteWrites, DeleteMessage, contains_key, Tick
  <2>3. messages'[i] = m /\ Only(i) /\ m \in Message
    BY <2>1, <2>2, MarkForDeletionType DEF Only
  <2>4. Rewritten(i)
    BY <2>2, <2>3, MarkForDeletionType DEF Rewritten, SameIdentity, PendingStatus
  <2> QED
    BY <2>1, <2>4
<1>4. CASE CreateMessage(t) \/ CreateTakesOrder(t) \/ CreateRejected(t)
           \/ CreateNotifies(t) \/ UpdateChecks(t) \/ UpdateRejected(t) \/ DeleteChecks(t)
  BY <1>4 DEF Untouched, CreateMessage, CreateTakesOrder, TakeOrder, CreateRejected,
              RejectInsert, CreateNotifies, UpdateChecks, UpdateRejected, RejectUpdate,
              DeleteChecks, Tick, appVars, storageVars
<1> QED
  BY <1>1, <1>2, <1>3, <1>4 DEF HandlerStep, HandlerContinues

LEMMA StoredMessage ==
    ASSUME HandlersTypeInv, NEW i \in Stored
    PROVE  i \in MessageIds /\ messages[i] \in Message
BY DEF Stored, contains_key, HandlersTypeInv, AppTypeOK, StorageTypeOK

\* message.rs, memory.rs: a stored message is never removed, and its group,
\* sender, order and creation time are never written again.
LEMMA HandlersKeepIdentity ==
    ASSUME HandlersTypeInv, StampsPast, NEW i \in Stored, NEW t \in Tasks, HandlerStep(t)
    PROVE  messages'[i] \in Message /\ contains_key(i)' /\ SameIdentity(i)
<1>1. i \in MessageIds /\ messages[i] \in Message
  BY StoredMessage
<1>2. CASE Untouched
  BY <1>1, <1>2, NoneIsNoMessage DEF Untouched, SameIdentity, contains_key
<1>3. ASSUME NEW j \in MessageIds, Created(j)
      PROVE  messages'[i] = messages[i]
  BY <1>1, <1>3, NoneIsNoMessage DEF Created, Only
<1>4. ASSUME NEW j \in MessageIds, Rewritten(j)
      PROVE  messages'[i] \in Message /\ SameIdentity(i)
  BY <1>1, <1>4 DEF Rewritten, Only, SameIdentity
<1> QED
  BY <1>1, <1>2, <1>3, <1>4, HandlerEffects, NoneIsNoMessage DEF SameIdentity, contains_key

\* handlers.rs: a check made on a copy of the message stays true of the message.
LEMMA OwnerKept ==
    ASSUME HandlersTypeInv, WriterOwnsMessage, NEW u \in Tasks, pc[u] \in {"update", "delete"},
           req'[u] = req[u], \A i \in Stored : contains_key(i)' /\ SameIdentity(i)
    PROVE  MayChange(req[u].id, req[u].group_id, req[u].sender)'
<1>1. /\ MayChange(req[u].id, req[u].group_id, req[u].sender)
      /\ req[u].id \in MessageIds
  BY DEF WriterOwnsMessage, HandlersTypeInv, HandlersTypeOK, RequestTypeOK, Edit, Deletion
<1>2. req[u].id \in Stored
  BY <1>1 DEF MayChange, Stored
<1> QED
  BY <1>1, <1>2 DEF MayChange, SameIdentity, contains_key

LEMMA OwnerStep ==
    ASSUME HandlersTypeInv, StampsPast, WriterOwnsMessage, NEW t \in Tasks, HandlerStep(t)
    PROVE  WriterOwnsMessage'
<1> USE DEF HandlersTypeInv, HandlersTypeOK
<1> SUFFICES ASSUME NEW u \in Tasks, pc'[u] \in {"update", "delete"}
             PROVE  MayChange(req[u].id, req[u].group_id, req[u].sender)'
  BY DEF WriterOwnsMessage
<1>1. CASE pc[u] = pc'[u] /\ req'[u] = req[u]
  BY <1>1, OwnerKept, HandlersKeepIdentity
<1>2. CASE (UpdateChecks(t) \/ DeleteChecks(t)) /\ u = t
  BY <1>2 DEF UpdateChecks, DeleteChecks, Goto, MayChange, contains_key, appVars, storageVars
<1>3. CASE (UpdateChecks(t) \/ DeleteChecks(t)) /\ u # t
  BY <1>1, <1>3 DEF UpdateChecks, DeleteChecks, Goto
<1>4. CASE ~(UpdateChecks(t) \/ DeleteChecks(t))
  BY <1>1, <1>4 DEF HandlerStep, HandlerContinues, CreateMessage, CreateTakesOrder,
     CreateInserts, CreateRejected, CreateNotifies, UpdateWrites, UpdateRejected,
     DeleteWrites, Goto
<1> QED
  BY <1>2, <1>3, <1>4

\* memory.rs, create_message and update_message: the set follows the messages.
LEMMA NoncesStep ==
    ASSUME HandlersTypeInv, StampsPast, NoncesExact, NEW t \in Tasks, HandlerStep(t)
    PROVE  NoncesExact'
<1> USE DEF HandlersTypeInv, AppTypeOK, StorageTypeOK, HandlersTypeOK, RequestTypeOK,
            NoncesExact
<1>0. MessagesTypeOK
  BY DEF MessagesTypeOK
<1>1. CASE CreateInserts(t)
  <2> DEFINE i == req[t].id  m == Drafted(req[t])
  <2>1. i \in MessageIds /\ m \in Message
    BY <1>1, DraftedType DEF CreateInserts
  <2>2. /\ messages' = [messages EXCEPT ![i] = m]
        /\ nonces' = nonces \cup {m.nonce}
        /\ m.nonce \notin nonces /\ i \notin Stored
    BY <1>1 DEF CreateInserts, InsertMessage, DuplicateId, DuplicateNonce, Stored
  <2> HIDE DEF i, m
  <2> QED
    BY <1>0, <2>1, <2>2, NonceAdded
<1>2. CASE UpdateWrites(t)
  <2> DEFINE i == req[t].id  n == req[t].nonce
             m == update_content(messages[i], req[t].content, n, now)
  <2>1. i \in MessageIds /\ req[t].content \in Contents /\ n \in Nonces
    BY <1>2 DEF UpdateWrites, Edit
  <2>2. /\ i \in Stored
        /\ messages' = [messages EXCEPT ![i] = m]
        /\ nonces' = (nonces \ {messages[i].nonce}) \cup {n}
        /\ messages[i].nonce = n \/ n \notin nonces
    BY <1>2, <2>1 DEF UpdateWrites, UpdateMessage, NonceFree, Stored
  <2>3. m \in Message /\ m.nonce = n
    BY <1>0, <2>1, <2>2, StoredIsMessage, UpdateContentType
  <2> HIDE DEF i, n, m
  <2> QED
    BY <1>0, <2>2, <2>3, NonceReplaced
<1>3. CASE DeleteWrites(t)
  <2> DEFINE i == req[t].id
             m == mark_for_deletion(messages[i], now)
  <2>1. i \in Stored /\ messages' = [messages EXCEPT ![i] = m] /\ nonces' = nonces
    BY <1>3 DEF DeleteWrites, DeleteMessage, Stored, Deletion
  <2>2. m \in Message /\ m.nonce = messages[i].nonce
    BY <1>0, <2>1, StoredIsMessage, MarkForDeletionType
  <2> HIDE DEF i, m
  <2> QED
    BY <1>0, <2>1, <2>2, NoncesUntouched
<1>4. CASE CreateMessage(t) \/ CreateTakesOrder(t) \/ CreateRejected(t)
           \/ CreateNotifies(t) \/ UpdateChecks(t) \/ UpdateRejected(t) \/ DeleteChecks(t)
  <2>1. UNCHANGED <<messages, nonces>>
    BY <1>4 DEF CreateMessage, CreateTakesOrder, TakeOrder, CreateRejected, RejectInsert,
                CreateNotifies, UpdateChecks, UpdateRejected, RejectUpdate, DeleteChecks,
                appVars, storageVars
  <2> QED
    BY <2>1, StorageFrame
<1> QED
  BY <1>1, <1>2, <1>3, <1>4 DEF HandlerStep, HandlerContinues

\* memory.rs: no order is taken, and no order taken before is forgotten or used.
LEMMA OrdersFrame ==
    ASSUME OrdersUnique, group_orders' = group_orders, Stored' = Stored,
           \A i \in Stored : SameIdentity(i),
           \A t \in Tasks : pc'[t] = "insert" => pc[t] = "insert" /\ req'[t] = req[t]
    PROVE  OrdersUnique'
BY DEF OrdersUnique, SameIdentity

\* memory.rs, next_order and create_message: the counter's lock is released
\* between the two, and the orders stay different.
LEMMA OrdersStep ==
    ASSUME HandlersTypeInv, StampsPast, OrdersUnique, NEW t \in Tasks, HandlerStep(t)
    PROVE  OrdersUnique'
<1> USE DEF HandlersTypeInv, AppTypeOK, StorageTypeOK, HandlersTypeOK, RequestTypeOK
<1>1. CASE CreateTakesOrder(t)
  <2> DEFINE g == req[t].group_id
  <2>1. /\ g \in Groups /\ req[t] \in Draft
        /\ messages' = messages
        /\ group_orders' = [group_orders EXCEPT ![g] = group_orders[g] + 1]
        /\ pc' = [pc EXCEPT ![t] = "insert"]
        /\ req' = [req EXCEPT ![t] = [req[t] EXCEPT !.order = group_orders[g] + 1]]
    BY <1>1 DEF CreateTakesOrder, TakeOrder, next_order, Goto, Draft
  <2>2. /\ req'[t].order = group_orders[g] + 1 /\ req'[t].group_id = g
        /\ pc'[t] = "insert"
        /\ \A u \in Tasks \ {t} : pc'[u] = pc[u] /\ req'[u] = req[u]
        /\ \A h \in Groups : group_orders[h] <= group_orders'[h]
        /\ group_orders'[g] = group_orders[g] + 1
        /\ \A h \in Groups : group_orders[h] \in Nat /\ group_orders'[h] \in Nat
    BY <2>1 DEF Draft
  <2>3. \A i \in Stored : messages[i].group_id \in Groups
    BY StoredMessage DEF Message
  <2>4. \A u \in Tasks : pc[u] = "insert" => req[u].group_id \in Groups
    BY DEF Draft
  <2>5. Stored' = Stored
    BY <2>1 DEF Stored, contains_key
  <2> HIDE DEF g
  <2>6. \A i \in Stored : messages[i].order \in 1..group_orders[messages[i].group_id]
    BY DEF OrdersUnique
  <2>7. \A u \in Tasks : pc[u] = "insert" => req[u].order \in 1..group_orders[req[u].group_id]
    BY DEF OrdersUnique
  <2>8. \A i \in Stored : messages'[i].order \in 1..group_orders'[messages'[i].group_id]
    BY <2>1, <2>2, <2>3, <2>6
  <2>9. \A u \in Tasks : pc'[u] = "insert" => req'[u].order \in 1..group_orders'[req'[u].group_id]
    BY <2>1, <2>2, <2>4, <2>7
  <2>10. \A u \in Tasks \ {t} : pc'[u] = "insert" /\ req'[u].group_id = g => req'[u].order # req'[t].order
    BY <2>1, <2>2, <2>7
  <2>11. \A i \in Stored : messages[i].group_id = g => messages[i].order # req'[t].order
    BY <2>1, <2>2, <2>6
  <2> QED
    BY <2>1, <2>2, <2>5, <2>8, <2>9, <2>10, <2>11 DEF OrdersUnique
<1>2. CASE CreateInserts(t)
  <2> DEFINE i == req[t].id  m == Drafted(req[t])
  <2>1. /\ i \in MessageIds /\ m \in Message
        /\ m.order = req[t].order /\ m.group_id = req[t].group_id
    BY <1>2, DraftedType DEF CreateInserts, Draft, Drafted, NewMessage
  <2>2. /\ messages' = [messages EXCEPT ![i] = m] /\ messages[i] = None
        /\ group_orders' = group_orders
        /\ pc[t] = "insert" /\ pc'[t] = "stored"
        /\ \A u \in Tasks \ {t} : pc'[u] = pc[u] /\ req'[u] = req[u]
    BY <1>2 DEF CreateInserts, InsertMessage, DuplicateId, contains_key, Goto
  <2>3. /\ Stored' = Stored \cup {i}
        /\ messages'[i] = m
        /\ \A j \in Stored : messages'[j] = messages[j]
    BY <2>1, <2>2, NoneIsNoMessage DEF Stored, contains_key
  <2> HIDE DEF i, m
  <2> QED
    BY <2>1, <2>2, <2>3 DEF OrdersUnique
<1>3. CASE UpdateWrites(t) \/ DeleteWrites(t) \/ CreateMessage(t) \/ CreateRejected(t)
           \/ CreateNotifies(t) \/ UpdateChecks(t) \/ UpdateRejected(t) \/ DeleteChecks(t)
  <2>1. /\ group_orders' = group_orders
        /\ \A u \in Tasks : pc'[u] = "insert" => pc[u] = "insert" /\ req'[u] = req[u]
    BY <1>3 DEF UpdateWrites, UpdateMessage, DeleteWrites, DeleteMessage, CreateMessage,
                CreateRejected, RejectInsert, CreateNotifies, UpdateChecks, UpdateRejected,
                RejectUpdate, DeleteChecks, Goto, appVars, storageVars
  <2>2. \A i \in Stored : SameIdentity(i) /\ contains_key(i)'
    BY HandlersKeepIdentity
  <2>3. \A i \in MessageIds \ Stored : messages'[i] = None
    BY <1>3 DEF UpdateWrites, UpdateMessage, DeleteWrites, DeleteMessage, CreateMessage,
                CreateRejected, RejectInsert, CreateNotifies, UpdateChecks, UpdateRejected,
                RejectUpdate, DeleteChecks, appVars, storageVars, Stored, contains_key
  <2>4. Stored' = Stored
    BY <2>2, <2>3 DEF Stored, contains_key
  <2> QED
    BY <2>1, <2>2, <2>4, OrdersFrame
<1> QED
  BY <1>1, <1>2, <1>3 DEF HandlerStep, HandlerContinues

LEMMA HandlersKeepClientInv ==
    ASSUME HandlersTypeInv, StampsPast, ClientInv, NEW t \in Tasks, HandlerStep(t)
    PROVE  ClientInv'
BY OwnerStep, NoncesStep, OrdersStep DEF ClientInv

Kept(i) == messages'[i] = messages[i]

\* The handlers' effects, seen from one message id.
LEMMA HandlerEffectOn ==
    ASSUME HandlersTypeInv, StampsPast, NEW t \in Tasks, HandlerStep(t)
    PROVE  /\ now' \in Nat /\ now <= now'
           /\ \A i \in Stored : Kept(i) \/ Rewritten(i)
           /\ \A i \in MessageIds \ Stored : messages'[i] = None \/ Created(i)
<1>1. now \in Nat
  BY DEF HandlersTypeInv, AppTypeOK, StorageTypeOK
<1>2. CASE Untouched
  BY <1>2 DEF Untouched, Kept, Stored, contains_key
<1>3. ASSUME NEW j \in MessageIds, Created(j)
      PROVE  /\ now' = now
             /\ \A i \in Stored : Kept(i)
             /\ \A i \in MessageIds \ Stored : messages'[i] = None \/ Created(i)
  BY <1>3, NoneIsNoMessage DEF Created, Only, Kept, Stored, contains_key
<1>4. ASSUME NEW j \in MessageIds, Rewritten(j)
      PROVE  /\ now' = now + 1
             /\ \A i \in Stored : Kept(i) \/ Rewritten(i)
             /\ \A i \in MessageIds \ Stored : messages'[i] = None
  <2>1. j \in Stored
    BY <1>4, NoneIsNoMessage DEF Rewritten, Stored, contains_key
  <2> QED
    BY <1>4, <2>1 DEF Rewritten, Only, Kept, Stored, contains_key
<1> QED
  BY <1>1, <1>2, <1>3, <1>4, HandlerEffects

LEMMA StampsHandlerStep ==
    ASSUME HandlersTypeInv, StampsPast, NEW t \in Tasks, HandlerStep(t)
    PROVE  StampsPast'
<1>1. now \in Nat /\ now' \in Nat /\ now <= now'
  BY HandlerEffectOn DEF HandlersTypeInv, AppTypeOK, StorageTypeOK
<1>2. ASSUME NEW i \in Stored'
      PROVE  messages'[i].updated_at < now'
  <2>1. i \in MessageIds
    BY DEF Stored
  <2>2. CASE i \in Stored /\ Kept(i)
    BY <1>1, <2>2, StoredMessage DEF Kept, StampsPast, Message
  <2>3. CASE Rewritten(i)
    BY <1>1, <2>3 DEF Rewritten
  <2>4. CASE Created(i)
    BY <1>1, <2>4 DEF Created
  <2> QED
    BY <2>1, <2>2, <2>3, <2>4, HandlerEffectOn DEF Stored, contains_key
<1>3. ASSUME NEW u \in Tasks, pc'[u] \in {"create", "insert"}
      PROVE  req'[u].created_at < now'
  <2>1. CASE pc[u] \in {"create", "insert"} /\ req'[u].created_at = req[u].created_at
    BY <1>1, <2>1 DEF StampsPast, HandlersTypeInv, HandlersTypeOK, RequestTypeOK, Draft
  <2>2. CASE CreateMessage(t) /\ u = t
    BY <1>1, <2>2 DEF CreateMessage, Goto, Tick, HandlersTypeInv, HandlersTypeOK
  <2>3. CASE CreateTakesOrder(t) /\ u = t
    <3>1. req[t] \in Draft /\ pc[t] = "create"
      BY <2>3 DEF CreateTakesOrder, HandlersTypeInv, HandlersTypeOK, RequestTypeOK
    <3>2. req'[t].created_at = req[t].created_at
      BY <2>3, <3>1 DEF CreateTakesOrder, Goto, Draft, HandlersTypeInv, HandlersTypeOK
    <3> QED
      BY <2>1, <2>3, <3>1, <3>2
  <2>4. CASE u # t
    BY <1>3, <2>1, <2>4 DEF HandlerStep, HandlerContinues, CreateMessage, CreateTakesOrder,
       CreateInserts, CreateRejected, CreateNotifies, UpdateChecks, UpdateWrites,
       UpdateRejected, DeleteChecks, DeleteWrites, Goto, HandlersTypeInv, HandlersTypeOK
  <2>5. CASE u = t /\ ~CreateMessage(t) /\ ~CreateTakesOrder(t)
    BY <1>3, <2>5 DEF HandlerStep, HandlerContinues, CreateInserts, CreateRejected,
       CreateNotifies, UpdateChecks, UpdateWrites, UpdateRejected, DeleteChecks, DeleteWrites,
       Goto, HandlersTypeInv, HandlersTypeOK
  <2> QED
    BY <2>2, <2>3, <2>4, <2>5
<1> QED
  BY <1>2, <1>3 DEF StampsPast

(***************************************************************************)
(* The invariant of the handlers.                                          *)
(***************************************************************************)
\* A step of a handler, whatever runs beside it.
LEMMA HandlersKeepInv ==
    ASSUME HandlersInv, NEW t \in Tasks, HandlerStep(t)
    PROVE  HandlersInv'
BY HandlerStepTypes, StampsHandlerStep, HandlersKeepClientInv DEF HandlersInv, HandlersTypeInv

\* A step of something else that leaves the handlers and the storage alone.
LEMMA HandlersFrame ==
    ASSUME HandlersInv, UNCHANGED <<appVars, handlerVars>>
    PROVE  HandlersInv'
<1>1. UNCHANGED <<messages, group_orders, nonces, now, notifications, pc, req>>
  BY DEF appVars, storageVars, handlerVars
<1>2. HandlersTypeInv'
  BY <1>1 DEF HandlersInv, HandlersTypeInv, AppTypeOK, StorageTypeOK, HandlersTypeOK,
              RequestTypeOK
<1>3. StampsPast' /\ ClientInv'
  BY <1>1, StorageFrame DEF HandlersInv, StampsPast, ClientInv, WriterOwnsMessage, MayChange,
     contains_key, NoncesExact, OrdersUnique
<1> QED
  BY <1>2, <1>3 DEF HandlersInv

LEMMA NoRequestsInv == NoRequests => HandlersInv
<1> SUFFICES ASSUME NoRequests PROVE HandlersInv
  OBVIOUS
<1> USE DEF NoRequests, AppInit, StorageInit, HandlersInit
<1>1. Stored = {} /\ StoredNonces = {}
  BY DEF Stored, StoredNonces, contains_key
<1>2. HandlersTypeInv
  BY DEF HandlersTypeInv, AppTypeOK, StorageTypeOK, HandlersTypeOK, RequestTypeOK
<1>3. StampsPast /\ ClientInv
  BY <1>1 DEF StampsPast, ClientInv, WriterOwnsMessage, NoncesExact, NoncesDiffer, OrdersUnique
<1> QED
  BY <1>2, <1>3 DEF HandlersInv

\* handlers.rs, memory.rs: however many requests run at the same time, owners,
\* nonces, orders and stamps stay as HandlersInv says, with or without a worker.
THEOREM HandlersAlone == HandlersSpec => []HandlersInv
<1>1. HandlersInv /\ [Requests]_<<appVars, handlerVars>> => HandlersInv'
  BY HandlersKeepInv, HandlersFrame DEF Requests
<1> QED
  BY <1>1, NoRequestsInv, PTL DEF HandlersSpec
=============================================================================
