------------------------------ MODULE Handlers ------------------------------
(***************************************************************************)
(* The handlers behind POST, PUT and DELETE /messages                      *)
(* (handlers/messages/handlers.rs), run by concurrent tasks over the       *)
(* shared AppState.  A request is modelled from the moment it has passed   *)
(* auth_middleware and the decoding and signature checks; one that fails   *)
(* them, or the checks against the stored message, is answered with an     *)
(* error and changes nothing, so it has no step here.                      *)
(*                                                                         *)
(* A task holds no lock between two storage calls: what it read in the     *)
(* first may be stale in the second.                                       *)
(***************************************************************************)
EXTENDS AppState

CONSTANTS
    Tasks,      \* the tasks that serve requests at the same time
    MaxTime     \* bound: no request arrives once the clock has reached it

ASSUME HandlersAssumption == MaxTime \in Nat

VARIABLES
    pc,         \* task -> the next storage call or effect of its handler
    req         \* task -> the request it is serving, with the handler's locals

handlerVars == <<pc, req>>

\* A POST: the Message under construction.  `order` is 0 until set_order.
Draft == [id : MessageIds, group_id : Groups, sender : Senders,
          content : Contents, nonce : Nonces, created_at : Nat, order : Nat]

\* A PUT and a DELETE.  `sender` and `group_id` are the address and the group
\* that auth_middleware verified (AuthContext).
Edit == [id : MessageIds, group_id : Groups, sender : Senders,
         content : Contents, nonce : Nonces]

Deletion == [id : MessageIds, group_id : Groups, sender : Senders]

RequestTypeOK(t) ==
    /\ pc[t] \in {"idle", "stored"} => req[t] = None
    /\ pc[t] \in {"create", "insert"} => req[t] \in Draft
    /\ pc[t] = "update" => req[t] \in Edit
    /\ pc[t] = "delete" => req[t] \in Deletion

HandlersTypeOK ==
    /\ pc \in [Tasks -> {"idle", "create", "insert", "stored", "update", "delete"}]
    /\ DOMAIN req = Tasks
    /\ \A t \in Tasks : RequestTypeOK(t)

HandlersInit ==
    /\ pc = [t \in Tasks |-> "idle"]
    /\ req = [t \in Tasks |-> None]

\* Task t goes on to `next` with the locals r.
Goto(t, next, r) ==
    /\ pc' = [pc EXCEPT ![t] = next]
    /\ req' = [req EXCEPT ![t] = r]

Accept(t) == pc[t] = "idle" /\ now < MaxTime

------------------------------------------------------------------------------
(* POST /messages *)

\* Message::new: the id is drawn and the timestamps are taken before storage
\* is called.  Any id may be drawn, so the duplicate-id check is reachable.
CreateMessage(t) ==
    /\ Accept(t)
    /\ \E i \in MessageIds, g \in Groups, s \in Senders, c \in Contents, n \in Nonces :
          Goto(t, "create", [id |-> i, group_id |-> g, sender |-> s, content |-> c,
                             nonce |-> n, created_at |-> now, order |-> 0])
    /\ Tick
    /\ UNCHANGED <<messages, group_orders, nonces, notifications>>

CreateTakesOrder(t) ==
    /\ pc[t] = "create"
    /\ Goto(t, "insert", [req[t] EXCEPT !.order = next_order(req[t].group_id)])
    /\ TakeOrder(req[t].group_id)
    /\ UNCHANGED notifications

Drafted(d) ==
    NewMessage(d.group_id, d.sender, d.content, d.nonce, d.created_at, d.order)

CreateInserts(t) ==
    /\ pc[t] = "insert"
    /\ InsertMessage(req[t].id, Drafted(req[t]))
    /\ Goto(t, "stored", None)
    /\ UNCHANGED notifications

\* Fault: a refused message is announced to the worker like a stored one.
CreateRejected_Notifies(t) ==
    /\ pc[t] = "insert"
    /\ RejectInsert(req[t].id, Drafted(req[t]))
    /\ Goto(t, "stored", req[t])
    /\ UNCHANGED notifications

CreateRejected(t) ==
    /\ pc[t] = "insert"
    /\ RejectInsert(req[t].id, Drafted(req[t]))
    /\ Goto(t, "idle", None)
    /\ UNCHANGED notifications

\* The worker is told, and the 201 response is signed and sent.
CreateNotifies(t) ==
    /\ pc[t] = "stored"
    /\ SendNotification
    /\ Goto(t, "idle", None)
    /\ UNCHANGED storageVars

------------------------------------------------------------------------------
(* PUT /messages and DELETE /messages/:message_id *)

\* The two handlers start alike: the message exists, belongs to the caller's
\* authorized group and was sent by the caller.  Its sync_status is not looked
\* at: a deleted message passes.
MayChange(id, group, sender) ==
    /\ contains_key(id)
    /\ messages[id].group_id = group
    /\ messages[id].sender = sender

\* Fault: any member of the group may edit.
UpdateChecks_AnySender(t) ==
    /\ Accept(t)
    /\ \E i \in Stored, s \in Senders, c \in Contents, n \in Nonces :
          Goto(t, "update", [id |-> i, group_id |-> messages[i].group_id, sender |-> s,
                             content |-> c, nonce |-> n])
    /\ UNCHANGED appVars

UpdateChecks(t) ==
    /\ Accept(t)
    /\ \E i \in MessageIds, g \in Groups, s \in Senders, c \in Contents, n \in Nonces :
          /\ MayChange(i, g, s)
          /\ Goto(t, "update", [id |-> i, group_id |-> g, sender |-> s,
                                content |-> c, nonce |-> n])
    /\ UNCHANGED appVars

UpdateWrites(t) ==
    /\ pc[t] = "update"
    /\ UpdateMessage(req[t].id, req[t].content, req[t].nonce)
    /\ Goto(t, "idle", None)
    /\ UNCHANGED notifications

UpdateRejected(t) ==
    /\ pc[t] = "update"
    /\ RejectUpdate(req[t].id, req[t].nonce)
    /\ Goto(t, "idle", None)
    /\ UNCHANGED notifications

DeleteChecks(t) ==
    /\ Accept(t)
    /\ \E i \in MessageIds, g \in Groups, s \in Senders :
          /\ MayChange(i, g, s)
          /\ Goto(t, "delete", [id |-> i, group_id |-> g, sender |-> s])
    /\ UNCHANGED appVars

DeleteWrites(t) ==
    /\ pc[t] = "delete"
    /\ DeleteMessage(req[t].id)
    /\ Goto(t, "idle", None)
    /\ UNCHANGED notifications

------------------------------------------------------------------------------
\* The steps that finish a request already being served.
HandlerContinues(t) ==
    \/ CreateTakesOrder(t)
    \/ CreateInserts(t)
    \/ CreateRejected(t)
    \/ CreateNotifies(t)
    \/ UpdateWrites(t)
    \/ UpdateRejected(t)
    \/ DeleteWrites(t)

HandlerStep(t) ==
    \/ CreateMessage(t)
    \/ UpdateChecks(t)
    \/ DeleteChecks(t)
    \/ HandlerContinues(t)

HandlersTypeInv == AppTypeOK /\ HandlersTypeOK

Requests == \E t \in Tasks : HandlerStep(t)

NoRequests == AppInit /\ HandlersInit

HandlersSpec == NoRequests /\ [][Requests]_<<appVars, handlerVars>>

------------------------------------------------------------------------------
(* Properties of the handlers over the storage, kept by the whole relayer. *)

\* The nonce set is exactly the nonces of the stored messages, and no two
\* stored messages share one: a nonce is neither leaked nor forgotten when
\* creations and edits race (memory.rs, the swap in update_message).
NoncesExact == nonces = StoredNonces /\ NoncesDiffer

\* Orders are never handed out twice: within a group, stored messages and the
\* creations still holding an order all have different ones, none beyond the
\* group's counter, although the counter's lock is released before the
\* message is inserted.
OrdersUnique ==
    /\ \A i \in Stored :
          messages[i].order \in 1..group_orders[messages[i].group_id]
    /\ \A t \in Tasks : pc[t] = "insert" =>
          req[t].order \in 1..group_orders[req[t].group_id]
    /\ \A i, j \in Stored :
          /\ messages[i].group_id = messages[j].group_id
          /\ messages[i].order = messages[j].order
          => i = j
    /\ \A t, u \in Tasks :
          /\ pc[t] = "insert" /\ pc[u] = "insert"
          /\ req[t].group_id = req[u].group_id
          /\ req[t].order = req[u].order
          => t = u
    /\ \A i \in Stored, t \in Tasks :
          pc[t] = "insert" /\ messages[i].group_id = req[t].group_id
          => messages[i].order # req[t].order

\* The ownership check is made on a copy read before the write; it still holds
\* of the message the write reaches.
WriterOwnsMessage ==
    \A t \in Tasks : pc[t] \in {"update", "delete"} =>
        MayChange(req[t].id, req[t].group_id, req[t].sender)

\* Every stamp lies in the past, those of drafts not stored yet included.
StampsPast ==
    /\ \A i \in Stored : messages[i].updated_at < now
    /\ \A t \in Tasks : pc[t] \in {"create", "insert"} => req[t].created_at < now

\* What the handlers keep true of the storage, whatever runs beside them; with
\* the types it is inductive.
ClientInv == WriterOwnsMessage /\ NoncesExact /\ OrdersUnique

HandlersInv == HandlersTypeInv /\ StampsPast /\ ClientInv

\* adapter.rs: a reader passes after_order to "scroll down to newer messages".
\* For that, a message that appears must be above those already visible.
NewerMessagesHaveGreaterOrders ==
    [][\A i \in MessageIds \ Stored, j \in Stored :
          contains_key(i)' /\ messages'[i].group_id = messages[j].group_id =>
              messages'[i].order > messages[j].order]_<<appVars, handlerVars>>
=============================================================================
