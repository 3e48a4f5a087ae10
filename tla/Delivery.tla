------------------------------ MODULE Delivery -------------------------------
(***************************************************************************)
(* From signed requests to stored messages.  Clients sign requests and     *)
(* send them over a network that may lose one, delay it or, when a client  *)
(* repeats a request whose answer it did not get, deliver it again: any    *)
(* request may arrive at any time and any number of times.  The relayer    *)
(* keeps no record of requests; what tells a repeated one from a new one   *)
(* is its timestamp and the nonce of its text.                             *)
(*                                                                         *)
(* Permissions are the subject of Gateway: here every sender has them all. *)
(*                                                                         *)
(* `origin` is a history variable: the signed body a stored message came   *)
(* from.                                                                   *)
(***************************************************************************)
EXTENDS Handlers, Auth

CONSTANT Timestamps     \* bound: what clients' clocks may say

ASSUME DeliveryAssumption == Timestamps \subseteq i64 /\ MaxTime < HalfRange

VARIABLES
    serving,    \* task -> the request it serves and when it was let in, or None
    origin

vars == <<appVars, handlerVars, serving, origin>>

\* A request's signature is over its body or, without one, over the string
\* "timestamp:sender_address:group_id".  Of these bytes the middleware reads
BodyAuthFields == [group_id : Groups, sender : Senders, timestamp : Timestamps]

\* and the handlers behind POST and PUT, besides, the text and (PUT) the message.
\* No method is among the bytes, and fields a handler does not know are ignored:
\* the body of a PUT may also arrive as a POST, and any signed bytes, those of a
\* GET included, with a DELETE of any message.
CreateMessageRequest ==
    [group_id : Groups, sender : Senders, timestamp : Timestamps,
     content : Contents, nonce : Nonces, text_signed : BOOLEAN]

UpdateMessageRequest ==
    [group_id : Groups, sender : Senders, timestamp : Timestamps,
     content : Contents, nonce : Nonces, text_signed : BOOLEAN, message_id : MessageIds]

\* The requests that arrive, those that were put together wrongly included.
\* `bytes` is what is read of the bytes the signature should be over.
Post == [method : {"POST"}, bytes : CreateMessageRequest,
         key : Senders \cup {None}, signed : BOOLEAN]

Put == [method : {"PUT"}, bytes : UpdateMessageRequest,
        key : Senders \cup {None}, signed : BOOLEAN]

Delete == [method : {"DELETE"}, path : MessageIds, bytes : BodyAuthFields,
           key : Senders \cup {None}, signed : BOOLEAN]

Request == Post \cup Put \cup Delete

TypeOK ==
    /\ HandlersTypeInv
    /\ \A t \in Tasks :
          IF serving[t] = None THEN pc[t] = "idle"
          ELSE serving[t].request \in Request /\ serving[t].at \in 0..now
    /\ \A i \in MessageIds :
          IF contains_key(i) THEN origin[i] \in CreateMessageRequest ELSE origin[i] = None

Init ==
    /\ NoRequests
    /\ serving = [t \in Tasks |-> None]
    /\ origin = [i \in MessageIds |-> None]

------------------------------------------------------------------------------

TimePasses ==
    /\ now < MaxTime
    /\ Tick
    /\ UNCHANGED <<messages, group_orders, nonces, notifications, handlerVars, serving, origin>>

\* A request that fails a check is answered 401 and leaves nothing behind.
TurnAway(t) ==
    /\ serving[t] = None
    /\ {r \in Request : ~Authentic(r, None, now)} # {}
    /\ UNCHANGED vars

Receive(t) ==
    /\ Accept(t)
    /\ serving[t] = None
    /\ \E r \in Request :
          /\ Authentic(r, None, now)
          /\ serving' = [serving EXCEPT ![t] = [request |-> r, at |-> now]]
    /\ UNCHANGED <<appVars, handlerVars, origin>>

Serves(t, method) == serving[t] # None /\ serving[t].request.method = method

Answered(t) == serving' = [serving EXCEPT ![t] = None]

\* Fault: the message signature is not looked at.
TextAccepted_Unchecked(t) ==
    LET b == serving[t].request.bytes
    IN  req'[t].content = b.content /\ req'[t].nonce = b.nonce

\* The text a handler goes on with is that of its request, and was signed.
TextAccepted(t) ==
    LET b == serving[t].request.bytes
    IN  /\ verify_message_signature(b)
        /\ req'[t].content = b.content
        /\ req'[t].nonce = b.nonce

\* The message to change is named by the body of a PUT and by the path of a DELETE.
Begin(t) ==
    /\ \/ Serves(t, "POST") /\ CreateMessage(t) /\ TextAccepted(t)
       \/ /\ Serves(t, "PUT") /\ UpdateChecks(t) /\ TextAccepted(t)
          /\ req'[t].id = serving[t].request.bytes.message_id
       \/ /\ Serves(t, "DELETE") /\ DeleteChecks(t)
          /\ req'[t].id = serving[t].request.path
    /\ req'[t].group_id = serving[t].request.bytes.group_id
    /\ req'[t].sender = serving[t].request.bytes.sender
    /\ UNCHANGED <<serving, origin>>

Continue(t) ==
    /\ HandlerContinues(t)
    /\ IF pc'[t] = "idle" THEN Answered(t) ELSE UNCHANGED serving
    /\ origin' = [i \in MessageIds |->
                    IF ~contains_key(i) /\ contains_key(i)' THEN serving[t].request.bytes
                    ELSE origin[i]]

\* A handler answers with an error before it writes: no such message, one of
\* another group or sender, or a text that does not decode or is not signed.
Refuse(t) ==
    /\ serving[t] # None
    /\ pc[t] = "idle"
    /\ Answered(t)
    /\ UNCHANGED <<appVars, handlerVars, origin>>

Next ==
    \/ TimePasses
    \/ \E t \in Tasks : TurnAway(t) \/ Receive(t) \/ Begin(t) \/ Continue(t) \/ Refuse(t)

Spec == Init /\ [][Next]_vars

------------------------------------------------------------------------------
(* Properties of requests that may be repeated, late or wrong. *)

WithinTTL(r, at) ==
    r.bytes.timestamp \in (at - request_ttl_seconds)..(at + request_ttl_seconds)

\* Every request that was let in came within the TTL of its timestamp (middleware.rs:
\* "Timestamp is within TTL window (replay protection)").  It is not so of a
\* timestamp so far back that its difference from the clock has no absolute value.
LetInWithinTTL ==
    \A t \in Tasks : serving[t] # None => WithinTTL(serving[t].request, serving[t].at)

\* The same of the timestamps that a clock can show since 1970.
Fresh(r, at) == r.bytes.timestamp >= 0 => WithinTTL(r, at)

\* The request r gives message i its new text, all of which was signed, or
\* deletes it, of which neither the message nor the method was signed.
AsksFor(r, i) ==
    \/ /\ r.method = IF contains_key(i) THEN "PUT" ELSE "POST"
       /\ r.method = "PUT" => r.bytes.message_id = i
       /\ r.bytes.text_signed
       /\ r.bytes.content = messages'[i].content
       /\ r.bytes.nonce = messages'[i].nonce
    \/ /\ r.method = "DELETE" /\ contains_key(i)
       /\ r.path = i
       /\ messages'[i] = mark_for_deletion(messages[i], now)

\* A message is created or changes only by a request that was let in within the
\* TTL of its timestamp and whose bytes its own sender signed for its own group.
\* What it says was signed with them, text and nonce together, and in an edit the
\* message too: a repeated PUT brings an older text back, of this message only,
\* within the TTL and not later.  Of a deletion the bytes say no more than that
\* the sender has sent a request for the group at that time.
ChangesAreSigned ==
    [][\A i \in MessageIds : messages'[i] # messages[i] =>
          \E t \in Tasks :
             /\ serving[t] # None
             /\ LET r == serving[t].request
                IN  /\ r.signed /\ r.key = messages'[i].sender
                    /\ r.bytes.group_id = messages'[i].group_id
                    /\ AsksFor(r, i)
                    /\ Fresh(r, serving[t].at)]_vars

\* A body that arrives again, as a POST or as what was a PUT, is not stored again,
\* not even after its message was deleted, unless an edit has given its nonce free
\* (memory.rs: the nonces are there for "duplicate detection").
OncePerPost ==
    \A i, j \in Stored : i # j /\ origin[i] = origin[j] =>
        messages[i].nonce # origin[i].nonce \/ messages[j].nonce # origin[j].nonce
=============================================================================
