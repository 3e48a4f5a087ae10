-------------------------- MODULE DeliveryInvariant --------------------------
(***************************************************************************)
(* The inductive invariant behind the properties of Delivery: a handler    *)
(* goes on with the group, sender, text and id of a request that passed    *)
(* every check when it came in.  TLC checks it on a small instance,        *)
(* DeliveryProofs proves it.                                               *)
(***************************************************************************)
EXTENDS Delivery

\* The handler of task t works on the request r.
WorksOn(t, r) ==
    /\ pc[t] \in {"create", "insert", "stored"} => r \in Post
    /\ pc[t] = "update" => r \in Put /\ req[t].id = r.bytes.message_id
    /\ pc[t] = "delete" => r \in Delete /\ req[t].id = r.path
    /\ pc[t] \in {"create", "insert", "update", "delete"} =>
          req[t].group_id = r.bytes.group_id /\ req[t].sender = r.bytes.sender
    /\ pc[t] \in {"create", "insert", "update"} =>
          /\ r.bytes.text_signed
          /\ req[t].content = r.bytes.content /\ req[t].nonce = r.bytes.nonce

ServingTypeOK ==
    /\ DOMAIN serving = Tasks
    /\ \A t \in Tasks :
          IF serving[t] = None THEN pc[t] = "idle"
          ELSE serving[t].request \in Request /\ serving[t].at \in 0..now

ServesAuthentic ==
    \A t \in Tasks : serving[t] # None =>
        LET r == serving[t].request
        IN  r.signed /\ r.key = r.bytes.sender /\ Fresh(r, serving[t].at) /\ WorksOn(t, r)

OriginTypeOK ==
    \A i \in MessageIds :
        IF contains_key(i) THEN origin[i] \in CreateMessageRequest ELSE origin[i] = None

IInv ==
    /\ HandlersInv
    /\ ServingTypeOK
    /\ ServesAuthentic
    /\ OriginTypeOK
=============================================================================
