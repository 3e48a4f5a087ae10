-------------------------- MODULE GatewayInvariant ---------------------------
(***************************************************************************)
(* The inductive invariant behind the properties of Gateway: a request in  *)
(* a handler is the one that auth_middleware let through, and its account  *)
(* had been given the permission for it.  That what the cache says was     *)
(* given is MembershipSync's part, proved there.  TLC checks the invariant *)
(* on a small instance, GatewayProofs proves it.                           *)
(***************************************************************************)
EXTENDS Gateway

\* The permission of a request was given to its account in its group.
CallersWereGiven ==
    \A t \in Tasks : auth[t] # None =>
        WasGiven(auth[t].group_id, auth[t].sender, required_permission[auth[t].method])

\* A handler runs for the request that was let through, under its method and
\* with its group and sender.
HandlersServeCallers ==
    \A t \in Tasks :
        /\ pc[t] # "idle" => auth[t] # None
        /\ pc[t] \in {"create", "insert", "stored"} => auth[t].method = "POST"
        /\ pc[t] = "update" => auth[t].method = "PUT"
        /\ pc[t] = "delete" => auth[t].method = "DELETE"
        /\ pc[t] \in {"create", "insert", "update", "delete"} =>
              req[t].group_id = auth[t].group_id /\ req[t].sender = auth[t].sender

IInv ==
    /\ HandlersInv
    /\ auth \in [Tasks -> AuthContext \cup {None}]
    /\ CallersWereGiven
    /\ HandlersServeCallers
    /\ SendersWereGivenSend
=============================================================================
