------------------------------ MODULE Gateway ------------------------------
(***************************************************************************)
(* auth_middleware (auth/middleware.rs) in front of the handlers, and the  *)
(* membership sync filling the cache it asks: Handlers and MembershipSync  *)
(* together.  The middleware looks a permission up once, before the        *)
(* handler runs; events applied after that do not stop the request.        *)
(*                                                                         *)
(* Headers, timestamp, signature and address are checked first and depend  *)
(* on the request alone.  A request is modelled from there: its sender is  *)
(* the address of the key that signed it.  One that fails changes nothing. *)
(***************************************************************************)
EXTENDS Handlers

CONSTANTS OtherPermissions, Bundles, MaxEvents, MaxCheckpoints, EmptyResponses

VARIABLES
    members, ledger, chain, stream, last_cursor, cursor, applied, missed,
    auth        \* task -> method and AuthContext of its request, or None

Method == {"GET", "POST", "PUT", "DELETE"}

MessagingPermission == {"MessagingReader", "MessagingSender",
                        "MessagingEditor", "MessagingDeleter"}

\* What MembershipSync assumes of its constants, for the values they get here.
ASSUME GatewayAssumption ==
    /\ MessagingPermission \cap OtherPermissions = {}
    /\ \A perms \in SUBSET (MessagingPermission \cup OtherPermissions) : None # perms
    /\ None \notin Nat
    /\ Bundles \subseteq SUBSET (MessagingPermission \cup OtherPermissions)
    /\ MaxEvents \in Nat /\ MaxCheckpoints \in Nat /\ EmptyResponses \in BOOLEAN

Sync == INSTANCE MembershipSync
            WITH Addresses <- Senders, MessagingPermissions <- MessagingPermission

membershipVars == <<members, ledger, chain, stream, last_cursor, cursor, applied, missed>>

vars == <<appVars, handlerVars, auth, membershipVars>>

AuthContext == [method : Method, group_id : Groups, sender : Senders]

TypeOK ==
    /\ HandlersTypeInv
    /\ auth \in [Tasks -> AuthContext \cup {None}]
    /\ \A t \in Tasks : auth[t] = None => pc[t] = "idle"
    /\ Sync!TypeOK

Init ==
    /\ NoRequests
    /\ auth = [t \in Tasks |-> None]
    /\ Sync!Init

------------------------------------------------------------------------------
(* auth_middleware *)

required_permission ==
    [GET |-> "MessagingReader", POST |-> "MessagingSender",
     PUT |-> "MessagingEditor", DELETE |-> "MessagingDeleter"]

\* Fault: a member of any group passes.
Permitted_InAnyGroup(c) ==
    \E g \in Groups : Sync!has_permission(<<g, c.sender>>, required_permission[c.method])

Permitted(c) ==
    Sync!has_permission(<<c.group_id, c.sender>>, required_permission[c.method])

Authenticate(t) ==
    /\ Accept(t)
    /\ auth[t] = None
    /\ \E c \in AuthContext : Permitted(c) /\ auth' = [auth EXCEPT ![t] = c]
    /\ UNCHANGED <<appVars, handlerVars, membershipVars>>

------------------------------------------------------------------------------
(* The handlers, as far as they use the AuthContext. *)

Admitted(t, method) == auth[t] # None /\ auth[t].method = method

Answered(t) == auth' = [auth EXCEPT ![t] = None]

\* The locals come from the request that was authenticated.
ForCaller(t) ==
    /\ req'[t].group_id = auth[t].group_id
    /\ req'[t].sender = auth[t].sender

Begin(t) ==
    /\ \/ Admitted(t, "POST") /\ CreateMessage(t)
       \/ Admitted(t, "PUT") /\ UpdateChecks(t)
       \/ Admitted(t, "DELETE") /\ DeleteChecks(t)
    /\ ForCaller(t)
    /\ UNCHANGED <<auth, membershipVars>>

Continue(t) ==
    /\ HandlerContinues(t)
    /\ IF pc'[t] = "idle" THEN Answered(t) ELSE UNCHANGED auth
    /\ UNCHANGED membershipVars

\* The handler answers with an error before it reaches storage.
Refuse(t) ==
    /\ auth[t] # None
    /\ pc[t] = "idle"
    /\ Answered(t)
    /\ UNCHANGED <<appVars, handlerVars, membershipVars>>

\* Fault: a message asked for by id is returned from whatever group.
Readable_ById(t) ==
    {{i} : i \in Stored} \cup {{i \in Stored : messages[i].group_id = auth[t].group_id}}

\* One message by id, or a page of the group (Paging says which part of it);
\* either way of the group the caller was authorized for.
Readable(t) ==
    LET inGroup == {i \in Stored : messages[i].group_id = auth[t].group_id}
    IN  {{i} : i \in inGroup} \cup {inGroup}

GetMessages(t, returned) ==
    /\ Admitted(t, "GET")
    /\ returned \in Readable(t)
    /\ Answered(t)
    /\ UNCHANGED <<appVars, handlerVars, membershipVars>>

Serve(t) ==
    \/ Authenticate(t)
    \/ Begin(t)
    \/ Continue(t)
    \/ Refuse(t)
    \/ \E returned \in SUBSET MessageIds : GetMessages(t, returned)

Follow == Sync!Next /\ UNCHANGED <<appVars, handlerVars, auth>>

Next == Follow \/ \E t \in Tasks : Serve(t)

Spec == Init /\ [][Next]_vars

------------------------------------------------------------------------------
(* Properties of requests racing with changes of the membership *)

\* The account held that permission on chain after an event the relayer has
\* reached, perhaps only until the next event of the same checkpoint.
WasGiven(group, sender, p) ==
    \E n \in 1..applied : Sync!Holds(Sync!HeldAfter(n), <<group, sender>>, p)

\* A request begins only for an account that holds its permission on chain after
\* the very event the relayer applied last, unless events of the account were
\* missed: once a revocation has been applied no request gets past the middleware
\* any more, in the middle of a checkpoint either (middleware.rs, check 10).
AdmittedByChain ==
    [][\A t \in Tasks : LET c == auth'[t] IN
          auth[t] = None /\ c # None =>
             \/ <<c.group_id, c.sender>> \in missed
             \/ Sync!Holds(Sync!View, <<c.group_id, c.sender>>, required_permission[c.method])]_vars

\* Every stored message was sent by an account that had been given
\* MessagingSender in the message's own group (handlers.rs, create_message
\* takes group and sender from the body the middleware looked at).
SendersWereGivenSend ==
    \A i \in Stored : WasGiven(messages[i].group_id, messages[i].sender, "MessagingSender")

\* A message changes only by a request of its own sender, for its own group, and
\* that account has been given the permission to edit, or to delete, there: the
\* middleware checks the group that is claimed, the handler the message's.
ChangesWereGiven ==
    [][\A i \in Stored : messages'[i] # messages[i] =>
          LET deleted == messages'[i].sync_status = "DeletePending"
          IN  /\ \E t \in Tasks :
                    auth[t] = [method |-> IF deleted THEN "DELETE" ELSE "PUT",
                               group_id |-> messages[i].group_id, sender |-> messages[i].sender]
              /\ WasGiven(messages[i].group_id, messages[i].sender,
                          IF deleted THEN "MessagingDeleter" ELSE "MessagingEditor")]_vars

\* Whatever a GET returns belongs to a group the caller was given
\* MessagingReader in.
ReadsWereGiven ==
    [][\A t \in Tasks, returned \in SUBSET MessageIds : GetMessages(t, returned) =>
          \A i \in returned :
             WasGiven(messages[i].group_id, auth[t].sender, "MessagingReader")]_vars
=============================================================================
