---------------------------- MODULE GatewayProofs ----------------------------
(***************************************************************************)
(* Proofs about requests racing with changes of the membership, for any    *)
(* number of requests, groups and accounts and a chain of any length.      *)
(***************************************************************************)
EXTENDS GatewayInvariant, HandlersProofs

\* What is proved of the membership service, for the service in the gateway.
Cache == INSTANCE MembershipProofs
            WITH Addresses <- Senders, MessagingPermissions <- MessagingPermission

LEMMA CacheAssumptions == Cache!MembershipAssumption /\ Cache!MembershipSyncAssumption
BY GatewayAssumption
DEF Cache!MembershipAssumption, Cache!MembershipSyncAssumption, Cache!ContractPermissions

(***************************************************************************)
(* The two instances of MembershipSync are the same service.               *)
(***************************************************************************)
LEMMA SameChain == Sync!ChainStep <=> Cache!ChainStep
<1>1. \A l : Sync!Execute(l) <=> Cache!Execute(l)
  BY DEF Sync!Execute, Cache!Execute, Sync!syncVars, Cache!syncVars
<1>2. Sync!Accounts = Cache!Accounts /\ Sync!NoMembers = Cache!NoMembers
  BY DEF Sync!NoMembers, Cache!NoMembers, Sync!Accounts, Cache!Accounts
<1>3. \A l : Sync!HeldIn(l) = Cache!HeldIn(l)
  BY <1>2 DEF Sync!HeldIn, Cache!HeldIn
<1>4. Sync!Held = Cache!Held
  BY <1>3 DEF Sync!Held, Cache!Held
<1>5. \A kind, a, perms : Sync!Event(kind, a, perms) = Cache!Event(kind, a, perms)
  BY DEF Sync!Event, Cache!Event
<1>6. \A e, entry : Sync!Effect(e, entry) = Cache!Effect(e, entry)
  BY DEF Sync!Effect, Cache!Effect
<1>7. \A e, held : Sync!Announced(e, held) = Cache!Announced(e, held)
  BY <1>2, <1>6 DEF Sync!Announced, Cache!Announced
<1>8. \A l, e : Sync!Emit(l, e) = Cache!Emit(l, e)
  BY <1>3, <1>7 DEF Sync!Emit, Cache!Emit
<1>9. \A a, perms : Sync!ChainGrants(a, perms) <=> Cache!ChainGrants(a, perms)
  BY <1>1, <1>4, <1>5, <1>8 DEF Sync!ChainGrants, Cache!ChainGrants
<1>10. \A a, perms : Sync!ChainRevokes(a, perms) <=> Cache!ChainRevokes(a, perms)
  BY <1>1, <1>4, <1>5, <1>8 DEF Sync!ChainRevokes, Cache!ChainRevokes
<1>11. \A a : Sync!ChainRemoves(a) <=> Cache!ChainRemoves(a)
  BY <1>1, <1>4, <1>5, <1>8 DEF Sync!ChainRemoves, Cache!ChainRemoves
<1>12. Sync!Checkpoint <=> Cache!Checkpoint
  BY DEF Sync!Checkpoint, Cache!Checkpoint, Sync!syncVars, Cache!syncVars
<1> QED
  BY <1>2, <1>9, <1>10, <1>11, <1>12 DEF Sync!ChainStep, Cache!ChainStep

LEMMA SameStream == Sync!SyncStep <=> Cache!SyncStep
<1>1. /\ Sync!Idle <=> Cache!Idle
      /\ \A k : Sync!AlreadyProcessed(k) <=> Cache!AlreadyProcessed(k)
      /\ \A k : Sync!End(k) = Cache!End(k)
      /\ Sync!chainVars = Cache!chainVars
  BY DEF Sync!Idle, Cache!Idle, Sync!AlreadyProcessed, Cache!AlreadyProcessed,
         Sync!End, Cache!End, Sync!chainVars, Cache!chainVars
<1>2. /\ Sync!Subscribe <=> Cache!Subscribe
      /\ Sync!StreamEnds <=> Cache!StreamEnds
  BY <1>1 DEF Sync!Subscribe, Cache!Subscribe, Sync!StreamEnds, Cache!StreamEnds,
              Sync!chainVars, Cache!chainVars
<1>3. \A k : Sync!Arrives(k) <=> Cache!Arrives(k)
  BY <1>1 DEF Sync!Arrives, Cache!Arrives, Sync!chainVars, Cache!chainVars
<1>4. \A m, n : Sync!Named(m, n) = Cache!Named(m, n)
  BY DEF Sync!Named, Cache!Named
<1>5. Sync!Handle <=> Cache!Handle
  <2>1. \A k : Sync!Skip(k) <=> Cache!Skip(k)
    BY <1>1, <1>3 DEF Sync!Skip, Cache!Skip
  <2>2. \A k : Sync!Process(k) <=> Cache!Process(k)
    BY <1>1, <1>3, <1>4 DEF Sync!Process, Cache!Process
  <2>3. \A k : Sync!PassOver(k) <=> Cache!PassOver(k)
    BY <1>1, <1>3, <1>4 DEF Sync!PassOver, Cache!PassOver
  <2> QED
    BY <2>1, <2>2, <2>3 DEF Sync!Handle, Cache!Handle
<1>6. Sync!ApplyEvent <=> Cache!ApplyEvent
  <2>1. \A e : Sync!apply_event(e) <=> Cache!apply_event(e)
    BY DEF Sync!apply_event, Cache!apply_event, Sync!add_member, Cache!add_member,
           Sync!remove_member, Cache!remove_member,
           Sync!grant_permissions, Cache!grant_permissions,
           Sync!revoke_permissions, Cache!revoke_permissions, Sync!Parsed, Cache!Parsed
  <2> QED
    BY <1>1, <2>1 DEF Sync!ApplyEvent, Cache!ApplyEvent, Sync!chainVars, Cache!chainVars
<1> QED
  BY <1>2, <1>5, <1>6 DEF Sync!SyncStep, Cache!SyncStep

\* Whatever the gateway does, its cache follows the chain as MembershipSync does.
LEMMA ServiceRuns == Spec => Cache!Spec
<1>1. Init => Cache!Init
  BY DEF Init, Sync!Init, Cache!Init, Sync!MembershipInit, Cache!MembershipInit,
         Sync!Accounts, Cache!Accounts
<1>2. ASSUME [Next]_vars PROVE [Cache!Next]_Cache!vars
  <2>1. CASE Follow
    BY <2>1, SameChain, SameStream DEF Follow, Sync!Next, Cache!Next
  <2>2. CASE UNCHANGED membershipVars
    BY <2>2 DEF membershipVars, Cache!vars, Cache!syncVars, Cache!chainVars
  <2>3. ASSUME NEW t \in Tasks, Serve(t) PROVE UNCHANGED membershipVars
    BY <2>3 DEF Serve, Authenticate, Begin, Continue, Refuse, GetMessages
  <2> QED
    BY <1>2, <2>1, <2>2, <2>3 DEF Next, vars
<1> QED
  BY <1>1, <1>2, PTL DEF Spec, Cache!Spec

(***************************************************************************)
(* What the gateway needs of the service: the cache is what the chain says *)
(* where no event was missed, all it permits was held after some event     *)
(* that the service has reached, and those stay on record.                 *)
(***************************************************************************)
CacheOK == Sync!TypeOK /\ Sync!CacheMatchesChain /\ Sync!NoInventedPermission

LEMMA SameState ==
    Cache!TypeOK /\ Cache!CacheMatchesChain /\ Cache!NoInventedPermission => CacheOK
<1>1. Cache!TypeOK => Sync!TypeOK
  BY DEF Sync!TypeOK, Cache!TypeOK, Sync!MembershipTypeOK, Cache!MembershipTypeOK,
         Sync!Record, Cache!Record, Sync!GroupsEvent, Cache!GroupsEvent,
         Sync!Entry, Cache!Entry,
         Sync!Accounts, Cache!Accounts, Sync!ContractPermissions, Cache!ContractPermissions
<1>2. \A n : Sync!HeldAfter(n) = Cache!HeldAfter(n)
  BY DEF Sync!HeldAfter, Cache!HeldAfter, Sync!NoMembers, Cache!NoMembers,
         Sync!Accounts, Cache!Accounts
<1>3. Cache!CacheMatchesChain => Sync!CacheMatchesChain
  BY <1>2 DEF Sync!CacheMatchesChain, Cache!CacheMatchesChain, Sync!View, Cache!View,
              Sync!Cached, Cache!Cached, Sync!Parsed, Cache!Parsed,
              Sync!Accounts, Cache!Accounts
<1>4. Cache!NoInventedPermission => Sync!NoInventedPermission
  BY <1>2 DEF Sync!NoInventedPermission, Cache!NoInventedPermission,
              Sync!has_permission, Cache!has_permission, Sync!Holds, Cache!Holds,
              Sync!Accounts, Cache!Accounts
<1> QED
  BY <1>1, <1>3, <1>4 DEF CacheOK

THEOREM CacheHolds == Spec => []CacheOK
<1>1. Cache!Spec => []Cache!TypeOK
  BY CacheAssumptions, Cache!TypeCorrect
<1>2. Cache!Spec => []Cache!CacheMatchesChain
  BY CacheAssumptions, Cache!CacheFollowsChain
<1>3. Cache!Spec => []Cache!NoInventedPermission
  BY CacheAssumptions, Cache!PermissionsWereHeld
<1> QED
  BY <1>1, <1>2, <1>3, ServiceRuns, SameState, PTL

\* What the service has been told stays on record.
Recorded == [Cache!HistoryKept]_Cache!vars

LEMMA RecordKept == Spec => [][Cache!HistoryKept]_Cache!vars
<1>1. Cache!Spec => [][Cache!HistoryKept]_Cache!vars
  BY CacheAssumptions, Cache!ServiceMovesForward
<1> QED
  BY <1>1, ServiceRuns, PTL

LEMMA GivenStaysGiven ==
    ASSUME Recorded, NEW g, NEW s, NEW p, WasGiven(g, s, p)
    PROVE  WasGiven(g, s, p)'
<1>1. PICK n \in 1..applied : Sync!Holds(Sync!HeldAfter(n), <<g, s>>, p)
  BY DEF WasGiven
<1>2. n \in 1..applied' /\ Sync!HeldAfter(n)' = Sync!HeldAfter(n)
  <2>1. CASE UNCHANGED Cache!vars
    <3>1. applied' = applied /\ ledger' = ledger
      BY <2>1 DEF Cache!vars, Cache!syncVars, Cache!chainVars
    <3> QED
      BY <1>1, <3>1 DEF Sync!HeldAfter
  <2>2. CASE Cache!HistoryKept
    BY <1>1, <2>2 DEF Cache!HistoryKept, Cache!HeldAfter, Cache!NoMembers, Cache!Accounts,
                      Sync!HeldAfter, Sync!NoMembers, Sync!Accounts
  <2> QED
    BY <2>1, <2>2 DEF Recorded
<1> QED
  BY <1>1, <1>2 DEF WasGiven, Sync!Holds

\* middleware.rs: has_permission says yes only for what the chain gave.
LEMMA PermittedWasGiven ==
    ASSUME CacheOK, NEW c \in AuthContext, Permitted(c)
    PROVE  WasGiven(c.group_id, c.sender, required_permission[c.method])
<1>1. /\ <<c.group_id, c.sender>> \in Sync!Accounts
      /\ required_permission[c.method] \in MessagingPermission
  BY DEF AuthContext, Method, required_permission, MessagingPermission, Sync!Accounts
<1> QED
  BY <1>1 DEF CacheOK, Sync!NoInventedPermission, Permitted, WasGiven

(***************************************************************************)
(* The inductive invariant.                                                *)
(***************************************************************************)
LEMMA InitIInv == Init => IInv
<1> SUFFICES ASSUME Init PROVE IInv
  OBVIOUS
<1>1. HandlersInv
  BY NoRequestsInv DEF Init
<1>2. Stored = {}
  BY DEF Init, NoRequests, AppInit, StorageInit, Stored, contains_key
<1> QED
  BY <1>1, <1>2 DEF IInv, CallersWereGiven, HandlersServeCallers, SendersWereGivenSend,
                    Init, NoRequests, HandlersInit

\* What a step does to the handlers: a step of one of them, or nothing.
LEMMA HandlersMove ==
    ASSUME [Next]_vars
    PROVE  (\E t \in Tasks : HandlerStep(t)) \/ UNCHANGED <<appVars, handlerVars>>
<1>1. CASE Follow \/ UNCHANGED vars
  BY <1>1 DEF Follow, vars
<1>2. ASSUME NEW t \in Tasks, Serve(t)
      PROVE  HandlerStep(t) \/ UNCHANGED <<appVars, handlerVars>>
  BY <1>2 DEF Serve, Authenticate, Begin, Continue, Refuse, GetMessages, HandlerStep
<1> QED
  BY <1>1, <1>2 DEF Next

\* middleware.rs: the AuthContext of a request is set once, from what the
\* cache permits, and gone with the request.
LEMMA AuthStep ==
    ASSUME IInv, [Next]_vars, NEW u \in Tasks
    PROVE  \/ auth'[u] = auth[u]
           \/ auth'[u] = None /\ pc'[u] = "idle"
           \/ \E c \in AuthContext : auth'[u] = c /\ Permitted(c) /\ pc'[u] = "idle"
<1>1. CASE Follow \/ UNCHANGED vars
  BY <1>1 DEF Follow, vars
<1>2. ASSUME NEW t \in Tasks, Serve(t)
      PROVE  \/ auth'[u] = auth[u]
             \/ auth'[u] = None /\ pc'[u] = "idle"
             \/ \E c \in AuthContext : auth'[u] = c /\ Permitted(c) /\ pc'[u] = "idle"
  <2>1. DOMAIN auth = Tasks
    BY DEF IInv
  <2>2. CASE Authenticate(t)
    BY <2>1, <2>2 DEF Authenticate, Accept, handlerVars
  <2>3. CASE Begin(t)
    BY <2>3 DEF Begin
  <2>4. CASE Continue(t)
    BY <2>1, <2>4 DEF Continue, Answered
  <2>5. CASE Refuse(t)
    BY <2>1, <2>5 DEF Refuse, Answered, handlerVars
  <2>6. CASE \E returned \in SUBSET MessageIds : GetMessages(t, returned)
    <3>1. Answered(t) /\ pc' = pc /\ auth[t].method = "GET" /\ auth[t] # None
      BY <2>6 DEF GetMessages, Admitted, handlerVars
    <3>2. pc[t] = "idle"
      BY <3>1 DEF IInv, HandlersServeCallers, HandlersInv, HandlersTypeInv, HandlersTypeOK
    <3> QED
      BY <2>1, <3>1, <3>2 DEF Answered
  <2> QED
    BY <1>2, <2>2, <2>3, <2>4, <2>5, <2>6 DEF Serve
<1> QED
  BY <1>1, <1>2 DEF Next

LEMMA AuthTypeStep ==
    ASSUME IInv, [Next]_vars
    PROVE  auth' \in [Tasks -> AuthContext \cup {None}]
<1>1. CASE Follow \/ UNCHANGED vars
  BY <1>1 DEF Follow, vars, IInv
<1>2. ASSUME NEW t \in Tasks, Serve(t)
      PROVE  auth' \in [Tasks -> AuthContext \cup {None}]
  BY <1>2 DEF IInv, Serve, Authenticate, Begin, Continue, Refuse, GetMessages, Answered
<1> QED
  BY <1>1, <1>2 DEF Next

LEMMA CallersStep ==
    ASSUME IInv, CacheOK, Recorded, [Next]_vars
    PROVE  CallersWereGiven'
<1> SUFFICES ASSUME NEW u \in Tasks, auth'[u] # None
             PROVE  WasGiven(auth[u].group_id, auth[u].sender,
                             required_permission[auth[u].method])'
  BY DEF CallersWereGiven
<1>1. PICK c : c = auth'[u]
  OBVIOUS
<1>2. WasGiven(c.group_id, c.sender, required_permission[c.method])
  BY <1>1, AuthStep, PermittedWasGiven DEF IInv, CallersWereGiven
<1>3. PICK p : p = required_permission[c.method]
  OBVIOUS
<1>4. WasGiven(c.group_id, c.sender, p)'
  BY <1>2, <1>3, GivenStaysGiven
<1> QED
  BY <1>1, <1>3, <1>4 DEF WasGiven, required_permission

\* handlers.rs: the handler's locals are those of the request let through.
LEMMA ServeStep ==
    ASSUME IInv, [Next]_vars
    PROVE  HandlersServeCallers'
<1> SUFFICES ASSUME NEW u \in Tasks PROVE
        /\ pc'[u] # "idle" => auth'[u] # None
        /\ pc'[u] \in {"create", "insert", "stored"} => auth'[u].method = "POST"
        /\ pc'[u] = "update" => auth'[u].method = "PUT"
        /\ pc'[u] = "delete" => auth'[u].method = "DELETE"
        /\ pc'[u] \in {"create", "insert", "update", "delete"} =>
              req'[u].group_id = auth'[u].group_id /\ req'[u].sender = auth'[u].sender
  BY DEF HandlersServeCallers
<1>1. CASE pc'[u] = "idle"
  BY <1>1
<1>2. CASE pc'[u] # "idle" /\ pc'[u] = pc[u] /\ req'[u] = req[u]
  <2>1. auth'[u] = auth[u]
    BY <1>2, AuthStep
  <2> QED
    BY <1>2, <2>1 DEF IInv, HandlersServeCallers
<1>3. ASSUME Begin(u), pc'[u] # "idle" PROVE
        /\ auth'[u] = auth[u] /\ auth[u] # None
        /\ req'[u].group_id = auth[u].group_id /\ req'[u].sender = auth[u].sender
        /\ \/ pc'[u] = "create" /\ auth[u].method = "POST"
           \/ pc'[u] = "update" /\ auth[u].method = "PUT"
           \/ pc'[u] = "delete" /\ auth[u].method = "DELETE"
  BY <1>3 DEF Begin, Admitted, ForCaller, CreateMessage, UpdateChecks, DeleteChecks, Goto,
              IInv, HandlersInv, HandlersTypeInv, HandlersTypeOK
<1>4. ASSUME Continue(u), pc'[u] # "idle" PROVE
        /\ auth'[u] = auth[u] /\ pc[u] # "idle"
        /\ \/ pc[u] = "insert" /\ pc'[u] = "stored"
           \/ /\ pc[u] = "create" /\ pc'[u] = "insert"
              /\ req'[u].group_id = req[u].group_id /\ req'[u].sender = req[u].sender
  <2>1. pc \in [Tasks -> {"idle", "create", "insert", "stored", "update", "delete"}]
        /\ DOMAIN req = Tasks /\ (pc[u] = "create" => req[u] \in Draft)
    BY DEF IInv, HandlersInv, HandlersTypeInv, HandlersTypeOK, RequestTypeOK
  <2>2. HandlerContinues(u) /\ auth' = auth
    BY <1>4 DEF Continue
  <2>3. CASE CreateTakesOrder(u)
    BY <2>1, <2>2, <2>3 DEF CreateTakesOrder, Goto, Draft
  <2>4. CASE CreateInserts(u)
    BY <2>1, <2>2, <2>4 DEF CreateInserts, Goto
  <2> QED
    BY <1>4, <2>1, <2>2, <2>3, <2>4 DEF HandlerContinues, CreateRejected, CreateNotifies,
       UpdateWrites, UpdateRejected, DeleteWrites, Goto
<1>5. CASE Follow \/ UNCHANGED vars
  BY <1>1, <1>2, <1>5 DEF Follow, vars, handlerVars
<1>6. ASSUME NEW t \in Tasks, Serve(t), t # u
      PROVE  pc'[u] = pc[u] /\ req'[u] = req[u]
  BY <1>6 DEF Serve, Authenticate, Begin, Continue, Refuse, GetMessages, handlerVars,
     HandlerContinues, CreateMessage, CreateTakesOrder, CreateInserts, CreateRejected,
     CreateNotifies, UpdateChecks, UpdateWrites, UpdateRejected, DeleteChecks, DeleteWrites,
     Goto, IInv, HandlersInv, HandlersTypeInv, HandlersTypeOK
<1>7. ASSUME Serve(u), ~Begin(u), ~Continue(u)
      PROVE  pc'[u] = pc[u] /\ req'[u] = req[u]
  BY <1>7 DEF Serve, Authenticate, Refuse, GetMessages, handlerVars
<1>8. CASE Continue(u)
  BY <1>1, <1>4, <1>8 DEF IInv, HandlersServeCallers
<1> QED
  BY <1>1, <1>2, <1>3, <1>5, <1>6, <1>7, <1>8 DEF Next

\* handlers.rs, create_message: a message stored in this step is the draft of a
\* POST that was let through, with its group and its sender.
LEMMA NewMessageOfCaller ==
    ASSUME IInv, NEW t \in Tasks, HandlerStep(t), NEW i \in MessageIds, Created(i)
    PROVE  \E u \in Tasks :
              /\ auth[u] # None /\ auth[u].method = "POST"
              /\ messages'[i].group_id = auth[u].group_id
              /\ messages'[i].sender = auth[u].sender
<1> USE DEF HandlersInv, HandlersTypeInv, HandlersTypeOK, RequestTypeOK, AppTypeOK,
            StorageTypeOK
<1>1. messages'[i] # messages[i] /\ messages[i] = None
  BY NoneIsNoMessage DEF Created
<1>2. CreateInserts(t)
  BY <1>1, NoneIsNoMessage
  DEF IInv, HandlerStep, HandlerContinues, CreateMessage, CreateTakesOrder, TakeOrder,
      CreateRejected, RejectInsert, CreateNotifies, UpdateChecks, UpdateWrites,
      UpdateMessage, contains_key, UpdateRejected, RejectUpdate, DeleteChecks,
      DeleteWrites, DeleteMessage, appVars, storageVars
<1>3. /\ req[t] \in Draft /\ pc[t] = "insert" /\ req[t].id \in MessageIds
      /\ messages' = [messages EXCEPT ![req[t].id] = Drafted(req[t])]
  BY <1>2 DEF IInv, CreateInserts, InsertMessage, Draft
<1>4. messages'[i] = Drafted(req[t])
  BY <1>1, <1>3 DEF IInv
<1>5. messages'[i].group_id = req[t].group_id /\ messages'[i].sender = req[t].sender
  BY <1>3, <1>4, DraftedType
<1> QED
  BY <1>3, <1>5 DEF IInv, HandlersServeCallers

LEMMA SendersStep ==
    ASSUME IInv, Recorded, [Next]_vars
    PROVE  SendersWereGivenSend'
<1> SUFFICES ASSUME NEW i \in Stored'
             PROVE  WasGiven(messages[i].group_id, messages[i].sender, "MessagingSender")'
  BY DEF SendersWereGivenSend
<1>1. i \in MessageIds /\ messages'[i] # None
  BY DEF Stored, contains_key
<1>2. PICK g, s : g = messages'[i].group_id /\ s = messages'[i].sender
  OBVIOUS
<1>3. CASE UNCHANGED messages
  <2>1. i \in Stored
    BY <1>1, <1>3 DEF Stored, contains_key
  <2>2. WasGiven(g, s, "MessagingSender")
    BY <1>2, <1>3, <2>1 DEF IInv, SendersWereGivenSend
  <2>3. WasGiven(g, s, "MessagingSender")'
    BY <2>2, GivenStaysGiven
  <2> QED
    BY <1>2, <2>3 DEF WasGiven
<1>4. ASSUME NEW t \in Tasks, HandlerStep(t)
      PROVE  WasGiven(g, s, "MessagingSender")
  <2>1. CASE i \in Stored
    BY <1>2, <1>4, <2>1, HandlersKeepIdentity
    DEF IInv, HandlersInv, SendersWereGivenSend, SameIdentity
  <2>2. CASE i \notin Stored
    <3>1. Created(i)
      BY <1>1, <1>4, <2>2, HandlerEffectOn DEF IInv, HandlersInv
    <3>2. PICK u \in Tasks : /\ auth[u] # None /\ auth[u].method = "POST"
                             /\ g = auth[u].group_id /\ s = auth[u].sender
      BY <1>1, <1>2, <1>4, <3>1, NewMessageOfCaller
    <3> QED
      BY <3>2 DEF IInv, CallersWereGiven, required_permission
  <2> QED
    BY <2>1, <2>2
<1>5. CASE \E t \in Tasks : HandlerStep(t)
  <2>1. WasGiven(g, s, "MessagingSender")'
    BY <1>4, <1>5, GivenStaysGiven
  <2> QED
    BY <1>2, <2>1 DEF WasGiven
<1> QED
  BY <1>3, <1>5, HandlersMove DEF appVars, storageVars

LEMMA NextIInv ==
    ASSUME IInv, CacheOK, Recorded, [Next]_vars
    PROVE  IInv'
<1>1. HandlersInv'
  BY HandlersMove, HandlersKeepInv, HandlersFrame DEF IInv
<1> QED
  BY <1>1, AuthTypeStep, CallersStep, ServeStep, SendersStep DEF IInv

THEOREM Invariant == Spec => []IInv
<1>1. IInv /\ CacheOK /\ [Cache!HistoryKept]_Cache!vars /\ [Next]_vars => IInv'
  BY NextIInv DEF Recorded
<1> QED
  BY <1>1, InitIInv, CacheHolds, RecordKept, PTL DEF Spec

(***************************************************************************)
(* The properties of the runs.                                             *)
(***************************************************************************)
\* middleware.rs, handlers.rs: requests, storage and cache have their types.
THEOREM TypeCorrect == Spec => []TypeOK
<1>1. IInv /\ CacheOK => TypeOK
  BY DEF IInv, CacheOK, TypeOK, HandlersInv, HandlersServeCallers
<1> QED
  BY <1>1, Invariant, CacheHolds, PTL

\* create_message: every stored message is from an account that had been given
\* MessagingSender in the message's own group.
THEOREM SendersWereGiven == Spec => []SendersWereGivenSend
<1>1. IInv => SendersWereGivenSend
  BY DEF IInv
<1> QED
  BY <1>1, Invariant, PTL

\* handlers.rs: which step writes a stored message, and for whom.
LEMMA WriterOfMessage ==
    ASSUME IInv, NEW i \in Stored, messages'[i] # messages[i],
           NEW t \in Tasks, HandlerStep(t)
    PROVE  /\ auth[t] # None
           /\ messages[i].group_id = auth[t].group_id
           /\ messages[i].sender = auth[t].sender
           /\ \/ auth[t].method = "PUT" /\ messages'[i].sync_status = "UpdatePending"
              \/ auth[t].method = "DELETE" /\ messages'[i].sync_status = "DeletePending"
<1> USE DEF HandlersInv, HandlersTypeInv, HandlersTypeOK, RequestTypeOK, AppTypeOK,
            StorageTypeOK
<1>1. i \in MessageIds /\ messages[i] \in Message /\ messages[i] # None
  BY StoredMessage, NoneIsNoMessage DEF IInv
<1>2. UpdateWrites(t) \/ DeleteWrites(t)
  <2>1. CASE CreateInserts(t)
    <3>1. /\ req[t].id # i
          /\ messages' = [messages EXCEPT ![req[t].id] = Drafted(req[t])]
      BY <1>1, <2>1 DEF CreateInserts, InsertMessage, DuplicateId, contains_key
    <3> QED
      BY <1>1, <3>1 DEF IInv
  <2> QED
    BY <1>1, <2>1
    DEF HandlerStep, HandlerContinues, CreateMessage, CreateTakesOrder, TakeOrder,
        CreateRejected, RejectInsert, CreateNotifies, UpdateChecks, UpdateRejected,
        RejectUpdate, DeleteChecks, appVars, storageVars
<1>3. CASE UpdateWrites(t)
  <2>1. /\ pc[t] = "update" /\ req[t] \in Edit /\ req[t].id = i /\ now \in Nat
        /\ messages'[i] = update_content(messages[i], req[t].content, req[t].nonce, now)
    BY <1>1, <1>3 DEF IInv, UpdateWrites, UpdateMessage, Edit
  <2>2. messages'[i].sync_status = "UpdatePending"
    BY <1>1, <2>1, UpdateContentType DEF Edit
  <2>3. messages[i].group_id = req[t].group_id /\ messages[i].sender = req[t].sender
    BY <2>1 DEF IInv, ClientInv, WriterOwnsMessage, MayChange
  <2> QED
    BY <2>1, <2>2, <2>3 DEF IInv, HandlersServeCallers
<1>4. CASE DeleteWrites(t)
  <2>1. /\ pc[t] = "delete" /\ req[t].id = i /\ now \in Nat
        /\ messages'[i] = mark_for_deletion(messages[i], now)
    BY <1>1, <1>4 DEF IInv, DeleteWrites, DeleteMessage, Deletion
  <2>2. messages'[i].sync_status = "DeletePending"
    BY <1>1, <2>1, MarkForDeletionType
  <2>3. messages[i].group_id = req[t].group_id /\ messages[i].sender = req[t].sender
    BY <2>1 DEF IInv, ClientInv, WriterOwnsMessage, MayChange
  <2> QED
    BY <2>1, <2>2, <2>3 DEF IInv, HandlersServeCallers
<1> QED
  BY <1>2, <1>3, <1>4

\* middleware.rs: a request begins only for an account that holds its permission
\* on chain after the event applied last, unless events of it were missed.
THEOREM AdmittedAsChainSays == Spec => AdmittedByChain
<1> DEFINE Admits == \A t \in Tasks : LET c == auth'[t] IN
              auth[t] = None /\ c # None =>
                 \/ <<c.group_id, c.sender>> \in missed
                 \/ Sync!Holds(Sync!View, <<c.group_id, c.sender>>, required_permission[c.method])
<1>1. ASSUME IInv, CacheOK, [Next]_vars PROVE Admits
  <2> SUFFICES ASSUME NEW t \in Tasks, auth[t] = None, NEW c, c = auth'[t], c # None,
                      <<c.group_id, c.sender>> \notin missed
               PROVE  Sync!Holds(Sync!View, <<c.group_id, c.sender>>,
                                 required_permission[c.method])
    OBVIOUS
  <2>1. c \in AuthContext /\ Permitted(c)
    BY <1>1, AuthStep
  <2>2. <<c.group_id, c.sender>> \in Sync!Accounts
    BY <2>1 DEF AuthContext, Sync!Accounts
  <2>3. PICK a \in Sync!Accounts : a = <<c.group_id, c.sender>>
    BY <2>2
  <2>4. PICK p : p = required_permission[c.method]
    OBVIOUS
  <2>5. members[a] # None /\ p \in members[a]
    BY <2>1, <2>3, <2>4 DEF Permitted, Sync!has_permission
  <2>6. members[a] = Sync!Cached(Sync!View[a])
    BY <1>1, <2>3 DEF CacheOK, Sync!CacheMatchesChain
  <2>7. Sync!View[a] # None /\ p \in Sync!View[a]
    BY <2>5, <2>6 DEF Sync!Cached, Sync!Parsed
  <2> QED
    BY <2>3, <2>4, <2>7 DEF Sync!Holds
<1> HIDE DEF Admits
<1>2. []IInv /\ []CacheOK /\ [][Next]_vars => [][Admits]_vars
  BY <1>1, PTL
<1>3. [][Admits]_vars => AdmittedByChain
  BY DEF Admits, AdmittedByChain
<1> QED
  BY <1>2, <1>3, Invariant, CacheHolds, PTL DEF Spec

\* What ChangesWereGiven says of a step.
ChangeWasGiven(i) ==
    LET deleted == messages'[i].sync_status = "DeletePending"
    IN  /\ \E t \in Tasks :
              auth[t] = [method |-> IF deleted THEN "DELETE" ELSE "PUT",
                         group_id |-> messages[i].group_id, sender |-> messages[i].sender]
        /\ WasGiven(messages[i].group_id, messages[i].sender,
                    IF deleted THEN "MessagingDeleter" ELSE "MessagingEditor")

\* update_message, delete_message: a message changes only by a request of its
\* sender, who had been given the permission for the method in its group.
THEOREM ChangersWereGiven == Spec => ChangesWereGiven
<1> DEFINE Change == \A i \in Stored : messages'[i] # messages[i] => ChangeWasGiven(i)
<1>1. ASSUME IInv, [Next]_vars PROVE Change
  <2> SUFFICES ASSUME NEW i \in Stored, messages'[i] # messages[i]
               PROVE  ChangeWasGiven(i)
    OBVIOUS
  <2>1. PICK t \in Tasks : HandlerStep(t)
    BY <1>1, HandlersMove DEF appVars, storageVars
  <2>2. /\ auth[t] # None
        /\ messages[i].group_id = auth[t].group_id
        /\ messages[i].sender = auth[t].sender
        /\ \/ auth[t].method = "PUT" /\ messages'[i].sync_status = "UpdatePending"
           \/ auth[t].method = "DELETE" /\ messages'[i].sync_status = "DeletePending"
    BY <1>1, <2>1, WriterOfMessage
  <2>3. WasGiven(messages[i].group_id, messages[i].sender, required_permission[auth[t].method])
    BY <1>1, <2>2 DEF IInv, CallersWereGiven
  <2>4. auth[t] \in AuthContext
    BY <1>1, <2>2 DEF IInv
  <2>5. auth[t] = [method |-> auth[t].method, group_id |-> messages[i].group_id,
                   sender |-> messages[i].sender]
    BY <2>2, <2>4 DEF AuthContext
  <2>6. CASE auth[t].method = "PUT" /\ messages'[i].sync_status = "UpdatePending"
    BY <2>3, <2>5, <2>6 DEF ChangeWasGiven, required_permission
  <2>7. CASE auth[t].method = "DELETE" /\ messages'[i].sync_status = "DeletePending"
    BY <2>3, <2>5, <2>7 DEF ChangeWasGiven, required_permission
  <2> QED
    BY <2>2, <2>6, <2>7
<1> HIDE DEF Change
<1>2. []IInv /\ [][Next]_vars => [][Change]_vars
  BY <1>1, PTL
<1>3. [][Change]_vars => ChangesWereGiven
  BY DEF Change, ChangesWereGiven, ChangeWasGiven
<1> QED
  BY <1>2, <1>3, Invariant, PTL DEF Spec

\* get_messages: what is returned is of a group the caller had been given
\* MessagingReader in.
THEOREM ReadersWereGiven == Spec => ReadsWereGiven
<1> DEFINE Read == \A t \in Tasks, returned \in SUBSET MessageIds :
              GetMessages(t, returned) =>
                 \A i \in returned :
                    WasGiven(messages[i].group_id, auth[t].sender, "MessagingReader")
<1>1. ASSUME IInv PROVE Read
  <2> SUFFICES ASSUME NEW t \in Tasks, NEW returned \in SUBSET MessageIds,
                      GetMessages(t, returned), NEW i \in returned
               PROVE  WasGiven(messages[i].group_id, auth[t].sender, "MessagingReader")
    OBVIOUS
  <2>1. auth[t] # None /\ auth[t].method = "GET" /\ messages[i].group_id = auth[t].group_id
    BY DEF GetMessages, Admitted, Readable
  <2> QED
    BY <1>1, <2>1 DEF IInv, CallersWereGiven, required_permission
<1> HIDE DEF Read
<1>2. []IInv /\ [][Next]_vars => [][Read]_vars
  BY <1>1, PTL
<1>3. [][Read]_vars => ReadsWereGiven
  BY DEF Read, ReadsWereGiven
<1> QED
  BY <1>2, <1>3, Invariant, PTL DEF Spec
=============================================================================
