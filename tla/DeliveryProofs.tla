---------------------------- MODULE DeliveryProofs ----------------------------
(***************************************************************************)
(* Proofs about requests that may be repeated, late or wrongly put         *)
(* together, for any number of requests and clients and any width of the   *)
(* timestamps.                                                             *)
(***************************************************************************)
EXTENDS DeliveryInvariant, HandlersProofs

(***************************************************************************)
(* signature.rs, validate_timestamp: what wrapping arithmetic lets pass.   *)
(***************************************************************************)
LEMMA HalfRangeType ==
    HalfRange \in Nat \ {0} /\ request_ttl_seconds \in 0..(HalfRange - 1)
<1>1. HalfRange \in Int
  BY AuthAssumption DEF HalfRange
<1> QED
  BY <1>1, AuthAssumption DEF HalfRange

LEMMA SmallRemainder ==
    ASSUME NEW d \in Nat \ {0}, NEW m \in 0..(d - 1)
    PROVE  m % d = m
OBVIOUS

LEMMA NoWrap ==
    ASSUME NEW n \in i64
    PROVE  Wrap(n) = n
<1> DEFINE d == 2 * HalfRange  m == n + HalfRange
<1>1. n \in Int /\ d \in Nat \ {0} /\ m \in 0..(d - 1)
  BY HalfRangeType DEF i64
<1>2. Wrap(n) = (m % d) - HalfRange
  BY DEF Wrap
<1>3. m % d = m
  <2> HIDE DEF m, d
  <2> QED
    BY <1>1, SmallRemainder
<1> QED
  BY <1>1, <1>2, <1>3, HalfRangeType

\* The difference of two times since 1970 does not wrap, and has an absolute value.
LEMMA TimestampIsFresh ==
    ASSUME NEW r, r.bytes.timestamp \in Timestamps, NEW at \in 0..MaxTime,
           validate_timestamp(r.bytes.timestamp, at)
    PROVE  Fresh(r, at)
<1> DEFINE ts == r.bytes.timestamp  n == at - ts
<1> SUFFICES ASSUME ts >= 0 PROVE WithinTTL(r, at)
  BY DEF Fresh
<1>1. ts \in 0..(HalfRange - 1) /\ at \in 0..(HalfRange - 1)
  <2>1. ts \in (-HalfRange)..(HalfRange - 1)
    BY DeliveryAssumption DEF i64
  <2>2. MaxTime \in Nat /\ MaxTime < HalfRange
    BY DeliveryAssumption, HandlersAssumption
  <2> QED
    BY <2>1, <2>2, HalfRangeType
<1>2. n \in i64 /\ -n \in i64 /\ n \in Int
  BY <1>1, HalfRangeType DEF i64
<1>3. abs(n) <= request_ttl_seconds
  BY <1>2, NoWrap DEF validate_timestamp
<1>4. abs(n) = IF n < 0 THEN -n ELSE n
  BY <1>2, NoWrap DEF abs
<1> QED
  BY <1>1, <1>2, <1>3, <1>4, HalfRangeType DEF WithinTTL

\* middleware.rs, checks 1 to 9: what is known of a request once they passed.
LEMMA AuthenticRequest ==
    ASSUME NEW r \in Request, NEW at \in 0..MaxTime, Authentic(r, None, at)
    PROVE  r.signed /\ r.key = r.bytes.sender /\ Fresh(r, at)
<1>1. r.bytes.timestamp \in Timestamps
  BY DEF Request, Post, Put, Delete, BodyAuthFields, CreateMessageRequest, UpdateMessageRequest
<1>2. validate_timestamp(r.bytes.timestamp, at)
  BY DEF Authentic
<1> QED
  BY <1>1, <1>2, TimestampIsFresh
  DEF Authentic, verify_signature, verify_address_matches_pubkey

(***************************************************************************)
(* The inductive invariant.                                                *)
(***************************************************************************)
LEMMA InitIInv == Init => IInv
<1> SUFFICES ASSUME Init PROVE IInv
  OBVIOUS
<1> QED
  BY NoRequestsInv DEF Init, IInv, ServingTypeOK, ServesAuthentic, OriginTypeOK, NoRequests,
     HandlersInit, AppInit, StorageInit, contains_key

\* Utc::now: a clock that goes on disturbs nothing.
LEMMA ClockKeepsHandlersInv ==
    ASSUME HandlersInv, TimePasses
    PROVE  HandlersInv'
<1>1. /\ UNCHANGED <<messages, group_orders, nonces, notifications, pc, req>>
      /\ now \in Nat /\ now' = now + 1
  BY DEF TimePasses, Tick, handlerVars, HandlersInv, HandlersTypeInv, AppTypeOK, StorageTypeOK
<1>2. HandlersTypeInv'
  BY <1>1 DEF HandlersInv, HandlersTypeInv, AppTypeOK, StorageTypeOK, HandlersTypeOK,
              RequestTypeOK
<1>3. ClientInv'
  BY <1>1, StorageFrame DEF HandlersInv, ClientInv, WriterOwnsMessage, MayChange,
     contains_key, NoncesExact, OrdersUnique
<1>4. StampsPast'
  <2>1. \A i \in Stored : messages[i].updated_at \in Nat
    BY StoredMessage DEF HandlersInv, Message
  <2>2. \A t \in Tasks : pc[t] \in {"create", "insert"} => req[t].created_at \in Nat
    BY DEF HandlersInv, HandlersTypeInv, HandlersTypeOK, RequestTypeOK, Draft
  <2> QED
    BY <1>1, <2>1, <2>2 DEF HandlersInv, StampsPast, Stored, contains_key
<1> QED
  BY <1>2, <1>3, <1>4 DEF HandlersInv

\* What a step does to the handlers: a step of one of them, the clock, or nothing.
LEMMA HandlersMove ==
    ASSUME [Next]_vars
    PROVE  \/ \E t \in Tasks : Continue(t) \/ Begin(t)
           \/ TimePasses
           \/ UNCHANGED <<appVars, handlerVars>>
BY DEF Next, vars, TurnAway, Receive, Refuse

LEMMA HandlersInvStep ==
    ASSUME IInv, [Next]_vars
    PROVE  HandlersInv' /\ now \in Nat /\ now' \in Nat /\ now <= now'
<1>1. CASE \E t \in Tasks : Continue(t) \/ Begin(t)
  <2>1. PICK t \in Tasks : HandlerStep(t)
    BY <1>1 DEF Continue, Begin, HandlerStep
  <2> QED
    BY <2>1, HandlersKeepInv, HandlerEffectOn
    DEF IInv, HandlersInv, HandlersTypeInv, AppTypeOK, StorageTypeOK
<1>2. CASE TimePasses
  BY <1>2, ClockKeepsHandlersInv
  DEF IInv, HandlersInv, HandlersTypeInv, AppTypeOK, StorageTypeOK, TimePasses, Tick
<1>3. CASE UNCHANGED <<appVars, handlerVars>>
  BY <1>3, HandlersFrame
  DEF IInv, HandlersInv, HandlersTypeInv, AppTypeOK, StorageTypeOK, appVars, storageVars
<1> QED
  BY <1>1, <1>2, <1>3, HandlersMove

\* The steps of one task, and what they leave of the others.
TaskStep(t) == TurnAway(t) \/ Receive(t) \/ Begin(t) \/ Continue(t) \/ Refuse(t)

LEMMA OtherTasks ==
    ASSUME IInv, NEW t \in Tasks, TaskStep(t), NEW u \in Tasks \ {t}
    PROVE  pc'[u] = pc[u] /\ req'[u] = req[u] /\ serving'[u] = serving[u]
<1>1. DOMAIN serving = Tasks /\ DOMAIN req = Tasks /\ DOMAIN pc = Tasks
  BY DEF IInv, ServingTypeOK, HandlersInv, HandlersTypeInv, HandlersTypeOK
<1>2. CASE TurnAway(t) \/ Receive(t) \/ Refuse(t)
  BY <1>1, <1>2 DEF TurnAway, Receive, Refuse, Answered, vars, handlerVars
<1>3. CASE Begin(t)
  BY <1>1, <1>3 DEF Begin, CreateMessage, UpdateChecks, DeleteChecks, Goto
<1>4. CASE Continue(t)
  <2>1. serving'[u] = serving[u]
    BY <1>1, <1>4 DEF Continue, Answered
  <2> QED
    BY <1>1, <1>4, <2>1 DEF Continue, HandlerContinues, CreateTakesOrder, CreateInserts,
       CreateRejected, CreateNotifies, UpdateWrites, UpdateRejected, DeleteWrites, Goto
<1> QED
  BY <1>2, <1>3, <1>4 DEF TaskStep

\* What is known of a task: it is free, or serves a request that passed every check.
TaskOK(t) ==
    IF serving[t] = None THEN pc[t] = "idle"
    ELSE LET r == serving[t].request
         IN  /\ r \in Request /\ serving[t].at \in 0..now
             /\ r.signed /\ r.key = r.bytes.sender /\ Fresh(r, serving[t].at) /\ WorksOn(t, r)

LEMMA TasksOK ==
    (\A t \in Tasks : TaskOK(t)) /\ DOMAIN serving = Tasks
    <=> ServingTypeOK /\ ServesAuthentic
BY DEF TaskOK, ServingTypeOK, ServesAuthentic

LEMMA TaskKept ==
    ASSUME NEW u \in Tasks, TaskOK(u), pc'[u] = pc[u], req'[u] = req[u],
           serving'[u] = serving[u], now \in Nat, now' \in Nat, now <= now'
    PROVE  TaskOK(u)'
BY DEF TaskOK, WorksOn, Fresh, WithinTTL

\* handlers.rs: a handler starts with what its request says.
LEMMA BeginStep ==
    ASSUME IInv, NEW t \in Tasks, Begin(t)
    PROVE  TaskOK(t)'
<1> DEFINE r == serving[t].request
<1>1. /\ DOMAIN req = Tasks /\ DOMAIN pc = Tasks /\ now \in Nat
      /\ TaskOK(t) /\ serving[t] # None
  BY TasksOK DEF IInv, HandlersInv, HandlersTypeInv, HandlersTypeOK, AppTypeOK, StorageTypeOK,
                 Begin, Serves
<1>2. serving' = serving /\ req'[t].group_id = r.bytes.group_id /\ req'[t].sender = r.bytes.sender
  BY DEF Begin
<1>3. r \in Request /\ r.signed /\ r.key = r.bytes.sender /\ Fresh(r, serving[t].at)
      /\ serving[t].at \in 0..now
  BY <1>1 DEF TaskOK
<1>4. now' \in Nat /\ now <= now'
  BY <1>1 DEF Begin, CreateMessage, UpdateChecks, DeleteChecks, Tick, appVars, storageVars
<1>5. CASE r.method = "POST" /\ CreateMessage(t) /\ TextAccepted(t)
  <2>1. r \in Post
    BY <1>3, <1>5 DEF Request, Post, Put, Delete
  <2>2. pc'[t] = "create"
    BY <1>1, <1>5 DEF CreateMessage, Goto
  <2>3. r.bytes.text_signed /\ req'[t].content = r.bytes.content /\ req'[t].nonce = r.bytes.nonce
    BY <1>5 DEF TextAccepted, verify_message_signature
  <2> QED
    BY <1>1, <1>2, <1>3, <1>4, <2>1, <2>2, <2>3 DEF TaskOK, WorksOn, Fresh, WithinTTL
<1>6. CASE r.method = "PUT" /\ UpdateChecks(t) /\ TextAccepted(t)
           /\ req'[t].id = r.bytes.message_id
  <2>1. r \in Put
    BY <1>3, <1>6 DEF Request, Post, Put, Delete
  <2>2. pc'[t] = "update"
    BY <1>1, <1>6 DEF UpdateChecks, Goto
  <2>3. r.bytes.text_signed /\ req'[t].content = r.bytes.content /\ req'[t].nonce = r.bytes.nonce
    BY <1>6 DEF TextAccepted, verify_message_signature
  <2> QED
    BY <1>1, <1>2, <1>3, <1>4, <1>6, <2>1, <2>2, <2>3 DEF TaskOK, WorksOn, Fresh, WithinTTL
<1>7. CASE r.method = "DELETE" /\ DeleteChecks(t) /\ req'[t].id = r.path
  <2>1. r \in Delete
    BY <1>3, <1>7 DEF Request, Post, Put, Delete
  <2>2. pc'[t] = "delete"
    BY <1>1, <1>7 DEF DeleteChecks, Goto
  <2> QED
    BY <1>1, <1>2, <1>3, <1>4, <1>7, <2>1, <2>2 DEF TaskOK, WorksOn, Fresh, WithinTTL
<1> QED
  BY <1>5, <1>6, <1>7 DEF Begin, Serves

LEMMA ContinueStep ==
    ASSUME IInv, NEW t \in Tasks, Continue(t)
    PROVE  TaskOK(t)'
<1>1. /\ DOMAIN req = Tasks /\ DOMAIN serving = Tasks /\ TaskOK(t)
      /\ pc \in [Tasks -> {"idle", "create", "insert", "stored", "update", "delete"}]
      /\ pc[t] # "idle"
      /\ (pc[t] = "create" => req[t] \in Draft)
  BY TasksOK DEF IInv, ServingTypeOK, HandlersInv, HandlersTypeInv, HandlersTypeOK,
     RequestTypeOK, Continue, HandlerContinues, CreateTakesOrder, CreateInserts,
     CreateRejected, CreateNotifies, UpdateWrites, UpdateRejected, DeleteWrites
<1>2. now \in Nat /\ now' \in Nat /\ now <= now'
  BY HandlersInvStep DEF Next
<1>3. CASE pc'[t] = "idle"
  BY <1>1, <1>3 DEF Continue, Answered, TaskOK
<1>4. CASE pc'[t] # "idle"
  <2>1. serving' = serving /\ serving[t] # None
    BY <1>1, <1>4 DEF Continue, TaskOK
  <2>2. CASE CreateTakesOrder(t)
    <3>1. /\ pc[t] = "create" /\ pc'[t] = "insert"
          /\ req'[t].group_id = req[t].group_id /\ req'[t].sender = req[t].sender
          /\ req'[t].content = req[t].content /\ req'[t].nonce = req[t].nonce
      BY <1>1, <2>2 DEF CreateTakesOrder, Goto, Draft
    <3> QED
      BY <1>1, <1>2, <2>1, <3>1 DEF TaskOK, WorksOn, Fresh, WithinTTL
  <2>3. CASE CreateInserts(t)
    <3>1. pc[t] = "insert" /\ pc'[t] = "stored"
      BY <1>1, <2>3 DEF CreateInserts, Goto
    <3> QED
      BY <1>1, <1>2, <2>1, <3>1 DEF TaskOK, WorksOn, Fresh, WithinTTL
  <2> QED
    BY <1>1, <1>4, <2>2, <2>3 DEF Continue, HandlerContinues, CreateRejected,
       CreateNotifies, UpdateWrites, UpdateRejected, DeleteWrites, Goto
<1> QED
  BY <1>3, <1>4

LEMMA TaskStepKeeps ==
    ASSUME IInv, NEW t \in Tasks, TaskStep(t)
    PROVE  TaskOK(t)'
<1>1. /\ DOMAIN serving = Tasks /\ TaskOK(t) /\ now \in Nat
  BY TasksOK DEF IInv, ServingTypeOK, HandlersInv, HandlersTypeInv, AppTypeOK, StorageTypeOK
<1>2. CASE TurnAway(t)
  BY <1>1, <1>2, TaskKept DEF TurnAway, vars, appVars, storageVars, handlerVars
<1>3. CASE Receive(t)
  <2>1. PICK r \in Request : /\ Authentic(r, None, now)
                             /\ serving'[t] = [request |-> r, at |-> now]
    BY <1>1, <1>3 DEF Receive
  <2>2. now \in 0..MaxTime /\ pc'[t] = "idle" /\ now' = now
    BY <1>1, <1>3, HandlersAssumption DEF Receive, Accept, appVars, storageVars, handlerVars
  <2>3. r.signed /\ r.key = r.bytes.sender /\ Fresh(r, now)
    BY <2>1, <2>2, AuthenticRequest
  <2> QED
    BY <1>1, <2>1, <2>2, <2>3 DEF TaskOK, WorksOn, Fresh, WithinTTL
<1>4. CASE Refuse(t)
  BY <1>1, <1>4 DEF Refuse, Answered, handlerVars, TaskOK
<1> QED
  BY <1>2, <1>3, <1>4, BeginStep, ContinueStep DEF TaskStep

LEMMA ServingStep ==
    ASSUME IInv, [Next]_vars
    PROVE  ServingTypeOK' /\ ServesAuthentic'
<1>1. now \in Nat /\ now' \in Nat /\ now <= now'
  BY HandlersInvStep
<1>2. DOMAIN serving' = Tasks
  BY DEF IInv, ServingTypeOK, Next, TimePasses, TurnAway, Receive, Begin, Continue, Refuse,
         Answered, vars
<1>3. ASSUME NEW u \in Tasks PROVE TaskOK(u)'
  <2>1. TaskOK(u)
    BY TasksOK DEF IInv
  <2>2. CASE TimePasses \/ UNCHANGED vars
    BY <1>1, <2>1, <2>2, TaskKept DEF TimePasses, vars, handlerVars
  <2>3. ASSUME NEW t \in Tasks, TaskStep(t) PROVE TaskOK(u)'
    BY <1>1, <2>1, <2>3, TaskKept, OtherTasks, TaskStepKeeps
  <2> QED
    BY <2>2, <2>3 DEF Next, TaskStep
<1>4. (\A t \in Tasks : TaskOK(t)') /\ DOMAIN serving' = Tasks
  BY <1>2, <1>3
<1> QED
  BY <1>4 DEF TaskOK, ServingTypeOK, ServesAuthentic

(***************************************************************************)
(* What a handler's step does to a message is what its request asked for.  *)
(***************************************************************************)
AskedBy(t, i) ==
    LET r == serving[t].request
    IN  /\ serving[t] # None /\ r \in Request
        /\ r.signed /\ r.key = messages'[i].sender
        /\ r.bytes.group_id = messages'[i].group_id
        /\ AsksFor(r, i)
        /\ Fresh(r, serving[t].at)

LEMMA CreateIsAsked ==
    ASSUME IInv, NEW t \in Tasks, CreateInserts(t)
    PROVE  /\ req[t].id \in MessageIds /\ ~contains_key(req[t].id)
           /\ messages'[req[t].id] # None
           /\ \A j \in MessageIds \ {req[t].id} : messages'[j] = messages[j]
           /\ serving[t].request \in Post
           /\ AskedBy(t, req[t].id)
<1> DEFINE i == req[t].id  r == serving[t].request
<1>1. /\ pc[t] = "insert" /\ req[t] \in Draft /\ TaskOK(t)
      /\ messages \in [MessageIds -> Message \cup {None}]
      /\ messages' = [messages EXCEPT ![i] = Drafted(req[t])]
      /\ ~contains_key(i)
  BY TasksOK DEF IInv, HandlersInv, HandlersTypeInv, HandlersTypeOK, RequestTypeOK, AppTypeOK,
     StorageTypeOK, CreateInserts, InsertMessage, DuplicateId
<1>2. i \in MessageIds /\ messages'[i] = Drafted(req[t]) /\ Drafted(req[t]) \in Message
      /\ \A j \in MessageIds \ {i} : messages'[j] = messages[j]
  BY <1>1, DraftedType DEF Draft
<1>3. /\ messages'[i].group_id = req[t].group_id /\ messages'[i].sender = req[t].sender
      /\ messages'[i].content = req[t].content /\ messages'[i].nonce = req[t].nonce
  BY <1>1, <1>2, DraftedType
<1>4. /\ serving[t] # None /\ r \in Post /\ r \in Request /\ r.signed /\ r.key = r.bytes.sender
      /\ Fresh(r, serving[t].at) /\ r.bytes.text_signed
      /\ req[t].group_id = r.bytes.group_id /\ req[t].sender = r.bytes.sender
      /\ req[t].content = r.bytes.content /\ req[t].nonce = r.bytes.nonce
  BY <1>1 DEF TaskOK, WorksOn
<1>5. r.method = "POST"
  BY <1>4 DEF Post
<1>6. AsksFor(r, i)
  BY <1>1, <1>3, <1>4, <1>5 DEF AsksFor
<1>7. messages'[i] # None
  BY <1>2, NoneIsNoMessage
<1> QED
  BY <1>1, <1>2, <1>3, <1>4, <1>6, <1>7 DEF AskedBy

LEMMA UpdateIsAsked ==
    ASSUME IInv, NEW t \in Tasks, UpdateWrites(t)
    PROVE  /\ req[t].id \in Stored
           /\ \A j \in MessageIds \ {req[t].id} : messages'[j] = messages[j]
           /\ AskedBy(t, req[t].id)
<1> DEFINE i == req[t].id  r == serving[t].request
           m == update_content(messages[i], req[t].content, req[t].nonce, now)
<1>1. /\ pc[t] = "update" /\ req[t] \in Edit /\ TaskOK(t) /\ now \in Nat
      /\ messages \in [MessageIds -> Message \cup {None}]
      /\ messages' = [messages EXCEPT ![i] = m]
      /\ contains_key(i)
  BY TasksOK DEF IInv, HandlersInv, HandlersTypeInv, HandlersTypeOK, RequestTypeOK, AppTypeOK,
     StorageTypeOK, UpdateWrites, UpdateMessage
<1>2. /\ i \in Stored /\ i \in MessageIds /\ messages[i] \in Message /\ messages'[i] = m
      /\ \A j \in MessageIds \ {i} : messages'[j] = messages[j]
  BY <1>1 DEF Edit, Stored, contains_key
<1>3. /\ m.group_id = messages[i].group_id /\ m.sender = messages[i].sender
      /\ m.content = req[t].content /\ m.nonce = req[t].nonce
  BY <1>1, <1>2, UpdateContentType DEF Edit
<1>4. /\ serving[t] # None /\ r \in Put /\ r \in Request /\ r.bytes.message_id = i /\ r.signed
      /\ r.key = r.bytes.sender /\ Fresh(r, serving[t].at) /\ r.bytes.text_signed
      /\ req[t].group_id = r.bytes.group_id /\ req[t].sender = r.bytes.sender
      /\ req[t].content = r.bytes.content /\ req[t].nonce = r.bytes.nonce
  BY <1>1 DEF TaskOK, WorksOn
<1>5. messages[i].group_id = req[t].group_id /\ messages[i].sender = req[t].sender
  BY <1>1 DEF IInv, HandlersInv, ClientInv, WriterOwnsMessage, MayChange
<1>6. r.method = "PUT"
  BY <1>4 DEF Put
<1>7. AsksFor(r, i)
  BY <1>1, <1>2, <1>3, <1>4, <1>6 DEF AsksFor
<1> QED
  BY <1>2, <1>3, <1>4, <1>5, <1>7 DEF AskedBy

LEMMA DeleteIsAsked ==
    ASSUME IInv, NEW t \in Tasks, DeleteWrites(t)
    PROVE  /\ req[t].id \in Stored
           /\ \A j \in MessageIds \ {req[t].id} : messages'[j] = messages[j]
           /\ AskedBy(t, req[t].id)
<1> DEFINE i == req[t].id  r == serving[t].request
           m == mark_for_deletion(messages[i], now)
<1>1. /\ pc[t] = "delete" /\ req[t] \in Deletion /\ TaskOK(t) /\ now \in Nat
      /\ messages \in [MessageIds -> Message \cup {None}]
      /\ messages' = [messages EXCEPT ![i] = m]
      /\ contains_key(i)
  BY TasksOK DEF IInv, HandlersInv, HandlersTypeInv, HandlersTypeOK, RequestTypeOK, AppTypeOK,
     StorageTypeOK, DeleteWrites, DeleteMessage
<1>2. /\ i \in Stored /\ i \in MessageIds /\ messages[i] \in Message /\ messages'[i] = m
      /\ \A j \in MessageIds \ {i} : messages'[j] = messages[j]
  BY <1>1 DEF Deletion, Stored, contains_key
<1>3. /\ m.group_id = messages[i].group_id /\ m.sender = messages[i].sender
  BY <1>1, <1>2, MarkForDeletionType
<1>4. /\ serving[t] # None /\ r \in Delete /\ r \in Request /\ r.path = i /\ r.signed
      /\ r.key = r.bytes.sender /\ Fresh(r, serving[t].at)
      /\ req[t].group_id = r.bytes.group_id /\ req[t].sender = r.bytes.sender
  BY <1>1 DEF TaskOK, WorksOn
<1>5. messages[i].group_id = req[t].group_id /\ messages[i].sender = req[t].sender
  BY <1>1 DEF IInv, HandlersInv, ClientInv, WriterOwnsMessage, MayChange
<1>6. r.method = "DELETE"
  BY <1>4 DEF Delete
<1>7. AsksFor(r, i)
  BY <1>1, <1>2, <1>4, <1>6 DEF AsksFor
<1> QED
  BY <1>2, <1>3, <1>4, <1>5, <1>7 DEF AskedBy

\* Every other step of a handler leaves the messages alone.
LEMMA OnlyThreeWrite ==
    ASSUME NEW t \in Tasks, HandlerStep(t)
    PROVE  CreateInserts(t) \/ UpdateWrites(t) \/ DeleteWrites(t) \/ UNCHANGED messages
BY DEF HandlerStep, HandlerContinues, CreateMessage, CreateTakesOrder, TakeOrder,
       CreateRejected, RejectInsert, CreateNotifies, UpdateChecks, UpdateRejected,
       RejectUpdate, DeleteChecks, appVars, storageVars

LEMMA MessagesMove ==
    ASSUME [Next]_vars
    PROVE  \/ UNCHANGED messages /\ (UNCHANGED origin \/ \E t \in Tasks : Continue(t))
           \/ \E t \in Tasks : /\ Continue(t)
                               /\ CreateInserts(t) \/ UpdateWrites(t) \/ DeleteWrites(t)
<1>1. CASE TimePasses \/ UNCHANGED vars
  BY <1>1 DEF TimePasses, vars, appVars, storageVars
<1>2. ASSUME NEW t \in Tasks, TurnAway(t) \/ Receive(t) \/ Refuse(t) \/ Begin(t)
      PROVE  UNCHANGED messages /\ UNCHANGED origin
  BY <1>2 DEF TurnAway, Receive, Refuse, Begin, CreateMessage, UpdateChecks, DeleteChecks,
              vars, appVars, storageVars
<1>3. ASSUME NEW t \in Tasks, Continue(t)
      PROVE  CreateInserts(t) \/ UpdateWrites(t) \/ DeleteWrites(t) \/ UNCHANGED messages
  BY <1>3, OnlyThreeWrite DEF Continue, HandlerStep
<1> QED
  BY <1>1, <1>2, <1>3 DEF Next

LEMMA OriginStep ==
    ASSUME IInv, [Next]_vars
    PROVE  OriginTypeOK'
<1> SUFFICES ASSUME NEW i \in MessageIds
             PROVE  IF contains_key(i)' THEN origin'[i] \in CreateMessageRequest ELSE origin'[i] = None
  BY DEF OriginTypeOK
<1>1. IF contains_key(i) THEN origin[i] \in CreateMessageRequest ELSE origin[i] = None
  BY DEF IInv, OriginTypeOK
<1>2. CASE UNCHANGED <<messages, origin>>
  BY <1>1, <1>2 DEF contains_key
<1>3. ASSUME NEW t \in Tasks, Continue(t), messages'[i] = messages[i]
      PROVE  origin'[i] = origin[i]
  BY <1>3 DEF Continue, contains_key
<1>4. ASSUME NEW t \in Tasks, Continue(t), CreateInserts(t)
      PROVE  IF contains_key(i)' THEN origin'[i] \in CreateMessageRequest ELSE origin'[i] = None
  <2>1. CASE i = req[t].id
    <3>1. ~contains_key(i) /\ contains_key(i)' /\ serving[t].request \in Post
      BY <1>4, <2>1, CreateIsAsked DEF contains_key
    <3> QED
      BY <1>4, <3>1 DEF Continue, Post
  <2>2. CASE i # req[t].id
    BY <1>1, <1>3, <1>4, <2>2, CreateIsAsked DEF contains_key
  <2> QED
    BY <2>1, <2>2
<1>5. ASSUME NEW t \in Tasks, Continue(t), UpdateWrites(t) \/ DeleteWrites(t)
      PROVE  IF contains_key(i)' THEN origin'[i] \in CreateMessageRequest ELSE origin'[i] = None
  <2>1. \A j \in MessageIds \ {req[t].id} : messages'[j] = messages[j]
    BY <1>5, UpdateIsAsked, DeleteIsAsked
  <2>2. CASE i # req[t].id
    BY <1>1, <1>3, <1>5, <2>1, <2>2 DEF contains_key
  <2>3. CASE i = req[t].id
    <3>1. contains_key(i)
      BY <1>5, <2>3 DEF UpdateWrites, UpdateMessage, DeleteWrites, DeleteMessage
    <3>2. contains_key(i)'
      <4>1. i \in Stored
        BY <3>1 DEF Stored
      <4> QED
        BY <1>5, <4>1, HandlersKeepIdentity DEF IInv, HandlersInv, Continue, HandlerStep
    <3> QED
      BY <1>1, <1>5, <3>1, <3>2 DEF Continue
  <2> QED
    BY <2>2, <2>3
<1> QED
  BY <1>1, <1>2, <1>3, <1>4, <1>5, MessagesMove DEF contains_key

LEMMA NextIInv ==
    ASSUME IInv, [Next]_vars
    PROVE  IInv'
BY HandlersInvStep, ServingStep, OriginStep DEF IInv

THEOREM Invariant == Spec => []IInv
<1> QED
  BY InitIInv, NextIInv, PTL DEF Spec

(***************************************************************************)
(* The properties of the run.                                              *)
(***************************************************************************)
\* middleware.rs, handlers.rs: requests, handlers and storage have their types.
THEOREM TypeCorrect == Spec => []TypeOK
<1>1. IInv => TypeOK
  BY DEF IInv, TypeOK, HandlersInv, ServingTypeOK, OriginTypeOK
<1> QED
  BY <1>1, Invariant, PTL

\* memory.rs, create_message: a POST delivered twice is stored once, unless an
\* edit has given its nonce free in between.
THEOREM StoredOncePerPost == Spec => []OncePerPost
<1>1. IInv => OncePerPost
  BY DEF IInv, HandlersInv, ClientInv, NoncesExact, NoncesDiffer, OncePerPost
<1> QED
  BY <1>1, Invariant, PTL

\* signature.rs, middleware.rs, handlers.rs: no message appears or changes but by
\* a request whose bytes its own sender signed for its group, let in within the
\* TTL of a timestamp since 1970; a text that it gets was signed with them.
THEOREM ChangesWereSigned == Spec => ChangesAreSigned
<1> DEFINE Change == \A i \in MessageIds : messages'[i] # messages[i] =>
              \E t \in Tasks :
                 /\ serving[t] # None
                 /\ LET r == serving[t].request
                    IN  /\ r.signed /\ r.key = messages'[i].sender
                        /\ r.bytes.group_id = messages'[i].group_id
                        /\ AsksFor(r, i)
                        /\ Fresh(r, serving[t].at)
<1>1. ASSUME IInv, [Next]_vars PROVE Change
  <2> SUFFICES ASSUME NEW i \in MessageIds, messages'[i] # messages[i]
               PROVE  \E t \in Tasks : AskedBy(t, i)
    BY DEF AskedBy
  <2>1. PICK t \in Tasks : CreateInserts(t) \/ UpdateWrites(t) \/ DeleteWrites(t)
    BY <1>1, MessagesMove
  <2>2. i = req[t].id
    BY <1>1, <2>1, CreateIsAsked, UpdateIsAsked, DeleteIsAsked
  <2> QED
    BY <1>1, <2>1, <2>2, CreateIsAsked, UpdateIsAsked, DeleteIsAsked
<1> HIDE DEF Change
<1>2. []IInv /\ [][Next]_vars => [][Change]_vars
  BY <1>1, PTL
<1>3. [][Change]_vars => ChangesAreSigned
  BY DEF Change, ChangesAreSigned
<1> QED
  BY <1>2, <1>3, Invariant, PTL DEF Spec
=============================================================================
