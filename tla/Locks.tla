-------------------------------- MODULE Locks --------------------------------
(***************************************************************************)
(* InMemoryStorage statement by statement: every call takes and releases   *)
(* the three RwLocks itself, and the maps change one by one.  The other    *)
(* modules take each critical section for one step; this one shows that    *)
(* they may, and that the calls never wait for each other in a circle      *)
(* (memory.rs: "always acquire `messages` before `nonces`").               *)
(*                                                                         *)
(* A guard lives until its function returns, and guards are dropped in the *)
(* reverse order of their creation.                                        *)
(***************************************************************************)
EXTENDS Storage, Sequences

CONSTANTS
    Threads,    \* the threads that call the storage at the same time
    MaxTime     \* bound: no writing call starts once the clock has reached it

ASSUME LocksAssumption == MaxTime \in Nat

VARIABLES
    pc,     \* thread -> the statement it executes next
    call,   \* thread -> the arguments and locals of its call, or None
    held    \* thread -> its guards, oldest first

callVars == <<pc, call, held>>

vars == <<storageVars, callVars>>

Guard(lock, mode) == [lock |-> lock, mode |-> mode]

Guards == {Guard(l, m) : l \in {"messages", "group_orders", "nonces"},
                         m \in {"read", "write"}}

\* Fault: two calls may work on the order counters at the same time.
GuardAt_SharedOrders ==
    [c_orders |-> Guard("group_orders", "read"),
     c_messages |-> Guard("messages", "write"), c_nonces |-> Guard("nonces", "write"),
     u_messages |-> Guard("messages", "write"), u_nonces |-> Guard("nonces", "write"),
     d_messages |-> Guard("messages", "write"),
     s_messages |-> Guard("messages", "write"),
     r_messages |-> Guard("messages", "read")]

\* Fault: create_message takes its locks in the opposite order.
GuardAt_NoncesFirst ==
    [c_orders |-> Guard("group_orders", "write"),
     c_messages |-> Guard("nonces", "write"), c_nonces |-> Guard("messages", "write"),
     u_messages |-> Guard("messages", "write"), u_nonces |-> Guard("nonces", "write"),
     d_messages |-> Guard("messages", "write"),
     s_messages |-> Guard("messages", "write"),
     r_messages |-> Guard("messages", "read")]

\* The statements that take a lock, and the guard each of them creates.  The
\* first letter tells the call: create, update, delete, set status, read.
GuardAt ==
    [c_orders |-> Guard("group_orders", "write"),
     c_messages |-> Guard("messages", "write"), c_nonces |-> Guard("nonces", "write"),
     u_messages |-> Guard("messages", "write"), u_nonces |-> Guard("nonces", "write"),
     d_messages |-> Guard("messages", "write"),
     s_messages |-> Guard("messages", "write"),
     r_messages |-> Guard("messages", "read")]

\* What follows it.
Locked ==
    [c_orders |-> "c_next", c_messages |-> "c_id", c_nonces |-> "c_nonce",
     u_messages |-> "u_id", u_nonces |-> "u_nonce",
     d_messages |-> "d_mark", s_messages |-> "s_set", r_messages |-> "return"]

Statements ==
    {"idle", "return", "c_store", "c_insert", "u_add", "u_write"}
        \cup DOMAIN GuardAt \cup {Locked[p] : p \in DOMAIN Locked}

\* What the calls know: a create its draft (order 0 until next_order), the
\* others their arguments.
Create == [id : MessageIds, group_id : Groups, sender : Senders, content : Contents,
           nonce : Nonces, created_at : Nat, order : Nat]

Update == [id : MessageIds, content : Contents, nonce : Nonces]

Delete == [id : MessageIds]

SetStatus == [id : MessageIds, sync_status : SyncStatus \ PendingStatus]

CallTypeOK(t) ==
    /\ pc[t] \in {"c_orders", "c_next", "c_store", "c_messages", "c_id", "c_nonces",
                   "c_nonce", "c_insert"} => call[t] \in Create
    /\ pc[t] \in {"u_messages", "u_id", "u_nonces", "u_nonce", "u_add", "u_write"} =>
          call[t] \in Update
    /\ pc[t] \in {"d_messages", "d_mark"} => call[t] \in Delete
    /\ pc[t] \in {"s_messages", "s_set"} => call[t] \in SetStatus
    /\ pc[t] = "idle" => call[t] = None /\ held[t] = <<>>

TypeOK ==
    /\ StorageTypeOK
    /\ pc \in [Threads -> Statements]
    /\ DOMAIN call = Threads
    /\ held \in [Threads -> Seq(Guards)]
    /\ \A t \in Threads : CallTypeOK(t)

Init ==
    /\ StorageInit
    /\ pc = [t \in Threads |-> "idle"]
    /\ call = [t \in Threads |-> None]
    /\ held = [t \in Threads |-> <<>>]

------------------------------------------------------------------------------
(* Locks *)

Holds(t, guard) == \E k \in 1..Len(held[t]) : held[t][k] = guard

\* RwLock: many readers or one writer.
Conflict(g, h) == g.lock = h.lock /\ (g.mode = "write" \/ h.mode = "write")

Goto(t, next) == pc' = [pc EXCEPT ![t] = next]

Acquire(t) ==
    /\ pc[t] \in DOMAIN GuardAt
    /\ \A u \in Threads : \A h \in Guards : Holds(u, h) => ~Conflict(GuardAt[pc[t]], h)
    /\ held' = [held EXCEPT ![t] = Append(@, GuardAt[pc[t]])]
    /\ Goto(t, Locked[pc[t]])
    /\ UNCHANGED <<storageVars, call>>

\* Fault: only the youngest guard is dropped, the other one is leaked.
Return_LeaksGuard(t) ==
    /\ pc[t] = "return"
    /\ held' = [held EXCEPT ![t] = SubSeq(@, 1, Len(@) - 1)]
    /\ Goto(t, "idle")
    /\ call' = [call EXCEPT ![t] = None]
    /\ UNCHANGED storageVars

\* The youngest guard is dropped; with none left the call is over.
Return(t) ==
    /\ pc[t] = "return"
    /\ held' = [held EXCEPT ![t] = SubSeq(@, 1, Len(@) - 1)]
    /\ IF Len(held[t]) = 1
       THEN Goto(t, "idle") /\ call' = [call EXCEPT ![t] = None]
       ELSE UNCHANGED <<pc, call>>
    /\ UNCHANGED storageVars

------------------------------------------------------------------------------
(* The calls *)

Begin(t, first, arguments) ==
    /\ pc[t] = "idle"
    /\ Goto(t, first)
    /\ call' = [call EXCEPT ![t] = arguments]
    /\ UNCHANGED held

\* Message::new has taken its stamp when create_message is called.
BeginCreate(t) ==
    /\ now < MaxTime
    /\ \E i \in MessageIds, g \in Groups, s \in Senders, c \in Contents, n \in Nonces :
          Begin(t, "c_orders", [id |-> i, group_id |-> g, sender |-> s, content |-> c,
                                nonce |-> n, created_at |-> now, order |-> 0])
    /\ Tick
    /\ UNCHANGED <<messages, group_orders, nonces>>

BeginUpdate(t) ==
    /\ now < MaxTime
    /\ \E i \in MessageIds, c \in Contents, n \in Nonces :
          Begin(t, "u_messages", [id |-> i, content |-> c, nonce |-> n])
    /\ UNCHANGED storageVars

BeginDelete(t) ==
    /\ now < MaxTime
    /\ \E i \in MessageIds : Begin(t, "d_messages", [id |-> i])
    /\ UNCHANGED storageVars

BeginSetStatus(t) ==
    /\ now < MaxTime
    /\ \E i \in MessageIds, status \in SyncStatus \ PendingStatus :
          Begin(t, "s_messages", [id |-> i, sync_status |-> status])
    /\ UNCHANGED storageVars

\* get_message and the two queries take only this lock, and change nothing.
BeginRead(t) == Begin(t, "r_messages", None) /\ UNCHANGED storageVars

\* A step of t at statement p that leaves locks and other calls alone.
At(t, p, next) == pc[t] = p /\ Goto(t, next) /\ UNCHANGED held

\* next_order: look the counter up, ...
CreateNext(t) ==
    /\ At(t, "c_next", "c_store")
    /\ call' = [call EXCEPT ![t].order = next_order(call[t].group_id)]
    /\ UNCHANGED storageVars

\* ... store it, and drop the guard.
CreateStore(t) ==
    /\ pc[t] = "c_store"
    /\ group_orders' = [group_orders EXCEPT ![call[t].group_id] = call[t].order]
    /\ held' = [held EXCEPT ![t] = <<>>]
    /\ Goto(t, "c_messages")
    /\ UNCHANGED <<messages, nonces, now, call>>

CreateId(t) ==
    /\ At(t, "c_id", IF DuplicateId(call[t].id) THEN "return" ELSE "c_nonces")
    /\ UNCHANGED <<storageVars, call>>

\* Fault: the nonce is put into the set without a look at it.
CreateNonce_Unchecked(t) ==
    /\ At(t, "c_nonce", "c_insert")
    /\ nonces' = nonces \cup {call[t].nonce}
    /\ UNCHANGED <<messages, group_orders, now, call>>

CreateNonce(t) ==
    /\ At(t, "c_nonce", IF DuplicateNonce(call[t].nonce) THEN "return" ELSE "c_insert")
    /\ nonces' = nonces \cup {call[t].nonce}
    /\ UNCHANGED <<messages, group_orders, now, call>>

CreateInsert(t) ==
    /\ At(t, "c_insert", "return")
    /\ messages' = [messages EXCEPT ![call[t].id] =
          NewMessage(call[t].group_id, call[t].sender, call[t].content,
                     call[t].nonce, call[t].created_at, call[t].order)]
    /\ UNCHANGED <<group_orders, nonces, now, call>>

UpdateId(t) ==
    /\ At(t, "u_id", IF contains_key(call[t].id) THEN "u_nonces" ELSE "return")
    /\ UNCHANGED <<storageVars, call>>

\* The old nonce is removed, ...
UpdateNonce(t) ==
    /\ At(t, "u_nonce", IF NonceFree(call[t].id, call[t].nonce) THEN "u_add" ELSE "return")
    /\ nonces' = IF NonceFree(call[t].id, call[t].nonce)
                 THEN nonces \ {messages[call[t].id].nonce} ELSE nonces
    /\ UNCHANGED <<messages, group_orders, now, call>>

\* ... the new one inserted, ...
UpdateAdd(t) ==
    /\ At(t, "u_add", "u_write")
    /\ nonces' = nonces \cup {call[t].nonce}
    /\ UNCHANGED <<messages, group_orders, now, call>>

\* ... and the message changed.
UpdateWrite(t) ==
    /\ At(t, "u_write", "return")
    /\ messages' = [messages EXCEPT ![call[t].id] =
                       update_content(@, call[t].content, call[t].nonce, now)]
    /\ Tick
    /\ UNCHANGED <<group_orders, nonces, call>>

\* delete_message and update_sync_status need only one lock.  A message that is
\* not there is an error.
DeleteMark(t) ==
    /\ At(t, "d_mark", "return")
    /\ IF contains_key(call[t].id) THEN DeleteMessage(call[t].id) ELSE UNCHANGED storageVars
    /\ UNCHANGED call

SomePatch(i) == [id |-> i, group_id |-> messages[i].group_id,
                 sender |-> messages[i].sender, order |-> messages[i].order,
                 content |-> messages[i].content, nonce |-> messages[i].nonce,
                 updated_at |-> messages[i].updated_at, sync_status |-> "Synced"]

StatusSet(t) ==
    /\ At(t, "s_set", "return")
    /\ LET i == call[t].id
       IN  IF contains_key(i)
           THEN UpdateSyncStatus(i, call[t].sync_status, SomePatch(i))
           ELSE UNCHANGED storageVars
    /\ UNCHANGED call

Step(t) ==
    \/ BeginCreate(t)
    \/ BeginUpdate(t)
    \/ BeginDelete(t)
    \/ BeginSetStatus(t)
    \/ BeginRead(t)
    \/ Acquire(t)
    \/ CreateNext(t)
    \/ CreateStore(t)
    \/ CreateId(t)
    \/ CreateNonce(t)
    \/ CreateInsert(t)
    \/ UpdateId(t)
    \/ UpdateNonce(t)
    \/ UpdateAdd(t)
    \/ UpdateWrite(t)
    \/ DeleteMark(t)
    \/ StatusSet(t)
    \/ Return(t)

Next == \E t \in Threads : Step(t)

Spec == Init /\ [][Next]_vars

------------------------------------------------------------------------------
(* Properties of the locking *)

\* t cannot go on before u does.  A reader also waits for writers in the queue:
\* std leaves the choice to the platform, and this is the stricter one.
WaitsFor(t, u) ==
    /\ t # u
    /\ pc[t] \in DOMAIN GuardAt
    /\ \/ \E h \in Guards : Holds(u, h) /\ Conflict(GuardAt[pc[t]], h)
       \/ /\ pc[u] \in DOMAIN GuardAt
          /\ GuardAt[pc[t]].mode = "read"
          /\ GuardAt[pc[u]] = Guard(GuardAt[pc[t]].lock, "write")

\* No threads wait for each other in a circle: among any of them there is one
\* that none of the others holds up.
NoCircularWait ==
    \A waiting \in (SUBSET Threads) \ {{}} :
        \E t \in waiting : \A u \in waiting : ~WaitsFor(t, u)

\* nonces and messages disagree only while a call holds the nonces lock: no
\* other call ever sees the swap half done.
SwapHidden ==
    (\A t \in Threads : ~Holds(t, Guard("nonces", "write"))) =>
        nonces = StoredNonces /\ NoncesDiffer

\* The statements of each call amount to one step of AtomicStorage (or of none,
\* when it fails): the nonces take effect with the message they belong to.
Atomic == INSTANCE AtomicStorage
             WITH nonces <- StoredNonces

CallsAreAtomic == Atomic!Spec
=============================================================================
