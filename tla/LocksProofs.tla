----------------------------- MODULE LocksProofs -----------------------------
(***************************************************************************)
(* Proofs about the locking of InMemoryStorage, for any number of threads  *)
(* and any sets of ids, groups, senders, nonces and contents.              *)
(***************************************************************************)
EXTENDS LocksInvariant, StorageProofs, SequenceTheorems

(***************************************************************************)
(* Which guards a thread has.                                              *)
(***************************************************************************)
\* A sequence of guards has what stands in one of its places.
LEMMA GuardsOf ==
    ASSUME NEW g, NEW h, NEW k
    PROVE  /\ ~\E n \in 1..Len(<<>>) : <<>>[n] = k
           /\ (\E n \in 1..Len(<<g>>) : <<g>>[n] = k) <=> k = g
           /\ (\E n \in 1..Len(<<g, h>>) : <<g, h>>[n] = k) <=> k = g \/ k = h
<1>1. Len(<<>>) = 0 /\ Len(<<g>>) = 1 /\ Len(<<g, h>>) = 2
  OBVIOUS
<1>2. 1..0 = {} /\ 1..1 = {1} /\ 1..2 = {1, 2}
  OBVIOUS
<1> QED
  BY <1>1, <1>2

\* memory.rs: what each statement runs under.
LEMMA GuardsHeld ==
    ASSUME GuardsByStatement, NEW t \in Threads, NEW g
    PROVE  /\ pc[t] \in Unlocked => ~Holds(t, g)
           /\ pc[t] \in UnderOrders => (Holds(t, g) <=> g = Writes("group_orders"))
           /\ pc[t] \in UnderMessages => (Holds(t, g) <=> g = Writes("messages"))
           /\ pc[t] \in UnderNonces =>
                 (Holds(t, g) <=> g = Writes("messages") \/ g = Writes("nonces"))
           /\ pc[t] = "return" /\ Holds(t, g) =>
                 g \in {Reads("messages"), Writes("messages"), Writes("nonces")}
<1>1. ASSUME held[t] = <<>> PROVE ~Holds(t, g)
  BY <1>1, GuardsOf DEF Holds
<1>2. ASSUME NEW a, held[t] = <<a>> PROVE Holds(t, g) <=> g = a
  BY <1>2, GuardsOf DEF Holds
<1>3. ASSUME NEW a, NEW b, held[t] = <<a, b>> PROVE Holds(t, g) <=> g = a \/ g = b
  BY <1>3, GuardsOf DEF Holds
<1> QED
  BY <1>1, <1>2, <1>3 DEF GuardsByStatement

\* The statements are those of Unlocked to UnderNonces, and the end of a call.
LEMMA WhereThreadsStand ==
    ASSUME TypeOK, NEW t \in Threads
    PROVE  pc[t] \in Unlocked \cup UnderOrders \cup UnderMessages \cup UnderNonces
                        \cup {"return"}
BY DEF TypeOK, Statements, GuardAt, Locked, Unlocked, UnderOrders, UnderMessages, UnderNonces

LEMMA WritesDiffer ==
    /\ Writes("messages") # Writes("nonces")
    /\ Writes("messages") # Writes("group_orders")
    /\ Writes("nonces") # Writes("group_orders")
    /\ \A l : Reads(l) # Writes("nonces") /\ Reads(l) # Writes("messages")
    /\ \A l : Conflict(Writes(l), Writes(l))
    /\ \A l \in {"messages", "group_orders", "nonces"} :
          Writes(l) \in Guards /\ Reads(l) \in Guards
BY DEF Writes, Reads, Guard, Conflict, Guards

\* Only one thread at a time works on the counters, and only one on the messages.
LEMMA Alone ==
    ASSUME GuardsByStatement, Exclusive, NEW t \in Threads, NEW u \in Threads, t # u
    PROVE  /\ ~(pc[t] \in UnderOrders /\ pc[u] \in UnderOrders)
           /\ ~(/\ pc[t] \in UnderMessages \cup UnderNonces
                /\ pc[u] \in UnderMessages \cup UnderNonces)
BY GuardsHeld, WritesDiffer DEF Exclusive

(***************************************************************************)
(* No circle of waiting threads: whoever waits stands higher than the one  *)
(* that holds it up.                                                       *)
(***************************************************************************)
Rank(t) ==
    IF pc[t] = "r_messages" THEN 3
    ELSE IF pc[t] \in {"c_messages", "u_messages", "d_messages", "s_messages"} THEN 2
    ELSE IF pc[t] \in {"c_orders", "c_nonces", "u_nonces"} THEN 1
    ELSE 0

\* memory.rs: a holder of the nonces lock waits for nothing, a holder of the
\* messages lock only for that one, and nobody waits for it that holds another.
LEMMA WaitsDescend ==
    ASSUME TypeOK, GuardsByStatement, NEW t \in Threads, NEW u \in Threads, WaitsFor(t, u)
    PROVE  Rank(u) < Rank(t)
<1>1. pc[t] \in DOMAIN GuardAt
  BY DEF WaitsFor
<1>2. ASSUME pc[t] = "c_orders", NEW h \in Guards, Holds(u, h), Conflict(GuardAt[pc[t]], h)
      PROVE  pc[u] \in UnderOrders
  BY <1>2, WhereThreadsStand, GuardsHeld, WritesDiffer
  DEF GuardAt, Conflict, Guard, Writes, Reads
<1>3. ASSUME pc[t] \in {"c_nonces", "u_nonces"}, NEW h \in Guards, Holds(u, h),
             Conflict(GuardAt[pc[t]], h)
      PROVE  pc[u] \in UnderNonces \cup {"return"}
  BY <1>3, WhereThreadsStand, GuardsHeld, WritesDiffer
  DEF GuardAt, Conflict, Guard, Writes, Reads
<1>4. ASSUME pc[t] \in {"c_messages", "u_messages", "d_messages", "s_messages", "r_messages"},
             NEW h \in Guards, Holds(u, h), Conflict(GuardAt[pc[t]], h)
      PROVE  pc[u] \in UnderMessages \cup UnderNonces \cup {"return"}
  BY <1>4, WhereThreadsStand, GuardsHeld, WritesDiffer
  DEF GuardAt, Conflict, Guard, Writes, Reads
<1>5. CASE \E h \in Guards : Holds(u, h) /\ Conflict(GuardAt[pc[t]], h)
  BY <1>1, <1>2, <1>3, <1>4, <1>5 DEF Rank, GuardAt, UnderOrders, UnderMessages, UnderNonces
<1>6. CASE /\ pc[u] \in DOMAIN GuardAt
           /\ GuardAt[pc[t]].mode = "read"
           /\ GuardAt[pc[u]] = Guard(GuardAt[pc[t]].lock, "write")
  <2>1. pc[t] = "r_messages"
    BY <1>1, <1>6 DEF GuardAt, Guard
  <2>2. pc[u] # "r_messages"
    BY <1>6 DEF GuardAt, Guard
  <2> QED
    BY <2>1, <2>2 DEF Rank
<1> QED
  BY <1>5, <1>6 DEF WaitsFor

\* Among the threads of any set, one of the lowest rank waits for none of them.
LEMMA LocksOrdered ==
    ASSUME TypeOK, GuardsByStatement
    PROVE  NoCircularWait
<1> SUFFICES ASSUME NEW waiting \in (SUBSET Threads) \ {{}}
             PROVE  \E t \in waiting : \A u \in waiting : ~WaitsFor(t, u)
  BY DEF NoCircularWait
<1>1. \A t \in waiting : Rank(t) \in 0..3
  BY DEF Rank
<1>2. \E t \in waiting : \A u \in waiting : Rank(t) <= Rank(u)
  <2>1. CASE \E t \in waiting : Rank(t) = 0
    BY <1>1, <2>1
  <2>2. CASE (\A t \in waiting : Rank(t) > 0) /\ \E t \in waiting : Rank(t) = 1
    BY <1>1, <2>2
  <2>3. CASE (\A t \in waiting : Rank(t) > 1) /\ \E t \in waiting : Rank(t) = 2
    BY <1>1, <2>3
  <2>4. CASE \A t \in waiting : Rank(t) > 2
    BY <1>1, <2>4
  <2> QED
    BY <1>1, <2>1, <2>2, <2>3, <2>4
<1>3. PICK t \in waiting : \A u \in waiting : Rank(t) <= Rank(u)
  BY <1>2
<1>4. \A u \in waiting : ~WaitsFor(t, u)
  BY <1>1, <1>3, WaitsDescend
<1> QED
  BY <1>4

(***************************************************************************)
(* Guards are created and dropped.                                         *)
(***************************************************************************)
\* One thread's guards change; the others' do not.
LEMMA GuardsMove ==
    ASSUME TypeOK, GuardsByStatement, NEW t \in Threads, NEW p, NEW h,
           pc' = [pc EXCEPT ![t] = p], held' = [held EXCEPT ![t] = h],
           p \in Unlocked => h = <<>>,
           p \in UnderOrders => h = <<Writes("group_orders")>>,
           p \in UnderMessages => h = <<Writes("messages")>>,
           p \in UnderNonces => h = <<Writes("messages"), Writes("nonces")>>,
           p = "return" => h \in {<<Reads("messages")>>, <<Writes("messages")>>,
                                  <<Writes("messages"), Writes("nonces")>>}
    PROVE  GuardsByStatement'
<1>1. pc'[t] = p /\ held'[t] = h
  BY DEF TypeOK
<1>2. \A u \in Threads \ {t} : pc'[u] = pc[u] /\ held'[u] = held[u]
  BY DEF TypeOK
<1> QED
  BY <1>1, <1>2 DEF GuardsByStatement, Unlocked, UnderOrders, UnderMessages, UnderNonces,
                    Writes, Reads, Guard

\* RwLock: a thread gets a guard only if it is compatible with those of others.
LEMMA ExclusiveKept ==
    ASSUME TypeOK, Exclusive, NEW t \in Threads,
           \A u \in Threads \ {t} : held'[u] = held[u],
           \A g \in Guards : Holds(t, g)' =>
              \/ Holds(t, g)
              \/ \A u \in Threads : \A k \in Guards : Holds(u, k) => ~Conflict(g, k)
    PROVE  Exclusive'
<1>1. \A g, k \in Guards : Conflict(g, k) <=> Conflict(k, g)
  BY DEF Conflict
<1>2. \A u \in Threads \ {t} : \A g : Holds(u, g)' <=> Holds(u, g)
  BY DEF Holds
<1> QED
  BY <1>1, <1>2 DEF Exclusive

\* std::vec: a guard is pushed, the youngest one is popped.
LEMMA PushPop ==
    ASSUME NEW g \in Guards, NEW h \in Guards
    PROVE  /\ Append(<<>>, g) = <<g>>
           /\ Append(<<g>>, h) = <<g, h>>
           /\ SubSeq(<<g>>, 1, Len(<<g>>) - 1) = <<>>
           /\ SubSeq(<<g, h>>, 1, Len(<<g, h>>) - 1) = <<g>>
           /\ Len(<<g>>) = 1 /\ Len(<<g, h>>) = 2
           /\ <<g>> \in Seq(Guards) /\ <<g, h>> \in Seq(Guards)
<1>1. <<g>> \in Seq(Guards) /\ <<g, h>> \in Seq(Guards) /\ <<>> \in Seq(Guards)
  OBVIOUS
<1>2. Len(<<>>) = 0 /\ Len(<<g>>) = 1 /\ Len(<<g, h>>) = 2
  OBVIOUS
<1>3. Append(<<>>, g) = <<g>>
  OBVIOUS
<1>4. Append(<<g>>, h) = <<g, h>>
  <2>1. Append(<<g>>, h) \in Seq(Guards) /\ Len(Append(<<g>>, h)) = 2
        /\ Append(<<g>>, h)[1] = g /\ Append(<<g>>, h)[2] = h
    BY <1>1, <1>2, AppendProperties
  <2>2. \A i \in 1..2 : Append(<<g>>, h)[i] = <<g, h>>[i]
    BY <2>1
  <2> QED
    BY <1>1, <1>2, <2>1, <2>2, SeqEqual
<1>5. SubSeq(<<g>>, 1, 0) = <<>>
  BY SubSeqEmpty
<1>6. SubSeq(<<g, h>>, 1, 1) = <<g>>
  <2> DEFINE s == SubSeq(<<g, h>>, 1, 1)
  <2>1. \A i \in 1..1 : <<g, h>>[i] \in Guards
    OBVIOUS
  <2>2. s \in Seq(Guards) /\ Len(s) = 1 /\ s[1] = g
    BY <2>1, SubSeqProperties
  <2>3. \A i \in 1..1 : s[i] = <<g>>[i]
    BY <2>2
  <2> QED
    BY <1>1, <1>2, <2>2, <2>3, SeqEqual
<1> QED
  BY <1>1, <1>2, <1>3, <1>4, <1>5, <1>6

(***************************************************************************)
(* The control of the calls: statements, arguments and guards.             *)
(***************************************************************************)
\* The arguments that a statement needs, and the guards it runs under.
FitsCall(p, c, h) ==
    /\ p \in {"c_orders", "c_next", "c_store", "c_messages", "c_id", "c_nonces",
              "c_nonce", "c_insert"} => c \in Create
    /\ p \in {"u_messages", "u_id", "u_nonces", "u_nonce", "u_add", "u_write"} => c \in Update
    /\ p \in {"d_messages", "d_mark"} => c \in Delete
    /\ p \in {"s_messages", "s_set"} => c \in SetStatus
    /\ p = "idle" => c = None /\ h = <<>>

FitsGuards(p, h) ==
    /\ p \in Unlocked => h = <<>>
    /\ p \in UnderOrders => h = <<Writes("group_orders")>>
    /\ p \in UnderMessages => h = <<Writes("messages")>>
    /\ p \in UnderNonces => h = <<Writes("messages"), Writes("nonces")>>
    /\ p = "return" => h \in {<<Reads("messages")>>, <<Writes("messages")>>,
                              <<Writes("messages"), Writes("nonces")>>}

\* Thread t is at statement p now, with arguments c and guards h.
MovesTo(t, p, c, h) ==
    /\ pc' = [pc EXCEPT ![t] = p]
    /\ held' = [held EXCEPT ![t] = h]
    /\ DOMAIN call' = Threads
    /\ call'[t] = c
    /\ \A u \in Threads \ {t} : call'[u] = call[u]

\* The other threads do not notice.
LEMMA OthersStay ==
    ASSUME TypeOK, NEW t \in Threads, NEW p, NEW c, NEW h, MovesTo(t, p, c, h)
    PROVE  /\ pc'[t] = p /\ call'[t] = c /\ held'[t] = h
           /\ DOMAIN call' = Threads
           /\ \A u \in Threads \ {t} :
                 pc'[u] = pc[u] /\ call'[u] = call[u] /\ held'[u] = held[u]
BY DEF TypeOK, MovesTo

\* A step that leads to a statement with the arguments and guards it needs.
LEMMA ControlStep ==
    ASSUME TypeOK, GuardsByStatement, Exclusive, StorageTypeOK',
           NEW t \in Threads, NEW p \in Statements, NEW c, NEW h \in Seq(Guards),
           MovesTo(t, p, c, h), FitsCall(p, c, h), FitsGuards(p, h),
           \A g \in Guards : (\E n \in 1..Len(h) : h[n] = g) =>
              \/ Holds(t, g)
              \/ \A u \in Threads : \A k \in Guards : Holds(u, k) => ~Conflict(g, k)
    PROVE  TypeOK' /\ GuardsByStatement' /\ Exclusive'
<1>1. /\ pc'[t] = p /\ call'[t] = c /\ held'[t] = h
      /\ DOMAIN call' = Threads
      /\ \A u \in Threads \ {t} :
            pc'[u] = pc[u] /\ call'[u] = call[u] /\ held'[u] = held[u]
  BY OthersStay
<1>2. pc' \in [Threads -> Statements] /\ held' \in [Threads -> Seq(Guards)]
  BY DEF MovesTo, TypeOK
<1>3. \A u \in Threads : CallTypeOK(u)'
  <2>1. CallTypeOK(t)'
    BY <1>1 DEF CallTypeOK, FitsCall
  <2>2. \A u \in Threads \ {t} : CallTypeOK(u)'
    BY <1>1 DEF CallTypeOK, TypeOK
  <2> QED
    BY <2>1, <2>2
<1>4. TypeOK'
  BY <1>1, <1>2, <1>3 DEF TypeOK
<1>5. GuardsByStatement'
  BY GuardsMove DEF MovesTo, FitsGuards
<1>6. Exclusive'
  <2>1. \A g \in Guards : Holds(t, g)' =>
              \/ Holds(t, g)
              \/ \A u \in Threads : \A k \in Guards : Holds(u, k) => ~Conflict(g, k)
    BY <1>1 DEF Holds
  <2> QED
    BY <1>1, <2>1, ExclusiveKept
<1> QED
  BY <1>4, <1>5, <1>6

\* A step between two statements under the same guards.
LEMMA SameGuards ==
    ASSUME TypeOK, GuardsByStatement, Exclusive, StorageTypeOK',
           NEW t \in Threads, NEW p \in Statements, NEW c,
           pc' = [pc EXCEPT ![t] = p], held' = held,
           DOMAIN call' = Threads, call'[t] = c, \A u \in Threads \ {t} : call'[u] = call[u],
           FitsCall(p, c, held[t]), FitsGuards(p, held[t])
    PROVE  TypeOK' /\ GuardsByStatement' /\ Exclusive' /\ MovesTo(t, p, c, held[t])
<1>1. held[t] \in Seq(Guards) /\ held' = [held EXCEPT ![t] = held[t]]
  BY DEF TypeOK
<1>2. \A g \in Guards : (\E n \in 1..Len(held[t]) : held[t][n] = g) => Holds(t, g)
  BY DEF Holds
<1>3. MovesTo(t, p, c, held[t])
  BY <1>1 DEF MovesTo
<1> QED
  BY <1>1, <1>2, <1>3, ControlStep

(***************************************************************************)
(* What the calls write.                                                   *)
(***************************************************************************)
\* create_message stores a message with the nonce it has checked.
LEMMA InsertWrites ==
    ASSUME TypeOK, NEW t \in Threads, CreateInsert(t)
    PROVE  /\ call[t] \in Create /\ call[t].id \in MessageIds
           /\ \E m \in Message :
                 /\ m.nonce = call[t].nonce
                 /\ messages' = [messages EXCEPT ![call[t].id] = m]
<1>1. call[t] \in Create
  BY DEF CreateInsert, At, TypeOK, CallTypeOK
<1> DEFINE m == NewMessage(call[t].group_id, call[t].sender, call[t].content,
                           call[t].nonce, call[t].created_at, call[t].order)
<1>2. m \in Message /\ m.nonce = call[t].nonce
  BY <1>1, NewMessageType DEF Create
<1> QED
  BY <1>1, <1>2 DEF CreateInsert, Create

\* update_message writes to a message that is there.
LEMMA UpdateWrites ==
    ASSUME TypeOK, ChecksHold, NEW t \in Threads, UpdateWrite(t)
    PROVE  /\ call[t] \in Update /\ call[t].id \in Stored
           /\ \E m \in Message :
                 /\ m.nonce = call[t].nonce
                 /\ messages' = [messages EXCEPT ![call[t].id] = m]
<1>1. call[t] \in Update /\ now \in Nat
  BY DEF UpdateWrite, At, TypeOK, CallTypeOK, StorageTypeOK
<1>2. call[t].id \in Stored
  BY <1>1 DEF ChecksHold, CallChecks, UpdateWrite, At, Stored, Update
<1>3. messages[call[t].id] \in Message
  BY <1>2, StoredIsMessage DEF TypeOK, StorageTypeOK, MessagesTypeOK
<1> DEFINE m == update_content(messages[call[t].id], call[t].content, call[t].nonce, now)
<1>4. m \in Message /\ m.nonce = call[t].nonce
  BY <1>1, <1>3, UpdateContentType DEF Update
<1> QED
  BY <1>1, <1>2, <1>4 DEF UpdateWrite

\* delete_message and update_sync_status leave the nonce alone.
LEMMA MarkWrites ==
    ASSUME TypeOK, NEW t \in Threads, DeleteMark(t) \/ StatusSet(t), ~UNCHANGED storageVars
    PROVE  /\ call[t].id \in Stored
           /\ UNCHANGED <<group_orders, nonces>> /\ Tick
           /\ \E m \in Message :
                 /\ m.nonce = messages[call[t].id].nonce
                 /\ messages' = [messages EXCEPT ![call[t].id] = m]
<1>1. now \in Nat
  BY DEF TypeOK, StorageTypeOK
<1>2. CASE DeleteMark(t)
  <2>1. call[t] \in Delete
    BY <1>2 DEF DeleteMark, At, TypeOK, CallTypeOK
  <2>2. DeleteMessage(call[t].id) /\ call[t].id \in Stored
    BY <1>2, <2>1 DEF DeleteMark, Delete, Stored
  <2>3. messages[call[t].id] \in Message
    BY <2>2, StoredIsMessage DEF TypeOK, StorageTypeOK, MessagesTypeOK
  <2>4. LET m == mark_for_deletion(messages[call[t].id], now)
        IN  m \in Message /\ m.nonce = messages[call[t].id].nonce
    BY <1>1, <2>3, MarkForDeletionType
  <2> QED
    BY <2>2, <2>4 DEF DeleteMessage
<1>3. CASE StatusSet(t)
  <2>1. call[t] \in SetStatus
    BY <1>3 DEF StatusSet, At, TypeOK, CallTypeOK
  <2> DEFINE i == call[t].id
             s == call[t].sync_status
  <2>2. UpdateSyncStatus(i, s, SomePatch(i)) /\ i \in Stored /\ s \in SyncStatus
    BY <1>3, <2>1 DEF StatusSet, SetStatus, Stored
  <2>3. i \in MessageIds /\ messages[i] \in Message
    BY <2>2, StoredIsMessage DEF TypeOK, StorageTypeOK, MessagesTypeOK
  <2>4. SomePatch(i) \in Patch
    BY <2>3 DEF SomePatch, Patch, Message, SyncStatus
  <2>5. LET m == SetSyncStatus(messages[i], s, SomePatch(i), now)
        IN  m \in Message /\ m.nonce = messages[i].nonce
    BY <1>1, <2>2, <2>3, <2>4, SetSyncStatusType
  <2> QED
    BY <2>2, <2>5 DEF UpdateSyncStatus
<1> QED
  BY <1>2, <1>3

\* A message or counter that the calls store has the right type.
LEMMA StorageTypes ==
    ASSUME TypeOK, ChecksHold, NEW t \in Threads, Step(t)
    PROVE  StorageTypeOK'
<1>1. CASE UNCHANGED storageVars
  BY <1>1 DEF TypeOK, StorageTypeOK, storageVars
<1>2. CASE BeginCreate(t)
  BY <1>2 DEF BeginCreate, TypeOK, StorageTypeOK, Tick
<1>3. CASE CreateStore(t)
  <2>1. call[t] \in Create
    BY <1>3 DEF CreateStore, TypeOK, CallTypeOK
  <2> QED
    BY <1>3, <2>1 DEF CreateStore, TypeOK, StorageTypeOK, Create
<1>4. CASE CreateNonce(t)
  <2>1. call[t] \in Create
    BY <1>4 DEF CreateNonce, At, TypeOK, CallTypeOK
  <2> QED
    BY <1>4, <2>1 DEF CreateNonce, TypeOK, StorageTypeOK, Create
<1>5. CASE CreateInsert(t)
  <2>1. MessagesTypeOK'
    BY <1>5, InsertWrites, MessageWritten DEF TypeOK, StorageTypeOK, MessagesTypeOK
  <2> QED
    BY <1>5, <2>1 DEF CreateInsert, TypeOK, StorageTypeOK, MessagesTypeOK
<1>6. CASE UpdateNonce(t)
  BY <1>6 DEF UpdateNonce, TypeOK, StorageTypeOK
<1>7. CASE UpdateAdd(t)
  <2>1. call[t] \in Update
    BY <1>7 DEF UpdateAdd, At, TypeOK, CallTypeOK
  <2> QED
    BY <1>7, <2>1 DEF UpdateAdd, TypeOK, StorageTypeOK, Update
<1>8. CASE UpdateWrite(t)
  <2>1. MessagesTypeOK'
    BY <1>8, UpdateWrites, MessageWritten
    DEF TypeOK, StorageTypeOK, MessagesTypeOK, Stored, contains_key
  <2> QED
    BY <1>8, <2>1 DEF UpdateWrite, TypeOK, StorageTypeOK, MessagesTypeOK, Tick
<1>9. CASE DeleteMark(t) \/ StatusSet(t)
  <2>1. CASE UNCHANGED storageVars
    BY <1>1, <2>1
  <2>2. CASE ~UNCHANGED storageVars
    <3>1. /\ MessagesTypeOK'
          /\ UNCHANGED <<group_orders, nonces>> /\ Tick
      BY <1>9, <2>2, MarkWrites, MessageWritten
      DEF TypeOK, StorageTypeOK, MessagesTypeOK, Stored, contains_key
    <3> QED
      BY <3>1 DEF TypeOK, StorageTypeOK, MessagesTypeOK, Tick
  <2> QED
    BY <2>1, <2>2
<1>10. CASE \/ BeginUpdate(t) \/ BeginDelete(t) \/ BeginSetStatus(t) \/ BeginRead(t)
            \/ Acquire(t) \/ Return(t) \/ CreateNext(t) \/ CreateId(t) \/ UpdateId(t)
  BY <1>1, <1>10 DEF BeginUpdate, BeginDelete, BeginSetStatus, BeginRead, Acquire, Return,
                     CreateNext, CreateId, UpdateId
<1> QED
  BY <1>2, <1>3, <1>4, <1>5, <1>6, <1>7, <1>8, <1>9, <1>10 DEF Step

\* Every statement leaves its thread at one of the next statements of its call,
\* with the guards it needs there, and the other threads where they are.
Controlled(t) ==
    /\ TypeOK' /\ GuardsByStatement' /\ Exclusive'
    /\ \A u \in Threads \ {t} : pc'[u] = pc[u] /\ call'[u] = call[u]

LEMMA BeginControl ==
    ASSUME TypeOK, GuardsByStatement, Exclusive, StorageTypeOK', NEW t \in Threads,
           \/ BeginCreate(t) \/ BeginUpdate(t) \/ BeginDelete(t)
           \/ BeginSetStatus(t) \/ BeginRead(t)
    PROVE  Controlled(t)
<1>1. now \in Nat /\ held[t] = <<>>
  BY DEF TypeOK, StorageTypeOK, GuardsByStatement, Unlocked, BeginCreate, BeginUpdate,
         BeginDelete, BeginSetStatus, BeginRead, Begin
<1>2. PICK p, c : Begin(t, p, c) /\ \/ p = "c_orders" /\ c \in Create
                                    \/ p = "u_messages" /\ c \in Update
                                    \/ p = "d_messages" /\ c \in Delete
                                    \/ p = "s_messages" /\ c \in SetStatus
                                    \/ p = "r_messages"
  <2>1. CASE BeginCreate(t)
    BY <1>1, <2>1 DEF BeginCreate, Create
  <2>2. CASE BeginUpdate(t)
    BY <2>2 DEF BeginUpdate, Update
  <2>3. CASE BeginDelete(t)
    BY <2>3 DEF BeginDelete, Delete
  <2>4. CASE BeginSetStatus(t)
    BY <2>4 DEF BeginSetStatus, SetStatus
  <2>5. CASE BeginRead(t)
    BY <2>5 DEF BeginRead
  <2> QED
    BY <2>1, <2>2, <2>3, <2>4, <2>5
<1>3. p \in Statements /\ p \in Unlocked
  BY <1>2 DEF Statements, Unlocked, GuardAt
<1>4. FitsCall(p, c, held[t]) /\ FitsGuards(p, held[t])
  BY <1>1, <1>2, <1>3 DEF FitsCall, FitsGuards, Unlocked, UnderOrders, UnderMessages, UnderNonces
<1>5. TypeOK' /\ GuardsByStatement' /\ Exclusive' /\ MovesTo(t, p, c, held[t])
  BY <1>2, <1>3, <1>4, SameGuards DEF Begin, Goto, TypeOK
<1> QED
  BY <1>5, OthersStay DEF Controlled

\* A guard is created only if it is compatible with all others.
LEMMA AcquireControl ==
    ASSUME TypeOK, GuardsByStatement, Exclusive, StorageTypeOK', NEW t \in Threads, Acquire(t)
    PROVE  Controlled(t)
<1> DEFINE p == Locked[pc[t]]
           g == GuardAt[pc[t]]
           h == Append(held[t], g)
<1>1. pc[t] \in DOMAIN GuardAt /\ held[t] \in Seq(Guards)
  BY DEF Acquire, TypeOK
<1>2. p \in Statements /\ g \in Guards /\ p \notin Unlocked /\ p # "idle"
  BY <1>1 DEF GuardAt, Locked, Statements, Guards, Unlocked, Guard
<1>3. h \in Seq(Guards) /\ FitsGuards(p, h)
  <2>1. CASE pc[t] \in Unlocked
    <3>1. h = <<g>>
      BY <1>2, <2>1, PushPop DEF GuardsByStatement
    <3>2. /\ p \in UnderOrders => g = Writes("group_orders")
          /\ p \in UnderMessages => g = Writes("messages")
          /\ p \notin UnderNonces
          /\ p = "return" => g = Reads("messages")
      BY <1>1, <2>1 DEF Unlocked, GuardAt, Locked, UnderOrders, UnderMessages, UnderNonces,
                        Writes, Reads
    <3> QED
      BY <1>2, <3>1, <3>2, PushPop DEF FitsGuards
  <2>2. CASE pc[t] \notin Unlocked
    <3>1. held[t] = <<Writes("messages")>> /\ g = Writes("nonces") /\ p \in UnderNonces
      BY <1>1, <2>2 DEF GuardsByStatement, Unlocked, UnderMessages, UnderNonces, GuardAt,
                        Locked, Writes
    <3>2. h = <<Writes("messages"), Writes("nonces")>> /\ h \in Seq(Guards)
      <4>1. Writes("messages") \in Guards /\ Writes("nonces") \in Guards
        BY WritesDiffer
      <4> QED
        BY <3>1, <4>1, PushPop
    <3> QED
      BY <3>1, <3>2 DEF FitsGuards, Unlocked, UnderOrders, UnderMessages, UnderNonces
  <2> QED
    BY <2>1, <2>2
<1>4. FitsCall(p, call[t], h)
  BY <1>1, <1>2 DEF FitsCall, TypeOK, CallTypeOK, GuardAt, Locked
<1>5. MovesTo(t, p, call[t], h)
  BY DEF Acquire, Goto, MovesTo, TypeOK
<1>6. \A k \in Guards : (\E n \in 1..Len(h) : h[n] = k) =>
         \/ Holds(t, k)
         \/ \A u \in Threads : \A l \in Guards : Holds(u, l) => ~Conflict(k, l)
  <2>1. \A n \in 1..Len(h) : h[n] = g \/ \E m \in 1..Len(held[t]) : h[n] = held[t][m]
    BY <1>1, <1>2, AppendProperties
  <2> QED
    BY <2>1 DEF Acquire, Holds
<1>7. TypeOK' /\ GuardsByStatement' /\ Exclusive'
  BY <1>2, <1>3, <1>4, <1>5, <1>6, ControlStep
<1> QED
  BY <1>5, <1>7, OthersStay DEF Controlled

\* Dropping a guard conflicts with nothing.
LEMMA ReturnControl ==
    ASSUME TypeOK, GuardsByStatement, Exclusive, StorageTypeOK', NEW t \in Threads, Return(t)
    PROVE  Controlled(t)
<1> DEFINE h == SubSeq(held[t], 1, Len(held[t]) - 1)
<1>1. pc[t] = "return" /\ held' = [held EXCEPT ![t] = h]
  BY DEF Return
<1>2. \/ held[t] = <<Reads("messages")>> \/ held[t] = <<Writes("messages")>>
      \/ held[t] = <<Writes("messages"), Writes("nonces")>>
  BY <1>1 DEF GuardsByStatement
<1>3. PICK p, c : /\ MovesTo(t, p, c, h)
                  /\ Len(held[t]) = 1 => p = "idle" /\ c = None
                  /\ Len(held[t]) # 1 => p = "return"
  <2>1. CASE Len(held[t]) = 1
    BY <1>1, <2>1 DEF Return, Goto, MovesTo, TypeOK
  <2>2. CASE Len(held[t]) # 1
    <3>1. pc' = [pc EXCEPT ![t] = "return"] /\ call' = call
      BY <1>1, <2>2 DEF Return, TypeOK
    <3> QED
      BY <1>1, <2>2, <3>1 DEF MovesTo, TypeOK
  <2> QED
    BY <2>1, <2>2
<1>4. /\ Len(held[t]) = 1 => h = <<>>
      /\ Len(held[t]) # 1 => h = <<Writes("messages")>> /\ Holds(t, Writes("messages"))
      /\ h \in Seq(Guards)
  <2>1. Writes("messages") \in Guards /\ Writes("nonces") \in Guards
        /\ Reads("messages") \in Guards
    BY WritesDiffer
  <2>2. CASE Len(held[t]) = 1
    <3>1. PICK g \in Guards : held[t] = <<g>>
      BY <1>2, <2>1, <2>2, PushPop
    <3>2. h = <<>>
      BY <3>1, PushPop
    <3> QED
      BY <2>2, <3>2
  <2>3. CASE Len(held[t]) # 1
    <3>1. held[t] = <<Writes("messages"), Writes("nonces")>>
      BY <1>2, <2>1, <2>3, PushPop
    <3>2. h = <<Writes("messages")>>
      BY <2>1, <3>1, PushPop
    <3>3. Holds(t, Writes("messages"))
      BY <3>1, GuardsOf DEF Holds
    <3> QED
      BY <2>1, <2>3, <3>2, <3>3, PushPop
  <2> QED
    BY <2>2, <2>3
<1>5. p \in Statements /\ FitsCall(p, c, h) /\ FitsGuards(p, h)
  BY <1>3, <1>4 DEF Statements, FitsCall, FitsGuards, Unlocked, UnderOrders, UnderMessages,
                    UnderNonces
<1>6. \A g \in Guards : (\E n \in 1..Len(h) : h[n] = g) => Holds(t, g)
  <2>1. CASE h = <<>>
    BY <2>1, GuardsOf
  <2>2. CASE h = <<Writes("messages")>> /\ Holds(t, Writes("messages"))
    <3>1. ASSUME NEW w PROVE \A g : (\E n \in 1..Len(<<w>>) : <<w>>[n] = g) => g = w
      BY GuardsOf
    <3>2. \A g : (\E n \in 1..Len(h) : h[n] = g) => g = Writes("messages")
      BY <2>2, <3>1
    <3> QED
      BY <2>2, <3>2
  <2> QED
    BY <1>4, <2>1, <2>2
<1>7. TypeOK' /\ GuardsByStatement' /\ Exclusive'
  BY <1>3, <1>4, <1>5, <1>6, ControlStep
<1> QED
  BY <1>3, <1>7, OthersStay DEF Controlled

\* next_order drops its guard when it returns.
LEMMA CreateStoreControl ==
    ASSUME TypeOK, GuardsByStatement, Exclusive, StorageTypeOK', NEW t \in Threads,
           CreateStore(t)
    PROVE  Controlled(t)
<1>1. MovesTo(t, "c_messages", call[t], <<>>)
  BY DEF CreateStore, Goto, MovesTo, TypeOK
<1>2. "c_messages" \in Statements /\ FitsCall("c_messages", call[t], <<>>)
      /\ FitsGuards("c_messages", <<>>)
  BY DEF CreateStore, TypeOK, CallTypeOK, Statements, GuardAt, FitsCall, FitsGuards, Unlocked,
         UnderOrders, UnderMessages, UnderNonces
<1>3. <<>> \in Seq(Guards) /\ \A g : ~\E n \in 1..Len(<<>>) : <<>>[n] = g
  BY GuardsOf
<1>4. TypeOK' /\ GuardsByStatement' /\ Exclusive'
  BY <1>1, <1>2, <1>3, ControlStep
<1> QED
  BY <1>1, <1>4, OthersStay DEF Controlled

\* The statements between taking the guards and dropping them.
LEMMA CallControl ==
    ASSUME TypeOK, GuardsByStatement, Exclusive, StorageTypeOK', NEW t \in Threads,
           \/ CreateNext(t) \/ CreateId(t) \/ CreateNonce(t) \/ CreateInsert(t)
           \/ UpdateId(t) \/ UpdateNonce(t) \/ UpdateAdd(t) \/ UpdateWrite(t)
           \/ DeleteMark(t) \/ StatusSet(t)
    PROVE  Controlled(t)
<1>1. PICK p, c : /\ At(t, pc[t], p)
                  /\ DOMAIN call' = Threads /\ call'[t] = c
                  /\ \A u \in Threads \ {t} : call'[u] = call[u]
                  /\ \/ pc[t] = "c_next" /\ p = "c_store" /\ c \in Create
                     \/ /\ \/ pc[t] = "c_id" /\ p \in {"c_nonces", "return"}
                           \/ pc[t] = "c_nonce" /\ p \in {"c_insert", "return"}
                           \/ pc[t] = "u_id" /\ p \in {"u_nonces", "return"}
                           \/ pc[t] = "u_nonce" /\ p \in {"u_add", "return"}
                           \/ pc[t] = "u_add" /\ p = "u_write"
                           \/ pc[t] \in {"c_insert", "u_write", "d_mark", "s_set"} /\ p = "return"
                        /\ c = call[t]
  <2>1. CASE CreateNext(t)
    <3>1. call[t] \in Create /\ group_orders \in [Groups -> Nat]
      BY <2>1 DEF CreateNext, At, TypeOK, CallTypeOK, StorageTypeOK
    <3>2. [call[t] EXCEPT !.order = next_order(call[t].group_id)] \in Create
      BY <3>1 DEF Create, next_order
    <3>3. call' = [call EXCEPT ![t] = [call[t] EXCEPT !.order = next_order(call[t].group_id)]]
      BY <2>1 DEF CreateNext
    <3> QED
      BY <2>1, <3>2, <3>3 DEF CreateNext, At, TypeOK
  <2>2. CASE ~CreateNext(t)
    <3>1. call' = call
      BY <2>2 DEF CreateId, CreateNonce, CreateInsert, UpdateId, UpdateNonce, UpdateAdd,
                  UpdateWrite, DeleteMark, StatusSet
    <3> QED
      BY <2>2, <3>1 DEF TypeOK, CreateId, CreateNonce, CreateInsert, UpdateId, UpdateNonce, UpdateAdd,
                        UpdateWrite, DeleteMark, StatusSet, At
  <2> QED
    BY <2>1, <2>2
<1>2. p \in Statements
  BY <1>1 DEF Statements, GuardAt, Locked
<1>3. FitsCall(p, c, held[t])
  BY <1>1 DEF FitsCall, TypeOK, CallTypeOK
<1>4. FitsGuards(p, held[t])
  BY <1>1 DEF FitsGuards, GuardsByStatement, Unlocked, UnderOrders, UnderMessages, UnderNonces
<1>5. TypeOK' /\ GuardsByStatement' /\ Exclusive' /\ MovesTo(t, p, c, held[t])
  BY <1>1, <1>2, <1>3, <1>4, SameGuards DEF At, Goto
<1> QED
  BY <1>5, OthersStay DEF Controlled

LEMMA StepControl ==
    ASSUME TypeOK, GuardsByStatement, Exclusive, ChecksHold, NEW t \in Threads, Step(t)
    PROVE  Controlled(t)
<1>1. StorageTypeOK'
  BY StorageTypes
<1> QED
  BY <1>1, BeginControl, AcquireControl, ReturnControl, CreateStoreControl, CallControl DEF Step

(***************************************************************************)
(* What the calls know, and the nonces.                                    *)
(***************************************************************************)
UnderAny == UnderMessages \cup UnderNonces

\* While a call has the messages and is not in the middle of a swap, nobody is.
LEMMA AtRest ==
    ASSUME IInv, NEW t \in Threads, pc[t] \in UnderAny, pc[t] \notin MidSwap
    PROVE  nonces = StoredNonces
<1>1. \A u \in Threads : pc[u] \notin MidSwap
  BY Alone DEF IInv, UnderAny, MidSwap, UnderNonces, UnderMessages
<1> QED
  BY <1>1 DEF IInv, NoncesByStatement

\* Under its guards a call's findings are out of the reach of the other threads.
LEMMA OthersData ==
    ASSUME IInv, NEW t \in Threads, NEW u \in Threads \ {t},
           pc'[u] = pc[u], call'[u] = call[u],
           UNCHANGED <<messages, nonces>> \/ pc[t] \in UnderAny,
           UNCHANGED group_orders \/ pc[t] \in UnderOrders
    PROVE  CallChecks(u)' /\ NoncesMidSwap(u)'
<1>1. CallChecks(u) /\ NoncesMidSwap(u)
  BY DEF IInv, ChecksHold, NoncesByStatement
<1>2. CASE pc[u] \in UnderOrders
  <2>1. UNCHANGED group_orders
    BY <1>2, Alone DEF IInv
  <2> QED
    BY <1>1, <1>2, <2>1 DEF CallChecks, NoncesMidSwap, UnderOrders, next_order
<1>3. CASE pc[u] \in UnderAny
  <2>1. messages' = messages /\ nonces' = nonces
    BY <1>3, Alone DEF IInv, UnderAny
  <2>2. StoredNonces' = StoredNonces /\ \A i : contains_key(i)' <=> contains_key(i)
    BY <2>1, StorageFrame DEF contains_key
  <2> QED
    BY <1>1, <1>3, <2>1, <2>2
    DEF CallChecks, NoncesMidSwap, UnderAny, UnderMessages, UnderNonces
<1>4. CASE pc[u] \notin UnderOrders \cup UnderAny
  BY <1>4 DEF CallChecks, NoncesMidSwap, UnderOrders, UnderAny, UnderMessages, UnderNonces
<1> QED
  BY <1>2, <1>3, <1>4

\* So only the thread that steps needs to be looked at.
LEMMA DataStep ==
    ASSUME IInv, NEW t \in Threads, Controlled(t),
           CallChecks(t)', NoncesMidSwap(t)',
           \/ /\ UNCHANGED <<messages, nonces>>
              /\ pc[t] \notin MidSwap /\ pc'[t] \notin MidSwap
           \/ /\ pc[t] \in UnderAny
              /\ pc'[t] \notin MidSwap => nonces' = StoredNonces',
           UNCHANGED group_orders \/ pc[t] \in UnderOrders
    PROVE  ChecksHold' /\ NoncesByStatement'
<1>1. \A u \in Threads : CallChecks(u)' /\ NoncesMidSwap(u)'
  BY OthersData DEF Controlled
<1>2. (\A u \in Threads : pc'[u] \notin MidSwap) => nonces' = StoredNonces'
  <2>1. CASE UNCHANGED <<messages, nonces>> /\ pc[t] \notin MidSwap
    <3>1. (\A u \in Threads : pc'[u] \notin MidSwap) => nonces = StoredNonces
      BY <2>1 DEF Controlled, IInv, NoncesByStatement
    <3> QED
      BY <2>1, <3>1, StorageFrame
  <2>2. CASE pc'[t] \notin MidSwap => nonces' = StoredNonces'
    BY <2>2
  <2> QED
    BY <2>1, <2>2
<1> QED
  BY <1>1, <1>2 DEF ChecksHold, NoncesByStatement

\* Statements that take or drop a guard, look something up, or begin a call.
LEMMA QuietData ==
    ASSUME IInv, NEW t \in Threads, Controlled(t),
           \/ BeginCreate(t) \/ BeginUpdate(t) \/ BeginDelete(t) \/ BeginSetStatus(t)
           \/ BeginRead(t) \/ Acquire(t) \/ Return(t) \/ CreateNext(t) \/ CreateStore(t)
           \/ CreateId(t) \/ UpdateId(t)
    PROVE  ChecksHold' /\ NoncesByStatement' /\ NoncesDiffer'
<1>1. UNCHANGED <<messages, nonces>>
  BY DEF BeginCreate, BeginUpdate, BeginDelete, BeginSetStatus, BeginRead, Acquire, Return,
         CreateNext, CreateStore, CreateId, UpdateId, storageVars
<1>2. NoncesDiffer' /\ StoredNonces' = StoredNonces
      /\ \A i : contains_key(i)' <=> contains_key(i)
  BY <1>1, StorageFrame DEF IInv, contains_key
<1> USE DEF Goto, At, IInv, TypeOK
<1>3. CASE \/ BeginCreate(t) \/ BeginUpdate(t) \/ BeginDelete(t) \/ BeginSetStatus(t)
           \/ BeginRead(t) \/ Return(t)
  <2>1. pc[t] \in {"idle", "return"} /\ UNCHANGED group_orders
        /\ pc'[t] \in {"c_orders", "u_messages", "d_messages", "s_messages", "r_messages",
                       "idle", "return"}
    BY <1>3 DEF BeginCreate, BeginUpdate, BeginDelete, BeginSetStatus, BeginRead, Begin,
                Return, storageVars
  <2>2. CallChecks(t)' /\ NoncesMidSwap(t)' /\ pc[t] \notin MidSwap /\ pc'[t] \notin MidSwap
    BY <2>1 DEF CallChecks, NoncesMidSwap, MidSwap
  <2> QED
    BY <1>1, <1>2, <2>1, <2>2, DataStep
<1>4. CASE Acquire(t)
  <2>1. /\ pc[t] \in DOMAIN GuardAt /\ pc'[t] = Locked[pc[t]]
        /\ call' = call /\ UNCHANGED group_orders
    BY <1>4 DEF Acquire, storageVars
  <2>2. CallChecks(t)' /\ NoncesMidSwap(t)' /\ pc[t] \notin MidSwap /\ pc'[t] \notin MidSwap
    BY <1>2, <2>1 DEF CallChecks, NoncesMidSwap, MidSwap, GuardAt, Locked, ChecksHold
  <2> QED
    BY <1>1, <1>2, <2>1, <2>2, DataStep
<1>5. CASE CreateNext(t)
  <2>1. call[t] \in Create /\ pc[t] = "c_next" /\ pc'[t] = "c_store" /\ UNCHANGED group_orders
    BY <1>5 DEF CreateNext, CallTypeOK, storageVars
  <2>2. call'[t] = [call[t] EXCEPT !.order = next_order(call[t].group_id)]
    BY <1>5 DEF CreateNext
  <2>3. call'[t].order = next_order(call[t].group_id) /\ call'[t].group_id = call[t].group_id
    BY <2>1, <2>2 DEF Create
  <2>4. CallChecks(t)' /\ NoncesMidSwap(t)' /\ pc[t] \notin MidSwap /\ pc'[t] \notin MidSwap
    BY <2>1, <2>3 DEF CallChecks, NoncesMidSwap, MidSwap, next_order
  <2> QED
    BY <1>1, <1>2, <2>1, <2>4, DataStep
<1>6. CASE CreateStore(t)
  <2>1. pc[t] = "c_store" /\ pc'[t] = "c_messages" /\ pc[t] \in UnderOrders
    BY <1>6 DEF CreateStore, UnderOrders
  <2>2. CallChecks(t)' /\ NoncesMidSwap(t)' /\ pc[t] \notin MidSwap /\ pc'[t] \notin MidSwap
    BY <2>1 DEF CallChecks, NoncesMidSwap, MidSwap
  <2> QED
    BY <1>1, <1>2, <2>1, <2>2, DataStep
<1>7. CASE CreateId(t) \/ UpdateId(t)
  <2>1. /\ UNCHANGED group_orders /\ call' = call /\ pc[t] \in {"c_id", "u_id"}
        /\ \/ pc'[t] = "return"
           \/ pc'[t] = "c_nonces" /\ ~contains_key(call[t].id)
           \/ pc'[t] = "u_nonces" /\ contains_key(call[t].id)
    BY <1>7 DEF CreateId, UpdateId, DuplicateId, storageVars
  <2>2. CallChecks(t)' /\ NoncesMidSwap(t)' /\ pc[t] \notin MidSwap /\ pc'[t] \notin MidSwap
    BY <1>2, <2>1 DEF CallChecks, NoncesMidSwap, MidSwap
  <2> QED
    BY <1>1, <1>2, <2>1, <2>2, DataStep
<1> QED
  BY <1>3, <1>4, <1>5, <1>6, <1>7

\* create_message: the nonce is checked and taken, then the message stored.
LEMMA CreateData ==
    ASSUME IInv, NEW t \in Threads, Controlled(t), CreateNonce(t) \/ CreateInsert(t)
    PROVE  ChecksHold' /\ NoncesByStatement' /\ NoncesDiffer'
<1> USE DEF Goto, At, IInv, TypeOK
<1>1. CASE CreateNonce(t)
  <2>1. /\ pc[t] = "c_nonce" /\ call' = call /\ UNCHANGED <<messages, group_orders>>
        /\ pc'[t] = IF DuplicateNonce(call[t].nonce) THEN "return" ELSE "c_insert"
        /\ nonces' = nonces \cup {call[t].nonce}
    BY <1>1 DEF CreateNonce
  <2>2. nonces = StoredNonces /\ pc[t] \in UnderAny
    BY <2>1, AtRest DEF UnderAny, UnderNonces, MidSwap
  <2>3. NoncesDiffer' /\ StoredNonces' = StoredNonces /\ contains_key(call[t].id)' = contains_key(call[t].id)
    BY <2>1, StorageFrame DEF contains_key
  <2>4. CallChecks(t)' /\ NoncesMidSwap(t)'
    BY <2>1, <2>2, <2>3 DEF CallChecks, NoncesMidSwap, ChecksHold, DuplicateNonce
  <2>5. pc'[t] \notin MidSwap => nonces' = StoredNonces'
    BY <2>1, <2>2, <2>3 DEF MidSwap, DuplicateNonce
  <2> QED
    BY <2>1, <2>2, <2>3, <2>4, <2>5, DataStep
<1>2. CASE CreateInsert(t)
  <2>1. /\ pc[t] = "c_insert" /\ pc'[t] = "return" /\ UNCHANGED <<nonces, group_orders>>
        /\ pc[t] \in UnderAny
    BY <1>2 DEF CreateInsert, UnderAny, UnderNonces
  <2>2. PICK m \in Message : /\ m.nonce = call[t].nonce
                             /\ messages' = [messages EXCEPT ![call[t].id] = m]
    BY <1>2, InsertWrites
  <2>3. call[t].id \in MessageIds \ Stored /\ m.nonce \notin StoredNonces
    BY <1>2, <2>1, <2>2, InsertWrites DEF ChecksHold, CallChecks, Stored
  <2>4. StoredNonces' = StoredNonces \cup {m.nonce} /\ NoncesDiffer'
    BY <2>2, <2>3, NonceAdded DEF StorageTypeOK, MessagesTypeOK
  <2>5. nonces' = StoredNonces'
    BY <2>1, <2>2, <2>4 DEF NoncesByStatement, NoncesMidSwap
  <2>6. CallChecks(t)' /\ NoncesMidSwap(t)'
    BY <2>1 DEF CallChecks, NoncesMidSwap
  <2> QED
    BY <2>1, <2>4, <2>5, <2>6, DataStep
<1> QED
  BY <1>1, <1>2

\* update_message: the nonce is checked, swapped, and then the message changed.
LEMMA UpdateData ==
    ASSUME IInv, NEW t \in Threads, Controlled(t),
           UpdateNonce(t) \/ UpdateAdd(t) \/ UpdateWrite(t)
    PROVE  ChecksHold' /\ NoncesByStatement' /\ NoncesDiffer'
<1> USE DEF Goto, At, IInv, TypeOK
<1>1. CASE UpdateNonce(t)
  <2>1. /\ pc[t] = "u_nonce" /\ call' = call /\ UNCHANGED <<messages, group_orders>>
        /\ \/ /\ pc'[t] = "u_add" /\ NonceFree(call[t].id, call[t].nonce)
              /\ nonces' = nonces \ {messages[call[t].id].nonce}
           \/ pc'[t] = "return" /\ nonces' = nonces
    BY <1>1 DEF UpdateNonce
  <2>2. nonces = StoredNonces /\ pc[t] \in UnderAny
    BY <2>1, AtRest DEF UnderAny, UnderNonces, MidSwap
  <2>3. NoncesDiffer' /\ StoredNonces' = StoredNonces /\ contains_key(call[t].id)' = contains_key(call[t].id)
    BY <2>1, StorageFrame DEF contains_key
  <2>4. CallChecks(t)' /\ NoncesMidSwap(t)'
    BY <2>1, <2>2, <2>3 DEF CallChecks, NoncesMidSwap, ChecksHold, NonceFree
  <2>5. pc'[t] \notin MidSwap => nonces' = StoredNonces'
    BY <2>1, <2>2, <2>3 DEF MidSwap
  <2> QED
    BY <2>1, <2>2, <2>3, <2>4, <2>5, DataStep
<1>2. CASE UpdateAdd(t)
  <2>1. /\ pc[t] = "u_add" /\ pc'[t] = "u_write" /\ call' = call
        /\ UNCHANGED <<messages, group_orders>> /\ pc[t] \in UnderAny
        /\ nonces' = nonces \cup {call[t].nonce}
    BY <1>2 DEF UpdateAdd, UnderAny, UnderNonces
  <2>2. NoncesDiffer' /\ StoredNonces' = StoredNonces /\ contains_key(call[t].id)' = contains_key(call[t].id)
    BY <2>1, StorageFrame DEF contains_key
  <2>3. CallChecks(t)' /\ NoncesMidSwap(t)' /\ pc'[t] \in MidSwap
    BY <2>1, <2>2 DEF CallChecks, NoncesMidSwap, ChecksHold, NoncesByStatement, MidSwap
  <2> QED
    BY <2>1, <2>2, <2>3, DataStep
<1>3. CASE UpdateWrite(t)
  <2>1. /\ pc[t] = "u_write" /\ pc'[t] = "return" /\ UNCHANGED <<nonces, group_orders>>
        /\ pc[t] \in UnderAny
    BY <1>3 DEF UpdateWrite, UnderAny, UnderNonces
  <2>2. PICK m \in Message : /\ m.nonce = call[t].nonce
                             /\ messages' = [messages EXCEPT ![call[t].id] = m]
    BY <1>3, UpdateWrites
  <2>3. call[t].id \in Stored
    BY <1>3, UpdateWrites
  <2>4. m.nonce = messages[call[t].id].nonce \/ m.nonce \notin StoredNonces
    BY <2>1, <2>2 DEF ChecksHold, CallChecks
  <2>5. /\ StoredNonces' = (StoredNonces \ {messages[call[t].id].nonce}) \cup {m.nonce}
        /\ NoncesDiffer'
    BY <2>2, <2>3, <2>4, NonceReplaced DEF StorageTypeOK, MessagesTypeOK
  <2>6. nonces' = StoredNonces'
    BY <2>1, <2>2, <2>5 DEF NoncesByStatement, NoncesMidSwap
  <2>7. CallChecks(t)' /\ NoncesMidSwap(t)'
    BY <2>1 DEF CallChecks, NoncesMidSwap
  <2> QED
    BY <2>1, <2>5, <2>6, <2>7, DataStep
<1> QED
  BY <1>1, <1>2, <1>3

\* delete_message and update_sync_status do not touch the nonces.
LEMMA MarkData ==
    ASSUME IInv, NEW t \in Threads, Controlled(t), DeleteMark(t) \/ StatusSet(t)
    PROVE  ChecksHold' /\ NoncesByStatement' /\ NoncesDiffer'
<1> USE DEF Goto, At, IInv, TypeOK
<1>1. /\ pc[t] \in {"d_mark", "s_set"} /\ pc'[t] = "return"
      /\ pc[t] \in UnderAny /\ pc[t] \notin MidSwap
  BY DEF DeleteMark, StatusSet, UnderAny, UnderMessages, MidSwap
<1>2. CallChecks(t)' /\ NoncesMidSwap(t)' /\ nonces = StoredNonces
  BY <1>1, AtRest DEF CallChecks, NoncesMidSwap
<1>3. UNCHANGED <<nonces, group_orders>> /\ StoredNonces' = StoredNonces /\ NoncesDiffer'
  <2>1. CASE UNCHANGED storageVars
    BY <2>1, StorageFrame DEF storageVars
  <2>2. CASE ~UNCHANGED storageVars
    BY <2>2, MarkWrites, NoncesUntouched DEF StorageTypeOK, MessagesTypeOK
  <2> QED
    BY <2>1, <2>2
<1> QED
  BY <1>1, <1>2, <1>3, DataStep

(***************************************************************************)
(* The invariant.                                                          *)
(***************************************************************************)
LEMMA InitIInv ==
    ASSUME Init
    PROVE  IInv
<1>1. Stored = {} /\ StoredNonces = {}
  BY DEF Init, StorageInit, Stored, StoredNonces, contains_key
<1>2. TypeOK
  BY DEF Init, StorageInit, TypeOK, StorageTypeOK, CallTypeOK, Statements, GuardAt
<1>3. GuardsByStatement
  BY DEF Init, GuardsByStatement, Unlocked, UnderOrders, UnderMessages, UnderNonces
<1>4. Exclusive
  BY <1>3, GuardsHeld DEF Init, Exclusive, Unlocked
<1>5. ChecksHold /\ NoncesByStatement /\ NoncesDiffer
  BY <1>1 DEF Init, StorageInit, ChecksHold, CallChecks, NoncesByStatement, NoncesMidSwap,
              NoncesDiffer
<1> QED
  BY <1>2, <1>3, <1>4, <1>5 DEF IInv

LEMMA NextIInv ==
    ASSUME IInv, [Next]_vars
    PROVE  IInv'
<1>1. ASSUME NEW t \in Threads, Step(t) PROVE IInv'
  <2>1. Controlled(t)
    BY <1>1, StepControl DEF IInv
  <2>2. ChecksHold' /\ NoncesByStatement' /\ NoncesDiffer'
    BY <1>1, <2>1, QuietData, CreateData, UpdateData, MarkData DEF Step
  <2> QED
    BY <2>1, <2>2 DEF IInv, Controlled
<1>2. CASE UNCHANGED vars
  <2>1. UNCHANGED <<messages, group_orders, nonces, now, pc, call, held>>
    BY <1>2 DEF vars, callVars, storageVars
  <2>2. StoredNonces' = StoredNonces /\ (NoncesDiffer <=> NoncesDiffer')
    BY <2>1, StorageFrame
  <2>3. TypeOK' /\ GuardsByStatement'
    BY <2>1 DEF IInv, TypeOK, StorageTypeOK, CallTypeOK, GuardsByStatement
  <2>4. Exclusive'
    BY <2>1 DEF IInv, Exclusive, Holds
  <2>5. ChecksHold' /\ NoncesByStatement'
    BY <2>1, <2>2 DEF IInv, ChecksHold, CallChecks, next_order, contains_key,
                      NoncesByStatement, NoncesMidSwap
  <2> QED
    BY <2>2, <2>3, <2>4, <2>5 DEF IInv
<1> QED
  BY <1>1, <1>2 DEF Next

\* memory.rs: the statements, arguments and guards of the calls, the checks made
\* under the guards, and the nonces between the statements, are as IInv says.
THEOREM Invariant == Spec => []IInv
<1> QED
  BY InitIInv, NextIInv, PTL DEF Spec

\* memory.rs: every thread is at a statement with the arguments it needs, and the
\* three maps have their types.
THEOREM TypeCorrect == Spec => []TypeOK
<1>1. IInv => TypeOK
  BY DEF IInv
<1> QED
  BY <1>1, Invariant, PTL

\* memory.rs: "always acquire `messages` before `nonces`" is enough to rule out a
\* circle of waiting calls, however many there are.
THEOREM NoDeadlock == Spec => []NoCircularWait
<1>1. IInv => NoCircularWait
  BY LocksOrdered DEF IInv
<1> QED
  BY <1>1, Invariant, PTL

\* create_message and update_message: whenever the nonces lock is free, the set
\* holds the nonces of the stored messages, and no two of them share one.
THEOREM SwapsHidden == Spec => []SwapHidden
<1>1. ASSUME IInv PROVE SwapHidden
  <2> SUFFICES ASSUME \A t \in Threads : ~Holds(t, Guard("nonces", "write"))
               PROVE  nonces = StoredNonces /\ NoncesDiffer
    BY DEF SwapHidden
  <2>1. \A t \in Threads : pc[t] \notin MidSwap
    BY <1>1, GuardsHeld DEF IInv, MidSwap, UnderNonces, Writes
  <2> QED
    BY <1>1, <2>1 DEF IInv, NoncesByStatement
<1> QED
  BY <1>1, Invariant, PTL

(***************************************************************************)
(* The statements of a call amount to one step of AtomicStorage.           *)
(***************************************************************************)
\* create_message's two critical sections, each at its last statement.
LEMMA CreateIsAtomic ==
    ASSUME IInv, NEW t \in Threads, CreateStore(t) \/ CreateInsert(t)
    PROVE  Atomic!Next
<1>1. CASE CreateStore(t)
  <2>1. call[t].group_id \in Groups /\ call[t].order = next_order(call[t].group_id)
    BY <1>1 DEF CreateStore, IInv, TypeOK, CallTypeOK, Create, ChecksHold, CallChecks
  <2>2. StoredNonces' = StoredNonces
    BY <1>1, StorageFrame DEF CreateStore
  <2>3. Atomic!TakeOrder(call[t].group_id)
    BY <1>1, <2>1, <2>2 DEF CreateStore, Atomic!TakeOrder, Atomic!next_order, next_order
  <2> QED
    BY <2>1, <2>3 DEF Atomic!Next
<1>2. CASE CreateInsert(t)
  <2> PICK i \in MessageIds : i = call[t].id
    BY <1>2, InsertWrites DEF IInv
  <2>1. PICK m \in Message : /\ m.nonce = call[t].nonce
                             /\ messages' = [messages EXCEPT ![i] = m]
    BY <1>2, InsertWrites DEF IInv
  <2>2. i \in MessageIds \ Stored /\ m.nonce \notin StoredNonces
    BY <1>2, <2>1, InsertWrites
    DEF CreateInsert, At, IInv, ChecksHold, CallChecks, Stored
  <2>3. messages'[i] = m
    BY <2>1, <2>2, MessageWritten DEF IInv, TypeOK, StorageTypeOK, MessagesTypeOK
  <2>4. StoredNonces' = StoredNonces \cup {m.nonce}
    BY <2>1, <2>2, NonceAdded DEF IInv, TypeOK, StorageTypeOK, MessagesTypeOK
  <2>5. ~contains_key(i) /\ contains_key(i)'
    BY <2>2, <2>3, NoneIsNoMessage DEF Stored, contains_key
  <2>6. Atomic!Inserted(i)
    BY <1>2, <2>1, <2>2, <2>3, <2>4, <2>5
    DEF CreateInsert, contains_key, Atomic!Inserted, Atomic!contains_key, Atomic!InsertMessage,
        Atomic!DuplicateId, Atomic!DuplicateNonce
  <2> QED
    BY <2>2, <2>6 DEF Atomic!Next
<1> QED
  BY <1>1, <1>2

\* update_message takes effect at its last statement, nonce and all.
LEMMA UpdateIsAtomic ==
    ASSUME IInv, NEW t \in Threads, UpdateWrite(t)
    PROVE  Atomic!Next
<1> PICK i \in Stored : i = call[t].id
  BY UpdateWrites DEF IInv
<1> DEFINE m == update_content(messages[i], call[t].content, call[t].nonce, now)
<1>1. /\ messages' = [messages EXCEPT ![i] = m] /\ Tick /\ UNCHANGED group_orders
      /\ pc[t] = "u_write" /\ now \in Nat
  BY DEF UpdateWrite, At, IInv, TypeOK, StorageTypeOK
<1>2. call[t] \in Update /\ i \in Stored
  BY UpdateWrites DEF IInv
<1>3. i \in MessageIds /\ messages[i] \in Message
  BY <1>2, StoredIsMessage DEF IInv, TypeOK, StorageTypeOK, MessagesTypeOK
<1>4. m \in Message /\ m.nonce = call[t].nonce /\ m.content = call[t].content
  BY <1>1, <1>2, <1>3, UpdateContentType DEF Update
<1>5. messages'[i] = m
  BY <1>1, <1>3, <1>4, MessageWritten DEF IInv, TypeOK, StorageTypeOK, MessagesTypeOK
<1>6. m.nonce = messages[i].nonce \/ m.nonce \notin StoredNonces
  BY <1>1, <1>4 DEF IInv, ChecksHold, CallChecks
<1>7. StoredNonces' = (StoredNonces \ {messages[i].nonce}) \cup {m.nonce}
  BY <1>1, <1>2, <1>4, <1>6, NonceReplaced DEF IInv, TypeOK, StorageTypeOK, MessagesTypeOK
<1>8. contains_key(i) /\ contains_key(i)'
  BY <1>2, <1>4, <1>5, NoneIsNoMessage DEF Stored, contains_key
<1>9. m = Atomic!update_content(messages[i], messages'[i].content, messages'[i].nonce, now)
  BY <1>4, <1>5 DEF update_content, Atomic!update_content
<1>10. Atomic!Updated(i)
  BY <1>1, <1>4, <1>5, <1>6, <1>7, <1>8, <1>9
  DEF Tick, contains_key, Atomic!Updated, Atomic!contains_key, Atomic!UpdateMessage,
      Atomic!NonceFree, Atomic!Tick
<1> QED
  BY <1>3, <1>10 DEF Atomic!Next

\* delete_message and update_sync_status, or nothing if the message is not there.
LEMMA MarkIsAtomic ==
    ASSUME IInv, NEW t \in Threads, DeleteMark(t) \/ StatusSet(t), ~UNCHANGED storageVars
    PROVE  Atomic!Next
<1> PICK i \in Stored : i = call[t].id
  BY MarkWrites DEF IInv
<1>1. i \in MessageIds /\ messages[i] \in Message
  BY MarkWrites, StoredIsMessage DEF IInv, TypeOK, StorageTypeOK, MessagesTypeOK
<1>2. StoredNonces' = StoredNonces
  BY MarkWrites, NoncesUntouched DEF IInv, TypeOK, StorageTypeOK, MessagesTypeOK
<1>3. CASE DeleteMark(t)
  <2>1. DeleteMessage(i)
    BY <1>3 DEF DeleteMark
  <2>2. Atomic!DeleteMessage(i)
    BY <1>2, <2>1 DEF DeleteMessage, Tick, contains_key, mark_for_deletion,
                      Atomic!DeleteMessage, Atomic!Tick, Atomic!contains_key,
                      Atomic!mark_for_deletion
  <2> QED
    BY <1>1, <2>2 DEF Atomic!Next
<1>4. CASE StatusSet(t)
  <2> DEFINE s == call[t].sync_status
             m == SetSyncStatus(messages[i], s, SomePatch(i), now)
  <2>1. UpdateSyncStatus(i, s, SomePatch(i)) /\ s \in SyncStatus /\ now \in Nat
    BY <1>4 DEF StatusSet, At, IInv, TypeOK, StorageTypeOK, CallTypeOK, SetStatus
  <2>2. SomePatch(i) \in Patch
    BY <1>1 DEF SomePatch, Patch, Message, SyncStatus
  <2>3. m \in Message /\ m.sync_status = s /\ m.quilt_patch_id = SomePatch(i)
    BY <1>1, <2>1, <2>2, SetSyncStatusType
  <2>4. messages' = [messages EXCEPT ![i] = m]
    BY <2>1 DEF UpdateSyncStatus
  <2>5. messages'[i] = m /\ contains_key(i)'
    BY <1>1, <2>3, <2>4, MessageWritten, NoneIsNoMessage
    DEF contains_key, IInv, TypeOK, StorageTypeOK, MessagesTypeOK
  <2>6. m = Atomic!SetSyncStatus(messages[i], messages'[i].sync_status,
                                 messages'[i].quilt_patch_id, now)
    BY <2>3, <2>5 DEF SetSyncStatus, Atomic!SetSyncStatus
  <2>7. Atomic!StatusSet(i)
    BY <1>2, <2>1, <2>4, <2>5, <2>6
    DEF UpdateSyncStatus, Tick, contains_key, Atomic!StatusSet, Atomic!UpdateSyncStatus,
        Atomic!Tick, Atomic!contains_key
  <2> QED
    BY <1>1, <2>7 DEF Atomic!Next
<1> QED
  BY <1>3, <1>4

\* The other statements change nothing that a caller can see.
LEMMA StepIsAtomic ==
    ASSUME IInv, [Next]_vars
    PROVE  [Atomic!Next]_Atomic!storageVars
<1>1. ASSUME NEW t \in Threads, BeginCreate(t) PROVE Atomic!Next
  <2>1. StoredNonces' = StoredNonces
    BY <1>1, StorageFrame DEF BeginCreate
  <2> QED
    BY <1>1, <2>1 DEF BeginCreate, Tick, Atomic!Next, Atomic!StampTaken, Atomic!Tick
<1>2. ASSUME UNCHANGED <<messages, group_orders, now>> PROVE UNCHANGED Atomic!storageVars
  BY <1>2, StorageFrame DEF Atomic!storageVars
<1>3. ASSUME NEW t \in Threads, Step(t), ~BeginCreate(t), ~CreateStore(t), ~CreateInsert(t),
             ~UpdateWrite(t), ~DeleteMark(t), ~StatusSet(t)
      PROVE  UNCHANGED <<messages, group_orders, now>>
  BY <1>3 DEF Step, BeginUpdate, BeginDelete, BeginSetStatus, BeginRead, Acquire, Return,
              CreateNext, CreateId, CreateNonce, UpdateId, UpdateNonce, UpdateAdd, storageVars
<1>4. CASE UNCHANGED vars \/ UNCHANGED storageVars
  BY <1>2, <1>4 DEF vars, storageVars
<1> QED
  BY <1>1, <1>2, <1>3, <1>4, CreateIsAtomic, UpdateIsAtomic, MarkIsAtomic DEF Next

\* memory.rs: callers may take every critical section for one step (create_message
\* for two), as the modules above Storage do.
THEOREM CallsAtomic == Spec => CallsAreAtomic
<1>1. ASSUME Init PROVE Atomic!StorageInit
  <2>1. StoredNonces = {}
    BY <1>1 DEF Init, StorageInit, StoredNonces, Stored, contains_key
  <2> QED
    BY <1>1, <2>1 DEF Init, StorageInit, Atomic!StorageInit
<1> QED
  BY <1>1, Invariant, StepIsAtomic, PTL DEF Spec, CallsAreAtomic, Atomic!Spec
=============================================================================
