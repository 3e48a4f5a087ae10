--------------------------- MODULE LocksInvariant ----------------------------
(***************************************************************************)
(* The inductive invariant behind the properties of the locking: which     *)
(* guards a thread has at each statement, and what the storage looks like  *)
(* while it has them.  TLC checks it on a small instance, LocksProofs      *)
(* proves it.                                                              *)
(***************************************************************************)
EXTENDS Locks

Writes(lock) == Guard(lock, "write")

Reads(lock) == Guard(lock, "read")

\* The statements run under no guard, under that of the counters, of the
\* messages, and of messages and nonces.
Unlocked == {"idle", "c_orders", "c_messages", "u_messages", "d_messages",
             "s_messages", "r_messages"}

UnderOrders == {"c_next", "c_store"}

UnderMessages == {"c_id", "c_nonces", "u_id", "u_nonces", "d_mark", "s_set"}

UnderNonces == {"c_nonce", "c_insert", "u_nonce", "u_add", "u_write"}

\* A thread has the guards its statement needs, oldest first; a function that
\* returns still has all or some of those it created.
GuardsByStatement ==
    \A t \in Threads :
        /\ pc[t] \in Unlocked => held[t] = <<>>
        /\ pc[t] \in UnderOrders => held[t] = <<Writes("group_orders")>>
        /\ pc[t] \in UnderMessages => held[t] = <<Writes("messages")>>
        /\ pc[t] \in UnderNonces => held[t] = <<Writes("messages"), Writes("nonces")>>
        /\ pc[t] = "return" => held[t] \in {<<Reads("messages")>>, <<Writes("messages")>>,
                                            <<Writes("messages"), Writes("nonces")>>}

\* What RwLock guarantees: the guards of different threads are compatible.
Exclusive ==
    \A t, u \in Threads : t # u =>
        \A g, h \in Guards : Holds(t, g) /\ Holds(u, h) => ~Conflict(g, h)

\* What a call has found out under its guards stays true while it has them.
CallChecks(t) ==
    /\ pc[t] = "c_store" => call[t].order = next_order(call[t].group_id)
    /\ pc[t] \in {"c_nonces", "c_nonce", "c_insert"} => ~contains_key(call[t].id)
    /\ pc[t] \in {"u_nonces", "u_nonce", "u_add", "u_write"} => contains_key(call[t].id)
    /\ pc[t] = "c_insert" => call[t].nonce \notin StoredNonces
    /\ pc[t] \in {"u_add", "u_write"} =>
          \/ call[t].nonce = messages[call[t].id].nonce
          \/ call[t].nonce \notin StoredNonces

ChecksHold == \A t \in Threads : CallChecks(t)

\* The statements between which the nonces run ahead of the messages.
MidSwap == {"c_insert", "u_add", "u_write"}

\* The set of nonces in the middle of a call, ...
NoncesMidSwap(t) ==
    /\ pc[t] = "c_insert" => nonces = StoredNonces \cup {call[t].nonce}
    /\ pc[t] = "u_add" => nonces = StoredNonces \ {messages[call[t].id].nonce}
    /\ pc[t] = "u_write" =>
          nonces = (StoredNonces \ {messages[call[t].id].nonce}) \cup {call[t].nonce}

\* ... and between calls.
NoncesByStatement ==
    /\ \A t \in Threads : NoncesMidSwap(t)
    /\ (\A t \in Threads : pc[t] \notin MidSwap) => nonces = StoredNonces

IInv ==
    /\ TypeOK
    /\ GuardsByStatement
    /\ Exclusive
    /\ ChecksHold
    /\ NoncesByStatement
    /\ NoncesDiffer
=============================================================================
