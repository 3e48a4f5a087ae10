--------------------------- MODULE MembershipSync ---------------------------
(***************************************************************************)
(* MembershipSyncService (services/membership_sync.rs): follows the Sui    *)
(* checkpoint stream and applies the group events in it to the cache.      *)
(*                                                                         *)
(* The chain and the fullnode are external.  `ledger` is the sequence of   *)
(* all events emitted so far; with each one it records the entry that      *)
(* every account has on chain after it.  `chain` cuts it into checkpoints, *)
(* each with any number of events of any accounts, or none.  The contract  *)
(* is modelled from what membership.rs says of it: a member exists while   *)
(* it holds at least one permission, and joining or leaving is announced   *)
(* by an event of its own.                                                 *)
(*                                                                         *)
(* `missed` is a history variable no code reads: the accounts some of      *)
(* whose events never reached the cache, and which no MemberAdded or       *)
(* MemberRemoved has reset since.                                          *)
(***************************************************************************)
EXTENDS Membership, Sequences

CONSTANTS
    Bundles,            \* bound: the sets of permissions one call grants or revokes
    MaxEvents,          \* bound: the ledger stops growing there
    MaxCheckpoints,     \* bound: the chain stops growing there
    EmptyResponses      \* may a response of the stream carry no checkpoint?

ASSUME MembershipSyncAssumption ==
    /\ Bundles \subseteq SUBSET ContractPermissions
    /\ MaxEvents \in Nat /\ MaxCheckpoints \in Nat /\ EmptyResponses \in BOOLEAN

VARIABLES
    ledger,         \* external: the events, each with what is held after it
    chain,          \* external: how many events there are up to the end of each checkpoint
    stream,         \* external: number of the next checkpoint sent, or None
    last_cursor,    \* the field of that name
    cursor,         \* the cursor of the checkpoint being processed
    applied,        \* how far on the ledger the service has come
    missed

chainVars == <<ledger, chain>>

syncVars == <<stream, last_cursor, cursor, applied>>

vars == <<members, chainVars, syncVars, missed>>

\* What an account has on chain: its permissions, or None when it is no member.
Entry == (SUBSET ContractPermissions) \cup {None}

Record == [event : GroupsEvent, held : [Accounts -> Entry]]

NoMembers == [a \in Accounts |-> None]

TypeOK ==
    /\ MembershipTypeOK
    /\ ledger \in Seq(Record)
    /\ chain \in Seq(Nat)
    /\ stream \in Nat \cup {None}
    /\ last_cursor \in Nat \cup {None}
    /\ cursor \in Nat
    /\ applied \in Nat
    /\ missed \subseteq Accounts

Init ==
    /\ MembershipInit
    /\ ledger = <<>>
    /\ chain = <<>>
    /\ stream = None
    /\ last_cursor = None
    /\ cursor = 0
    /\ applied = 0
    /\ missed = {}

HeldIn(l) == IF l = <<>> THEN NoMembers ELSE l[Len(l)].held

\* What is held on chain now, and what was held after event n.
Held == HeldIn(ledger)

HeldAfter(n) == IF n = 0 THEN NoMembers ELSE ledger[n].held

Holds(held, a, p) == held[a] # None /\ p \in held[a]

------------------------------------------------------------------------------
(* The chain: calls of the contract, and checkpoints of what they emitted. *)

Event(kind, a, perms) == [kind |-> kind, account |-> a, permissions |-> perms]

\* The entry that event e makes of an account's entry.
Effect(e, entry) ==
    CASE e.kind = "MemberAdded" -> {}
      [] e.kind = "MemberRemoved" -> None
      [] e.kind = "PermissionsGranted" -> entry \cup e.permissions
      [] e.kind = "PermissionsRevoked" -> entry \ e.permissions

Announced(e, held) ==
    [a \in Accounts |-> IF a = e.account THEN Effect(e, held[a]) ELSE held[a]]

Emit(l, e) == Append(l, [event |-> e, held |-> Announced(e, HeldIn(l))])

Execute(l) ==
    /\ Len(l) <= MaxEvents
    /\ Len(chain) < MaxCheckpoints
    /\ ledger' = l
    /\ UNCHANGED <<members, chain, syncVars, missed>>

ChainGrants(a, perms) ==
    LET joined == IF Held[a] = None THEN Emit(ledger, Event("MemberAdded", a, {})) ELSE ledger
    IN  Execute(Emit(joined, Event("PermissionsGranted", a, perms)))

ChainRevokes(a, perms) ==
    /\ Held[a] # None
    /\ perms \subseteq Held[a]
    /\ LET revoked == Emit(ledger, Event("PermissionsRevoked", a, perms))
       IN  Execute(IF perms = Held[a] THEN Emit(revoked, Event("MemberRemoved", a, {}))
                                      ELSE revoked)

ChainRemoves(a) ==
    /\ Held[a] # None
    /\ Execute(Emit(ledger, Event("MemberRemoved", a, {})))

Checkpoint ==
    /\ Len(chain) < MaxCheckpoints
    /\ chain' = Append(chain, Len(ledger))
    /\ UNCHANGED <<members, ledger, syncVars, missed>>

ChainStep ==
    \/ \E a \in Accounts, perms \in Bundles : ChainGrants(a, perms) \/ ChainRevokes(a, perms)
    \/ \E a \in Accounts : ChainRemoves(a)
    \/ Checkpoint

------------------------------------------------------------------------------
(* run and run_subscription *)

\* The last event up to the end of checkpoint k.
End(k) == IF k = 0 THEN 0 ELSE chain[k]

Idle == applied = End(cursor)

\* The request names no checkpoint to start from: the fullnode decides.  It may
\* start behind what was processed, or after a gap.
Subscribe ==
    /\ stream = None
    /\ stream' \in 1..(Len(chain) + 1)
    /\ UNCHANGED <<members, chainVars, last_cursor, cursor, applied, missed>>

\* The stream ends or breaks; run loops and subscribes again.
StreamEnds ==
    /\ stream # None
    /\ Idle
    /\ stream' = None
    /\ UNCHANGED <<members, chainVars, last_cursor, cursor, applied, missed>>

\* Fault: off by one, the next checkpoint counts as processed.
AlreadyProcessed_Next(k) == last_cursor # None /\ k <= last_cursor + 1

AlreadyProcessed(k) == last_cursor # None /\ k <= last_cursor

Arrives(k) ==
    /\ stream = k
    /\ k \in 1..Len(chain)
    /\ Idle
    /\ stream' = k + 1
    /\ UNCHANGED <<members, chainVars>>

\* The accounts named by the events after m, up to n.
Named(m, n) == {ledger[i].event.account : i \in (m + 1)..n}

Skip(k) ==
    /\ Arrives(k)
    /\ AlreadyProcessed(k)
    /\ UNCHANGED <<last_cursor, cursor, applied, missed>>

\* Process the checkpoint: its events are applied one by one, each under a lock
\* of its own, and last_cursor moves after the last.  The relayer will never ask
\* for the events of the checkpoints it has not seen before this one.
Process(k) ==
    /\ Arrives(k)
    /\ ~AlreadyProcessed(k)
    /\ cursor' = k
    /\ applied' = End(k - 1)
    /\ last_cursor' = IF End(k - 1) = End(k) THEN k ELSE last_cursor
    /\ missed' = missed \cup Named(applied, End(k - 1))

\* A response without a checkpoint still moves last_cursor.
PassOver(k) ==
    /\ EmptyResponses
    /\ Arrives(k)
    /\ ~AlreadyProcessed(k)
    /\ cursor' = k
    /\ applied' = End(k)
    /\ last_cursor' = k
    /\ missed' = missed \cup Named(applied, End(k))

ApplyEvent ==
    /\ ~Idle
    /\ LET e == ledger[applied + 1].event
       IN  /\ apply_event(e)
           /\ missed' = IF e.kind \in {"MemberAdded", "MemberRemoved"}
                        THEN missed \ {e.account} ELSE missed
    /\ applied' = applied + 1
    /\ last_cursor' = IF applied + 1 = End(cursor) THEN cursor ELSE last_cursor
    /\ UNCHANGED <<chainVars, stream, cursor>>

Handle == \E k \in 1..Len(chain) : Skip(k) \/ Process(k) \/ PassOver(k)

SyncStep ==
    \/ Subscribe
    \/ StreamEnds
    \/ Handle
    \/ ApplyEvent

Next == ChainStep \/ SyncStep

Spec == Init /\ [][Next]_vars

\* The service is a task that tokio polls: a checkpoint that has arrived is
\* handled, its events are applied, and run subscribes again.  Nothing is
\* assumed of the chain, and streams may break as often as they like.
FairSpec == Spec /\ WF_vars(Subscribe) /\ WF_vars(Handle) /\ WF_vars(ApplyEvent)

------------------------------------------------------------------------------
(* Properties *)

\* The entries on chain at the point that the service has reached.
View == HeldAfter(applied)

\* What the cache should say of an account that has this entry on chain.
Cached(entry) == IF entry = None THEN None ELSE Parsed(entry)

\* At any moment, in the middle of a checkpoint too, an account none of whose
\* events was missed has exactly the messaging permissions it had on chain after
\* the event applied last, and an entry if and only if it was a member there:
\* whatever was redelivered, skipped or lost before (run_subscription).
CacheMatchesChain == \A a \in Accounts \ missed : members[a] = Cached(View[a])

\* Even for accounts with missed events, the cache never makes up a permission:
\* the account held every cached one after some event up to the one applied last,
\* perhaps only until the next event of the same checkpoint.
NoInventedPermission ==
    \A a \in Accounts, p \in MessagingPermissions :
        has_permission(a, p) => \E n \in 1..applied : Holds(HeldAfter(n), a, p)

\* The service keeps up: a checkpoint that a stream has still to send is applied
\* unless the stream breaks first.  No cursor, repeated or empty response makes
\* it pass over all that follows.
KeepsUp ==
    \A k \in 1..MaxCheckpoints :
        /\ stream # None
        /\ stream <= k
        /\ k <= Len(chain)
        ~> (last_cursor # None /\ last_cursor >= k) \/ stream = None

\* auth/README.md: only authorized group members can act.  A relayer that has
\* processed the whole chain lets nobody through whom the chain does not.
OnlyAuthorizedPass ==
    Idle /\ last_cursor = Len(chain) =>
        \A a \in Accounts, p \in MessagingPermissions :
            has_permission(a, p) => Holds(HeldAfter(End(Len(chain))), a, p)
=============================================================================
