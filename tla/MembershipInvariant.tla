------------------------- MODULE MembershipInvariant -------------------------
(***************************************************************************)
(* The inductive invariant behind the properties of MembershipSync: what   *)
(* the events say about the entries on chain, and where the cursors of the *)
(* service stand on it.  TLC checks it on a small instance,                *)
(* MembershipProofs proves it.                                             *)
(***************************************************************************)
EXTENDS MembershipSync

\* Event n tells all that changed on chain with it, and permissions are granted
\* to members and revoked from members only.
Explained(n) ==
    LET e == ledger[n].event
    IN  /\ ledger[n].held = Announced(e, HeldAfter(n - 1))
        /\ e.kind \in {"PermissionsGranted", "PermissionsRevoked"} =>
              HeldAfter(n - 1)[e.account] # None

LedgerExplained == \A n \in 1..Len(ledger) : Explained(n)

\* Who is named by no event of a stretch has the same entry after it.
UnnamedHoldTheSame ==
    \A m, n \in 0..Len(ledger), a \in Accounts :
        m <= n /\ a \notin Named(m, n) => HeldAfter(m)[a] = HeldAfter(n)[a]

\* Checkpoints follow each other on the ledger.
CheckpointsInOrder ==
    /\ \A k \in 0..Len(chain) : End(k) \in 0..Len(ledger)
    /\ \A j, k \in 0..Len(chain) : j <= k => End(j) <= End(k)

\* The last checkpoint that counts as processed, 0 before the first.
Processed == IF last_cursor = None THEN 0 ELSE last_cursor

CursorsInOrder ==
    /\ cursor \in 0..Len(chain)
    /\ Processed \in 0..cursor
    /\ applied \in End(Processed)..End(cursor)
    /\ Idle <=> Processed = cursor

IInv ==
    /\ TypeOK
    /\ LedgerExplained
    /\ UnnamedHoldTheSame
    /\ CheckpointsInOrder
    /\ CursorsInOrder
    /\ CacheMatchesChain
    /\ NoInventedPermission
=============================================================================
