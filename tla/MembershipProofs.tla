-------------------------- MODULE MembershipProofs ---------------------------
(***************************************************************************)
(* Proofs about the permission cache and the service that fills it, for    *)
(* any groups, accounts and permissions, and a ledger and chain of any     *)
(* length, whatever events a checkpoint holds.                             *)
(***************************************************************************)
EXTENDS MembershipInvariant, SequenceTheorems, TLAPS

LEMMA EventTypes ==
    ASSUME NEW a \in Accounts, NEW perms \in SUBSET ContractPermissions,
           NEW kind \in {"MemberAdded", "MemberRemoved", "PermissionsGranted",
                         "PermissionsRevoked"}
    PROVE  /\ Event(kind, a, perms) \in GroupsEvent
           /\ Event(kind, a, perms).kind = kind
           /\ Event(kind, a, perms).account = a
           /\ Event(kind, a, perms).permissions = perms
BY DEF Event, GroupsEvent

(***************************************************************************)
(* The ledger.  Recorded says of any ledger what the invariant says of the *)
(* one of the chain; emitting one event keeps it.                          *)
(***************************************************************************)
After(l, n) == IF n = 0 THEN NoMembers ELSE l[n].held

Tells(l, n) ==
    /\ l[n].held = Announced(l[n].event, After(l, n - 1))
    /\ l[n].event.kind \in {"PermissionsGranted", "PermissionsRevoked"} =>
          After(l, n - 1)[l[n].event.account] # None

Kept(l, m, n, a) ==
    m <= n /\ (\A i \in (m + 1)..n : l[i].event.account # a) => After(l, m)[a] = After(l, n)[a]

Recorded(l) ==
    /\ l \in Seq(Record)
    /\ \A n \in 1..Len(l) : Tells(l, n)
    /\ \A m, n \in 0..Len(l), a \in Accounts : Kept(l, m, n, a)

LEMMA RecordedLedger ==
    TypeOK /\ LedgerExplained /\ UnnamedHoldTheSame <=> TypeOK /\ Recorded(ledger)
<1>1. \A n : HeldAfter(n) = After(ledger, n)
  BY DEF HeldAfter, After
<1>2. LedgerExplained <=> \A n \in 1..Len(ledger) : Tells(ledger, n)
  BY <1>1 DEF LedgerExplained, Explained, Tells
<1>3. \A m, n, a : a \notin Named(m, n) <=> \A i \in (m + 1)..n : ledger[i].event.account # a
  BY DEF Named
<1>4. UnnamedHoldTheSame <=>
        \A m, n \in 0..Len(ledger), a \in Accounts : Kept(ledger, m, n, a)
  <2>1. ASSUME NEW m, NEW n, NEW a
        PROVE  Kept(ledger, m, n, a) <=>
                  (m <= n /\ a \notin Named(m, n) => HeldAfter(m)[a] = HeldAfter(n)[a])
    BY <1>1, <1>3 DEF Kept
  <2> QED
    BY <2>1 DEF UnnamedHoldTheSame
<1> QED
  BY <1>2, <1>4 DEF Recorded, TypeOK

LEMMA HeldInLast ==
    ASSUME NEW l \in Seq(Record)
    PROVE  HeldIn(l) = After(l, Len(l)) /\ HeldIn(l) \in [Accounts -> Entry]
<1>1. Len(l) \in Nat /\ (l = <<>> <=> Len(l) = 0)
  BY EmptySeq
<1>2. ASSUME l # <<>> PROVE l[Len(l)] \in Record
  BY <1>1, <1>2
<1>3. NoMembers \in [Accounts -> Entry]
  BY DEF NoMembers, Entry
<1> QED
  BY <1>1, <1>2, <1>3 DEF HeldIn, After, Record

LEMMA AfterType ==
    ASSUME NEW l \in Seq(Record), NEW n \in 0..Len(l)
    PROVE  After(l, n) \in [Accounts -> Entry]
<1>1. ASSUME n # 0 PROVE l[n] \in Record
  BY <1>1
<1>2. NoMembers \in [Accounts -> Entry]
  BY DEF NoMembers, Entry
<1> QED
  BY <1>1, <1>2 DEF After, Record

LEMMA EffectType ==
    ASSUME NEW e \in GroupsEvent, NEW entry \in Entry,
           e.kind \in {"PermissionsGranted", "PermissionsRevoked"} => entry # None
    PROVE  Effect(e, entry) \in Entry
BY DEF Effect, Entry, GroupsEvent

LEMMA RecordOne ==
    ASSUME NEW l, Recorded(l), NEW e \in GroupsEvent,
           e.kind \in {"PermissionsGranted", "PermissionsRevoked"} => HeldIn(l)[e.account] # None
    PROVE  /\ Recorded(Emit(l, e))
           /\ Len(Emit(l, e)) = Len(l) + 1
           /\ \A n \in 1..Len(l) : Emit(l, e)[n] = l[n]
           /\ HeldIn(Emit(l, e)) = Announced(e, HeldIn(l))
<1> DEFINE r == [event |-> e, held |-> Announced(e, HeldIn(l))]
           k == Emit(l, e)
<1>1. l \in Seq(Record) /\ Len(l) \in Nat /\ HeldIn(l) \in [Accounts -> Entry]
      /\ HeldIn(l) = After(l, Len(l))
  BY HeldInLast DEF Recorded
<1>2. \A a \in Accounts : a = e.account => Effect(e, HeldIn(l)[a]) \in Entry
  BY <1>1, EffectType
<1>3. Announced(e, HeldIn(l)) \in [Accounts -> Entry]
  BY <1>1, <1>2 DEF Announced
<1>4. r \in Record /\ k = Append(l, r)
  BY <1>3 DEF Emit, Record
<1>5. /\ k \in Seq(Record) /\ Len(k) = Len(l) + 1
      /\ \A n \in 1..Len(l) : k[n] = l[n]
      /\ k[Len(l) + 1] = r
  BY <1>1, <1>4, AppendProperties
<1> PICK N \in Nat : N = Len(l) + 1
  BY <1>1
<1>6. k[N].event = e /\ k[N].held = Announced(e, HeldIn(l)) /\ e.account \in Accounts
  BY <1>5 DEF GroupsEvent
<1> HIDE DEF k, r
<1>7. \A n \in 0..Len(l) : After(k, n) = After(l, n)
  BY <1>1, <1>5 DEF After
<1>8. After(k, N - 1) = HeldIn(l) /\ After(k, N) = Announced(e, HeldIn(l))
  <2>1. Len(l) \in 0..Len(l) /\ N - 1 = Len(l) /\ N # 0
    BY <1>1
  <2> QED
    BY <1>1, <1>6, <1>7, <2>1 DEF After
<1>9. \A n \in 1..N : Tells(k, n)
  <2>1. ASSUME NEW n \in 1..Len(l) PROVE Tells(k, n)
    <3>1. n - 1 \in 0..Len(l) /\ k[n] = l[n] /\ Tells(l, n)
      BY <1>1, <1>5 DEF Recorded
    <3>2. After(k, n - 1) = After(l, n - 1)
      BY <1>7, <3>1
    <3> QED
      BY <3>1, <3>2 DEF Tells
  <2>2. Tells(k, N)
    BY <1>6, <1>8 DEF Tells
  <2> QED
    BY <1>1, <2>1, <2>2
<1>10. ASSUME NEW m \in 0..N, NEW n \in 0..N, NEW a \in Accounts PROVE Kept(k, m, n, a)
  <2> SUFFICES ASSUME m <= n, \A i \in (m + 1)..n : k[i].event.account # a
               PROVE  After(k, m)[a] = After(k, n)[a]
    BY DEF Kept
  <2>1. CASE n <= Len(l)
    <3>1. m \in 0..Len(l) /\ n \in 0..Len(l) /\ \A i \in (m + 1)..n : i \in 1..Len(l)
      BY <1>1, <2>1
    <3>2. \A i \in (m + 1)..n : l[i].event.account # a
      BY <1>5, <3>1
    <3>3. Kept(l, m, n, a)
      BY <3>1 DEF Recorded
    <3> QED
      BY <1>7, <3>1, <3>2, <3>3 DEF Kept
  <2>2. CASE m = n
    BY <2>2
  <2>3. CASE n = N /\ m <= Len(l)
    <3>1. PICK L \in 0..Len(l) : L = Len(l)
      BY <1>1
    <3>2. m \in 0..Len(l) /\ \A i \in (m + 1)..L : i \in 1..Len(l) /\ i \in (m + 1)..n
      BY <1>1, <2>3, <3>1
    <3>3. \A i \in (m + 1)..L : l[i].event.account # a
      BY <1>5, <3>2
    <3>4. Kept(l, m, L, a)
      BY <3>1, <3>2 DEF Recorded
    <3>5. After(k, m)[a] = HeldIn(l)[a]
      BY <1>1, <1>7, <2>3, <3>1, <3>2, <3>3, <3>4 DEF Kept
    <3>6. N \in (m + 1)..n
      BY <1>1, <2>3
    <3>7. e.account # a
      BY <1>6, <3>6
    <3>8. Announced(e, HeldIn(l))[a] = HeldIn(l)[a]
      BY <3>7 DEF Announced
    <3> QED
      BY <1>8, <2>3, <3>5, <3>8
  <2> QED
    BY <1>1, <2>1, <2>2, <2>3
<1>11. Recorded(k)
  BY <1>1, <1>5, <1>9, <1>10 DEF Recorded
<1>12. HeldIn(k) = Announced(e, HeldIn(l))
  BY <1>1, <1>5, <1>8, HeldInLast
<1> QED
  BY <1>5, <1>11, <1>12 DEF k

\* A ledger that goes on from l.
Extends(k, l) ==
    /\ Recorded(k)
    /\ Len(l) <= Len(k)
    /\ \A n \in 1..Len(l) : k[n] = l[n]

\* A call of the contract adds its events to the ledger.
LEMMA CallsRecord ==
    ASSUME TypeOK, Recorded(ledger), ChainStep, ~Checkpoint
    PROVE  Extends(ledger', ledger) /\ UNCHANGED <<members, chain, syncVars, missed>>
<1>1. /\ ledger \in Seq(Record) /\ Len(ledger) \in Nat
      /\ Held \in [Accounts -> Entry] /\ Held = HeldIn(ledger)
  BY HeldInLast DEF Recorded, Held
<1>2. ASSUME NEW a \in Accounts, NEW perms \in Bundles, ChainGrants(a, perms)
      PROVE  Extends(ledger', ledger) /\ UNCHANGED <<members, chain, syncVars, missed>>
  <2> DEFINE added == Event("MemberAdded", a, {})
             granted == Event("PermissionsGranted", a, perms)
             joined == IF Held[a] = None THEN Emit(ledger, added) ELSE ledger
  <2>1. /\ added \in GroupsEvent /\ added.kind = "MemberAdded" /\ added.account = a
        /\ granted \in GroupsEvent /\ granted.account = a
    BY EventTypes, MembershipSyncAssumption
  <2>2. ledger' = Emit(joined, granted) /\ UNCHANGED <<members, chain, syncVars, missed>>
    BY <1>2 DEF ChainGrants, Execute
  <2>3. /\ Recorded(joined) /\ Len(ledger) <= Len(joined) /\ Len(joined) \in Nat
        /\ \A n \in 1..Len(ledger) : joined[n] = ledger[n]
        /\ HeldIn(joined)[a] # None
    <3>1. CASE Held[a] # None
      BY <1>1, <3>1
    <3>2. CASE Held[a] = None
      <4>1. /\ Recorded(Emit(ledger, added)) /\ Len(Emit(ledger, added)) = Len(ledger) + 1
            /\ \A n \in 1..Len(ledger) : Emit(ledger, added)[n] = ledger[n]
            /\ HeldIn(Emit(ledger, added)) = Announced(added, HeldIn(ledger))
        BY <2>1, RecordOne
      <4>2. Announced(added, HeldIn(ledger))[a] = {}
        BY <2>1 DEF Announced, Effect
      <4>3. {} # None
        BY MembershipAssumption
      <4> QED
        BY <1>1, <3>2, <4>1, <4>2, <4>3
    <3> QED
      BY <3>1, <3>2
  <2> HIDE DEF added, granted, joined
  <2>4. /\ Recorded(Emit(joined, granted)) /\ Len(Emit(joined, granted)) = Len(joined) + 1
        /\ \A n \in 1..Len(joined) : Emit(joined, granted)[n] = joined[n]
    BY <2>1, <2>3, RecordOne
  <2> QED
    BY <1>1, <2>2, <2>3, <2>4 DEF Extends
<1>3. ASSUME NEW a \in Accounts, NEW perms \in Bundles, ChainRevokes(a, perms)
      PROVE  Extends(ledger', ledger) /\ UNCHANGED <<members, chain, syncVars, missed>>
  <2> DEFINE revoked == Event("PermissionsRevoked", a, perms)
             removed == Event("MemberRemoved", a, {})
             once == Emit(ledger, revoked)
  <2>1. /\ revoked \in GroupsEvent /\ revoked.account = a
        /\ removed \in GroupsEvent /\ removed.kind = "MemberRemoved"
    BY EventTypes, MembershipSyncAssumption
  <2>2. /\ Held[a] # None /\ UNCHANGED <<members, chain, syncVars, missed>>
        /\ ledger' = Emit(once, removed) \/ ledger' = once
    BY <1>3 DEF ChainRevokes, Execute
  <2>3. /\ Recorded(once) /\ Len(once) = Len(ledger) + 1
        /\ \A n \in 1..Len(ledger) : once[n] = ledger[n]
    BY <1>1, <2>1, <2>2, RecordOne
  <2> HIDE DEF revoked, removed, once
  <2>4. /\ Recorded(Emit(once, removed)) /\ Len(Emit(once, removed)) = Len(once) + 1
        /\ \A n \in 1..Len(once) : Emit(once, removed)[n] = once[n]
    BY <2>1, <2>3, RecordOne
  <2> QED
    BY <1>1, <2>2, <2>3, <2>4 DEF Extends
<1>4. ASSUME NEW a \in Accounts, ChainRemoves(a)
      PROVE  Extends(ledger', ledger) /\ UNCHANGED <<members, chain, syncVars, missed>>
  <2> DEFINE removed == Event("MemberRemoved", a, {})
  <2>1. removed \in GroupsEvent /\ removed.kind = "MemberRemoved"
    BY EventTypes
  <2>2. ledger' = Emit(ledger, removed) /\ UNCHANGED <<members, chain, syncVars, missed>>
    BY <1>4 DEF ChainRemoves, Execute
  <2>3. /\ Recorded(Emit(ledger, removed)) /\ Len(Emit(ledger, removed)) = Len(ledger) + 1
        /\ \A n \in 1..Len(ledger) : Emit(ledger, removed)[n] = ledger[n]
    BY <2>1, RecordOne
  <2> QED
    BY <1>1, <2>2, <2>3 DEF Extends
<1> QED
  BY <1>2, <1>3, <1>4 DEF ChainStep

\* The chain only grows: what was held after an event, and where a checkpoint ends,
\* does not change.
ChainGrows ==
    /\ Len(ledger) <= Len(ledger') /\ Len(chain) <= Len(chain')
    /\ \A n \in 1..Len(ledger) : ledger'[n] = ledger[n]
    /\ \A k \in 1..Len(chain) : chain'[k] = chain[k]

LEMMA ChainStepGrows ==
    ASSUME TypeOK, Recorded(ledger), CheckpointsInOrder, ChainStep
    PROVE  /\ Recorded(ledger') /\ chain' \in Seq(Nat) /\ CheckpointsInOrder'
           /\ ChainGrows /\ UNCHANGED <<members, syncVars, missed>>
<1>1. ledger \in Seq(Record) /\ chain \in Seq(Nat) /\ Len(ledger) \in Nat /\ Len(chain) \in Nat
  BY DEF TypeOK
<1>2. CASE ~Checkpoint
  <2>1. Extends(ledger', ledger) /\ UNCHANGED <<members, chain, syncVars, missed>>
    BY <1>2, CallsRecord
  <2>2. ChainGrows /\ Recorded(ledger') /\ Len(ledger') \in Nat
    BY <1>1, <2>1 DEF Extends, ChainGrows, Recorded
  <2>3. CheckpointsInOrder'
    BY <1>1, <2>1, <2>2 DEF CheckpointsInOrder, End, ChainGrows
  <2> QED
    BY <1>1, <2>1, <2>2, <2>3
<1>3. CASE Checkpoint
  <2>1. chain' = Append(chain, Len(ledger)) /\ UNCHANGED <<members, ledger, syncVars, missed>>
    BY <1>3 DEF Checkpoint
  <2>2. /\ chain' \in Seq(Nat) /\ Len(chain') = Len(chain) + 1
        /\ \A k \in 1..Len(chain) : chain'[k] = chain[k]
        /\ chain'[Len(chain) + 1] = Len(ledger)
    BY <1>1, <2>1, AppendProperties
  <2>3. ChainGrows
    BY <1>1, <2>1, <2>2 DEF ChainGrows
  <2>4. CheckpointsInOrder'
    <3>1. \A k \in 0..Len(chain) : End(k)' = End(k) /\ End(k) \in 0..Len(ledger)
      BY <1>1, <2>2 DEF End, CheckpointsInOrder
    <3>2. PICK N \in Nat : N = Len(chain) + 1
      BY <1>1
    <3>3. End(N)' = Len(ledger) /\ Len(chain') = N
      BY <1>1, <2>2, <3>2 DEF End
    <3>4. \A k \in 0..N : k \in 0..Len(chain) \/ k = N
      BY <1>1, <3>2
    <3>5. \A k \in 0..N : End(k)' \in 0..Len(ledger)
      BY <1>1, <3>1, <3>3, <3>4
    <3>6. ASSUME NEW j \in 0..N, NEW k \in 0..N, j <= k
          PROVE  End(j)' <= End(k)'
      <4>1. CASE k \in 0..Len(chain)
        <5>1. j \in 0..Len(chain)
          BY <1>1, <3>6, <4>1
        <5> QED
          BY <3>1, <3>6, <4>1, <5>1 DEF CheckpointsInOrder
      <4>2. CASE k = N
        <5>1. End(j)' \in 0..Len(ledger)
          BY <3>5
        <5> QED
          BY <1>1, <3>3, <4>2, <5>1
      <4> QED
        BY <3>4, <4>1, <4>2
    <3> QED
      BY <2>1, <3>3, <3>5, <3>6 DEF CheckpointsInOrder
  <2> QED
    BY <1>1, <2>1, <2>2, <2>3, <2>4
<1> QED
  BY <1>2, <1>3

LEMMA ChainStepIInv ==
    ASSUME IInv, ChainStep
    PROVE  IInv'
<1>1. TypeOK /\ Recorded(ledger) /\ CheckpointsInOrder
  BY RecordedLedger DEF IInv
<1>2. /\ Recorded(ledger') /\ chain' \in Seq(Nat) /\ CheckpointsInOrder'
      /\ ChainGrows /\ UNCHANGED <<members, syncVars, missed>>
  BY <1>1, ChainStepGrows
<1>3. UNCHANGED <<members, stream, last_cursor, cursor, applied, missed>>
  BY <1>2 DEF syncVars
<1>4. TypeOK'
  BY <1>1, <1>2, <1>3 DEF TypeOK, MembershipTypeOK, Recorded
<1>5. LedgerExplained' /\ UnnamedHoldTheSame'
  <2>1. Recorded(ledger)'
    BY <1>2 DEF Recorded, Tells, Kept, After
  <2>2. (TypeOK /\ LedgerExplained /\ UnnamedHoldTheSame <=> TypeOK /\ Recorded(ledger))'
    BY RecordedLedger, PTL
  <2> QED
    BY <1>4, <2>1, <2>2
<1>6. applied \in 0..Len(ledger) /\ cursor \in 0..Len(chain) /\ Processed \in 0..Len(chain)
      /\ Len(chain) \in Nat /\ Len(ledger) \in Nat
  BY DEF IInv, TypeOK, CursorsInOrder, CheckpointsInOrder
<1>7. \A k \in 0..Len(chain) : End(k)' = End(k)
  BY <1>2, <1>6 DEF End, ChainGrows
<1>8. \A n \in 0..Len(ledger) : HeldAfter(n)' = HeldAfter(n)
  BY <1>2, <1>6 DEF HeldAfter, ChainGrows
<1>9. CursorsInOrder'
  <2>1. Processed' = Processed /\ (Idle' <=> Idle)
    BY <1>3, <1>6, <1>7 DEF Processed, Idle, End
  <2>2. End(cursor)' = End(cursor) /\ End(Processed)' = End(Processed)
    BY <1>3, <1>6, <1>7, <2>1 DEF End
  <2>3. cursor \in 0..Len(chain')
    BY <1>2, <1>6 DEF ChainGrows, TypeOK
  <2> QED
    BY <1>3, <2>1, <2>2, <2>3 DEF IInv, CursorsInOrder
<1>10. CacheMatchesChain'
  <2>1. View' = View
    BY <1>3, <1>6, <1>8 DEF View, HeldAfter
  <2> QED
    BY <1>3, <2>1 DEF IInv, CacheMatchesChain, Cached
<1>11. NoInventedPermission'
  <2>1. \A n \in 1..applied : HeldAfter(n)' = HeldAfter(n)
    BY <1>6, <1>8
  <2> QED
    BY <1>3, <2>1 DEF IInv, NoInventedPermission, has_permission, Holds
<1> QED
  BY <1>2, <1>4, <1>5, <1>9, <1>10, <1>11 DEF IInv

(***************************************************************************)
(* The stream.                                                             *)
(***************************************************************************)
LEMMA ChainKept ==
    ASSUME IInv, UNCHANGED chainVars
    PROVE  /\ LedgerExplained' /\ UnnamedHoldTheSame' /\ CheckpointsInOrder'
           /\ \A k : End(k)' = End(k) /\ HeldAfter(k)' = HeldAfter(k)
<1>1. ledger' = ledger /\ chain' = chain
  BY DEF chainVars
<1>2. \A k : End(k)' = End(k) /\ HeldAfter(k)' = HeldAfter(k)
  BY <1>1 DEF End, HeldAfter
<1>3. \A m, n : Named(m, n)' = Named(m, n)
  BY <1>1 DEF Named
<1>4. LedgerExplained'
  BY <1>1, <1>2 DEF IInv, LedgerExplained, Explained
<1>5. UnnamedHoldTheSame'
  BY <1>1, <1>2, <1>3 DEF IInv, UnnamedHoldTheSame
<1>6. CheckpointsInOrder'
  BY <1>1, <1>2 DEF IInv, CheckpointsInOrder
<1> QED
  BY <1>2, <1>4, <1>5, <1>6

\* A step that only starts, ends or moves on the stream.
LEMMA StreamMovesIInv ==
    ASSUME IInv, UNCHANGED <<members, chainVars, last_cursor, cursor, applied, missed>>,
           stream' \in Nat \cup {None}
    PROVE  IInv'
<1>1. ledger' = ledger /\ chain' = chain
  BY DEF chainVars
<1>2. TypeOK'
  BY <1>1 DEF IInv, TypeOK, MembershipTypeOK
<1>3. CursorsInOrder'
  BY <1>1 DEF IInv, CursorsInOrder, Processed, Idle, End
<1>4. CacheMatchesChain'
  BY <1>1 DEF IInv, CacheMatchesChain, View, HeldAfter, Cached
<1>5. NoInventedPermission'
  BY ChainKept DEF IInv, NoInventedPermission, has_permission, Holds
<1> QED
  BY <1>2, <1>3, <1>4, <1>5, ChainKept DEF IInv

\* The service moves on to event m with nothing applied: whoever is named in
\* between has missed something, everybody else has the same entry there.
LEMMA MovesOn ==
    ASSUME IInv, UNCHANGED <<members, chainVars>>, NEW m \in 0..Len(ledger), applied <= m,
           applied' = m, missed' = missed \cup Named(applied, m),
           stream' \in Nat \cup {None}, last_cursor' \in Nat \cup {None}, cursor' \in Nat,
           CursorsInOrder'
    PROVE  IInv'
<1>1. ledger' = ledger /\ chain' = chain /\ applied \in Nat /\ Len(ledger) \in Nat
  BY DEF chainVars, IInv, TypeOK
<1>2. applied \in 0..Len(ledger)
  BY <1>1
<1>3. Named(applied, m) \subseteq Accounts
  <2>1. \A i \in (applied + 1)..m : ledger[i] \in Record
    BY <1>1, <1>2 DEF IInv, TypeOK
  <2> QED
    BY <2>1 DEF Named, Record, GroupsEvent
<1>4. TypeOK'
  BY <1>1, <1>3 DEF IInv, TypeOK, MembershipTypeOK
<1>5. CacheMatchesChain'
  <2> SUFFICES ASSUME NEW a \in Accounts \ missed' PROVE members[a] = Cached(HeldAfter(m)[a])
    BY <1>1 DEF CacheMatchesChain, View, HeldAfter, Cached
  <2>1. a \notin missed /\ a \notin Named(applied, m)
    OBVIOUS
  <2>2. HeldAfter(applied)[a] = HeldAfter(m)[a]
    BY <1>2, <2>1 DEF IInv, UnnamedHoldTheSame
  <2> QED
    BY <2>1, <2>2 DEF IInv, CacheMatchesChain, View
<1>6. NoInventedPermission'
  <2>1. 1..applied \subseteq 1..m
    BY <1>1
  <2> QED
    BY <2>1, ChainKept DEF IInv, NoInventedPermission, has_permission, Holds
<1> QED
  BY <1>4, <1>5, <1>6, ChainKept DEF IInv

\* Where the service stands when a checkpoint arrives that it has not processed.
LEMMA ArrivesAhead ==
    ASSUME IInv, NEW k \in 1..Len(chain), Arrives(k), ~AlreadyProcessed(k)
    PROVE  /\ Processed = cursor /\ cursor <= k - 1 /\ k - 1 \in 0..Len(chain)
           /\ applied = End(cursor) /\ End(cursor) <= End(k - 1) /\ End(k - 1) <= End(k)
           /\ End(k - 1) \in 0..Len(ledger) /\ End(k) \in 0..Len(ledger)
           /\ stream' = k + 1 /\ UNCHANGED <<members, chainVars>>
           /\ cursor \in Nat /\ Len(chain) \in Nat
<1>1. Idle /\ stream' = k + 1 /\ UNCHANGED <<members, chainVars>>
  BY DEF Arrives
<1>2. Processed = cursor /\ cursor \in 0..Len(chain) /\ Len(chain) \in Nat
  BY <1>1 DEF IInv, CursorsInOrder, TypeOK
<1>3. cursor <= k - 1 /\ k - 1 \in 0..Len(chain) /\ k \in 0..Len(chain)
  BY <1>2 DEF AlreadyProcessed, Processed, IInv, TypeOK
<1>4. End(cursor) <= End(k - 1) /\ End(k - 1) <= End(k)
      /\ End(k - 1) \in 0..Len(ledger) /\ End(k) \in 0..Len(ledger)
  BY <1>2, <1>3 DEF IInv, CheckpointsInOrder
<1> QED
  BY <1>1, <1>2, <1>3, <1>4 DEF Idle

LEMMA ProcessIInv ==
    ASSUME IInv, NEW k \in 1..Len(chain), Process(k)
    PROVE  IInv'
<1>1. Arrives(k) /\ ~AlreadyProcessed(k)
  BY DEF Process
<1>2. /\ Processed = cursor /\ cursor <= k - 1 /\ k - 1 \in 0..Len(chain)
      /\ applied = End(cursor) /\ End(cursor) <= End(k - 1) /\ End(k - 1) <= End(k)
      /\ End(k - 1) \in 0..Len(ledger) /\ End(k) \in 0..Len(ledger)
      /\ stream' = k + 1 /\ UNCHANGED <<members, chainVars>>
      /\ cursor \in Nat /\ Len(chain) \in Nat
  BY <1>1, ArrivesAhead
<1>3. /\ cursor' = k /\ applied' = End(k - 1)
      /\ last_cursor' = IF End(k - 1) = End(k) THEN k ELSE last_cursor
      /\ missed' = missed \cup Named(applied, End(k - 1))
  BY DEF Process
<1>4. chain' = chain /\ \A j : End(j)' = End(j)
  BY <1>2, ChainKept DEF chainVars
<1>5. Processed' = IF End(k - 1) = End(k) THEN k ELSE cursor
  <2>1. CASE End(k - 1) = End(k)
    <3>1. last_cursor' = k /\ k # None
      BY <1>2, <1>3, <2>1, MembershipAssumption
    <3> QED
      BY <2>1, <3>1 DEF Processed
  <2>2. CASE End(k - 1) # End(k)
    <3>1. last_cursor' = last_cursor
      BY <1>3, <2>2
    <3> QED
      BY <1>2, <2>2, <3>1 DEF Processed
  <2> QED
    BY <2>1, <2>2
<1>6. End(cursor)' = End(k) /\ (Idle' <=> End(k - 1) = End(k))
  BY <1>3, <1>4 DEF End, Idle
<1>7. End(Processed)' = IF End(k - 1) = End(k) THEN End(k) ELSE End(cursor)
  BY <1>4, <1>5 DEF End
<1>8. CursorsInOrder'
  BY <1>2, <1>3, <1>4, <1>5, <1>6, <1>7 DEF CursorsInOrder
<1>9. stream' \in Nat \cup {None} /\ last_cursor' \in Nat \cup {None} /\ cursor' \in Nat
  BY <1>2, <1>3 DEF IInv, TypeOK
<1> QED
  BY <1>2, <1>3, <1>8, <1>9, MovesOn

LEMMA PassOverIInv ==
    ASSUME IInv, NEW k \in 1..Len(chain), PassOver(k)
    PROVE  IInv'
<1>1. Arrives(k) /\ ~AlreadyProcessed(k)
  BY DEF PassOver
<1>2. /\ Processed = cursor /\ cursor <= k - 1 /\ k - 1 \in 0..Len(chain)
      /\ applied = End(cursor) /\ End(cursor) <= End(k - 1) /\ End(k - 1) <= End(k)
      /\ End(k - 1) \in 0..Len(ledger) /\ End(k) \in 0..Len(ledger)
      /\ stream' = k + 1 /\ UNCHANGED <<members, chainVars>>
      /\ cursor \in Nat /\ Len(chain) \in Nat
  BY <1>1, ArrivesAhead
<1>3. /\ cursor' = k /\ applied' = End(k) /\ last_cursor' = k
      /\ missed' = missed \cup Named(applied, End(k))
  BY DEF PassOver
<1>4. chain' = chain /\ \A j : End(j)' = End(j)
  BY <1>2, ChainKept DEF chainVars
<1>5. Processed' = k
  BY <1>3, MembershipAssumption DEF Processed
<1>6. End(cursor)' = End(k) /\ End(Processed)' = End(k) /\ Idle'
  BY <1>3, <1>4, <1>5 DEF End, Idle
<1>7. CursorsInOrder'
  BY <1>2, <1>3, <1>4, <1>5, <1>6 DEF CursorsInOrder
<1>8. stream' \in Nat \cup {None} /\ last_cursor' \in Nat \cup {None} /\ cursor' \in Nat
      /\ applied <= End(k)
  BY <1>2, <1>3 DEF IInv, TypeOK
<1> QED
  BY <1>2, <1>3, <1>7, <1>8, MovesOn

(***************************************************************************)
(* The events.                                                             *)
(***************************************************************************)
LEMMA EventApplied ==
    ASSUME MembershipTypeOK, NEW e \in GroupsEvent, apply_event(e)
    PROVE  /\ MembershipTypeOK'
           /\ \A b \in Accounts \ {e.account} : members'[b] = members[b]
           /\ e.kind = "MemberAdded" => members'[e.account] = {}
           /\ e.kind = "MemberRemoved" => members'[e.account] = None
           /\ e.kind = "PermissionsGranted" =>
                 members'[e.account] = IF members[e.account] = None THEN None
                                       ELSE members[e.account] \cup Parsed(e.permissions)
           /\ e.kind = "PermissionsRevoked" =>
                 members'[e.account] = IF members[e.account] = None THEN None
                                       ELSE members[e.account] \ Parsed(e.permissions)
<1>1. e.account \in Accounts
      /\ e.kind \in {"MemberAdded", "MemberRemoved", "PermissionsGranted", "PermissionsRevoked"}
  BY DEF GroupsEvent
<1>2. Parsed(e.permissions) \subseteq MessagingPermissions
  BY DEF Parsed
<1>3. CASE e.kind = "MemberAdded"
  <2>1. add_member(e.account)
    BY <1>3 DEF apply_event
  <2> QED
    BY <1>1, <1>3, <2>1 DEF add_member, MembershipTypeOK
<1>4. CASE e.kind = "MemberRemoved"
  <2>1. remove_member(e.account)
    BY <1>4 DEF apply_event
  <2> QED
    BY <1>1, <1>4, <2>1 DEF remove_member, MembershipTypeOK
<1>5. CASE e.kind = "PermissionsGranted"
  <2>1. grant_permissions(e.account, Parsed(e.permissions))
    BY <1>5 DEF apply_event
  <2> QED
    BY <1>1, <1>2, <1>5, <2>1 DEF grant_permissions, MembershipTypeOK
<1>6. CASE e.kind = "PermissionsRevoked"
  <2>1. revoke_permissions(e.account, Parsed(e.permissions))
    BY <1>6 DEF apply_event
  <2> QED
    BY <1>1, <1>2, <1>6, <2>1 DEF revoke_permissions, MembershipTypeOK
<1> QED
  BY <1>1, <1>3, <1>4, <1>5, <1>6

\* What an event does to the cache it does on chain, but for the permissions
\* that the relayer does not know.
LEMMA CacheFollowsEvent ==
    ASSUME MembershipTypeOK, NEW e \in GroupsEvent, apply_event(e), NEW entry \in Entry,
           e.kind \in {"PermissionsGranted", "PermissionsRevoked"} =>
              entry # None /\ members[e.account] = Cached(entry)
    PROVE  members'[e.account] = Cached(Effect(e, entry))
<1>1. e.kind \in {"MemberAdded", "MemberRemoved", "PermissionsGranted", "PermissionsRevoked"}
      /\ e.permissions \subseteq ContractPermissions
  BY DEF GroupsEvent
<1>2. \A perms : perms \subseteq ContractPermissions => perms # None
  BY MembershipAssumption
<1>3. CASE e.kind = "MemberAdded"
  <2>1. Effect(e, entry) = {} /\ {} # None
    BY <1>2, <1>3 DEF Effect
  <2> QED
    BY <1>3, <2>1, EventApplied DEF Cached, Parsed
<1>4. CASE e.kind = "MemberRemoved"
  <2>1. Effect(e, entry) = None
    BY <1>4 DEF Effect
  <2> QED
    BY <1>4, <2>1, EventApplied DEF Cached
<1>5. CASE e.kind = "PermissionsGranted"
  <2>1. Effect(e, entry) = entry \cup e.permissions /\ entry \cup e.permissions # None
        /\ entry \subseteq ContractPermissions
    BY <1>1, <1>2, <1>5 DEF Effect, Entry
  <2>2. members[e.account] = Parsed(entry) /\ Parsed(entry) # None
    BY <1>2, <1>5, <2>1 DEF Cached, Parsed
  <2>3. members'[e.account] = Parsed(entry) \cup Parsed(e.permissions)
    BY <1>5, <2>2, EventApplied
  <2> QED
    BY <2>1, <2>3 DEF Cached, Parsed
<1>6. CASE e.kind = "PermissionsRevoked"
  <2>1. Effect(e, entry) = entry \ e.permissions /\ entry \ e.permissions # None
        /\ entry \subseteq ContractPermissions
    BY <1>1, <1>2, <1>6 DEF Effect, Entry
  <2>2. members[e.account] = Parsed(entry) /\ Parsed(entry) # None
    BY <1>2, <1>6, <2>1 DEF Cached, Parsed
  <2>3. members'[e.account] = Parsed(entry) \ Parsed(e.permissions)
    BY <1>6, <2>2, EventApplied
  <2> QED
    BY <2>1, <2>3 DEF Cached, Parsed
<1> QED
  BY <1>1, <1>3, <1>4, <1>5, <1>6

LEMMA ApplyEventIInv ==
    ASSUME IInv, ApplyEvent
    PROVE  IInv'
<1>1. /\ ledger \in Seq(Record) /\ Len(ledger) \in Nat /\ applied \in Nat /\ cursor \in Nat
      /\ MembershipTypeOK /\ cursor \in 0..Len(chain)
  BY DEF IInv, TypeOK, CursorsInOrder
<1>2. /\ End(cursor) \in 0..Len(ledger) /\ applied < End(cursor)
      /\ End(Processed) \in 0..Len(ledger) /\ End(Processed) <= applied
  <2>1. applied \in End(Processed)..End(cursor) /\ applied # End(cursor)
        /\ Processed \in 0..cursor
    BY DEF IInv, CursorsInOrder, ApplyEvent, Idle
  <2>2. Processed \in 0..Len(chain)
    BY <1>1, <2>1 DEF IInv, TypeOK
  <2>3. End(cursor) \in 0..Len(ledger) /\ End(Processed) \in 0..Len(ledger)
    BY <1>1, <2>2 DEF IInv, CheckpointsInOrder
  <2> QED
    BY <1>1, <2>1, <2>3
<1> PICK n \in 1..Len(ledger) : n = applied + 1
  BY <1>1, <1>2
<1> PICK e : e = ledger[n].event
  OBVIOUS
<1>3. ledger[n] \in Record /\ e \in GroupsEvent /\ e.account \in Accounts
  <2>1. ledger[n] \in Record
    BY <1>1
  <2> QED
    BY <2>1 DEF Record, GroupsEvent
<1>4. /\ apply_event(e)
      /\ missed' = IF e.kind \in {"MemberAdded", "MemberRemoved"}
                   THEN missed \ {e.account} ELSE missed
      /\ applied' = n
      /\ last_cursor' = IF n = End(cursor) THEN cursor ELSE last_cursor
      /\ UNCHANGED <<chainVars, stream, cursor>>
  BY DEF ApplyEvent
<1>5. ledger' = ledger /\ chain' = chain /\ \A k : End(k)' = End(k) /\ HeldAfter(k)' = HeldAfter(k)
  BY <1>4, ChainKept DEF chainVars
<1>6. /\ View \in [Accounts -> Entry] /\ View' = Announced(e, View)
      /\ e.kind \in {"PermissionsGranted", "PermissionsRevoked"} => View[e.account] # None
  <2>1. applied = n - 1 /\ applied \in 0..Len(ledger) /\ n # 0
    BY <1>1
  <2>2. View \in [Accounts -> Entry]
    BY <1>1, <2>1, AfterType DEF View, HeldAfter, After
  <2>3. Explained(n) /\ View = HeldAfter(n - 1)
    BY <2>1 DEF IInv, LedgerExplained, View
  <2>4. View' = ledger[n].held
    BY <1>4, <1>5, <2>1 DEF View, HeldAfter
  <2> QED
    BY <2>2, <2>3, <2>4 DEF Explained
<1>7. TypeOK'
  <2>1. MembershipTypeOK'
    BY <1>1, <1>3, <1>4, EventApplied
  <2> QED
    BY <1>1, <1>4, <1>5, <2>1 DEF IInv, TypeOK
<1>8. CursorsInOrder'
  <2>1. Processed' = IF n = End(cursor) THEN cursor ELSE Processed
    <3>1. CASE n = End(cursor)
      BY <1>1, <1>4, <3>1, MembershipAssumption DEF Processed
    <3>2. CASE n # End(cursor)
      BY <1>4, <3>2 DEF Processed
    <3> QED
      BY <3>1, <3>2
  <2>2. End(cursor)' = End(cursor) /\ (Idle' <=> n = End(cursor))
        /\ End(Processed)' = IF n = End(cursor) THEN End(cursor) ELSE End(Processed)
    BY <1>4, <1>5, <2>1 DEF End, Idle
  <2>3. Processed \in 0..cursor /\ Processed # cursor
    BY DEF IInv, CursorsInOrder, ApplyEvent
  <2> QED
    BY <1>1, <1>2, <1>4, <1>5, <2>1, <2>2, <2>3 DEF CursorsInOrder
<1>9. CacheMatchesChain'
  <2> SUFFICES ASSUME NEW a \in Accounts \ missed' PROVE members'[a] = Cached(View'[a])
    BY DEF CacheMatchesChain, Cached
  <2>1. CASE a # e.account
    <3>1. a \notin missed /\ members'[a] = members[a] /\ View'[a] = View[a]
      BY <1>1, <1>3, <1>4, <1>6, <2>1, EventApplied DEF Announced
    <3> QED
      BY <3>1 DEF IInv, CacheMatchesChain
  <2>2. CASE a = e.account
    <3>1. View'[a] = Effect(e, View[a]) /\ View[a] \in Entry
      BY <1>6, <2>2 DEF Announced
    <3>2. e.kind \in {"PermissionsGranted", "PermissionsRevoked"} =>
             View[a] # None /\ members[a] = Cached(View[a])
      BY <1>4, <1>6, <2>2 DEF IInv, CacheMatchesChain
    <3> QED
      BY <1>1, <1>3, <1>4, <2>2, <3>1, <3>2, CacheFollowsEvent
  <2> QED
    BY <2>1, <2>2
<1>10. NoInventedPermission'
  <2> SUFFICES ASSUME NEW a \in Accounts, NEW p \in MessagingPermissions, has_permission(a, p)'
               PROVE  \E m \in 1..n : Holds(HeldAfter(m), a, p)
    BY <1>4, <1>5 DEF NoInventedPermission, Holds
  <2>1. CASE has_permission(a, p)
    <3>1. PICK m \in 1..applied : Holds(HeldAfter(m), a, p)
      BY <2>1 DEF IInv, NoInventedPermission
    <3>2. m \in 1..n
      BY <1>1
    <3> QED
      BY <3>1, <3>2
  <2>2. CASE ~has_permission(a, p)
    <3>1. a = e.account /\ e.kind = "PermissionsGranted" /\ p \in e.permissions
      <4>1. members'[a] # None /\ p \in members'[a] /\ ~(members[a] # None /\ p \in members[a])
        BY <2>2 DEF has_permission
      <4>2. a = e.account
        BY <1>1, <1>3, <1>4, <4>1, EventApplied
      <4>3. e.kind \in {"MemberAdded", "MemberRemoved", "PermissionsGranted",
                        "PermissionsRevoked"}
        BY <1>3 DEF GroupsEvent
      <4>4. /\ e.kind = "MemberAdded" => members'[a] = {}
            /\ e.kind = "MemberRemoved" => members'[a] = None
            /\ e.kind = "PermissionsGranted" =>
                  members'[a] = IF members[a] = None THEN None
                                ELSE members[a] \cup Parsed(e.permissions)
            /\ e.kind = "PermissionsRevoked" =>
                  members'[a] = IF members[a] = None THEN None
                                ELSE members[a] \ Parsed(e.permissions)
        BY <1>1, <1>3, <1>4, <4>2, EventApplied
      <4> QED
        BY <4>1, <4>2, <4>3, <4>4 DEF Parsed
    <3>2. HeldAfter(n)[a] = View[a] \cup e.permissions
      <4>1. View' = HeldAfter(n)
        BY <1>4, <1>5 DEF View, HeldAfter
      <4> QED
        BY <1>6, <3>1, <4>1 DEF Announced, Effect
    <3>3. View[a] \subseteq ContractPermissions /\ e.permissions \subseteq ContractPermissions
      BY <1>3, <1>6, <3>1 DEF Entry, GroupsEvent
    <3>4. Holds(HeldAfter(n), a, p)
      BY <3>1, <3>2, <3>3, MembershipAssumption DEF Holds
    <3>5. n \in 1..n
      BY <1>1
    <3> QED
      BY <3>4, <3>5
  <2> QED
    BY <2>1, <2>2
<1> QED
  BY <1>4, <1>7, <1>8, <1>9, <1>10, ChainKept DEF IInv

(***************************************************************************)
(* The invariant.                                                          *)
(***************************************************************************)
LEMMA InitIInv ==
    ASSUME Init
    PROVE  IInv
<1>1. /\ ledger = <<>> /\ chain = <<>> /\ Len(chain) = 0 /\ Len(ledger) = 0
      /\ chain \in Seq(Nat) /\ ledger \in Seq(Record)
  BY DEF Init
<1>2. TypeOK
  BY <1>1 DEF Init, TypeOK, MembershipInit, MembershipTypeOK
<1>3. 0..Len(ledger) = {0} /\ 0..Len(chain) = {0} /\ End(0) = 0
  BY <1>1 DEF End
<1>4. CheckpointsInOrder
  BY <1>3 DEF CheckpointsInOrder
<1>5. CursorsInOrder
  BY <1>1, <1>3 DEF Init, CursorsInOrder, Processed, Idle, End
<1>6. CacheMatchesChain
  BY DEF Init, MembershipInit, CacheMatchesChain, View, HeldAfter, NoMembers, Cached
<1>7. LedgerExplained /\ NoInventedPermission
  BY <1>1 DEF Init, MembershipInit, LedgerExplained, NoInventedPermission, has_permission
<1>8. UnnamedHoldTheSame
  BY <1>3 DEF UnnamedHoldTheSame
<1> QED
  BY <1>2, <1>4, <1>5, <1>6, <1>7, <1>8 DEF IInv

LEMMA NextIInv ==
    ASSUME IInv, [Next]_vars
    PROVE  IInv'
<1>1. CASE UNCHANGED vars
  BY <1>1, StreamMovesIInv DEF vars, syncVars, IInv, TypeOK
<1>2. CASE Subscribe \/ StreamEnds \/ \E k \in 1..Len(chain) : Skip(k)
  <2>1. UNCHANGED <<members, chainVars, last_cursor, cursor, applied, missed>>
    BY <1>2 DEF Subscribe, StreamEnds, Skip, Arrives
  <2>2. stream' \in Nat \cup {None}
    BY <1>2 DEF IInv, TypeOK, Subscribe, StreamEnds, Skip, Arrives
  <2> QED
    BY <2>1, <2>2, StreamMovesIInv
<1> QED
  BY <1>1, <1>2, ChainStepIInv, ProcessIInv, PassOverIInv, ApplyEventIInv
  DEF Next, SyncStep, Handle

\* membership_sync.rs: what events tell about the chain, how the cursors stand on
\* it, and how the cache follows both, event by event, are as IInv says.
THEOREM Invariant == Spec => []IInv
<1> QED
  BY InitIInv, NextIInv, PTL DEF Spec

\* membership_sync.rs, membership.rs: cursors, events and cache have their types.
THEOREM TypeCorrect == Spec => []TypeOK
<1>1. IInv => TypeOK
  BY DEF IInv
<1> QED
  BY <1>1, Invariant, PTL

\* run_subscription, process_checkpoint: whatever the fullnode sends again, passes
\* over or skips, an account none of whose events was missed has in the cache what
\* it had on chain after the event applied last.
THEOREM CacheFollowsChain == Spec => []CacheMatchesChain
<1>1. IInv => CacheMatchesChain
  BY DEF IInv
<1> QED
  BY <1>1, Invariant, PTL

\* grant_permissions: a permission in the cache was held on chain after some event
\* up to the one applied last, missed events or not.
THEOREM PermissionsWereHeld == Spec => []NoInventedPermission
<1>1. IInv => NoInventedPermission
  BY DEF IInv
<1> QED
  BY <1>1, Invariant, PTL

\* What was held after the events reached so far stays on record.
HistoryKept ==
    /\ applied \in Nat /\ applied' \in Nat /\ applied <= applied'
    /\ \A n \in 1..applied : HeldAfter(n)' = HeldAfter(n)

\* run_subscription: the service never goes back behind an event it has reached.
THEOREM ServiceMovesForward == Spec => [][HistoryKept]_vars
<1>1. ASSUME IInv, Next PROVE HistoryKept
  <2>1. applied \in Nat /\ Len(ledger) \in Nat /\ applied <= Len(ledger)
    BY <1>1 DEF IInv, TypeOK, CursorsInOrder, CheckpointsInOrder
  <2>2. CASE ChainStep
    <3>1. TypeOK /\ Recorded(ledger) /\ CheckpointsInOrder
      BY <1>1, RecordedLedger DEF IInv
    <3>2. ChainGrows /\ applied' = applied
      BY <2>2, <3>1, ChainStepGrows DEF syncVars
    <3> QED
      BY <2>1, <3>2 DEF HistoryKept, HeldAfter, ChainGrows
  <2>3. CASE UNCHANGED <<chainVars, applied>>
    BY <2>1, <2>3 DEF HistoryKept, HeldAfter, chainVars
  <2>4. ASSUME NEW k \in 1..Len(chain), Process(k) \/ PassOver(k) PROVE HistoryKept
    <3>1. Arrives(k) /\ ~AlreadyProcessed(k) /\ (applied' = End(k - 1) \/ applied' = End(k))
      BY <2>4 DEF Process, PassOver
    <3>2. /\ applied = End(cursor) /\ End(cursor) <= End(k - 1) /\ End(k - 1) <= End(k)
          /\ End(k - 1) \in 0..Len(ledger) /\ End(k) \in 0..Len(ledger)
          /\ UNCHANGED <<members, chainVars>>
      BY <1>1, <3>1, ArrivesAhead
    <3>3. ledger' = ledger
      BY <3>2 DEF chainVars
    <3> QED
      BY <2>1, <3>1, <3>2, <3>3 DEF HistoryKept, HeldAfter
  <2>5. ASSUME ApplyEvent PROVE HistoryKept
    BY <2>1, <2>5 DEF ApplyEvent, HistoryKept, HeldAfter, chainVars
  <2>6. ASSUME Subscribe \/ StreamEnds \/ \E k \in 1..Len(chain) : Skip(k)
        PROVE  UNCHANGED <<chainVars, applied>>
    BY <2>6 DEF Subscribe, StreamEnds, Skip, Arrives
  <2> QED
    BY <1>1, <2>2, <2>3, <2>4, <2>5, <2>6 DEF Next, SyncStep, Handle
<1> QED
  BY <1>1, Invariant, PTL DEF Spec

=============================================================================
