# Specifications of the Nautilus messaging relayer

TLA+ specifications of the relayer in `src/src/relayer`: what its request
handlers, its storage, its Walrus sync worker and its membership cache do when
they run concurrently, with TLC runs on small instances and TLAPS proofs for
every instance.  Paths below are relative to `src/src/relayer/src` unless they
start with `src/`.

## 1. The system

The relayer is one process.  `main.rs` builds the shared state, spawns two
background tasks and serves HTTP requests concurrently.

| Component | State | Operations |
|---|---|---|
| Messages (`models/message.rs`, `handlers/messages/response.rs`) | a message: order, content, nonce, two timestamps, `sync_status`, `quilt_patch_id` | create, edit, mark for deletion, mark as synced, the flag shown to clients |
| In-memory storage (`storage/memory.rs`) | map of messages, order counter per group, set of nonces, each behind its own lock | create, get, page, edit, delete, query by status, update status |
| Message handlers (`handlers/messages/handlers.rs`) | locals of each request | POST, PUT, DELETE, GET `/messages` |
| Shared state (`state.rs`) | storage, unbounded notification channel | send, receive |
| Walrus sync worker (`services/walrus_sync.rs`, `walrus/`) | `message_count`, the batch and the publisher's answer during a cycle | timer, notification, query, upload, mark, in three workflows |
| Membership cache (`auth/membership.rs`) | group -> address -> permissions, one lock | add, remove, grant, revoke, has_permission |
| Membership sync (`services/membership_sync.rs`, `event_parser.rs`) | `last_cursor`, the stream | subscribe, receive a checkpoint, apply its events, reconnect |
| Auth middleware (`auth/`) | none | timestamp, signature, address and permission check before every handler |
| Enclave (`enclave.rs`), config, boot (`src/src/init`, `system`, `aws`, `run.sh`) | keypair, log ring buffer | attestation, signing, logs; start-up I/O |

Interaction: handlers and worker share the storage; POST tells the worker over
the channel; the worker talks to the Walrus publisher; the membership task
follows a Sui fullnode and fills the cache that the middleware reads before a
request reaches its handler.

What is hard here: nobody holds a lock across two storage calls, so handlers
check a copy and write later, and the worker copies a batch, uploads it for up
to a minute and then marks the originals; an upload may fail, be stored long after
it counted as failed, or be answered in part; `create_message` takes its order under
one lock and inserts under another; the checkpoint stream may repeat or skip, and
the events of one checkpoint reach the cache one by one while requests look at it.

What makes each component correct:

* storage: the nonce set is the nonces of the stored messages, orders are never
  given twice;
* handlers: only its sender changes a message, also when the check is stale;
* worker: what Walrus shows is never ahead of the relayer, agrees with it once
  the status says so, and every pending message is handled in the end;
* membership: after each event the cache equals the chain at that event where no
  event was missed, and never holds a permission nobody was given;
* middleware: a request runs only for the account that signed its bytes, within the
  TTL, and while the cache gives that account the permission.

The complete list of hazards, with lines, is in `PROJECT.json`.

## 2. Modules

```
Messages <- Storage <- AppState <- Handlers   \
                              \<- WalrusSync  -> Relayer <- RelayerInvariant <- RelayerRefinement
RelayerRefinement uses WriteBehind as an instance
Storage <- AtomicStorage;  Storage, AtomicStorage (instance) <- Locks <- LocksInvariant
Storage <- Paging;  Handlers, Paging <- Reader <- ReaderInvariant
Membership <- MembershipSync <- MembershipInvariant
Handlers, MembershipSync (named instance) <- Gateway <- GatewayInvariant
Handlers, Auth <- Delivery <- DeliveryInvariant

StorageProofs <- HandlersProofs <- RelayerProofs
StorageProofs <- LocksProofs
HandlersProofs, MembershipProofs (named instance) <- GatewayProofs
HandlersProofs <- DeliveryProofs;  HandlersProofs <- ReaderProofs
```

| Module | Code | Remarks |
|---|---|---|
| `Messages` | `Message`, `SyncStatus`, `update_content`, `mark_for_deletion`, the flag `is_deleted` | cipher text, key version, attachments, signature and public key are replaced together by every edit and are one `content` |
| `Storage` | `InMemoryStorage` | one step per critical section; the UUID is any id, so the duplicate-id branch is reachable |
| `AppState` | `AppState` | the channel carries units, so it is a number |
| `Handlers` | `create_message`, `update_message`, `delete_message` | `pc` and `req` are a task's position and locals; a request that is refused before it reaches storage changes nothing and has no step |
| `WalrusSync` | `WalrusSyncService`, `store_quilt` | `phase` is the await the worker stands at, `flow` the workflow, `batch` the local `messages`, `patch_ids` the answer; `walrus` and `abandoned` are external: the patches stored, and the quilts of failed uploads, each of which may still be stored at any later time |
| `Relayer` | `main.rs`: all of the above concurrently | adds the history variable `clobbered`, fairness and properties |
| `WriteBehind`, `RelayerRefinement` | abstract specification of the archive, and the mapping under which `Relayer` implements it | see below |
| `AtomicStorage`, `Locks` | `InMemoryStorage` as its callers see it, and statement by statement over its three `RwLock`s | `pc` is the statement a thread executes next, `call` the arguments and locals, `held` its guards; a guard is dropped when its function returns, the youngest first |
| `Membership` | `InMemoryMembershipStore`, `event_parser.rs` | a missing entry is `None`; parsing keeps the messaging permissions |
| `MembershipSync` | `MembershipSyncService` | the chain is external: `ledger` is the sequence of all events, each with what every account holds after it, `chain` cuts it into checkpoints anywhere; `applied` is how far on the ledger the service is; history variable `missed` |
| `Paging` | `get_messages_by_group`, `get_messages` | functions of the storage, which a GET only reads; `Ascending` chooses the sorted list, which is unambiguous because orders are unique |
| `Reader` | a client that polls with `after_order` while requests run | the client is external, its pages are `Paging`'s; history variable `late` |
| `Gateway` | `auth_middleware`, the routes behind it, and the membership sync beside them | `auth` is the `AuthContext` of each task's request; `MembershipSync` is a named instance because it shares names with `Handlers`; which part of a group a page shows is left to `Paging` |
| `Auth` | `signature.rs`, `schemes.rs`, checks 1 to 9 of `auth_middleware`, `verify_message_signature` | functions of one request; i64 arithmetic wraps at `WordBits` as in the release build (a debug build panics instead); keys are named after the addresses they hash to |
| `Delivery` | signed requests on their way to the handlers | the network is external: any request may arrive at any time and any number of times; a request is its method, its path and the signed bytes; `serving` is a task's request with the time it was let in; history variable `origin` |
| `RelayerInvariant`, `ReaderInvariant`, `LocksInvariant`, `MembershipInvariant`, `GatewayInvariant`, `DeliveryInvariant` | | the inductive invariants (`IInv`); that of the handlers is `HandlersInv` in `Handlers` |
| `StorageProofs`, `HandlersProofs`, `RelayerProofs`, `ReaderProofs`, `LocksProofs`, `MembershipProofs`, `GatewayProofs`, `DeliveryProofs` | | the proofs, section 4 |
| `MC*` | | symmetry sets and inputs for TLC |

Operators named `X_Y` with a comment starting with "Fault" are faulty variants
of operator `X`, kept to see that each property notices such a bug.

Two abstract specifications say what a part promises.

* `WriteBehind` is an archive that lags behind the messages.  A client writes or
  deletes a message at any time, and every state of it has a later stamp; messages
  that wait are copied together; the copies reach the archive together, or the upload
  is given up and they arrive later, perhaps after newer ones, or never; the archive
  shows the latest state that has arrived; a copy known to be archived marks its
  message.  `RelayerRefinement` maps the content, nonce, deletion and `updated_at` of a
  stored message to what is served, an archived status to the mark, the batch to the
  copies, the abandoned quilts to the copies that may come late and the latest patch
  on Walrus to the archive.  That `Relayer` implements it means that a reader of Walrus
  only ever sees states the message had, in their order, through any mix of failures,
  late arrivals, repetitions and statuses.  It also states the weakness precisely:
  `Confirm` marks a message whatever it has become since it was copied, so the
  refinement does not exclude the lost edits and deletions of `EditDuringUpload`.
* `AtomicStorage` makes each critical section one step.  All other modules take the
  storage that way; `Locks` shows that they may.  Its `nonces` is mapped to
  the nonces of the stored messages: the set changes a statement earlier than
  the message, under a lock that nobody can look behind (`SwapHidden`).

Abstractions, and why they are safe:

* `Utc::now()` is a clock that advances with every stamp.  Two stamps of the
  same instant are not modelled; they would only matter to readers of Walrus
  who compare `updated_at`, and the system clock has nanosecond resolution.
  A clock set back is not modelled either.
* A patch on Walrus is its own identifier (content addressing).  `walrus` only
  grows: nothing in the relayer deletes.
* `serde_json` failing on a `Message`, a poisoned lock, `NotFound` on a stored
  id (nothing is ever removed) and a closed channel (the worker and `AppState`
  live as long as the process) cannot happen and have no step.
* In `Gateway` a request begins when its headers, timestamp, signature and
  address have been checked: those checks look at nothing but the request, and
  one that fails them changes nothing.  A refused request is `Refuse`.
* Storage operations interleave at lock granularity, also on several threads
  (`CallsAreAtomic`).  In `Locks` a reader waits for a writer that waits for the same
  lock: the standard library leaves that to the platform, and a circle is easier to
  close that way.
* `Delivery` grants every sender every permission, and `Gateway` looks at no timestamp:
  the two parts of the middleware do not depend on each other.  Wall clock and stamps
  share `now`.
* Of the bytes a request is signed over, `Delivery` keeps the fields that are read.
  These bytes are the body, or `timestamp:sender_address:group_id` for a request without
  one (`auth/middleware.rs:186-257`).  They name no method; a body that has more fields than
  a handler knows is accepted; and the message a DELETE is about is in the path, which is
  not signed.  So in the model, as in the code, a PUT's body may arrive as a POST, and
  whatever a sender signed for a group within the TTL, a GET's bytes included, is
  accepted with a DELETE of any of its messages there.  `ChangesAreSigned` claims no
  more of a deletion.
* A checkpoint holds any number of events of any accounts, in the order the contract
  emitted them.  Of the contract it is assumed, from what `membership.rs` says of it, that
  an account is a member while it has a permission, that joining and leaving emit an
  event of their own, and that no permission is granted to or revoked from a
  non-member.  `Bundles` bounds the sets of permissions one call grants or revokes in a
  run; the proofs allow all of them.
* Walrus keeps what it stored.  Really a quilt is kept for `WALRUS_STORAGE_EPOCHS`
  epochs; nothing in the relayer reacts when they end.
* The fullnode always sets the cursor; `unwrap_or(0)` is not modelled.
* Patch tags are copied from the same message as the patch and left out.

`clobbered`, `missed`, `late` and `origin` are read by no other action.  `clobbered` holds the messages
whose last client write the worker overwrote; `missed` the accounts some of
whose events never arrived; `late` the messages that became visible below the
position a reader had reached; `origin` the signed body each message was made from.  They let the properties say exactly what the code
keeps, while the runs expected to be violated show what it does not.

## 3. Runs

| Run | Shows | Bounds |
|---|---|---|
| `Archive` | the inductive invariant, `ArchiveShowsMessage`, `ArchiveFollowsStorage`, `OnlyOwnerEdits`, `ImplementsWriteBehind` | 2 messages, 2 groups, 2 senders, 2 nonces (an edit changes the nonce), 2 concurrent requests, batches of 2; requests arrive while the clock is below 2 |
| `Liveness` | every pending message is handled; enough notifications start a cycle without the timer (fairness below) | batch of 1 with 2 messages, so that the batch is smaller than the backlog; threshold 2, reached only when both count |
| `Locks` | inductive invariant, no circle of waiting threads, no half-done swap seen, calls implement `AtomicStorage` | 3 threads, 2 messages, 2 nonces; no writing call begins once the clock is at 3.  Two locks and three threads close every circle these calls could |
| `Delivery` | inductive invariant, `ChangesAreSigned`, `OncePerPost` | 2 groups, 2 senders, 2 messages, 2 nonces, 2 concurrent requests; 5-bit timestamps with a TTL of 1, clients' clocks at both ends of the range and around the server's; requests arrive while the clock is below 2 |
| `Reader` | inductive invariant; nonce set exact, orders unique, the stale ownership check still true when the write happens; pages follow each other without repetition or hole, and `has_next` is exact, while others write | 2 groups and senders, 3 messages, pages of at most 2, the limits none, 0, 1 and one above the maximum; 2 concurrent requests, arriving while the clock is below `MaxTime` |
| `Gateway` | inductive invariant; a request is let in only while the chain at the event applied last gives its account the permission (`AdmittedByChain`); every write and read goes back to a permission the chain gave that account in the message's group | 2 groups, 2 senders, all four permissions in two bundles, 4 events in up to 3 checkpoints, 1 message, 2 concurrent requests |
| `Membership` | inductive invariant, cache against chain after every event, and `KeepsUp` | 2 accounts, 2 messaging and 1 other permission in two bundles, 5 events in up to 3 checkpoints |

In `Archive` two requests that arrived before the clock reached 2 write at any time
after: a message is created and changed twice around one upload or several, or two
messages are created and one changed; marks, re-uploads and late arrivals go on after that.
`MaxTime`, `MaxEvents` and `MaxCheckpoints` are the only bounds on behaviours.  Five events
are two members joining, each with a grant, and a revocation, or one joining, losing
part of its permissions and leaving; three checkpoints hold them in any division, a grant and
its revocation in one checkpoint included, with a gap or a repetition.  In `Gateway` four
events are grants in two groups or to two senders, or a grant and its revocation, around a
request.
Three messages with pages of two make a full page, a rest, and a page in whose
middle another message may appear.  In `Reader` a limit of 0 gives an empty page
with `has_next` true; a client that insists on it makes no progress, which is what
`HasNextIsExact` says of it and no more.

A reader that starts without a position relies on getting the oldest messages
first, and so does `NothingSkipped`: `get_messages_by_group` cuts an ascending
list off at its end.  `storage/adapter.rs:107` and `:114` say that without bounds it gives
the most recent messages; that this run passes, and fails with the cut at the other end,
shows that it does not, which is one of the findings.  `adapter.rs:108` also says that
`after_order` takes precedence when both bounds are given; the code applies both, and so
does `Paging`.

In `Delivery` a POST is stored and answered while the clock shows 0 and 1, and two more
requests that arrive then, its repetition with an edit or a deletion, or two edits, run
in any order.  Five bits leave room for a timestamp half the
range away from the clock.  That one has no absolute value in i64 and passes
`validate_timestamp`, against what the middleware's documentation says: the run
`StaleTimestamp`.  `ChangesAreSigned` promises the TTL for the timestamps since 1970, for
which the difference from the clock does not overflow.

Fairness.  A request being served and a worker that is not waiting for an event
go on because tokio polls every runnable task (weak fairness, `FairSpec`).
`PendingEventuallyHandled` assumes in addition that the interval timer fires again and
again (weak fairness of `TimerTick`) and that Walrus does not fail or answer in
part for ever (strong fairness of a full answer); `ThresholdTriggersSync` assumes
neither.  In `MembershipSync` the service handles what has arrived, applies the
events of a checkpoint and subscribes again (weak fairness); streams may break
as often as they like, and `KeepsUp` then promises nothing.  No arrival of
requests or checkpoints is assumed.  With an endless stream of
new messages and a batch smaller than their rate a message could be passed over
for ever, since the query keeps no order; the clients of the run are bounded.

Runs that are expected to be violated compare the code with what its own
comments and documents say (`findings` in `PROJECT.json`):

* `EditDuringUpload`: `update_sync_status` assigns the
  status without looking at the one the message has by now, so an edit made during
  the upload loses its pending status and is never archived.  A deletion made during the
  upload is lost in the same way, and the message is live again.
* `EditAfterDelete`: PUT accepts a deleted message and revives it.
* `StaleTimestamp`: a timestamp 2^63 seconds before the clock counts as within the TTL.
* `InsertOrder`: a message may become visible below newer ones, where a reader
  polling with `after_order` does not look any more.
* `MissedRevocation`: events between two subscriptions are lost; the cache keeps
  a revoked permission.

## 4. Proofs

TLAPS proves every safety property that a run checks and finds true, for all
sets of ids, groups, accounts, nonces, contents, tasks and threads, chains of
any length, every batch size, threshold, page limit, TTL and word width.  `theorems` in
`PROJECT.json` names them.  The assumptions are those of the modules: the set of
message ids is finite, numbers are naturals, the TTL and the clock fit the
word, `None` is none of the values it is told apart from.

Every proof has the same shape: an inductive invariant that TLC has checked on
the component's run, one lemma per operation, one step per part of the invariant
that the operation can disturb, and the properties from the invariant.

*Storage and handlers* (`StorageProofs`, `HandlersProofs`).  `HandlersInv` has the
types of a task's locals at each `pc`, `StampsPast`, `NoncesExact`, `OrdersUnique` and
`WriterOwnsMessage`.  It is proved for the handlers by themselves (`HandlersAlone`)
and as a lemma about each operation, for whatever runs beside them.

*Relayer* (`RelayerProofs`).  `ArchiveShowsMessage` is not inductive.  `IInv` adds
what holds in the middle of a cycle, of all patches that are stored or may yet be
(`Sent`): the copies in the batch are the stored messages or earlier states of them, with
the status of the running workflow (`BatchCopies`); every patch keeps the identity of its
message and is older than it, or is the one made from its present state while the message
is still pending (`PatchesOfStored`), and the same relative to the copy (`PatchesOfBatch`);
the patch of an archived message is later than all others that were ever sent
(`ArchivedIsLatest`), so that a late arrival changes nothing; a stamp identifies a
patch of a message (`PatchesDiffer`); the answer names patches of the copies
(`AnswersStored`); locals do not outlive their phase (`BatchByPhase`).  A pending
message stays in the batch until it is marked, because only the worker makes a
message not pending.

*Refinement of `WriteBehind`* (also `RelayerProofs`).  Under the mapping of
`RelayerRefinement` a POST, a PUT or a DELETE is `Write` or `Delete`, the query `Take`, an
upload that is stored `Arrive`, one that failed `GiveUp`, a quilt stored after that
`ArriveLate`, a mark `Confirm`, a copy the answer does not name `Skip`; every other step
changes nothing the abstract archive shows.  That the latest patch after an arrival is the
later one of what was shown and what arrived follows from `PatchesDiffer`.

*Locks* (`LocksProofs`).  The invariant says which guards a thread has at each
statement (`GuardsByStatement`), that guards of different threads are compatible,
what a call has found out under its guards, and by how much the nonces run ahead of
the messages in the middle of a swap (`NoncesMidSwap`).  `NoCircularWait`: a thread
only waits for threads of a lower rank.  Highest are those that wait for `messages`,
which have no guard; those that hold `messages` and wait for `nonces` are below, and
those that wait for nothing lowest; so the lowest of any set waits for none of them.
`CallsAreAtomic`: a statement that inserts or changes a message, or takes an order, is
the step of `AtomicStorage`, every other one changes nothing it shows.

*Membership* (`MembershipProofs`).  The invariant adds to `CacheMatchesChain` and
`NoInventedPermission` that every event tells all that changed on chain with it
(`LedgerExplained`), that an account in no event of a stretch holds the same after it
(`UnnamedHoldTheSame`), and where the cursors of the service stand on the ledger
(`CheckpointsInOrder`, `CursorsInOrder`).  Applying an event to the cache is then the same
change as on chain, for an account that missed none; a gap changes nothing for the
accounts it does not name.  Nothing is assumed of how events fall into checkpoints.
`ServiceMovesForward`: the service never goes back on the ledger, and what was held after
an event stays on record.

*Gateway* (`GatewayProofs`).  The membership service inside the gateway is proved
once more by naming: `MembershipProofs` is instantiated with the senders as accounts, and
every step of the gateway is one of its steps or leaves it alone.  `AdmittedByChain` is
`CacheMatchesChain` at the moment of the check.  What the cache says was given after some
event, and what was given stays given; so the account of each request in a handler was
given its permission (`CallersWereGiven`), and `HandlersServeCallers` carries that to the
write that follows.  A permission that was given may have lasted for one event only: a
request let in between a grant and its revocation runs, in the code as in the model.

*Reader* (`ReaderProofs`).  A page is described by what it contains (`PageContents`): it is
ascending, what it leaves out is above all it has, and `has_next` tells whether
anything was left out.  That a sorted list exists for every finite set of messages
is shown without induction: the rank of a message is the number of those below
it, and counting makes the ranks a one-to-one map onto 1..n.  The invariant adds
that what was received belongs to its group and that late messages are below the
position; every property of the pages follows from the description, since writes
keep the order and the group of each message.

*Delivery* (`DeliveryProofs`).  A handler goes on with the group, sender, text and message of
a request that passed every check when it came in (`ServesAuthentic`), and
`OncePerPost` follows from `NoncesExact`.  `Fresh` is what `validate_timestamp` guarantees: for
every word width, the difference of two times since 1970 does not wrap and has an absolute
value.

Only model-checked:

* `PendingEventuallyHandled`, `ThresholdTriggersSync`, `KeepsUp`: liveness under fairness is
  beyond the prover;
* that the runs expected to be violated are violated.

## 5. Not modelled, and plan

Not modelled because there is nothing to check: configuration, boot, socket
forwarding, attestation and signing (single library calls), dead client calls.
The log buffer of `enclave.rs` takes lines and gives the last ones back under one
mutex; no component reads it.

A restart is not modelled.  `memory.rs` says that data is lost on restart, and
nothing in the code recovers: the process begins in the initial states of these modules,
with new ids, and patches stored before belong to messages nobody knows.

The flag `is_edited` of a response compares `updated_at`, which archiving a message stamps too,
with `created_at`: a message shows as edited once it is archived, against
`src/scripts/test-e2e.ts:352`.  Nothing in the relayer reads the flag, and it is left out.

Abstracted: the parsing of headers, bodies and event payloads, hex decoding and
cryptography; each either lets a request or event through or leaves no trace.

To be done: what the runs expected to be violated leave open could be stated the
other way round, as theorems about a relayer with the guard the code lacks
(`update_sync_status` comparing the status, PUT refusing a deleted message); and
`ThresholdTriggersSync`'s safety part, that the worker's count never exceeds the
notifications received, as an invariant.
