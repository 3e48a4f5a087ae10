-------------------------- MODULE RelayerRefinement --------------------------
(***************************************************************************)
(* The relayer implements WriteBehind: statuses, batches, workflows and    *)
(* patches amount to an archive that lags behind the messages.             *)
(***************************************************************************)
EXTENDS RelayerInvariant

\* What a message can say is never mistaken for a message that is not there.
ASSUME RefinementAssumption ==
    None \notin [text : Contents \X Nonces, deleted : BOOLEAN, at : Nat]

\* What a message, a copy of it or a patch says.
Says(m) == [text |-> <<m.content, m.nonce>>, deleted |-> is_deleted(m), at |-> m.updated_at]

Serves == [i \in MessageIds |-> IF contains_key(i) THEN Says(messages[i]) ELSE None]

Sends == [i \in MessageIds |-> IF batch[i] # None THEN Says(batch[i]) ELSE None]

\* What a reader makes of patches: the latest one of each message.
Reads(patches) == [i \in MessageIds |->
    IF \E p \in patches : p.id = i
    THEN Says(CHOOSE p \in patches : Latest(patches, i, p))
    ELSE None]

WB == INSTANCE WriteBehind
         WITH Keys <- MessageIds, Texts <- Contents \X Nonces,
              message <- Serves, synced <- [i \in MessageIds |-> Archived(i)],
              sending <- Sends, late <- {Reads(quilt) : quilt \in abandoned},
              archive <- Reads(walrus)

\* Every step of the relayer is one of the lagging archive, or invisible there:
\* what a reader of Walrus sees changes only to a state the message really
\* had, and only forward, even when uploads that failed arrive long after newer
\* ones; and a status says archived only once the copy it was given for is.
ImplementsWriteBehind == WB!Spec
=============================================================================
