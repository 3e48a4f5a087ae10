----------------------------- MODULE WriteBehind ------------------------------
(***************************************************************************)
(* What the relayer promises of its archive, without batches by status,    *)
(* workflows or patches: a copy of the messages that lags behind them.  A  *)
(* message is copied while it waits to be archived, and the copy reaches   *)
(* the archive once, late, or never; it is marked only for a copy that is  *)
(* known to be there.  Every state of a message has a later stamp than the *)
(* one before, and the archive shows the latest state that has arrived, so *)
(* that it never goes back, in whatever order the copies arrive.           *)
(***************************************************************************)
EXTENDS Naturals

CONSTANTS
    Keys,       \* the messages
    Texts,      \* what a message can say
    None

VARIABLES
    message,    \* key -> what is served: a text, whether it is deleted, a stamp
    synced,     \* key -> it is marked as archived
    sending,    \* key -> the copy on its way, or None
    late,       \* the copies given up, which may still arrive
    archive     \* key -> what the archive shows, or None

vars == <<message, synced, sending, late, archive>>

Nothing == [k \in Keys |-> None]

Init ==
    /\ message = Nothing
    /\ synced = [k \in Keys |-> FALSE]
    /\ sending = Nothing
    /\ late = {}
    /\ archive = Nothing

\* The message gets a state, with any stamp that is later than its last one.
Becomes(k, text, deleted) ==
    /\ message'[k] # None
    /\ message'[k].at \in Nat
    /\ message[k] # None => message[k].at < message'[k].at
    /\ message' = [message EXCEPT ![k] =
                      [text |-> text, deleted |-> deleted, at |-> message'[k].at]]

\* A client writes or deletes a message, at any time.  Writing revives it.
Write(k, text) ==
    /\ Becomes(k, text, FALSE)
    /\ synced' = [synced EXCEPT ![k] = FALSE]
    /\ UNCHANGED <<sending, late, archive>>

Delete(k) ==
    /\ message[k] # None
    /\ Becomes(k, message[k].text, TRUE)
    /\ synced' = [synced EXCEPT ![k] = FALSE]
    /\ UNCHANGED <<sending, late, archive>>

\* Some of the messages that wait are copied, all at one moment.
Take(keys) ==
    /\ keys # {}
    /\ sending = Nothing
    /\ \A k \in keys : message[k] # None /\ ~synced[k]
    /\ sending' = [k \in Keys |-> IF k \in keys THEN message[k] ELSE None]
    /\ UNCHANGED <<message, synced, late, archive>>

\* Copies are archived together; those that are outdated by then do not show.
Shown(copies) == [k \in Keys |->
    IF copies[k] # None /\ (archive[k] # None => archive[k].at < copies[k].at)
    THEN copies[k] ELSE archive[k]]

Arrive ==
    /\ archive' = Shown(sending)
    /\ UNCHANGED <<message, synced, sending, late>>

\* The upload counts as failed.  Its copies may arrive at any time from now on.
GiveUp ==
    /\ late' = late \cup {sending}
    /\ sending' = Nothing
    /\ UNCHANGED <<message, synced, archive>>

ArriveLate(copies) ==
    /\ copies \in late
    /\ archive' = Shown(copies)
    /\ UNCHANGED <<message, synced, sending, late>>

\* A copy known to be archived marks its message, whatever the message has
\* become since: its text stays, but not a deletion or a revival.
Confirm(k) ==
    /\ message[k] # None
    /\ sending[k] # None
    /\ archive[k] = sending[k]
    /\ sending' = [sending EXCEPT ![k] = None]
    /\ synced' = [synced EXCEPT ![k] = TRUE]
    /\ Becomes(k, message[k].text, sending[k].deleted)
    /\ UNCHANGED <<late, archive>>

\* No patch id was reported for it: it will be copied again.
Skip(k) ==
    /\ sending[k] # None
    /\ sending' = [sending EXCEPT ![k] = None]
    /\ UNCHANGED <<message, synced, late, archive>>

Next ==
    \/ \E k \in Keys : \/ \E text \in Texts : Write(k, text)
                       \/ Delete(k)
                       \/ Confirm(k)
                       \/ Skip(k)
    \/ \E keys \in SUBSET Keys : Take(keys)
    \/ Arrive
    \/ GiveUp
    \/ \E copies \in late : ArriveLate(copies)

Spec == Init /\ [][Next]_vars
=============================================================================
