------------------------------ MODULE AppState ------------------------------
(***************************************************************************)
(* AppState (state.rs): what request handlers and the sync worker share.   *)
(* Besides the storage it holds the sending half of an unbounded channel   *)
(* of unit notifications; the worker owns the receiving half.              *)
(***************************************************************************)
EXTENDS Storage

VARIABLE notifications      \* how many () are in the channel

appVars == <<storageVars, notifications>>

AppInit ==
    /\ StorageInit
    /\ notifications = 0

AppTypeOK ==
    /\ StorageTypeOK
    /\ notifications \in Nat

\* sync_notifier.send(()): never blocks and, with the worker alive, never fails.
SendNotification == notifications' = notifications + 1
=============================================================================
