----------------------------- MODULE MCHandlers -----------------------------
(* Handlers alone, for TLC: concurrent requests over one storage. *)
EXTENDS Handlers, TLC

\* Ids, nonces, contents, groups, senders and tasks are only compared.
Symmetry ==
    Permutations(MessageIds) \cup Permutations(Nonces) \cup Permutations(Tasks)
        \cup Permutations(Senders) \cup Permutations(Groups)
=============================================================================
