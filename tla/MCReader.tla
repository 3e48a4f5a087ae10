------------------------------ MODULE MCReader ------------------------------
(* A reader and concurrent writers, for TLC. *)
EXTENDS ReaderInvariant

\* Ids, nonces, groups, senders and tasks are only compared.
Symmetry ==
    Permutations(MessageIds) \cup Permutations(Nonces) \cup Permutations(Groups)
        \cup Permutations(Senders) \cup Permutations(Tasks)
=============================================================================
