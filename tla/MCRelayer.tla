----------------------------- MODULE MCRelayer ------------------------------
(* Handlers and sync worker together, for TLC. *)
EXTENDS RelayerRefinement, TLC

\* Members of these sets are only compared.  Used in the runs without liveness.
Symmetry ==
    Permutations(MessageIds) \cup Permutations(Nonces) \cup Permutations(Tasks)
        \cup Permutations(Contents) \cup Permutations(Groups) \cup Permutations(Senders)
=============================================================================
