----------------------------- MODULE MCGateway -----------------------------
(* Authenticated requests racing with changes of the membership, for TLC. *)
EXTENDS GatewayInvariant, TLC

\* Groups, senders, nonces and tasks are only compared.
Symmetry ==
    Permutations(Groups) \cup Permutations(Senders) \cup Permutations(Nonces)
        \cup Permutations(Tasks)
=============================================================================
