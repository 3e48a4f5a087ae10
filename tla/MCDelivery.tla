----------------------------- MODULE MCDelivery ------------------------------
(* Signed requests and their repetitions, for TLC. *)
EXTENDS DeliveryInvariant, TLC

\* What the server's clock says at first and next, and both ends of the range.
ClientClocks == {-HalfRange, 0, 1, HalfRange - 1}

\* Members of these sets are only compared.
Symmetry ==
    Permutations(MessageIds) \cup Permutations(Nonces) \cup Permutations(Tasks)
        \cup Permutations(Senders) \cup Permutations(Groups)
=============================================================================
