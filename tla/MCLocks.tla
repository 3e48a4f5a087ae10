------------------------------ MODULE MCLocks -------------------------------
(* Storage calls lock by lock, for TLC. *)
EXTENDS LocksInvariant, TLC

\* Members of these sets are only compared.
Symmetry == Permutations(MessageIds) \cup Permutations(Nonces) \cup Permutations(Threads)
=============================================================================
