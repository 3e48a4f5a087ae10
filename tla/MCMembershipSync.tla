-------------------------- MODULE MCMembershipSync --------------------------
(* The membership cache following a short chain, for TLC. *)
EXTENDS MembershipInvariant
=============================================================================
