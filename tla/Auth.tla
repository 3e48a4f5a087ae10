-------------------------------- MODULE Auth ---------------------------------
(***************************************************************************)
(* What auth_middleware and the handlers decide on a request alone, before *)
(* they look at the membership or the storage (auth/signature.rs,          *)
(* auth/schemes.rs, handlers.rs): its timestamp, its key, its signatures   *)
(* and the address it claims.                                              *)
(*                                                                         *)
(* Timestamps are i64 and the arithmetic on them wraps, as it does in the  *)
(* release build; WordBits stands for 64.  A key is named after the        *)
(* address it hashes to: derive_sui_address is injective as long as        *)
(* Blake2b is.                                                             *)
(***************************************************************************)
EXTENDS Integers

CONSTANTS
    WordBits,
    request_ttl_seconds     \* REQUEST_TTL_SECONDS

ASSUME AuthAssumption ==
    /\ WordBits \in Nat \ {0}
    /\ request_ttl_seconds \in 0..(2^(WordBits - 1) - 1)

HalfRange == 2^(WordBits - 1)

i64 == (-HalfRange)..(HalfRange - 1)

Wrap(n) == ((n + HalfRange) % (2 * HalfRange)) - HalfRange

\* i64::abs: the least i64 has no opposite and stays itself.
abs(n) == IF n < 0 THEN Wrap(-n) ELSE n

\* Fault: a timestamp ahead of the clock is always accepted.
validate_timestamp_PastOnly(timestamp, now) ==
    Wrap(now - timestamp) <= request_ttl_seconds

validate_timestamp(timestamp, now) ==
    abs(Wrap(now - timestamp)) <= request_ttl_seconds

(***************************************************************************)
(* A request r carries                                                     *)
(*   key      the public key, or None when its flag byte is of no known    *)
(*            scheme or its length not that scheme's                       *)
(*   signed   whether the signature verifies under that key for the bytes  *)
(*   bytes    the body or, without one, the timestamp, address and group   *)
(*            of the headers: with the sender it claims, the group and the *)
(*            timestamp and, in a body, with text_signed, whether          *)
(*            message_signature verifies under that key for group, text,   *)
(*            nonce and key version                                        *)
(***************************************************************************)
scheme_and_length(r, none) == r.key # none

verify_signature(r) == r.signed

verify_address_matches_pubkey(r) == r.bytes.sender = r.key

\* Checks 1 to 9 of auth_middleware.
Authentic(r, none, now) ==
    /\ scheme_and_length(r, none)
    /\ validate_timestamp(r.bytes.timestamp, now)
    /\ verify_signature(r)
    /\ verify_address_matches_pubkey(r)

verify_message_signature(b) == b.text_signed
=============================================================================
