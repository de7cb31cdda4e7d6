----------------------------- MODULE MCVerifier -----------------------------
(***************************************************************************)
(* Model-checking instance of Verifier.  Times are in units of the skew    *)
(* tolerance: the defaults (credential_ttl 3600 s, clock skew 300 s) keep  *)
(* TTL > Skew, scaled here to TTL = 2, Skew = 1.                           *)
(***************************************************************************)
EXTENDS Verifier, TLC

CONSTANTS p1, p2, alice, bob, n1, n2

MCProcs == {p1, p2}
MCUsernames == {alice, bob}
MCNonces == {n1, n2}

(* Nonces and usernames are interchangeable names.                         *)
MCSymmetry == Permutations(MCNonces) \cup Permutations(MCUsernames)

(* Retention the pruner would need: a token stamped Skew ahead of the      *)
(* server stays valid until TTL + 2 * Skew after it was first seen.        *)
SafeNonceAge == TTL + 2 * Skew
=============================================================================
