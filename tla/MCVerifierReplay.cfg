\* Concurrent handlers with a pruner whose retention, TTL + 2 * Skew, covers
\* the whole validity window of a token; the store does not fail.  One nonce,
\* so one token is minted, and three requests to accept, replay and race it.
CONSTANTS
  Procs <- MCProcs
  Usernames <- MCUsernames
  Nonces = {n1}
  p1 = p1  p2 = p2  alice = alice  bob = bob  n1 = n1  n2 = n2
  Malformed = Malformed
  NotSeen = NotSeen
  TTL = 2
  Skew = 1
  MaxNonceAge <- SafeNonceAge
  MaxTime = 5
  MaxRequests = 3
  MaxRevocations = 1
  StoreMayFail = FALSE
  RecordMayFail = FALSE
SYMMETRY MCSymmetry
SPECIFICATION Spec
INVARIANT NoReplayAfterAcceptance
PROPERTY ImplementsAuthService
