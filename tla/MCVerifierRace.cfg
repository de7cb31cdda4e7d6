\* Two handlers verify the same token at once; retention is ample.
CONSTANTS
  Procs <- MCProcs
  Usernames <- MCUsernames
  Nonces <- MCNonces
  p1 = p1  p2 = p2  alice = alice  bob = bob  n1 = n1  n2 = n2
  Malformed = Malformed
  NotSeen = NotSeen
  TTL = 2
  Skew = 1
  MaxNonceAge <- SafeNonceAge
  MaxTime = 5
  MaxRequests = 2
  MaxRevocations = 1
  StoreMayFail = FALSE
  RecordMayFail = FALSE
SYMMETRY MCSymmetry
SPECIFICATION Spec
INVARIANT NonceAcceptedAtMostOnce
