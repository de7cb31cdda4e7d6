\* Concurrent handlers; store queries and the nonce INSERT may fail.
CONSTANTS
  Procs <- MCProcs
  Usernames <- MCUsernames
  Nonces <- MCNonces
  p1 = p1  p2 = p2  alice = alice  bob = bob  n1 = n1  n2 = n2
  Malformed = Malformed
  NotSeen = NotSeen
  TTL = 2
  Skew = 1
  MaxNonceAge <- SafeNonceAge
  MaxTime = 3
  MaxRequests = 2
  MaxRevocations = 1
  StoreMayFail = TRUE
  RecordMayFail = TRUE
SYMMETRY MCSymmetry
SPECIFICATION Spec
INVARIANTS
  TypeOK
  RevokedUserNeverAdmitted
