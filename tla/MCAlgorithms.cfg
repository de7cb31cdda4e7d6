\* Leaf sequences over three values up to seven lines: every odd level
\* shape up to a height of three occurs.  One-byte public keys, every byte
\* value: the base58 body then has five digits, and every value of the
\* leading and the trailing digit occurs.
CONSTANTS
  Data = {a, b, c}
  MaxLeaves = 7
  PublicKeySize = 1
  Bad = Bad
SPECIFICATION Spec
INVARIANTS
  RootMatchesReference
  InclusionSoundAndComplete
  DIDKeyRoundTrip
  DIDKeyAcceptsOnlyCanonical
