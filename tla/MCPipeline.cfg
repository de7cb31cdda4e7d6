\* Three concurrent requests, auth or accounting, a shutdown whose deadline
\* may pass while handlers run, failing writes, store errors and every
\* shape of policy result.  The process stops after it exits.
CONSTANTS
  Procs <- MCProcs
  PolicyResults <- MCPolicyResults
  NoDoc <- MCNoDoc
  r1 = r1  r2 = r2  r3 = r3
  NonString = NonString
SYMMETRY MCSymmetry
SPECIFICATION Spec
INVARIANTS
  OrderlyShutdownAuditsAll
CHECK_DEADLOCK FALSE
