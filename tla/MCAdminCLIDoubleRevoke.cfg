\* Two concurrent CLI processes, as in MCAdminCLI.cfg, both able to run
\* `users revoke` of one user: each passes the revoked_at check before the
\* other's transaction commits.
CONSTANTS
  Admins <- MCAdmins
  Installers <- MCInstallers
  Usernames <- MCUsernames
  Keys <- MCKeys
  a1 = a1  a2 = a2  n1 = n1  n2 = n2
  k1 = k1  k2 = k2  k3 = k3  k4 = k4
  NoUser = NoUser  NoKey = NoKey  Torn = Torn
  MaxCommands = 3
  MaxCrashes = 0
SYMMETRY MCSymmetry
SPECIFICATION Spec
INVARIANT AtMostOneRevocation
CHECK_DEADLOCK FALSE
