\* Two concurrent CLI processes over two usernames, one of them also
\* running `install`; every statement and file write able to fail, one
\* power loss; three invocations, one key pair each.
CONSTANTS
  Admins <- MCAdmins
  Installers <- MCInstallers
  Usernames <- MCUsernames
  Keys <- MCKeys
  a1 = a1  a2 = a2  n1 = n1  n2 = n2
  k1 = k1  k2 = k2  k3 = k3  k4 = k4
  NoUser = NoUser  NoKey = NoKey  Torn = Torn
  MaxCommands = 3
  MaxCrashes = 1
SYMMETRY MCSymmetry
SPECIFICATION Spec
INVARIANTS
  KeyFileMatchesStore
  RevokedIffRevocationRow
PROPERTIES
  NodeDIDIsNodeKey
CHECK_DEADLOCK FALSE
