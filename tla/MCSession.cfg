SPECIFICATION Spec
CONSTANTS
  Request = {r1, r2}
  User = {u1}
  Sid = {s1, s2}
  None = None
  IdleTTL = 2
  AbsTTL = 3
  MaxTime = 4
INVARIANTS
  TypeOK
  LogoutIsFinal
  LifetimeIsBounded
PROPERTIES
  RevocationIsFinal
  UseProlongs
  ExpiryIsJustified
SYMMETRY Symmetry
