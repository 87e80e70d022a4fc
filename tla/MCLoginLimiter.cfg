SPECIFICATION Spec
CONSTANTS
  Attempt = {a1, a2, a3}
  Key = {k1, k2}
  None = None
  MaxFailures = 2
  BlockFor = 2
  MaxTime = 5
INVARIANTS
  TypeOK
  GuessesAreBounded
  LockoutIsEarned
SYMMETRY Symmetry
