SPECIFICATION Spec
CONSTANTS
  Request = {r1, r2, r3}
  User <- MCUser
  Position <- MCPosition
  Division <- MCDivision
  None = None
  Parent <- MCParent
  Limit <- MCLimit
  InitialHome <- MCInitialHome
  InitialMembers <- MCMembers
  MaxEvents = 3
  MaxTime = 3
  root = root
  child = child
  lead = lead
  helper = helper
  fresh = fresh
  u1 = u1
  u2 = u2
INVARIANTS
  TypeOK
  LoggedHoldersHold
  MaxCountRespected
  DivisionArchivedOnce
PROPERTIES
  SeatsSpec
  CountsAreExact
SYMMETRY Symmetry
