SPECIFICATION Spec
CONSTANTS
  Request = {r1, r2}
  User <- MCUser
  Position <- MCPosition
  Division <- MCDivision
  None = None
  Parent <- MCParent
  Limit <- MCLimit
  InitialHome <- MCInitialHome
  InitialMembers <- NoMembers
  MaxEvents = 3
  MaxTime = 1
  root = root
  child = child
  lead = lead
  helper = helper
  fresh = fresh
  u1 = u1
  u2 = u2
INVARIANT ArchivedPositionIsVacant
SYMMETRY Symmetry
