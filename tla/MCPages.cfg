SPECIFICATION Spec
CONSTANTS
  all = all
  some = some
  v1 = v1
  v2 = v2
  bad = bad
  home = home
  other = other
  Query <- MCQuery
  NoFilter = all
  PagesOf <- MCPagesOf
  User = {u1, u2}
  Division = {d1, d2, d3}
  Position = {p1, p2}
  Shape = {t1, t2}
  Role = {1, 2}
  InitialRoles = {1, 2}
  Limit = 1
  Current = Current
  Value <- MCValue
  Valid <- MCValid
  InitialValue = v1
  Path <- MCPath
  AuthRoute = home
  Route <- MCPath
  MaxSessions = 2
  MaxToasts = 2
  MaxShown = 4
  None = None
  MaxCalls = 3
  FewCalls = 2
INVARIANTS
  TypeOK
  ShowsWhatIsAsked
  AgreesWithServer
  WaitsForCalls
  PutOffIsDoneOnce
  PageOfCookie
  NoReloadLoop
PROPERTIES
  OnlyLatestAnswers
