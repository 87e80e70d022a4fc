CONSTANTS
    root = root  temp = temp  admin = admin  nothing = nothing
    r1 = r1 r2 = r2 d1 = d1 d2 = d2 p1 = p1 p2 = p2 t1 = t1 t2 = t2
    Root = root  Temp = temp  Admin = admin  Nothing = nothing
    Roles <- MCRoles  Divisions <- MCDivisions
    People <- MCPeople  Assignments <- MCAssignments
    MaxRuns = 3
SPECIFICATION Spec
CHECK_DEADLOCK FALSE
INVARIANTS TypeOK DemoIsInPlace NothingIsLeftTwice RefusedOnlyByLateCalls
