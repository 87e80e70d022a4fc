SPECIFICATION Spec
CONSTANTS
  Request = {r1, r2}
  Division <- ThreeDivisions
  None = None
  Absent = Absent
  Top = Top
  InitialParent <- NoDivisions
  Operations <- AllOperations
  OneAtATime = FALSE
  MaxEvents = 2
  div_a = div_a
  div_b = div_b
  div_c = div_c
  div_d = div_d
INVARIANTS
  TypeOK
  OneRoot
PROPERTIES
  ArchivalIsLogged
SYMMETRY Symmetry
