SPECIFICATION Spec
CONSTANTS
  Request = {r1, r2}
  Division <- ThreeDivisions
  None = None
  Absent = Absent
  Top = Top
  InitialParent <- Siblings
  Operations <- PatchArchive
  OneAtATime = FALSE
  MaxEvents = 1
  div_a = div_a
  div_b = div_b
  div_c = div_c
  div_d = div_d
PROPERTIES
  ArchiveIsFinal
SYMMETRY Symmetry
