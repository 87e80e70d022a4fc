SPECIFICATION FairSpec
CONSTANTS
  Request = {r1, r2}
  Division <- FourDivisions
  None = None
  Absent = Absent
  Top = Top
  InitialParent <- Branch
  Operations <- AllOperations
  OneAtATime = TRUE
  MaxEvents = 2
  div_a = div_a
  div_b = div_b
  div_c = div_c
  div_d = div_d
INVARIANTS
  Acyclic
  ArchivedAreClosed
PROPERTIES
  ArchiveIsFinal
  RequestsEnd
