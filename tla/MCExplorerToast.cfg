SPECIFICATION Spec
CONSTANTS
  d1 = d1
  d2 = d2
  p1 = p1
  p2 = p2
  Division <- MCDivision
  Initial <- MCInitial
  Position <- MCPosition
  Parent <- MCParent
  Root = Root
  None = None
  MaxCalls = 3
  MaxVersion = 3
INVARIANT ToastMeansSaved
