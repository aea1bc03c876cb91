SPECIFICATION Spec
CONSTANTS
  Label = {a, b}
  None = None
  Depths = {0, 1, 2, 3}
  NestedDuplicates = TRUE
INVARIANTS
  TypeOK
  ContextAgrees
  LabelsSound
  AcceptedJumpsHaveTargets
  ScopesInv
CHECK_DEADLOCK FALSE
