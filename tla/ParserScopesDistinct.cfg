SPECIFICATION Spec
CONSTANTS
  Label = {a, b}
  None = None
  Depths = {0, 1, 2, 3}
  NestedDuplicates = FALSE
INVARIANTS
  LabelsComplete
  RejectedJumpsHaveNone
CHECK_DEADLOCK FALSE
