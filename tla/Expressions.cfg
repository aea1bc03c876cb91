SPECIFICATION Spec
CONSTANTS
  Label <- ShortNames
  None = None
  Sources <- ExpressionSources
INVARIANTS
  BracketsBalanced
  ContinueTargetsLoop
  GoalsAgree
PROPERTIES
  Termination
  ImplementsScopes
