SPECIFICATION Spec
CONSTANTS
  Label <- Names
  None = None
  Sources <- StatementSources
INVARIANTS
  TypeOK
  LookaheadFits
  StatementsAllowIn
  ContextRestored
  BracketsBalanced
  WholeSource
