SPECIFICATION Spec
CONSTANTS
  Infix <- MCInfix
  Precedence <- MCPrecedence
  MaxInfix = 5
INVARIANTS
  TypeOK
  Grouping
  InSourceOrder
  ResultIsWhole
  MatchesReference
  StackInv
PROPERTY Termination
CHECK_DEADLOCK FALSE
