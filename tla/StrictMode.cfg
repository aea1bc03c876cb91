SPECIFICATION Spec
CONSTANT MaxItems = 6
INVARIANTS
  TypeOK
  SameOutcome
  ProgramAcceptsAll
  NothingLeftBehind
  StricterRejectsMore
  StrictInv
CHECK_DEADLOCK FALSE
