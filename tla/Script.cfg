SPECIFICATION Spec
CONSTANTS
  Label <- Names
  None = None
  Sources <- ScriptSources
INVARIANT WholeSource
