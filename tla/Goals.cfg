SPECIFICATION Spec
CONSTANTS
  Label <- Names
  None = None
  Sources <- DirectiveSources
INVARIANT SlashContinues
