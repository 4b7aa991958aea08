SPECIFICATION Spec
CONSTANTS
  CrcBytes = 2
  DataBytes = 5
  BitAnd <- MCAnd
  Programs <- MCPrograms
  None = None
  Failures = FALSE
INVARIANTS SavedBoots RunsWholeCommands CrcCovers
PROPERTIES ImplementsStore
