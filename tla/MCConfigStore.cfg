SPECIFICATION Spec
CONSTANTS
  CrcBytes = 2
  DataBytes = 6
  BitAnd <- MCAnd
  Default <- MCDefault
  Width = 2
  Addresses <- MCAddresses
  None = None
  Failures = FALSE
INVARIANTS Durable ValidWhenIdle CrcCovers
PROPERTIES ImplementsCell
