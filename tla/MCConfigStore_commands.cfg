SPECIFICATION Spec
CONSTANTS
  CrcBytes = 2
  DataBytes = 6
  BitAnd <- MCAnd
  Default <- MCDefault
  Width = 2
  Addresses <- MCWellFormed
  None = None
  Failures = FALSE
INVARIANT AsAsked
