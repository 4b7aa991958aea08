SPECIFICATION Spec
CONSTANTS
  Word = 16
  PARALLEL_BUF_SIZE = 4
  Lengths = {0, 3, 4, 5}
  Header = 1
  Earlier = {0, 2}
  Ncycles = {3}
INVARIANTS AllTransmitted
