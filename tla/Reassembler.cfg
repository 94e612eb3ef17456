SPECIFICATION PartsSpec
CONSTANTS
  Author = {anna, bert}
  Id = {x}
  MaxParts = 3
  RecvMaxChars = 4
  MaxPartChars = 2
SYMMETRY Symmetry
INVARIANTS Accounting OneTimerEach
PROPERTIES WholeIsWhole
