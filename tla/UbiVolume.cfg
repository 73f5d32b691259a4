SPECIFICATION Spec
CONSTANTS
  a = a
  b = b
  Vol = {a, b}
  Sects <- MCSects
  Layouts <- MCLayouts
  LebSects = 3
  GapBuf = 1
  MaxSects = 2
INVARIANTS TypeOK ReadableIsWhole OneUpdating DiesOnlyPastEnd
PROPERTIES CallReturns
