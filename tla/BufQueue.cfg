SPECIFICATION Spec
CONSTANTS
  Elem = {e1, e2}
  MaxLen = 4
  NoElem = NoElem
INVARIANTS TypeOK RingIntact PointersLive NoLeak
PROPERTY IsFifo
