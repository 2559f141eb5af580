CONSTANTS
  Submitters <- MCSubmitters
  Serials <- MCSerials
  x1 = x1
  x2 = x2
  o1 = o1
  o2 = o2
  MaxTime = 3
  NoOrder = NoOrder
  NilTime = NilTime
SPECIFICATION Spec
INVARIANT CountedOnce
