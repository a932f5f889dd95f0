SPECIFICATION Spec
CONSTANTS
  Codes = {c1, c2}
  Keys = {k0, k1}
  NoKey = NoKey
  MaxStops = 2
INVARIANTS KeptKeyStays Finishable
PROPERTIES NeverLeftWithoutKey FinishesKept
