SPECIFICATION Spec
CONSTANTS
  k1 = k1
  k2 = k2
  a = a
  b = b
  c = c
  None = None
  Keys = {k1, k2}
  Values = {a, b}
  Puts <- OneForm
  Faults = {"crash", "tear"}
  MinimumDirtySize = 2
  MaxLog = 5
INVARIANTS
  ReadYourWrites
  TableIsReplay
  CompactReturns
PROPERTIES
  RefinesMap
