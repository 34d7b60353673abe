SPECIFICATION Spec
CONSTANTS
  k1 = k1
  k2 = k2
  a = a
  b = b
  c = c
  None = None
  Keys = {k1, k2}
  Values = {a, b}
  Puts <- OneForm
  Faults = {"short_write"}
  MinimumDirtySize = 1
  MaxLog = 4
INVARIANTS
  CompactReturnIsTrue
