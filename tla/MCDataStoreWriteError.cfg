SPECIFICATION Spec
CONSTANTS
  k1 = k1
  k2 = k2
  a = a
  b = b
  c = c
  None = None
  Keys = {k1, k2}
  Values = {a, b}
  Puts <- OneForm
  Faults = {"crash", "short_write"}
  MinimumDirtySize = 2
  MaxLog = 3
INVARIANTS
  LossReported
