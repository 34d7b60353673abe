SPECIFICATION Spec
CONSTANTS
  k1 = k1
  k2 = k2
  a = a
  b = b
  c = c
  None = None
  Keys = {k1, k2}
  Values = {a, b, c}
  Puts <- OwnValues
  Faults = {"crash", "tear", "tear_comp", "short_write", "flush_loss", "rename", "reopen"}
  MinimumDirtySize = 1
  MaxLog = 2
INVARIANTS
  NoForeignValue
VIEW Physical
