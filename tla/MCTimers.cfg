SPECIFICATION FairSpec
CONSTANTS
  k1 = k1
  k2 = k2
  Keys = {k1, k2}
  Delays = {0, 6}
  Second = 2
  Waits = {50}
  Settings <- Either
  MaxAdds = 2
  MaxDeletes = 1
  MaxNow = 0
CHECK_DEADLOCK FALSE
INVARIANTS
  TypeOK
  FiresOnce
  RemovalReaches
  NoOversleep
PROPERTIES
  TimersLeave
