SPECIFICATION FairSpec
CONSTANTS
  Settings <- MCSettings
  Randoms <- MCRandoms
INVARIANTS
  TypeOK
  NeverAhead
PROPERTIES
  DirectAfterProxy
  EveryServerTried
