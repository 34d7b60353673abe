SPECIFICATION FairSpec
CONSTANTS
  g1 = g1
  g2 = g2
  o1 = o1
  n1 = n1
  n2 = n2
  Certs = {g1, g2, o1}
  Genuine = {g1, g2}
  None = None
  ServerNonces = {n1, n2}
  AutoProxy = TRUE
  Multicast = TRUE
  MayGiveUp = TRUE
  First = {1, 2}
  IpRetry = 3
  Cap = 4
  Jitter = 2
  MaxLinks = 3
  MaxAsking = 2
INVARIANTS
  StateIsTrue
  BackoffBounded
  NoLostRetry
  AuthSound
  AuthFresh
  CoreToldTruth
PROPERTIES
  EventuallyTries
  AttemptEnds
