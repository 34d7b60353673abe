SPECIFICATION Spec
CONSTANTS
  g1 = g1
  g2 = g2
  o1 = o1
  n1 = n1
  n2 = n2
  Certs = {g1, o1}
  Genuine = {g1}
  None = None
  ServerNonces = {n1}
  AutoProxy = FALSE
  Multicast = FALSE
  MayGiveUp = FALSE
  First = {1, 2}
  IpRetry = 2
  Cap = 3
  Jitter = 2
  MaxLinks = 2
  MaxAsking = 2
INVARIANTS
  PongOfThisChannel
