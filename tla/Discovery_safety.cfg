SPECIFICATION SpecDiscovery
CONSTANTS
  Byte = 3
  interval = 3
  jitter = 1
  lifetimeAdv = 9
  AllocMayFail = TRUE
  period = 2
  maxRetransmissions = 2
INVARIANTS TypeOKDiscovery ThreeWithinLifetime HeardSoon
PROPERTIES NumbersInTurn HeardAgain
