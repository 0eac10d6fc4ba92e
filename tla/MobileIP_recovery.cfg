SPECIFICATION FairSpec
CONSTANTS
  Byte = 8
  mn = mn
  ha = ha
  hap = hap
  fa = fa
  fap = fap
  Nodes = {mn}
  Hosts = {ha, hap, fa, fap}
  Ids = {1, 2}
  AdvLifetime = 1
  RegLifetime = 3
  maxRequests = 1
  ReplyWait = 2
  NoEntry = NoEntry
  AnyOrder = FALSE
  MaxFaults = 2
INVARIANTS BeliefBacked VisitorBacked
PROPERTIES Served Returned
