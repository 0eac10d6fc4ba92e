SPECIFICATION FairSpec
CONSTANTS
  Byte = 8
  ha = ha
  fa = fa
  fap = fap
  n1 = n1
  n2 = n2
  Nodes = {n1, n2}
  Hosts = {ha, fa, fap}
  Ids = {1, 2, 3}
  PublicAddr = fa
  PrivateAddr = fap
  Incoming <- Crossing
  lifetimeReg = 3
  maxRequests = 2
  ReplyWait = 2
  AllocMayFail = TRUE
INVARIANTS TypeOK RelayedArePending WaitBounded OneVisitorPerNode VisitorsAuthorised
PROPERTIES PendingResolved VisitorsLapse
