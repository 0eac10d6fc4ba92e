SPECIFICATION SteadySpec
CONSTANTS
  Byte = 256
  ha = ha
  fa = fa
  fap = fap
  n1 = n1
  n2 = n2
  Nodes = {n1, n2}
  Hosts = {ha, fa, fap}
  Ids = {1, 2, 3}
  PublicAddr = fa
  PrivateAddr = fap
  Incoming <- Waiting
  lifetimeReg = 25
  maxRequests = 5
  ReplyWait = 7
  AllocMayFail = FALSE
INVARIANT AcceptedAreVisitors
