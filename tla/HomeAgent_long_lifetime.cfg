SPECIFICATION FairSpec
CONSTANTS
  Byte = 256
  ha = ha
  fa1 = fa1
  fa2 = fa2
  Nodes = {n1}
  Hosts = {ha, fa1, fa2}
  Ids = {1, 2, 3, 4, 5}
  PublicAddr = ha
  Incoming <- LongIncoming
  AllocMayFail = FALSE
  NoEntry = NoEntry
PROPERTIES BindingsLapse
