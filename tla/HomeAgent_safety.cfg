SPECIFICATION FairSpec
CONSTANTS
  Byte = 16
  ha = ha
  fa1 = fa1
  fa2 = fa2
  Nodes = {n1, n2}
  Hosts = {ha, fa1, fa2}
  Ids = {1, 2, 3, 4, 5}
  PublicAddr = ha
  Incoming <- ShortIncoming
  AllocMayFail = TRUE
  NoEntry = NoEntry
INVARIANTS TypeOK ListMatchesTable BindingsRequested NeverOverpromises
PROPERTIES ImplementsBindingCache BindingsLapse
