SPECIFICATION Spec
CONSTANTS
  Byte = 256
  ha = ha
  hap = hap
  fa = fa
  fap = fap
  ga = ga
  gap = gap
  myAddress = mn
  Nodes = {mn}
  Hosts = {ha, hap, fa, fap, ga, gap}
  Ids = {1, 2}
  home_private_addr = hap
  home_public_addr = ha
  Advs <- Roaming
  Incoming <- Grants
  AllocMayFail = FALSE
PROPERTY HeardIsValid
