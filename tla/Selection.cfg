CONSTANTS
  a = a
  b = b
  c = c
  x = x
  NoAccount = NoAccount
  AccountIds = {a, b, c}
  Identities = {x}
  UsageStep = 30
  Stores <- MCStores
SPECIFICATION Spec
INVARIANTS TypeOK
PROPERTIES ServesCandidate WithinDelta NoFlapping NobodyPassedOver RoundRobinVisitsAll
