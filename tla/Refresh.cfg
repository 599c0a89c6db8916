CONSTANTS
  a = a
  b = b
  c = c
  x = x
  y = y
  NoAccount = NoAccount
  MissingAuth = MissingAuth
  AccountIds = {a, b}
  Identities = {x}
  Quotas <- MCQuotas
  SettingsChoices <- MCSettingsReload
  Stores <- MCTwoAccounts
  MaxTime = 2
  Requests = {r1}
  Kinds = {"post"}
  UpstreamAnswers = {"ok", "broken", "usage-limit"}
  RetryAfters = {0}
  MaxMessages = 1
  MaintenanceLoops = {m}
  StatusRequests = {s}
  RefreshInterval = 1
  RefreshMessages = 1
  Admins = {}
SPECIFICATION Spec
INVARIANTS TypeOK OneRefresh StoreConsistent
PROPERTIES LeavesFailedAccount CooldownHonoured SyncNeverRewinds ReturnsToService
