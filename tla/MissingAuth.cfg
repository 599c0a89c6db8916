CONSTANTS
  a = a
  b = b
  c = c
  x = x
  y = y
  NoAccount = NoAccount
  MissingAuth = MissingAuth
  AccountIds = {a, b}
  Identities = {x}
  Quotas <- MCQuotas
  SettingsChoices <- MCSettingsBalanced
  Stores <- MCTwoAccounts
  MaxTime = 1
  Requests = {r1}
  Kinds = {"get"}
  UpstreamAnswers = {"ok"}
  RetryAfters = {0}
  MaxMessages = 0
  MaintenanceLoops = {}
  StatusRequests = {}
  RefreshInterval = 9
  RefreshMessages = 9
  Admins = {adm}
SPECIFICATION Spec
PROPERTY FailsOverToHealthy
