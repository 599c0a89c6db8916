CONSTANTS
  a = a
  b = b
  c = c
  x = x
  y = y
  NoAccount = NoAccount
  MissingAuth = MissingAuth
  AccountIds = {a}
  Identities = {x}
  Quotas <- MCQuotas
  SettingsChoices <- MCSettingsBalanced
  Stores <- MCOneAccount
  MaxTime = 1
  Requests = {r1}
  Kinds = {"get"}
  UpstreamAnswers = {"limited"}
  RetryAfters = {0}
  MaxMessages = 0
  MaintenanceLoops = {}
  StatusRequests = {}
  RefreshInterval = 9
  RefreshMessages = 9
  Admins = {}
SPECIFICATION Spec
INVARIANT BodyDelivered
