CONSTANTS
  a = a
  b = b
  c = c
  x = x
  y = y
  NoAccount = NoAccount
  MissingAuth = MissingAuth
  AccountIds = {a, b, c}
  Identities = {x}
  Quotas <- MCQuotas
  SettingsChoices <- MCSettingsSticky
  Stores <- MCThreeAccounts
  MaxTime = 1
  Requests = {r1}
  Kinds = {"get"}
  UpstreamAnswers = {"ok"}
  RetryAfters = {0}
  MaxMessages = 0
  MaintenanceLoops = {}
  StatusRequests = {}
  RefreshInterval = 9
  RefreshMessages = 9
  Admins = {adm}
SPECIFICATION Spec
PROPERTY ActiveSurvives
