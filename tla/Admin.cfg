CONSTANTS
  a = a
  b = b
  c = c
  x = x
  y = y
  NoAccount = NoAccount
  MissingAuth = MissingAuth
  AccountIds = {a, b}
  Identities = {x, y}
  Quotas <- MCSpareOnly
  SettingsChoices <- MCSettingsBalanced
  Stores <- MCTwoAccounts
  MaxTime = 1
  Requests = {r1}
  Kinds = {"post"}
  UpstreamAnswers = {"ok"}
  RetryAfters = {0}
  MaxMessages = 1
  MaintenanceLoops = {}
  StatusRequests = {}
  RefreshInterval = 1
  RefreshMessages = 1
  Admins = {adm}
SPECIFICATION Spec
INVARIANT StoreConsistent
PROPERTIES CooldownHonoured ReturnsToService
