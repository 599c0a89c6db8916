CONSTANTS
  a = a
  b = b
  c = c
  x = x
  y = y
  NoAccount = NoAccount
  MissingAuth = MissingAuth
  AccountIds = {a}
  Identities = {x}
  Quotas <- MCSpareOnly
  SettingsChoices <- MCSettingsBalanced
  Stores <- MCOneAccount
  MaxTime = 1
  Requests = {r1, r2}
  Kinds = {"get"}
  UpstreamAnswers = {"broken", "unauthorized"}
  RetryAfters = {0}
  MaxMessages = 1
  MaintenanceLoops = {m}
  StatusRequests = {}
  RefreshInterval = 1
  RefreshMessages = 1
  Admins = {}
SPECIFICATION Spec
PROPERTIES RequestAnswered RefreshEnds LeavesFailedAccount
