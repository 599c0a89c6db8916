CONSTANTS
  a = a
  b = b
  c = c
  x = x
  y = y
  NoAccount = NoAccount
  MissingAuth = MissingAuth
  AccountIds = {a, b}
  Identities = {x}
  Quotas <- MCSpareOnly
  SettingsChoices <- MCSettingsBalanced
  Stores <- MCTwoAccounts
  MaxTime = 1
  Requests = {r1}
  Kinds = {"ws"}
  UpstreamAnswers = {"usage-limit"}
  RetryAfters = {0}
  MaxMessages = 0
  MaintenanceLoops = {}
  StatusRequests = {}
  RefreshInterval = 1
  RefreshMessages = 1
  Admins = {adm1, adm2}
SPECIFICATION Spec
PROPERTIES PinLost PinKept
SYMMETRY AdminSymmetry
