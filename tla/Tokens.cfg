SPECIFICATION Spec
CONSTANTS
  proxy = proxy
  other = other
  client = client
  codex = codex
  manager = manager
  Homes = {h1}
  Procs <- MCProcs
  Workers <- MCWorkers
  ProcOf <- MCProcOf
  Roles <- MCRoles
  Nobody = Nobody
  MaxIssued = 2
INVARIANTS TypeOK UsableToken NeverReused
PROPERTIES CustodyKept EveryRefreshEnds
CHECK_DEADLOCK FALSE
