SPECIFICATION Spec
CONSTANTS
  a = a
  near = near
  far = far
  x = x
  one = one
  two = two
  NoAccount = NoAccount
  AccountIds = {a, near, far}
  Identities = {x}
  ChildURLs <- MCChildURLs
  FailureGrace = 0
  Workers = {one, two}
  Reports <- MCReports
  Backoffs = {1}
  Rejections = {"missing-auth"}
  Setups <- MCSetups
  MaxTime = 2
INVARIANTS TypeOK FailedChildAvoided OneRefresh AdminOutcome

