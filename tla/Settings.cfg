SPECIFICATION Spec
CONSTANTS
  a = a
  b = b
  x = x
  one = one
  two = two
  NoAccount = NoAccount
  AccountIds = {a, b}
  Identities = {x}
  MissingAuth = MissingAuth
  SettingsChoices <- MCSettingsChoices
  Defaults <- MCDefaults
  NoConfig = NoConfig
  Broken = Broken
  Proxy = proxy
  Commands = {one, two}
  IdOrder <- MCIdOrder
  Setups <- Saving
PROPERTY ConfigInForce
