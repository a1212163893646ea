CHECK_DEADLOCK FALSE
CONSTANTS
  acme = acme
  beta = beta
  s1 = s1
  s2 = s2
  Realm = {acme, beta}
  NoRealm = NoRealm
  Account = {1, 2, 3}
  Chart <- MCChart
  Sync = {s1, s2}
  MaxTokens = 3
  MaxStates = 2
  MaxMishaps = 1
SYMMETRY MCSymmetry
SPECIFICATION Spec
INVARIANTS
  TypeOK
  RotationIsKept
  TokensOfCompany
  PickerIsOfCompany
  NobodyIsStuck
