\* Safety: two assets, own and category bindings, one login, one claim, no failures.
SPECIFICATION Spec
CONSTANTS
  a1 = a1
  a2 = a2
  NoAsset = NoAsset
  NoHeir = NoHeir
  Asset <- MCAsset
  Heir = {1, 2}
  Login = {l1}
  Claimant = {c1}
  Config <- MCConfig
  Day = 3
  WarnDays = 1
  TriggerDays = 2
  HeartbeatGap = 1
  TokenLife = 3
  ReversalWindow = 2
  PoolSize = 2
  MaxEvents = 3
  MaxTime = 9
  MaxFaults = 0
INVARIANTS TypeOK OneLiveEventPerAsset
PROPERTIES FinalIsFinal TriggeredOnlyWhenSilent FirstDueHeirGetsTheAsset
CHECK_DEADLOCK FALSE
