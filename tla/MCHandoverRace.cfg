\* A login between the statements of a scan.
SPECIFICATION Spec
CONSTANTS
  a1 = a1
  a2 = a2
  NoAsset = NoAsset
  NoHeir = NoHeir
  Asset = {a1}
  Heir = {1, 2}
  Login = {l1}
  Claimant = {c1}
  Config <- MCOne
  Day = 1
  WarnDays = 1
  TriggerDays = 2
  HeartbeatGap = 0
  TokenLife = 1
  ReversalWindow = 1
  PoolSize = 2
  MaxEvents = 3
  MaxTime = 3
  MaxFaults = 0
PROPERTIES LoginReversesPending
CHECK_DEADLOCK FALSE
