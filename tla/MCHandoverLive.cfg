\* Liveness: fair scheduler and requests, no failures.
SPECIFICATION FairSpec
CONSTANTS
  a1 = a1
  a2 = a2
  NoAsset = NoAsset
  NoHeir = NoHeir
  Asset <- MCAsset
  Heir = {1, 2}
  Login = {l1}
  Claimant = {c1}
  Config <- MCConfig
  Day = 1
  WarnDays = 1
  TriggerDays = 2
  HeartbeatGap = 0
  TokenLife = 1
  ReversalWindow = 1
  PoolSize = 2
  MaxEvents = 5
  MaxTime = 3
  MaxFaults = 0
PROPERTIES ScanEnds 
CHECK_DEADLOCK FALSE
