\* The asset of a final handover is purged by the owner, who then falls silent again.
SPECIFICATION FairSpec
CONSTANTS
  a1 = a1
  a2 = a2
  NoAsset = NoAsset
  NoHeir = NoHeir
  Asset <- MCAsset
  Heir = {1, 2}
  Login = {l1}
  Claimant = {c1}
  Config <- MCOwn
  Day = 1
  WarnDays = 1
  TriggerDays = 2
  HeartbeatGap = 0
  TokenLife = 1
  ReversalWindow = 1
  PoolSize = 2
  MaxEvents = 4
  MaxTime = 6
  MaxFaults = 0
PROPERTIES SilentOwnerIsHandedOver
CHECK_DEADLOCK FALSE
