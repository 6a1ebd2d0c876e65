CONSTANTS
  Tunnels = {t1}
  Configs <- MCConfigs
  MaxAttempts = 1
  FailureThreshold = 1
  MaxGeneration = 2
  Digests = {d1}
SPECIFICATION ReloadSpec
PROPERTY TargetReloadApplies
