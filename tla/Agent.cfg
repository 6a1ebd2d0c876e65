CONSTANTS
  t1 = t1
  t2 = t2
  Tunnels <- MCTunnels
  Configs <- MCConfigs
  MaxAttempts = 2
  FailureThreshold = 2
  MaxChanges = 1
SPECIFICATION MCSpec
INVARIANTS
  OrderlyShutdown
  ReachabilityMatchesStreak
  ExitHonest
  ConfigurationSound
PROPERTIES
  DrainSticks
  ShutdownExits
