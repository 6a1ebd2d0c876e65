CONSTANTS
  MaxFaults = 2
  Conns = {c1, c2}
  Limit = 1
  Tunnels = {t1, t2}
  Threads = {e1, e2}
  MaxEvents = 2
  MaxEdits = 2
SPECIFICATION MCSpec
INVARIANTS
  StopSound
  OperationsSound
  DrainKeepsEvents
  EdgeFlagsSound
PROPERTY
  ProcessEnds
CHECK_DEADLOCK FALSE
