SPECIFICATION MCSpec
CONSTANTS
  None = None
  Hosts = {h1}
  Tunnels = {t1}
  MaxCommits = 2
  MaxFaults = 2
  MaxEdgeClients = 2
  MaxWire = 1
  MaxRequests = 3
  EnrollmentFaults = 2
  MaxEdits = 2
  MaxAttempts = 3
INVARIANTS
  EdgeFollows
  ReportsHold
  CredentialsConsistent
  RotationRecoverable
  CommandsSound
PROPERTIES
  EdgeConverges
  RotationSettles
CHECK_DEADLOCK FALSE
