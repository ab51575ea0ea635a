SPECIFICATION SteadySpec
CONSTANTS
  NumServices = 1
  Backups <- None
  ListBackups <- None
  Volumes <- None
  TransportSecrets <- OnlyA
  NotifSecrets <- None
  ACSecrets <- XY
  NoSecret = NoSecret
  Nil = Nil
  Rotation = "settled"
  Disturbances <- Credential
  MaxFaults = 0
  MaxChanges = 1
  A = A
  B = B
  C = C
  M = M
  N = N
  X = X
  Y = Y
PROPERTIES
  ACReleaseSafe
CHECK_DEADLOCK FALSE
