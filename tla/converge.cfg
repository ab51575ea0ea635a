SPECIFICATION FairSpec
CONSTANTS
  NumServices = 1
  Backups <- One
  ListBackups <- None
  Volumes <- None
  TransportSecrets <- AB
  NotifSecrets <- OnlyM
  ACSecrets <- OnlyX
  NoSecret = NoSecret
  Nil = Nil
  Rotation = "settled"
  Disturbances <- Everything
  MaxFaults = 1
  MaxChanges = 1
  A = A
  B = B
  C = C
  M = M
  N = N
  X = X
  Y = Y
PROPERTIES
  Converges
  LeaseImplemented
CHECK_DEADLOCK FALSE
