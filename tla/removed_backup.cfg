SPECIFICATION SteadySpec
CONSTANTS
  NumServices = 2
  Backups <- None
  ListBackups <- Two
  Volumes <- None
  TransportSecrets <- AB
  NotifSecrets <- None
  ACSecrets <- None
  NoSecret = NoSecret
  Nil = Nil
  Rotation = "settled"
  Disturbances <- RotateService
  MaxFaults = 0
  MaxChanges = 2
  A = A
  B = B
  C = C
  M = M
  N = N
  X = X
  Y = Y
SYMMETRY Symmetry
INVARIANTS
  PodsProtected
CHECK_DEADLOCK FALSE
