SPECIFICATION SteadySpec
CONSTANTS
  NumServices = 1
  Backups <- None
  ListBackups <- None
  Volumes <- One
  TransportSecrets <- AB
  NotifSecrets <- None
  ACSecrets <- None
  NoSecret = NoSecret
  Nil = Nil
  Rotation = "settled"
  Disturbances <- RotateServiceRestart
  MaxFaults = 1
  MaxChanges = 4
  A = A
  B = B
  C = C
  M = M
  N = N
  X = X
  Y = Y
SYMMETRY Symmetry
INVARIANTS
  PodsProtected
CHECK_DEADLOCK FALSE
