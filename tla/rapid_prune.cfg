SPECIFICATION SteadySpec
CONSTANTS
  NumServices = 1
  Backups <- None
  ListBackups <- None
  Volumes <- None
  TransportSecrets <- ABC
  NotifSecrets <- None
  ACSecrets <- None
  NoSecret = NoSecret
  Nil = Nil
  Rotation = "fresh"
  Disturbances <- Rotate
  MaxFaults = 0
  MaxChanges = 2
  A = A
  B = B
  C = C
  M = M
  N = N
  X = X
  Y = Y
SYMMETRY Symmetry
INVARIANTS
  PodsProtected
CHECK_DEADLOCK FALSE
