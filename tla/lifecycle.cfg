SPECIFICATION Spec
CONSTANTS
  NumServices = 1
  Backups <- None
  ListBackups <- None
  Volumes <- None
  TransportSecrets <- AB
  NotifSecrets <- None
  ACSecrets <- OnlyX
  NoSecret = NoSecret
  Nil = Nil
  Rotation = "settled"
  Disturbances <- Lifecycle
  MaxFaults = 1
  MaxChanges = 2
  A = A
  B = B
  C = C
  M = M
  N = N
  X = X
  Y = Y
SYMMETRY Symmetry
INVARIANTS
  TypeOK
  ConfigProtected
  PodsProtected
  NoLeakAfterDelete
CHECK_DEADLOCK FALSE
