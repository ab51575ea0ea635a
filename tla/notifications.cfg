SPECIFICATION Spec
CONSTANTS
  NumServices = 1
  Backups <- None
  ListBackups <- None
  Volumes <- None
  TransportSecrets <- OnlyA
  NotifSecrets <- MN
  ACSecrets <- None
  NoSecret = NoSecret
  Nil = Nil
  Rotation = "settled"
  Disturbances <- RotateNotify
  MaxFaults = 1
  MaxChanges = 2
  A = A
  B = B
  C = C
  M = M
  N = N
  X = X
  Y = Y
SYMMETRY Symmetry
INVARIANTS
  FinalizerInv
  PodsProtected
CHECK_DEADLOCK FALSE
