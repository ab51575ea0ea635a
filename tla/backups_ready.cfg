SPECIFICATION Spec
CONSTANTS
  Core <- OnlyAPI
  ListBackups <- OnlyB
  Volumes <- None
  Order <- ApiBackup
  RawSpecs <- BackupEdits
  Images <- TwoImages
  Default0 = "default"
  NameLen <- Lengths
  CrNameLen <- CinderLength
  Nil = Nil
  Unset = Unset
  MaxEdits = 1
  MaxFaults = 0
INVARIANTS
  ReadyMeansAllReady
CHECK_DEADLOCK FALSE
