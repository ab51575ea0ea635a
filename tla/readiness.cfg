SPECIFICATION FairSpec
CONSTANTS
  Core <- OnlyAPI
  ListBackups <- OnlyB
  Volumes <- V1AndLong
  Order <- TheOrder
  RawSpecs <- Submitted
  Images <- TwoImages
  Default0 = "default"
  NameLen <- Lengths
  CrNameLen <- CinderLength
  Nil = Nil
  Unset = Unset
  MaxEdits = 1
  MaxFaults = 1
INVARIANTS
  TypeOK
  ReadyMeansRolledOut
  MigratedBeforeDeploy
  StoredSpecAccepted
  RevisionLabelFits
PROPERTIES
  OneBackupInterface
  BecomesReady
CHECK_DEADLOCK FALSE
