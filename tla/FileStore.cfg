SPECIFICATION Spec
CONSTANTS
  Ids = {i1, i2}
  Snapshots = {s1}
  NoSnapshot = none
  MaxCorruptBackups = 1
  MaxErrors = 1
  MaxDirErrors = 1
  MaxKills = 1
  MaxOutages = 1
  MaxDamages = 3
  MaxTroubles = 5
SYMMETRY IdSymmetry
CONSTRAINT FewTroubles
INVARIANTS
  Survives
  FileIsHeld
  NoTempLeft
  ArchivesKept
PROPERTIES
  ImplementsStore
