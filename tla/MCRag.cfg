SPECIFICATION Spec
CONSTANTS
  Layer = {l1, l2}
  Doc = {d1, d2}
  Version = {v1, v2}
  NoDoc = NoDoc
  Worker = {w1, w2}
  NoJob = NoJob
  Faults = {"crash", "disk"}
  Absent = Absent
  Torn = Torn
  Cut = Cut
  Session = {w1, w2}
  Free = Free
  ExtensionCreated = {TRUE, FALSE}
  Texts <- AllTexts
  Configs <- TwoConfigs
  Sizes <- Windows
  MaxLength = 5
SYMMETRY Symmetry
INVARIANT FilesInv
INVARIANT PostgresInv
INVARIANT ChunksTile
PROPERTY FilesAreAnIndex
PROPERTY TableIsAnIndex
