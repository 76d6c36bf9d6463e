SPECIFICATION Spec
CONSTANTS
  Absent = Absent
  Sources <- MCSources
  Commands <- MCCommands
  Blocks = 2
  MaxBuilds = 2
INVARIANTS
  TypeOK
  OpenedIsComplete
  IdsInMatrix
PROPERTY
  ConsistentFilesOpen
