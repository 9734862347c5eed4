SPECIFICATION Spec
CONSTANTS
  Ids = {1, 2, 3, 4, 5, 6, 7, 8}
  None = None
  Databases <- MCSoundDatabases
  Selections <- MCSelections
  Sensors = {4}
  MaxInserts = 1
  MaxFailures = 1
INVARIANTS
  TypeOK
  RepliesAreTrue
  FamiliesDeleted
