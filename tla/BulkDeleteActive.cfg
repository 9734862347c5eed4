SPECIFICATION Spec
CONSTANTS
  Ids = {1, 2, 3, 4, 5, 6, 7, 8}
  None = None
  Databases <- MCSoundDatabases
  Selections <- MCSelections
  Sensors = {}
  MaxInserts = 0
  MaxFailures = 0
INVARIANT ActiveDevicesDeactivated
