SPECIFICATION ExportSpec
CONSTANTS
  Ids = {1, 2, 3, 4, 5, 6}
  Names <- MCNames
  None = None
  Documents <- MCDocuments
  InitialDb <- MCInitialDb
  Licences = 2
  MaxFailures = 0
  DocLength = 2
  rc = rc
  dc = dc
  ups = ups
  n1 = n1
  n2 = n2
  n3 = n3
  ExportDb <- MCExportDb
  Scopes <- MCScopes
  MaxChanges = 2
INVARIANT NoOwnSource
CHECK_DEADLOCK FALSE
