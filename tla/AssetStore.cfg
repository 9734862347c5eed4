SPECIFICATION Spec
CONSTANTS
  Threads = {t1, t2}
  Ids = {1, 2, 3, 4, 5, 6, 7}
  Names <- MCNames
  None = None
  Calls <- MCCalls
  InitialDb <- MCInitialDb
  MaxCalls = 3
  MaxFailures = 2
  rc = rc
  dcA = dcA
  dcB = dcB
  grp = grp
  ups = ups
  new = new
INVARIANTS
  TypeOK
  NamesClashOnlyInRaces
  LicencesReturned
PROPERTY Atomic
CHECK_DEADLOCK FALSE
