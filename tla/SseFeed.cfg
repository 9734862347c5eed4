SPECIFICATION FairSpec
CONSTANTS
  Assets = {ups}
  Devices = {ups}
  Rules = {r1}
  AlertStates = {active, resolved}
  MaxChanges = 2
  MaxAlerts = 2
  MaxRepublish = 1
  MaxFailures = 1
INVARIANTS
  TypeOK
  ShownIsListed
  StaleIsOnItsWay
  GhostsAreAnnounced
  AlertsRemembered
PROPERTIES
  DeletedIsUnlisted
  NewcomersAreListed
CHECK_DEADLOCK FALSE
