SPECIFICATION FairSpec
CONSTANTS
  Null = Null
  page = page
  list = list
  home = home
  item = item
  both = both
  Admins = {a1}
  Users = {3}
  MaxRole = 2
  InitRole = 2
  SystemRoles = {1}
  Resources = {page, list}
  NonRestricted = {page}
  Subs <- MCSubs
  InitRows <- MCInitRows
  InitUserRole <- MCInitUserRole
  MaxFailures = 1
INVARIANTS
  TypeOK
  ReloadNeverEmpty
  MapNeverWrong
  CoherentWhenQuiet
  DenialJustified
PROPERTIES
  AssignmentTakesEffect
CHECK_DEADLOCK FALSE
