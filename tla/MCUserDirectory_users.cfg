SPECIFICATION Spec
CONSTANTS
  Null = Null
  Blank = Blank
  NoRole = NoRole
  root = root
  ann = ann
  bob = bob
  mail = mail
  staff = staff
  guest = guest
  Threads = {t1, t2}
  Self <- MCSelf
  MaxUser = 4
  InitUsers <- MCInitUsers
  InitUserRole <- MCInitUserRole
  SystemUsers = {1}
  Names = {root, ann, bob}
  Emails = {}
  SystemRoles = {staff}
  Roles = {staff, guest}
  MaxStarts = 2
  MaxFailures = 1
SYMMETRY Symmetry
INVARIANTS
  CoherentAfterLoneHandler
  TwoRolesOnlyByRace
PROPERTIES
  SystemUsersKept
  RefusalRight
CHECK_DEADLOCK FALSE
