SPECIFICATION Spec
CONSTANTS
  Null = Null
  Blank = Blank
  NoRole = NoRole
  root = root
  ann = ann
  bob = bob
  mail = mail
  staff = staff
  guest = guest
  Threads = {t1}
  Self <- MCSelf
  MaxUser = 4
  InitUsers <- MCInitUsers
  InitUserRole <- MCInitUserRole
  SystemUsers = {1}
  Names = {root, ann, bob}
  Emails = {mail}
  SystemRoles = {staff}
  Roles = {staff, guest}
  MaxStarts = 2
  MaxFailures = 0
INVARIANT
  EmailUnique
CHECK_DEADLOCK FALSE
