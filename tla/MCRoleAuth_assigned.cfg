SPECIFICATION Spec
CONSTANTS
  Null = Null
  page = page
  list = list
  home = home
  item = item
  both = both
  Admins = {a1}
  Users = {3}
  MaxRole = 2
  InitRole = 2
  SystemRoles = {1}
  Resources = {page}
  NonRestricted = {}
  Subs <- MCOneSub
  InitRows <- MCOneRow
  InitUserRole <- MCInitUserRole
  MaxFailures = 0
PROPERTY AssignedRoleNotRemoved
CHECK_DEADLOCK FALSE
