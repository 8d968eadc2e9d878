SPECIFICATION Spec
CONSTANTS
  Null = Null
  page = page
  list = list
  home = home
  item = item
  both = both
  Admins = {a1, a2}
  Users = {}
  MaxRole = 2
  InitRole = 2
  SystemRoles = {1}
  Resources = {page}
  NonRestricted = {}
  Subs <- MCOneSub
  InitRows <- MCOneRow
  InitUserRole <- MCNoUserRole
  MaxFailures = 0
INVARIANT ReloadReflectsAssignments
CHECK_DEADLOCK FALSE
