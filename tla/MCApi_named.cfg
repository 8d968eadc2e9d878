SPECIFICATION ApiSpec
CONSTANTS
  Null = Null
  c1 = c1
  c2 = c2
  x1 = x1
  x2 = x2
  alert = alert
  other = other
  Clients = {c1, c2}
  Senders = {x1, x2}
  Names = {alert, other}
  NameOf <- MCNameOf
  Topic <- MCTopic
  MaxSends <- MCOneEach
  Sockets = {s1}
  Ids = {a}
  Delay = 1
  MaxLines = 2
  MaxThrows = 1
INVARIANT OnlySpecifiedGet
CHECK_DEADLOCK FALSE
