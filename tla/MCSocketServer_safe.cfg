SPECIFICATION Spec
CONSTANTS
  Null = Null
  Sockets = {s1, s2}
  Ids = {a}
  Senders = {x}
  Delay = 0
  MaxLines = 1
  MaxThrows = 0
CONSTRAINT NotStopped
SYMMETRY Symmetry
INVARIANT MappedUntilClosed
INVARIANT ClosedOnlyAfterLapse
INVARIANT ClosedLeavesMap
INVARIANT NotFoundIsRight
CHECK_DEADLOCK FALSE
