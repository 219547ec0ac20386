CONSTANTS
  None = None
  Call = {c1}
  Notices = {}
  Backlog = 1
SPECIFICATION Spec
INVARIANT NoWaitOnDeadChannel
CHECK_DEADLOCK FALSE
