CONSTANTS
  None = None
  lookup = lookup
  pay = pay
  ghost = ghost
  away = away
  Subject = {ann, bob}
  Call = {lookup, pay}
  Task = {t1}
  Handler = {h1, h2}
  Writers = {ann}
  Approvers = {ann, bob}
  Risk <- MCRisk
  AutoApproveUpTo = 0
  SecondPerson = TRUE
  MaxSteps = 2
  MaxRuns = 2
  Replica <- MCReplica
  Home <- MCHome
  Faults = {}
SPECIFICATION Spec
INVARIANT StartedFromPendingOnly
