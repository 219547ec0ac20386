CONSTANTS
  None = None
  lookup = lookup
  pay = pay
  ghost = ghost
  away = away
  Subject = {ann, bob}
  Call = {pay, ghost}
  Task = {t1}
  Handler = {h1, h2}
  Writers = {ann}
  Approvers = {ann, bob}
  Risk <- MCRisk
  AutoApproveUpTo = 1
  SecondPerson = FALSE
  MaxSteps = 3
  MaxRuns = 1
  Replica <- MCReplica
  Home <- MCHome
  Faults = {}
SPECIFICATION FairSpec
INVARIANTS
  BudgetHolds
  PauseIsDecidable
PROPERTIES
  RunSettles
