CONSTANTS
  None = None
  lookup = lookup
  pay = pay
  Subject = {ann, bob}
  Call = {lookup, pay}
  Task = {t1}
  Handler = {h1, h2}
  Writers = {ann}
  Approvers = {ann, bob}
  Risk <- MCRisk
  AutoApproveUpTo = 0
  SecondPerson = TRUE
  MaxSteps = 2
  MaxRuns = 1
  Replica <- MCReplica
  Home <- MCHome
  Faults = {}
SPECIFICATION ConsoleSpec
INVARIANT ApprovedWhatWasSeen
