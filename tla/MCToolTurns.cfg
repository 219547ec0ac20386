CONSTANTS
  None = None
  Nobody = Nobody
  i1 = i1
  i2 = i2
  Invoice = {i1, i2}
  AmountOf <- MCAmountOf
  DueOn <- MCDueOn
  Today = 3
  Run = {r1, r2}
  MaxTurns = 2
  Width = 2
  Room = 0
  RemoteRisk = 1
  AutoApproveUpTo = 1
  MaxSteps <- MCMaxSteps
  Turn <- MCTurn
SPECIFICATION FairSpec
INVARIANTS
  TypeOK
  PaidAsApproved
  ResultsAreTrue
  HalfWrittenNeverRuns
  PaysWhatLookupReported
  SummaryIsTrue
PROPERTY RunsSettle
CHECK_DEADLOCK FALSE
