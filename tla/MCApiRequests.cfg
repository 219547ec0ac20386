CONSTANTS
  None = None
  reader = reader
  writer = writer
  k = k
  c1 = c1
  c2 = c2
  c3 = c3
  Subject = {reader, writer}
  Call = {}
  Known = {k}
  Request = {c1, c2, c3}
  TaskId = {k, c1, c2, c3}
  Scopes <- MCScopes
  Ask <- MCAsk
  PoolSize = 2
SPECIFICATION FairSpec
INVARIANTS
  TypeOK
  AnswersAreTrue
  RecordNamesItsAuthors
PROPERTIES
  UnreadableIsLeftAlone
  KeepsContract
  RequestsAnswered
CHECK_DEADLOCK FALSE
