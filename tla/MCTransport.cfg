CONSTANTS
  None = None
  Call = {c1, c2, hello}
  Notices = {hello}
  Backlog = 1
SPECIFICATION FairSpec
INVARIANTS
  OnlyItsOwnReply
  PendingIsInFlight
  ClosedMeansSettled
PROPERTIES
  EndIsAnnounced
  StrayRepliesAreHarmless
  CallsEnd
  CloseEnds
CHECK_DEADLOCK FALSE
