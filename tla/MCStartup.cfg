CONSTANTS
  Server = {"a", "a__b"}
  Order <- MCOrder
  RemoteName <- MCRemoteName
  LocalName <- MCLocalName
  Registrable <- MCRegistrable
  DefaultRisk <- MCDefaultRisk
  ToolRisk <- MCToolRisk
  FirstParty <- MCFirstParty
  MaxTools = 2
  MaxPages = 2
  Page <- MCPage
SPECIFICATION FairSpec
INVARIANTS
  TypeOK
  ServesWhatIsConfigured
  GatedAsConfigured
  NothingLeftRunning
PROPERTY LifespanSettles
CHECK_DEADLOCK FALSE
