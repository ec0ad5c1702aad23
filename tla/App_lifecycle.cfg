SPECIFICATION FairSpec
CONSTANTS
  Sinks = {"advised", "none"}
  NameTables <- LifecycleTables
  Revisions = {"scaled"}
  EarlyModes = {TRUE}
  FullScreen = TRUE
  DynamicResize = TRUE
  Scale = 0
  DeviceScale = 0
  Extent = 0
  Screen = 1280
  MaximisedExtent = 1281
  Extents = {801}
  ServerExtents = {}
  Dpis = {96}
  Gestures = {"drag", "maximise"}
  EarlyGestures = FALSE
  Budgets <- LifecycleBudget
INVARIANT TypeOK
INVARIANT NoLostDisconnect
INVARIANT DisconnectReachesWindow
INVARIANT NoStaleConnection
INVARIANT ExitCodeFaithful
INVARIANT ReasonIsTheControls
INVARIANT FullScreenTracked
PROPERTY ImplementsSession
PROPERTY EndRecordedOnce
PROPERTY QueuesRunDry
PROPERTY EndedSessionEndsProgram
PROPERTY GoneWindowEndsProgram
