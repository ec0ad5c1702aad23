SPECIFICATION Spec
CONSTANTS
  Sinks = {"advised"}
  NameTables <- FullTable
  Revisions = {"scaled"}
  EarlyModes = {TRUE}
  FullScreen = FALSE
  DynamicResize = TRUE
  Scale = 0
  DeviceScale = 0
  Extent = 0
  Screen = 1280
  MaximisedExtent = 1281
  Extents = {}
  ServerExtents = {}
  Dpis = {96, 144}
  Gestures = {}
  EarlyGestures = TRUE
  Budgets <- DpiBudget
INVARIANT ScaleFollowsMonitor
