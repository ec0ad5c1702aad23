SPECIFICATION Spec
CONSTANTS
  Sinks = {"advised"}
  NameTables <- FullTable
  Revisions = {"scaled"}
  EarlyModes = {FALSE}
  FullScreen = TRUE
  DynamicResize = TRUE
  Scale = 0
  DeviceScale = 0
  Extent = 0
  Screen = 1280
  MaximisedExtent = 1281
  Extents = {}
  ServerExtents = {}
  Dpis = {96}
  Gestures = {}
  EarlyGestures = TRUE
  Budgets <- NoBudget
INVARIANT FullScreenTracked
