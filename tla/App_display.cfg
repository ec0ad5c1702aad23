SPECIFICATION Spec
CONSTANTS
  Sinks = {"advised"}
  NameTables <- FullTable
  Revisions = {"scaled", "unscaled", "reconnect", "fixed"}
  EarlyModes = {TRUE}
  FullScreen = FALSE
  DynamicResize = TRUE
  Scale = 0
  DeviceScale = 0
  Extent = 640
  Screen = 1280
  MaximisedExtent = 1281
  Extents = {150, 801}
  ServerExtents = {1000}
  Dpis = {120, 144}
  Gestures = {"drag", "maximise", "restore", "minimise"}
  EarlyGestures = TRUE
  Budgets <- DisplayBudget
INVARIANT SessionSizeKnown
INVARIANT DesktopSizeLegal
INVARIANT ScaleFollowsMonitor
