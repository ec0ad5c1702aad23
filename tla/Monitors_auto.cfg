SPECIFICATION Spec
CONSTANTS
  Dpis <- MCDpis
  Screens <- MCScreens
  Requests <- MCRequests
  Scale = 0
  DeviceScale = 0
INVARIANT FactorsAccepted
INVARIANT NearestPercent
INVARIANT LargestDeviceScale
INVARIANT SessionSizeLegal
PROPERTY ScaleIsMonotone
