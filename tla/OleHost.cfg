SPECIFICATION Spec
CONSTANTS
  Library <- MCLibrary
  Forced <- MCForced
  MaxVersion = 3
  ImplLists <- MCImplLists
INVARIANT TypeOK
INVARIANT Balanced
INVARIANT SitePointersValid
INVARIANT EventsFindControl
INVARIANT InsideApartment
INVARIANT CleanExit
INVARIANT BestCoclassInUse
INVARIANT EventsFromDefaultSource
