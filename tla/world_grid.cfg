SPECIFICATION MCSpec
CONSTANTS
  None = None
  Limit <- MCLimit
  LastWindowId = 4
  LastOutputId = 2
  Origins <- MCOrigins
  Sizes <- MCSizes
  InitialSizes <- MCInitial
  Viewports <- MCViewports
  Zooms = {1}
  Pans = {}
\* Window ids run out, and a World without windows then has nothing left to do.
CHECK_DEADLOCK FALSE
INVARIANTS TiledDisjoint TiledOnGrid PlacementIsNearest FloatingNeverSteersPlacement
PROPERTY ResizeCarriesChain
