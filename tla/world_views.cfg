SPECIFICATION MCSpec
CONSTANTS
  None = None
  Limit <- MCLimit
  LastWindowId = 3
  LastOutputId = 3
  Origins <- MCOrigins
  Sizes <- MCSizes
  InitialSizes <- MCSizes
  Viewports <- MCViewports
  Zooms = {1, 2}
  Pans <- MCPans
  Registered <- MCRegistered
  Bar = 1
  Gap = 1
\* Window ids run out, and a World without windows then has nothing left to do.
CHECK_DEADLOCK FALSE
INVARIANTS FollowReveals TiledApartOnScreen
PROPERTIES PresentationRoundTrip OverlapOnlyFromPresentation CameraHeldByFullscreen DesktopSpec
