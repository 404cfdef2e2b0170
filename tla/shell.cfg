SPECIFICATION MCSpec
CONSTANTS
  None = None
  LockSurface = LockSurface
  Windows = {1, 2, 3}
  TopLayers = {top}
  OverlayLayers = {}
  Stories = {"windows", "seat"}
\* In a world without windows all of which have been, nothing is left to do.
CHECK_DEADLOCK FALSE
INVARIANT WorldMatchesManaged
PROPERTIES FocusCarriesKeyboard DialogHandsBackFocus ToplevelsSpec ClosingIsTold CameraKeepsStill KeyboardComesBack FullscreenHidesTopLayers
