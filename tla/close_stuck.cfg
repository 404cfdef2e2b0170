SPECIFICATION MCSpec
CONSTANTS
  None = None
  LockSurface = LockSurface
  Windows = {1}
  TopLayers = {}
  OverlayLayers = {}
  Stories = {"windows"}
CHECK_DEADLOCK FALSE
PROPERTY FadingEnds
