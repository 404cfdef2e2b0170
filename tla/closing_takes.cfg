SPECIFICATION MCSpec
CONSTANTS
  None = None
  Windows = {w1, w2}
  Resizable = {w1}
  MaxTaken = 0
  Left = left
  PanButton = right
  MoveHold = right
  MovePress = left
  ResizeButton = left
  FloatHold = right
  FloatPress = middle
  PlaceButton = middle
  ZoomButton = right
  PanClicks = 2
  CloseClicks = {3}
  OtherClicks = {1}
  EdgeCommand = TRUE
INVARIANT ClosingTakesNothing
