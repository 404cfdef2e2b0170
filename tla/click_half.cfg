SPECIFICATION NestedSpec
CONSTANTS
  VirtualOutputs = 2
  HostWidths = {9}
  Scales <- Unscaled
PROPERTY ClickActivatesPart
