SPECIFICATION MCSpec
CONSTANTS
  None = None
  Processes = {p1, p2, p3}
  Names = {1, 2}
  Captures = {1, 2}
  Clients = {k1, k2}
  Paths <- Files
  Main = "main"
  Contents <- FileContents
  Missing = Missing
  Broken = Broken
  Rejected = Rejected
  MaxLoads = 2
  Sizes = {1, 2}
  Zooms = {1, 2}
  Area = 3
  VirtualOutputs = 3
  HostWidths = {1, 8, 13}
  Scales <- FractionalScales
\* Processes end for good, and so does a backend.
CHECK_DEADLOCK FALSE
INVARIANTS ReadyReachable RefusedOnlyByFile BufferComesBack LayoutFollowsWorld
           OutputsShareHost
PROPERTIES LockedShowsLock CaptureAnswered PingedAgain SizeSettles LastGoodCounts StartupOnce
