SPECIFICATION HotplugSpec
CONSTANTS
  None = None
  Connectors = {1, 2}
  MaxFlips = 2
  MaxRedraws = 1
  MaxFaults = 1
INVARIANTS LoopArmed LockShown
PROPERTIES OutputKept
