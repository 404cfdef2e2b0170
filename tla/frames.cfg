SPECIFICATION LoopSpec
CONSTANTS
  None = None
  Connectors = {1}
  MaxFlips = 2
  MaxRedraws = 1
  MaxFaults = 0
PROPERTIES CallbackArrives DeferredWorkDone LockConfirmed
