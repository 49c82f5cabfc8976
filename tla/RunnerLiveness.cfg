SPECIFICATION FairSpec
CONSTANTS
  Parts = {"loop", "effects", "team", "pairing"}
  MaxAttempt = 1
  MaxEvents = 1
  LoopFaults = 3
  LoopCrashes = 2
  Steps <- ToolThenPublication
  EffectFaults = 2
  EffectCrashes = 2
  MaxRetries = 2
  ToolFaults = 3
  MaxInputs = 3
  ChannelEvents = 1
  MaxAttempts = 2
  LinkFaults = 3
  MaxPairings = 2
  MaxRotations = 2
  DeviceFaults = 2
PROPERTIES
  StopIsReported
  StartReachesPolling
  OpenEndsAreTied
CHECK_DEADLOCK FALSE
