SPECIFICATION Spec
CONSTANTS
  Parts = {"loop", "effects", "team", "channel", "pairing"}
  MaxAttempt = 2
  MaxEvents = 1
  LoopFaults = 2
  LoopCrashes = 1
  Steps <- ToolThenPublication
  EffectFaults = 2
  EffectCrashes = 2
  MaxRetries = 2
  ToolFaults = 3
  MaxInputs = 3
  ChannelEvents = 1
  MaxAttempts = 2
  LinkFaults = 3
  MaxPairings = 2
  MaxRotations = 2
  DeviceFaults = 2
INVARIANTS
  TypeOK
  OneAttemptRuns
  StoppedIsContained
  EffectsInOrder
  RecordsAgree
  OutcomeTruthful
  ExchangedOnce
  CredentialIsTheGoodOne
PROPERTIES
  EvidenceBeforeClaim
CHECK_DEADLOCK FALSE
