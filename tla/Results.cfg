SPECIFICATION FairSpec
CONSTANTS
  Job = {j1}
  Profile = {p1}
  Runner = {r1}
  Op = {read1}
  Hook = {h1}
  Pass = {s1}
  Result = {a}
  Tree = {}
  ProfileOf <- OneProfile
  RunnerOf <- OneDevice
  Kind <- AnswerTasks
  OpKind <- Operations
  AccessAnswers = {"granted", "audience_changed"}
  Capacity <- CapacityOf1
  ActiveLimit = 1
  RealmQueueLimit = 1
  ProfileQueueLimit = 1
  MaxAttempts = 1
  MaxInputs = 1
  LeaseTicks = 1
  Budget = 1
  MaxFaults = 1
  Revocable = {r1}
  NoResult = NoResult
  NoTree = NoTree
  NoJob = NoJob
  edit1 = edit1
  edit2 = edit2
  check1 = check1
  push1 = push1
  read1 = read1
INVARIANTS
  CompletedIsSettled
PROPERTIES
  CompletedIsFinal
  ParkedStaysParked
  HeldResultResolves
CHECK_DEADLOCK FALSE
