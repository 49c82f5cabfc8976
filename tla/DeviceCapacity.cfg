SPECIFICATION FairSpec
CONSTANTS
  Job = {j1, j2}
  Profile = {p1}
  Runner = {r1}
  Op = {}
  Hook = {}
  Pass = {}
  Result = {a}
  Tree = {}
  ProfileOf <- OneProfile
  RunnerOf <- OneDevice
  Kind <- AnswerTasks
  OpKind <- Operations
  AccessAnswers = {"granted"}
  Capacity <- CapacityOf1
  ActiveLimit = 2
  RealmQueueLimit = 2
  ProfileQueueLimit = 2
  MaxAttempts = 2
  MaxInputs = 0
  LeaseTicks = 1
  Budget = 2
  MaxFaults = 0
  Revocable = {r1}
  NoResult = NoResult
  NoTree = NoTree
  NoJob = NoJob
  edit1 = edit1
  edit2 = edit2
  check1 = check1
  push1 = push1
  read1 = read1
INVARIANTS
  CapacityRespected
PROPERTIES
  SilenceEnds
CHECK_DEADLOCK FALSE
