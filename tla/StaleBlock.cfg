SPECIFICATION Spec
CONSTANTS
  Job = {j1}
  Profile = {p1}
  Runner = {r1}
  Op = {}
  Hook = {h1}
  Pass = {}
  Result = {a}
  Tree = {t1}
  ProfileOf <- OneProfile
  RunnerOf <- OneDevice
  Kind <- CodeTasks
  OpKind <- Operations
  AccessAnswers = {"granted"}
  Capacity <- CapacityOf1
  ActiveLimit = 1
  RealmQueueLimit = 1
  ProfileQueueLimit = 1
  MaxAttempts = 2
  MaxInputs = 0
  LeaseTicks = 1
  Budget = 1
  MaxFaults = 0
  Revocable = {r1}
  NoResult = NoResult
  NoTree = NoTree
  NoJob = NoJob
  edit1 = edit1
  edit2 = edit2
  check1 = check1
  push1 = push1
  read1 = read1
INVARIANTS
  FailedIsContained
CHECK_DEADLOCK FALSE
