SPECIFICATION Spec
CONSTANTS
  Job = {j1}
  Profile = {p1}
  Runner = {r1}
  Op = {edit1, check1, push1}
  Hook = {h1}
  Pass = {}
  Result = {a}
  Tree = {t1, t2}
  ProfileOf <- OneProfile
  RunnerOf <- OneDevice
  Kind <- PullRequestTasks
  OpKind <- Operations
  AccessAnswers = {"granted"}
  Capacity <- CapacityOf1
  ActiveLimit = 1
  RealmQueueLimit = 1
  ProfileQueueLimit = 1
  MaxAttempts = 1
  MaxInputs = 0
  LeaseTicks = 1
  Budget = 1
  MaxFaults = 0
  Revocable = {}
  NoResult = NoResult
  NoTree = NoTree
  NoJob = NoJob
  edit1 = edit1
  edit2 = edit2
  check1 = check1
  push1 = push1
  read1 = read1
INVARIANTS
  DeliveredAsVerified
CHECK_DEADLOCK FALSE
SYMMETRY Symmetry
