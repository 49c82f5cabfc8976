SPECIFICATION Spec
CONSTANTS
  Job = {j1}
  Profile = {p1}
  Runner = {r1}
  Op = {}
  Hook = {h1}
  Pass = {}
  Result = {a}
  Tree = {}
  ProfileOf <- OneProfile
  RunnerOf <- OneDevice
  Kind <- AnswerTasks
  OpKind <- Operations
  AccessAnswers = {"granted", "denied"}
  Capacity <- CapacityOf2
  ActiveLimit = 2
  RealmQueueLimit = 1
  ProfileQueueLimit = 1
  MaxAttempts = 2
  MaxInputs = 2
  LeaseTicks = 1
  Budget = 2
  MaxFaults = 0
  Revocable = {r1}
  NoResult = NoResult
  NoTree = NoTree
  NoJob = NoJob
  edit1 = edit1
  edit2 = edit2
  check1 = check1
  push1 = push1
  read1 = read1
INVARIANTS
  TypeOK
  OneContainment
  ContainmentMatchesStatus
  WorkIsKept
PROPERTIES
  AttemptsOnlyEnd
  UncertainNotReplayed
  KeepsThePromise
CHECK_DEADLOCK FALSE
