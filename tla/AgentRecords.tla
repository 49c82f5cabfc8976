---------------------------- MODULE AgentRecords ----------------------------
(***************************************************************************)
(* The durable records of the agent platform (zerver/models/agents.py) and *)
(* the helpers that every handler of the server shares: transition,        *)
(* request_stop, invalidate_approvals and the execution guard of           *)
(* locked_attempt.                                                         *)
(*                                                                         *)
(* Every handler runs inside agent_transaction, which holds one realm-wide *)
(* advisory lock: a handler is ONE step of this specification.  What       *)
(* interleaves are handlers with each other, and the work that spans       *)
(* several transactions (AgentResults, AgentReconcile).                    *)
(*                                                                         *)
(* Versions: a request carries the job version its sender saw and is       *)
(* refused when it is stale.  A refused request changes nothing, so a      *)
(* handler is modelled at the moment it is accepted.                       *)
(***************************************************************************)
EXTENDS Integers, FiniteSets

CONSTANTS
  Job,            \* tasks
  Profile,        \* agent profiles
  Runner,         \* paired devices
  Op,             \* operation names a job may propose
  Hook,           \* on-commit publishers (web workers)
  Pass,           \* reconcile_agents processes
  Result,         \* result summaries a runtime can propose
  Tree,           \* workspace contents (tree hashes)
  ProfileOf,      \* [Job -> Profile]      AgentJob.profile
  RunnerOf,       \* [Profile -> Runner]   AgentProfile.runner
  Kind,           \* [Job -> JobKind]      AgentJob.job_kind
  OpKind,         \* [Op -> OpKinds]       what AgentOperation.tool_class selects
  AccessAnswers,  \* what the ACL and audience checks may answer
  Capacity,       \* [Runner -> Nat]       AgentRunner.capacity
  ActiveLimit,    \* AgentRealmSettings.active_job_limit
  RealmQueueLimit,    \* AgentRealmSettings.queued_job_limit
  ProfileQueueLimit,  \* AgentRealmSettings.profile_queue_limit
  MaxAttempts,    \* bound: attempts of one job
  MaxInputs,      \* inputs of one job (100 in the code)
  LeaseTicks,     \* length of a lease (90 s), in ticks
  Budget,         \* budget.active_seconds of an attempt, in ticks
  MaxFaults,      \* bound: busy locks, failed reads and killed processes
  Revocable       \* bound: the devices that may be revoked

\* A pull_request is a code job whose delivery_target is draft_pr.
JobKind  == {"answer", "code", "pull_request"}
\* read: context.read.  edit: repository.edit, shell.run, dependencies.install.
\* check: checks.run.  remote: git.push, git.draft_pr.
OpKinds  == {"read", "edit", "check", "remote"}
Access   == {"granted", "denied", "audience_changed"}

ASSUME ConstantsAssumption ==
  /\ ProfileOf \in [Job -> Profile]
  /\ RunnerOf \in [Profile -> Runner]
  /\ Kind \in [Job -> JobKind]
  /\ OpKind \in [Op -> OpKinds]
  /\ Capacity \in [Runner -> Nat]
  /\ ActiveLimit \in Nat /\ RealmQueueLimit \in Nat /\ ProfileQueueLimit \in Nat
  /\ MaxInputs \in Nat /\ MaxFaults \in Nat
  /\ MaxAttempts \in Nat \ {0} /\ LeaseTicks \in Nat \ {0} /\ Budget \in Nat \ {0}
  /\ Hook \cap Pass = {}
  /\ "granted" \in AccessAnswers /\ AccessAnswers \subseteq Access

\* A realm has finitely many tasks: its limits count them.
ASSUME FiniteAssumption == IsFiniteSet(Job)

CONSTANTS NoResult, NoTree, NoJob   \* null values
ASSUME NullAssumption == NoResult \notin Result /\ NoTree \notin Tree /\ NoJob \notin Job

VARIABLES
  status,      \* AgentJob.status
  reason,      \* AgentJob.blocked_reason
  stopTarget,  \* AgentJob.stop_target
  configured,  \* the repository and base ref of the job are chosen
  proposal,    \* AgentJob.result_proposal
  covers,      \* history: inputs acknowledged when the proposal was made
  receipt,     \* AgentJob.result_receipt["attempt_id"], 0 while there is none
  resultRow,   \* AgentOutbox row "result:<job>"
  last,        \* Max("number") over the attempts of the job, 0 while none
  attempt,     \* AgentAttempt rows
  sequence,    \* AgentJob.input_sequence
  input,       \* AgentInput rows
  op,          \* AgentOperation rows with their AgentApproval
  tree,        \* tree_hash of the last attempt
  verified,    \* AgentVerification rows of the last attempt that pass
  revoked,     \* runners with revoked_at
  access,      \* what the ACL and the audience check answer for the job now
  hooks,       \* jobs whose on-commit publication has not begun
  pub,         \* progress of the publishers
  faults       \* infrastructure faults so far

jobVars     == <<status, reason, stopTarget, configured>>
resultVars  == <<proposal, covers, receipt, resultRow>>
attemptVars == <<last, attempt>>
inputVars   == <<sequence, input>>
workVars    == <<op, tree, verified>>
envVars     == <<revoked, access, faults>>
pubVars     == <<hooks, pub>>
vars == <<jobVars, resultVars, attemptVars, inputVars, workVars, envVars, pubVars>>

-----------------------------------------------------------------------------
Attempts  == 1..MaxAttempts
Inputs    == 1..MaxInputs
Publisher == Hook \cup Pass

EXECUTING == {"running", "waiting_for_input", "waiting_for_approval", "verifying"}
TERMINAL  == {"completed", "cancelled", "failed", "interrupted", "blocked"}
JobState  == {"absent", "draft", "queued", "cancel_requested"} \cup EXECUTING \cup TERMINAL

\* start_failed and runtime_stopped differ in wording only: one value here.
Reason ==
  {"", "profile_needs_action", "start_deadline_expired", "stop_unconfirmed",
   "lease_lost", "runtime_stopped", "result_invalid", "approval_rejected",
   "approval_expired", "authority_changed", "audience_changed",
   "publication_blocked", "verification_failed"}

ProcessState  == {"starting", "active", "stopping", "stopped", "unknown"}
InputState    == {"pending", "delivered", "applied", "delivery_uncertain"}
OpState       == {"none", "proposed", "authorized", "started", "succeeded",
                  "failed", "outcome_unknown", "cancelled"}
ApprovalState == {"none", "pending", "approved", "rejected", "expired",
                  "cancelled", "consumed"}
RowState      == {"none", "pending", "processing", "delivered", "blocked"}
\* What a publication raised: AudienceChanged, RequiredChecksFailed, another
\* ValueError, or nothing.
Raised        == {"none", "audience", "checks", "other"}

TreeHash   == Tree \cup {NoTree}
\* by: the attempt whose artifacts the result names.
Proposal   == [text: Result \cup {NoResult}, tree: TreeHash, by: 0..MaxAttempts]
AttemptRow == [active: BOOLEAN, proc: ProcessState, lease: 0..LeaseTicks,
               budget: 0..Budget, prepared: BOOLEAN, stopRow: BOOLEAN]
InputRow   == [state: InputState, to: 0..MaxAttempts, outcomes: SUBSET Attempts]
OpRow      == [at: 0..MaxAttempts, state: OpState, approval: ApprovalState,
               tree: TreeHash]
\* fresh: the check started after the last finished edit of the attempt.
Verification == [tree: Tree, op: Op, fresh: BOOLEAN]
PubRow     == [pc: {"idle", "listed", "read", "commit", "block", "finish"},
               todo: SUBSET Job, job: Job \cup {NoJob}, seen: Proposal,
               raised: Raised]

NoProposal == [text |-> NoResult, tree |-> NoTree, by |-> 0]
\* Nobody reads the clock or the process of an attempt that ended.
NoAttempt == [active |-> FALSE, proc |-> "stopped", lease |-> 0, budget |-> 0,
              prepared |-> FALSE, stopRow |-> FALSE]
NoInput   == [state |-> "pending", to |-> 0, outcomes |-> {}]
NoOp      == [at |-> 0, state |-> "none", approval |-> "none", tree |-> NoTree]
Idle      == [pc |-> "idle", todo |-> {}, job |-> NoJob, seen |-> NoProposal,
              raised |-> "none"]

JobTypes ==
  /\ status \in [Job -> JobState]
  /\ reason \in [Job -> Reason]
  /\ stopTarget \in [Job -> {"cancelled", "blocked"}]
  /\ configured \in [Job -> BOOLEAN]

ResultTypes ==
  /\ proposal \in [Job -> Proposal]
  /\ covers \in [Job -> 0..MaxInputs]
  /\ receipt \in [Job -> 0..MaxAttempts]
  /\ resultRow \in [Job -> RowState]

AttemptTypes ==
  /\ last \in [Job -> 0..MaxAttempts]
  /\ attempt \in [Job -> [Attempts -> AttemptRow]]

InputTypes ==
  /\ sequence \in [Job -> 0..MaxInputs]
  /\ input \in [Job -> [Inputs -> InputRow]]

WorkTypes ==
  /\ op \in [Job -> [Op -> OpRow]]
  /\ tree \in [Job -> TreeHash]
  /\ verified \in [Job -> SUBSET Verification]

EnvTypes ==
  /\ revoked \in SUBSET Runner
  /\ access \in [Job -> Access]
  /\ faults \in 0..MaxFaults

PubTypes ==
  /\ hooks \in SUBSET Job
  /\ pub \in [Publisher -> PubRow]
  /\ \A p \in Publisher :
       /\ pub[p].pc \notin {"idle", "listed"} => pub[p].job \in Job
       /\ pub[p].pc = "block" => pub[p].raised # "none"

TypeOK ==
  /\ JobTypes /\ ResultTypes /\ AttemptTypes /\ InputTypes /\ WorkTypes
  /\ EnvTypes /\ PubTypes

Init ==
  /\ status = [j \in Job |-> "absent"]
  /\ reason = [j \in Job |-> ""]
  /\ stopTarget = [j \in Job |-> "cancelled"]
  /\ configured = [j \in Job |-> FALSE]
  /\ proposal = [j \in Job |-> NoProposal]
  /\ covers = [j \in Job |-> 0]
  /\ receipt = [j \in Job |-> 0]
  /\ resultRow = [j \in Job |-> "none"]
  /\ last = [j \in Job |-> 0]
  /\ attempt = [j \in Job |-> [n \in Attempts |-> NoAttempt]]
  /\ sequence = [j \in Job |-> 0]
  /\ input = [j \in Job |-> [s \in Inputs |-> NoInput]]
  /\ op = [j \in Job |-> [k \in Op |-> NoOp]]
  /\ tree = [j \in Job |-> NoTree]
  /\ verified = [j \in Job |-> {}]
  /\ revoked = {}
  /\ access = [j \in Job |-> "granted"]
  /\ hooks = {}
  /\ pub = [p \in Publisher |-> Idle]
  /\ faults = 0

-----------------------------------------------------------------------------
Device(j) == RunnerOf[ProfileOf[j]]

\* require_audience with check_agent_access or check_attempt_access, which both
\* refuse a revoked device.
Allowed(j) == access[j] = "granted" /\ Device(j) \notin revoked

IsCode(j) == Kind[j] # "answer"

Proposed(j) == proposal[j] # NoProposal

\* Mutant: an attempt whose lease was lost counts as gone.
AttemptsNotLost(j) == {n \in Attempts : attempt[j][n].active /\ attempt[j][n].proc # "unknown"}

ActiveAttempts(j) == {n \in Attempts : attempt[j][n].active}

\* The inputs the runtime has not acknowledged.
Unapplied(j) == {s \in 1..sequence[j] : input[j][s].state # "applied"}

\* The operations whose effect nobody has recorded.
UnresolvedOps(j) == {k \in Op : op[j][k].state \in {"started", "outcome_unknown"}}

\* Mutant: nobody looks at the lease.
ExecutableAfterExpiry(j, n) ==
  /\ Allowed(j)
  /\ attempt[j][n].active
  /\ attempt[j][n].proc \in {"starting", "active"}
  /\ status[j] \in EXECUTING
  /\ attempt[j][n].budget > 0

\* locked_attempt(..., execution=True)
Executable(j, n) ==
  /\ Allowed(j)
  /\ attempt[j][n].active
  /\ attempt[j][n].lease > 0
  /\ attempt[j][n].proc \in {"starting", "active"}
  /\ status[j] \in EXECUTING
  /\ attempt[j][n].budget > 0

transition(j, s, r) ==
  /\ status' = [status EXCEPT ![j] = s]
  /\ reason' = [reason EXCEPT ![j] = r]

\* Mutant: an approval that was given is not withdrawn.
InvalidatePending(ops, n) ==
  [k \in Op |-> IF ops[k].at = n /\ ops[k].approval = "pending"
                THEN [ops[k] EXCEPT !.approval = "cancelled"] ELSE ops[k]]

\* invalidate_approvals: the operations of one job after it.
InvalidateApprovals(ops, n) ==
  [k \in Op |-> IF ops[k].at = n /\ ops[k].approval \in {"pending", "approved"}
                THEN [ops[k] EXCEPT !.approval = "cancelled"] ELSE ops[k]]

\* Containment is gone or unknown: nothing the attempt started is known to be done.
OrphanOps(ops, n) ==
  [k \in Op |-> IF ops[k].at = n /\ ops[k].state = "started"
                THEN [InvalidateApprovals(ops, n)[k] EXCEPT !.state = "outcome_unknown"]
                ELSE InvalidateApprovals(ops, n)[k]]

\* Mutant: what a lost attempt did not acknowledge is simply sent again.
RequeueInputs(ins, n) ==
  [s \in Inputs |-> IF ins[s].to = n /\ ins[s].state = "delivered"
                    THEN [ins[s] EXCEPT !.state = "pending", !.to = 0] ELSE ins[s]]

OrphanInputs(ins, n) ==
  [s \in Inputs |-> IF ins[s].to = n /\ ins[s].state = "delivered"
                    THEN [ins[s] EXCEPT !.state = "delivery_uncertain"] ELSE ins[s]]

\* request_stop with an active attempt n.
StopAttempt(j, n, target, r) ==
  /\ stopTarget' = [stopTarget EXCEPT ![j] = target]
  /\ attempt' = [attempt EXCEPT ![j][n].proc = "stopping", ![j][n].stopRow = TRUE]
  /\ op' = [op EXCEPT ![j] = InvalidateApprovals(op[j], n)]
  /\ transition(j, "cancel_requested", r)
=============================================================================
