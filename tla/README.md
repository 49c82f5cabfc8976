# The agent platform of grow-team, as a specification

grow-team is Zulip with an *agent platform*: people hand tasks to an agent profile, a
device paired with that profile (the runner) executes them in a contained process, and the
server keeps the durable record: who holds a task, which inputs it acknowledged, which
operations it was allowed to start, and which result was published. This directory models
three parts of the program:

- the *agent server*: that record and every handler that changes it;
- the *runner*: what the device does around the tasks it executes -- claims, stops, recovery,
  effects and their journal, events and inputs, its credential;
- the *chat server*, as far as it is concurrent: event queues and their client, notifications of
  missed messages by push and mail, and scheduled messages.

The rest of the chat server (requests that read and write the database in one transaction) is
not modelled.

Paths below are relative to the repository root (`src/` in PROJECT.json). *The spec* is
`internals/docs/spec/2026-09-21-agent-connections-and-coding-harness.md`.

## 1. The system

| Component | State it keeps | Operations | Hard behaviour |
|---|---|---|---|
| Task lifecycle, `zerver/actions/agent_jobs.py` | `AgentJob`, `AgentAttempt`, `AgentInput` | create (queued, blocked, draft), complete draft, cancel, add input, resume, claim, heartbeat, deliver inputs, runtime events, checkpoints, reconcile input | a lost attempt may still run; stop, revocation, lease loss and the runtime race for the status |
| Operation ledger, `zerver/actions/agent_approvals.py` | `AgentOperation`, `AgentApproval` | propose, approve, reject, consume, reconcile (remote, local), execute (team channel) | an approval must die with its attempt, its tree and its question; effects of unknown outcome |
| Results, `zerver/lib/agent_results.py` | `result_proposal`, `result_receipt`, `AgentOutbox` row, `AgentVerification` | verify, publish, block publication, deliver privately, drafts | a publication spans three transactions, run by two kinds of process at once |
| Reconciliation pass, `zerver/lib/agent_reconcile.py` | reads all of the above | start deadlines, leases, approvals, outbox rows | works through a list it read before; may be killed anywhere |
| Devices and profiles, `zerver/actions/agents.py` | `AgentRunner`, `AgentProfile`, pairing, credentials, setup | pair, rotate, revoke, profile setup | revocation is a bulk update beside the task handlers |
| Device endpoints, `zerver/views/agent_runner.py` | none | controls, and one endpoint per device handler | asks live attempts to stop when their guard fails |
| Transactions and access, `zerver/lib/agent_context.py`, `agent_policy.py` | none | `agent_transaction`, `require_audience` | one advisory lock per realm; access changes at any time |
| Team operations, `execute_operation` in `agent_approvals.py`, `zerver/actions/agent_team_tools.py`, the runner's `team-tools.ts` | `AgentOperation` | one effect on the chat server, run by the server for the runner | three phases, of which only the first and the last are transactions; a runner that repeats what was busy |
| Runner coordinator, `services/grow-agent-runner/src/supervisor.ts`, `runtime-supervisor.ts`, `containment.ts` | journal entries for claims, events and stops; containers; one session | claim, tick, contain, recover, stop, watchdog | three activities that interleave at their awaits; crash between two journal writes; lost and late answers |
| Runner operations, `remote-operation-broker.ts`, `operation-recovery.ts`, `tool-broker.ts`, `OperationBoundary` | journal entries for permission, effect and receipt | propose, consume, begin and finish effect, publish, recover | the effect and its record are never one step |
| Runner channel, `supervisor.ts` (`Session`), `input-queue.ts` | event cursor, inputs taken up | report events, deliver and acknowledge inputs | stale versions, an input on its way when the task stops |
| Connection, `transport.ts` | `connection.json` | pair, poll, rotate, re-pair | a credential that may have been used up |
| Event queues, `zerver/tornado/event_queue.py`, `handlers.py`, `zerver/lib/events.py`, `web/src/server_events.js` | queues in memory and in a file, held polls; the client's cursor | register, publish, poll, prune, merge, collect, dump and load | answers that are lost, polls that overlap, restarts |
| Missed-message notifications, `event_queue.py` | offline marks, what was told | the hook at a message, a mark and a removal | several queues of one user, in one sweep or in several |
| Mobile push, `zerver/lib/push_notifications.py`, its worker, `zerver/actions/message_flags.py` | a flag per message, a queue | send, revoke, retry | the flag and the device are changed in different steps |
| Missed-message mails, `zerver/worker/missedmessage_emails.py` | rows; a condition variable | add, batch, mail, stop | two threads and a signal handler |
| Scheduled messages, `zerver/actions/scheduled_messages.py`, `reminders.py` | rows with row locks | schedule, edit, delete, deliver | an edit that read its row before the delivery |
| Dispatch and admission, `zerver/actions/agent_dispatch.py`, `zerver/lib/agent_selection.py`, `agent_requests.py`, `agent_job_requests.py` | none of its own | message to task | - |
| Web client, the rest of the chat server, billing, authentication, import, Markdown | - | - | - |

The components of the agent server meet in the database. A handler opens `agent_transaction`, which takes one
realm-wide advisory lock (`agent_context.py:81`), re-reads the records, checks who asks and
which version they saw, and writes. Devices poll for work, inputs and controls and post
events. Two calls go the other way: `attempt.stopped` registers an on-commit callback
that publishes a held result, and a systemd timer starts a reconciliation pass every 15 s
(`deploy/grow-team/systemd/grow-team-agent-reconcile.timer`), one at a time under a file
lock (`deploy/grow-team/reconcile-agents.sh`). The runner meets the server over HTTP, where a request
may be lost, be answered to nobody, or arrive after its sender gave it up; what it must not forget
it writes to a journal file before it acts. In the chat server, transactions put events on message
queues; Tornado takes them on its one thread, and the workers of pushes and mails take theirs one by
one.

What makes each component correct, in one line each:

- *Task lifecycle*: one attempt holds a task; the status never hides a process that may
  still run; an input or operation whose fate is unknown is neither repeated nor forgotten.
- *Ledger*: a remote effect starts once, behind an approval that was still open for the same
  attempt and tree.
- *Results*: published once, by the newest attempt, after its process is gone, for the tree
  that was checked and approved; after that nothing changes; a result that is held up can
  still reach somebody.
- *Reconciliation*: stops settle and executions end without the device; what a killed
  process left behind is picked up again; what was parked is left alone.
- *Devices*: capacity holds even for attempts nobody has heard of; revocation stops work.
- *Runner*: one attempt at a time has effects, through crashes; what is reported as stopped is; no
  effect without its permission and its journal entry; server, journal and the remote agree.
- *Channel and connection*: events and inputs once and in order; the credential in the file is the
  one good one.
- *Event queues*: a client gets every event once, in order, or learns that its queue is gone; no
  poll waits for ever.
- *Notifications and scheduled messages*: what nobody saw is told of once; what is shown can be taken
  back; a row is sent once, as it reads.

The hazards, each at the line where it bites, are listed in PROJECT.json.
## 2. The modules

| Module | Models |
|---|---|
| `AgentRecords` | the records (one function per column group), the types, and the helpers all handlers share: `transition`, `request_stop` (`StopAttempt`), `invalidate_approvals`, the guard of `locked_attempt(execution=True)` (`Executable`) |
| `AgentJobs` | `agent_jobs.py`, the `controls` view, `revoke_runner`, the clock and changes of access |
| `AgentApprovals` | the ledger of `agent_approvals.py` |
| `AgentResults` | `agent_results.py`: publishers with a program counter, one label per transaction |
| `AgentReconcile` | `reconcile_agents`: what time has overtaken, and the loop over the outbox rows |
| `AgentServer` | the composition, the fairness, and all properties |
| `ContainmentPromise` | the abstract specification that `AgentServer` implements |
| `AgentServerProofs` | proofs: types, who holds a task, how many tasks are held, and open approvals; what is true once a result is out, that `AgentServer` implements `ContainmentPromise`, and parked rows; work in doubt, the status of a task, decisions, and what is delivered |
| `MCAgentServer` | constants for TLC |
| `TeamOperations` | `execute_operation` and the runner's `teamToolExecutor` |
| `RunnerCoordinator` | `Coordinator`, `RuntimeSupervisor` and the routes they call |
| `RunnerOperations` | `OperationBoundary`, the brokers, `recover`, the ledger as they meet it, and the remote |
| `RunnerChannel` | `Session`'s serial queue, `InputQueue`, and the server's side of both |
| `RunnerPairing` | `Connection` and the server's pairings and credentials |
| `RunnerCoordinatorProofs` | proofs: one attempt at a time, what is stopped is contained, and evidence before claims |
| `RunnerOperationsProofs` | proofs: effects are permitted and in order, and the three records of an effect agree |
| `RunnerChannelProofs` | proofs: inputs and events are exchanged once and in order |
| `Runner` | the composition of these five, and its properties |
| `RunnerProofs` | proofs about `Runner`, with those of team operations and of the connection |
| `MCRunner` | the operations of a task, for TLC |
| `EventQueues` | the queues of one user, the Tornado process and one web client |
| `QueueNotifications` | when those queues make the server notify |
| `EventQueuesProofs` | proofs: events once and in order, and nobody waits for ever |
| `QueueNotificationsProofs` | proofs: what nobody picked up is notified of once |
| `MobilePush` | the flags of the user's messages and the requests that change them, the worker, the device |
| `MissedMessageEmails` | both threads of the mail worker and its signal handler |
| `ScheduledMessages` | the rows, their editors and the delivery process |
| `Chat` | the composition of these five, and its properties |
| `ChatProofs` | proofs about `Chat`, with those of pushes, mails and scheduled messages |
| `MCChat` | sequences of notices for TLC |

How the state of the agent server corresponds to the code:

- `status`, `reason`, `stopTarget`, `configured` are columns of `AgentJob`; `"absent"` is a
  task that does not exist yet. `proposal`, `receipt`, `resultRow` are `result_proposal`,
  the attempt named in `result_receipt`, and the status of the outbox row `result:<job>`.
- `attempt[j][n]` is the n-th `AgentAttempt`, `last[j]` the highest number. `lease` and
  `budget` are what is left of `lease_expires_at` and of `budget.active_seconds`, in ticks;
  `stopRow` says that the stop outbox row of `request_stop` exists, which `attempt.stopped` reads.
  An attempt that ended is put back to `NoAttempt`: nothing in it is read again.
- `input[j][s]` has `to`, the attempt it was delivered to, and `outcomes`, the attempts that
  gave a receipt for it. `op[j][k]` carries its approval: an operation has at most one.
- `tree` is the hash the server has on record for the last attempt; `verified` are the passing
  checks, with `fresh` standing for "started after the last finished edit".
- `covers` is a history variable: how many inputs were acknowledged when the result was made.
- `pub[p]` is where publisher `p` is in `publish_result`: `read` (the unlocked read), `commit`
  (the transaction), `block` (the second transaction, which records a failure), `finish` (the pass
  settles the row); `listed` is a pass between two rows. `hooks` are on-commit callbacks not begun.

Abstractions of the agent server:

- A handler is one step, because of the lock. `publish_result` and a pass are not one
  transaction, so they are not one step.
- A request carries the version its sender saw and is refused when it is stale; a refusal
  changes nothing, so only accepted requests are steps. That a publisher checks the *proposal*
  it read, and not a version, is kept.
- Which queued task is handed out, when a start deadline or an approval runs out, and when access
  changes are nondeterministic. Time is per attempt: `Elapse` runs down the lease and the budget of one
  attempt. The code reads one clock, so this only adds behaviours.
- `Heartbeat` and `Controls` treat one attempt; the code handles a device's batch. The pass treats
  one overdue record per step, since `limit` and `skip_locked` may leave any of them to a later pass.
- One realm. Texts, artifacts, checkpoints' bytes, notices and wake/stop rows (which only
  make a device poll sooner) are left out.
- `MaxFaults` bounds busy locks, failed reads and killed processes together; `Revocable` names the devices that may
  be revoked: none in `Publication`, which would be twice as large, every one elsewhere.

**The runner modules.** Each request that can be lost is a record `call` with what was asked and
what came back; a request that its sender gave up stays in `late` and may reach the server at any
later time. `Crash` ends the process and keeps the journal, the file, the server, the containers
and `late`. A step is what runs between two awaits, or between two writes of the journal where a
crash may separate them.

- `RunnerCoordinator`: `srv` is the server's view of each attempt, `claims`, `events` and `stops` are
  journal entries, `box` the attempts with containers, `task` the runtime promise, `session` the fields of
  the coordinator; `loop` and `stopper` are the program counters of the poll loop and of a session stop
  beside it. Events are numbered per attempt, what the runtime reports and `attempt.interrupted` (`cut` in `events`)
  alike, and the server refuses a number it does not expect; `stops` keeps the number a stop was written with.
- `RunnerOperations`: `Steps` is the sequence of operations the task makes; `ledger` the server's rows,
  `log` the journal entries per operation, `world` whether the effect is on its way and how often it
  landed, `run` the recovery before polling.
- `RunnerChannel`: `job.version` is what `add_input` raises and an event must quote; `taken` is the
  journal of inputs per attempt, `turns` how often each was put to the model; `lane` is the serial queue. Collecting the
  inputs of one answer is one step.
- `RunnerPairing`: `file` is `connection.json`, `archive` the runners that archived files name,
  `credential` the rows per generation with their overlap. A pairing that was approved does not expire.
- `TeamOperations`: `op` is the row, `work` the phase of the server, `done` how often the action was
  performed, `tool` what the model heard.

**The chat modules.**

- `EventQueues`: `db` is the sequence of events, `fed` how many Tornado has taken, `clients` the
  descriptors with their queues and held handlers, `saved` the file, `conn` the requests on their way,
  `browser` the client. A queue is a set of events, which their ids order: `push` gives each a greater id than those
  before it, and `contents()` merges by id. A merged event carries the set of events it stands for (`of`), which is what the
  properties are about.
- `QueueNotifications`: a queue is how long ago its client was there, whether it is marked offline, and
  what it holds. `Mobile` queues live longer, `Deaf` ones take no messages, `Leaving` ones are removed by
  their clients.
- `MobilePush`: `um` is the flags of each message; `stage` is where the worker is between the read of a row, the save
  of its flags, the bouncer and the second flag update; the save writes all flags as they were read, and only the
  message is locked meanwhile. A refusal of the bouncer is logged, and the worker goes on as if it had sent.
  `sweeping` is a mark-all between its batches; `device` is what is shown, and `lost` a history variable: why
  nothing takes a notification back any more. That a notice of removal names the last 200 messages only, and that
  the edit of a message saves all flags of its rows as well, is left out.
- `MissedMessageEmails`: `lock` and `cv` are the condition variable with `has_timeout` and `stopping`; `rows`
  the table; `mailQueue` the RabbitMQ queue with redelivery.
- `ScheduledMessages`: `row` is the table, `worker` the delivery with its row lock, `edit` the requests
  that have read their copy. `version` numbers what a row reads. An exception inside
  `do_send_messages` breaks the transaction, so that `refresh_from_db` raises and the process ends; it is
  started again and comes to the same row until the cutoff.

**Runner and Chat.** Their components share no state in the code other than what each module has of the
other side. A behaviour of `Runner` or `Chat` picks one part (`part`, among `Parts`), moves it and leaves the others in
their initial states: one run then covers several modules, and its states are the sum of theirs. Each property is a
property of one part; of a part at rest it holds trivially. The numbers of a run are in its .cfg, and the theorems of
section 4 are about these two compositions, so that what a run checks and what is proved is one
formula. In `Chat`, Tornado does nothing after it wrote its queues out (`MaxLate <- 0`), and
`QueueNotifications` is there twice, once with browsers (`Web`) and once with mobile clients (`Mobile`): the two
conditions that findings below have left.

## 3. What is checked

`CHECK_DEADLOCK FALSE` everywhere: when the tasks are over and the bounds are reached nothing is
left to do, as in the system. All runs of the agent server use one device. Its capacity is 1, where the limit bites, except in
`Containment`, where it is 2 so that nothing but `claim_work`'s own guard keeps a task from two attempts.

| Run | Instance | Shows |
|---|---|---|
| `Containment` | one answer task, 2 attempts, 2 inputs, lease 1, budget 2, one hook; 615 000 states | `OneContainment`, `ContainmentMatchesStatus`, `WorkIsKept`, `AttemptsOnlyEnd`, `UncertainNotReplayed`, and the refinement `KeepsThePromise` |
| `Operations` | one code task with an edit and a push; 241 000 states | `ApprovalsDecide`, `OpenApprovalIsLive`, `NothingLeftBehind` for operations |
| `Publication` | one pull request task with an edit, a check and a push, two trees (interchangeable), one hook, nobody revokes the device; 1.42 million states | `DeliveredAsVerified` |
| `Results` | one answer task with a read operation, one input, a hook against a pass, an audience that changes, revocation, one fault, under `FairSpec`; 768 000 states | `CompletedIsSettled`, `CompletedIsFinal`, `ParkedStaysParked`, `HeldResultResolves` |
| `DeviceCapacity` | two tasks, one device of capacity 1, two attempts each, lease 1, budget 2, no inputs and no publisher, under `FairSpec`; 161 000 states | `CapacityRespected`, `SilenceEnds` (stops settle, executions end) |
| `Runner` | coordinator: 2 attempts, 1 event of the runtime each, 2 faults, 1 crash; operations: a tool, a push and a pull request, 2 faults, 2 crashes; team: 2 retries, 3 faults; channel: 3 inputs, 1 event, 2 attempts, 3 faults; pairing: 2 pairings, 2 rotations, 2 faults; 1.42 million states | `OneAttemptRuns`, `StoppedIsContained`, `EvidenceBeforeClaim`, `EffectsInOrder`, `RecordsAgree`, `OutcomeTruthful`, `ExchangedOnce`, `CredentialIsTheGoodOne` |
| `RunnerLiveness` | coordinator: 1 attempt, 1 event, 3 faults, 2 crashes; operations, team and pairing as above; under `FairSpec`; 199 000 states | `StopIsReported`, `StartReachesPolling`, `OpenEndsAreTied` |
| `Chat` | queues: 2 connections, 3 events of two types, 1 heartbeat, 1 restart; notifications: 3 queues, 2 messages, 1 restart, once with browsers and once with mobile clients; push: 2 messages, 2 notices, 2 requests, 2 faults, 1 crash; mails: 3 notices of 2 users, 1 failure, 1 stop; scheduled: 3 rows (one cannot be sent, one is a reminder), 2 editors, 1 fault; 3.35 million states | `EventsOnceInOrder`, `NoClientIsStuck`, `NotifiedExactlyOnce`, `ShownIsTakenBack`, `NoticesAreKept`, `DeliveredFaithfully` |
| `ChatLiveness` | the same parts, one element smaller each, under `FairSpec`; 213 000 states | `CatchesUp`, `AwayIsNotified`, `EverythingIsSettled`, `WorkersGetDone` |

Several of the properties are conjunctions with a name for each part (`WorkIsKept` is
`NothingLeftBehind` and `InputsAppliedInOrder`); the parts are explained where they are defined.

Why these bounds are enough to be interesting: two attempts are what it takes for a late event,
receipt, approval or publication of an old attempt to meet a new one; two inputs are what it
takes to acknowledge out of order; a lease of one tick below a budget of two
makes both a renewal that is cut short and one that is not; one edit and one push give every kind of
pairing between a stop and an open approval; an edit between a check and a publication, with a second tree for it to
lead to, is what it takes for the checks to be of an older tree; a hook and a pass are the two publishers that exist,
and one fault is enough to lose any one of them at any label. The realm limit on active tasks never binds in an
instance: a device whose own limit binds beside one that has room takes four tasks, and the limits are
proved for every number. Each property has a mutant in
PROJECT.json: the handler changed the way a plausible mistake would, which the same run detects.

For the runner, two faults are what it takes to lose a request and then its repetition; a second crash comes
during the recovery from the first. One event and a lost stop are enough for a stop to be superseded, and the third
fault, with both crashes, for every way in which a superseded stop can then get lost; a tool before the push makes
an effect that recovery can neither reproduce nor observe. Two pairings are a device that is paired again while the first pairing is still
open. For the chat server, two queues of one kind and one of the other are what it takes
for the last active queue to be the wrong one; three events of two types, two of them merged around one that
is not; two editors, one that read before the delivery and one after.

**Fairness.** Weak fairness of `Elapse` (clocks run), of `LeaseLost`, `PassList`, `PassMark` and
`PassFinish` (the timer starts passes and a pass goes on), and of each publisher's next step. Nothing is
assumed of people, of the device, or of the on-commit hook's start. So `StopSettles` and `ExecutionEnds`
say that a silent device cannot hold a task, and `HeldResultResolves` that a lost hook
costs only time. Its right-hand side admits a task whose access is gone, whose row
is retried for as long as access stays away, and a row that was parked, which waits for a person.

In the runner, the service goes on when it can and systemd starts it again when it is down (weak fairness
of `LoopStep`, `StopperStep`, `TaskStep` and `RunStep`, which contain the start), the server answers what
reaches it (`Receive`), and the owner asks for the status while an exchange is uncertain (`Poll`).
Faults and crashes are bounded and never forced. In the chat server the processes run and are started
again by supervisor, the clients poll, sweeps and clocks go on; no client is obliged to come back, nobody
reads, edits or deletes anything unless they want to, and connections close once they were given up.
`AwayIsNotified` assumes in its own premise that the user stays away.

### Disagreements between the code and its documents

Three are runs that TLC ends with a counterexample; PROJECT.json quotes the line.

| Run | What happens |
|---|---|
| `StaleBlock` | A required check fails in the commit transaction; before `_block_publication` runs, the task is cancelled, resumed, claimed, and verifying again; it is then `failed` while its new attempt executes. |
| `MissedNotification` | A message comes to a browser and a phone, neither picks it up, and the laptop is closed. One sweep marks the phone's queue offline while the browser still counts as active; a later one removes the browser's queue, which is not taken for the last one because the offline queue is still there. Nobody is notified. |
| `SentTwice` | An edit reads a scheduled row, the row is delivered, and the edit saves all fields of its copy, `delivered = False` among them: the message is sent again. |

The others are stated as definitions of the modules that no run lists. Adding one as an INVARIANT or PROPERTY to
a .cfg, with the instance named, shows it; `Loop`, `Effects`, `Team`, `Channel` and `Pairing` are the instances of
`Runner`, `Events`, `Push` and `Mails` those of `Chat`.

| Definition | Instance | What happens |
|---|---|---|
| `AgentServer!ResultCoversInputs` | an answer task, 1 attempt, 1 input, a pass | `input.applied` withdraws the held result, `reconcile_input` with `applied` does not (`agent_jobs.py:1704`, comment at 1277). |
| `AgentServer!OnlyLaterAttemptRetries` | an answer task, 1 attempt, 1 input | After `not_applied` the input goes back to the same live attempt, whose second receipt is refused (`agent_jobs.py:1706`, comment at 1690). |
| `AgentServer!BlockedNamesItsReason` | an answer task, 2 attempts | `stop_target` is never reset and `revoke_runner` does not set it: a task ends `blocked` without a reason. |
| `AgentServer!HeldResultHasAWayOut` | an answer task, a hook and a pass, an audience that changes, 1 fault | A second publisher that fails for another reason replaces `audience_changed` on a row that stays blocked: no pass retries it and private delivery asks for the old reason (`agent_results.py:355`). With passes alone it holds. |
| `AgentServer!OnlyResultsUnpark` | as `Results` | A pass lists a row, the hook parks it, and the pass takes it up and finds the same reason: `_block_publication` changes nothing, and the pass puts the row back to `pending` (the comment at `agent_reconcile.py:128` says that a blocked row stays). |
| `AgentServer!ChecksFollowEdits` | a code task with two edits and a check, a hook | `order_by("-finished_at")` puts an edit that never finished first, and the comparison with the check is skipped (`agent_results.py:264`). |
| `RunnerCoordinator!StopEvidenceTruthful` | `Loop` | When collecting inputs fails, the session is stopped beside the poll loop, which no longer waits for its task: evidence is written while a push is being answered (`supervisor.ts:827`). |
| `RunnerCoordinator!EvidenceAlwaysFirst` | `Loop` | When the server's cursor calls for another stop than the pending one, `stopped()` completes that entry before it writes and sends the new one. A crash between the two, and as well the loss of the new one's request, leaves a done entry, which the next recovery takes for evidence given, while the pending one is skipped because the attempt is still leased: the device claims while the server counts it as active (`supervisor.ts:312`, `374`; README.md:163 of the runner: "reports stopped evidence before new claims"). |
| `RunnerCoordinator!StopAlwaysReported` | `Loop` | The same attempt is never reported as stopped: its entry is done, so every later recovery skips it, and the device says nothing of it again (`agent_jobs.py:1636` counts on the evidence: "a lost execution ACK cannot prevent containment release"). |
| `RunnerOperations!StartAlwaysPolls` | `Effects` | `recover()` throws on an uncertain effect that is not remote; and a crash between `operation_resolution` and the receipt makes the second resolution a conflict. Both at every later start (`remote-operation-broker.ts:607`, `operation-recovery.ts:43`; README.md:217 of the runner: "The run command recovers remote operations before it starts service polling"). |
| `TeamOperations!BusyCommitsNothing` | `Team` | `AgentBusy` may come from the transaction that stores the receipt, after the effect (`agent_approvals.py:512`, comment at `transport.ts:68`). |
| `RunnerChannel!InputKeepsExecution` | `Channel` | An input raises the version between the read of it and the event that quotes it; the event is refused and the task fails (`agent_jobs.py:982`; `RUNTIME.md:114` wants execution kept). |
| `RunnerPairing!OrphansReported` | `Pairing` | A re-pair from an uncertain exchange forgets the pairing it could still be asked about (`transport.ts:341`). |
| `EventQueues!NothingSkipped` | `Events` with `MaxLate <- 1` | Tornado dumps its queues before its consumers stop: an event taken in between is in no queue after the restart (`runtornado.py:140`). |
| `EventQueues!AppliedInOrder` | `Events` | A merged event takes the place of its newest part, so that flags are set and cleared in another order (the code says BUG at `event_queue.py:416`). |
| `MobilePush!RetryIsSent` | `Push` | A send that failed is tried again, finds the flag the first try committed, and drops the notification. |
| `MobilePush!ReadIsKept` | `Push` | `handle_push_notification` locks the message, reads the user's row of it and saves all its flags: a read in between is undone (`message.py:463`: "the `Message` row only has a possibility of races"). |
| `MobilePush!NoneOverlooked` | `Push` | Mark-all takes back what is shown first and marks afterwards, batch by batch: a notification claimed between the two is of a message that is read then, and nothing removes it (`message_flags.py:38`). |
| `MissedMessageEmails!JoinCanEnd` | `Mails` | The signal handler joins the second thread on top of a main thread that holds the lock that thread needs; only supervisor's kill ends it. |

Seen while modelling, without a definition: a consumer of mail notices that raises, or needs more than its 30 s,
drops the notice (`worker/base.py:213`); a browser queue that takes no messages and outlives the others hides a
missed message as the phone's queue of `MissedNotification` does (`event_queue.py:601`); `resume_job` does not look at the queue limits that
`create_job` enforces; `result_invalid`, set when a
runtime hands in an empty result, is overwritten by the reason of whatever stops the live attempt
afterwards; an edit of a prepared result that finishes late withdraws the result and leaves the task verifying
(`agent_jobs.py:1304`); one refused lease rolls back a device's whole heartbeat batch (`agent_jobs.py:1503`); the
row of a result whose device was revoked is retried for ever (`agent_reconcile.py:119`); a reminder that
cannot be sent has no cutoff, and the rows behind it wait for ever (`EverythingIsSettled` is checked without one); the
save of an edit inserts a row that was deleted meanwhile again; `disconnect_handler` takes handler 0 for none
(`event_queue.py:321`); and the TODO at `event_queue.py:587` fears duplicates within one sweep, which the model does not
show.

## 4. What is proved

The theorems about the agent server need `ConstantsAssumption` (the constants have their types and the numeric limits
are natural numbers); none bounds a set, except that `LimitsHold` needs `FiniteAssumption` (a realm has
finitely many tasks), without which cardinalities mean nothing.

- `TypeCorrect`: `Spec => []TypeOK`, for every set of tasks, attempts, operations and publishers.
  `TypeOK` is inductive as it stands, because `PubTypes` says two things more than the
  shape of a row: a publisher that works on a task has one, and one that records a failure has a failure
  to record (`_block_publication` would otherwise choose among reasons with none that fits). The proof
  first shows which updates of a row give a row again (`AttemptRows`, `OpRows`, `Ledger`,
  `Deliveries`, `PubRows`, ...), then goes action by action, in groups that follow `Next`
  (`OwnerTypes`, `DeviceTypes`, `OperationTypes`, `PublisherTypes`, `TaskTypes`, `TimerTypes`,
  `ExpiryTypes`, `RevocationTypes`), one step for each part of the records an action writes.

- `OneAtATime`: `Spec => []OneContainment`, `NothingRevives`: `Spec => AttemptsOnlyEnd`, and `LimitsHold`:
  `Spec => []CapacityRespected`. All three rest on `StepKinds`: every step is
  `Quiet` (it begins no attempt, ends none, and brings each one only `Nearer` to its end), or it is
  `ClaimWork`, or `AttemptStopped`. `Claimed` and `LetGo` say what those two do to the attempts. Given `StepKinds`,
  `OneContainment` is inductive: `ClaimWork` finds no active attempt and makes a newer one. The limits are then a
  counting argument: a claim adds one attempt to a set its guard found below the limit, and any other step
  leaves the set as it is or makes it smaller.
- `ApprovalsDieWithTheAttempt`: `Spec => []OpenApprovalIsLive`, from the inductive `OpenIsLive`, which also says that
  an open approval names an attempt. `OnlyProposalsOpen` shows that every step but `ProposeOperation` leaves no
  approval open that was not open before, for the same attempt; the rest follows from `StepKinds`.
- `CompletionIsEarned`: `Spec => []CompletedIsSettled`, and `NothingAfterTheResult`: `Spec => CompletedIsFinal`.
  The invariant `PublicationInv` says that a task with a receipt is `Settled` and that one
  without is not completed. It adds the delivered outbox row to `CompletedIsSettled`: `CompletedIsFinal` needs it,
  since otherwise `PassMark` could move the row of a published task back to `processing`. `PublicationInv` is
  inductive only relative to two others: that no other attempt is active when the newest one is over is `OneContainment`, and that an expiring approval cannot stop a published task is `OpenIsLive`. `StepProceeds` shows
  that for each task a step leaves it frozen, leaves it unpublished, or publishes it under `verify_result`.
- `ThePromiseIsKept`: `Spec => KeepsThePromise`, the refinement: `ClaimWork` is `Take`,
  `AttemptStopped` is `Release`, the two commits are `HandIn`, and every other step is a stutter.

- `ParkedIsLeftAlone`: `Spec => ParkedStaysParked`: a row that is parked, with no new result, is moved only by a pass
  that had listed it before. No invariant is needed: `PublisherNarrows` shows of every step of a publisher
  that the list of a pass only gets shorter and that a parked row is left as it is unless a pass has it on its list
  (`LeavesParked`), and `PassList` lists only what is `Due`, which a parked row is not. The rows
  a hook parks while a pass is under way are the exception, and a disagreement with the comment (see
  `OnlyResultsUnpark` above).

The rest of `AgentServerProofs` is about one task at a time. `OneTask` shows that every step of the server is
`About` a task or leaves the records of that task the `Same`, so each invariant is proved for one task and the
handlers that work on it.

- `NothingIsLeftBehind`: `Spec => []NothingLeftBehind`. `WorkInv` says more: work in doubt keeps its task out of every
  status from which a claim or a resumption could start (`Unclaimed`), and an input that is `delivered` has an active
  attempt. The second is what makes it inductive: when that attempt ends, `AttemptStopped` turns what it had into
  `delivery_uncertain` and holds the task.
- `WorkStaysWithItsAttempt`: `Spec => []WorkIsKept`, with `InputsAppliedInOrder` from `InputMoves`, which lists what a
  step may do to an input; `NoImplicitReplay`: `Spec => UncertainNotReplayed` follows from the same list.
- `StatusTellsTheTruth`: `Spec => []ContainmentMatchesStatus`. `ContainedInv` is inductive given `OneContainment`:
  since only the newest attempt is active, a handler that writes its row and the status has only to make
  those two match (`ContainedRow`).
- `ApprovalsDecideAlways`: `Spec => []ApprovalsDecide`. `Lawful` adds that an operation whose approval was asked for and
  not consumed is still only proposed. Without it, a decision could be withdrawn from an operation that had
  started. That somebody can still decide (`Waiting`) needs `OpenIsLive`.
- `DeliveryIsVerified`: `Spec => []DeliveredAsVerified`. `VerifiedIsProven` is what `verify_result` asks for at the moment
  of publication; `ChecksClosed` and `CompletedIsFinal` say that nothing it looked at changes afterwards.

The theorems about the runner and the chat server are about the compositions `Runner` and `Chat`, and each states a
property that the runs `Runner` and `Chat` check. They rest on the named assumption
`BoundsAssumption` of their module alone: the numbers an instance caps are natural, the sets of a module are
subsets of what they should be, and, in `Runner`, a task proposes its push before its pull request (as `publish`
does). Nothing is assumed of the order of requests, losses and crashes, or of how many there are. `PartsMove` says that
a step of the composition is a step or a stutter of each part; the invariant (`RunnerInv`, `ChatInv`) is the
conjunction of one for each part, and each theorem is what its part implies.

`TypeOK` is proved for both (`RunnerTypesKept`, `ChatTypesKept`). It is not inductive: that a count stays within
its bound takes an argument in several places. No operation has a second receipt (`Evidenced`); a retry or a
fault is counted before it happens (`TeamCounts`); the names in a file are those of pairings that exist
(`ConnectionNames`); the rows of one user become due together (`DueTogether`); an edit reserves a version when it
begins, so that the edits in progress never run out of them (`VersionsSuffice`).

The runner:

- `OneAttemptOnTheDevice`: `Spec => []OneAttemptRuns`, and `StopIsEvidence`: `Spec => []StoppedIsContained`
  (`CoordinatorInv`, in `RunnerCoordinatorProofs`). Neither property is inductive, nor are both together: a new attempt is claimed
  when nothing lives, and that nothing lives is known only from where the process stands. `CoordinatorInv` therefore
  says who answers for what lives (`Alive`: a container, or a task that is not over): the session, a stop beside the poll
  loop, the loop itself while it contains, a session that has failed, or the inspection a new process begins with
  (`Covered`, `InCharge`); that at most one attempt lives (`Alone`); where each program can be with what in hand
  (`SessionInv`, `LoopInv`, `TaskInv`); that no request is on its way, in time or late, that the journal does not
  account for (`WireInv`: a late stop is harmless because its entry is written, a late claim because its entry is);
  and that the server knows of an attempt only what the journal wrote before, and the journal has a stop only of an attempt without a
  container (`EvidenceInv`). The lemmas go by activity: what each step of the loop, the stop, the task and the wire does
  to the parts it touches, then that the rest only gets fewer (`LivesOn`).
- `EvidenceGoesFirst`: `Spec => EvidenceBeforeClaim`: the device claims only when the server counts none of its
  attempts as active, except one that is `Stranded`, whose superseded stop was lost. `ClaimsInv` follows an attempt that is
  `Open` (given to the device, active at the server, and without a stop that is done) from the answer to its claim
  to the receipt of its stop. While the device counts itself reconciled, the attempt is that of the session or of the stop
  beside the loop; during recovery it is the one in the server's answer, then the one in the stop request; and when
  recovery comes to the entries of other attempts, there is none (`OpenKnown`). An attempt that is no longer
  open is over or has a done entry; at the claim no stop request is on its way, and a done entry of an attempt that
  is still active is then exactly what `Stranded` says. What answers are taken for receipts, and that they are, is `AnswersTrue`
  and `RowsSound`.
- `EffectsFollowPermission`: `Spec => []EffectsInOrder`, and `RecordsTellTheSame`: `Spec => []RecordsAgree`
  (`OperationsInv` and `ReceiptInv`, in `RunnerOperationsProofs`). `OperationsInv` says of each operation what the ledger (`Recorded`) and the
  journal (`Journaled`) may have of it together with the remote, where the task is with the one in hand (`Here`; those behind
  succeeded, those ahead are untouched), and what a request under way, in time or late, may still do (`Sound`).
  Three points carry it. A request to cancel exists only for an effect that was never made and whose task is over
  (`Withdrawn`), so that it may come late. A receipt on its way is the one in the journal, and recovery sends
  the resolution only when it is that receipt; a late one can then not put another receipt on the ledger. And an
  effect that is under way is `uncertain` in the journal, so that what landed is on the list of every later recovery, which
  leaves it only when the ledger has it succeeded (`RunInv`). That a pull request comes after its push needs the
  order in which the task proposes them.
- `TeamIsNeverMisled`: `Spec => []OutcomeTruthful`. `TeamInv` adds what the properties do not see: an
  operation that was not started is untouched (`UnstartedIsUntouched`), the process between the phases knows what happened
  and finds no receipt (`WorkIsKnown`), and an answer on its way *is* the receipt (`AnswersAreReceipts`). Phase 1
  consumes the operation before phase 2 acts, so a repeated or late request finds it started; that is
  `StepPhase1`.
- `NothingExchangedTwice`: `Spec => []ExchangedOnce` (`ChannelInv`, in `RunnerChannelProofs`). Three parties keep a record of an
  input: the server its state, the journal an entry per attempt, and the model whether it had its turn. `Known` says
  which combinations there are: an input that waits had no turn; one whose fate is open (`delivered`,
  `delivery_uncertain`) has an entry in the newest attempt, which tells whether the model was given it; an applied one was
  answered in some attempt. This is why `reconcile_input` may deliver an input again when the newest
  attempt's entry says `not_applied`: no older attempt can have given it. `InOrder` and `TaskInv` say that the inputs
  are delivered in order and that all of them are in the task's hands, so the smallest one it holds is the next one
  (`NextInputKeeps`). For the events, `Backed` says of every request under way, however late, that an acknowledgement
  was preceded by the runtime's own record and that a request of the running attempt is an entry of its journal:
  what `record_event` appends is then the next entry (`RecordIs`).
- `OneGoodCredential`: `Spec => []CredentialIsTheGoodOne`. `Served` says what any request does to the server's records,
  sent in time or late: it keeps every `Good` credential but the one it renews. `PairingInv` says that no renewal
  of the credential a connected device relies on is still on its way (`NoneSince`): `Refresh` changes the file before it
  sends, `StepLost` is where a request becomes late, and it finds the file no longer connected.
  A later generation cannot be renewed by an older request, which is `StepLateArrival`.

The chat server:

- `EventsComeInOrder`: `Spec => []EventsOnceInOrder`, and `ClientsGoOn`: `Spec => []NoClientIsStuck` (`EventsInv`, in
  `EventQueuesProofs`). The state of a client is in three places: what it applied, what its queue still holds, and an
  answer between them. `Continues` relates the first two: the queue was pruned no further than the client has come, what it
  holds comes after all that was applied, and the two together miss nothing since the snapshot. `XhrInv` puts the
  answer in: its events are the next ones of the queue (`NextOf`) and may be applied (`MayFollow`). Queues in
  the file are subject to the same as those in memory (`Kept`), so that a restart changes
  nothing. What makes merging safe is `Ahead`: a merged event that can still grow is one that no client
  has, because `contents()` ends the merging whenever it hands events out. An abandoned poll that is still held, or
  reaches Tornado late, prunes nothing the client lacks, since it acknowledges no more than the client has (`ConnInv`).
- `MissedAreNotified`: `Spec => []NotifiedExactlyOnce` (`MissedInv`, in `QueueNotificationsProofs`), for a user of browsers and
  for one of mobile clients. That a message is told of on one occasion follows from `QueueInv`: a message notified of after it
  came is held only by
  queues marked offline (`ToldWhenOffline`), which `missedmessage_hook` passes over. It also says that a message nobody
  acknowledged is in every queue that takes messages (`HeldByAll`): whichever queue goes last knows of it. That it is told of at all
  needs `OneKind`: the user has browsers only, or mobile clients only that leave no queue with messages. It is
  proved with `Sweeping`: browsers' queues are removed before they would be marked offline, so
  the last to go is the last of all; mobile queues are marked long before they are removed. For a phone
  beside a browser the formula is false, as the run `MissedNotification` shows: `OneKind` is what that finding leaves, and
  `Web` and `Mobile` satisfy it by their substitutions (`KindsOfClients`).
- `NotificationsAreTakenBack`: `Spec => []ShownIsTakenBack`. `PushInv` counts a notification as shown from the moment
  the worker has committed its flag (`Shown`), before the bouncer has it: a message that is read just then is flagged
  already, so a notice of removal is queued behind (`Revocable`), or one of the named reasons is
  recorded (`Revoked`). `StageInv` says what the worker did of the notice at the head of the queue. A read between the
  read of the row and its save is undone by the save, so that what is shown is unread again; a deletion there waits
  for the lock.
- `MissedAreMailed`: `Spec => []NoticesAreKept`. `Kept` says where a notice is: in the queue or in the main thread's
  hands, a row, a mail about to go out, or handled. `Counted` is a sum over these places: all but one of the copies of a
  notice are owed to its having been given back by a crash (so a mail goes out once unless it was). `Told` is
  about the condition variable: while the second thread sleeps, it was notified or there is no row and no stop.
- `ScheduledOnce`: `Spec => []DeliveredFaithfully`. `ScheduleInv` adds that the delivery works on a row nobody changes
  meanwhile, because it holds the row's lock (`WorkerHoldsItsRow`), that an edit in progress writes its row back as
  undelivered (`EditsReopen`), and that an opening is used up exactly when the row is delivered or gone
  (`OpeningsCount`). `SentOnce`, which the run `SentTwice` refutes, is what fails when an edit opens a row again.

Every invariant and action property of the passing runs is thereby a theorem. What stays with TLC: the liveness properties
(`SilenceEnds`, `HeldResultResolves`, `StopIsReported`, `StartReachesPolling`, `OpenEndsAreTied`, `CatchesUp`,
`AwayIsNotified`, `EverythingIsSettled`, `WorkersGetDone`), since weak fairness is about `ENABLED`, which the proof system
used here does not reason about; the runs that end with a counterexample; and the definitions that state the
other disagreements. No theorem is by induction over data: sequences and sets are reasoned about through the
facts of the library and by what one step does to them.

## 5. Not modelled, and the plan

Done: the agent server with its containment promise; team operations; the runner's coordinator,
operations, channel and connection; event queues, notifications, pushes, mails and scheduled messages; and the
proofs of section 4.

What would come next: profile setup and its revisions (`agents.py`); streamed drafts (`agent_results.py`); wake and stop
rows with their back-off; heartbeat batches; a run over two realm limits at once.

Not planned, with the reason:

- Message dispatch and selection, job requests: each is one transaction that turns a message into a call of
  `create_job` or `add_input`; what is hard in them is parsing.
- Job pages, the web client but for its event loop: presentation.
- Secrets, presence, backup, sandboxing: pure functions, file I/O and process isolation.
- Sending, editing and flagging messages, channels and users: requests that read and write the database in one
  transaction each. What the modelled components rely on of them is in those modules.
- Billing, authentication, import and export, Markdown, migrations: upstream subsystems, long and sequential, over data and
  external services.
