----------------------------- MODULE AgentServer -----------------------------
(***************************************************************************)
(* The agent platform of the server: owners, devices, publishers and the   *)
(* recovery timer over the same records, and what has to be true of them.  *)
(***************************************************************************)
EXTENDS AgentJobs, AgentApprovals, AgentReconcile

\* What people do: owners, approvers, administrators.
OwnerStep(j) ==
  \/ CreateQueued(j) \/ CreateBlocked(j) \/ CreateDraft(j) \/ CompleteDraft(j)
  \/ CancelJob(j) \/ AddInput(j) \/ ResumeJob(j)
  \/ DeliverPrivately(j)
  \/ AccessChange(j)

\* What the device of attempt n sends.
DeviceStep(j, n) ==
  \/ \E t \in Tree : WorkspacePrepared(j, n, t) \/ SaveCheckpoint(j, n, t)
  \/ AttemptStarted(j, n) \/ AttemptInterrupted(j, n) \/ AttemptStopped(j, n)
  \/ InputRequested(j, n) \/ EmptyResult(j, n)
  \/ \E r \in Result, t \in TreeHash : ResultPrepared(j, n, r, t)
  \/ DeliverInputs(j, n) \/ Heartbeat(j, n) \/ Controls(j, n)
  \/ \E s \in Inputs :
       \/ InputApplied(j, n, s) \/ InputUncertain(j, n, s)
       \/ \E outcome \in {"applied", "not_applied"} : ReconcileInput(j, n, s, outcome)

\* The operations of attempt n, their approvals and what became of them.
OperationStep(j, n, k) ==
  \/ \E approval \in BOOLEAN : ProposeOperation(j, n, k, approval)
  \/ Approve(j, n, k) \/ Reject(j, n, k)
  \/ ConsumeOperation(j, n, k)
  \/ \E outcome \in {"succeeded", "failed", "outcome_unknown", "cancelled"} :
       ToolFinished(j, n, k, outcome)
  \/ \E passes \in BOOLEAN : VerificationFinished(j, n, k, passes)
  \/ ReconcileOperation(j, n, k)
  \/ \E outcome \in {"succeeded", "failed", "cancelled"}, t \in TreeHash :
       ReconcileLocalOperation(j, n, k, outcome, t)

PublishStep(p) == ReadProposal(p) \/ CommitResult(p) \/ BlockPublication(p)

PassStep(p) == PassList(p) \/ PassFinish(p) \/ \E j \in Job : PassMark(p, j)

HookStep(p) == \E j \in Job : HookStart(p, j)

\* Time, and the first transaction of a reconcile pass.
TimerStep(j, n) == Elapse(j, n) \/ LeaseLost(j, n)

Next ==
  \/ \E j \in Job :
       \/ OwnerStep(j)
       \/ ClaimWork(j)
       \/ StartDeadlineExpired(j)
       \/ HookLost(j)
       \/ \E n \in Attempts :
            \/ DeviceStep(j, n)
            \/ \E k \in Op : OperationStep(j, n, k)
            \/ TimerStep(j, n)
       \/ \E k \in Op : ApprovalExpired(j, k)
  \/ \E r \in Runner : RevokeRunner(r)
  \/ \E p \in Publisher :
       PublishStep(p) \/ PassStep(p) \/ HookStep(p) \/ PublisherKilled(p)

Spec == Init /\ [][Next]_vars

\* The clock runs, the timer starts passes, and a publisher that is not killed goes
\* on.  Nothing is promised of people, of the device or of the on-commit hook.
Fairness ==
  /\ \A j \in Job, n \in Attempts : WF_vars(Elapse(j, n)) /\ WF_vars(LeaseLost(j, n))
  /\ \A p \in Pass :
       /\ WF_vars(PassList(p)) /\ WF_vars(PassFinish(p))
       /\ \A j \in Job : WF_vars(PassMark(p, j))
  /\ \A p \in Publisher : WF_vars(PublishStep(p))

FairSpec == Spec /\ Fairness

-----------------------------------------------------------------------------
(* Safety: the containment of a task *)

\* Only the newest attempt of a task can be active (spec 13.2: one active attempt per
\* job).  resume_job, claim_work and every way an attempt ends have to agree on it.
OneContainment ==
  \A j \in Job, n \in Attempts : attempt[j][n].active => n = last[j]

\* What the status of a task says about its processes.  A task that ended, waits or
\* was never started has no process; a stop that was asked for has one to stop; a
\* process nobody can vouch for makes the task interrupted.  failed is left out: see
\* FailedIsContained.
ContainmentMatchesStatus ==
  \A j \in Job :
    /\ status[j] \in {"running", "waiting_for_input", "waiting_for_approval",
                     "cancel_requested"} => ActiveAttempts(j) # {}
    /\ \A n \in ActiveAttempts(j) :
         CASE attempt[j][n].proc \in {"starting", "active"} ->
                status[j] \in EXECUTING \cup {"interrupted", "failed"}
           [] attempt[j][n].proc = "stopping" ->
                status[j] \in {"cancel_requested", "verifying", "failed"}
           [] attempt[j][n].proc = "unknown" -> status[j] \in {"interrupted", "failed"}
           [] OTHER -> FALSE

\* Work whose effect is unknown is never handed out again (spec 13.2): a task in the
\* queue, and every attempt before the newest one, leaves no operation without an
\* outcome and no input in doubt.
NothingLeftBehind ==
  \A j \in Job :
    /\ \A k \in UnresolvedOps(j) : op[j][k].at = last[j] /\ status[j] # "queued"
    /\ \A s \in Inputs :
         input[j][s].state \in {"delivered", "delivery_uncertain"} =>
           input[j][s].to = last[j] /\ status[j] # "queued"

\* Acknowledged inputs are a prefix of the inputs, whoever acknowledged them: the
\* event stream, or the supervisor later (record_event, reconcile_input).
InputsAppliedInOrder ==
  \A j \in Job, s, e \in Inputs :
    s < e /\ input[j][e].state = "applied" => input[j][s].state = "applied"

\* What was handed to an attempt is neither handed out again nor lost: operations and inputs
\* in doubt stay with the attempt they belong to, and acknowledgements leave no gap.
WorkIsKept == NothingLeftBehind /\ InputsAppliedInOrder

\* A device never has more attempts than its capacity, nor the realm more than
\* active_job_limit: an attempt the server lost sight of still counts.
CapacityRespected ==
  /\ Cardinality(ActiveEverywhere) <= ActiveLimit
  /\ \A r \in Runner :
       Cardinality({e \in ActiveEverywhere : Device(e[1]) = r}) <= Capacity[r]

-----------------------------------------------------------------------------
(* Safety: the operation ledger *)

\* A remote effect was started only by consuming an approval, and an approval that is
\* still open, or was refused, has started nothing (consume_operation).
RemoteEffectWasApproved ==
  \A j \in Job, k \in Op :
    /\ OpKind[k] = "remote" /\ op[j][k].state \notin {"none", "proposed"} =>
         op[j][k].approval = "consumed"
    /\ op[j][k].approval \notin {"none", "consumed"} => op[j][k].state = "proposed"

\* Nobody can approve, and nothing can consume, on behalf of an attempt that ended: an
\* open approval belongs to a live attempt.  Every ending has to invalidate it.
OpenApprovalIsLive ==
  \A j \in Job, k \in Op :
    op[j][k].approval \in {"pending", "approved"} => attempt[j][op[j][k].at].active

\* A task that waits for an approval has one its owner can still decide.
WaitingHasApproval ==
  \A j \in Job : status[j] = "waiting_for_approval" =>
    \E k \in Op : op[j][k].at = last[j] /\ op[j][k].approval = "pending"

\* Approvals decide: no remote effect without one, and no task that waits for one nobody
\* can give (consume_operation, decide_approval, invalidate_approvals).
ApprovalsDecide == RemoteEffectWasApproved /\ WaitingHasApproval

-----------------------------------------------------------------------------
(* Safety: the result *)

\* A result is published from the newest attempt, after its process is gone, with every
\* input acknowledged and every operation accounted for; and only so does a task complete.
CompletedIsSettled ==
  \A j \in Job :
    /\ status[j] = "completed" <=> receipt[j] # 0
    /\ receipt[j] # 0 => /\ receipt[j] = last[j] /\ proposal[j].by = last[j]
                         /\ ActiveAttempts(j) = {}
                         /\ Unapplied(j) = {}
                         /\ UnresolvedOps(j) = {}

\* What was delivered is the tree the checks passed on; for a pull request, also the tree
\* somebody approved to push (spec 11.4).
DeliveredAsVerified ==
  \A j \in Job : status[j] = "completed" /\ IsCode(j) =>
    /\ \E v \in verified[j] :
         v.tree = proposal[j].tree /\ op[j][v.op].state = "succeeded"
    /\ Kind[j] = "pull_request" =>
         \E k \in Op : /\ op[j][k].tree = proposal[j].tree
                       /\ op[j][k].approval = "consumed" /\ op[j][k].state = "succeeded"

\* A held result can still reach somebody: either a pass will retry it, or its requester
\* can take it privately (the comments of publish_result).
HeldResultHasAWayOut ==
  \A j \in Job : status[j] = "verifying" /\ Proposed(j) =>
    \/ resultRow[j] \in {"pending", "processing"}
    \/ reason[j] = "audience_changed"

-----------------------------------------------------------------------------
(* Safety: what a step may never do *)

\* An attempt that ended stays ended, an expired lease never comes back (heartbeat), and
\* a process that is being stopped never goes on working.
NoneRevived ==
  \A j \in Job, n \in Attempts :
    LET old == attempt[j][n]
        new == attempt'[j][n]
    IN
    /\ n <= last[j] /\ ~old.active => ~new.active
    /\ old.active /\ old.lease = 0 => new.lease = 0
    /\ old.active /\ old.proc \in {"stopping", "unknown"} =>
         new.proc \in {"stopping", "unknown", "stopped"}

AttemptsOnlyEnd == [][NoneRevived]_vars

\* An input leaves an attempt it was delivered to only with a receipt that says that
\* attempt did not apply it (reconcile_input: never replay an input implicitly), and an
\* acknowledged input is never delivered again.
UncertainNotReplayed ==
  [][\A j \in Job, s \in Inputs :
       LET old == input[j][s]
           new == input'[j][s]
       IN
       /\ old.to # 0 /\ new.to # old.to => old.to \in new.outcomes
       /\ old.state = "applied" => new = old]_vars

\* Once a result is out, no late event, stop, approval, pass or hook changes the record
\* that says so (spec 12: completed is final; 13.4: no second result message).
PublishedUntouched ==
  \A j \in Job : receipt[j] # 0 =>
    UNCHANGED <<status[j], receipt[j], proposal[j], resultRow[j], attempt[j],
                input[j], op[j], tree[j]>>

CompletedIsFinal == [][PublishedUntouched]_vars

\* A pass works through a list it read earlier, and j is still on it.
Listed(j) == \E p \in Pass : j \in pub[p].todo

\* A new result takes the place of the one the row is about (record_event, result.prepared).
ResultReplaced(j) == resultRow'[j] = "pending" /\ status'[j] = "verifying" /\ reason'[j] = ""

\* A parked outbox row that no pass has listed stays parked, and off every list, until its
\* result is delivered or a new result takes its place (_block_publication, the filter of
\* reconcile_agents).  A pass that listed the row before a hook parked it takes it up again:
\* see OnlyResultsUnpark.
ParkedStaysParked ==
  [][\A j \in Job : resultRow[j] = "blocked" /\ ~Listed(j) =>
       \/ resultRow'[j] = "delivered"
       \/ resultRow'[j] = "blocked" /\ ~Listed(j)'
       \/ ResultReplaced(j)]_vars

\* The records, seen as nothing but who holds a task and whose result is out.
Held(j) == IF ActiveAttempts(j) = {} THEN 0 ELSE last[j]

Promised == INSTANCE ContainmentPromise
  WITH Task <- Job, epoch <- last, holder <- [j \in Job |-> Held(j)], published <- receipt

\* Every step of the server is a step of the promise, or invisible to it.
KeepsThePromise == Promised!Promise

-----------------------------------------------------------------------------
(* Liveness *)

\* A stop somebody asked for comes to an end even if the device never answers: its lease
\* runs out (spec 12: cancel_requested, then cancelled or interrupted).
StopSettles ==
  \A j \in Job : status[j] = "cancel_requested" ~> status[j] # "cancel_requested"

\* No attempt executes for ever: its budget bounds its lease, however often it renews.
ExecutionEnds ==
  \A j \in Job, n \in Attempts :
    Executable(j, n) ~> ~attempt[j][n].active \/ attempt[j][n].proc \in {"stopping", "unknown"}

\* Nothing of a device that never answers lasts: neither a stop nor an execution.
SilenceEnds == StopSettles /\ ExecutionEnds

\* A held result with nothing missing is published, or its task leaves verifying: a
\* lost hook, a busy lock or a killed pass only delays it.  Losing access holds it up, so
\* does the revocation of the device it came from, and a row parked for an audience that
\* changed waits for its requester (deliver_result_privately).
HeldResultResolves ==
  \A j \in Job :
    (/\ status[j] = "verifying" /\ Proposed(j)
     /\ ActiveAttempts(j) = {} /\ Unapplied(j) = {} /\ UnresolvedOps(j) = {})
    ~> status[j] # "verifying" \/ ~Allowed(j) \/ resultRow[j] = "blocked"

-----------------------------------------------------------------------------
(* Statements of the documents and comments that the code does not keep *)

\* A decision about an old attempt does not end a task whose new attempt runs (spec 12 and
\* 13.2): a failed task has no process.
FailedIsContained == \A j \in Job : status[j] = "failed" => ActiveAttempts(j) = {}

\* A published result was prepared when every input had been acknowledged (record_event,
\* input.applied: the previous proposal cannot cover a newly acknowledged input).
ResultCoversInputs == \A j \in Job : status[j] = "completed" => covers[j] = sequence[j]

\* Only a later attempt retries an input its attempt did not apply (reconcile_input).
OnlyLaterAttemptRetries ==
  \A j \in Job, s \in Inputs :
    input[j][s].state \in {"delivered", "delivery_uncertain"} =>
      input[j][s].to \notin input[j][s].outcomes

\* A blocked task names the prerequisite it lacks (spec 12).
BlockedNamesItsReason == \A j \in Job : status[j] = "blocked" => reason[j] # ""

\* Never does a reconcile pass move a row out of blocked (the comment at the end of
\* reconcile_agents).
OnlyResultsUnpark ==
  [][\A j \in Job : resultRow[j] = "blocked" => resultRow'[j] # "processing"]_vars

\* Every edit after a check voids it (spec 11.4): the checks of a delivered tree are
\* newer than every finished edit.
ChecksFollowEdits ==
  \A j \in Job : status[j] = "completed" /\ IsCode(j) =>
    \E v \in verified[j] : v.tree = proposal[j].tree /\ v.fresh
=============================================================================
