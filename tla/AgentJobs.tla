------------------------------ MODULE AgentJobs ------------------------------
(***************************************************************************)
(* zerver/actions/agent_jobs.py: the life of a task.  What its owner does  *)
(* to it, the claim that hands it to a device, the events the device       *)
(* reports, the lease, and the revocation of the device                    *)
(* (zerver/actions/agents.py).                                             *)
(***************************************************************************)
EXTENDS AgentRecords

\* queued_job_limit and profile_queue_limit.
QueueFull(j) ==
  LET waiting == {i \in Job : status[i] = "queued"} IN
  \/ Cardinality(waiting) >= RealmQueueLimit
  \/ Cardinality({i \in waiting : ProfileOf[i] = ProfileOf[j]}) >= ProfileQueueLimit

\* create_job without draft, the profile being ready.
CreateQueued(j) ==
  /\ status[j] = "absent"
  /\ Allowed(j)
  /\ ~QueueFull(j)
  /\ transition(j, "queued", "")
  /\ configured' = [configured EXCEPT ![j] = TRUE]
  /\ UNCHANGED <<stopTarget, resultVars, attemptVars, inputVars, workVars, envVars, pubVars>>

\* create_job with allow_blocked: require_ready raised for an enabled profile.
CreateBlocked(j) ==
  /\ status[j] = "absent"
  /\ Allowed(j)
  /\ transition(j, "blocked", "profile_needs_action")
  /\ configured' = [configured EXCEPT ![j] = TRUE]
  /\ UNCHANGED <<stopTarget, resultVars, attemptVars, inputVars, workVars, envVars, pubVars>>

\* create_job with draft: a coding task whose repository is still to be chosen.
CreateDraft(j) ==
  /\ status[j] = "absent"
  /\ IsCode(j)
  /\ Allowed(j)
  /\ \E r \in {"", "profile_needs_action"} : transition(j, "draft", r)
  /\ UNCHANGED <<stopTarget, configured, resultVars, attemptVars, inputVars, workVars,
                 envVars, pubVars>>

\* complete_draft, through create_job(completing=job).
CompleteDraft(j) ==
  /\ status[j] = "draft"
  /\ Allowed(j)
  /\ ~QueueFull(j)
  /\ transition(j, "queued", "")
  /\ configured' = [configured EXCEPT ![j] = TRUE]
  /\ UNCHANGED <<stopTarget, resultVars, attemptVars, inputVars, workVars, envVars, pubVars>>

\* Mutant: the task is cancelled without waiting for its attempt.
CancelAtOnce(j) ==
  /\ status[j] \notin {"absent", "cancel_requested", "cancelled", "completed"}
  /\ stopTarget' = [stopTarget EXCEPT ![j] = "cancelled"]
  /\ transition(j, "cancelled", "")
  /\ UNCHANGED <<configured, resultVars, attemptVars, inputVars, workVars, envVars, pubVars>>

\* cancel_job.  request_stop without an active attempt goes straight to the target.
CancelJob(j) ==
  /\ status[j] \notin {"absent", "cancel_requested", "cancelled", "completed"}
  /\ \/ /\ ActiveAttempts(j) = {}
        /\ stopTarget' = [stopTarget EXCEPT ![j] = "cancelled"]
        /\ transition(j, "cancelled", "")
        /\ UNCHANGED <<attempt, op>>
     \/ \E n \in ActiveAttempts(j) : StopAttempt(j, n, "cancelled", "")
  /\ UNCHANGED <<configured, resultVars, last, inputVars, tree, verified, envVars, pubVars>>

\* Mutant: the task goes on waiting for what the input has just withdrawn.
AddInputInPlace(j) ==
  /\ status[j] \in EXECUTING
  /\ \E n \in ActiveAttempts(j) :
       /\ attempt[j][n].proc \notin {"stopping", "unknown"}
       /\ op' = [op EXCEPT ![j] = InvalidateApprovals(op[j], n)]
  /\ Allowed(j)
  /\ sequence[j] < MaxInputs
  /\ sequence' = [sequence EXCEPT ![j] = @ + 1]
  /\ proposal' = [proposal EXCEPT ![j] = NoProposal]
  /\ UNCHANGED <<jobVars, covers, receipt, resultRow, attemptVars, input, tree, verified,
                 envVars, pubVars>>

\* Mutant: the input limit is off by one.
AddInputTooMany(j) ==
  /\ status[j] = "queued"
  /\ Allowed(j)
  /\ sequence[j] <= MaxInputs
  /\ sequence' = [sequence EXCEPT ![j] = @ + 1]
  /\ UNCHANGED <<jobVars, resultVars, attemptVars, input, workVars, envVars, pubVars>>

\* add_input.  An input that arrives while the job waits or verifies puts it back
\* to running; the reason it waited or was held stays on the record.
AddInput(j) ==
  LET interrupts == status[j] \in EXECUTING \ {"running"} IN
  /\ status[j] \in {"queued"} \cup EXECUTING
  /\ status[j] # "queued" => ActiveAttempts(j) # {}
  /\ \A n \in ActiveAttempts(j) : attempt[j][n].proc \notin {"stopping", "unknown"}
  /\ Allowed(j)
  /\ sequence[j] < MaxInputs
  /\ sequence' = [sequence EXCEPT ![j] = @ + 1]
  /\ IF interrupts
     THEN /\ status' = [status EXCEPT ![j] = "running"]
          /\ proposal' = [proposal EXCEPT ![j] = NoProposal]
          /\ \E n \in ActiveAttempts(j) :
               op' = [op EXCEPT ![j] = InvalidateApprovals(op[j], n)]
     ELSE UNCHANGED <<status, proposal, op>>
  /\ UNCHANGED <<reason, stopTarget, configured, covers, receipt, resultRow, attemptVars,
                 input, tree, verified, envVars, pubVars>>

\* Mutant: operations without an outcome are forgotten.
ResumeUnreconciled(j) ==
  /\ status[j] \in {"cancelled", "failed", "interrupted", "blocked"}
  /\ ActiveAttempts(j) = {}
  /\ \A s \in Inputs : input[j][s].state # "delivery_uncertain"
  /\ Allowed(j)
  /\ proposal' = [proposal EXCEPT ![j] = NoProposal]
  /\ transition(j, "queued", "")
  /\ UNCHANGED <<stopTarget, configured, covers, receipt, resultRow, attemptVars, inputVars,
                 workVars, envVars, pubVars>>

\* Mutant: inputs that may have been applied are not asked about.
ResumeInDoubt(j) ==
  /\ status[j] \in {"cancelled", "failed", "interrupted", "blocked"}
  /\ ActiveAttempts(j) = {}
  /\ UnresolvedOps(j) = {}
  /\ Allowed(j)
  /\ proposal' = [proposal EXCEPT ![j] = NoProposal]
  /\ transition(j, "queued", "")
  /\ UNCHANGED <<stopTarget, configured, covers, receipt, resultRow, attemptVars, inputVars,
                 workVars, envVars, pubVars>>

\* resume_job.  Neither the queue limits nor stop_target are looked at.
ResumeJob(j) ==
  /\ status[j] \in {"cancelled", "failed", "interrupted", "blocked"}
  /\ ActiveAttempts(j) = {}
  /\ UnresolvedOps(j) = {}
  /\ \A s \in Inputs : input[j][s].state # "delivery_uncertain"
  /\ Allowed(j)
  /\ proposal' = [proposal EXCEPT ![j] = NoProposal]
  /\ transition(j, "queued", "")
  /\ UNCHANGED <<stopTarget, configured, covers, receipt, resultRow, attemptVars, inputVars,
                 workVars, envVars, pubVars>>

\* revoke_runner: a bulk update of the device's attempts and their jobs, beside
\* request_stop: no stop row, no reason, no stop_target.
RevokeRunner(r) ==
  LET hit == {j \in Job : Device(j) = r /\ ActiveAttempts(j) # {}} IN
  /\ r \in Revocable /\ r \notin revoked
  /\ revoked' = revoked \cup {r}
  /\ attempt' = [j \in Job |-> [n \in Attempts |->
       IF j \in hit /\ attempt[j][n].active
       THEN [attempt[j][n] EXCEPT !.proc = "stopping"] ELSE attempt[j][n]]]
  /\ status' = [j \in Job |-> IF j \in hit THEN "cancel_requested" ELSE status[j]]
  /\ UNCHANGED <<reason, stopTarget, configured, resultVars, last, inputVars, workVars,
                 access, faults, pubVars>>

-----------------------------------------------------------------------------
ActiveEverywhere == {e \in Job \X Attempts : attempt[e[1]][e[2]].active}

\* Mutant: an attempt the server lost sight of frees its place.
ReachableOn(r) ==
  {e \in ActiveEverywhere : Device(e[1]) = r /\ attempt[e[1]][e[2]].proc # "unknown"}

ActiveOn(r) == {e \in ActiveEverywhere : Device(e[1]) = r}

\* claim_work: the device asks for one task.  Which queued task is handed out is
\* left open: any of them may be waiting for its next_attempt_at or its profile.
ClaimWork(j) ==
  /\ status[j] = "queued"
  /\ Allowed(j)
  /\ IsCode(j) => configured[j]
  /\ ActiveAttempts(j) = {}
  /\ Cardinality(ActiveOn(Device(j))) < Capacity[Device(j)]
  /\ Cardinality(ActiveEverywhere) < ActiveLimit
  /\ last[j] < MaxAttempts
  /\ last' = [last EXCEPT ![j] = @ + 1]
  /\ attempt' = [attempt EXCEPT ![j][last[j] + 1] =
       [active |-> TRUE, proc |-> "starting", lease |-> LeaseTicks, budget |-> Budget,
        prepared |-> FALSE, stopRow |-> FALSE]]
  /\ tree' = [tree EXCEPT ![j] = NoTree]
  /\ verified' = [verified EXCEPT ![j] = {}]
  /\ transition(j, "running", "")
  /\ UNCHANGED <<stopTarget, configured, resultVars, inputVars, op, envVars, pubVars>>

-----------------------------------------------------------------------------
\* record_event of a live attempt: the newest one, under its execution guard.
Reporting(j, n) == n = last[j] /\ Executable(j, n)

\* workspace.prepared
WorkspacePrepared(j, n, t) ==
  /\ Reporting(j, n)
  /\ IsCode(j)
  /\ attempt[j][n].proc = "starting"
  /\ ~attempt[j][n].prepared
  /\ attempt' = [attempt EXCEPT ![j][n].prepared = TRUE]
  /\ tree' = [tree EXCEPT ![j] = t]
  /\ UNCHANGED <<jobVars, resultVars, last, inputVars, op, verified, envVars, pubVars>>

\* attempt.started
AttemptStarted(j, n) ==
  /\ Reporting(j, n)
  /\ attempt[j][n].proc = "starting"
  /\ IsCode(j) => attempt[j][n].prepared
  /\ attempt' = [attempt EXCEPT ![j][n].proc = "active"]
  /\ UNCHANGED <<jobVars, resultVars, last, inputVars, workVars, envVars, pubVars>>

\* attempt.interrupted: the supervisor cannot prove that the containment is empty.
AttemptInterrupted(j, n) ==
  /\ n = last[j]
  /\ attempt[j][n].active
  /\ Device(j) \notin revoked
  /\ attempt' = [attempt EXCEPT ![j][n].proc = "unknown"]
  /\ op' = [op EXCEPT ![j] = OrphanOps(op[j], n)]
  /\ input' = [input EXCEPT ![j] = OrphanInputs(input[j], n)]
  /\ transition(j, "interrupted", "stop_unconfirmed")
  /\ UNCHANGED <<stopTarget, configured, resultVars, last, sequence, tree, verified,
                 envVars, pubVars>>

\* attempt.stopped, from the event stream or through stop_evidence, the only way
\* left to a revoked device.  Where the job goes depends on who asked for the stop.
AttemptStopped(j, n) ==
  LET row  == attempt[j][n]
      kept == status[j] \in TERMINAL \cup {"verifying"}
  IN
  /\ n = last[j]
  /\ row.active
  /\ Device(j) \in revoked =>
       row.proc = "stopping" \/ (row.proc = "unknown" /\ status[j] = "interrupted")
  /\ attempt' = [attempt EXCEPT ![j][n] = NoAttempt]
  /\ op' = [op EXCEPT ![j] = OrphanOps(op[j], n)]
  /\ input' = [input EXCEPT ![j] = OrphanInputs(input[j], n)]
  /\ IF status[j] = "cancel_requested" \/ Device(j) \in revoked \/ row.stopRow
     THEN transition(j, stopTarget[j], reason[j]) /\ UNCHANGED hooks
     ELSE IF kept
     THEN /\ hooks' = IF status[j] = "verifying" THEN hooks \cup {j} ELSE hooks
          /\ UNCHANGED <<status, reason>>
     ELSE transition(j, "interrupted", "runtime_stopped") /\ UNCHANGED hooks
  /\ UNCHANGED <<stopTarget, configured, resultVars, last, sequence, tree, verified,
                 envVars, pub>>

\* Mutant: acknowledgements come in any order.
AnyOrder(j, s) == TRUE

\* No earlier input of the job is still unacknowledged.
InOrder(j, s) == \A e \in 1..(s - 1) : input[j][e].state = "applied"

\* input.applied.  A held result cannot cover the input: it is withdrawn.
InputApplied(j, n, s) ==
  /\ Reporting(j, n)
  /\ s <= sequence[j]
  /\ input[j][s].to = n
  /\ input[j][s].state \in {"delivered", "delivery_uncertain"}
  /\ InOrder(j, s)
  /\ input' = [input EXCEPT ![j][s].state = "applied"]
  /\ proposal' = [proposal EXCEPT ![j] = NoProposal]
  /\ IF Proposed(j) /\ status[j] = "verifying"
     THEN transition(j, "running", "")
     ELSE UNCHANGED <<status, reason>>
  /\ UNCHANGED <<stopTarget, configured, covers, receipt, resultRow, attemptVars, sequence,
                 workVars, envVars, pubVars>>

\* input.delivery_uncertain
InputUncertain(j, n, s) ==
  /\ Reporting(j, n)
  /\ s <= sequence[j]
  /\ input[j][s].to = n
  /\ input[j][s].state = "delivered"
  /\ input' = [input EXCEPT ![j][s].state = "delivery_uncertain"]
  /\ UNCHANGED <<jobVars, resultVars, attemptVars, sequence, workVars, envVars, pubVars>>

\* An edit that finishes is newer than every check recorded before it.
Outdate(checks) == {[v EXCEPT !.fresh = FALSE] : v \in checks}

\* tool.finished.  An edit leaves the tree unnamed and withdraws the result, but not
\* the status that came with it.
ToolFinished(j, n, k, outcome) ==
  /\ Reporting(j, n)
  /\ op[j][k].at = n
  /\ op[j][k].state = "started"
  /\ OpKind[k] = "remote" => outcome # "succeeded"
  /\ op' = [op EXCEPT ![j][k].state = outcome]
  /\ IF OpKind[k] = "edit"
     THEN /\ tree' = [tree EXCEPT ![j] = NoTree]
          /\ verified' = [verified EXCEPT ![j] = Outdate(verified[j])]
          /\ proposal' = [proposal EXCEPT ![j] = NoProposal]
     ELSE UNCHANGED <<tree, verified, proposal>>
  /\ UNCHANGED <<jobVars, covers, receipt, resultRow, attemptVars, inputVars, envVars, pubVars>>

\* verification.finished: the last record for a tree replaces the earlier one.
VerificationFinished(j, n, k, passes) ==
  /\ Reporting(j, n)
  /\ attempt[j][n].proc = "active"
  /\ op[j][k].at = n
  /\ OpKind[k] = "check"
  /\ op[j][k].state \in {"started", "succeeded", "failed"}
  /\ tree[j] # NoTree /\ op[j][k].tree = tree[j]
  /\ verified' = [verified EXCEPT ![j] =
       {v \in @ : v.tree # tree[j]} \cup
       IF passes THEN {[tree |-> tree[j], op |-> k, fresh |-> TRUE]} ELSE {}]
  /\ UNCHANGED <<jobVars, resultVars, attemptVars, inputVars, op, tree, envVars, pubVars>>

\* input.requested
InputRequested(j, n) ==
  /\ Reporting(j, n)
  /\ transition(j, "waiting_for_input", "")
  /\ UNCHANGED <<stopTarget, configured, resultVars, attemptVars, inputVars, workVars,
                 envVars, pubVars>>

\* result.prepared with a summary.  The outbox row of an earlier result is reused.
ResultPrepared(j, n, r, t) ==
  /\ Reporting(j, n)
  /\ attempt[j][n].proc = "active"
  /\ \A k \in UnresolvedOps(j) : op[j][k].at # n
  /\ IF IsCode(j) THEN attempt[j][n].prepared /\ t # NoTree ELSE t = NoTree
  /\ tree' = [tree EXCEPT ![j] = t]
  /\ proposal' = [proposal EXCEPT ![j] = [text |-> r, tree |-> t, by |-> n]]
  /\ covers' = [covers EXCEPT ![j] = sequence[j] - Cardinality(Unapplied(j))]
  /\ resultRow' = [resultRow EXCEPT ![j] = "pending"]
  /\ transition(j, "verifying", "")
  /\ UNCHANGED <<stopTarget, configured, receipt, attemptVars, inputVars, op, verified,
                 envVars, pubVars>>

\* result.prepared without a summary: the attempt goes on, the job does not.
EmptyResult(j, n) ==
  /\ Reporting(j, n)
  /\ attempt[j][n].proc = "active"
  /\ transition(j, "interrupted", "result_invalid")
  /\ UNCHANGED <<stopTarget, configured, resultVars, attemptVars, inputVars, workVars,
                 envVars, pubVars>>

\* save_checkpoint, of which only the tree it names matters here.
SaveCheckpoint(j, n, t) ==
  /\ Executable(j, n)
  /\ IsCode(j) /\ attempt[j][n].prepared
  /\ tree' = [tree EXCEPT ![j] = t]
  /\ UNCHANGED <<jobVars, resultVars, attemptVars, inputVars, op, verified, envVars, pubVars>>

-----------------------------------------------------------------------------
\* deliver_inputs: everything unacknowledged, unless a part went to another attempt.
DeliverInputs(j, n) ==
  /\ Executable(j, n)
  /\ \E s \in Unapplied(j) : input[j][s].state = "pending"
  /\ \A s \in Unapplied(j) : input[j][s].to \in {0, n}
  /\ input' = [input EXCEPT ![j] = [s \in Inputs |->
       IF s \in Unapplied(j) /\ input[j][s].state = "pending"
       THEN [input[j][s] EXCEPT !.state = "delivered", !.to = n] ELSE input[j][s]]]
  /\ UNCHANGED <<jobVars, resultVars, attemptVars, sequence, workVars, envVars, pubVars>>

\* fence_prepared_result: a held result that lacks nothing ends the execution.
Fenced(j, n) ==
  IF /\ status[j] = "verifying" /\ Proposed(j)
     /\ attempt[j][n].proc = "active" /\ Unapplied(j) = {}
  THEN [attempt[j][n] EXCEPT !.proc = "stopping"] ELSE attempt[j][n]

\* heartbeat, for one lease: an expired lease never comes back.
Heartbeat(j, n) ==
  /\ Executable(j, n)
  /\ LET left == attempt[j][n].budget IN
     attempt' = [attempt EXCEPT ![j][n] =
       [Fenced(j, n) EXCEPT !.lease = IF left < LeaseTicks THEN left ELSE LeaseTicks]]
  /\ UNCHANGED <<jobVars, resultVars, last, inputVars, workVars, envVars, pubVars>>

\* controls (zerver/views/agent_runner.py), for one attempt: fence it, or ask it to
\* stop because its execution guard fails, for whatever reason.
Controls(j, n) ==
  /\ Device(j) \notin revoked
  /\ attempt[j][n].active
  /\ attempt[j][n].proc \in {"starting", "active"}
  /\ \/ /\ Executable(j, n)
        /\ attempt' = [attempt EXCEPT ![j][n] = Fenced(j, n)]
        /\ UNCHANGED <<status, reason, stopTarget, op>>
     \/ /\ ~Executable(j, n)
        /\ StopAttempt(j, n, "blocked", "authority_changed")
  /\ UNCHANGED <<configured, resultVars, last, inputVars, tree, verified, envVars, pubVars>>

\* reconcile_input: what the supervisor found out about an uncertain delivery.  An
\* attempt gives one answer per input.
ReconcileInput(j, n, s, outcome) ==
  LET row == input[j][s] IN
  /\ n = last[j] /\ s <= sequence[j]
  /\ Allowed(j)
  /\ n \notin row.outcomes
  /\ row.to = n /\ row.state = "delivery_uncertain"
  /\ outcome = "applied" => InOrder(j, s)
  /\ input' = [input EXCEPT ![j][s] =
       IF outcome = "applied"
       THEN [state |-> "applied", to |-> n, outcomes |-> row.outcomes \cup {n}]
       ELSE [state |-> "pending", to |-> 0, outcomes |-> row.outcomes \cup {n}]]
  /\ UNCHANGED <<jobVars, resultVars, attemptVars, sequence, workVars, envVars, pubVars>>

-----------------------------------------------------------------------------
\* Time passes for an attempt: its lease and its active_seconds run down together.
Elapse(j, n) ==
  LET tick(t) == IF t > 0 THEN t - 1 ELSE 0 IN
  /\ attempt[j][n].active
  /\ attempt[j][n].lease > 0 \/ attempt[j][n].budget > 0
  /\ attempt' = [attempt EXCEPT ![j][n].lease = tick(@), ![j][n].budget = tick(@)]
  /\ UNCHANGED <<jobVars, resultVars, last, inputVars, workVars, envVars, pubVars>>

\* People gain and lose access, and conversations change audience, at any time.
AccessChange(j) ==
  /\ status[j] # "absent"
  /\ \E a \in AccessAnswers \ {access[j]} : access' = [access EXCEPT ![j] = a]
  /\ UNCHANGED <<jobVars, resultVars, attemptVars, inputVars, workVars, revoked, faults,
                 pubVars>>
=============================================================================
