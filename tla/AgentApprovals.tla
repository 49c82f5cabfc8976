--------------------------- MODULE AgentApprovals ---------------------------
(***************************************************************************)
(* zerver/actions/agent_approvals.py: the operation ledger.  A runtime     *)
(* proposes an operation, a person approves it when the policy does not    *)
(* already allow it, the supervisor consumes it once, and what became of   *)
(* it is reported or reconciled.  Team-channel operations                  *)
(* (execute_operation) are not modelled.                                   *)
(***************************************************************************)
EXTENDS AgentRecords

\* propose_operation.  Only context.read needs no workspace.  checks.run never goes to
\* approval and a remote effect always does; for the mutations (edit) it depends on
\* the policy, so both ways are open.
ProposeOperation(j, n, k, approval) ==
  /\ Executable(j, n)
  /\ op[j][k].state = "none"
  /\ OpKind[k] # "read" => IsCode(j) /\ attempt[j][n].prepared /\ tree[j] # NoTree
  /\ OpKind[k] \in {"edit", "remote"} \/ ~approval
  /\ OpKind[k] = "remote" => approval
  /\ op' = [op EXCEPT ![j][k] =
       [at |-> n,
        state |-> IF approval THEN "proposed" ELSE "authorized",
        approval |-> IF approval THEN "pending" ELSE "none",
        tree |-> tree[j]]]
  /\ IF approval THEN transition(j, "waiting_for_approval", "")
     ELSE UNCHANGED <<status, reason>>
  /\ UNCHANGED <<stopTarget, configured, resultVars, attemptVars, inputVars, tree, verified,
                 envVars, pubVars>>

\* What decide_approval and consume_operation ask of the tree.
SameTree(j, k) == OpKind[k] = "read" \/ op[j][k].tree = tree[j]

\* decide_approval, approved
Approve(j, n, k) ==
  /\ Executable(j, n)
  /\ op[j][k].at = n
  /\ op[j][k].approval = "pending"
  /\ SameTree(j, k)
  /\ op' = [op EXCEPT ![j][k].approval = "approved"]
  /\ transition(j, "running", "")
  /\ UNCHANGED <<stopTarget, configured, resultVars, attemptVars, inputVars, tree, verified,
                 envVars, pubVars>>

\* decide_approval, rejected: the whole attempt is asked to stop.
Reject(j, n, k) ==
  /\ Executable(j, n)
  /\ op[j][k].at = n
  /\ op[j][k].approval = "pending"
  /\ SameTree(j, k)
  /\ stopTarget' = [stopTarget EXCEPT ![j] = "blocked"]
  /\ attempt' = [attempt EXCEPT ![j][n].proc = "stopping", ![j][n].stopRow = TRUE]
  /\ op' = [op EXCEPT ![j] =
       [InvalidateApprovals(op[j], n) EXCEPT ![k].approval = "rejected"]]
  /\ transition(j, "cancel_requested", "approval_rejected")
  /\ UNCHANGED <<configured, resultVars, last, inputVars, tree, verified, envVars, pubVars>>

\* Mutant: a proposal starts whatever was decided about it.
ConsumeUndecided(j, n, k) ==
  /\ Executable(j, n)
  /\ op[j][k].at = n
  /\ op[j][k].state \in {"proposed", "authorized"}
  /\ SameTree(j, k)
  /\ op' = [op EXCEPT ![j][k].state = "started"]
  /\ UNCHANGED <<jobVars, resultVars, attemptVars, inputVars, tree, verified, envVars, pubVars>>

\* consume_operation: the one permission to start.
ConsumeOperation(j, n, k) ==
  LET row == op[j][k] IN
  /\ Executable(j, n)
  /\ row.at = n
  /\ \/ row.state = "authorized"
     \/ row.state = "proposed" /\ row.approval = "approved"
  /\ SameTree(j, k)
  /\ op' = [op EXCEPT ![j][k].state = "started",
                      ![j][k].approval = IF row.state = "proposed" THEN "consumed" ELSE @]
  /\ UNCHANGED <<jobVars, resultVars, attemptVars, inputVars, tree, verified, envVars, pubVars>>

\* reconcile_operation: a matching remote receipt, from any attempt of the job.
ReconcileOperation(j, n, k) ==
  /\ n \in 1..last[j]
  /\ Allowed(j)
  /\ op[j][k].at = n
  /\ OpKind[k] = "remote"
  /\ op[j][k].state \in {"started", "outcome_unknown"}
  /\ op[j][k].approval = "consumed"
  /\ op' = [op EXCEPT ![j][k].state = "succeeded"]
  /\ UNCHANGED <<jobVars, resultVars, attemptVars, inputVars, tree, verified, envVars, pubVars>>

\* reconcile_local_operation: what the supervisor saw in the workspace of the last
\* attempt once it had stopped.  no_effect becomes "cancelled" and needs the tree
\* the operation was bound to.
ReconcileLocalOperation(j, n, k, outcome, t) ==
  /\ n = last[j]
  /\ Allowed(j)
  /\ ~attempt[j][n].active /\ attempt[j][n].proc = "stopped"
  /\ op[j][k].at = n
  /\ OpKind[k] # "remote"
  /\ op[j][k].state = "outcome_unknown"
  /\ IsCode(j) <=> t # NoTree
  /\ outcome = "cancelled" => t = op[j][k].tree
  /\ op' = [op EXCEPT ![j][k].state = outcome]
  /\ tree' = [tree EXCEPT ![j] = t]
  /\ verified' = [verified EXCEPT ![j] =
       IF OpKind[k] = "edit" THEN {[v EXCEPT !.fresh = FALSE] : v \in @} ELSE @]
  /\ UNCHANGED <<jobVars, resultVars, attemptVars, inputVars, envVars, pubVars>>
=============================================================================
