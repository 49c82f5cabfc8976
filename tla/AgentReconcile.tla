--------------------------- MODULE AgentReconcile ---------------------------
(***************************************************************************)
(* zerver/lib/agent_reconcile.py: the recovery pass a timer starts every   *)
(* few seconds, one at a time (deploy/grow-team/reconcile-agents.sh holds  *)
(* a file lock).  Its first transaction treats what time has overtaken;    *)
(* each such record is a step here, since limit and skip_locked may leave  *)
(* any of them to a later pass.  It then works through a list of outbox    *)
(* rows it reads without a lock.                                           *)
(*                                                                         *)
(* Only result.publish rows are modelled: a wake or stop row is advisory,  *)
(* the device polls the same records.                                      *)
(***************************************************************************)
EXTENDS AgentResults

\* A task waited too long for its device; claim_work does the same.
StartDeadlineExpired(j) ==
  /\ status[j] = "queued"
  /\ transition(j, "blocked", "start_deadline_expired")
  /\ UNCHANGED <<stopTarget, configured, resultVars, attemptVars, inputVars, workVars,
                 envVars, pubVars>>

\* Gives up on attempt n.
LoseLease(j, n) ==
  /\ attempt[j][n].active
  /\ attempt[j][n].lease = 0
  /\ attempt' = [attempt EXCEPT ![j][n].proc = "unknown"]
  /\ op' = [op EXCEPT ![j] = OrphanOps(op[j], n)]
  /\ input' = [input EXCEPT ![j] = OrphanInputs(input[j], n)]
  /\ transition(j, "interrupted", "lease_lost")
  /\ UNCHANGED <<stopTarget, configured, resultVars, last, sequence, tree, verified,
                 envVars, pubVars>>

\* Mutant: an attempt that was asked to stop is waited for.
LeaseLostUnlessStopping(j, n) ==
  attempt[j][n].proc \notin {"unknown", "stopping"} /\ LoseLease(j, n)

\* Mutant: an attempt that never started is waited for.
LeaseLostOnceStarted(j, n) ==
  attempt[j][n].proc \notin {"unknown", "starting"} /\ LoseLease(j, n)

\* The server gives up on a lease that ran out, whatever the job was doing.
LeaseLost(j, n) ==
  attempt[j][n].proc # "unknown" /\ LoseLease(j, n)

\* An approval nobody gave, or nobody used, in time.
ApprovalExpired(j, k) ==
  LET n == op[j][k].at
      expired == [op[j] EXCEPT ![k].approval = "expired"]
  IN
  /\ op[j][k].approval \in {"pending", "approved"}
  /\ IF attempt[j][n].active
     THEN /\ stopTarget' = [stopTarget EXCEPT ![j] = "blocked"]
          /\ attempt' = [attempt EXCEPT ![j][n].proc = "stopping", ![j][n].stopRow = TRUE]
          /\ op' = [op EXCEPT ![j] = InvalidateApprovals(expired, n)]
          /\ transition(j, "cancel_requested", "approval_expired")
     ELSE /\ op' = [op EXCEPT ![j] = expired]
          /\ UNCHANGED <<status, reason, stopTarget, attempt>>
  /\ UNCHANGED <<configured, resultVars, last, inputVars, tree, verified, envVars, pubVars>>

-----------------------------------------------------------------------------
\* Mutant: what a killed pass left in processing is not picked up again.
DuePending == {j \in Job : resultRow[j] = "pending"}

\* Mutant: parked rows are tried again too.
DueOrParked == {j \in Job : resultRow[j] \in {"pending", "processing", "blocked"}}

Due == {j \in Job : resultRow[j] \in {"pending", "processing"}}

\* The pass lists the rows to work through.
PassList(p) ==
  /\ p \in Pass
  /\ \A q \in Pass : pub[q] = Idle
  /\ Due # {}
  /\ pub' = [pub EXCEPT ![p].pc = "listed", ![p].todo = Due]
  /\ UNCHANGED <<jobVars, resultVars, attemptVars, inputVars, workVars, envVars, hooks>>

\* It takes one of them: only a row delivered since is left out.
PassMark(p, j) ==
  /\ p \in Pass /\ pub[p].pc = "listed"
  /\ j \in pub[p].todo
  /\ LET rest == pub[p].todo \ {j} IN
     IF resultRow[j] = "delivered"
     THEN /\ pub' = [pub EXCEPT ![p] = IF rest = {} THEN Idle ELSE [@ EXCEPT !.todo = rest]]
          /\ UNCHANGED resultRow
     ELSE /\ resultRow' = [resultRow EXCEPT ![j] = "processing"]
          /\ pub' = [pub EXCEPT ![p] =
               [pc |-> "read", todo |-> rest, job |-> j, seen |-> NoProposal,
                raised |-> "none"]]
  /\ UNCHANGED <<jobVars, proposal, covers, receipt, attemptVars, inputVars, workVars,
                 envVars, hooks>>

\* It records how the publication went and turns to the next row.
PassFinish(p) ==
  LET j == pub[p].job IN
  /\ pub[p].pc = "finish"
  /\ resultRow' = [resultRow EXCEPT ![j] =
       IF @ \in {"delivered", "blocked"} THEN @
       ELSE IF pub[p].raised = "none" THEN "delivered" ELSE "pending"]
  /\ pub' = [pub EXCEPT ![p] =
       IF pub[p].todo = {} THEN Idle
       ELSE [Idle EXCEPT !.pc = "listed", !.todo = pub[p].todo]]
  /\ UNCHANGED <<jobVars, proposal, covers, receipt, attemptVars, inputVars, workVars,
                 envVars, hooks>>
=============================================================================
