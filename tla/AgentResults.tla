---------------------------- MODULE AgentResults ----------------------------
(***************************************************************************)
(* zerver/lib/agent_results.py: publish_result and its failure handling.   *)
(* A publication reads the proposal without a lock, verifies and commits   *)
(* it in a transaction, and records a failure in another one: other        *)
(* handlers and other publishers run in between.  It is called from the    *)
(* on-commit hook of attempt.stopped (a Hook) and from a reconcile pass.   *)
(***************************************************************************)
EXTENDS AgentRecords

\* The publisher p goes on at label l, having raised e.
Goto(p, l, e) == pub' = [pub EXCEPT ![p].pc = l, ![p].raised = e]

\* publish_result returned or raised: a hook is over, a pass settles the row.
Return(p, e) ==
  pub' = [pub EXCEPT ![p] = IF p \in Hook THEN Idle
                            ELSE [@ EXCEPT !.pc = "finish", !.raised = e]]

Fault == faults < MaxFaults /\ faults' = faults + 1

-----------------------------------------------------------------------------
\* Edits nobody has finished.  verify_result takes the first edit by descending
\* finished_at, where the database puts nulls first: one of these hides the rest.
UnfinishedEdits(j) ==
  {k \in Op : /\ op[j][k].at = last[j] /\ OpKind[k] = "edit"
              /\ op[j][k].state \in {"proposed", "authorized"}}

\* Mutant: the checks of an older tree are good enough.
ChecksOfAnyTree(j) == \E v \in verified[j] : op[j][v.op].state = "succeeded"

\* Every required check passes on the final tree, after the last finished edit.
ChecksProve(j) ==
  \E v \in verified[j] : /\ v.tree = tree[j]
                         /\ op[j][v.op].state = "succeeded"
                         /\ v.fresh \/ UnfinishedEdits(j) # {}

\* A push and a pull request of the final tree, each behind a consumed approval.
Delivered(j) ==
  \E k \in Op : /\ op[j][k].at = last[j] /\ OpKind[k] = "remote"
                /\ op[j][k].state = "succeeded" /\ op[j][k].approval = "consumed"
                /\ op[j][k].tree = tree[j]

\* Mutant: the process may still be running.
VerifyWhileRunning(j) ==
  IF status[j] # "verifying" \/ Unapplied(j) # {} \/ UnresolvedOps(j) # {} THEN "other" ELSE "none"

\* Mutant: operations whose outcome is unknown are not asked about.
VerifyUnreconciled(j) ==
  IF \/ status[j] # "verifying" \/ attempt[j][last[j]].active
     \/ proposal[j].by # last[j] \/ Unapplied(j) # {}
  THEN "other"
  ELSE IF IsCode(j) /\ ~ChecksProve(j) THEN "checks" ELSE "none"

\* verify_result: what it raises for the last attempt.
verify_result(j) ==
  IF \/ status[j] # "verifying" \/ last[j] = 0
     \/ attempt[j][last[j]].active
     \/ proposal[j].by # last[j]
     \/ Unapplied(j) # {}
     \/ UnresolvedOps(j) # {}
     \/ IsCode(j) /\ (tree[j] = NoTree \/ proposal[j].tree # tree[j])
  THEN "other"
  ELSE IF IsCode(j) /\ ~ChecksProve(j) THEN "checks"
  ELSE IF Kind[j] = "pull_request" /\ ~Delivered(j) THEN "other" ELSE "none"

\* The message, the receipt, the status and the outbox row are one transaction.
Publish(j) ==
  /\ receipt' = [receipt EXCEPT ![j] = last[j]]
  /\ resultRow' = [resultRow EXCEPT ![j] = "delivered"]
  /\ transition(j, "completed", "")

\* The first, unlocked read of _publish_result, and the artifact files.
ReadProposal(p) ==
  LET j == pub[p].job IN
  /\ pub[p].pc = "read"
  /\ \/ receipt[j] # 0 /\ Return(p, "none") /\ UNCHANGED faults
     \/ receipt[j] = 0 /\ ~Proposed(j) /\ Goto(p, "block", "other") /\ UNCHANGED faults
     \/ /\ receipt[j] = 0 /\ Proposed(j)
        /\ pub' = [pub EXCEPT ![p].pc = "commit", ![p].seen = proposal[j]]
        /\ UNCHANGED faults
     \/ receipt[j] = 0 /\ Fault /\ Goto(p, "block", "other")
  /\ UNCHANGED <<jobVars, resultVars, attemptVars, inputVars, workVars, revoked, access, hooks>>

\* What the transaction of _publish_result raises, in the order of its checks.
Refusal(p) ==
  LET j == pub[p].job IN
  IF proposal[j] # pub[p].seen THEN "other"
  ELSE IF access[j] = "audience_changed" THEN "audience"
  ELSE IF ~Allowed(j) THEN "other"
  ELSE verify_result(j)

CommitResult(p) ==
  LET j == pub[p].job IN
  /\ pub[p].pc = "commit"
  /\ \/ /\ receipt[j] # 0
        /\ Return(p, "none")
        /\ UNCHANGED <<jobVars, resultVars, faults>>
     \/ /\ receipt[j] = 0 /\ Refusal(p) # "none"
        /\ Goto(p, "block", Refusal(p))
        /\ UNCHANGED <<jobVars, resultVars, faults>>
     \/ /\ receipt[j] = 0 /\ Refusal(p) = "none"
        /\ Publish(j)
        /\ Return(p, "none")
        /\ UNCHANGED <<stopTarget, configured, proposal, covers, faults>>
     \/ /\ Fault
        /\ Goto(p, "block", "other")
        /\ UNCHANGED <<jobVars, resultVars>>
  /\ UNCHANGED <<attemptVars, inputVars, workVars, revoked, access, hooks>>

\* Mutant: a failure is recorded whatever happened to the task meanwhile.
BlockWhatever(p) ==
  LET j == pub[p].job IN
  /\ pub[p].pc = "block"
  /\ transition(j, "verifying", "publication_blocked")
  /\ Return(p, "other")
  /\ UNCHANGED <<stopTarget, configured, resultVars, attemptVars, inputVars, workVars,
                 envVars, hooks>>

\* Mutant: every failure parks the row.
BlockAndPark(p) ==
  LET j == pub[p].job IN
  /\ pub[p].pc = "block"
  /\ transition(j, status[j], "publication_blocked")
  /\ resultRow' = [resultRow EXCEPT ![j] = "blocked"]
  /\ Return(p, "other")
  /\ UNCHANGED <<stopTarget, configured, proposal, covers, receipt, attemptVars, inputVars,
                 workVars, envVars, hooks>>

\* _block_publication: the status, the reason and whether the row is parked.
BlockPublication(p) ==
  LET j == pub[p].job
      e == pub[p].raised
      why == CASE e = "audience" -> "audience_changed"
               [] e = "checks"   -> "verification_failed"
               [] e = "other"    -> "publication_blocked"
  IN
  /\ pub[p].pc = "block"
  /\ \/ /\ status[j] = "verifying" /\ reason[j] # why
        /\ transition(j, IF e = "checks" THEN "failed" ELSE "verifying", why)
        /\ resultRow' = [resultRow EXCEPT ![j] =
             IF e # "other" /\ @ # "delivered" THEN "blocked" ELSE @]
        /\ UNCHANGED faults
     \/ /\ status[j] # "verifying" \/ reason[j] = why
        /\ UNCHANGED <<status, reason, resultRow, faults>>
     \/ /\ Fault
        /\ UNCHANGED <<status, reason, resultRow>>
  /\ Return(p, e)
  /\ UNCHANGED <<stopTarget, configured, proposal, covers, receipt, attemptVars, inputVars,
                 workVars, revoked, access, hooks>>

\* deliver_result_privately: the requester takes a result held for its audience.
DeliverPrivately(j) ==
  /\ receipt[j] = 0
  /\ status[j] = "verifying" /\ reason[j] = "audience_changed"
  /\ Proposed(j)
  /\ access[j] # "denied" /\ Device(j) \notin revoked
  /\ verify_result(j) = "none"
  /\ Publish(j)
  /\ UNCHANGED <<stopTarget, configured, proposal, covers, attemptVars, inputVars, workVars,
                 envVars, pubVars>>

-----------------------------------------------------------------------------
\* _publish_after_commit begins in the web worker that committed attempt.stopped.
HookStart(p, j) ==
  /\ p \in Hook /\ pub[p] = Idle
  /\ j \in hooks
  /\ hooks' = hooks \ {j}
  /\ pub' = [pub EXCEPT ![p].pc = "read", ![p].job = j]
  /\ UNCHANGED <<jobVars, resultVars, attemptVars, inputVars, workVars, envVars>>

\* The worker dies before its hook runs.
HookLost(j) ==
  /\ j \in hooks
  /\ Fault
  /\ hooks' = hooks \ {j}
  /\ UNCHANGED <<jobVars, resultVars, attemptVars, inputVars, workVars, revoked, access, pub>>

\* The worker or the pass dies, or a busy lock ends the pass: what it committed stays.
PublisherKilled(p) ==
  /\ pub[p] # Idle
  /\ Fault
  /\ pub' = [pub EXCEPT ![p] = Idle]
  /\ UNCHANGED <<jobVars, resultVars, attemptVars, inputVars, workVars, revoked, access, hooks>>
=============================================================================
