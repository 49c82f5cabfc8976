--------------------------- MODULE TeamOperations ---------------------------
(***************************************************************************)
(* One team.manage operation: the server runs the Zulip action itself, in  *)
(* three phases of which only the first and the last are transactions      *)
(* (execute_operation), while the runner repeats a request the server was  *)
(* too busy for, gives up one that takes too long, and tells the model     *)
(* what it heard (teamToolExecutor).                                       *)
(***************************************************************************)
EXTENDS Naturals

CONSTANTS MaxRetries, \* CONTENTION_RETRIES of the transport
          MaxFaults   \* busy answers, lost requests, server deaths

Bounds == {MaxRetries, MaxFaults} \subseteq Nat

VARIABLES attempt,  \* the attempt at the server
          op,       \* AgentOperation with its approval and server_receipt
          done,     \* how often the action has been performed
          work,     \* the server process between the phases
          request,  \* the request the runner waits for
          late,     \* a request it gave up is still on its way
          tool,     \* the tool call in the runtime
          faults

vars == <<attempt, op, done, work, request, late, tool, faults>>

Live == attempt = "live"
Fault == faults < MaxFaults /\ faults' = faults + 1
Answer(reply) == request' = IF request = "in" THEN reply ELSE request

(***************************************************************************)
(* The approval and the end of the attempt.                                *)
(***************************************************************************)
Cancelled(row) ==
  IF row.approval \in {"pending", "approved"} THEN [row EXCEPT !.approval = "cancelled"] ELSE row

Decide(decision) ==
  /\ Live /\ op.approval = "pending"
  /\ op' = [op EXCEPT !.approval = decision]
  /\ attempt' = IF decision = "approved" THEN attempt ELSE "stopping"
  /\ UNCHANGED <<done, work, request, late, tool, faults>>

RequestStop ==
  /\ Live
  /\ attempt' = "stopping"
  /\ op' = Cancelled(op)
  /\ UNCHANGED <<done, work, request, late, tool, faults>>

\* Mutant: a started operation is left as it is.
AttemptStoppedKeepsStarted ==
  /\ attempt = "stopping"
  /\ attempt' = "stopped"
  /\ op' = Cancelled(op)
  /\ tool' = IF tool.heard = "nothing" THEN [tool EXCEPT !.heard = "ended"] ELSE tool
  /\ request' = "none"
  /\ late' = (late \/ request = "out")
  /\ UNCHANGED <<done, work, faults>>

(* The runner retires the session before it sends attempt.stopped.         *)
AttemptStopped ==
  /\ attempt = "stopping"
  /\ attempt' = "stopped"
  /\ op' = IF op.status = "started" THEN [op EXCEPT !.status = "outcome_unknown"]
                                    ELSE Cancelled(op)
  /\ tool' = IF tool.heard = "nothing" THEN [tool EXCEPT !.heard = "ended"] ELSE tool
  /\ request' = "none"
  /\ late' = (late \/ request = "out")
  /\ UNCHANGED <<done, work, faults>>

(***************************************************************************)
(* The server: phase 1 consumes, phase 2 acts, phase 3 records.            *)
(***************************************************************************)
Consumable == \/ op.status = "authorized"
              \/ op.status = "proposed" /\ op.approval = "approved"

\* Mutant: the consumption is recorded with the receipt.
StartLater == UNCHANGED op

Start == op' = [op EXCEPT !.status = "started",
                          !.approval = IF @ = "none" THEN @ ELSE "consumed"]

Enters == \/ request = "out" /\ UNCHANGED late
          \/ late /\ late' = FALSE
Reply(r) == request' = IF late = late' THEN r ELSE request

Phase1 ==
  /\ Enters
  /\ IF Live /\ op.receipt = "none" /\ op.status # "started" /\ Consumable
       THEN Start /\ work' = "act" /\ Reply("in")
       ELSE /\ Reply(IF ~Live THEN "refused"
                     ELSE IF op.receipt # "none" THEN op.receipt
                     ELSE IF op.status = "started" THEN "unknown" ELSE "refused")
            /\ UNCHANGED <<op, work>>
  /\ UNCHANGED <<attempt, done, tool, faults>>

Phase1Busy ==
  /\ Enters
  /\ Fault
  /\ Reply("busy")
  /\ UNCHANGED <<attempt, op, done, work, tool>>

(* A permission failure becomes a failed receipt.                           *)
Phase2 ==
  /\ work = "act"
  /\ \/ done' = done + 1 /\ work' = "succeeded"
     \/ UNCHANGED done /\ work' = "failed"
  /\ UNCHANGED <<attempt, op, request, late, tool, faults>>

(* The commander is no longer active: nothing is done, nothing is recorded. *)
Phase2Raises ==
  /\ work = "act"
  /\ Fault
  /\ work' = "none"
  /\ Answer("refused")
  /\ UNCHANGED <<attempt, op, done, late, tool>>

\* Mutant: an operation whose attempt is over keeps its state.
RecordIfStarted ==
  op' = IF op.status = "started" THEN [op EXCEPT !.receipt = work, !.status = work]
                                 ELSE [op EXCEPT !.receipt = work]

Record == op' = IF op.receipt = "none" THEN [op EXCEPT !.receipt = work, !.status = work] ELSE op

Phase3 ==
  /\ work \in {"succeeded", "failed"}
  /\ Record
  /\ work' = "none"
  /\ Answer(op'.receipt)
  /\ UNCHANGED <<attempt, done, late, tool, faults>>

(* Busy to the last retry: the receipt of phase 2 is lost.                  *)
Phase3Busy ==
  /\ work \in {"succeeded", "failed"}
  /\ Fault
  /\ work' = "none"
  /\ Answer("busy")
  /\ UNCHANGED <<attempt, op, done, late, tool>>

ServerDies ==
  /\ work # "none"
  /\ Fault
  /\ work' = "none"
  /\ Answer("error")
  /\ UNCHANGED <<attempt, op, done, late, tool>>

(***************************************************************************)
(* The runner.                                                             *)
(***************************************************************************)
Tell(heard) == tool' = [tool EXCEPT !.heard = heard]

(* The decision is read before the request is sent, and may be stale.       *)
SeeApproval ==
  /\ tool.pc = "waiting" /\ tool.heard = "nothing" /\ op.approval \in {"none", "approved"}
  /\ tool' = [tool EXCEPT !.pc = "allowed"]
  /\ UNCHANGED <<attempt, op, done, work, request, late, faults>>

HearDecision ==
  /\ tool.pc = "waiting" /\ tool.heard = "nothing"
  /\ op.approval \in {"rejected", "cancelled"}
  /\ Tell("failed")
  /\ UNCHANGED <<attempt, op, done, work, request, late, faults>>

SendExecute ==
  /\ tool.pc = "allowed" /\ tool.heard = "nothing"
  /\ tool' = [tool EXCEPT !.pc = "sent"]
  /\ request' = "out"
  /\ UNCHANGED <<attempt, op, done, work, late, faults>>

\* Mutant: every answer but a receipt is a failure to the model.
HearUnknownAsFailed ==
  /\ request \in {"succeeded", "failed", "unknown"}
  /\ Tell(IF request = "unknown" THEN "failed" ELSE request)
  /\ request' = "none"
  /\ UNCHANGED <<attempt, op, done, work, late, faults>>

Hear ==
  /\ request \in {"succeeded", "failed", "unknown"}
  /\ Tell(request)
  /\ request' = "none"
  /\ UNCHANGED <<attempt, op, done, work, late, faults>>

HearError ==
  /\ \/ request \in {"refused", "error"}
     \/ request = "busy" /\ tool.tries = MaxRetries
  /\ Tell("error")
  /\ request' = "none"
  /\ UNCHANGED <<attempt, op, done, work, late, faults>>

(* request() repeats a request the server was busy for.                     *)
Retry ==
  /\ request = "busy" /\ tool.tries < MaxRetries
  /\ tool' = [tool EXCEPT !.tries = @ + 1]
  /\ request' = "out"
  /\ UNCHANGED <<attempt, op, done, work, late, faults>>

(* After 25 seconds; the journal entry stays uncertain and is not resent.   *)
Timeout ==
  /\ request # "none"
  /\ Fault
  /\ Tell("error")
  /\ request' = "none"
  /\ late' \in {late, late \/ request = "out"}
  /\ UNCHANGED <<attempt, op, done, work>>

Init ==
  /\ attempt = "live"
  /\ op \in {[status |-> "authorized", approval |-> "none", receipt |-> "none"],
             [status |-> "proposed", approval |-> "pending", receipt |-> "none"]}
  /\ done = 0
  /\ work = "none"
  /\ request = "none"
  /\ late = FALSE
  /\ tool = [pc |-> "waiting", tries |-> 0, heard |-> "nothing"]
  /\ faults = 0

Server == Phase1 \/ Phase2 \/ Phase3
Runner == SeeApproval \/ HearDecision \/ SendExecute \/ Hear \/ HearError \/ Retry

Next ==
  \/ RequestStop \/ AttemptStopped \/ \E d \in {"approved", "rejected"} : Decide(d)
  \/ Server \/ Phase1Busy \/ Phase2Raises \/ Phase3Busy \/ ServerDies
  \/ Runner \/ Timeout

(* The lease and the time budget end every attempt.                         *)
Fairness == WF_vars(Server) /\ WF_vars(Runner) /\ WF_vars(RequestStop) /\ WF_vars(AttemptStopped)

Spec == Init /\ [][Next]_vars /\ Fairness

(***************************************************************************)
(* Properties.                                                             *)
(***************************************************************************)
(* The variables keep their shapes, and the action is performed at most     *)
(* once, whatever is repeated (phase 1 of execute_operation).               *)
TypeOK ==
  /\ attempt \in {"live", "stopping", "stopped"}
  /\ op.status \in {"proposed", "authorized", "started", "succeeded", "failed", "outcome_unknown"}
  /\ op.approval \in {"none", "pending", "approved", "rejected", "cancelled", "consumed"}
  /\ op.receipt \in {"none", "succeeded", "failed"}
  /\ work \in {"none", "act", "succeeded", "failed"}
  /\ request \in {"none", "out", "in", "busy", "refused", "error", "unknown", "succeeded", "failed"}
  /\ tool.tries \in 0..MaxRetries /\ faults \in 0..MaxFaults
  /\ done \in 0..1

(* The reply of a manage task lists the receipts and the steps whose        *)
(* outcome is unknown: it "never claims a step that did not happen and      *)
(* never hides one that may have" (team_manage_result_lines).               *)
Listed == op.receipt # "none" \/ op.status \in {"started", "outcome_unknown"}
ReplyTruthful ==
  /\ op.receipt = "succeeded" => done = 1
  /\ op.receipt = "failed" => done = 0
  /\ done = 1 => Listed

(* The model is told of success only when the action was performed and of   *)
(* failure only when it was not and never will be (teamToolExecutor).       *)
HeardTruthful ==
  /\ tool.heard = "succeeded" => done = 1
  /\ tool.heard = "failed" => done = 0 /\ work # "act" /\ op.receipt # "succeeded"

(* The recorded outcome is the receipt's, also when the attempt ended first *)
(* and the operation was already outcome_unknown (_store_team_receipt).     *)
StatusFollowsReceipt == op.receipt # "none" => op.status = op.receipt

(* What the model, the ledger and the reply say of an action is so, through *)
(* lost answers, repeats, failures and the end of the attempt               *)
(* (execute_operation, teamToolExecutor, team_manage_result_lines).         *)
OutcomeTruthful == ReplyTruthful /\ HeardTruthful /\ StatusFollowsReceipt

(* An operation that was started does not stay started.                     *)
StartedIsResolved == op.status = "started" ~> op.status # "started"

(* "A busy server rejects the request before it commits anything."          *)
BusyCommitsNothing == request = "busy" => op.status # "started"
=============================================================================
