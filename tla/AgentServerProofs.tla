-------------------------- MODULE AgentServerProofs --------------------------
(***************************************************************************)
(* Theorems about AgentServer, for every set of tasks, devices, operations *)
(* and publishers and every value of the limits.                           *)
(*                                                                         *)
(* First the rows: which updates of a row give a row again.  Then one      *)
(* lemma per group of actions, with one step per action and under it one   *)
(* step per part of TypeOK the action can disturb.  Then who holds a task, *)
(* how many tasks are held, that nothing revives an attempt, and that no   *)
(* approval stays open after its attempt.                                  *)
(*                                                                         *)
(* Next what is published: once, by the newest attempt, when its task is   *)
(* settled, and for good; that the server so implements ContainmentPromise *)
(* (a claim takes the task, the end of an attempt releases it, a commit    *)
(* hands its result in); and that a pass leaves the rows it parked alone.  *)
(*                                                                         *)
(* Last what a task is owed: the work handed to an attempt stays with it,  *)
(* its status says what its processes do, approvals decide, and what is    *)
(* delivered was checked.  Each of these is an invariant of one task       *)
(* alone, and a step of the server is about one task or leaves it as it is.*)
(***************************************************************************)
EXTENDS AgentServer, FiniteSetTheorems, TLAPS

USE DEF jobVars, resultVars, attemptVars, inputVars, workVars, envVars, pubVars

-----------------------------------------------------------------------------
(* Rows *)

\* The null values are rows (AgentRecords).
LEMMA NullRows == NoProposal \in Proposal /\ NoAttempt \in AttemptRow /\ Idle \in PubRow
BY ConstantsAssumption
DEF NoProposal, Proposal, TreeHash, NoAttempt, AttemptRow, ProcessState, Idle, PubRow, Raised

\* What the handlers write into an AgentAttempt (request_stop, record_event, heartbeat).
LEMMA AttemptRows ==
  ASSUME NEW r \in AttemptRow
  PROVE  /\ \A q \in ProcessState : [r EXCEPT !.proc = q] \in AttemptRow
         /\ [r EXCEPT !.proc = "stopping", !.stopRow = TRUE] \in AttemptRow
         /\ [r EXCEPT !.prepared = TRUE] \in AttemptRow
         /\ \A l \in 0..LeaseTicks : [r EXCEPT !.lease = l] \in AttemptRow
         /\ \A l \in 0..LeaseTicks, b \in 0..Budget :
              [r EXCEPT !.lease = l, !.budget = b] \in AttemptRow
<1>1. \A q \in ProcessState : [r EXCEPT !.proc = q] \in AttemptRow
  BY DEF AttemptRow
<1>2. [r EXCEPT !.proc = "stopping", !.stopRow = TRUE] \in AttemptRow
  <2>1. \A s \in AttemptRow : [s EXCEPT !.stopRow = TRUE] \in AttemptRow
    BY DEF AttemptRow
  <2>2. [r EXCEPT !.proc = "stopping"] \in AttemptRow
    BY <1>1 DEF ProcessState
  <2>3. [r EXCEPT !.proc = "stopping", !.stopRow = TRUE] =
        [[r EXCEPT !.proc = "stopping"] EXCEPT !.stopRow = TRUE]
    OBVIOUS
  <2> QED BY <2>1, <2>2, <2>3
<1>3. [r EXCEPT !.prepared = TRUE] \in AttemptRow
  BY DEF AttemptRow
<1>4. \A l \in 0..LeaseTicks : [r EXCEPT !.lease = l] \in AttemptRow
  BY DEF AttemptRow
<1>5. \A l \in 0..LeaseTicks, b \in 0..Budget :
        [r EXCEPT !.lease = l, !.budget = b] \in AttemptRow
  BY DEF AttemptRow
<1> QED BY <1>1, <1>2, <1>3, <1>4, <1>5

\* What the handlers write into one AgentOperation and its approval.
LEMMA OpRows ==
  ASSUME NEW r \in OpRow
  PROVE  /\ \A q \in OpState : [r EXCEPT !.state = q] \in OpRow
         /\ \A q \in ApprovalState : [r EXCEPT !.approval = q] \in OpRow
         /\ \A q \in OpState, c \in ApprovalState :
              [r EXCEPT !.state = q, !.approval = c] \in OpRow
BY DEF OpRow

\* invalidate_approvals and the loss of containment keep a ledger of operations.
LEMMA Ledger ==
  ASSUME NEW ops \in [Op -> OpRow], NEW n
  PROVE  /\ InvalidateApprovals(ops, n) \in [Op -> OpRow]
         /\ OrphanOps(ops, n) \in [Op -> OpRow]
<1>1. InvalidateApprovals(ops, n) \in [Op -> OpRow]
  BY Zenon, OpRows DEF InvalidateApprovals, ApprovalState
<1>2. OrphanOps(ops, n) \in [Op -> OpRow]
  BY <1>1, OpRows DEF OrphanOps, OpState
<1> QED BY SMTT(30), <1>1, <1>2

\* What the handlers write into the inputs of a task.
LEMMA Deliveries ==
  ASSUME NEW ins \in [Inputs -> InputRow]
  PROVE  /\ \A n : OrphanInputs(ins, n) \in [Inputs -> InputRow]
         /\ \A s \in Inputs, q \in InputState : [ins[s] EXCEPT !.state = q] \in InputRow
         /\ \A s \in Inputs, n \in Attempts :
              [ins[s] EXCEPT !.state = "delivered", !.to = n] \in InputRow
<1>1. \A n : OrphanInputs(ins, n) \in [Inputs -> InputRow]
  BY DEF OrphanInputs, InputRow, InputState
<1>2. \A s \in Inputs, q \in InputState : [ins[s] EXCEPT !.state = q] \in InputRow
  BY DEF InputRow
<1>3. \A s \in Inputs, n \in Attempts :
        [ins[s] EXCEPT !.state = "delivered", !.to = n] \in InputRow
  <2>1. \A r \in InputRow, n \in Attempts : [r EXCEPT !.to = n] \in InputRow
    BY ConstantsAssumption DEF InputRow, Attempts
  <2>2. \A s \in Inputs : [ins[s] EXCEPT !.state = "delivered"] \in InputRow
    BY <1>2 DEF InputState
  <2>3. \A s \in Inputs, n \in Attempts :
          [ins[s] EXCEPT !.state = "delivered", !.to = n] =
          [[ins[s] EXCEPT !.state = "delivered"] EXCEPT !.to = n]
    BY DEF InputRow
  <2> QED BY <2>1, <2>2, <2>3
<1> QED BY <1>1, <1>2, <1>3

\* A check that an edit outdates is a check still (verify_result).
LEMMA Checks == \A v \in Verification : [v EXCEPT !.fresh = FALSE] \in Verification
BY DEF Verification

\* How a publisher goes on.
LEMMA PubRows ==
  ASSUME NEW r \in PubRow
  PROVE  /\ \A l \in {"read", "commit", "block", "finish"}, e \in Raised :
              [r EXCEPT !.pc = l, !.raised = e] \in PubRow
         /\ \A q \in Proposal : [r EXCEPT !.pc = "commit", !.seen = q] \in PubRow
         /\ \A S \in SUBSET Job : [r EXCEPT !.todo = S] \in PubRow
         /\ \A S \in SUBSET Job : [r EXCEPT !.pc = "listed", !.todo = S] \in PubRow
         /\ \A j \in Job : [r EXCEPT !.pc = "read", !.job = j] \in PubRow
BY DEF PubRow

\* The number of acknowledged inputs (result.prepared records it in covers).
LEMMA Acknowledged ==
  ASSUME InputTypes, NEW j \in Job
  PROVE  sequence[j] - Cardinality(Unapplied(j)) \in 0..MaxInputs
<1>1. sequence[j] \in 0..MaxInputs
  BY DEF InputTypes
<1>2. IsFiniteSet(1..sequence[j]) /\ Cardinality(1..sequence[j]) = sequence[j]
  BY <1>1, FS_Interval
<1>3. Unapplied(j) \subseteq 1..sequence[j]
  BY DEF Unapplied
<1>4. Cardinality(Unapplied(j)) \in 0..sequence[j]
  BY <1>2, <1>3, FS_Subset, FS_CardinalityType
<1> QED BY <1>1, <1>4, ConstantsAssumption

\* A publisher whose row is replaced by a well-formed one leaves the publishers well formed.
LEMMA Continues ==
  ASSUME PubTypes, NEW p \in Publisher, NEW r \in PubRow, hooks' \in SUBSET Job,
         r.pc \notin {"idle", "listed"} => r.job \in Job,
         r.pc = "block" => r.raised # "none",
         pub' = [pub EXCEPT ![p] = r]
  PROVE  PubTypes'
BY DEF PubTypes

\* A publication that failed, or is over, keeps the task it works on.
LEMMA Returns ==
  ASSUME PubTypes, NEW p \in Publisher, pub[p].job \in Job, hooks' = hooks,
         NEW e \in Raised,
         (e # "none" /\ Goto(p, "block", e)) \/ Return(p, e)
  PROVE  PubTypes'
<1> hooks' \in SUBSET Job
  BY DEF PubTypes
<1>1. pub[p] \in PubRow
  BY DEF PubTypes
<1>2. CASE e # "none" /\ Goto(p, "block", e)
  <2>1. pub' = [pub EXCEPT ![p] = [pub[p] EXCEPT !.pc = "block", !.raised = e]]
    BY <1>2 DEF Goto, PubTypes
  <2>2. [pub[p] EXCEPT !.pc = "block", !.raised = e] \in PubRow
    BY <1>1, PubRows
  <2>3. /\ [pub[p] EXCEPT !.pc = "block", !.raised = e].job = pub[p].job
        /\ [pub[p] EXCEPT !.pc = "block", !.raised = e].raised = e
    BY <1>1 DEF PubRow
  <2> QED BY <1>2, <2>1, <2>2, <2>3, Continues
<1>3. CASE Return(p, e) /\ p \in Hook
  <2>1. pub' = [pub EXCEPT ![p] = Idle]
    BY <1>3 DEF Return
  <2>2. Idle.pc = "idle"
    BY DEF Idle
  <2> QED BY <2>1, <2>2, NullRows, Continues
<1>4. CASE Return(p, e) /\ p \notin Hook
  <2>1. pub' = [pub EXCEPT ![p] = [pub[p] EXCEPT !.pc = "finish", !.raised = e]]
    BY <1>4 DEF Return, PubTypes
  <2>2. [pub[p] EXCEPT !.pc = "finish", !.raised = e] \in PubRow
    BY <1>1, PubRows
  <2>3. /\ [pub[p] EXCEPT !.pc = "finish", !.raised = e].job = pub[p].job
        /\ [pub[p] EXCEPT !.pc = "finish", !.raised = e].pc = "finish"
    BY <1>1 DEF PubRow
  <2> QED BY <2>1, <2>2, <2>3, Continues
<1> QED BY <1>2, <1>3, <1>4

\* An attempt whose row is replaced by a well-formed one leaves the attempts well formed.
LEMMA Replaced ==
  ASSUME AttemptTypes, NEW j \in Job, NEW n \in Attempts, NEW r \in AttemptRow,
         last' = last, attempt' = [attempt EXCEPT ![j][n] = r]
  PROVE  AttemptTypes'
BY DEF AttemptTypes

\* request_stop writes a well-formed attempt, or nothing for an attempt there is not.
LEMMA Stopping ==
  ASSUME AttemptTypes, NEW j \in Job, NEW n, last' = last,
         attempt' = [attempt EXCEPT ![j][n].proc = "stopping", ![j][n].stopRow = TRUE]
  PROVE  AttemptTypes'
<1>1. CASE n \in Attempts
  <2> DEFINE row == [attempt[j][n] EXCEPT !.proc = "stopping", !.stopRow = TRUE]
  <2>1. row \in AttemptRow
    BY <1>1, AttemptRows DEF AttemptTypes
  <2>2. attempt' = [attempt EXCEPT ![j][n] = row]
    BY <1>1 DEF AttemptTypes
  <2> HIDE DEF row
  <2> QED BY <1>1, <2>1, <2>2, Replaced
<1>2. CASE n \notin Attempts
  <2>1. attempt' = attempt
    BY <1>2 DEF AttemptTypes
  <2> QED BY <2>1 DEF AttemptTypes
<1> QED BY <1>1, <1>2

\* A part of the records nobody writes keeps its type.
LEMMA Untouched ==
  /\ JobTypes /\ UNCHANGED jobVars => JobTypes'
  /\ ResultTypes /\ UNCHANGED resultVars => ResultTypes'
  /\ AttemptTypes /\ UNCHANGED attemptVars => AttemptTypes'
  /\ InputTypes /\ UNCHANGED inputVars => InputTypes'
  /\ WorkTypes /\ UNCHANGED workVars => WorkTypes'
  /\ EnvTypes /\ UNCHANGED envVars => EnvTypes'
  /\ PubTypes /\ UNCHANGED pubVars => PubTypes'
<1>1. JobTypes /\ UNCHANGED jobVars => JobTypes'
  BY DEF JobTypes
<1>2. ResultTypes /\ UNCHANGED resultVars => ResultTypes'
  BY DEF ResultTypes
<1>3. AttemptTypes /\ UNCHANGED attemptVars => AttemptTypes'
  BY DEF AttemptTypes
<1>4. InputTypes /\ UNCHANGED inputVars => InputTypes'
  BY DEF InputTypes
<1>5. WorkTypes /\ UNCHANGED workVars => WorkTypes'
  BY DEF WorkTypes
<1>6. EnvTypes /\ UNCHANGED envVars => EnvTypes'
  BY DEF EnvTypes
<1>7. PubTypes /\ UNCHANGED pubVars => PubTypes'
  BY DEF PubTypes
<1> QED BY <1>1, <1>2, <1>3, <1>4, <1>5, <1>6, <1>7

-----------------------------------------------------------------------------
(* Type correctness *)

\* The empty records are well formed.
LEMMA TypeInit == Init => TypeOK
<1> SUFFICES ASSUME Init PROVE TypeOK
  OBVIOUS
<1>1. JobTypes
  <2>1. /\ status = [j \in Job |-> "absent"] /\ reason = [j \in Job |-> ""]
        /\ stopTarget = [j \in Job |-> "cancelled"]
        /\ configured = [j \in Job |-> FALSE]
    BY DEF Init
  <2> QED BY <2>1 DEF JobTypes, JobState, EXECUTING, TERMINAL, Reason
<1>2. ResultTypes
  <2>1. /\ proposal = [j \in Job |-> NoProposal] /\ covers = [j \in Job |-> 0]
        /\ receipt = [j \in Job |-> 0] /\ resultRow = [j \in Job |-> "none"]
    BY DEF Init
  <2> QED BY <2>1, NullRows, ConstantsAssumption DEF ResultTypes, RowState
<1>3. AttemptTypes
  <2>1. /\ last = [j \in Job |-> 0]
        /\ attempt = [j \in Job |-> [n \in Attempts |-> NoAttempt]]
    BY DEF Init
  <2> QED BY <2>1, NullRows, ConstantsAssumption DEF AttemptTypes
<1>4. InputTypes
  <2>1. /\ sequence = [j \in Job |-> 0]
        /\ input = [j \in Job |-> [s \in Inputs |-> NoInput]]
    BY DEF Init
  <2>2. NoInput \in InputRow
    BY ConstantsAssumption DEF NoInput, InputRow, InputState
  <2> QED BY <2>1, <2>2, ConstantsAssumption DEF InputTypes
<1>5. WorkTypes
  <2>1. /\ op = [j \in Job |-> [k \in Op |-> NoOp]] /\ tree = [j \in Job |-> NoTree]
        /\ verified = [j \in Job |-> {}]
    BY DEF Init
  <2>2. NoOp \in OpRow /\ NoTree \in TreeHash
    BY ConstantsAssumption DEF NoOp, OpRow, OpState, ApprovalState, TreeHash
  <2> QED BY <2>1, <2>2 DEF WorkTypes
<1>6. EnvTypes
  <2>1. revoked = {} /\ access = [j \in Job |-> "granted"] /\ faults = 0
    BY DEF Init
  <2> QED BY <2>1, ConstantsAssumption DEF EnvTypes, Access
<1>7. PubTypes
  <2>1. hooks = {} /\ pub = [p \in Publisher |-> Idle]
    BY DEF Init
  <2>2. Idle.pc = "idle"
    BY DEF Idle
  <2> QED BY <2>1, <2>2, NullRows DEF PubTypes
<1> QED BY <1>1, <1>2, <1>3, <1>4, <1>5, <1>6, <1>7 DEF TypeOK

\* What people do keeps the records well formed (create_job to resume_job,
\* deliver_result_privately, changes of access).
LEMMA OwnerTypes ==
  ASSUME TypeOK, NEW j \in Job,
         OwnerStep(j)
  PROVE  TypeOK'
<1> USE DEF TypeOK
<1>1. CASE CreateQueued(j)
  <2>1. JobTypes'
    BY <1>1 DEF CreateQueued, transition, JobTypes, JobState, EXECUTING, TERMINAL, Reason
  <2>2. ResultTypes' /\ AttemptTypes' /\ InputTypes' /\ WorkTypes' /\ EnvTypes' /\ PubTypes'
    BY <1>1, Untouched DEF CreateQueued, transition
  <2> QED BY <2>1, <2>2
<1>2. CASE CreateBlocked(j)
  <2>1. JobTypes'
    BY <1>2 DEF CreateBlocked, transition, JobTypes, JobState, EXECUTING, TERMINAL, Reason
  <2>2. ResultTypes' /\ AttemptTypes' /\ InputTypes' /\ WorkTypes' /\ EnvTypes' /\ PubTypes'
    BY <1>2, Untouched DEF CreateBlocked, transition
  <2> QED BY <2>1, <2>2
<1>3. CASE CreateDraft(j)
  <2>1. JobTypes'
    BY <1>3, ZenonT(60) DEF CreateDraft, transition, JobTypes, JobState, EXECUTING, TERMINAL, Reason
  <2>2. ResultTypes' /\ AttemptTypes' /\ InputTypes' /\ WorkTypes' /\ EnvTypes' /\ PubTypes'
    BY <1>3, Untouched DEF CreateDraft, transition
  <2> QED BY <2>1, <2>2
<1>4. CASE CompleteDraft(j)
  <2>1. JobTypes'
    BY <1>4 DEF CompleteDraft, transition, JobTypes, JobState, EXECUTING, TERMINAL, Reason
  <2>2. ResultTypes' /\ AttemptTypes' /\ InputTypes' /\ WorkTypes' /\ EnvTypes' /\ PubTypes'
    BY <1>4, Untouched DEF CompleteDraft, transition
  <2> QED BY <2>1, <2>2
<1>5. CASE CancelJob(j)
  <2>1. JobTypes'
    BY <1>5 DEF CancelJob, transition, StopAttempt, ActiveAttempts, JobTypes, JobState,
      EXECUTING, TERMINAL, Reason
  <2>2. AttemptTypes'
    <3>1. CASE attempt' = attempt
      BY <1>5, <3>1 DEF CancelJob, AttemptTypes
    <3>2. ASSUME NEW n \in Attempts, StopAttempt(j, n, "cancelled", "") PROVE AttemptTypes'
      BY <1>5, <3>2, Stopping DEF CancelJob, StopAttempt
    <3> QED BY <1>5, <3>1, <3>2 DEF CancelJob, ActiveAttempts
  <2>3. WorkTypes'
    <3>1. tree' = tree /\ verified' = verified
      BY <1>5 DEF CancelJob
    <3>2. CASE op' = op
      BY <3>1, <3>2 DEF WorkTypes
    <3>3. ASSUME NEW n, op' = [op EXCEPT ![j] = InvalidateApprovals(op[j], n)]
          PROVE  WorkTypes'
      BY <3>1, <3>3, Ledger DEF WorkTypes
    <3> QED BY <1>5, <3>2, <3>3 DEF CancelJob, StopAttempt
  <2>4. ResultTypes' /\ InputTypes' /\ EnvTypes' /\ PubTypes'
    BY <1>5, Untouched DEF CancelJob, transition, StopAttempt, ActiveAttempts
  <2> QED BY <2>1, <2>2, <2>3, <2>4
<1>6. CASE AddInput(j)
  <2>1. JobTypes'
    BY <1>6 DEF AddInput, JobTypes, JobState, EXECUTING, TERMINAL, Reason
  <2>2. ResultTypes'
    BY <1>6, NullRows DEF AddInput, ResultTypes
  <2>3. InputTypes'
    BY <1>6, ConstantsAssumption DEF AddInput, InputTypes
  <2>4. WorkTypes'
    BY <1>6, Ledger DEF AddInput, WorkTypes, ActiveAttempts
  <2>5. AttemptTypes' /\ EnvTypes' /\ PubTypes'
    BY <1>6, Untouched DEF AddInput
  <2> QED BY <2>1, <2>2, <2>3, <2>4, <2>5
<1>7. CASE ResumeJob(j)
  <2>1. JobTypes'
    BY <1>7 DEF ResumeJob, transition, JobTypes, JobState, EXECUTING, TERMINAL, Reason
  <2>2. ResultTypes'
    BY <1>7, NullRows DEF ResumeJob, ResultTypes
  <2>3. AttemptTypes' /\ InputTypes' /\ WorkTypes' /\ EnvTypes' /\ PubTypes'
    BY <1>7, Untouched DEF ResumeJob, transition
  <2> QED BY <2>1, <2>2, <2>3
<1>8. CASE DeliverPrivately(j)
  <2>1. JobTypes'
    BY <1>8 DEF DeliverPrivately, transition, Publish, JobTypes, JobState, EXECUTING,
      TERMINAL, Reason
  <2>2. ResultTypes'
    <3>1. /\ receipt' = [receipt EXCEPT ![j] = last[j]]
          /\ resultRow' = [resultRow EXCEPT ![j] = "delivered"]
          /\ UNCHANGED <<proposal, covers>>
      BY <1>8 DEF DeliverPrivately, Publish
    <3> QED BY <3>1, ConstantsAssumption DEF ResultTypes, AttemptTypes, RowState
  <2>3. AttemptTypes' /\ InputTypes' /\ WorkTypes' /\ EnvTypes' /\ PubTypes'
    BY <1>8, Untouched DEF DeliverPrivately, transition, Publish
  <2> QED BY <2>1, <2>2, <2>3
<1>9. CASE AccessChange(j)
  <2>1. EnvTypes'
    BY <1>9, ConstantsAssumption DEF AccessChange, EnvTypes, Access
  <2>2. JobTypes' /\ ResultTypes' /\ AttemptTypes' /\ InputTypes' /\ WorkTypes' /\ PubTypes'
    BY <1>9, Untouched DEF AccessChange
  <2> QED BY <2>1, <2>2
<1> QED BY <1>1, <1>2, <1>3, <1>4, <1>5, <1>6, <1>7, <1>8, <1>9 DEF OwnerStep

\* What a device sends keeps the records well formed (record_event, heartbeat,
\* controls, deliver_inputs, reconcile_input, save_checkpoint).
LEMMA DeviceTypes ==
  ASSUME TypeOK, NEW j \in Job, NEW n \in Attempts,
         DeviceStep(j, n)
  PROVE  TypeOK'
<1> USE DEF TypeOK
<1>1. ASSUME NEW t \in Tree, WorkspacePrepared(j, n, t) PROVE TypeOK'
  <2>1. AttemptTypes'
    BY <1>1, AttemptRows DEF WorkspacePrepared, AttemptTypes
  <2>2. WorkTypes'
    BY <1>1 DEF WorkspacePrepared, WorkTypes, OpRow, OpState, ApprovalState, TreeHash,
      Verification
  <2>3. JobTypes' /\ ResultTypes' /\ InputTypes' /\ EnvTypes' /\ PubTypes'
    BY <1>1, Untouched DEF WorkspacePrepared
  <2> QED BY <2>1, <2>2, <2>3
<1>2. ASSUME NEW t \in Tree, SaveCheckpoint(j, n, t) PROVE TypeOK'
  <2>1. WorkTypes'
    BY <1>2 DEF SaveCheckpoint, WorkTypes, OpRow, OpState, ApprovalState, TreeHash,
      Verification
  <2>2. JobTypes' /\ ResultTypes' /\ AttemptTypes' /\ InputTypes' /\ EnvTypes' /\ PubTypes'
    BY <1>2, Untouched DEF SaveCheckpoint
  <2> QED BY <2>1, <2>2
<1>3. CASE AttemptStarted(j, n)
  <2>1. AttemptTypes'
    BY <1>3, AttemptRows DEF AttemptStarted, AttemptTypes, ProcessState
  <2>2. JobTypes' /\ ResultTypes' /\ InputTypes' /\ WorkTypes' /\ EnvTypes' /\ PubTypes'
    BY <1>3, Untouched DEF AttemptStarted
  <2> QED BY <2>1, <2>2
<1>4. CASE AttemptInterrupted(j, n)
  <2>1. JobTypes'
    BY <1>4 DEF AttemptInterrupted, transition, JobTypes, JobState, EXECUTING, TERMINAL,
      Reason
  <2>2. AttemptTypes'
    BY <1>4, AttemptRows DEF AttemptInterrupted, AttemptTypes, ProcessState
  <2>3. InputTypes'
    BY <1>4, Deliveries DEF AttemptInterrupted, InputTypes
  <2>4. WorkTypes'
    BY <1>4, Ledger DEF AttemptInterrupted, WorkTypes
  <2>5. ResultTypes' /\ EnvTypes' /\ PubTypes'
    BY <1>4, Untouched DEF AttemptInterrupted, transition
  <2> QED BY <2>1, <2>2, <2>3, <2>4, <2>5
<1>5. CASE AttemptStopped(j, n)
  <2>1. JobTypes'
    <3>1. UNCHANGED <<stopTarget, configured>>
      BY <1>5 DEF AttemptStopped
    <3>2. \/ UNCHANGED <<status, reason>>
          \/ /\ status' = [status EXCEPT ![j] = stopTarget[j]]
             /\ reason' = [reason EXCEPT ![j] = reason[j]]
          \/ /\ status' = [status EXCEPT ![j] = "interrupted"]
             /\ reason' = [reason EXCEPT ![j] = "runtime_stopped"]
      BY <1>5 DEF AttemptStopped, transition
    <3>3. /\ stopTarget[j] \in JobState /\ reason[j] \in Reason
          /\ "interrupted" \in JobState /\ "runtime_stopped" \in Reason
      BY DEF JobTypes, JobState, TERMINAL, Reason
    <3> QED BY <3>1, <3>2, <3>3 DEF JobTypes
  <2>2. AttemptTypes'
    BY <1>5, NullRows DEF AttemptStopped, AttemptTypes
  <2>3. InputTypes'
    BY <1>5, Deliveries DEF AttemptStopped, InputTypes
  <2>4. WorkTypes'
    BY <1>5, Ledger DEF AttemptStopped, WorkTypes
  <2>5. PubTypes'
    BY <1>5 DEF AttemptStopped, transition, PubTypes, PubRow, Idle, NoProposal, Proposal,
      TreeHash, Raised, Publisher
  <2>6. ResultTypes' /\ EnvTypes'
    BY <1>5, Untouched DEF AttemptStopped, transition
  <2> QED BY <2>1, <2>2, <2>3, <2>4, <2>5, <2>6
<1>6. CASE InputRequested(j, n)
  <2>1. JobTypes'
    BY <1>6 DEF InputRequested, transition, JobTypes, JobState, EXECUTING, TERMINAL, Reason
  <2>2. ResultTypes' /\ AttemptTypes' /\ InputTypes' /\ WorkTypes' /\ EnvTypes' /\ PubTypes'
    BY <1>6, Untouched DEF InputRequested, transition
  <2> QED BY <2>1, <2>2
<1>7. CASE EmptyResult(j, n)
  <2>1. JobTypes'
    BY <1>7 DEF EmptyResult, transition, JobTypes, JobState, EXECUTING, TERMINAL, Reason
  <2>2. ResultTypes' /\ AttemptTypes' /\ InputTypes' /\ WorkTypes' /\ EnvTypes' /\ PubTypes'
    BY <1>7, Untouched DEF EmptyResult, transition
  <2> QED BY <2>1, <2>2
<1>8. ASSUME NEW r \in Result, NEW u \in TreeHash, ResultPrepared(j, n, r, u) PROVE TypeOK'
  <2>1. JobTypes'
    BY <1>8 DEF ResultPrepared, transition, JobTypes, JobState, EXECUTING, TERMINAL, Reason
  <2>2. ResultTypes'
    <3>1. [text |-> r, tree |-> u, by |-> n] \in Proposal
      BY ConstantsAssumption DEF Proposal, Attempts
    <3>2. /\ proposal' = [proposal EXCEPT ![j] = [text |-> r, tree |-> u, by |-> n]]
          /\ covers' = [covers EXCEPT ![j] = sequence[j] - Cardinality(Unapplied(j))]
          /\ resultRow' = [resultRow EXCEPT ![j] = "pending"]
          /\ receipt' = receipt
      BY <1>8 DEF ResultPrepared
    <3>3. sequence[j] - Cardinality(Unapplied(j)) \in 0..MaxInputs
      BY Acknowledged
    <3> QED BY <3>1, <3>2, <3>3 DEF ResultTypes, RowState
  <2>3. WorkTypes'
    BY <1>8 DEF ResultPrepared, transition, WorkTypes, OpRow, OpState, ApprovalState,
      TreeHash, Verification
  <2>4. AttemptTypes' /\ InputTypes' /\ EnvTypes' /\ PubTypes'
    BY <1>8, Untouched DEF ResultPrepared, transition
  <2> QED BY <2>1, <2>2, <2>3, <2>4
<1>9. CASE DeliverInputs(j, n)
  <2>1. InputTypes'
    BY <1>9, Deliveries DEF DeliverInputs, InputTypes
  <2>2. JobTypes' /\ ResultTypes' /\ AttemptTypes' /\ WorkTypes' /\ EnvTypes' /\ PubTypes'
    BY <1>9, Untouched DEF DeliverInputs
  <2> QED BY <2>1, <2>2
<1>10. CASE Heartbeat(j, n)
  <2>a. Fenced(j, n) \in AttemptRow
    BY AttemptRows DEF Fenced, AttemptTypes, ProcessState
  <2>b. attempt[j][n].budget \in 0..Budget
    BY DEF AttemptTypes, AttemptRow
  <2>c. (IF attempt[j][n].budget < LeaseTicks THEN attempt[j][n].budget ELSE LeaseTicks)
          \in 0..LeaseTicks
    BY <2>b, ConstantsAssumption
  <2>1. AttemptTypes'
    BY <1>10, <2>a, <2>c, AttemptRows DEF Heartbeat, AttemptTypes
  <2>2. JobTypes' /\ ResultTypes' /\ InputTypes' /\ WorkTypes' /\ EnvTypes' /\ PubTypes'
    BY <1>10, Untouched DEF Heartbeat, Fenced
  <2> QED BY <2>1, <2>2
<1>11. CASE Controls(j, n)
  <2>1. JobTypes'
    BY <1>11 DEF Controls, transition, StopAttempt, Fenced, JobTypes, JobState, EXECUTING,
      TERMINAL, Reason
  <2>2. AttemptTypes'
    <3>1. last' = last
      BY <1>11 DEF Controls
    <3>2. CASE attempt' = [attempt EXCEPT ![j][n] = Fenced(j, n)]
      <4>1. Fenced(j, n) \in AttemptRow
        BY AttemptRows DEF Fenced, AttemptTypes, ProcessState
      <4> QED BY <3>1, <3>2, <4>1 DEF AttemptTypes
    <3>3. CASE StopAttempt(j, n, "blocked", "authority_changed")
      BY <3>1, <3>3, Stopping DEF StopAttempt
    <3> QED BY <1>11, <3>2, <3>3 DEF Controls
  <2>3. WorkTypes'
    BY <1>11, Ledger DEF Controls, StopAttempt, WorkTypes, transition
  <2>4. ResultTypes' /\ InputTypes' /\ EnvTypes' /\ PubTypes'
    BY <1>11, Untouched DEF Controls, transition, StopAttempt, Fenced
  <2> QED BY <2>1, <2>2, <2>3, <2>4
<1>12. ASSUME NEW s \in Inputs, InputApplied(j, n, s) PROVE TypeOK'
  <2>1. JobTypes'
    BY <1>12 DEF InputApplied, transition, JobTypes, JobState, EXECUTING, TERMINAL, Reason
  <2>2. ResultTypes'
    BY <1>12, NullRows DEF InputApplied, ResultTypes
  <2>3. InputTypes'
    BY <1>12, Deliveries DEF InputApplied, InputTypes, InputState
  <2>4. AttemptTypes' /\ WorkTypes' /\ EnvTypes' /\ PubTypes'
    BY <1>12, Untouched DEF InputApplied, transition
  <2> QED BY <2>1, <2>2, <2>3, <2>4
<1>13. ASSUME NEW s \in Inputs, InputUncertain(j, n, s) PROVE TypeOK'
  <2>1. InputTypes'
    BY <1>13, Deliveries DEF InputUncertain, InputTypes, InputState
  <2>2. JobTypes' /\ ResultTypes' /\ AttemptTypes' /\ WorkTypes' /\ EnvTypes' /\ PubTypes'
    BY <1>13, Untouched DEF InputUncertain
  <2> QED BY <2>1, <2>2
<1>14. ASSUME NEW s \in Inputs, NEW outcome \in {"applied", "not_applied"},
  ReconcileInput(j, n, s, outcome) PROVE TypeOK'
  <2>1. InputTypes'
    <3>1. input[j][s] \in InputRow
      BY DEF InputTypes
    <3>2. /\ [state |-> "applied", to |-> n, outcomes |-> input[j][s].outcomes \cup {n}]
             \in InputRow
          /\ [state |-> "pending", to |-> 0, outcomes |-> input[j][s].outcomes \cup {n}]
             \in InputRow
      BY <3>1, ConstantsAssumption DEF InputRow, InputState, Attempts
    <3>3. \E r \in InputRow : input' = [input EXCEPT ![j][s] = r] /\ sequence' = sequence
      BY <1>14, <3>2 DEF ReconcileInput
    <3> QED BY <3>3 DEF InputTypes
  <2>2. JobTypes' /\ ResultTypes' /\ AttemptTypes' /\ WorkTypes' /\ EnvTypes' /\ PubTypes'
    BY <1>14, Untouched DEF ReconcileInput
  <2> QED BY <2>1, <2>2
<1> QED BY <1>1, <1>2, <1>3, <1>4, <1>5, <1>6, <1>7, <1>8, <1>9, <1>10, <1>11, <1>12,
  <1>13, <1>14 DEF DeviceStep

\* The operation ledger keeps the records well formed (agent_approvals.py, and the
\* tool events of record_event).
LEMMA OperationTypes ==
  ASSUME TypeOK, NEW j \in Job, NEW n \in Attempts, NEW k \in Op,
         OperationStep(j, n, k)
  PROVE  TypeOK'
<1> USE DEF TypeOK
<1>1. ASSUME NEW b \in BOOLEAN, ProposeOperation(j, n, k, b) PROVE TypeOK'
  <2>1. JobTypes'
    BY ZenonT(60), <1>1 DEF ProposeOperation, transition, JobTypes, JobState, EXECUTING, TERMINAL,
      Reason
  <2>a. [at |-> n, state |-> IF b THEN "proposed" ELSE "authorized",
         approval |-> IF b THEN "pending" ELSE "none", tree |-> tree[j]] \in OpRow
    BY DEF OpRow, OpState, ApprovalState, Attempts, WorkTypes
  <2>2. WorkTypes'
    BY <1>1, <2>a DEF ProposeOperation, WorkTypes
  <2>3. ResultTypes' /\ AttemptTypes' /\ InputTypes' /\ EnvTypes' /\ PubTypes'
    BY <1>1, Untouched DEF ProposeOperation, transition
  <2> QED BY <2>1, <2>2, <2>3
<1>2. CASE Approve(j, n, k)
  <2>1. JobTypes'
    BY <1>2 DEF Approve, transition, JobTypes, JobState, EXECUTING, TERMINAL, Reason
  <2>2. WorkTypes'
    BY Zenon, <1>2, OpRows DEF Approve, WorkTypes, ApprovalState
  <2>3. ResultTypes' /\ AttemptTypes' /\ InputTypes' /\ EnvTypes' /\ PubTypes'
    BY <1>2, Untouched DEF Approve, transition
  <2> QED BY <2>1, <2>2, <2>3
<1>3. CASE Reject(j, n, k)
  <2>1. JobTypes'
    BY <1>3 DEF Reject, transition, JobTypes, JobState, EXECUTING, TERMINAL, Reason
  <2>2. AttemptTypes'
    BY Zenon, <1>3, Stopping DEF Reject
  <2>3. WorkTypes'
    <3>1. InvalidateApprovals(op[j], n) \in [Op -> OpRow]
      BY Ledger DEF WorkTypes
    <3>2. [InvalidateApprovals(op[j], n) EXCEPT ![k].approval = "rejected"] \in [Op -> OpRow]
      BY Zenon, <3>1, OpRows DEF ApprovalState
    <3>3. /\ op' = [op EXCEPT ![j] =
                      [InvalidateApprovals(op[j], n) EXCEPT ![k].approval = "rejected"]]
          /\ UNCHANGED <<tree, verified>>
      BY <1>3 DEF Reject
    <3> QED BY <3>2, <3>3 DEF WorkTypes
  <2>4. ResultTypes' /\ InputTypes' /\ EnvTypes' /\ PubTypes'
    BY <1>3, Untouched DEF Reject, transition
  <2> QED BY <2>1, <2>2, <2>3, <2>4
<1>4. CASE ConsumeOperation(j, n, k)
  <2>1. WorkTypes'
    <3> DEFINE c == IF op[j][k].state = "proposed" THEN "consumed" ELSE op[j][k].approval
    <3>1. op[j][k] \in OpRow
      BY DEF WorkTypes
    <3>2. c \in ApprovalState
      BY <3>1 DEF OpRow, ApprovalState
    <3>3. [op[j][k] EXCEPT !.state = "started", !.approval = c] \in OpRow
      <4> HIDE DEF c
      <4> QED BY <3>1, <3>2, OpRows DEF OpState
    <3>4. /\ op' = [op EXCEPT ![j] = [op[j] EXCEPT ![k] =
                     [op[j][k] EXCEPT !.state = "started", !.approval = c]]]
          /\ UNCHANGED <<tree, verified>>
      <4>1. op' = [op EXCEPT ![j][k].state = "started", ![j][k].approval =
                     IF op[j][k].state = "proposed" THEN "consumed" ELSE @]
        BY <1>4 DEF ConsumeOperation
      <4>2. UNCHANGED <<tree, verified>>
        BY <1>4 DEF ConsumeOperation
      <4> QED BY <4>1, <4>2, <3>1 DEF WorkTypes, OpRow
    <3> HIDE DEF c
    <3> QED BY <3>3, <3>4 DEF WorkTypes
  <2>2. JobTypes' /\ ResultTypes' /\ AttemptTypes' /\ InputTypes' /\ EnvTypes' /\ PubTypes'
    BY <1>4, Untouched DEF ConsumeOperation
  <2> QED BY <2>1, <2>2
<1>5. ASSUME NEW o \in {"succeeded", "failed", "outcome_unknown", "cancelled"},
  ToolFinished(j, n, k, o) PROVE TypeOK'
  <2>1. ResultTypes'
    BY <1>5, NullRows DEF ToolFinished, ResultTypes
  <2>2. WorkTypes'
    <3>1. op' = [op EXCEPT ![j][k].state = o] /\ o \in OpState
      BY <1>5 DEF ToolFinished, OpState
    <3>2. op' \in [Job -> [Op -> OpRow]]
      BY <3>1, OpRows DEF WorkTypes
    <3>3. Outdate(verified[j]) \subseteq Verification
      BY Checks DEF Outdate, WorkTypes
    <3>4. tree' \in [Job -> TreeHash] /\ verified' \in [Job -> SUBSET Verification]
      BY <1>5, <3>3 DEF ToolFinished, WorkTypes, TreeHash
    <3> QED BY <3>2, <3>4 DEF WorkTypes
  <2>3. JobTypes' /\ AttemptTypes' /\ InputTypes' /\ EnvTypes' /\ PubTypes'
    BY <1>5, Untouched DEF ToolFinished, Outdate
  <2> QED BY <2>1, <2>2, <2>3
<1>6. ASSUME NEW b \in BOOLEAN, VerificationFinished(j, n, k, b) PROVE TypeOK'
  <2>a. [tree |-> tree[j], op |-> k, fresh |-> TRUE] \in Verification
    BY <1>6 DEF VerificationFinished, WorkTypes, TreeHash, Verification
  <2>1. WorkTypes'
    BY <1>6, <2>a DEF VerificationFinished, WorkTypes
  <2>2. JobTypes' /\ ResultTypes' /\ AttemptTypes' /\ InputTypes' /\ EnvTypes' /\ PubTypes'
    BY <1>6, Untouched DEF VerificationFinished
  <2> QED BY <2>1, <2>2
<1>7. CASE ReconcileOperation(j, n, k)
  <2>1. WorkTypes'
    BY <1>7, OpRows DEF ReconcileOperation, WorkTypes, OpState
  <2>2. JobTypes' /\ ResultTypes' /\ AttemptTypes' /\ InputTypes' /\ EnvTypes' /\ PubTypes'
    BY <1>7, Untouched DEF ReconcileOperation
  <2> QED BY <2>1, <2>2
<1>8. ASSUME NEW o \in {"succeeded", "failed", "outcome_unknown", "cancelled"}, NEW u \in
  TreeHash, ReconcileLocalOperation(j, n, k, o, u) PROVE TypeOK'
  <2>1. WorkTypes'
    <3>1. op' = [op EXCEPT ![j][k].state = o] /\ o \in OpState
      BY <1>8 DEF ReconcileLocalOperation, OpState
    <3>2. op' \in [Job -> [Op -> OpRow]]
      BY <3>1, OpRows DEF WorkTypes
    <3>3. {[v EXCEPT !.fresh = FALSE] : v \in verified[j]} \subseteq Verification
      BY Checks DEF WorkTypes
    <3>4. tree' \in [Job -> TreeHash] /\ verified' \in [Job -> SUBSET Verification]
      BY <1>8, <3>3 DEF ReconcileLocalOperation, WorkTypes
    <3> QED BY <3>2, <3>4 DEF WorkTypes
  <2>2. JobTypes' /\ ResultTypes' /\ AttemptTypes' /\ InputTypes' /\ EnvTypes' /\ PubTypes'
    BY <1>8, Untouched DEF ReconcileLocalOperation
  <2> QED BY <2>1, <2>2
<1> QED BY <1>1, <1>2, <1>3, <1>4, <1>5, <1>6, <1>7, <1>8 DEF OperationStep

\* Publishers keep the records well formed (publish_result, the loop of
\* reconcile_agents, the on-commit hook).
LEMMA PublisherTypes ==
  ASSUME TypeOK, NEW p \in Publisher,
         PublishStep(p) \/ PassStep(p) \/ HookStep(p) \/ PublisherKilled(p)
  PROVE  TypeOK'
<1> USE DEF TypeOK
<1> DEFINE job == pub[p].job
<1>a. pub[p] \in PubRow
  BY DEF PubTypes
<1>b. pub[p].pc \notin {"idle", "listed"} => job \in Job
  BY DEF PubTypes
<1>c. Fault => faults' \in 0..MaxFaults
  BY ConstantsAssumption DEF Fault, EnvTypes
<1> HIDE DEF job
<1>1. CASE ReadProposal(p)
  <2>1. job \in Job /\ hooks' = hooks
    BY <1>1, <1>b DEF ReadProposal
  <2>2. EnvTypes'
    BY <1>1, <1>c DEF ReadProposal, EnvTypes
  <2>3. PubTypes'
    <3>1. CASE Return(p, "none") \/ Goto(p, "block", "other")
      <4>1. "none" \in Raised /\ "other" \in Raised
        BY DEF Raised
      <4> QED BY <2>1, <3>1, <4>1, Returns DEF job
    <3>2. CASE pub' = [pub EXCEPT ![p].pc = "commit", ![p].seen = proposal[job]]
      <4> DEFINE row == [pub[p] EXCEPT !.pc = "commit", !.seen = proposal[job]]
      <4>1. proposal[job] \in Proposal
        BY <2>1 DEF ResultTypes
      <4>2. row \in PubRow
        BY <4>1, <1>a, PubRows
      <4>3. pub' = [pub EXCEPT ![p] = row]
        BY <3>2 DEF PubTypes
      <4>4. row.job = job /\ row.pc = "commit"
        BY <1>a DEF PubRow, job
      <4>5. hooks' \in SUBSET Job
        BY <2>1 DEF PubTypes
      <4> HIDE DEF row
      <4> QED BY <2>1, <4>2, <4>3, <4>4, <4>5, Continues
    <3> QED BY <1>1, <3>1, <3>2 DEF ReadProposal, job
  <2>4. JobTypes' /\ ResultTypes' /\ AttemptTypes' /\ InputTypes' /\ WorkTypes'
    BY <1>1, Untouched DEF ReadProposal
  <2> QED BY <2>2, <2>3, <2>4
<1>2. CASE CommitResult(p)
  <2>1. job \in Job /\ hooks' = hooks
    BY <1>2, <1>b DEF CommitResult
  <2>2. verify_result(job) \in Raised
    BY DEF verify_result, Raised
  <2>3. Refusal(p) \in Raised
    BY <2>2 DEF Refusal, Raised, job
  <2>4. JobTypes' /\ ResultTypes'
    <3>1. CASE UNCHANGED <<jobVars, resultVars>>
      BY <3>1, Untouched
    <3>2. CASE Publish(job) /\ UNCHANGED <<stopTarget, configured, proposal, covers>>
      <4>1. JobTypes'
        BY <3>2, <2>1 DEF Publish, transition, JobTypes, JobState, TERMINAL, Reason
      <4>2. /\ receipt' = [receipt EXCEPT ![job] = last[job]]
            /\ resultRow' = [resultRow EXCEPT ![job] = "delivered"]
            /\ UNCHANGED <<proposal, covers>>
        BY <3>2 DEF Publish
      <4>3. ResultTypes'
        BY <4>2, <2>1, ConstantsAssumption DEF ResultTypes, AttemptTypes, RowState
      <4> QED BY <4>1, <4>3
    <3> QED BY <1>2, <3>1, <3>2 DEF CommitResult, job
  <2>5. PubTypes'
    <3>1. \/ Return(p, "none")
          \/ Goto(p, "block", "other")
          \/ Refusal(p) # "none" /\ Goto(p, "block", Refusal(p))
      BY <1>2 DEF CommitResult
    <3>2. "none" \in Raised /\ "other" \in Raised
      BY DEF Raised
    <3> QED BY <2>1, <2>3, <3>1, <3>2, Returns DEF job
  <2>6. EnvTypes'
    <3>1. faults' = faults \/ Fault
      BY <1>2 DEF CommitResult
    <3>2. UNCHANGED <<revoked, access>>
      BY <1>2 DEF CommitResult
    <3> QED BY <3>1, <3>2, <1>c DEF EnvTypes
  <2>7. AttemptTypes' /\ InputTypes' /\ WorkTypes'
    BY <1>2, Untouched DEF CommitResult
  <2> QED BY <2>4, <2>5, <2>6, <2>7
<1>3. CASE BlockPublication(p)
  <2> DEFINE e   == pub[p].raised
             why == CASE e = "audience" -> "audience_changed"
                      [] e = "checks"   -> "verification_failed"
                      [] e = "other"    -> "publication_blocked"
             s   == IF e = "checks" THEN "failed" ELSE "verifying"
  <2>1. job \in Job /\ hooks' = hooks
    BY <1>3, <1>b DEF BlockPublication
  <2>2. e \in Raised
    BY <1>a DEF PubRow
  <2>3. pub[p].raised # "none"
    BY <1>3 DEF PubTypes, BlockPublication
  <2>4. why \in Reason /\ s \in JobState
    BY <2>2, <2>3 DEF Raised, Reason, JobState, EXECUTING, TERMINAL
  <2>5. JobTypes'
    <3>1. UNCHANGED <<stopTarget, configured>>
      BY <1>3 DEF BlockPublication
    <3>2. transition(job, s, why) \/ UNCHANGED <<status, reason>>
      BY <1>3 DEF BlockPublication, job
    <3> HIDE DEF e, why, s
    <3> QED BY <3>1, <3>2, <2>1, <2>4 DEF transition, JobTypes
  <2>6. ResultTypes'
    BY <1>3 DEF BlockPublication, ResultTypes, RowState
  <2>7. PubTypes'
    BY <1>3, <2>1, <2>2, Returns DEF BlockPublication, job
  <2>8. EnvTypes'
    BY <1>3, <1>c DEF BlockPublication, EnvTypes
  <2>9. AttemptTypes' /\ InputTypes' /\ WorkTypes'
    BY <1>3, Untouched DEF BlockPublication
  <2> QED BY <2>5, <2>6, <2>7, <2>8, <2>9
<1>4. CASE PassList(p)
  <2>1. PubTypes'
    <3>1. Due \in SUBSET Job
      BY DEF Due
    <3>2. [pub[p] EXCEPT !.pc = "listed", !.todo = Due] \in PubRow
      BY <1>a, <3>1, PubRows
    <3>3. pub' = [pub EXCEPT ![p] = [pub[p] EXCEPT !.pc = "listed", !.todo = Due]]
      BY <1>4 DEF PassList, PubTypes
    <3>4. [pub[p] EXCEPT !.pc = "listed", !.todo = Due].pc = "listed"
      BY <1>a DEF PubRow
    <3>5. hooks' \in SUBSET Job
      BY <1>4 DEF PassList, PubTypes
    <3> QED BY <3>2, <3>3, <3>4, <3>5, Continues
  <2>2. JobTypes' /\ ResultTypes' /\ AttemptTypes' /\ InputTypes' /\ WorkTypes' /\ EnvTypes'
    BY <1>4, Untouched DEF PassList, Due
  <2> QED BY <2>1, <2>2
<1>5. CASE PassFinish(p)
  <2>1. ResultTypes'
    BY <1>5 DEF PassFinish, ResultTypes, Proposal, NoProposal, RowState, TreeHash
  <2>2. PubTypes'
    <3> DEFINE row == IF pub[p].todo = {} THEN Idle
                      ELSE [Idle EXCEPT !.pc = "listed", !.todo = pub[p].todo]
    <3>1. pub[p].todo \in SUBSET Job
      BY <1>a DEF PubRow
    <3>2. row \in PubRow /\ row.pc \in {"idle", "listed"}
      BY <3>1, NullRows, PubRows DEF Idle
    <3>3. pub' = [pub EXCEPT ![p] = row] /\ hooks' \in SUBSET Job
      BY <1>5 DEF PassFinish, PubTypes
    <3> HIDE DEF row
    <3> QED BY <3>2, <3>3, Continues
  <2>3. JobTypes' /\ AttemptTypes' /\ InputTypes' /\ WorkTypes' /\ EnvTypes'
    BY <1>5, Untouched DEF PassFinish
  <2> QED BY <2>1, <2>2, <2>3
<1>6. ASSUME NEW j \in Job, PassMark(p, j) PROVE TypeOK'
  <2>1. ResultTypes'
    BY <1>6 DEF PassMark, ResultTypes, Proposal, NoProposal, RowState, TreeHash
  <2>2. PubTypes'
    <3>1. pub[p].todo \ {j} \in SUBSET Job
      BY <1>a DEF PubRow
    <3>2. hooks' \in SUBSET Job
      BY <1>6 DEF PassMark, PubTypes
    <3>3. CASE resultRow[j] = "delivered"
      <4> DEFINE row == IF pub[p].todo \ {j} = {} THEN Idle
                        ELSE [pub[p] EXCEPT !.todo = pub[p].todo \ {j}]
      <4>1. pub[p].pc = "listed"
        BY <1>6 DEF PassMark
      <4>2. row \in PubRow /\ row.pc \in {"idle", "listed"}
        BY <1>a, <3>1, <4>1, NullRows, PubRows DEF Idle, PubRow
      <4>3. pub' = [pub EXCEPT ![p] = row]
        BY <1>6, <3>3 DEF PassMark, PubTypes
      <4> HIDE DEF row
      <4> QED BY <3>2, <4>2, <4>3, Continues
    <3>4. CASE resultRow[j] # "delivered"
      <4> DEFINE row == [pc |-> "read", todo |-> pub[p].todo \ {j}, job |-> j,
                         seen |-> NoProposal, raised |-> "none"]
      <4>1. row \in PubRow /\ row.pc = "read" /\ row.job = j
        BY <3>1, NullRows DEF PubRow, Raised
      <4>2. pub' = [pub EXCEPT ![p] = row]
        BY <1>6, <3>4 DEF PassMark
      <4> HIDE DEF row
      <4> QED BY <3>2, <4>1, <4>2, Continues
    <3> QED BY <3>3, <3>4
  <2>3. JobTypes' /\ AttemptTypes' /\ InputTypes' /\ WorkTypes' /\ EnvTypes'
    BY <1>6, Untouched DEF PassMark
  <2> QED BY <2>1, <2>2, <2>3
<1>7. ASSUME NEW j \in Job, HookStart(p, j) PROVE TypeOK'
  <2>1. PubTypes'
    <3>1. [pub[p] EXCEPT !.pc = "read", !.job = j] \in PubRow
      BY <1>a, PubRows
    <3>2. pub' = [pub EXCEPT ![p] = [pub[p] EXCEPT !.pc = "read", !.job = j]]
      BY <1>7 DEF HookStart, PubTypes
    <3>3. /\ [pub[p] EXCEPT !.pc = "read", !.job = j].pc = "read"
          /\ [pub[p] EXCEPT !.pc = "read", !.job = j].job = j
      BY <1>a DEF PubRow
    <3>4. hooks' \in SUBSET Job
      BY <1>7 DEF HookStart, PubTypes
    <3> QED BY <3>1, <3>2, <3>3, <3>4, Continues
  <2>2. JobTypes' /\ ResultTypes' /\ AttemptTypes' /\ InputTypes' /\ WorkTypes' /\ EnvTypes'
    BY <1>7, Untouched DEF HookStart
  <2> QED BY <2>1, <2>2
<1>8. CASE PublisherKilled(p)
  <2>1. EnvTypes'
    BY <1>8, ConstantsAssumption DEF PublisherKilled, Fault, EnvTypes, Access
  <2>2. PubTypes'
    <3>1. pub' = [pub EXCEPT ![p] = Idle] /\ hooks' \in SUBSET Job
      BY <1>8 DEF PublisherKilled, PubTypes
    <3>2. Idle.pc = "idle"
      BY DEF Idle
    <3> QED BY <3>1, <3>2, NullRows, Continues
  <2>3. JobTypes' /\ ResultTypes' /\ AttemptTypes' /\ InputTypes' /\ WorkTypes'
    BY <1>8, Untouched DEF PublisherKilled, Fault
  <2> QED BY <2>1, <2>2, <2>3
<1> QED BY <1>1, <1>2, <1>3, <1>4, <1>5, <1>6, <1>7, <1>8 DEF PublishStep, PassStep,
  HookStep

\* Claims, start deadlines and lost hooks keep the records well formed (claim_work,
\* reconcile_agents, _publish_after_commit).
LEMMA TaskTypes ==
  ASSUME TypeOK, NEW j \in Job,
         ClaimWork(j) \/ StartDeadlineExpired(j) \/ HookLost(j)
  PROVE  TypeOK'
<1> USE DEF TypeOK
<1>1. CASE ClaimWork(j)
  <2>1. JobTypes'
    BY <1>1 DEF ClaimWork, transition, JobTypes, JobState, EXECUTING, TERMINAL, Reason
  <2> DEFINE new == [active |-> TRUE, proc |-> "starting", lease |-> LeaseTicks,
                     budget |-> Budget, prepared |-> FALSE, stopRow |-> FALSE]
  <2>a. new \in AttemptRow
    BY ConstantsAssumption DEF AttemptRow, ProcessState
  <2>b. /\ last[j] < MaxAttempts
        /\ last' = [last EXCEPT ![j] = @ + 1]
        /\ attempt' = [attempt EXCEPT ![j][last[j] + 1] = new]
    BY <1>1 DEF ClaimWork
  <2>2. AttemptTypes'
    <3> HIDE DEF new
    <3> QED BY <2>a, <2>b, ConstantsAssumption DEF AttemptTypes, Attempts
  <2>3. WorkTypes'
    BY <1>1 DEF ClaimWork, transition, WorkTypes, OpRow, OpState, ApprovalState, TreeHash,
      Verification
  <2>4. ResultTypes' /\ InputTypes' /\ EnvTypes' /\ PubTypes'
    BY <1>1, Untouched DEF ClaimWork, transition
  <2> QED BY <2>1, <2>2, <2>3, <2>4
<1>2. CASE StartDeadlineExpired(j)
  <2>1. JobTypes'
    BY <1>2 DEF StartDeadlineExpired, transition, JobTypes, JobState, EXECUTING, TERMINAL,
      Reason
  <2>2. ResultTypes' /\ AttemptTypes' /\ InputTypes' /\ WorkTypes' /\ EnvTypes' /\ PubTypes'
    BY <1>2, Untouched DEF StartDeadlineExpired, transition
  <2> QED BY <2>1, <2>2
<1>3. CASE HookLost(j)
  <2>1. EnvTypes'
    BY <1>3, ConstantsAssumption DEF HookLost, Fault, EnvTypes, Access
  <2>2. PubTypes'
    BY <1>3 DEF HookLost, Fault, PubTypes, PubRow, Idle, NoProposal, Proposal, TreeHash,
      Raised, Publisher
  <2>3. JobTypes' /\ ResultTypes' /\ AttemptTypes' /\ InputTypes' /\ WorkTypes'
    BY <1>3, Untouched DEF HookLost, Fault
  <2> QED BY <2>1, <2>2, <2>3
<1> QED BY <1>1, <1>2, <1>3

\* The clock and lost leases keep the records well formed (reconcile_agents).
LEMMA TimerTypes ==
  ASSUME TypeOK, NEW j \in Job, NEW n \in Attempts,
         TimerStep(j, n)
  PROVE  TypeOK'
<1> USE DEF TypeOK
<1>1. CASE Elapse(j, n)
  <2> DEFINE tick(t) == IF t > 0 THEN t - 1 ELSE 0
  <2>a. attempt[j][n] \in AttemptRow
    BY DEF AttemptTypes
  <2>b. /\ tick(attempt[j][n].lease) \in 0..LeaseTicks
        /\ tick(attempt[j][n].budget) \in 0..Budget
    BY <2>a, ConstantsAssumption DEF AttemptRow
  <2>c. [attempt[j][n] EXCEPT !.lease = tick(@), !.budget = tick(@)] \in AttemptRow
    BY <2>a, <2>b, AttemptRows
  <2>d. attempt' = [attempt EXCEPT ![j][n] =
                      [attempt[j][n] EXCEPT !.lease = tick(@), !.budget = tick(@)]]
    BY <1>1 DEF Elapse, AttemptTypes
  <2>1. AttemptTypes'
    <3> HIDE DEF tick
    <3> QED BY <1>1, <2>c, <2>d DEF Elapse, AttemptTypes
  <2>2. JobTypes' /\ ResultTypes' /\ InputTypes' /\ WorkTypes' /\ EnvTypes' /\ PubTypes'
    BY <1>1, Untouched DEF Elapse
  <2> QED BY <2>1, <2>2
<1>2. CASE LeaseLost(j, n)
  <2>1. JobTypes'
    BY <1>2 DEF LeaseLost, transition, LoseLease, JobTypes, JobState, EXECUTING, TERMINAL,
      Reason
  <2>2. AttemptTypes'
    BY <1>2, AttemptRows DEF LeaseLost, AttemptTypes, ProcessState, LoseLease
  <2>3. InputTypes'
    BY <1>2, Deliveries DEF LeaseLost, InputTypes, LoseLease
  <2>4. WorkTypes'
    BY <1>2, Ledger DEF LeaseLost, WorkTypes, LoseLease
  <2>5. ResultTypes' /\ EnvTypes' /\ PubTypes'
    BY <1>2, Untouched DEF LeaseLost, transition, LoseLease
  <2> QED BY <2>1, <2>2, <2>3, <2>4, <2>5
<1> QED BY <1>1, <1>2 DEF TimerStep

\* An approval that expires keeps the records well formed (reconcile_agents).
LEMMA ExpiryTypes ==
  ASSUME TypeOK, NEW j \in Job, NEW k \in Op,
         ApprovalExpired(j, k)
  PROVE  TypeOK'
<1> USE DEF TypeOK
<1>1. CASE ApprovalExpired(j, k)
  <2>1. JobTypes'
    BY ZenonT(60), <1>1 DEF ApprovalExpired, transition, JobTypes, JobState, EXECUTING, TERMINAL,
      Reason
  <2>2. AttemptTypes'
    <3>1. last' = last
      BY <1>1 DEF ApprovalExpired
    <3>2. CASE attempt' = attempt
      BY SMTT(30), <3>1, <3>2 DEF AttemptTypes
    <3>3. CASE attempt' # attempt
      BY <1>1, <3>1, <3>3, Stopping DEF ApprovalExpired
    <3> QED BY <3>2, <3>3
  <2>3. WorkTypes'
    <3> DEFINE expired == [op[j] EXCEPT ![k].approval = "expired"]
    <3>a. op[j] \in [Op -> OpRow] /\ "expired" \in ApprovalState
      BY DEF WorkTypes, ApprovalState
    <3>1. expired \in [Op -> OpRow]
      BY <3>a, OpRows
    <3>2. InvalidateApprovals(expired, op[j][k].at) \in [Op -> OpRow]
      <4> HIDE DEF expired
      <4> QED BY SMTT(30), <3>1, Ledger
    <3>3. UNCHANGED <<tree, verified>>
      BY SMTT(30), <1>1 DEF ApprovalExpired
    <3>4. \/ op' = [op EXCEPT ![j] = expired]
          \/ op' = [op EXCEPT ![j] = InvalidateApprovals(expired, op[j][k].at)]
      BY SMTT(30), <1>1 DEF ApprovalExpired
    <3> HIDE DEF expired
    <3> QED BY <3>1, <3>2, <3>3, <3>4 DEF WorkTypes
  <2>4. ResultTypes' /\ InputTypes' /\ EnvTypes' /\ PubTypes'
    BY <1>1, Untouched DEF ApprovalExpired, transition
  <2> QED BY SMTT(30), <2>1, <2>2, <2>3, <2>4
<1> QED BY <1>1

\* The bulk update of revoke_runner keeps the records well formed.
LEMMA RevocationTypes ==
  ASSUME TypeOK, NEW r \in Runner,
         RevokeRunner(r)
  PROVE  TypeOK'
<1> USE DEF TypeOK
<1>1. CASE RevokeRunner(r)
  <2>1. JobTypes'
    BY <1>1 DEF RevokeRunner, JobTypes, JobState, EXECUTING, TERMINAL, Reason
  <2>2. AttemptTypes'
    <3> DEFINE hit == {j \in Job : Device(j) = r /\ ActiveAttempts(j) # {}}
    <3>1. /\ attempt' = [j \in Job |-> [n \in Attempts |->
                           IF j \in hit /\ attempt[j][n].active
                           THEN [attempt[j][n] EXCEPT !.proc = "stopping"]
                           ELSE attempt[j][n]]]
          /\ last' = last
      BY <1>1 DEF RevokeRunner
    <3>2. \A j \in Job, n \in Attempts :
            /\ attempt[j][n] \in AttemptRow
            /\ [attempt[j][n] EXCEPT !.proc = "stopping"] \in AttemptRow
      BY AttemptRows DEF AttemptTypes, ProcessState
    <3> HIDE DEF hit
    <3> QED BY <3>1, <3>2 DEF AttemptTypes
  <2>3. EnvTypes'
    BY <1>1, ConstantsAssumption DEF RevokeRunner, EnvTypes, Access
  <2>4. ResultTypes' /\ InputTypes' /\ WorkTypes' /\ PubTypes'
    BY <1>1, Untouched DEF RevokeRunner
  <2> QED BY <2>1, <2>2, <2>3, <2>4
<1> QED BY <1>1
\* No step of the server spoils the records.
LEMMA TypeStep == TypeOK /\ [Next]_vars => TypeOK'
<1> SUFFICES ASSUME TypeOK, [Next]_vars PROVE TypeOK'
  OBVIOUS
<1>1. CASE UNCHANGED vars
  BY <1>1, Untouched DEF TypeOK, vars
<1>2. ASSUME NEW j \in Job, OwnerStep(j) PROVE TypeOK'
  BY <1>2, OwnerTypes
<1>3. ASSUME NEW j \in Job, ClaimWork(j) \/ StartDeadlineExpired(j) \/ HookLost(j)
      PROVE  TypeOK'
  BY <1>3, TaskTypes
<1>4. ASSUME NEW j \in Job, NEW n \in Attempts, DeviceStep(j, n) PROVE TypeOK'
  BY <1>4, DeviceTypes
<1>5. ASSUME NEW j \in Job, NEW n \in Attempts, NEW k \in Op, OperationStep(j, n, k)
      PROVE  TypeOK'
  BY <1>5, OperationTypes
<1>6. ASSUME NEW j \in Job, NEW n \in Attempts, TimerStep(j, n) PROVE TypeOK'
  BY <1>6, TimerTypes
<1>7. ASSUME NEW j \in Job, NEW k \in Op, ApprovalExpired(j, k) PROVE TypeOK'
  BY <1>7, ExpiryTypes
<1>8. ASSUME NEW r \in Runner, RevokeRunner(r) PROVE TypeOK'
  BY <1>8, RevocationTypes
<1>9. ASSUME NEW p \in Publisher,
             PublishStep(p) \/ PassStep(p) \/ HookStep(p) \/ PublisherKilled(p)
      PROVE  TypeOK'
  BY <1>9, PublisherTypes
<1> QED BY <1>1, <1>2, <1>3, <1>4, <1>5, <1>6, <1>7, <1>8, <1>9 DEF Next

\* The records are well formed in every reachable state, for every size of the realm.
THEOREM TypeCorrect == Spec => []TypeOK
<1>1. Init => TypeOK
  BY TypeInit
<1>2. TypeOK /\ [Next]_vars => TypeOK'
  BY TypeStep
<1> QED BY <1>1, <1>2, PTL DEF Spec

-----------------------------------------------------------------------------
(* Who holds a task: only claim_work begins an attempt and only its own     *)
(* attempt.stopped ends it, and what follows from that for one task, one    *)
(* device and the realm.                                                    *)

\* What a handler other than claim_work may do to an attempt: bring it nearer to its end.
Nearer(old, new) ==
  /\ new.active => old.active
  /\ old.active /\ old.lease = 0 => new.lease = 0
  /\ old.active /\ old.proc \in {"stopping", "unknown"} =>
       new.proc \in {"stopping", "unknown", "stopped"}

SameHands(i) == \A m \in Attempts : attempt'[i][m].active = attempt[i][m].active

\* No task is claimed and none is let go.
Quiet ==
  /\ last' = last
  /\ \A i \in Job : SameHands(i)
  /\ \A i \in Job, m \in Attempts : Nearer(attempt[i][m], attempt'[i][m])

-----------------------------------------------------------------------------
(* Only claim_work begins an attempt, and only attempt.stopped ends it *)

\* A handler that writes no attempt is quiet.
LEMMA UntouchedQuiet == UNCHANGED attemptVars => Quiet
BY DEF Quiet, Nearer, SameHands

\* A handler that replaces one attempt by one nearer to its end is quiet.
LEMMA ReplacedQuiet ==
  ASSUME AttemptTypes, NEW j \in Job, NEW n \in Attempts, NEW r \in AttemptRow,
         r.active = attempt[j][n].active, Nearer(attempt[j][n], r),
         last' = last, attempt' = [attempt EXCEPT ![j][n] = r]
  PROVE  Quiet
BY DEF Quiet, Nearer, SameHands, AttemptTypes

\* A change of the process, of one that may go on or to one that may not, is quiet.
LEMMA ProcessQuiet ==
  ASSUME AttemptTypes, NEW j \in Job, NEW n \in Attempts, NEW q \in ProcessState,
         attempt[j][n].proc = "starting" \/ q \in {"stopping", "unknown"},
         last' = last, attempt' = [attempt EXCEPT ![j][n].proc = q]
  PROVE  Quiet
<1> DEFINE row == [attempt[j][n] EXCEPT !.proc = q]
<1>1. attempt[j][n] \in AttemptRow
  BY DEF AttemptTypes
<1>2. row.active = attempt[j][n].active /\ Nearer(attempt[j][n], row)
  BY <1>1 DEF AttemptRow, Nearer
<1>3. row \in AttemptRow
  BY <1>1, AttemptRows
<1>4. attempt' = [attempt EXCEPT ![j][n] = row]
  BY DEF AttemptTypes
<1> HIDE DEF row
<1> QED BY <1>2, <1>3, <1>4, ReplacedQuiet

\* request_stop is quiet.
LEMMA StoppingQuiet ==
  ASSUME AttemptTypes, NEW j \in Job, NEW n, last' = last,
         attempt' = [attempt EXCEPT ![j][n].proc = "stopping", ![j][n].stopRow = TRUE]
  PROVE  Quiet
<1>1. CASE n \in Attempts
  <2> DEFINE row == [attempt[j][n] EXCEPT !.proc = "stopping", !.stopRow = TRUE]
  <2>1. row \in AttemptRow
    BY <1>1, AttemptRows DEF AttemptTypes
  <2>2. row.active = attempt[j][n].active /\ Nearer(attempt[j][n], row)
    BY <1>1 DEF AttemptTypes, AttemptRow, Nearer
  <2>3. attempt' = [attempt EXCEPT ![j][n] = row]
    BY <1>1 DEF AttemptTypes
  <2> HIDE DEF row
  <2> QED BY <1>1, <2>1, <2>2, <2>3, ReplacedQuiet
<1>2. CASE n \notin Attempts
  <2>1. attempt' = attempt
    BY <1>2 DEF AttemptTypes
  <2> QED BY <2>1, UntouchedQuiet
<1> QED BY <1>1, <1>2

\* What people do claims nothing.
LEMMA OwnerQuiet == ASSUME TypeOK, NEW j \in Job, OwnerStep(j) PROVE Quiet
<1>1. CASE CreateQueued(j) \/ CreateBlocked(j) \/ CreateDraft(j) \/ CompleteDraft(j)
  BY <1>1, UntouchedQuiet DEF CreateQueued, CreateBlocked, CreateDraft, CompleteDraft
<1>2. CASE CancelJob(j)
  <2>1. last' = last
    BY <1>2 DEF CancelJob
  <2>2. CASE attempt' = attempt
    BY <2>1, <2>2, UntouchedQuiet
  <2>3. ASSUME NEW n, StopAttempt(j, n, "cancelled", "") PROVE Quiet
    BY <2>1, <2>3, StoppingQuiet DEF StopAttempt, TypeOK
  <2> QED BY <1>2, <2>2, <2>3 DEF CancelJob
<1>3. CASE AddInput(j) \/ ResumeJob(j) \/ DeliverPrivately(j) \/ AccessChange(j)
  BY <1>3, UntouchedQuiet DEF AddInput, ResumeJob, DeliverPrivately, AccessChange
<1> QED BY <1>1, <1>2, <1>3 DEF OwnerStep

\* What a device sends claims nothing.
LEMMA DeviceQuiet ==
  ASSUME TypeOK, NEW j \in Job, NEW n \in Attempts, DeviceStep(j, n)
  PROVE  Quiet \/ AttemptStopped(j, n)
<1> USE DEF TypeOK
<1>1. ASSUME NEW t \in Tree, WorkspacePrepared(j, n, t) PROVE Quiet
  <2> DEFINE row == [attempt[j][n] EXCEPT !.prepared = TRUE]
  <2>1. attempt[j][n] \in AttemptRow
    BY DEF AttemptTypes
  <2>2. row.active = attempt[j][n].active /\ Nearer(attempt[j][n], row)
    BY <2>1 DEF AttemptRow, Nearer
  <2>3. row \in AttemptRow
    BY <2>1, AttemptRows
  <2>4. last' = last /\ attempt' = [attempt EXCEPT ![j][n] = row]
    BY <1>1 DEF WorkspacePrepared, AttemptTypes
  <2> HIDE DEF row
  <2> QED BY <2>2, <2>3, <2>4, ReplacedQuiet
<1>2. ASSUME NEW t \in Tree, SaveCheckpoint(j, n, t) PROVE Quiet
  BY <1>2, UntouchedQuiet DEF SaveCheckpoint
<1>3. CASE AttemptStarted(j, n)
  BY <1>3, ProcessQuiet DEF AttemptStarted, ProcessState
<1>4. CASE AttemptInterrupted(j, n)
  BY <1>4, ProcessQuiet DEF AttemptInterrupted, ProcessState
<1>5. CASE InputRequested(j, n) \/ EmptyResult(j, n) \/ DeliverInputs(j, n)
  BY <1>5, UntouchedQuiet DEF InputRequested, EmptyResult, DeliverInputs
<1>6. ASSUME NEW r \in Result, NEW t \in TreeHash, ResultPrepared(j, n, r, t) PROVE Quiet
  BY <1>6, UntouchedQuiet DEF ResultPrepared
<1>7. Fenced(j, n) \in AttemptRow /\ Fenced(j, n).active = attempt[j][n].active
      /\ Nearer(attempt[j][n], Fenced(j, n))
  <2>1. attempt[j][n] \in AttemptRow
    BY DEF AttemptTypes
  <2>2. Fenced(j, n) \in AttemptRow
    BY <2>1, AttemptRows DEF Fenced, ProcessState
  <2>3. Fenced(j, n).active = attempt[j][n].active /\ Nearer(attempt[j][n], Fenced(j, n))
    BY <2>1 DEF Fenced, AttemptRow, Nearer
  <2> QED BY <2>2, <2>3
<1>8. CASE Heartbeat(j, n)
  <2> DEFINE left == attempt[j][n].budget
             new  == IF left < LeaseTicks THEN left ELSE LeaseTicks
             row  == [Fenced(j, n) EXCEPT !.lease = new]
  <2>1. left \in 0..Budget
    BY DEF AttemptTypes, AttemptRow
  <2>2. new \in 0..LeaseTicks
    BY <2>1, ConstantsAssumption
  <2>3. row \in AttemptRow
    <3> HIDE DEF new
    <3> QED BY <1>7, <2>2, AttemptRows
  <2>4. row.active = attempt[j][n].active /\ Nearer(attempt[j][n], row)
    <3>1. attempt[j][n].lease # 0 /\ attempt[j][n].proc \in {"starting", "active"}
      BY <1>8 DEF Heartbeat, Executable
    <3>2. row.active = Fenced(j, n).active
      BY <1>7 DEF AttemptRow
    <3> HIDE DEF row
    <3> QED BY <1>7, <3>1, <3>2 DEF Nearer
  <2>5. last' = last /\ attempt' = [attempt EXCEPT ![j][n] = row]
    BY <1>8 DEF Heartbeat
  <2> HIDE DEF row
  <2> QED BY <2>3, <2>4, <2>5, ReplacedQuiet
<1>9. CASE Controls(j, n)
  <2>1. last' = last
    BY <1>9 DEF Controls
  <2>2. CASE attempt' = [attempt EXCEPT ![j][n] = Fenced(j, n)]
    BY <1>7, <2>1, <2>2, ReplacedQuiet
  <2>3. CASE StopAttempt(j, n, "blocked", "authority_changed")
    BY <2>1, <2>3, StoppingQuiet DEF StopAttempt
  <2> QED BY <1>9, <2>2, <2>3 DEF Controls
<1>10. ASSUME NEW s \in Inputs, InputApplied(j, n, s) \/ InputUncertain(j, n, s) PROVE Quiet
  BY <1>10, UntouchedQuiet DEF InputApplied, InputUncertain
<1>11. ASSUME NEW s \in Inputs, NEW o, ReconcileInput(j, n, s, o) PROVE Quiet
  BY <1>11, UntouchedQuiet DEF ReconcileInput
<1> QED BY <1>1, <1>2, <1>3, <1>4, <1>5, <1>5, <1>6, <1>8, <1>9, <1>10, <1>11
  DEF DeviceStep

\* The operation ledger claims nothing.
LEMMA OperationQuiet ==
  ASSUME TypeOK, NEW j \in Job, NEW n \in Attempts, NEW k \in Op, OperationStep(j, n, k)
  PROVE  Quiet
<1>1. ASSUME NEW b, ProposeOperation(j, n, k, b) PROVE Quiet
  BY <1>1, UntouchedQuiet DEF ProposeOperation
<1>2. CASE Approve(j, n, k) \/ ConsumeOperation(j, n, k) \/ ReconcileOperation(j, n, k)
  BY <1>2, UntouchedQuiet DEF Approve, ConsumeOperation, ReconcileOperation
<1>3. CASE Reject(j, n, k)
  BY <1>3, StoppingQuiet DEF Reject, TypeOK
<1>4. ASSUME NEW o, ToolFinished(j, n, k, o) PROVE Quiet
  BY <1>4, UntouchedQuiet DEF ToolFinished
<1>5. ASSUME NEW b, VerificationFinished(j, n, k, b) PROVE Quiet
  BY <1>5, UntouchedQuiet DEF VerificationFinished
<1>6. ASSUME NEW o, NEW t, ReconcileLocalOperation(j, n, k, o, t) PROVE Quiet
  BY <1>6, UntouchedQuiet DEF ReconcileLocalOperation
<1> QED BY <1>1, <1>2, <1>3, <1>4, <1>5, <1>6 DEF OperationStep

\* Publishers write no attempt.
LEMMA PublisherQuiet ==
  ASSUME NEW p \in Publisher,
         PublishStep(p) \/ PassStep(p) \/ HookStep(p) \/ PublisherKilled(p)
  PROVE  Quiet
<1>1. CASE PublishStep(p)
  BY <1>1, UntouchedQuiet DEF PublishStep, ReadProposal, CommitResult, BlockPublication
<1>2. CASE PassStep(p)
  BY <1>2, UntouchedQuiet DEF PassStep, PassList, PassMark, PassFinish
<1>3. CASE HookStep(p) \/ PublisherKilled(p)
  BY <1>3, UntouchedQuiet DEF HookStep, HookStart, PublisherKilled
<1> QED BY <1>1, <1>2, <1>3

\* The clock and a lost lease claim nothing: a lost attempt stays active.
LEMMA TimerQuiet ==
  ASSUME TypeOK, NEW j \in Job, NEW n \in Attempts, TimerStep(j, n) PROVE Quiet
<1> USE DEF TypeOK
<1>1. CASE Elapse(j, n)
  <2> DEFINE tick(t) == IF t > 0 THEN t - 1 ELSE 0
             row == [attempt[j][n] EXCEPT !.lease = tick(@), !.budget = tick(@)]
  <2>1. attempt[j][n] \in AttemptRow
    BY DEF AttemptTypes
  <2>2. tick(attempt[j][n].lease) \in 0..LeaseTicks /\ tick(attempt[j][n].budget) \in 0..Budget
    BY <2>1, ConstantsAssumption DEF AttemptRow
  <2>3. row \in AttemptRow
    BY <2>1, <2>2, AttemptRows
  <2>4. row.active = attempt[j][n].active /\ Nearer(attempt[j][n], row)
    BY <2>1 DEF AttemptRow, Nearer
  <2>5. last' = last /\ attempt' = [attempt EXCEPT ![j][n] = row]
    BY <1>1 DEF Elapse, AttemptTypes
  <2> HIDE DEF row
  <2> QED BY <2>3, <2>4, <2>5, ReplacedQuiet
<1>2. CASE LeaseLost(j, n)
  BY <1>2, ProcessQuiet DEF LeaseLost, LoseLease, ProcessState
<1> QED BY <1>1, <1>2 DEF TimerStep

\* A revocation asks attempts to stop; it ends none and starts none.
LEMMA RevocationQuiet == ASSUME TypeOK, NEW r \in Runner, RevokeRunner(r) PROVE Quiet
<1> DEFINE hit == {j \in Job : Device(j) = r /\ ActiveAttempts(j) # {}}
<1>1. /\ attempt' = [j \in Job |-> [n \in Attempts |->
                       IF j \in hit /\ attempt[j][n].active
                       THEN [attempt[j][n] EXCEPT !.proc = "stopping"]
                       ELSE attempt[j][n]]]
      /\ last' = last
  BY DEF RevokeRunner
<1>2. \A j \in Job, n \in Attempts :
        Nearer(attempt[j][n], [attempt[j][n] EXCEPT !.proc = "stopping"])
  BY DEF TypeOK, AttemptTypes, AttemptRow, Nearer
<1>3. \A j \in Job, n \in Attempts : Nearer(attempt[j][n], attempt[j][n])
  BY DEF Nearer
<1> HIDE DEF hit
<1>4. \A j \in Job : SameHands(j)
  BY <1>1 DEF SameHands, TypeOK, AttemptTypes, AttemptRow
<1> QED BY <1>1, <1>2, <1>3, <1>4 DEF Quiet

\* An approval that expires claims nothing.
LEMMA ExpiryQuiet ==
  ASSUME TypeOK, NEW j \in Job, NEW k \in Op, ApprovalExpired(j, k) PROVE Quiet
<1>1. last' = last
  BY DEF ApprovalExpired
<1>2. CASE attempt' = attempt
  BY SMTT(30), <1>1, <1>2, UntouchedQuiet
<1>3. CASE attempt' # attempt
  BY <1>1, <1>3, StoppingQuiet DEF ApprovalExpired, TypeOK
<1> QED BY SMTT(30), <1>2, <1>3

\* A step of the server is quiet, or claims a task, or lets one go.
LEMMA StepKinds ==
  ASSUME TypeOK, [Next]_vars
  PROVE  \/ Quiet
         \/ \E j \in Job : ClaimWork(j)
         \/ \E j \in Job, n \in Attempts : AttemptStopped(j, n)
<1>1. CASE UNCHANGED vars
  BY <1>1, UntouchedQuiet DEF vars
<1>2. ASSUME NEW j \in Job, StartDeadlineExpired(j) \/ HookLost(j) PROVE Quiet
  BY <1>2, UntouchedQuiet DEF StartDeadlineExpired, HookLost
<1> QED BY <1>1, <1>2, OwnerQuiet, DeviceQuiet, OperationQuiet, TimerQuiet, ExpiryQuiet,
  RevocationQuiet, PublisherQuiet DEF Next

-----------------------------------------------------------------------------
(* What follows *)

\* A claim: the task had no active attempt, and gets the one after the last.
LEMMA Claimed ==
  ASSUME TypeOK, NEW j \in Job, ClaimWork(j)
  PROVE  /\ last[j] + 1 \in Attempts
         /\ last' = [last EXCEPT ![j] = last[j] + 1]
         /\ \A m \in Attempts : ~attempt[j][m].active
         /\ \A i \in Job, m \in Attempts :
              <<i, m>> # <<j, last[j] + 1>> => attempt'[i][m] = attempt[i][m]
<1> DEFINE new == [active |-> TRUE, proc |-> "starting", lease |-> LeaseTicks,
                   budget |-> Budget, prepared |-> FALSE, stopRow |-> FALSE]
<1>1. /\ last[j] < MaxAttempts
      /\ last' = [last EXCEPT ![j] = @ + 1]
      /\ attempt' = [attempt EXCEPT ![j][last[j] + 1] = new]
      /\ ActiveAttempts(j) = {}
  BY DEF ClaimWork
<1> HIDE DEF new
<1>2. last[j] + 1 \in Attempts
  BY <1>1, ConstantsAssumption DEF TypeOK, AttemptTypes, Attempts
<1>3. \A i \in Job, m \in Attempts :
        <<i, m>> # <<j, last[j] + 1>> => attempt'[i][m] = attempt[i][m]
  BY <1>1, <1>2 DEF TypeOK, AttemptTypes
<1>4. \A m \in Attempts : ~attempt[j][m].active
  BY <1>1 DEF ActiveAttempts
<1> QED BY <1>1, <1>2, <1>3, <1>4

\* The end of an attempt: it was the active attempt of its task, and it is over.
LEMMA LetGo ==
  ASSUME TypeOK, NEW j \in Job, NEW n \in Attempts, AttemptStopped(j, n)
  PROVE  /\ last' = last /\ n = last[j] /\ attempt[j][n].active
         /\ attempt'[j][n] = NoAttempt
         /\ \A i \in Job, m \in Attempts :
              <<i, m>> # <<j, n>> => attempt'[i][m] = attempt[i][m]
         /\ \A i \in Job, m \in Attempts : Nearer(attempt[i][m], attempt'[i][m])
<1>1. /\ last' = last /\ n = last[j] /\ attempt[j][n].active
      /\ attempt' = [attempt EXCEPT ![j][n] = NoAttempt]
  BY DEF AttemptStopped
<1>2. /\ attempt'[j][n] = NoAttempt
      /\ \A i \in Job, m \in Attempts :
           <<i, m>> # <<j, n>> => attempt'[i][m] = attempt[i][m]
  BY <1>1 DEF TypeOK, AttemptTypes
<1>3. \A i \in Job, m \in Attempts : Nearer(attempt[i][m], attempt'[i][m])
  BY <1>2 DEF Nearer, NoAttempt
<1> QED BY <1>1, <1>2, <1>3

\* Whatever its owner, its device, its approvers, the timer and the administrators do and
\* in whatever order: only the newest attempt of a task can be active.
THEOREM OneAtATime == Spec => []OneContainment
<1>1. Init => OneContainment
  <2> SUFFICES ASSUME Init PROVE OneContainment
    OBVIOUS
  <2>1. attempt = [j \in Job |-> [n \in Attempts |-> NoAttempt]]
    BY DEF Init
  <2> QED BY <2>1 DEF OneContainment, NoAttempt
<1>2. TypeOK /\ OneContainment /\ [Next]_vars => OneContainment'
  <2> SUFFICES ASSUME TypeOK, OneContainment, [Next]_vars,
                      NEW i \in Job, NEW m \in Attempts, attempt'[i][m].active
               PROVE  m = last'[i]
    BY DEF OneContainment
  <2>1. CASE Quiet
    BY <2>1 DEF Quiet, Nearer, OneContainment
  <2>2. ASSUME NEW j \in Job, ClaimWork(j) PROVE m = last'[i]
    <3>1. CASE i = j /\ m = last[j] + 1
      BY <2>2, <3>1, Claimed DEF TypeOK, AttemptTypes
    <3>2. CASE i = j /\ m # last[j] + 1
      BY <2>2, <3>2, Claimed
    <3>3. CASE i # j
      BY <2>2, <3>3, Claimed DEF OneContainment, TypeOK, AttemptTypes
    <3> QED BY <3>1, <3>2, <3>3
  <2>3. ASSUME NEW j \in Job, NEW n \in Attempts, AttemptStopped(j, n) PROVE m = last'[i]
    BY <2>3, LetGo DEF Nearer, OneContainment
  <2> QED BY <2>1, <2>2, <2>3, StepKinds
<1> QED BY <1>1, <1>2, TypeCorrect, PTL DEF Spec

\* No step revives an attempt that ended, renews a lease that ran out, or lets a process
\* go on that is being stopped (heartbeat, record_event, claim_work).
THEOREM NothingRevives == Spec => AttemptsOnlyEnd
<1>1. TypeOK /\ [Next]_vars => [NoneRevived]_vars
  <2> SUFFICES ASSUME TypeOK, [Next]_vars PROVE NoneRevived
    OBVIOUS
  <2>1. CASE Quiet
    BY <2>1 DEF Quiet, Nearer, NoneRevived
  <2>2. ASSUME NEW j \in Job, ClaimWork(j) PROVE NoneRevived
    <3> SUFFICES ASSUME NEW i \in Job, NEW m \in Attempts
                 PROVE  /\ m <= last[i] /\ ~attempt[i][m].active => ~attempt'[i][m].active
                        /\ attempt[i][m].active => attempt'[i][m] = attempt[i][m]
      BY DEF NoneRevived
    <3>1. CASE i = j /\ m = last[j] + 1
      BY <2>2, <3>1, Claimed, ConstantsAssumption DEF TypeOK, AttemptTypes
    <3>2. CASE <<i, m>> # <<j, last[j] + 1>>
      BY <2>2, <3>2, Claimed
    <3> QED BY <3>1, <3>2
  <2>3. ASSUME NEW j \in Job, NEW n \in Attempts, AttemptStopped(j, n) PROVE NoneRevived
    BY <2>3, LetGo DEF Nearer, NoneRevived
  <2> QED BY <2>1, <2>2, <2>3, StepKinds
<1> QED BY <1>1, TypeCorrect, PTL DEF Spec, AttemptsOnlyEnd

-----------------------------------------------------------------------------
(* The limits *)

\* What counts against the limits can be counted.
LEMMA FewActive == IsFiniteSet(ActiveEverywhere) /\ IsFiniteSet(ActiveEverywhere')
<1>1. IsFiniteSet(Attempts)
  BY FS_Interval, ConstantsAssumption DEF Attempts
<1>2. IsFiniteSet(Job \X Attempts)
  BY <1>1, FiniteAssumption, FS_Product
<1>3. ActiveEverywhere \subseteq Job \X Attempts /\ ActiveEverywhere' \subseteq Job \X Attempts
  BY DEF ActiveEverywhere
<1> QED BY <1>2, <1>3, FS_Subset

\* A set that gains at most one element counts at most one more.
LEMMA OneMore ==
  ASSUME NEW A, IsFiniteSet(A), NEW x, NEW B, B \subseteq A \cup {x}
  PROVE  Cardinality(B) \in Nat /\ Cardinality(B) <= Cardinality(A) + 1
<1>1. /\ IsFiniteSet(A \cup {x})
      /\ Cardinality(A \cup {x}) = IF x \in A THEN Cardinality(A) ELSE Cardinality(A) + 1
  BY FS_AddElement
<1>2. IsFiniteSet(B) /\ Cardinality(B) <= Cardinality(A \cup {x})
  BY <1>1, FS_Subset
<1>3. Cardinality(A) \in Nat /\ Cardinality(B) \in Nat
  BY <1>2, FS_CardinalityType
<1> QED BY <1>1, <1>2, <1>3

\* The attempts that count for a device or, with the first conjunct, for the realm, when
\* nothing is claimed and when a task is.
LEMMA Counting ==
  ASSUME TypeOK, [Next]_vars, NEW S \in SUBSET Job
  PROVE  LET A == {e \in ActiveEverywhere : e[1] \in S}
             B == {e \in ActiveEverywhere' : e[1] \in S}
         IN \/ Cardinality(B) <= Cardinality(A)
            \/ \E j \in S : ClaimWork(j) /\ Cardinality(B) <= Cardinality(A) + 1
<1> DEFINE A == {e \in ActiveEverywhere : e[1] \in S}
           B == {e \in ActiveEverywhere' : e[1] \in S}
<1>1. IsFiniteSet(A)
  BY FewActive, FS_Subset
<1>2. CASE \A i \in Job, m \in Attempts : Nearer(attempt[i][m], attempt'[i][m])
  <2>1. B \subseteq A
    BY <1>2 DEF Nearer, ActiveEverywhere
  <2> HIDE DEF A, B
  <2>2. Cardinality(B) <= Cardinality(A)
    BY <1>1, <2>1, FS_Subset
  <2> QED BY <2>2 DEF A, B
<1>3. ASSUME NEW j \in Job, ClaimWork(j)
      PROVE  \/ Cardinality(B) <= Cardinality(A)
             \/ (j \in S /\ Cardinality(B) <= Cardinality(A) + 1)
  <2> DEFINE x == <<j, last[j] + 1>>
  <2>1. \A e \in Job \X Attempts : e # x => attempt'[e[1]][e[2]] = attempt[e[1]][e[2]]
    BY <1>3, Claimed
  <2>2. B \subseteq A \cup {x}
    BY <2>1 DEF ActiveEverywhere
  <2>3. CASE j \in S
    <3> HIDE DEF A, B, x
    <3> QED BY <1>1, <2>2, <2>3, OneMore
  <2>4. CASE j \notin S
    <3>1. B \subseteq A
      BY <2>2, <2>4
    <3> HIDE DEF A, B, x
    <3> QED BY <1>1, <3>1, FS_Subset
  <2> QED BY <2>3, <2>4
<1> QED BY <1>2, <1>3, StepKinds, LetGo DEF Quiet

\* A device never has more attempts than its capacity, and the realm never more than its
\* limit, lost attempts included: what claim_work counted still holds later.
THEOREM LimitsHold == Spec => []CapacityRespected
<1>1. Init => CapacityRespected
  <2> SUFFICES ASSUME Init PROVE CapacityRespected
    OBVIOUS
  <2>1. attempt = [j \in Job |-> [n \in Attempts |-> NoAttempt]]
    BY DEF Init
  <2>2. ActiveEverywhere = {}
    BY <2>1 DEF ActiveEverywhere, NoAttempt
  <2> QED BY <2>2, FS_EmptySet, ConstantsAssumption DEF CapacityRespected
<1>2. TypeOK /\ CapacityRespected /\ [Next]_vars => CapacityRespected'
  <2> SUFFICES ASSUME TypeOK, CapacityRespected, [Next]_vars PROVE CapacityRespected'
    OBVIOUS
  <2>1. Cardinality(ActiveEverywhere') <= ActiveLimit
    <3>1. /\ {e \in ActiveEverywhere : e[1] \in Job} = ActiveEverywhere
          /\ {e \in ActiveEverywhere' : e[1] \in Job} = ActiveEverywhere'
      BY DEF ActiveEverywhere
    <3>2. \/ Cardinality(ActiveEverywhere') <= Cardinality(ActiveEverywhere)
          \/ /\ Cardinality(ActiveEverywhere) < ActiveLimit
             /\ Cardinality(ActiveEverywhere') <= Cardinality(ActiveEverywhere) + 1
      BY <3>1, Counting, ZenonT(60) DEF ClaimWork
    <3>3. /\ Cardinality(ActiveEverywhere) \in Nat /\ Cardinality(ActiveEverywhere') \in Nat
          /\ Cardinality(ActiveEverywhere) <= ActiveLimit
      BY FewActive, FS_CardinalityType DEF CapacityRespected
    <3> QED BY <3>2, <3>3, ConstantsAssumption
  <2>2. ASSUME NEW r \in Runner
        PROVE  Cardinality({e \in ActiveEverywhere' : Device(e[1]) = r}) <= Capacity[r]
    <3> DEFINE S == {j \in Job : Device(j) = r}
               A == {e \in ActiveEverywhere : Device(e[1]) = r}
               B == {e \in ActiveEverywhere' : Device(e[1]) = r}
    <3>1. /\ {e \in ActiveEverywhere : e[1] \in S} = A
          /\ {e \in ActiveEverywhere' : e[1] \in S} = B
      BY DEF ActiveEverywhere
    <3>2. \A j \in S : ClaimWork(j) => Cardinality(A) < Capacity[r]
      <4>1. A = ActiveOn(r)
        BY DEF ActiveOn
      <4> HIDE DEF A
      <4> QED BY <4>1 DEF ClaimWork
    <3>3. IsFiniteSet(A) /\ IsFiniteSet(B)
      BY FewActive, FS_Subset
    <3>4. Cardinality(A) <= Capacity[r] /\ Capacity[r] \in Nat
      BY ConstantsAssumption DEF CapacityRespected
    <3> S \in SUBSET Job
      OBVIOUS
    <3> HIDE DEF S, A, B
    <3>5. \/ Cardinality(B) <= Cardinality(A)
          \/ Cardinality(A) < Capacity[r] /\ Cardinality(B) <= Cardinality(A) + 1
      BY <3>1, <3>2, Counting
    <3>6. Cardinality(A) \in Nat /\ Cardinality(B) \in Nat
      BY <3>3, FS_CardinalityType
    <3>7. Cardinality(B) <= Capacity[r]
      BY <3>4, <3>5, <3>6
    <3> QED BY <3>7 DEF B
  <2> QED BY <2>1, <2>2 DEF CapacityRespected, Device
<1> QED BY <1>1, <1>2, TypeCorrect, PTL DEF Spec

-----------------------------------------------------------------------------
(* The approvals: none stays open after its attempt *)

Open == {"pending", "approved"}

\* No handler leaves an approval open for an attempt that ended.
OpenIsLive ==
  \A j \in Job, k \in Op : op[j][k].approval \in Open =>
    op[j][k].at \in Attempts /\ attempt[j][op[j][k].at].active

\* An open approval stays with the attempt it was asked for.
NoneOpened(j) ==
  \A k \in Op : op'[j][k].approval \in Open =>
    op[j][k].approval \in Open /\ op'[j][k].at = op[j][k].at

\* invalidate_approvals and the loss of an attempt close approvals, and open none.
LEMMA Closing ==
  ASSUME NEW ops \in [Op -> OpRow], NEW n, NEW k \in Op
  PROVE  /\ InvalidateApprovals(ops, n)[k].approval \in Open =>
              /\ ops[k].approval \in Open /\ ops[k].at # n
              /\ InvalidateApprovals(ops, n)[k].at = ops[k].at
         /\ OrphanOps(ops, n)[k].approval \in Open =>
              /\ ops[k].approval \in Open /\ ops[k].at # n
              /\ OrphanOps(ops, n)[k].at = ops[k].at
<1>1. ops[k] \in OpRow
  OBVIOUS
<1>2. InvalidateApprovals(ops, n)[k].approval \in Open =>
        /\ ops[k].approval \in Open /\ ops[k].at # n
        /\ InvalidateApprovals(ops, n)[k].at = ops[k].at
  BY <1>1 DEF InvalidateApprovals, OpRow, Open
<1>3. /\ OrphanOps(ops, n)[k].approval = InvalidateApprovals(ops, n)[k].approval
      /\ OrphanOps(ops, n)[k].at = InvalidateApprovals(ops, n)[k].at
  BY <1>1 DEF InvalidateApprovals, OrphanOps, OpRow
<1> QED BY <1>2, <1>3

\* A change of the ledger of one task that opens nothing.
LEMMA Rewritten ==
  ASSUME WorkTypes, NEW j \in Job, NEW ops \in [Op -> OpRow],
         \A k \in Op : ops[k].approval \in Open =>
           op[j][k].approval \in Open /\ ops[k].at = op[j][k].at,
         op' = [op EXCEPT ![j] = ops]
  PROVE  \A i \in Job : NoneOpened(i)
BY DEF NoneOpened, WorkTypes

\* So does one new row.
LEMMA RewrittenRow ==
  ASSUME WorkTypes, NEW j \in Job, NEW k \in Op, NEW r \in OpRow,
         r.approval \in Open => op[j][k].approval \in Open /\ r.at = op[j][k].at,
         op' = [op EXCEPT ![j][k] = r]
  PROVE  \A i \in Job : NoneOpened(i)
BY DEF NoneOpened, WorkTypes

\* A handler that leaves the ledger alone opens nothing.
LEMMA UntouchedLedger == op' = op => \A i \in Job : NoneOpened(i)
BY DEF NoneOpened

\* invalidate_approvals, from wherever it is called, opens nothing.
LEMMA InvalidatedLedger ==
  ASSUME WorkTypes, NEW j \in Job, NEW n,
         \/ op' = [op EXCEPT ![j] = InvalidateApprovals(op[j], n)]
         \/ op' = [op EXCEPT ![j] = OrphanOps(op[j], n)]
  PROVE  \A i \in Job : NoneOpened(i)
<1>1. op[j] \in [Op -> OpRow]
  BY DEF WorkTypes
<1>2. CASE op' = [op EXCEPT ![j] = InvalidateApprovals(op[j], n)]
  <2> DEFINE ops == InvalidateApprovals(op[j], n)
  <2>1. /\ ops \in [Op -> OpRow]
        /\ \A k \in Op : ops[k].approval \in Open =>
             op[j][k].approval \in Open /\ ops[k].at = op[j][k].at
    BY <1>1, Ledger, Closing
  <2>2. op' = [op EXCEPT ![j] = ops]
    BY <1>2
  <2> HIDE DEF ops
  <2> QED BY <2>1, <2>2, Rewritten
<1>3. CASE op' = [op EXCEPT ![j] = OrphanOps(op[j], n)]
  <2> DEFINE ops == OrphanOps(op[j], n)
  <2>1. /\ ops \in [Op -> OpRow]
        /\ \A k \in Op : ops[k].approval \in Open =>
             op[j][k].approval \in Open /\ ops[k].at = op[j][k].at
    BY <1>1, Ledger, Closing
  <2>2. op' = [op EXCEPT ![j] = ops]
    BY <1>3
  <2> HIDE DEF ops
  <2> QED BY <2>1, <2>2, Rewritten
<1> QED BY <1>2, <1>3

\* A new outcome of an operation opens nothing.
LEMMA OutcomeLedger ==
  ASSUME WorkTypes, NEW j \in Job, NEW k \in Op, NEW q \in OpState,
         op' = [op EXCEPT ![j][k].state = q]
  PROVE  \A i \in Job : NoneOpened(i)
<1> DEFINE r == [op[j][k] EXCEPT !.state = q]
<1>1. op[j][k] \in OpRow
  BY DEF WorkTypes
<1>2. r \in OpRow
  BY <1>1, OpRows
<1>3. r.approval = op[j][k].approval /\ r.at = op[j][k].at
  BY <1>1 DEF OpRow
<1>4. op' = [op EXCEPT ![j][k] = r]
  BY DEF WorkTypes
<1> HIDE DEF r
<1> QED BY <1>2, <1>3, <1>4, RewrittenRow

\* Approvals are opened by propose_operation alone; every other handler of the ledger
\* decides, consumes or closes them.
LEMMA OperationOpens ==
  ASSUME TypeOK, NEW j \in Job, NEW n \in Attempts, NEW k \in Op, OperationStep(j, n, k)
  PROVE  (\A i \in Job : NoneOpened(i)) \/ \E b \in BOOLEAN : ProposeOperation(j, n, k, b)
<1> USE DEF TypeOK
<1>a. op[j] \in [Op -> OpRow] /\ op[j][k] \in OpRow
  BY DEF WorkTypes
<1>1. CASE Approve(j, n, k)
  <2> DEFINE r == [op[j][k] EXCEPT !.approval = "approved"]
  <2>1. r \in OpRow
    BY Zenon, <1>a, OpRows DEF ApprovalState
  <2>2. r.at = op[j][k].at /\ op[j][k].approval \in Open
    BY <1>1, <1>a DEF Approve, OpRow, Open
  <2>3. op' = [op EXCEPT ![j][k] = r]
    BY <1>1 DEF Approve, WorkTypes
  <2> HIDE DEF r
  <2> QED BY Zenon, <2>1, <2>2, <2>3, RewrittenRow
<1>2. CASE Reject(j, n, k)
  <2> DEFINE ops == [InvalidateApprovals(op[j], n) EXCEPT ![k].approval = "rejected"]
  <2>1. InvalidateApprovals(op[j], n) \in [Op -> OpRow]
    BY <1>a, Ledger
  <2>2. ops \in [Op -> OpRow]
    BY Zenon, <2>1, OpRows DEF ApprovalState
  <2>3. ops[k].approval = "rejected"
    BY <2>1 DEF OpRow
  <2>4. \A m \in Op : m # k => ops[m] = InvalidateApprovals(op[j], n)[m]
    BY <2>1
  <2>5. \A m \in Op : ops[m].approval \in Open =>
          op[j][m].approval \in Open /\ ops[m].at = op[j][m].at
    BY <1>a, <2>3, <2>4, Closing DEF Open
  <2>6. op' = [op EXCEPT ![j] = ops]
    BY <1>2 DEF Reject
  <2> HIDE DEF ops
  <2> QED BY Zenon, <2>2, <2>5, <2>6, Rewritten
<1>3. CASE ConsumeOperation(j, n, k)
  <2> DEFINE c == IF op[j][k].state = "proposed" THEN "consumed" ELSE op[j][k].approval
             r == [op[j][k] EXCEPT !.state = "started", !.approval = c]
  <2>1. c \in ApprovalState
    BY <1>a DEF OpRow, ApprovalState
  <2>2. r \in OpRow
    <3> HIDE DEF c
    <3> QED BY <1>a, <2>1, OpRows DEF OpState
  <2>3. r.at = op[j][k].at /\ (r.approval \in Open => op[j][k].approval \in Open)
    BY <1>a DEF OpRow, Open
  <2>4. op' = [op EXCEPT ![j][k].state = "started", ![j][k].approval =
                 IF op[j][k].state = "proposed" THEN "consumed" ELSE @]
    BY <1>3 DEF ConsumeOperation
  <2>5. op' = [op EXCEPT ![j][k] = r]
    BY <1>a, <2>4 DEF WorkTypes, OpRow
  <2> HIDE DEF r
  <2> QED BY <2>2, <2>3, <2>5, RewrittenRow
<1>4. ASSUME NEW o \in {"succeeded", "failed", "outcome_unknown", "cancelled"},
             ToolFinished(j, n, k, o)
      PROVE  \A i \in Job : NoneOpened(i)
  BY <1>4, OutcomeLedger DEF ToolFinished, OpState
<1>5. ASSUME NEW b, VerificationFinished(j, n, k, b) PROVE \A i \in Job : NoneOpened(i)
  BY <1>5, UntouchedLedger DEF VerificationFinished
<1>6. CASE ReconcileOperation(j, n, k)
  BY <1>6, OutcomeLedger DEF ReconcileOperation, OpState
<1>7. ASSUME NEW o \in {"succeeded", "failed", "cancelled"}, NEW t,
             ReconcileLocalOperation(j, n, k, o, t)
      PROVE  \A i \in Job : NoneOpened(i)
  BY <1>7, OutcomeLedger DEF ReconcileLocalOperation, OpState
<1> QED BY <1>1, <1>2, <1>3, <1>4, <1>5, <1>6, <1>7 DEF OperationStep

\* Nothing else opens one.
LEMMA OnlyProposalsOpen ==
  ASSUME TypeOK, [Next]_vars
  PROVE  \/ \A i \in Job : NoneOpened(i)
         \/ \E j \in Job, n \in Attempts, k \in Op, b \in BOOLEAN :
              ProposeOperation(j, n, k, b)
<1> USE DEF TypeOK
<1>1. CASE UNCHANGED vars
  BY <1>1, UntouchedLedger DEF vars
<1>2. ASSUME NEW j \in Job, OwnerStep(j) PROVE \A i \in Job : NoneOpened(i)
  <2>1. CASE CreateQueued(j) \/ CreateBlocked(j) \/ CreateDraft(j) \/ CompleteDraft(j)
    BY <2>1, UntouchedLedger DEF CreateQueued, CreateBlocked, CreateDraft, CompleteDraft
  <2>2. CASE CancelJob(j)
    BY <2>2, UntouchedLedger, InvalidatedLedger DEF CancelJob, StopAttempt
  <2>3. CASE AddInput(j)
    BY <2>3, UntouchedLedger, InvalidatedLedger DEF AddInput
  <2>4. CASE ResumeJob(j) \/ DeliverPrivately(j) \/ AccessChange(j)
    BY <2>4, UntouchedLedger DEF ResumeJob, DeliverPrivately, AccessChange
  <2> QED BY <1>2, <2>1, <2>2, <2>3, <2>4 DEF OwnerStep
<1>3. ASSUME NEW j \in Job, ClaimWork(j) \/ StartDeadlineExpired(j) \/ HookLost(j)
      PROVE  \A i \in Job : NoneOpened(i)
  BY <1>3, UntouchedLedger DEF ClaimWork, StartDeadlineExpired, HookLost
<1>4. ASSUME NEW j \in Job, NEW n \in Attempts, DeviceStep(j, n)
      PROVE  \A i \in Job : NoneOpened(i)
  <2>1. CASE \E t \in Tree : WorkspacePrepared(j, n, t) \/ SaveCheckpoint(j, n, t)
    BY <2>1, UntouchedLedger DEF WorkspacePrepared, SaveCheckpoint
  <2>2. CASE AttemptInterrupted(j, n) \/ AttemptStopped(j, n)
    BY <2>2, InvalidatedLedger DEF AttemptInterrupted, AttemptStopped
  <2>3. CASE AttemptStarted(j, n) \/ InputRequested(j, n) \/ EmptyResult(j, n)
             \/ DeliverInputs(j, n) \/ Heartbeat(j, n)
    BY <2>3, UntouchedLedger
       DEF AttemptStarted, InputRequested, EmptyResult, DeliverInputs, Heartbeat
  <2>4. CASE \E r \in Result, t \in TreeHash : ResultPrepared(j, n, r, t)
    BY <2>4, UntouchedLedger DEF ResultPrepared
  <2>5. CASE Controls(j, n)
    BY <2>5, UntouchedLedger, InvalidatedLedger DEF Controls, StopAttempt
  <2>6. ASSUME NEW s \in Inputs, NEW o,
               InputApplied(j, n, s) \/ InputUncertain(j, n, s) \/ ReconcileInput(j, n, s, o)
        PROVE  \A i \in Job : NoneOpened(i)
    BY <2>6, UntouchedLedger DEF InputApplied, InputUncertain, ReconcileInput
  <2> QED BY <1>4, <2>1, <2>2, <2>3, <2>4, <2>5, <2>6 DEF DeviceStep
<1>5. ASSUME NEW j \in Job, NEW n \in Attempts, TimerStep(j, n)
      PROVE  \A i \in Job : NoneOpened(i)
  BY <1>5, UntouchedLedger, InvalidatedLedger DEF TimerStep, Elapse, LeaseLost, LoseLease
<1>6. ASSUME NEW j \in Job, NEW k \in Op, ApprovalExpired(j, k)
      PROVE  \A i \in Job : NoneOpened(i)
  <2> DEFINE expired == [op[j] EXCEPT ![k].approval = "expired"]
             n == op[j][k].at
  <2>a. op[j] \in [Op -> OpRow] /\ "expired" \in ApprovalState
    BY DEF WorkTypes, ApprovalState
  <2>1. expired \in [Op -> OpRow]
    BY <2>a, OpRows
  <2>2. \A m \in Op : expired[m].approval \in Open =>
          op[j][m].approval \in Open /\ expired[m].at = op[j][m].at
    BY DEF WorkTypes, OpRow, Open
  <2>3. \/ op' = [op EXCEPT ![j] = expired]
        \/ op' = [op EXCEPT ![j] = InvalidateApprovals(expired, n)]
    BY <1>6 DEF ApprovalExpired
  <2> HIDE DEF expired, n
  <2>4. CASE op' = [op EXCEPT ![j] = expired]
    BY <2>1, <2>2, <2>4, Rewritten
  <2>5. CASE op' = [op EXCEPT ![j] = InvalidateApprovals(expired, n)]
    <3> DEFINE ops == InvalidateApprovals(expired, n)
    <3>1. /\ ops \in [Op -> OpRow]
          /\ \A m \in Op : ops[m].approval \in Open =>
               op[j][m].approval \in Open /\ ops[m].at = op[j][m].at
      BY <2>1, <2>2, Ledger, Closing
    <3>2. op' = [op EXCEPT ![j] = ops]
      BY <2>5
    <3> HIDE DEF ops
    <3> QED BY <3>1, <3>2, Rewritten
  <2> QED BY <2>3, <2>4, <2>5
<1>7. ASSUME NEW r \in Runner, RevokeRunner(r) PROVE \A i \in Job : NoneOpened(i)
  BY <1>7, UntouchedLedger DEF RevokeRunner
<1>8. ASSUME NEW p \in Publisher,
             PublishStep(p) \/ PassStep(p) \/ HookStep(p) \/ PublisherKilled(p)
      PROVE  \A i \in Job : NoneOpened(i)
  <2>1. CASE PublishStep(p)
    BY <2>1, UntouchedLedger DEF PublishStep, ReadProposal, CommitResult, BlockPublication
  <2>2. CASE PassStep(p)
    BY <2>2, UntouchedLedger DEF PassStep, PassList, PassMark, PassFinish
  <2>3. CASE HookStep(p) \/ PublisherKilled(p)
    BY <2>3, UntouchedLedger DEF HookStep, HookStart, PublisherKilled
  <2> QED BY <1>8, <2>1, <2>2, <2>3
<1> QED BY <1>1, <1>2, <1>3, <1>4, <1>5, <1>6, <1>7, <1>8, OperationOpens DEF Next

\* An open approval belongs to an attempt, and that attempt is live.
LEMMA OpenStaysLive == Spec => []OpenIsLive
<1>1. Init => OpenIsLive
  <2> SUFFICES ASSUME Init PROVE OpenIsLive
    OBVIOUS
  <2>1. op = [j \in Job |-> [k \in Op |-> NoOp]]
    BY DEF Init
  <2> QED BY <2>1 DEF OpenIsLive, NoOp, Open
<1>2. TypeOK /\ OpenIsLive /\ [Next]_vars => OpenIsLive'
  <2> SUFFICES ASSUME TypeOK, OpenIsLive, [Next]_vars,
                      NEW i \in Job, NEW k \in Op, op'[i][k].approval \in Open
               PROVE  op'[i][k].at \in Attempts /\ attempt'[i][op'[i][k].at].active
    BY DEF OpenIsLive
  <2> DEFINE m == op'[i][k].at
  <2>a. NoneOpened(i) => m = op[i][k].at /\ m \in Attempts /\ attempt[i][m].active
    BY DEF NoneOpened, OpenIsLive
  <2>1. ASSUME NEW j \in Job, NEW n \in Attempts, NEW h \in Op, NEW b \in BOOLEAN,
               ProposeOperation(j, n, h, b)
        PROVE  m \in Attempts /\ attempt'[i][m].active
    <3>1. attempt' = attempt /\ attempt[j][n].active
      BY <2>1 DEF ProposeOperation, Executable
    <3>2. CASE i = j /\ k = h
      <4>1. op'[j][h].at = n
        BY <2>1 DEF ProposeOperation, TypeOK, WorkTypes
      <4> QED BY <3>1, <3>2, <4>1
    <3>3. CASE ~(i = j /\ k = h)
      <4>1. op'[i][k] = op[i][k]
        BY <2>1, <3>3 DEF ProposeOperation, TypeOK, WorkTypes
      <4> QED BY <3>1, <4>1 DEF OpenIsLive
    <3> QED BY <3>2, <3>3
  <2>2. CASE NoneOpened(i) /\ Quiet
    BY <2>2, <2>a DEF Quiet, SameHands
  <2>3. ASSUME NoneOpened(i), NEW j \in Job, ClaimWork(j)
        PROVE  m \in Attempts /\ attempt'[i][m].active
    <3> HIDE DEF m
    <3> QED BY <2>3, <2>a, Claimed
  <2>4. ASSUME NoneOpened(i), NEW j \in Job, NEW n \in Attempts, AttemptStopped(j, n)
        PROVE  m \in Attempts /\ attempt'[i][m].active
    <3>1. CASE i = j
      <4>1. op'[j] = OrphanOps(op[j], n) /\ op[j] \in [Op -> OpRow]
        BY <2>4 DEF AttemptStopped, TypeOK, WorkTypes
      <4>2. m # n
        BY <3>1, <4>1, Closing
      <4> HIDE DEF m
      <4> QED BY <2>4, <2>a, <4>2, LetGo
    <3>2. CASE i # j
      <4> HIDE DEF m
      <4> QED BY <2>4, <2>a, <3>2, LetGo
    <3> QED BY <3>1, <3>2
  <2> QED BY <2>1, <2>2, <2>3, <2>4, OnlyProposalsOpen, StepKinds
<1> QED BY <1>1, <1>2, TypeCorrect, PTL DEF Spec

\* However an attempt ends, and whatever races with its end: nobody can approve, and
\* nothing can consume, on behalf of an attempt that is over (invalidate_approvals).
THEOREM ApprovalsDieWithTheAttempt == Spec => []OpenApprovalIsLive
<1>1. OpenIsLive => OpenApprovalIsLive
  BY DEF OpenIsLive, OpenApprovalIsLive, Open
<1> QED BY <1>1, OpenStaysLive, PTL

-----------------------------------------------------------------------------
(* What is published *)

\* The task is over: its result is out, and nothing of it is left to do.
Settled(i) ==
  /\ status[i] = "completed"
  /\ receipt[i] = last[i] /\ proposal[i].by = last[i]
  /\ \A n \in Attempts : ~attempt[i][n].active
  /\ Unapplied(i) = {} /\ UnresolvedOps(i) = {}
  /\ resultRow[i] = "delivered"

PublicationInv ==
  \A i \in Job : IF receipt[i] # 0 THEN Settled(i) ELSE status[i] # "completed"

\* Nothing that says what was published changes.
Frozen(i) ==
  UNCHANGED <<status[i], receipt[i], proposal[i], resultRow[i], last[i], attempt[i],
              sequence[i], input[i], op[i], tree[i]>>

\* The task goes on, unpublished.
Unpublished(i) == receipt[i] = 0 /\ receipt'[i] = 0 /\ status'[i] # "completed"

\* Its result is published, and nothing else happens to it.
Publishes(i) ==
  /\ receipt[i] = 0 /\ verify_result(i) = "none"
  /\ receipt'[i] = last[i] /\ status'[i] = "completed" /\ resultRow'[i] = "delivered"
  /\ UNCHANGED <<proposal[i], last[i], attempt[i], sequence[i], input[i], op[i], tree[i]>>

Proceeds(i) == Frozen(i) \/ Unpublished(i) \/ Publishes(i)

\* What PublicationInv says of the task a handler is about.
LEMMA OverOrNot ==
  ASSUME TypeOK, PublicationInv, NEW j \in Job
  PROVE  /\ receipt[j] = 0 => status[j] # "completed"
         /\ receipt[j] # 0 => /\ status[j] = "completed" /\ status[j] \notin EXECUTING
                              /\ \A n \in Attempts : ~attempt[j][n].active
                              /\ Unapplied(j) = {} /\ UnresolvedOps(j) = {}
                              /\ resultRow[j] = "delivered"
BY DEF PublicationInv, Settled, EXECUTING

\* What people do, or a timer, a claim or a lost hook, leaves a published task alone.
LEMMA OwnerProceeds ==
  ASSUME TypeOK, PublicationInv, NEW i \in Job, NEW j \in Job,
         OwnerStep(j) \/ ClaimWork(j) \/ StartDeadlineExpired(j) \/ HookLost(j)
  PROVE  Proceeds(i)
<1> USE OverOrNot
    DEF TypeOK, JobTypes, ResultTypes, AttemptTypes, InputTypes, WorkTypes, transition
<1>1. CASE CreateQueued(j)
  BY <1>1 DEF CreateQueued, Proceeds, Frozen, Unpublished
<1>2. CASE CreateBlocked(j)
  BY <1>2 DEF CreateBlocked, Proceeds, Frozen, Unpublished
<1>3. CASE CreateDraft(j)
  BY <1>3 DEF CreateDraft, Proceeds, Frozen, Unpublished
<1>4. CASE CompleteDraft(j)
  BY <1>4 DEF CompleteDraft, Proceeds, Frozen, Unpublished
<1>5. CASE CancelJob(j)
  BY <1>5, ZenonT(60) DEF CancelJob, StopAttempt, Proceeds, Frozen, Unpublished
<1>6. CASE AddInput(j)
  BY <1>6 DEF AddInput, EXECUTING, Proceeds, Frozen, Unpublished
<1>7. CASE ResumeJob(j)
  BY <1>7 DEF ResumeJob, Proceeds, Frozen, Unpublished
<1>8. CASE DeliverPrivately(j)
  BY <1>8 DEF DeliverPrivately, Publish, Proceeds, Frozen, Publishes
<1>9. CASE AccessChange(j)
  BY <1>9 DEF AccessChange, Proceeds, Frozen
<1>10. CASE ClaimWork(j)
  BY <1>10 DEF ClaimWork, Proceeds, Frozen, Unpublished
<1>11. CASE StartDeadlineExpired(j)
  BY <1>11 DEF StartDeadlineExpired, Proceeds, Frozen, Unpublished
<1>12. CASE HookLost(j)
  BY <1>12 DEF HookLost, Proceeds, Frozen
<1> QED BY <1>1, <1>2, <1>3, <1>4, <1>5, <1>6, <1>7, <1>8, <1>9, <1>10, <1>11, <1>12
  DEF OwnerStep

\* Nothing a device sends late, or twice, reaches a published task.
LEMMA DeviceProceeds ==
  ASSUME TypeOK, PublicationInv, NEW i \in Job, NEW j \in Job, NEW n \in Attempts,
         DeviceStep(j, n)
  PROVE  Proceeds(i)
<1> USE OverOrNot
    DEF TypeOK, JobTypes, ResultTypes, AttemptTypes, InputTypes, WorkTypes, transition
<1>1. ASSUME NEW t \in Tree, WorkspacePrepared(j, n, t) PROVE Proceeds(i)
  BY <1>1 DEF WorkspacePrepared, Reporting, Executable, Proceeds, Frozen, Unpublished
<1>2. ASSUME NEW t \in Tree, SaveCheckpoint(j, n, t) PROVE Proceeds(i)
  BY <1>2 DEF SaveCheckpoint, Executable, Proceeds, Frozen, Unpublished
<1>3. CASE AttemptStarted(j, n)
  BY <1>3 DEF AttemptStarted, Reporting, Executable, Proceeds, Frozen, Unpublished
<1>4. CASE AttemptInterrupted(j, n)
  BY <1>4 DEF AttemptInterrupted, Proceeds, Frozen, Unpublished
<1>5. CASE AttemptStopped(j, n)
  BY <1>5 DEF AttemptStopped, TERMINAL, Proceeds, Frozen, Unpublished
<1>6. CASE InputRequested(j, n)
  BY <1>6 DEF InputRequested, Reporting, Executable, Proceeds, Frozen, Unpublished
<1>7. CASE EmptyResult(j, n)
  BY <1>7 DEF EmptyResult, Reporting, Executable, Proceeds, Frozen, Unpublished
<1>8. ASSUME NEW r \in Result, NEW t \in TreeHash, ResultPrepared(j, n, r, t)
      PROVE  Proceeds(i)
  BY <1>8 DEF ResultPrepared, Reporting, Executable, Proceeds, Frozen, Unpublished
<1>9. CASE DeliverInputs(j, n)
  BY <1>9 DEF DeliverInputs, Executable, Proceeds, Frozen, Unpublished
<1>10. CASE Heartbeat(j, n)
  BY <1>10 DEF Heartbeat, Executable, Proceeds, Frozen, Unpublished
<1>11. CASE Controls(j, n)
  BY <1>11 DEF Controls, StopAttempt, Proceeds, Frozen, Unpublished
<1>12. ASSUME NEW s \in Inputs, InputApplied(j, n, s) PROVE Proceeds(i)
  BY <1>12 DEF InputApplied, Reporting, Executable, Proceeds, Frozen, Unpublished
<1>13. ASSUME NEW s \in Inputs, InputUncertain(j, n, s) PROVE Proceeds(i)
  BY <1>13 DEF InputUncertain, Reporting, Executable, Proceeds, Frozen, Unpublished
<1>14. ASSUME NEW s \in Inputs, NEW o, ReconcileInput(j, n, s, o) PROVE Proceeds(i)
  <2>1. s \in Unapplied(j)
    BY <1>14, ConstantsAssumption DEF ReconcileInput, Unapplied, Inputs
  <2> QED BY <1>14, <2>1 DEF ReconcileInput, Proceeds, Frozen, Unpublished
<1> QED BY <1>1, <1>2, <1>3, <1>4, <1>5, <1>6, <1>7, <1>8, <1>9, <1>10, <1>11, <1>12,
  <1>13, <1>14 DEF DeviceStep

\* An operation whose outcome was unknown is not one of a published task.
LEMMA OperationProceeds ==
  ASSUME TypeOK, PublicationInv, NEW i \in Job, NEW j \in Job, NEW n \in Attempts,
         NEW k \in Op, OperationStep(j, n, k)
  PROVE  Proceeds(i)
<1> USE OverOrNot
    DEF TypeOK, JobTypes, ResultTypes, AttemptTypes, InputTypes, WorkTypes, transition
<1>1. ASSUME NEW b \in BOOLEAN, ProposeOperation(j, n, k, b) PROVE Proceeds(i)
  BY <1>1 DEF ProposeOperation, Executable, Proceeds, Frozen, Unpublished
<1>2. CASE Approve(j, n, k)
  BY <1>2 DEF Approve, Executable, Proceeds, Frozen, Unpublished
<1>3. CASE Reject(j, n, k)
  BY <1>3 DEF Reject, Executable, Proceeds, Frozen, Unpublished
<1>4. CASE ConsumeOperation(j, n, k)
  BY <1>4 DEF ConsumeOperation, Executable, Proceeds, Frozen, Unpublished
<1>5. ASSUME NEW o, ToolFinished(j, n, k, o) PROVE Proceeds(i)
  BY <1>5 DEF ToolFinished, Reporting, Executable, Proceeds, Frozen, Unpublished
<1>6. ASSUME NEW b, VerificationFinished(j, n, k, b) PROVE Proceeds(i)
  BY <1>6 DEF VerificationFinished, Reporting, Executable, Proceeds, Frozen, Unpublished
<1>7. CASE ReconcileOperation(j, n, k)
  <2>1. k \in UnresolvedOps(j)
    BY <1>7 DEF ReconcileOperation, UnresolvedOps
  <2> QED BY <1>7, <2>1 DEF ReconcileOperation, Proceeds, Frozen, Unpublished
<1>8. ASSUME NEW o, NEW t, ReconcileLocalOperation(j, n, k, o, t) PROVE Proceeds(i)
  <2>1. k \in UnresolvedOps(j)
    BY <1>8 DEF ReconcileLocalOperation, UnresolvedOps
  <2> QED BY <1>8, <2>1 DEF ReconcileLocalOperation, Proceeds, Frozen, Unpublished
<1> QED BY <1>1, <1>2, <1>3, <1>4, <1>5, <1>6, <1>7, <1>8 DEF OperationStep

\* Neither the clock, nor an approval nobody gave in time, nor the loss of the device.
LEMMA TimeProceeds ==
  ASSUME TypeOK, PublicationInv, OpenIsLive, NEW i \in Job,
         \/ \E j \in Job, n \in Attempts : TimerStep(j, n)
         \/ \E j \in Job, k \in Op : ApprovalExpired(j, k)
         \/ \E r \in Runner : RevokeRunner(r)
  PROVE  Proceeds(i)
<1> USE OverOrNot
    DEF TypeOK, JobTypes, ResultTypes, AttemptTypes, InputTypes, WorkTypes, transition
<1>1. ASSUME NEW j \in Job, NEW n \in Attempts, Elapse(j, n) PROVE Proceeds(i)
  BY <1>1 DEF Elapse, Proceeds, Frozen, Unpublished
<1>2. ASSUME NEW j \in Job, NEW n \in Attempts, LeaseLost(j, n) PROVE Proceeds(i)
  BY SMTT(30), <1>2 DEF LeaseLost, LoseLease, Proceeds, Frozen, Unpublished
<1>3. ASSUME NEW j \in Job, NEW k \in Op, ApprovalExpired(j, k) PROVE Proceeds(i)
  <2>1. op[j][k].at \in Attempts /\ attempt[j][op[j][k].at].active
    BY Zenon, <1>3 DEF ApprovalExpired, OpenIsLive, Open
  <2>2. receipt[j] = 0
    BY <2>1
  <2> QED BY ZenonT(60), <1>3, <2>1, <2>2 DEF ApprovalExpired, Proceeds, Frozen, Unpublished
<1>4. ASSUME NEW r \in Runner, RevokeRunner(r) PROVE Proceeds(i)
  <2>1. UNCHANGED <<resultVars, last, inputVars, op, tree>>
    BY <1>4 DEF RevokeRunner
  <2>2. CASE receipt[i] = 0
    BY <1>4, <2>1, <2>2 DEF RevokeRunner, Proceeds, Unpublished
  <2>3. CASE receipt[i] # 0
    <3>1. ActiveAttempts(i) = {}
      BY <2>3 DEF ActiveAttempts
    <3>2. status'[i] = status[i]
      BY <1>4, <3>1 DEF RevokeRunner
    <3>3. attempt'[i] = [n \in Attempts |-> attempt[i][n]]
      BY <1>4, <3>1 DEF RevokeRunner
    <3>4. attempt[i] = [n \in Attempts |-> attempt[i][n]]
      OBVIOUS
    <3> QED BY <2>1, <3>2, <3>3, <3>4 DEF Proceeds, Frozen
  <2> QED BY <2>2, <2>3
<1> QED BY <1>1, <1>2, <1>3, <1>4 DEF TimerStep

\* Of the publishers only a commit publishes, and a failure recorded late finds the
\* task no longer in verifying.
LEMMA PublisherProceeds ==
  ASSUME TypeOK, PublicationInv, NEW i \in Job, NEW p \in Publisher,
         PublishStep(p) \/ PassStep(p) \/ HookStep(p) \/ PublisherKilled(p)
  PROVE  Proceeds(i)
<1> USE OverOrNot DEF TypeOK, JobTypes, ResultTypes, transition
<1>1. CASE ReadProposal(p)
  BY <1>1 DEF ReadProposal, Proceeds, Frozen
<1>2. CASE CommitResult(p)
  <2> DEFINE j == pub[p].job
  <2>1. j \in Job
    BY <1>2 DEF CommitResult, PubTypes
  <2>2. UNCHANGED <<attemptVars, inputVars, op, tree>>
    BY <1>2 DEF CommitResult
  <2>3. \/ UNCHANGED <<jobVars, resultVars>>
        \/ /\ receipt[j] = 0 /\ verify_result(j) = "none"
           /\ Publish(j) /\ proposal' = proposal
    BY <1>2 DEF CommitResult, Refusal
  <2> HIDE DEF j
  <2>4. CASE UNCHANGED <<jobVars, resultVars>>
    BY <2>2, <2>4 DEF Proceeds, Frozen
  <2>5. CASE /\ receipt[j] = 0 /\ verify_result(j) = "none"
             /\ Publish(j) /\ proposal' = proposal
    BY <2>1, <2>2, <2>5 DEF Publish, Proceeds, Publishes, Frozen
  <2> QED BY <2>3, <2>4, <2>5
<1>3. CASE BlockPublication(p)
  <2> DEFINE j == pub[p].job
  <2>1. j \in Job
    BY <1>3 DEF BlockPublication, PubTypes
  <2>2. UNCHANGED <<proposal, receipt, attemptVars, inputVars, op, tree>>
    BY <1>3 DEF BlockPublication
  <2> DEFINE s == IF pub[p].raised = "checks" THEN "failed" ELSE "verifying"
             row == IF pub[p].raised # "other" /\ resultRow[j] # "delivered"
                    THEN "blocked" ELSE resultRow[j]
  <2>3. \/ UNCHANGED <<status, resultRow>>
        \/ /\ status[j] = "verifying"
           /\ status' = [status EXCEPT ![j] = s]
           /\ resultRow' = [resultRow EXCEPT ![j] = row]
    BY <1>3 DEF BlockPublication
  <2>4. s # "completed"
    OBVIOUS
  <2> HIDE DEF j, s, row
  <2> QED BY <2>1, <2>2, <2>3, <2>4 DEF Proceeds, Frozen, Unpublished
<1>4. CASE PassList(p)
  BY <1>4 DEF PassList, Proceeds, Frozen
<1>5. ASSUME NEW j \in Job, PassMark(p, j) PROVE Proceeds(i)
  BY <1>5 DEF PassMark, Proceeds, Frozen, Unpublished
<1>6. CASE PassFinish(p)
  <2>1. pub[p].job \in Job
    BY <1>6 DEF PassFinish, PubTypes
  <2> QED BY <1>6, <2>1 DEF PassFinish, Proceeds, Frozen, Unpublished
<1>7. CASE HookStep(p) \/ PublisherKilled(p)
  BY <1>7 DEF HookStep, HookStart, PublisherKilled, Proceeds, Frozen
<1> QED BY <1>1, <1>2, <1>3, <1>4, <1>5, <1>6, <1>7 DEF PublishStep, PassStep

\* So every step leaves the publication of a task as it is, before it, or makes it.
LEMMA StepProceeds ==
  ASSUME TypeOK, PublicationInv, OpenIsLive, [Next]_vars, NEW i \in Job
  PROVE  Proceeds(i)
<1>1. CASE UNCHANGED vars
  BY <1>1 DEF vars, Proceeds, Frozen
<1> QED BY <1>1, OwnerProceeds, DeviceProceeds, OperationProceeds, TimeProceeds,
        PublisherProceeds DEF Next

\* Every step starts and ends with publications that are earned (publish_result).
LEMMA PublicationHolds == Spec => []PublicationInv
<1>1. Init => PublicationInv
  <2> SUFFICES ASSUME Init, NEW j \in Job PROVE receipt[j] = 0 /\ status[j] # "completed"
    BY DEF PublicationInv
  <2> QED BY DEF Init
<1>2. TypeOK /\ OneContainment /\ OpenIsLive /\ PublicationInv /\ [Next]_vars => PublicationInv'
  <2> SUFFICES ASSUME TypeOK, OneContainment, OpenIsLive, PublicationInv, [Next]_vars,
                      NEW i \in Job
               PROVE  (IF receipt[i] # 0 THEN Settled(i) ELSE status[i] # "completed")'
    BY DEF PublicationInv
  <2>1. IF receipt[i] # 0 THEN Settled(i) ELSE status[i] # "completed"
    BY DEF PublicationInv
  <2>2. CASE Frozen(i)
    BY <2>1, <2>2 DEF Frozen, Settled, Unapplied, UnresolvedOps
  <2>3. CASE Unpublished(i)
    BY <2>3 DEF Unpublished
  <2>4. CASE Publishes(i)
    <3>1. /\ last[i] # 0 /\ last[i] \in Attempts /\ ~attempt[i][last[i]].active
          /\ proposal[i].by = last[i] /\ Unapplied(i) = {} /\ UnresolvedOps(i) = {}
      BY <2>4 DEF Publishes, verify_result, TypeOK, AttemptTypes, Attempts
    <3>2. \A n \in Attempts : ~attempt[i][n].active
      BY <3>1 DEF OneContainment
    <3> QED BY <2>4, <3>1, <3>2 DEF Publishes, Settled, Unapplied, UnresolvedOps
  <2> QED BY <2>2, <2>3, <2>4, StepProceeds DEF Proceeds
<1> QED BY <1>1, <1>2, TypeCorrect, OneAtATime, OpenStaysLive, PTL DEF Spec

\* A result goes out of the newest attempt, when its process is gone, every input is
\* acknowledged and every operation accounted for; and that alone completes a task
\* (publish_result, verify_result, _block_publication).
THEOREM CompletionIsEarned == Spec => []CompletedIsSettled
<1>1. PublicationInv => CompletedIsSettled
  BY DEF PublicationInv, Settled, CompletedIsSettled, ActiveAttempts
<1> QED BY <1>1, PublicationHolds, PTL

\* No late event, stop, approval, pass or hook changes the record of a published task.
THEOREM NothingAfterTheResult == Spec => CompletedIsFinal
<1>1. TypeOK /\ PublicationInv /\ OpenIsLive /\ [Next]_vars => PublishedUntouched
  <2> SUFFICES ASSUME TypeOK, PublicationInv, OpenIsLive, [Next]_vars,
                      NEW i \in Job, receipt[i] # 0
               PROVE  Frozen(i)
    BY DEF PublishedUntouched, Frozen
  <2> QED BY StepProceeds DEF Proceeds, Unpublished, Publishes
<1>2. TypeOK /\ PublicationInv /\ OpenIsLive /\ [Next]_vars => [PublishedUntouched]_vars
  BY <1>1
<1> QED BY <1>2, TypeCorrect, PublicationHolds, OpenStaysLive, PTL
        DEF Spec, CompletedIsFinal

-----------------------------------------------------------------------------
(* The refinement: a claim takes the task, the end of an attempt releases  *)
(* it, a commit hands its result in, and no other step can be seen         *)

\* A task is held by its newest attempt, or by nobody.
LEMMA HeldByLast ==
  ASSUME NEW i \in Job
  PROVE  /\ (\E m \in Attempts : attempt[i][m].active) => Held(i) = last[i]
         /\ (\A m \in Attempts : ~attempt[i][m].active) => Held(i) = 0
BY DEF Held, ActiveAttempts

\* So whoever leaves the attempts alone leaves the holders alone.
LEMMA SameHolder ==
  ASSUME NEW i \in Job, last'[i] = last[i], SameHands(i)
  PROVE  Held(i)' = Held(i)
BY DEF Held, ActiveAttempts, SameHands

\* Only a commit writes a receipt, and it writes nothing about the attempts.
LEMMA ReceiptStep ==
  ASSUME TypeOK, [Next]_vars
  PROVE  \/ receipt' = receipt
         \/ \E j \in Job : /\ receipt[j] = 0 /\ verify_result(j) = "none"
                           /\ receipt' = [receipt EXCEPT ![j] = last[j]]
                           /\ UNCHANGED attemptVars
<1> DEFINE Same == receipt' = receipt
           Out(j) == /\ receipt[j] = 0 /\ verify_result(j) = "none"
                     /\ receipt' = [receipt EXCEPT ![j] = last[j]]
                     /\ UNCHANGED attemptVars
<1>1. CASE UNCHANGED vars
  BY <1>1 DEF vars
<1>2. ASSUME NEW j \in Job, OwnerStep(j) PROVE Same \/ Out(j)
  <2>1. CASE DeliverPrivately(j)
    BY <2>1 DEF DeliverPrivately, Publish
  <2>2. CASE CreateQueued(j) \/ CreateBlocked(j) \/ CreateDraft(j) \/ CompleteDraft(j)
    BY <2>2 DEF CreateQueued, CreateBlocked, CreateDraft, CompleteDraft
  <2>3. CASE CancelJob(j) \/ AddInput(j) \/ ResumeJob(j) \/ AccessChange(j)
    BY <2>3 DEF CancelJob, AddInput, ResumeJob, AccessChange
  <2> QED BY <1>2, <2>1, <2>2, <2>3 DEF OwnerStep
<1>3. ASSUME NEW j \in Job, ClaimWork(j) \/ StartDeadlineExpired(j) \/ HookLost(j) PROVE Same
  BY <1>3 DEF ClaimWork, StartDeadlineExpired, HookLost
<1>4. ASSUME NEW j \in Job, NEW n \in Attempts, DeviceStep(j, n) PROVE Same
  <2>1. CASE \E t \in Tree : WorkspacePrepared(j, n, t) \/ SaveCheckpoint(j, n, t)
    BY <2>1 DEF WorkspacePrepared, SaveCheckpoint
  <2>2. CASE AttemptStarted(j, n) \/ AttemptInterrupted(j, n) \/ AttemptStopped(j, n)
    BY <2>2 DEF AttemptStarted, AttemptInterrupted, AttemptStopped
  <2>3. CASE InputRequested(j, n) \/ EmptyResult(j, n) \/ DeliverInputs(j, n)
             \/ Heartbeat(j, n) \/ Controls(j, n)
    BY <2>3 DEF InputRequested, EmptyResult, DeliverInputs, Heartbeat, Controls
  <2>4. CASE \E r \in Result, t \in TreeHash : ResultPrepared(j, n, r, t)
    BY <2>4 DEF ResultPrepared
  <2>5. ASSUME NEW s, NEW o,
               InputApplied(j, n, s) \/ InputUncertain(j, n, s) \/ ReconcileInput(j, n, s, o)
        PROVE  Same
    BY ZenonT(60), <2>5 DEF InputApplied, InputUncertain, ReconcileInput
  <2> QED BY <1>4, <2>1, <2>2, <2>3, <2>4, <2>5 DEF DeviceStep
<1>5. ASSUME NEW j \in Job, NEW n \in Attempts, NEW k \in Op, OperationStep(j, n, k)
      PROVE  Same
  BY <1>5 DEF OperationStep, ProposeOperation, Approve, Reject, ConsumeOperation,
    ToolFinished, VerificationFinished, ReconcileOperation, ReconcileLocalOperation
<1>6. ASSUME NEW j \in Job, NEW n \in Attempts, TimerStep(j, n) PROVE Same
  BY <1>6 DEF TimerStep, Elapse, LeaseLost, LoseLease
<1>7. ASSUME NEW j \in Job, NEW k \in Op, ApprovalExpired(j, k) PROVE Same
  BY <1>7 DEF ApprovalExpired
<1>8. ASSUME NEW r \in Runner, RevokeRunner(r) PROVE Same
  BY <1>8 DEF RevokeRunner
<1>9. ASSUME NEW p \in Publisher,
             PublishStep(p) \/ PassStep(p) \/ HookStep(p) \/ PublisherKilled(p)
      PROVE  Same \/ \E j \in Job : Out(j)
  <2>1. CASE CommitResult(p)
    <3>1. pub[p].job \in Job
      BY <2>1 DEF CommitResult, TypeOK, PubTypes
    <3>2. Same \/ Out(pub[p].job)
      BY <2>1 DEF CommitResult, Refusal, Publish
    <3> QED BY <3>1, <3>2
  <2>2. CASE ReadProposal(p) \/ BlockPublication(p)
    BY <2>2 DEF ReadProposal, BlockPublication
  <2>3. CASE PassStep(p)
    BY <2>3 DEF PassStep, PassList, PassMark, PassFinish
  <2>4. CASE HookStep(p) \/ PublisherKilled(p)
    BY <2>4 DEF HookStep, HookStart, PublisherKilled
  <2> QED BY <1>9, <2>1, <2>2, <2>3, <2>4 DEF PublishStep
<1> QED BY <1>1, <1>2, <1>3, <1>4, <1>5, <1>6, <1>7, <1>8, <1>9 DEF Next

Holders == [i \in Job |-> Held(i)]

\* claim_work takes a task nobody holds and whose result is not out.
LEMMA ClaimTakes ==
  ASSUME TypeOK, PublicationInv, NEW j \in Job, ClaimWork(j)
  PROVE  Promised!Take(j)
<1>1. /\ receipt' = receipt /\ status[j] = "queued"
      /\ attempt'[j][last[j] + 1].active
  BY Claimed DEF ClaimWork, TypeOK, AttemptTypes
<1>2. receipt[j] = 0
  BY <1>1 DEF PublicationInv, Settled
<1>3. Held(j) = 0
  BY Claimed, HeldByLast
<1>4. Held(j)' = last[j] + 1
  BY <1>1, Claimed DEF Held, ActiveAttempts, TypeOK, AttemptTypes
<1>5. ASSUME NEW i \in Job, i # j PROVE Held(i)' = Held(i)
  BY <1>5, Claimed, SameHolder DEF SameHands, TypeOK, AttemptTypes
<1>6. last' = [last EXCEPT ![j] = last[j] + 1] /\ last'[j] = last[j] + 1
  BY Claimed DEF TypeOK, AttemptTypes
<1>7. Holders' = [Holders EXCEPT ![j] = last[j] + 1]
  BY <1>4, <1>5 DEF Holders
<1> QED BY <1>1, <1>2, <1>3, <1>6, <1>7 DEF Promised!Take, Holders

\* attempt.stopped releases the task that the newest attempt held.
LEMMA StopReleases ==
  ASSUME TypeOK, OneContainment, NEW j \in Job, NEW n \in Attempts, AttemptStopped(j, n)
  PROVE  Promised!Release(j)
<1>1. receipt' = receipt
  BY DEF AttemptStopped
<1>2. Held(j) = last[j] /\ last[j] # 0
  BY LetGo, HeldByLast DEF Attempts
<1>3. \A m \in Attempts : ~attempt'[j][m].active
  BY LetGo DEF OneContainment, NoAttempt
<1>4. Held(j)' = 0
  BY <1>3 DEF Held, ActiveAttempts
<1>5. ASSUME NEW i \in Job, i # j PROVE Held(i)' = Held(i)
  BY <1>5, LetGo, SameHolder DEF SameHands
<1>6. Holders' = [Holders EXCEPT ![j] = 0]
  BY <1>4, <1>5 DEF Holders
<1> QED BY <1>1, <1>2, <1>6, LetGo DEF Promised!Release, Holders

\* A commit hands in the result of the newest attempt, which is over.
LEMMA CommitHandsIn ==
  ASSUME TypeOK, OneContainment, NEW j \in Job,
         receipt[j] = 0, verify_result(j) = "none",
         receipt' = [receipt EXCEPT ![j] = last[j]], UNCHANGED attemptVars
  PROVE  Promised!HandIn(j)
<1>1. last[j] # 0 /\ last[j] \in Attempts /\ ~attempt[j][last[j]].active
  BY DEF verify_result, TypeOK, AttemptTypes, Attempts
<1>2. Held(j) = 0
  BY <1>1, HeldByLast DEF OneContainment
<1>3. Holders' = Holders
  BY DEF Holders, Held, ActiveAttempts
<1> QED BY <1>1, <1>2, <1>3 DEF Promised!HandIn, Holders

\* Whatever devices, owners, publishers and timers do, and in whatever order: a task is in
\* one pair of hands at a time, its result goes out at most once, after the last of them
\* let go, and is that of the newest epoch (claim_work, record_event, publish_result).
THEOREM ThePromiseIsKept == Spec => KeepsThePromise
<1>1. Init => Promised!Start
  <2> SUFFICES ASSUME Init PROVE Promised!Start
    OBVIOUS
  <2>1. /\ attempt = [j \in Job |-> [n \in Attempts |-> NoAttempt]]
        /\ last = [j \in Job |-> 0] /\ receipt = last
    BY DEF Init
  <2>2. ASSUME NEW i \in Job PROVE Held(i) = 0
    BY <2>1, HeldByLast DEF NoAttempt
  <2> QED BY <2>1, <2>2 DEF Promised!Start
<1>2. TypeOK /\ OneContainment /\ PublicationInv /\ [Next]_vars =>
        [\E t \in Job : Promised!Take(t) \/ Promised!Release(t) \/ Promised!HandIn(t)]_
          (Promised!promise)
  <2> SUFFICES ASSUME TypeOK, OneContainment, PublicationInv, [Next]_vars
               PROVE  \/ UNCHANGED Promised!promise
                      \/ \E t \in Job : Promised!Take(t) \/ Promised!Release(t)
                                          \/ Promised!HandIn(t)
    OBVIOUS
  <2>1. CASE receipt' = receipt /\ Quiet
    <3>1. \A i \in Job : Held(i)' = Held(i)
      BY <2>1, SameHolder DEF Quiet
    <3>2. Holders' = Holders
      BY <3>1 DEF Holders
    <3> QED BY <2>1, <3>2 DEF Quiet, Promised!promise, Holders
  <2>2. ASSUME NEW j \in Job, ClaimWork(j) PROVE Promised!Take(j)
    BY <2>2, ClaimTakes
  <2>3. ASSUME NEW j \in Job, NEW n \in Attempts, AttemptStopped(j, n)
        PROVE  Promised!Release(j)
    BY <2>3, StopReleases
  <2>4. ASSUME NEW j \in Job,
               receipt[j] = 0, verify_result(j) = "none",
               receipt' = [receipt EXCEPT ![j] = last[j]], UNCHANGED attemptVars
        PROVE  Promised!HandIn(j)
    BY <2>4, CommitHandsIn
  <2> QED BY <2>1, <2>2, <2>3, <2>4, StepKinds, ReceiptStep
<1> QED BY <1>1, <1>2, TypeCorrect, OneAtATime, PublicationHolds, PTL
        DEF Spec, KeepsThePromise, Promised!Promise

-----------------------------------------------------------------------------
(* The outbox: what one pass after the other does to the rows *)

\* What a step that is no publisher's may do to the outbox rows.
RowsMove ==
  \A i \in Job :
    \/ resultRow'[i] = resultRow[i]
    \/ resultRow'[i] = "delivered"
    \/ ResultReplaced(i)

\* Nobody but a publisher parks a row or takes a parked one up.
LEMMA OthersLeaveRows ==
  ASSUME TypeOK,
         \/ \E j \in Job : OwnerStep(j) \/ ClaimWork(j) \/ StartDeadlineExpired(j) \/ HookLost(j)
         \/ \E j \in Job, n \in Attempts : DeviceStep(j, n) \/ TimerStep(j, n)
         \/ \E j \in Job, n \in Attempts, k \in Op : OperationStep(j, n, k)
         \/ \E j \in Job, k \in Op : ApprovalExpired(j, k)
         \/ \E r \in Runner : RevokeRunner(r)
  PROVE  RowsMove /\ pub' = pub
<1> USE DEF TypeOK, JobTypes, ResultTypes
<1>1. UNCHANGED <<resultRow, pub>> => RowsMove /\ pub' = pub
  BY DEF RowsMove
<1>2. ASSUME NEW j \in Job, OwnerStep(j) PROVE RowsMove /\ pub' = pub
  <2>1. CASE DeliverPrivately(j)
    BY <2>1 DEF DeliverPrivately, Publish, RowsMove
  <2>2. CASE CreateQueued(j) \/ CreateBlocked(j) \/ CreateDraft(j) \/ CompleteDraft(j)
    BY <2>2, <1>1 DEF CreateQueued, CreateBlocked, CreateDraft, CompleteDraft
  <2>3. CASE CancelJob(j) \/ AddInput(j) \/ ResumeJob(j) \/ AccessChange(j)
    BY <2>3, <1>1 DEF CancelJob, AddInput, ResumeJob, AccessChange
  <2> QED BY <1>2, <2>1, <2>2, <2>3 DEF OwnerStep
<1>3. ASSUME NEW j \in Job, ClaimWork(j) \/ StartDeadlineExpired(j) \/ HookLost(j)
      PROVE  RowsMove /\ pub' = pub
  BY <1>3, <1>1 DEF ClaimWork, StartDeadlineExpired, HookLost
<1>4. ASSUME NEW j \in Job, NEW n \in Attempts, DeviceStep(j, n) \/ TimerStep(j, n)
      PROVE  RowsMove /\ pub' = pub
  <2>1. ASSUME NEW r \in Result, NEW t \in TreeHash, ResultPrepared(j, n, r, t)
        PROVE  RowsMove /\ pub' = pub
    BY <2>1 DEF ResultPrepared, transition, RowsMove, ResultReplaced
  <2>2. ASSUME NEW t \in Tree, WorkspacePrepared(j, n, t) \/ SaveCheckpoint(j, n, t)
        PROVE  RowsMove /\ pub' = pub
    BY <2>2, <1>1 DEF WorkspacePrepared, SaveCheckpoint
  <2>3. CASE AttemptStarted(j, n) \/ AttemptInterrupted(j, n) \/ AttemptStopped(j, n)
    BY <2>3, <1>1 DEF AttemptStarted, AttemptInterrupted, AttemptStopped
  <2>4. CASE InputRequested(j, n) \/ EmptyResult(j, n) \/ DeliverInputs(j, n)
             \/ Heartbeat(j, n) \/ Controls(j, n)
    BY <2>4, <1>1 DEF InputRequested, EmptyResult, DeliverInputs, Heartbeat, Controls
  <2>5. ASSUME NEW s \in Inputs, NEW o,
               InputApplied(j, n, s) \/ InputUncertain(j, n, s) \/ ReconcileInput(j, n, s, o)
        PROVE  RowsMove /\ pub' = pub
    BY <2>5, <1>1 DEF InputApplied, InputUncertain, ReconcileInput
  <2>6. CASE TimerStep(j, n)
    BY SMTT(30), <2>6, <1>1 DEF TimerStep, Elapse, LeaseLost, LoseLease
  <2> QED BY <1>4, <2>1, <2>2, <2>3, <2>4, <2>5, <2>6 DEF DeviceStep
<1>5. ASSUME NEW j \in Job, NEW n \in Attempts, NEW k \in Op, OperationStep(j, n, k)
      PROVE  UNCHANGED <<resultRow, pub>>
  BY ZenonT(60), <1>5 DEF OperationStep, ProposeOperation, Approve, Reject, ConsumeOperation, ToolFinished,
     VerificationFinished, ReconcileOperation, ReconcileLocalOperation
<1>6. ASSUME NEW j \in Job, NEW k \in Op, ApprovalExpired(j, k) PROVE RowsMove /\ pub' = pub
  BY Zenon, <1>6, <1>1 DEF ApprovalExpired
<1>7. ASSUME NEW r \in Runner, RevokeRunner(r) PROVE RowsMove /\ pub' = pub
  BY <1>7, <1>1 DEF RevokeRunner
<1> QED BY <1>1, <1>2, <1>3, <1>4, <1>5, <1>6, <1>7

\* No pass adds to its list.
Narrows == \A q \in Pass : pub'[q].todo \subseteq pub[q].todo

\* A parked row that no pass has listed stays as it is, unless its result is delivered.
LeavesParked ==
  \A i \in Job : resultRow[i] = "blocked" /\ ~Listed(i) =>
    resultRow'[i] \in {"blocked", "delivered"}

\* What a publisher changes of its row leaves the rest of the row.
LEMMA RowKeeps ==
  ASSUME NEW r \in PubRow
  PROVE  /\ \A l, e : /\ [r EXCEPT !.pc = l, !.raised = e].todo = r.todo
                      /\ [r EXCEPT !.pc = l, !.raised = e].job = r.job
         /\ \A x : /\ [r EXCEPT !.pc = "commit", !.seen = x].todo = r.todo
                   /\ [r EXCEPT !.pc = "commit", !.seen = x].job = r.job
         /\ \A S : /\ [r EXCEPT !.todo = S].todo = S /\ [r EXCEPT !.todo = S].job = r.job
                   /\ [r EXCEPT !.todo = S].pc = r.pc
         /\ \A S : /\ [r EXCEPT !.pc = "listed", !.todo = S].todo = S
                   /\ [r EXCEPT !.pc = "listed", !.todo = S].pc = "listed"
BY DEF PubRow

\* A publication goes on with the list of the pass that began it, and a pass takes up no row
\* that is not on its list.
LEMMA PublisherNarrows ==
  ASSUME TypeOK, NEW p \in Publisher,
         \/ PublishStep(p) \/ PassFinish(p) \/ PublisherKilled(p)
         \/ \E j \in Job : PassMark(p, j)
  PROVE  Narrows /\ LeavesParked
<1>0. p \in DOMAIN pub
  BY DEF TypeOK, PubTypes
<1>1. pub[p] \in PubRow /\ \A q \in Pass : q \in DOMAIN pub
  BY DEF TypeOK, PubTypes, PubRow, Publisher
<1>i. Idle.todo = {}
  BY DEF Idle
<1> USE <1>0 DEF TypeOK, JobTypes, ResultTypes, PubTypes
<1> DEFINE j == pub[p].job
           SameList == /\ pub'[p].todo \subseteq pub[p].todo
                       /\ \A q \in Pass : q # p => pub'[q] = pub[q]
<1>2. SameList => Narrows
  BY DEF Narrows
<1>3. resultRow' = resultRow => LeavesParked
  BY DEF LeavesParked
<1>o. ASSUME NEW x, pub' = [pub EXCEPT ![p] = x], x.todo \subseteq pub[p].todo PROVE SameList
  BY <1>1, <1>o
<1>4. ASSUME NEW e, Return(p, e) PROVE SameList
  <2> DEFINE over == [pub[p] EXCEPT !.pc = "finish", !.raised = e]
  <2>1. over.todo = pub[p].todo
    BY <1>1, RowKeeps
  <2>2. pub' = [pub EXCEPT ![p] = Idle] \/ pub' = [pub EXCEPT ![p] = over]
    BY <1>4 DEF Return
  <2> HIDE DEF over
  <2> QED BY <2>1, <2>2, <1>o, <1>i
<1>5. ASSUME NEW l, NEW e, Goto(p, l, e) PROVE SameList
  <2> DEFINE on == [pub[p] EXCEPT !.pc = l, !.raised = e]
  <2>1. on.todo = pub[p].todo
    BY <1>1, RowKeeps
  <2>2. pub' = [pub EXCEPT ![p] = on]
    BY <1>5 DEF Goto
  <2> HIDE DEF on
  <2> QED BY <2>1, <2>2, <1>o
<1>6. CASE ReadProposal(p)
  <2>1. resultRow' = resultRow
    BY <1>6 DEF ReadProposal
  <2>2. CASE pub' = [pub EXCEPT ![p].pc = "commit", ![p].seen = proposal[j]]
    <3> DEFINE on == [pub[p] EXCEPT !.pc = "commit", !.seen = proposal[j]]
    <3>1. pub' = [pub EXCEPT ![p] = on]
      BY <2>2
    <3>2. on.todo = pub[p].todo
      BY <1>1, RowKeeps
    <3> HIDE DEF on
    <3> QED BY <2>1, <3>1, <3>2, <1>o, <1>2, <1>3
  <2>3. CASE Return(p, "none") \/ Goto(p, "block", "other")
    BY <2>1, <2>3, <1>2, <1>3, <1>4, <1>5
  <2> QED BY <1>6, <2>2, <2>3 DEF ReadProposal
<1>7. CASE CommitResult(p)
  <2>1. SameList
    BY <1>4, <1>5, <1>7 DEF CommitResult
  <2>2. resultRow' = resultRow \/ resultRow' = [resultRow EXCEPT ![j] = "delivered"]
    BY <1>7 DEF CommitResult, Publish, resultVars
  <2>3. LeavesParked
    BY <2>2 DEF LeavesParked
  <2> QED BY <2>1, <2>3, <1>2
<1>8. CASE BlockPublication(p)
  <2>1. SameList
    BY <1>4, <1>8 DEF BlockPublication
  <2>2. LeavesParked
    BY <1>8 DEF BlockPublication, LeavesParked
  <2> QED BY <2>1, <2>2, <1>2
<1>9. CASE PassFinish(p)
  <2>1. LeavesParked
    BY <1>9 DEF PassFinish, LeavesParked
  <2> DEFINE next == [Idle EXCEPT !.pc = "listed", !.todo = pub[p].todo]
  <2>2. next.todo = pub[p].todo
    BY DEF Idle
  <2>3. pub' = [pub EXCEPT ![p] = Idle] \/ pub' = [pub EXCEPT ![p] = next]
    BY <1>9 DEF PassFinish
  <2> HIDE DEF next
  <2> QED BY <2>1, <2>2, <2>3, <1>2, <1>o, <1>i
<1>10. CASE PublisherKilled(p)
  <2>1. pub' = [pub EXCEPT ![p] = Idle] /\ resultRow' = resultRow
    BY <1>10 DEF PublisherKilled
  <2> QED BY <2>1, <1>2, <1>3, <1>o, <1>i
<1>11. ASSUME NEW k \in Job, PassMark(p, k) PROVE Narrows /\ LeavesParked
  <2> DEFINE rest == pub[p].todo \ {k}
             taken == [pc |-> "read", todo |-> rest, job |-> k, seen |-> NoProposal,
                       raised |-> "none"]
             kept == [pub[p] EXCEPT !.todo = rest]
  <2>1. p \in Pass /\ k \in pub[p].todo
    BY <1>11 DEF PassMark
  <2>2. LeavesParked
    BY <1>11, <2>1 DEF PassMark, LeavesParked, Listed
  <2>3. taken.todo = rest /\ kept.todo = rest /\ rest \subseteq pub[p].todo
    BY <1>1, RowKeeps
  <2>4. \/ pub' = [pub EXCEPT ![p] = Idle] \/ pub' = [pub EXCEPT ![p] = taken]
        \/ pub' = [pub EXCEPT ![p] = kept]
    BY <1>11 DEF PassMark
  <2> HIDE DEF taken, kept, rest
  <2> QED BY <2>2, <2>3, <2>4, <1>2, <1>o, <1>i
<1> QED BY <1>6, <1>7, <1>8, <1>9, <1>10, <1>11 DEF PublishStep

\* A parked row that no pass has listed is left alone, and listed by none, until its result
\* is delivered or a new one replaces it (_block_publication, attempt_stopped, the filter of
\* reconcile_agents): whatever hooks and passes do meanwhile.
THEOREM ParkedIsLeftAlone == Spec => ParkedStaysParked
<1> DEFINE Left ==
      \A j \in Job : resultRow[j] = "blocked" /\ ~Listed(j) =>
        \/ resultRow'[j] = "delivered"
        \/ resultRow'[j] = "blocked" /\ ~Listed(j)'
        \/ ResultReplaced(j)
<1>1. TypeOK /\ [Next]_vars => Left
  <2> SUFFICES ASSUME TypeOK, [Next]_vars, NEW i \in Job, resultRow[i] = "blocked", ~Listed(i)
               PROVE  \/ resultRow'[i] = "delivered"
                      \/ resultRow'[i] = "blocked" /\ ~Listed(i)'
                      \/ ResultReplaced(i)
    OBVIOUS
  <2>1. ASSUME NEW p \in Publisher,
               PublishStep(p) \/ PassFinish(p) \/ PublisherKilled(p)
               \/ \E j \in Job : PassMark(p, j)
        PROVE  resultRow'[i] \in {"blocked", "delivered"} /\ ~Listed(i)'
    <3>1. Narrows /\ LeavesParked
      BY <2>1, PublisherNarrows
    <3> QED BY <3>1 DEF Narrows, LeavesParked, Listed
  <2>2. ASSUME NEW p \in Publisher, PassList(p) PROVE resultRow'[i] = "blocked" /\ ~Listed(i)'
    <3>1. resultRow' = resultRow /\ i \notin Due
      BY <2>2 DEF PassList, resultVars, Due
    <3>2. pub[p] \in PubRow /\ p \in DOMAIN pub /\ \A q \in Pass : q \in DOMAIN pub
      BY DEF TypeOK, PubTypes, Publisher
    <3>3. pub' = [pub EXCEPT ![p] = [pub[p] EXCEPT !.pc = "listed", !.todo = Due]]
      BY <2>2 DEF PassList
    <3>4. pub'[p] = [pub[p] EXCEPT !.pc = "listed", !.todo = Due]
      BY <3>2, <3>3
    <3>5. pub'[p].todo = Due
      BY <3>2, <3>4, RowKeeps
    <3>6. \A q \in Pass : q # p => pub'[q] = pub[q]
      BY <3>2, <3>3
    <3> QED BY <3>1, <3>5, <3>6 DEF Listed
  <2>3. ASSUME NEW p \in Publisher, HookStep(p) PROVE resultRow'[i] = "blocked" /\ ~Listed(i)'
    <3>1. PICK j \in Job : HookStart(p, j)
      BY <2>3 DEF HookStep
    <3>2. pub[p] \in PubRow /\ p \in DOMAIN pub /\ \A q \in Pass : q \in DOMAIN pub
      BY DEF TypeOK, PubTypes, Publisher
    <3>3. pub' = [pub EXCEPT ![p] = [pub[p] EXCEPT !.pc = "read", !.job = j]]
      BY <3>1 DEF HookStart
    <3>4. pub'[p] = [pub[p] EXCEPT !.pc = "read", !.job = j]
      BY <3>2, <3>3
    <3>5. pub'[p].todo = pub[p].todo
      BY <3>2, <3>4 DEF PubRow
    <3>6. \A q \in Pass : q # p => pub'[q] = pub[q]
      BY <3>2, <3>3
    <3>7. resultRow' = resultRow
      BY <3>1 DEF HookStart, resultVars
    <3> QED BY <3>5, <3>6, <3>7 DEF Listed
  <2>4. CASE UNCHANGED vars
    BY <2>4 DEF vars, resultVars, pubVars, Listed
  <2>5. ASSUME NEW p \in Publisher,
               PublishStep(p) \/ PassStep(p) \/ HookStep(p) \/ PublisherKilled(p)
        PROVE  resultRow'[i] \in {"blocked", "delivered"} /\ ~Listed(i)'
    BY <2>1, <2>2, <2>3, <2>5 DEF PassStep
  <2>6. CASE RowsMove /\ pub' = pub
    <3>1. ~Listed(i)'
      BY <2>6 DEF Listed
    <3> QED BY <2>6, <3>1 DEF RowsMove
  <2> QED BY <2>4, <2>5, <2>6, OthersLeaveRows DEF Next
<1>2. TypeOK /\ [Next]_vars => [Left]_vars
  BY <1>1
<1> QED BY <1>2, TypeCorrect, PTL DEF Spec, ParkedStaysParked

-----------------------------------------------------------------------------
(* One task at a time: what it is owed *)

\* The records of a task that the invariants below are about.
Same(i) ==
  UNCHANGED <<status[i], receipt[i], proposal[i], last[i], attempt[i], sequence[i],
              input[i], op[i], tree[i], verified[i]>>

\* A handler that works on task i.
About(i) ==
  \/ OwnerStep(i) \/ ClaimWork(i) \/ StartDeadlineExpired(i)
  \/ \E n \in Attempts : \/ DeviceStep(i, n) \/ TimerStep(i, n)
                         \/ \E k \in Op : OperationStep(i, n, k)
  \/ \E k \in Op : ApprovalExpired(i, k)
  \/ \E r \in Runner : RevokeRunner(r)
  \/ \E p \in Publisher : PublishStep(p) /\ pub[p].job = i

-----------------------------------------------------------------------------
(* One task at a time *)

\* What an owner does, a claim and the start deadline are about one task.
LEMMA OwnerElsewhere ==
  ASSUME TypeOK, NEW i \in Job, NEW j \in Job, i # j,
         OwnerStep(j) \/ ClaimWork(j) \/ StartDeadlineExpired(j)
  PROVE  Same(i)
<1> USE DEF TypeOK, JobTypes, ResultTypes, AttemptTypes, InputTypes, WorkTypes, transition, Same
<1>1. CASE CreateQueued(j) \/ CreateBlocked(j) \/ CompleteDraft(j)
  BY <1>1 DEF CreateQueued, CreateBlocked, CompleteDraft
<1>2. CASE CreateDraft(j)
  BY <1>2 DEF CreateDraft
<1>3. CASE CancelJob(j)
  BY <1>3, ZenonT(60) DEF CancelJob, StopAttempt
<1>4. CASE AddInput(j)
  BY <1>4 DEF AddInput
<1>5. CASE ResumeJob(j) \/ AccessChange(j)
  BY <1>5 DEF ResumeJob, AccessChange
<1>6. CASE DeliverPrivately(j)
  BY <1>6 DEF DeliverPrivately, Publish
<1>7. CASE ClaimWork(j)
  BY <1>7 DEF ClaimWork
<1>8. CASE StartDeadlineExpired(j)
  BY <1>8 DEF StartDeadlineExpired
<1> QED BY <1>1, <1>2, <1>3, <1>4, <1>5, <1>6, <1>7, <1>8 DEF OwnerStep

\* A device reports on one task, and a lease runs out on one.
LEMMA DeviceElsewhere ==
  ASSUME TypeOK, NEW i \in Job, NEW j \in Job, i # j, NEW n \in Attempts,
         DeviceStep(j, n) \/ TimerStep(j, n)
  PROVE  Same(i)
<1> USE DEF TypeOK, JobTypes, ResultTypes, AttemptTypes, InputTypes, WorkTypes, transition, Same
<1>1. ASSUME NEW t \in Tree, WorkspacePrepared(j, n, t) PROVE Same(i)
  BY <1>1 DEF WorkspacePrepared
<1>2. ASSUME NEW t \in Tree, SaveCheckpoint(j, n, t) PROVE Same(i)
  BY <1>2 DEF SaveCheckpoint
<1>3. CASE AttemptStarted(j, n)
  BY <1>3 DEF AttemptStarted
<1>4. CASE AttemptInterrupted(j, n)
  BY <1>4 DEF AttemptInterrupted
<1>5. CASE AttemptStopped(j, n)
  BY <1>5 DEF AttemptStopped
<1>6. CASE InputRequested(j, n) \/ EmptyResult(j, n)
  BY <1>6 DEF InputRequested, EmptyResult
<1>7. ASSUME NEW r \in Result, NEW t \in TreeHash, ResultPrepared(j, n, r, t) PROVE Same(i)
  BY <1>7 DEF ResultPrepared
<1>8. CASE DeliverInputs(j, n)
  BY <1>8 DEF DeliverInputs
<1>9. CASE Heartbeat(j, n)
  BY <1>9 DEF Heartbeat
<1>10. CASE Controls(j, n)
  BY <1>10 DEF Controls, StopAttempt
<1>11. ASSUME NEW s \in Inputs, InputApplied(j, n, s) PROVE Same(i)
  BY <1>11 DEF InputApplied
<1>12. ASSUME NEW s \in Inputs, NEW o, InputUncertain(j, n, s) \/ ReconcileInput(j, n, s, o)
       PROVE  Same(i)
  BY <1>12 DEF InputUncertain, ReconcileInput
<1>13. CASE Elapse(j, n)
  BY <1>13 DEF Elapse
<1>14. CASE LeaseLost(j, n)
  BY <1>14 DEF LeaseLost, LoseLease
<1> QED BY <1>1, <1>2, <1>3, <1>4, <1>5, <1>6, <1>7, <1>8, <1>9, <1>10, <1>11, <1>12,
  <1>13, <1>14 DEF DeviceStep, TimerStep

\* An operation belongs to one task.
LEMMA OperationElsewhere ==
  ASSUME TypeOK, NEW i \in Job, NEW j \in Job, i # j, NEW n \in Attempts, NEW k \in Op,
         OperationStep(j, n, k)
  PROVE  Same(i)
<1> USE DEF TypeOK, JobTypes, ResultTypes, AttemptTypes, InputTypes, WorkTypes, transition, Same
<1>1. ASSUME NEW b \in BOOLEAN, ProposeOperation(j, n, k, b) PROVE Same(i)
  BY <1>1 DEF ProposeOperation
<1>2. CASE Approve(j, n, k) \/ ConsumeOperation(j, n, k) \/ ReconcileOperation(j, n, k)
  BY <1>2 DEF Approve, ConsumeOperation, ReconcileOperation
<1>3. CASE Reject(j, n, k)
  BY <1>3 DEF Reject
<1>4. ASSUME NEW o, ToolFinished(j, n, k, o) PROVE Same(i)
  BY <1>4 DEF ToolFinished
<1>5. ASSUME NEW b, VerificationFinished(j, n, k, b) PROVE Same(i)
  BY <1>5 DEF VerificationFinished
<1>6. ASSUME NEW o, NEW t, ReconcileLocalOperation(j, n, k, o, t) PROVE Same(i)
  BY <1>6 DEF ReconcileLocalOperation
<1> QED BY <1>1, <1>2, <1>3, <1>4, <1>5, <1>6 DEF OperationStep

\* Of a hook or a pass, only the steps of publish_result write a task, the one it is at.
LEMMA PublisherElsewhere ==
  ASSUME TypeOK, NEW i \in Job, NEW p \in Publisher,
         PublishStep(p) \/ PassStep(p) \/ HookStep(p) \/ PublisherKilled(p)
  PROVE  Same(i) \/ (PublishStep(p) /\ pub[p].job = i)
<1> USE DEF TypeOK, JobTypes, ResultTypes, PubTypes, transition, Same
<1>1. CASE ReadProposal(p)
  BY <1>1 DEF ReadProposal
<1>2. CASE CommitResult(p) /\ pub[p].job # i
  <2> DEFINE j == pub[p].job
  <2>1. UNCHANGED <<attemptVars, inputVars, workVars>>
    BY <1>2 DEF CommitResult
  <2>2. UNCHANGED <<jobVars, resultVars>> \/ (Publish(j) /\ proposal' = proposal)
    BY <1>2 DEF CommitResult
  <2>3. j # i
    BY <1>2
  <2> HIDE DEF j
  <2>4. CASE UNCHANGED <<jobVars, resultVars>>
    BY <2>1, <2>4
  <2>5. CASE Publish(j) /\ proposal' = proposal
    BY <2>1, <2>3, <2>5 DEF Publish
  <2> QED BY <2>2, <2>4, <2>5
<1>3. CASE BlockPublication(p) /\ pub[p].job # i
  BY <1>3 DEF BlockPublication
<1>4. CASE PassStep(p)
  BY <1>4 DEF PassStep, PassList, PassMark, PassFinish
<1>5. CASE HookStep(p) \/ PublisherKilled(p)
  BY <1>5 DEF HookStep, HookStart, PublisherKilled
<1> QED BY <1>1, <1>2, <1>3, <1>4, <1>5 DEF PublishStep

\* A step leaves a task as it is, or is about it.
LEMMA OneTask == ASSUME TypeOK, [Next]_vars, NEW i \in Job PROVE Same(i) \/ About(i)
<1>1. CASE UNCHANGED vars
  BY <1>1 DEF vars, Same
<1>2. ASSUME NEW j \in Job, OwnerStep(j) \/ ClaimWork(j) \/ StartDeadlineExpired(j)
      PROVE  Same(i) \/ About(i)
  BY <1>2, OwnerElsewhere DEF About
<1>3. ASSUME NEW j \in Job, HookLost(j) PROVE Same(i)
  BY <1>3 DEF HookLost, Same
<1>4. ASSUME NEW j \in Job, NEW n \in Attempts, DeviceStep(j, n) \/ TimerStep(j, n)
      PROVE  Same(i) \/ About(i)
  BY <1>4, DeviceElsewhere DEF About
<1>5. ASSUME NEW j \in Job, NEW n \in Attempts, NEW k \in Op, OperationStep(j, n, k)
      PROVE  Same(i) \/ About(i)
  BY <1>5, OperationElsewhere DEF About
<1>6. ASSUME NEW j \in Job, NEW k \in Op, ApprovalExpired(j, k) PROVE Same(i) \/ About(i)
  <2>1. CASE i # j
    BY <1>6, <2>1
    DEF ApprovalExpired, transition, Same, TypeOK, JobTypes, AttemptTypes, WorkTypes
  <2> QED BY <1>6, <2>1 DEF About
<1>7. ASSUME NEW r \in Runner, RevokeRunner(r) PROVE About(i)
  BY <1>7 DEF About
<1>8. ASSUME NEW p \in Publisher,
             PublishStep(p) \/ PassStep(p) \/ HookStep(p) \/ PublisherKilled(p)
      PROVE  Same(i) \/ About(i)
  BY <1>8, PublisherElsewhere DEF About
<1> QED BY <1>1, <1>2, <1>3, <1>4, <1>5, <1>6, <1>7, <1>8 DEF Next
-----------------------------------------------------------------------------
(* Work is kept *)

Unclaimed  == {"absent", "draft", "queued"}
Unresolved == {"started", "outcome_unknown"}
Doubtful   == {"delivered", "delivery_uncertain"}

\* What nobody can vouch for belongs to the newest attempt, of a task somebody holds or
\* held; and what was merely delivered to an attempt that still lives.
StaysWith(i) ==
  /\ \A k \in Op : op[i][k].state \in Unresolved =>
       op[i][k].at = last[i] /\ status[i] \notin Unclaimed
  /\ \A s \in Inputs :
       /\ input[i][s].state \in Doubtful => input[i][s].to = last[i] /\ status[i] \notin Unclaimed
       /\ input[i][s].state = "delivered" => last[i] \in Attempts /\ attempt[i][last[i]].active

WorkInv == \A i \in Job : StaysWith(i)

\* An attempt that may execute is the newest one of its task.
LEMMA ExecutesNewest ==
  ASSUME OneContainment, NEW j \in Job, NEW n \in Attempts, Executable(j, n)
  PROVE  /\ n = last[j] /\ attempt[j][n].active /\ status[j] \in EXECUTING
         /\ attempt[j][n].proc \in {"starting", "active"}
BY DEF OneContainment, Executable

\* Nothing new is in doubt, and the task is not back in the queue.
NoNewDoubt(i) ==
  /\ last'[i] = last[i]
  /\ status'[i] \in Unclaimed => status[i] \in Unclaimed
  /\ \A k \in Op : op'[i][k].state \in Unresolved =>
       op[i][k].state \in Unresolved /\ op'[i][k].at = op[i][k].at
  /\ \A s \in Inputs :
       /\ input'[i][s].state \in Doubtful =>
            input[i][s].state \in Doubtful /\ input'[i][s].to = input[i][s].to
       /\ input'[i][s].state = "delivered" =>
            /\ input[i][s].state = "delivered"
            /\ last[i] \in Attempts /\ attempt'[i][last[i]].active

\* Then everything in doubt is where it was.
LEMMA NoNewDoubtKeeps ==
  ASSUME NEW i \in Job, StaysWith(i), NoNewDoubt(i) PROVE StaysWith(i)'
BY DEF StaysWith, NoNewDoubt

\* invalidate_approvals changes no outcome, and the loss of an attempt leaves in doubt what
\* was in doubt.
LEMMA OutcomesKept ==
  ASSUME NEW n, NEW ops \in [Op -> OpRow], NEW k \in Op
  PROVE  /\ InvalidateApprovals(ops, n)[k].state = ops[k].state
         /\ InvalidateApprovals(ops, n)[k].at = ops[k].at
         /\ OrphanOps(ops, n)[k].at = ops[k].at
         /\ OrphanOps(ops, n)[k].state \in Unresolved <=> ops[k].state \in Unresolved
<1>1. /\ InvalidateApprovals(ops, n)[k].state = ops[k].state
      /\ InvalidateApprovals(ops, n)[k].at = ops[k].at
  BY DEF InvalidateApprovals, OpRow
<1>2. InvalidateApprovals(ops, n)[k] \in OpRow
  BY Ledger
<1> QED BY <1>1, <1>2 DEF OrphanOps, OpRow, Unresolved

\* So for the inputs: the loss of an attempt leaves none of its deliveries open.
LEMMA DeliveriesKept ==
  ASSUME NEW n, NEW ins \in [Inputs -> InputRow], NEW s \in Inputs
  PROVE  /\ OrphanInputs(ins, n)[s].to = ins[s].to
         /\ OrphanInputs(ins, n)[s].state \in Doubtful <=> ins[s].state \in Doubtful
         /\ OrphanInputs(ins, n)[s].state = "delivered" =>
              ins[s].state = "delivered" /\ ins[s].to # n
BY DEF OrphanInputs, InputRow, Doubtful

\* A step that at most invalidates approvals of a task changes no outcome of its operations.
LEMMA OutcomesStay ==
  ASSUME WorkTypes, NEW i \in Job, NEW k \in Op,
         op' = op \/ \E n : op'[i] = InvalidateApprovals(op[i], n)
  PROVE  op'[i][k].state = op[i][k].state /\ op'[i][k].at = op[i][k].at
<1>1. CASE op' = op
  BY <1>1
<1>2. ASSUME NEW n, op'[i] = InvalidateApprovals(op[i], n)
      PROVE  op'[i][k].state = op[i][k].state /\ op'[i][k].at = op[i][k].at
  BY <1>2, OutcomesKept DEF WorkTypes
<1> QED BY <1>1, <1>2

\* What the end or the loss of attempt n leaves of the work of its task.
LEMMA OrphansStay ==
  ASSUME WorkTypes, InputTypes, NEW i \in Job, NEW n,
         op'[i] = OrphanOps(op[i], n), input'[i] = OrphanInputs(input[i], n)
  PROVE  /\ \A k \in Op :
              /\ op'[i][k].at = op[i][k].at
              /\ op'[i][k].state \in Unresolved <=> op[i][k].state \in Unresolved
         /\ \A s \in Inputs :
              /\ input'[i][s].to = input[i][s].to
              /\ input'[i][s].state \in Doubtful <=> input[i][s].state \in Doubtful
              /\ input'[i][s].state = "delivered" =>
                   input[i][s].state = "delivered" /\ input[i][s].to # n
<1>1. op[i] \in [Op -> OpRow] /\ input[i] \in [Inputs -> InputRow]
  BY DEF WorkTypes, InputTypes
<1>2. ASSUME NEW k \in Op
      PROVE  /\ op'[i][k].at = op[i][k].at
             /\ op'[i][k].state \in Unresolved <=> op[i][k].state \in Unresolved
  BY <1>1, OutcomesKept
<1>3. ASSUME NEW s \in Inputs
      PROVE  /\ input'[i][s].to = input[i][s].to
             /\ input'[i][s].state \in Doubtful <=> input[i][s].state \in Doubtful
             /\ input'[i][s].state = "delivered" =>
                  input[i][s].state = "delivered" /\ input[i][s].to # n
  BY <1>1, DeliveriesKept
<1> QED BY <1>2, <1>3

\* A held result that is fenced stays in the hands of its attempt.
LEMMA FencedHands ==
  ASSUME AttemptTypes, NEW i \in Job, NEW n \in Attempts
  PROVE  /\ Fenced(i, n) \in AttemptRow /\ Fenced(i, n).active = attempt[i][n].active
         /\ Fenced(i, n) = attempt[i][n]
            \/ (Fenced(i, n).proc = "stopping" /\ status[i] = "verifying")
<1>1. attempt[i][n] \in AttemptRow
  BY DEF AttemptTypes
<1>2. [attempt[i][n] EXCEPT !.proc = "stopping"] \in AttemptRow
  BY <1>1, AttemptRows DEF ProcessState
<1> QED BY <1>1, <1>2 DEF Fenced, AttemptRow

\* What people do.  resume_job refuses a task with an attempt, an operation without an
\* outcome or an input in doubt.
LEMMA OwnerKeeps ==
  ASSUME TypeOK, OneContainment, NEW i \in Job, StaysWith(i),
         OwnerStep(i) \/ ClaimWork(i) \/ StartDeadlineExpired(i)
  PROVE  StaysWith(i)'
<1> USE DEF TypeOK, JobTypes, ResultTypes, AttemptTypes, InputTypes, WorkTypes, transition
<1>1. CASE CreateQueued(i) \/ CreateBlocked(i) \/ CompleteDraft(i)
  BY <1>1 DEF CreateQueued, CreateBlocked, CompleteDraft, StaysWith, Unclaimed
<1>2. CASE CreateDraft(i)
  BY <1>2 DEF CreateDraft, StaysWith, Unclaimed
<1>3. CASE CancelJob(i)
  <2>1. last'[i] = last[i] /\ input' = input /\ status'[i] \in {"cancelled", "cancel_requested"}
    BY <1>3 DEF CancelJob, StopAttempt
  <2>2. \A m \in Attempts : attempt'[i][m].active = attempt[i][m].active
    BY <1>3, OwnerQuiet DEF OwnerStep, Quiet, SameHands
  <2>3. op' = op \/ \E n : op'[i] = InvalidateApprovals(op[i], n)
    <3>1. ASSUME NEW n \in ActiveAttempts(i), StopAttempt(i, n, "cancelled", "")
          PROVE  op'[i] = InvalidateApprovals(op[i], n)
      BY <3>1 DEF StopAttempt
    <3> QED BY <1>3, <3>1 DEF CancelJob
  <2>4. NoNewDoubt(i)
    <3>1. \A k \in Op : op'[i][k].state = op[i][k].state /\ op'[i][k].at = op[i][k].at
      BY <2>3, OutcomesStay DEF TypeOK
    <3> QED BY <2>1, <2>2, <3>1 DEF NoNewDoubt, Unclaimed, StaysWith
  <2> QED BY <2>4, NoNewDoubtKeeps
<1>4. CASE AddInput(i)
  <2>1. UNCHANGED <<last[i], input, attempt>> /\ status'[i] \in {status[i], "running"}
    BY <1>4 DEF AddInput
  <2>2. op' = op \/ \E n : op'[i] = InvalidateApprovals(op[i], n)
    BY <1>4 DEF AddInput
  <2>3. NoNewDoubt(i)
    <3>1. \A k \in Op : op'[i][k].state = op[i][k].state /\ op'[i][k].at = op[i][k].at
      BY <2>2, OutcomesStay DEF TypeOK
    <3> QED BY <2>1, <3>1 DEF NoNewDoubt, Unclaimed, StaysWith
  <2> QED BY <2>3, NoNewDoubtKeeps
<1>5. CASE ResumeJob(i)
  BY <1>5
  DEF ResumeJob, UnresolvedOps, ActiveAttempts, StaysWith, Unresolved, Doubtful
<1>6. CASE AccessChange(i)
  BY <1>6 DEF AccessChange, StaysWith
<1>7. CASE DeliverPrivately(i)
  BY <1>7 DEF DeliverPrivately, Publish, StaysWith, Unclaimed
<1>8. CASE ClaimWork(i)
  BY <1>8 DEF ClaimWork, StaysWith, Unclaimed, Doubtful
<1>9. CASE StartDeadlineExpired(i)
  BY <1>9 DEF StartDeadlineExpired, StaysWith, Unclaimed
<1> QED BY <1>1, <1>2, <1>3, <1>4, <1>5, <1>6, <1>7, <1>8, <1>9 DEF OwnerStep

\* What a device sends.  Only delivery hands inputs out, to the attempt that asked, and an
\* attempt that ends or is lost leaves its deliveries in doubt.
LEMMA DeviceKeeps ==
  ASSUME TypeOK, OneContainment, NEW i \in Job, StaysWith(i), NEW n \in Attempts,
         DeviceStep(i, n) \/ TimerStep(i, n)
  PROVE  StaysWith(i)'
<1> USE DEF TypeOK, JobTypes, ResultTypes, AttemptTypes, InputTypes, WorkTypes, transition
<1>a. Executable(i, n) => n = last[i] /\ attempt[i][n].active /\ status[i] \in EXECUTING
  BY ExecutesNewest
<1>b. Reporting(i, n) => Executable(i, n)
  BY DEF Reporting
<1>c. UNCHANGED <<last[i], input, op>> /\ SameHands(i)
      /\ (status'[i] \in Unclaimed => status[i] \in Unclaimed) => StaysWith(i)'
  BY DEF StaysWith, SameHands
<1>1. ASSUME NEW t \in Tree, WorkspacePrepared(i, n, t) PROVE StaysWith(i)'
  BY <1>1, <1>c DEF WorkspacePrepared, SameHands, AttemptRow
<1>2. ASSUME NEW t \in Tree, SaveCheckpoint(i, n, t) PROVE StaysWith(i)'
  BY <1>2, <1>c DEF SaveCheckpoint, SameHands
<1>3. CASE AttemptStarted(i, n)
  BY <1>3, <1>c DEF AttemptStarted, SameHands, AttemptRow
<1>4. CASE AttemptInterrupted(i, n) \/ LeaseLost(i, n)
  <2>1. /\ UNCHANGED last /\ status'[i] = "interrupted"
        /\ op'[i] = OrphanOps(op[i], n) /\ input'[i] = OrphanInputs(input[i], n)
    BY <1>4 DEF AttemptInterrupted, LeaseLost, LoseLease
  <2>2. attempt' = [attempt EXCEPT ![i][n].proc = "unknown"]
    BY <1>4 DEF AttemptInterrupted, LeaseLost, LoseLease
  <2>3. SameHands(i)
    BY <2>2 DEF SameHands, AttemptRow
  <2>4. NoNewDoubt(i)
    <3>1. ASSUME NEW s \in Inputs, input'[i][s].state = "delivered"
          PROVE  /\ input[i][s].state = "delivered"
                 /\ last[i] \in Attempts /\ attempt'[i][last[i]].active
      <4>1. input[i][s].state = "delivered"
        BY <2>1, <3>1, OrphansStay
      <4>2. last[i] \in Attempts /\ attempt[i][last[i]].active
        BY <4>1 DEF StaysWith
      <4> QED BY <2>3, <4>1, <4>2 DEF SameHands
    <3> QED BY <2>1, <3>1, OrphansStay DEF NoNewDoubt, Unclaimed
  <2> QED BY <2>4, NoNewDoubtKeeps
<1>5. CASE AttemptStopped(i, n)
  <2>1. last' = last /\ n = last[i]
    BY <1>5 DEF AttemptStopped
  <2>2. status'[i] \notin Unclaimed \/ status'[i] = status[i]
    <3>1. stopTarget[i] \notin Unclaimed
      BY DEF Unclaimed
    <3> QED BY <1>5, <3>1 DEF AttemptStopped, Unclaimed
  <2>3. op'[i] = OrphanOps(op[i], n)
    BY <1>5 DEF AttemptStopped
  <2>4. input'[i] = OrphanInputs(input[i], n)
    BY <1>5 DEF AttemptStopped
  <2>5. \A s \in Inputs : input'[i][s].state # "delivered"
    BY ZenonT(60), <2>1, <2>3, <2>4, OrphansStay DEF StaysWith, Doubtful
  <2>6. NoNewDoubt(i)
    BY <2>1, <2>2, <2>3, <2>4, <2>5, OrphansStay DEF NoNewDoubt
  <2> QED BY <2>6, NoNewDoubtKeeps
<1>6. CASE InputRequested(i, n)
  BY <1>6, <1>c DEF InputRequested, SameHands, Unclaimed
<1>7. CASE EmptyResult(i, n)
  BY <1>7, <1>c DEF EmptyResult, SameHands, Unclaimed
<1>8. ASSUME NEW r \in Result, NEW t \in TreeHash, ResultPrepared(i, n, r, t)
      PROVE  StaysWith(i)'
  BY <1>8, <1>c DEF ResultPrepared, SameHands, Unclaimed
<1>9. CASE DeliverInputs(i, n)
  <2>1. /\ UNCHANGED <<status, last, attempt, op>> /\ Executable(i, n)
        /\ \A s \in Inputs :
             input'[i][s] = IF s \in Unapplied(i) /\ input[i][s].state = "pending"
                            THEN [input[i][s] EXCEPT !.state = "delivered", !.to = n]
                            ELSE input[i][s]
    BY <1>9 DEF DeliverInputs
  <2>2. \A s \in Inputs : input'[i][s] = input[i][s]
                          \/ (input'[i][s].state = "delivered" /\ input'[i][s].to = n)
    <3> SUFFICES ASSUME NEW s \in Inputs
                 PROVE  input'[i][s] = input[i][s]
                        \/ (input'[i][s].state = "delivered" /\ input'[i][s].to = n)
      OBVIOUS
    <3>1. input[i][s] \in InputRow
      OBVIOUS
    <3>2. /\ [input[i][s] EXCEPT !.state = "delivered", !.to = n].state = "delivered"
          /\ [input[i][s] EXCEPT !.state = "delivered", !.to = n].to = n
      BY <3>1 DEF InputRow
    <3> QED BY <2>1, <3>2
  <2>3. n = last[i] /\ attempt[i][n].active /\ status[i] \notin Unclaimed
    BY <1>a, <2>1 DEF EXECUTING, Unclaimed
  <2> QED BY <2>1, <2>2, <2>3 DEF StaysWith
<1>10. CASE Heartbeat(i, n)
  <2>1. SameHands(i)
    <3>1. PICK l : attempt' = [attempt EXCEPT ![i][n] = [Fenced(i, n) EXCEPT !.lease = l]]
      BY <1>10 DEF Heartbeat
    <3>2. [Fenced(i, n) EXCEPT !.lease = l].active = attempt[i][n].active
      BY FencedHands DEF AttemptRow
    <3> QED BY <3>1, <3>2 DEF SameHands
  <2> QED BY <1>10, <1>c, <2>1 DEF Heartbeat
<1>11. CASE Controls(i, n)
  <2>1. SameHands(i)
    <3>1. CASE attempt' = [attempt EXCEPT ![i][n] = Fenced(i, n)]
      BY <3>1, FencedHands DEF SameHands
    <3>2. CASE StopAttempt(i, n, "blocked", "authority_changed")
      BY <3>2 DEF StopAttempt, SameHands, AttemptRow
    <3> QED BY <1>11, <3>1, <3>2 DEF Controls
  <2>2. /\ UNCHANGED <<last, input>>
        /\ op' = op \/ \E m : op'[i] = InvalidateApprovals(op[i], m)
        /\ status'[i] \in {status[i], "cancel_requested"}
    BY <1>11 DEF Controls, StopAttempt
  <2>3. \A k \in Op : op'[i][k].state = op[i][k].state /\ op'[i][k].at = op[i][k].at
    BY <2>2, OutcomesStay
  <2> QED BY <2>1, <2>2, <2>3 DEF StaysWith, SameHands, Unclaimed
<1>12. ASSUME NEW s \in Inputs, InputApplied(i, n, s) PROVE StaysWith(i)'
  <2>1. /\ UNCHANGED <<last, attempt, op>> /\ status'[i] \in {status[i], "running"}
        /\ input' = [input EXCEPT ![i][s].state = "applied"]
    BY <1>12 DEF InputApplied
  <2> QED BY <2>1 DEF StaysWith, Unclaimed, Doubtful, InputRow
<1>13. ASSUME NEW s \in Inputs, InputUncertain(i, n, s) PROVE StaysWith(i)'
  <2>1. /\ UNCHANGED <<last, attempt, op, status>> /\ input[i][s].state = "delivered"
        /\ input' = [input EXCEPT ![i][s].state = "delivery_uncertain"]
    BY <1>13 DEF InputUncertain
  <2> QED BY <2>1 DEF StaysWith, Doubtful, InputRow
<1>14. ASSUME NEW s \in Inputs, NEW o, ReconcileInput(i, n, s, o) PROVE StaysWith(i)'
  <2>1. /\ UNCHANGED <<last, attempt, op, status>>
        /\ \A e \in Inputs : input'[i][e] = input[i][e] \/ input'[i][e].state \in {"applied", "pending"}
    BY <1>14 DEF ReconcileInput
  <2> QED BY <2>1 DEF StaysWith, Doubtful
<1>15. CASE Elapse(i, n)
  <2>1. SameHands(i)
    BY <1>15, TimerQuiet DEF TimerStep, Quiet
  <2> QED BY <1>15, <1>c, <2>1 DEF Elapse
<1> QED BY <1>1, <1>2, <1>3, <1>4, <1>5, <1>6, <1>7, <1>8, <1>9, <1>10, <1>11, <1>12,
  <1>13, <1>14, <1>15 DEF DeviceStep, TimerStep

\* The ledger.  Only consume_operation starts an operation, for the attempt that asked.
LEMMA OperationKeeps ==
  ASSUME TypeOK, OneContainment, NEW i \in Job, StaysWith(i), NEW n \in Attempts, NEW k \in Op,
         OperationStep(i, n, k)
  PROVE  StaysWith(i)'
<1> USE DEF TypeOK, JobTypes, AttemptTypes, InputTypes, WorkTypes, transition
<1>a. Executable(i, n) => n = last[i] /\ status[i] \notin Unclaimed
  BY ExecutesNewest DEF EXECUTING, Unclaimed
<1>b. \A m \in Op : op[i][m] \in OpRow
  OBVIOUS
\* Row k is in doubt now only for the newest attempt, and the rest of the ledger stays.
<1>c. ASSUME UNCHANGED <<last, input>>, SameHands(i),
             status'[i] \in Unclaimed => status[i] \in Unclaimed,
             \A m \in Op \ {k} : op'[i][m].state = op[i][m].state /\ op'[i][m].at = op[i][m].at,
             op'[i][k].state \in Unresolved =>
               op'[i][k].at = last[i] /\ status'[i] \notin Unclaimed
      PROVE  StaysWith(i)'
  BY <1>c DEF StaysWith, SameHands
<1>1. ASSUME NEW b \in BOOLEAN, ProposeOperation(i, n, k, b) PROVE StaysWith(i)'
  <2>1. /\ UNCHANGED <<last, input, attempt>> /\ status'[i] \in {status[i], "waiting_for_approval"}
        /\ op'[i][k].state \in {"proposed", "authorized"}
        /\ \A m \in Op \ {k} : op'[i][m] = op[i][m]
    BY <1>1 DEF ProposeOperation
  <2> QED BY <2>1, <1>c DEF SameHands, Unclaimed, Unresolved
<1>2. CASE Approve(i, n, k)
  <2>1. /\ UNCHANGED <<last, input, attempt>> /\ status'[i] = "running" /\ Executable(i, n)
        /\ op'[i][k].state = op[i][k].state /\ op'[i][k].at = op[i][k].at
        /\ \A m \in Op \ {k} : op'[i][m] = op[i][m]
    BY <1>2, <1>b DEF Approve, OpRow
  <2> QED BY <2>1, <1>c DEF SameHands, Unclaimed, StaysWith
<1>3. CASE Reject(i, n, k)
  <2>1. /\ UNCHANGED <<last, input>> /\ status'[i] = "cancel_requested"
        /\ op'[i] = [InvalidateApprovals(op[i], n) EXCEPT ![k].approval = "rejected"]
    BY <1>3 DEF Reject
  <2>2. SameHands(i)
    BY <1>3 DEF Reject, SameHands, AttemptRow
  <2>3. InvalidateApprovals(op[i], n) \in [Op -> OpRow]
    BY Ledger
  <2>4. \A m \in Op : /\ op'[i][m].state = InvalidateApprovals(op[i], n)[m].state
                      /\ op'[i][m].at = InvalidateApprovals(op[i], n)[m].at
    BY <2>1, <2>3 DEF OpRow
  <2>5. \A m \in Op : op'[i][m].state = op[i][m].state /\ op'[i][m].at = op[i][m].at
    BY <2>4, OutcomesKept
  <2> QED BY <2>1, <2>2, <2>5, <1>c DEF Unclaimed, StaysWith
<1>4. CASE ConsumeOperation(i, n, k)
  <2>1. /\ UNCHANGED <<last, input, attempt, status>> /\ Executable(i, n)
        /\ op[i][k].at = n
        /\ \A m \in Op \ {k} : op'[i][m] = op[i][m]
    BY <1>4 DEF ConsumeOperation
  <2>2. op'[i][k].at = op[i][k].at
    BY <1>4, <1>b DEF ConsumeOperation, OpRow
  <2> QED BY <2>1, <2>2, <1>a, <1>c DEF SameHands
<1>5. ASSUME UNCHANGED <<last, input, attempt, status>>, NEW o,
             op' = [op EXCEPT ![i][k].state = o],
             o \in Unresolved => op[i][k].state \in Unresolved
      PROVE  StaysWith(i)'
  <2>1. /\ op'[i][k].state = o /\ op'[i][k].at = op[i][k].at
        /\ \A m \in Op \ {k} : op'[i][m] = op[i][m]
    BY <1>5, <1>b DEF OpRow
  <2> QED BY <1>5, <2>1, <1>c DEF SameHands, StaysWith
<1>6. ASSUME NEW o, ToolFinished(i, n, k, o) PROVE StaysWith(i)'
  BY <1>6, <1>5 DEF ToolFinished, Unresolved
<1>7. ASSUME NEW b, VerificationFinished(i, n, k, b) PROVE StaysWith(i)'
  BY <1>7 DEF VerificationFinished, StaysWith
<1>8. CASE ReconcileOperation(i, n, k)
  BY <1>8, <1>5 DEF ReconcileOperation, Unresolved
<1>9. ASSUME NEW o, NEW t, ReconcileLocalOperation(i, n, k, o, t) PROVE StaysWith(i)'
  BY <1>9, <1>5 DEF ReconcileLocalOperation, Unresolved
<1> QED BY <1>1, <1>2, <1>3, <1>4, <1>6, <1>7, <1>8, <1>9 DEF OperationStep

\* An approval that expires, a device that is revoked and a publication hand nothing out.
LEMMA OthersKeep ==
  ASSUME TypeOK, OneContainment, NEW i \in Job, StaysWith(i),
         \/ \E k \in Op : ApprovalExpired(i, k)
         \/ \E r \in Runner : RevokeRunner(r)
         \/ \E p \in Publisher : PublishStep(p) /\ pub[p].job = i
  PROVE  StaysWith(i)'
<1> USE DEF TypeOK, JobTypes, AttemptTypes, InputTypes, WorkTypes, transition
<1>1. ASSUME NEW k \in Op, ApprovalExpired(i, k) PROVE StaysWith(i)'
  <2> DEFINE expired == [op[i] EXCEPT ![k].approval = "expired"]
  <2>a. op[i] \in [Op -> OpRow] /\ "expired" \in ApprovalState
    BY DEF ApprovalState
  <2>1. expired \in [Op -> OpRow]
    BY <2>a, OpRows
  <2>2. \A m \in Op : expired[m].state = op[i][m].state /\ expired[m].at = op[i][m].at
    BY SMTT(30) DEF OpRow
  <2>3. \/ op' = [op EXCEPT ![i] = expired]
        \/ op' = [op EXCEPT ![i] = InvalidateApprovals(expired, op[i][k].at)]
    BY <1>1 DEF ApprovalExpired
  <2> HIDE DEF expired
  <2>4. ASSUME NEW m \in Op PROVE op'[i][m].state = op[i][m].state /\ op'[i][m].at = op[i][m].at
    <3>1. op'[i] = expired \/ op'[i] = InvalidateApprovals(expired, op[i][k].at)
      BY <2>3
    <3>2. CASE op'[i] = expired
      BY <2>2, <3>2
    <3>3. CASE op'[i] = InvalidateApprovals(expired, op[i][k].at)
      <4>1. /\ InvalidateApprovals(expired, op[i][k].at)[m].state = expired[m].state
            /\ InvalidateApprovals(expired, op[i][k].at)[m].at = expired[m].at
        BY <2>1, OutcomesKept
      <4> QED BY <2>2, <3>3, <4>1
    <3> QED BY <3>1, <3>2, <3>3
  <2>5. UNCHANGED <<last, input>> /\ status'[i] \in {status[i], "cancel_requested"}
    <3>1. UNCHANGED <<last, input>>
      BY <1>1 DEF ApprovalExpired
    <3>2. status' = status \/ status' = [status EXCEPT ![i] = "cancel_requested"]
      BY <1>1 DEF ApprovalExpired
    <3> QED BY <3>1, <3>2
  <2>6. SameHands(i)
    BY <1>1, ExpiryQuiet DEF Quiet
  <2> QED BY <2>4, <2>5, <2>6 DEF StaysWith, SameHands, Unclaimed
<1>2. ASSUME NEW r \in Runner, RevokeRunner(r) PROVE StaysWith(i)'
  <2>1. UNCHANGED <<last, input, op>> /\ status'[i] \in {status[i], "cancel_requested"}
    BY <1>2 DEF RevokeRunner
  <2>2. SameHands(i)
    BY <1>2, RevocationQuiet DEF Quiet
  <2> QED BY <2>1, <2>2 DEF StaysWith, SameHands, Unclaimed
<1>3. ASSUME NEW p \in Publisher, PublishStep(p), pub[p].job = i PROVE StaysWith(i)'
  <2>1. UNCHANGED <<attemptVars, inputVars, op>>
    BY <1>3 DEF PublishStep, ReadProposal, CommitResult, BlockPublication
  <2>2. status'[i] \in {status[i], "completed", "verifying", "failed"}
    BY <1>3 DEF PublishStep, ReadProposal, CommitResult, BlockPublication, Publish
  <2> QED BY <2>1, <2>2 DEF StaysWith, Unclaimed
<1> QED BY <1>1, <1>2, <1>3

\* No handler leaves doubtful work behind (claim_work, resume_job, record_event, lease_lost).
LEMMA WorkStays == Spec => []WorkInv
<1>1. Init => WorkInv
  <2> SUFFICES ASSUME Init, NEW i \in Job PROVE StaysWith(i)
    BY DEF WorkInv
  <2>1. /\ op = [j \in Job |-> [k \in Op |-> NoOp]]
        /\ input = [j \in Job |-> [s \in Inputs |-> NoInput]]
    BY DEF Init
  <2> QED BY <2>1 DEF StaysWith, NoOp, NoInput, Unresolved, Doubtful
<1>2. TypeOK /\ OneContainment /\ WorkInv /\ [Next]_vars => WorkInv'
  <2> SUFFICES ASSUME TypeOK, OneContainment, WorkInv, [Next]_vars, NEW i \in Job
               PROVE  StaysWith(i)'
    BY DEF WorkInv
  <2>1. StaysWith(i)
    BY DEF WorkInv
  <2>2. CASE Same(i)
    BY <2>1, <2>2, OneTask DEF Same, StaysWith
  <2>3. CASE About(i)
    BY <2>1, <2>3, OwnerKeeps, DeviceKeeps, OperationKeeps, OthersKeep DEF About
  <2> QED BY <2>2, <2>3, OneTask
<1> QED BY <1>1, <1>2, TypeCorrect, OneAtATime, PTL DEF Spec

\* An operation without an outcome, and an input nobody acknowledged, belong to the newest
\* attempt of a task that is not waiting to be claimed (resume_job, claim_work).
THEOREM NothingIsLeftBehind == Spec => []NothingLeftBehind
<1>1. WorkInv => NothingLeftBehind
  BY DEF WorkInv, StaysWith, NothingLeftBehind, UnresolvedOps, Unclaimed, Unresolved, Doubtful
<1> QED BY <1>1, WorkStays, PTL

-----------------------------------------------------------------------------
(* Inputs *)

\* What a step may do to an input that was not acknowledged yet: acknowledge it after its
\* predecessors, hand it out, or take it back with a receipt.
InputMoves(i, s) ==
  \/ input'[i][s] = input[i][s]
  \/ /\ input[i][s].state # "applied"
     /\ input'[i][s].state = "applied" => InOrder(i, s)
     /\ \/ input'[i][s].to = input[i][s].to
        \/ input[i][s].to = 0
        \/ input[i][s].to \in input'[i][s].outcomes

\* What a device reports of an input is recorded in order, with what was said of it.
LEMMA DeviceMoves ==
  ASSUME TypeOK, OneContainment, NEW i \in Job, NEW n \in Attempts, NEW s \in Inputs,
         DeviceStep(i, n) \/ TimerStep(i, n)
  PROVE  InputMoves(i, s)
<1> USE DEF TypeOK, InputTypes
<1>a. input[i][s] \in InputRow
  OBVIOUS
<1>1. CASE input' = input
  BY <1>1 DEF InputMoves
<1>2. CASE input'[i] = OrphanInputs(input[i], n)
  BY <1>a, <1>2 DEF OrphanInputs, InputRow, InputMoves
<1>3. CASE AttemptInterrupted(i, n) \/ LeaseLost(i, n) \/ AttemptStopped(i, n)
  BY <1>2, <1>3 DEF AttemptInterrupted, LeaseLost, LoseLease, AttemptStopped
<1>4. CASE DeliverInputs(i, n)
  <2>1. input'[i][s] = IF s \in Unapplied(i) /\ input[i][s].state = "pending"
                       THEN [input[i][s] EXCEPT !.state = "delivered", !.to = n]
                       ELSE input[i][s]
    BY <1>4 DEF DeliverInputs
  <2>2. s \in Unapplied(i) => input[i][s].to \in {0, n}
    BY <1>4 DEF DeliverInputs
  <2>3. /\ [input[i][s] EXCEPT !.state = "delivered", !.to = n].state = "delivered"
        /\ [input[i][s] EXCEPT !.state = "delivered", !.to = n].to = n
    BY <1>a DEF InputRow
  <2>4. CASE input'[i][s] = input[i][s]
    BY <2>4 DEF InputMoves
  <2>5. CASE input'[i][s] # input[i][s]
    <3>1. s \in Unapplied(i) /\ input[i][s].state = "pending"
          /\ input'[i][s].state = "delivered" /\ input'[i][s].to = n
      BY <2>1, <2>3, <2>5
    <3> QED BY <3>1, <2>2 DEF InputMoves
  <2> QED BY <2>4, <2>5
<1>5. ASSUME NEW e \in Inputs, InputApplied(i, n, e) PROVE InputMoves(i, s)
  <2>1. /\ input' = [input EXCEPT ![i][e].state = "applied"] /\ InOrder(i, e)
        /\ input[i][e].state \in {"delivered", "delivery_uncertain"}
    BY <1>5 DEF InputApplied
  <2> QED BY <1>a, <2>1 DEF InputMoves, InputRow
<1>6. ASSUME NEW e \in Inputs, InputUncertain(i, n, e) PROVE InputMoves(i, s)
  <2>1. /\ input' = [input EXCEPT ![i][e].state = "delivery_uncertain"]
        /\ input[i][e].state = "delivered"
    BY <1>6 DEF InputUncertain
  <2> QED BY <1>a, <2>1 DEF InputMoves, InputRow
<1>7. ASSUME NEW e \in Inputs, NEW o, ReconcileInput(i, n, e, o) PROVE InputMoves(i, s)
  <2>1. input[i][e].to = n /\ input[i][e].state = "delivery_uncertain"
    BY <1>7 DEF ReconcileInput
  <2>2. \/ s # e /\ input'[i][s] = input[i][s]
        \/ /\ s = e /\ o = "applied" /\ InOrder(i, s)
           /\ input'[i][s].state = "applied" /\ input'[i][s].to = n
        \/ /\ s = e /\ input'[i][s].state = "pending" /\ n \in input'[i][s].outcomes
    BY <1>7 DEF ReconcileInput
  <2> QED BY <2>1, <2>2 DEF InputMoves
<1>8. input' = input \/ AttemptInterrupted(i, n) \/ LeaseLost(i, n) \/ AttemptStopped(i, n)
      \/ DeliverInputs(i, n)
      \/ \E e \in Inputs : \/ InputApplied(i, n, e) \/ InputUncertain(i, n, e)
                           \/ \E o : ReconcileInput(i, n, e, o)
  <2>1. ASSUME NEW t \in Tree, WorkspacePrepared(i, n, t) \/ SaveCheckpoint(i, n, t)
        PROVE  input' = input
    BY <2>1 DEF WorkspacePrepared, SaveCheckpoint
  <2>2. CASE AttemptStarted(i, n) \/ InputRequested(i, n) \/ EmptyResult(i, n)
    BY <2>2 DEF AttemptStarted, InputRequested, EmptyResult
  <2>3. ASSUME NEW r \in Result, NEW t \in TreeHash, ResultPrepared(i, n, r, t)
        PROVE  input' = input
    BY <2>3 DEF ResultPrepared
  <2>4. CASE Heartbeat(i, n) \/ Controls(i, n) \/ Elapse(i, n)
    BY <2>4 DEF Heartbeat, Controls, Elapse
  <2> QED BY <2>1, <2>2, <2>3, <2>4 DEF DeviceStep, TimerStep
<1> QED BY <1>1, <1>3, <1>4, <1>5, <1>6, <1>7, <1>8

\* Nobody but the device, and the loss of it, moves an input.
LEMMA StepMoves ==
  ASSUME TypeOK, OneContainment, [Next]_vars, NEW i \in Job, NEW s \in Inputs
  PROVE  InputMoves(i, s)
<1>1. CASE input'[i] = input[i]
  BY <1>1 DEF InputMoves
<1>2. ASSUME OwnerStep(i) \/ ClaimWork(i) \/ StartDeadlineExpired(i) PROVE input' = input
  BY ZenonT(60), <1>2 DEF OwnerStep, CreateQueued, CreateBlocked, CreateDraft, CompleteDraft, CancelJob,
     AddInput, ResumeJob, DeliverPrivately, AccessChange, ClaimWork, StartDeadlineExpired
<1>3. ASSUME NEW n \in Attempts, NEW k \in Op, OperationStep(i, n, k) PROVE input' = input
  BY ZenonT(60), <1>3 DEF OperationStep, ProposeOperation, Approve, Reject, ConsumeOperation, ToolFinished,
     VerificationFinished, ReconcileOperation, ReconcileLocalOperation
<1>4. ASSUME \/ \E k \in Op : ApprovalExpired(i, k)
             \/ \E r \in Runner : RevokeRunner(r)
             \/ \E p \in Publisher : PublishStep(p) /\ pub[p].job = i
      PROVE  input' = input
  BY Zenon, <1>4 DEF ApprovalExpired, RevokeRunner, PublishStep, ReadProposal, CommitResult,
     BlockPublication
<1> QED BY <1>1, <1>2, <1>3, <1>4, OneTask, DeviceMoves DEF About, Same

\* Inputs are acknowledged in the order they were given, whoever acknowledges them.
LEMMA InputsInOrder == Spec => []InputsAppliedInOrder
<1>1. Init => InputsAppliedInOrder
  <2> SUFFICES ASSUME Init PROVE InputsAppliedInOrder
    OBVIOUS
  <2>1. input = [j \in Job |-> [s \in Inputs |-> NoInput]]
    BY DEF Init
  <2> QED BY <2>1 DEF InputsAppliedInOrder, NoInput
<1>2. TypeOK /\ OneContainment /\ InputsAppliedInOrder /\ [Next]_vars => InputsAppliedInOrder'
  <2> SUFFICES ASSUME TypeOK, OneContainment, InputsAppliedInOrder, [Next]_vars,
                      NEW i \in Job, NEW s \in Inputs, NEW e \in Inputs,
                      s < e, input'[i][e].state = "applied"
               PROVE  input'[i][s].state = "applied"
    BY DEF InputsAppliedInOrder
  <2>1. InOrder(i, e) => input[i][s].state = "applied"
    BY ConstantsAssumption DEF InOrder, Inputs
  <2>2. input[i][s].state = "applied"
    BY <2>1, StepMoves DEF InputMoves, InputsAppliedInOrder
  <2> QED BY <2>2, StepMoves DEF InputMoves
<1> QED BY <1>1, <1>2, TypeCorrect, OneAtATime, PTL DEF Spec

\* What was handed to an attempt is neither handed out again nor lost.
THEOREM WorkStaysWithItsAttempt == Spec => []WorkIsKept
<1>1. NothingLeftBehind /\ InputsAppliedInOrder => WorkIsKept
  BY DEF WorkIsKept
<1> QED BY <1>1, NothingIsLeftBehind, InputsInOrder, PTL

\* An input is taken from an attempt only with a receipt that it was not applied there, and
\* an acknowledged one is never delivered again (deliver_inputs, reconcile_input).
THEOREM NoImplicitReplay == Spec => UncertainNotReplayed
<1> DEFINE Kept == \A j \in Job, s \in Inputs :
             LET old == input[j][s]
                 new == input'[j][s]
             IN
             /\ old.to # 0 /\ new.to # old.to => old.to \in new.outcomes
             /\ old.state = "applied" => new = old
<1>1. TypeOK /\ OneContainment /\ [Next]_vars => Kept
  BY StepMoves DEF InputMoves
<1>2. TypeOK /\ OneContainment /\ [Next]_vars => [Kept]_vars
  BY <1>1
<1> QED BY <1>2, TypeCorrect, OneAtATime, PTL DEF Spec, UncertainNotReplayed

-----------------------------------------------------------------------------
(* What the status of a task says of its processes *)

\* In these, somebody holds the task.
HeldStatus == {"running", "waiting_for_input", "waiting_for_approval", "cancel_requested"}

Matches(process, s) ==
  \/ process \in {"starting", "active"} /\ s \in EXECUTING \cup {"interrupted", "failed"}
  \/ process = "stopping" /\ s \in {"cancel_requested", "verifying", "failed"}
  \/ process = "unknown" /\ s \in {"interrupted", "failed"}

Contained(i) ==
  /\ status[i] \in HeldStatus => \E m \in Attempts : attempt[i][m].active
  /\ \A m \in Attempts : attempt[i][m].active => Matches(attempt[i][m].proc, status[i])

ContainedInv == \A i \in Job : Contained(i)

\* The newest attempt gets a new row and the task a new status: they only have to match.
LEMMA ContainedRow ==
  ASSUME AttemptTypes, OneContainment, NEW i \in Job, NEW n \in Attempts, n = last[i],
         NEW r, attempt' = [attempt EXCEPT ![i][n] = r],
         r.active => Matches(r.proc, status'[i]), status'[i] \in HeldStatus => r.active
  PROVE  Contained(i)'
<1>1. attempt'[i][n] = r /\ \A m \in Attempts : m # n => attempt'[i][m] = attempt[i][m]
  BY DEF AttemptTypes
<1>2. \A m \in Attempts : m # n => ~attempt[i][m].active
  BY DEF OneContainment
<1> QED BY <1>1, <1>2 DEF Contained

\* request_stop.
LEMMA ContainedStop ==
  ASSUME AttemptTypes, OneContainment, NEW i \in Job, NEW n \in Attempts,
         attempt[i][n].active, status'[i] = "cancel_requested",
         attempt' = [attempt EXCEPT ![i][n].proc = "stopping", ![i][n].stopRow = TRUE]
  PROVE  Contained(i)'
<1> DEFINE row == [attempt[i][n] EXCEPT !.proc = "stopping", !.stopRow = TRUE]
<1>1. row.active /\ row.proc = "stopping"
  BY DEF AttemptTypes, AttemptRow
<1>2. attempt' = [attempt EXCEPT ![i][n] = row]
  BY DEF AttemptTypes
<1>3. n = last[i]
  BY DEF OneContainment
<1> HIDE DEF row
<1> QED BY <1>1, <1>2, <1>3, ContainedRow DEF Matches

\* The process of the attempt changes.
LEMMA ContainedProcess ==
  ASSUME AttemptTypes, OneContainment, NEW i \in Job, NEW n \in Attempts, NEW q,
         attempt[i][n].active, Matches(q, status'[i]),
         attempt' = [attempt EXCEPT ![i][n].proc = q]
  PROVE  Contained(i)'
<1> DEFINE row == [attempt[i][n] EXCEPT !.proc = q]
<1>1. row.active /\ row.proc = q
  BY DEF AttemptTypes, AttemptRow
<1>2. attempt' = [attempt EXCEPT ![i][n] = row]
  BY DEF AttemptTypes
<1>3. n = last[i]
  BY DEF OneContainment
<1> HIDE DEF row
<1> QED BY <1>1, <1>2, <1>3, ContainedRow

\* An attempt that may execute, whatever the task does next short of ending.
LEMMA ContainedGoesOn ==
  ASSUME OneContainment, NEW i \in Job, NEW n \in Attempts, Executable(i, n),
         attempt' = attempt, status'[i] \in EXECUTING \cup {"interrupted"}
  PROVE  Contained(i)'
<1>1. /\ attempt[i][n].active /\ attempt[i][n].proc \in {"starting", "active"}
      /\ \A m \in Attempts : attempt[i][m].active => m = n
  BY ExecutesNewest DEF OneContainment
<1> QED BY <1>1 DEF Contained, Matches, EXECUTING, HeldStatus

\* What an owner, a claim or the start deadline does to a status, it does to the process too.
LEMMA OwnerContains ==
  ASSUME TypeOK, OneContainment, NEW i \in Job, Contained(i),
         OwnerStep(i) \/ ClaimWork(i) \/ StartDeadlineExpired(i)
  PROVE  Contained(i)'
<1> USE DEF TypeOK, JobTypes, AttemptTypes, transition
<1>a. status[i] \in {"absent", "draft", "queued"} => \A m \in Attempts : ~attempt[i][m].active
  BY DEF Contained, Matches, EXECUTING
<1>b. ASSUME attempt' = attempt, \A m \in Attempts : ~attempt[i][m].active,
             status'[i] \notin HeldStatus
      PROVE  Contained(i)'
  BY <1>b DEF Contained
<1>1. CASE CreateQueued(i) \/ CreateBlocked(i) \/ CompleteDraft(i)
  BY <1>1, <1>a, <1>b DEF CreateQueued, CreateBlocked, CompleteDraft, HeldStatus
<1>2. CASE CreateDraft(i)
  BY <1>2, <1>a, <1>b DEF CreateDraft, HeldStatus
<1>3. CASE CancelJob(i)
  <2>1. CASE ActiveAttempts(i) = {} /\ status'[i] = "cancelled" /\ attempt' = attempt
    BY <2>1, <1>b DEF ActiveAttempts, HeldStatus
  <2>2. ASSUME NEW n \in Attempts, attempt[i][n].active, StopAttempt(i, n, "cancelled", "")
        PROVE  Contained(i)'
    BY <2>2, ContainedStop DEF StopAttempt
  <2> QED BY <1>3, <2>1, <2>2 DEF CancelJob, ActiveAttempts
<1>4. CASE AddInput(i)
  <2>1. CASE status' = status /\ attempt' = attempt
    BY <2>1 DEF Contained
  <2>2. CASE status[i] \in EXECUTING \ {"running"}
    <3>1. PICK n \in Attempts : attempt[i][n].active
      BY <1>4, <2>2 DEF AddInput, ActiveAttempts, EXECUTING
    <3>2. /\ attempt' = attempt /\ status'[i] = "running"
          /\ \A m \in Attempts : attempt[i][m].active =>
               attempt[i][m].proc \notin {"stopping", "unknown"}
      BY <1>4, <2>2 DEF AddInput, ActiveAttempts
    <3> QED BY <3>1, <3>2 DEF Contained, Matches, EXECUTING
  <2> QED BY <1>4, <2>1, <2>2 DEF AddInput
<1>5. CASE ResumeJob(i)
  BY <1>5, <1>b DEF ResumeJob, ActiveAttempts, HeldStatus
<1>6. CASE AccessChange(i)
  BY <1>6 DEF AccessChange, Contained
<1>7. CASE DeliverPrivately(i)
  <2>1. /\ attempt' = attempt /\ status'[i] = "completed"
        /\ last[i] # 0 /\ ~attempt[i][last[i]].active
    BY <1>7 DEF DeliverPrivately, Publish, verify_result
  <2>2. \A m \in Attempts : ~attempt[i][m].active
    BY <2>1 DEF OneContainment
  <2> QED BY <2>1, <2>2, <1>b DEF HeldStatus
<1>8. CASE ClaimWork(i)
  <2>1. /\ last[i] + 1 \in Attempts /\ \A m \in Attempts : ~attempt[i][m].active
        /\ \A m \in Attempts : m # last[i] + 1 => attempt'[i][m] = attempt[i][m]
    BY <1>8, Claimed
  <2>2. /\ status'[i] = "running"
        /\ attempt'[i][last[i] + 1] =
             [active |-> TRUE, proc |-> "starting", lease |-> LeaseTicks, budget |-> Budget,
              prepared |-> FALSE, stopRow |-> FALSE]
    BY <1>8, <2>1 DEF ClaimWork
  <2>3. attempt'[i][last[i] + 1].active /\ attempt'[i][last[i] + 1].proc = "starting"
    BY <2>2
  <2> QED BY <2>1, <2>2, <2>3 DEF Contained, Matches, EXECUTING
<1>9. CASE StartDeadlineExpired(i)
  BY <1>9, <1>a, <1>b DEF StartDeadlineExpired, HeldStatus
<1> QED BY <1>1, <1>2, <1>3, <1>4, <1>5, <1>6, <1>7, <1>8, <1>9 DEF OwnerStep

\* What a device reports of a process goes into the status, and a lost lease does.
LEMMA DeviceContains ==
  ASSUME TypeOK, OneContainment, NEW i \in Job, Contained(i), NEW n \in Attempts,
         DeviceStep(i, n) \/ TimerStep(i, n)
  PROVE  Contained(i)'
<1> USE DEF TypeOK, JobTypes, AttemptTypes, transition
<1>a. Executable(i, n) => /\ n = last[i] /\ attempt[i][n].active /\ status[i] \in EXECUTING
                          /\ attempt[i][n].proc \in {"starting", "active"}
  BY ExecutesNewest
<1>b. attempt[i][n] \in AttemptRow
  OBVIOUS
<1>c. UNCHANGED <<status, attempt>> => Contained(i)'
  BY DEF Contained
\* The attempt is the one that may execute, and its process stays as it was.
<1>d. ASSUME Executable(i, n), NEW r, r.active, r.proc = attempt[i][n].proc,
             status' = status, attempt' = [attempt EXCEPT ![i][n] = r]
      PROVE  Contained(i)'
  BY <1>a, <1>d, ContainedRow DEF Contained
<1>1. ASSUME NEW t \in Tree, WorkspacePrepared(i, n, t) PROVE Contained(i)'
  <2> DEFINE row == [attempt[i][n] EXCEPT !.prepared = TRUE]
  <2>1. /\ Executable(i, n) /\ attempt' = [attempt EXCEPT ![i][n] = row] /\ status' = status
        /\ row.active = attempt[i][n].active /\ row.proc = attempt[i][n].proc
    BY <1>1, <1>b DEF WorkspacePrepared, Reporting, AttemptRow
  <2> HIDE DEF row
  <2> QED BY <2>1, <1>a, <1>d
<1>2. ASSUME NEW t \in Tree, SaveCheckpoint(i, n, t) PROVE Contained(i)'
  BY <1>2, <1>c DEF SaveCheckpoint
<1>3. CASE AttemptStarted(i, n)
  <2>1. attempt[i][n].active /\ Matches("active", status'[i])
    BY <1>3, <1>a DEF AttemptStarted, Reporting, Matches
  <2> QED BY <1>3, <2>1, ContainedProcess DEF AttemptStarted
<1>4. CASE AttemptInterrupted(i, n) \/ LeaseLost(i, n)
  <2>1. attempt[i][n].active /\ Matches("unknown", status'[i])
    BY <1>4 DEF AttemptInterrupted, LeaseLost, LoseLease, Matches
  <2> QED BY <1>4, <2>1, ContainedProcess DEF AttemptInterrupted, LeaseLost, LoseLease
<1>5. CASE AttemptStopped(i, n)
  <2>1. n = last[i] /\ attempt' = [attempt EXCEPT ![i][n] = NoAttempt] /\ ~NoAttempt.active
    BY <1>5 DEF AttemptStopped, NoAttempt
  <2>2. status'[i] \notin HeldStatus
    BY <1>5 DEF AttemptStopped, HeldStatus, TERMINAL
  <2> QED BY <2>1, <2>2, ContainedRow
<1>6. CASE InputRequested(i, n)
  BY <1>6, ContainedGoesOn DEF InputRequested, Reporting, EXECUTING
<1>7. CASE EmptyResult(i, n)
  BY <1>7, ContainedGoesOn DEF EmptyResult, Reporting
<1>8. ASSUME NEW r \in Result, NEW t \in TreeHash, ResultPrepared(i, n, r, t)
      PROVE  Contained(i)'
  BY <1>8, ContainedGoesOn DEF ResultPrepared, Reporting, EXECUTING
<1>9. CASE DeliverInputs(i, n)
  BY <1>9, <1>c DEF DeliverInputs
\* A result is fenced while its task verifies.
<1>e. ASSUME NEW r, Executable(i, n), status' = status,
             r.active = Fenced(i, n).active, r.proc = Fenced(i, n).proc,
             attempt' = [attempt EXCEPT ![i][n] = r]
      PROVE  Contained(i)'
  BY <1>a, <1>e, FencedHands, ContainedRow DEF Contained, Matches
<1>10. CASE Heartbeat(i, n)
  <2>1. PICK l : attempt' = [attempt EXCEPT ![i][n] = [Fenced(i, n) EXCEPT !.lease = l]]
    BY <1>10 DEF Heartbeat
  <2> DEFINE row == [Fenced(i, n) EXCEPT !.lease = l]
  <2>2. row.active = Fenced(i, n).active /\ row.proc = Fenced(i, n).proc
    BY FencedHands DEF AttemptRow
  <2>3. Executable(i, n) /\ status' = status
    BY <1>10 DEF Heartbeat
  <2> HIDE DEF row
  <2> QED BY <2>1, <2>2, <2>3, <1>e DEF row
<1>11. CASE Controls(i, n)
  <2>1. CASE Executable(i, n) /\ status' = status
             /\ attempt' = [attempt EXCEPT ![i][n] = Fenced(i, n)]
    BY <2>1, <1>e
  <2>2. CASE StopAttempt(i, n, "blocked", "authority_changed")
    BY <1>11, <2>2, ContainedStop DEF Controls, StopAttempt
  <2> QED BY <1>11, <2>1, <2>2 DEF Controls
<1>12. ASSUME NEW s \in Inputs, InputApplied(i, n, s) PROVE Contained(i)'
  <2>1. Executable(i, n) /\ attempt' = attempt /\ status'[i] \in {status[i], "running"}
    BY <1>12 DEF InputApplied, Reporting
  <2> QED BY <1>a, <2>1, ContainedGoesOn DEF EXECUTING
<1>13. ASSUME NEW s \in Inputs, NEW o, InputUncertain(i, n, s) \/ ReconcileInput(i, n, s, o)
       PROVE  Contained(i)'
  BY <1>13, <1>c DEF InputUncertain, ReconcileInput
<1>14. CASE Elapse(i, n)
  <2>1. /\ status' = status
        /\ \A m \in Attempts : /\ attempt'[i][m].active = attempt[i][m].active
                               /\ attempt'[i][m].proc = attempt[i][m].proc
    BY <1>14 DEF Elapse, AttemptRow
  <2> QED BY <2>1 DEF Contained
<1> QED BY <1>1, <1>2, <1>3, <1>4, <1>5, <1>6, <1>7, <1>8, <1>9, <1>10, <1>11, <1>12,
  <1>13, <1>14 DEF DeviceStep, TimerStep

\* An operation moves the status only of a task that executes (propose_operation, approve).
LEMMA OperationContains ==
  ASSUME TypeOK, OneContainment, NEW i \in Job, Contained(i), NEW n \in Attempts, NEW k \in Op,
         OperationStep(i, n, k)
  PROVE  Contained(i)'
<1> USE DEF TypeOK, JobTypes, AttemptTypes, transition
<1>a. Executable(i, n) => status[i] \in EXECUTING
  BY ExecutesNewest
<1>b. UNCHANGED <<status, attempt>> => Contained(i)'
  BY DEF Contained
<1>1. ASSUME NEW b \in BOOLEAN, ProposeOperation(i, n, k, b) PROVE Contained(i)'
  <2>1. /\ Executable(i, n) /\ attempt' = attempt
        /\ status'[i] \in {status[i], "waiting_for_approval"}
    BY <1>1 DEF ProposeOperation
  <2> QED BY <1>a, <2>1, ContainedGoesOn DEF EXECUTING
<1>2. CASE Approve(i, n, k)
  BY <1>2, ContainedGoesOn DEF Approve, EXECUTING
<1>3. CASE Reject(i, n, k)
  BY <1>3, ContainedStop DEF Reject, Executable
<1>4. CASE ConsumeOperation(i, n, k) \/ ReconcileOperation(i, n, k)
  BY <1>4, <1>b DEF ConsumeOperation, ReconcileOperation
<1>5. ASSUME NEW o, ToolFinished(i, n, k, o) PROVE Contained(i)'
  BY <1>5, <1>b DEF ToolFinished
<1>6. ASSUME NEW b, VerificationFinished(i, n, k, b) PROVE Contained(i)'
  BY <1>6, <1>b DEF VerificationFinished
<1>7. ASSUME NEW o, NEW t, ReconcileLocalOperation(i, n, k, o, t) PROVE Contained(i)'
  BY <1>7, <1>b DEF ReconcileLocalOperation
<1> QED BY <1>1, <1>2, <1>3, <1>4, <1>5, <1>6, <1>7 DEF OperationStep

\* A revocation asks whatever process there is to stop, and a publication finds the process
\* gone, or its failure finds the task still in verifying.
LEMMA OthersContain ==
  ASSUME TypeOK, OneContainment, OpenIsLive, NEW i \in Job, Contained(i),
         \/ \E k \in Op : ApprovalExpired(i, k)
         \/ \E r \in Runner : RevokeRunner(r)
         \/ \E p \in Publisher : PublishStep(p) /\ pub[p].job = i
  PROVE  Contained(i)'
<1> USE DEF TypeOK, JobTypes, AttemptTypes, transition
<1>b. UNCHANGED <<status, attempt>> => Contained(i)'
  BY SMTT(30) DEF Contained
<1>1. ASSUME NEW k \in Op, ApprovalExpired(i, k) PROVE Contained(i)'
  <2>1. op[i][k].at \in Attempts /\ attempt[i][op[i][k].at].active
    BY Zenon, <1>1 DEF ApprovalExpired, OpenIsLive, Open
  <2> QED BY ZenonT(60), <1>1, <2>1, ContainedStop DEF ApprovalExpired
<1>2. ASSUME NEW r \in Runner, RevokeRunner(r) PROVE Contained(i)'
  <2>1. CASE Device(i) = r /\ ActiveAttempts(i) # {}
    <3>1. /\ status'[i] = "cancel_requested"
          /\ \A m \in Attempts :
               attempt'[i][m] = IF attempt[i][m].active
                                THEN [attempt[i][m] EXCEPT !.proc = "stopping"]
                                ELSE attempt[i][m]
      BY <1>2, <2>1 DEF RevokeRunner
    <3>2. \A m \in Attempts : attempt[i][m].active =>
            attempt'[i][m].active /\ attempt'[i][m].proc = "stopping"
      <4>1. \A q \in AttemptRow : /\ [q EXCEPT !.proc = "stopping"].active = q.active
                                  /\ [q EXCEPT !.proc = "stopping"].proc = "stopping"
        BY DEF AttemptRow
      <4>2. ASSUME NEW m \in Attempts, attempt[i][m].active
            PROVE  attempt'[i][m].active /\ attempt'[i][m].proc = "stopping"
        <5>1. attempt[i][m] \in AttemptRow
          OBVIOUS
        <5>2. attempt'[i][m] = [attempt[i][m] EXCEPT !.proc = "stopping"]
          BY <3>1, <4>2
        <5> HIDE DEF TypeOK, AttemptTypes
        <5> QED BY <4>1, <4>2, <5>1, <5>2
      <4> QED BY <4>2
    <3>3. \A m \in Attempts : ~attempt[i][m].active => ~attempt'[i][m].active
      BY <3>1
    <3> QED BY <2>1, <3>1, <3>2, <3>3 DEF Contained, Matches, ActiveAttempts
  <2>2. CASE ~(Device(i) = r /\ ActiveAttempts(i) # {})
    <3>1. status'[i] = status[i] /\ \A m \in Attempts : attempt'[i][m] = attempt[i][m]
      BY <1>2, <2>2 DEF RevokeRunner
    <3> QED BY <3>1 DEF Contained
  <2> QED BY <2>1, <2>2
<1>3. ASSUME NEW p \in Publisher, PublishStep(p), pub[p].job = i PROVE Contained(i)'
  <2>1. CASE ReadProposal(p)
    BY <2>1, <1>b DEF ReadProposal
  <2>2. CASE CommitResult(p)
    <3>1. \/ UNCHANGED <<status, attempt>>
          \/ /\ attempt' = attempt /\ Publish(i) /\ Refusal(p) = "none"
      BY <1>3, <2>2 DEF CommitResult
    <3>3. Refusal(p) = "none" => verify_result(i) = "none"
      BY <1>3 DEF Refusal
    <3>4. Publish(i) => status'[i] = "completed"
      BY DEF Publish
    <3>2. verify_result(i) = "none" => \A m \in Attempts : ~attempt[i][m].active
      BY DEF verify_result, OneContainment
    <3> QED BY <1>b, <3>1, <3>2, <3>3, <3>4 DEF Contained, HeldStatus
  <2>3. CASE BlockPublication(p)
    <3>1. /\ attempt' = attempt
          /\ \/ status' = status
             \/ status[i] = "verifying" /\ status'[i] \in {"verifying", "failed"}
      BY <1>3, <2>3 DEF BlockPublication
    <3> QED BY <1>b, <3>1 DEF Contained, Matches, HeldStatus, EXECUTING
  <2> QED BY <1>3, <2>1, <2>2, <2>3 DEF PublishStep
<1> QED BY <1>1, <1>2, <1>3

\* No handler separates the status from the process (request_stop, transition).
LEMMA ContainedAlways == Spec => []ContainedInv
<1>1. Init => ContainedInv
  <2> SUFFICES ASSUME Init, NEW i \in Job PROVE Contained(i)
    BY DEF ContainedInv
  <2>1. /\ attempt = [j \in Job |-> [n \in Attempts |-> NoAttempt]]
        /\ status = [j \in Job |-> "absent"]
    BY DEF Init
  <2> QED BY <2>1 DEF Contained, NoAttempt, HeldStatus
<1>2. TypeOK /\ OneContainment /\ OpenIsLive /\ ContainedInv /\ [Next]_vars => ContainedInv'
  <2> SUFFICES ASSUME TypeOK, OneContainment, OpenIsLive, ContainedInv, [Next]_vars,
                      NEW i \in Job
               PROVE  Contained(i)'
    BY DEF ContainedInv
  <2>1. Contained(i)
    BY DEF ContainedInv
  <2>2. CASE Same(i)
    BY <2>1, <2>2 DEF Same, Contained
  <2>3. CASE About(i)
    BY <2>1, <2>3, OwnerContains, DeviceContains, OperationContains, OthersContain DEF About
  <2> QED BY <2>2, <2>3, OneTask
<1> QED BY <1>1, <1>2, TypeCorrect, OneAtATime, OpenStaysLive, PTL DEF Spec

\* The status of a task never claims a process there is not, nor hides one that runs, except
\* the failed task of a late failure: see FailedIsContained (request_stop, record_event,
\* revoke_runner and the reconcile pass each set the two together).
THEOREM StatusTellsTheTruth == Spec => []ContainmentMatchesStatus
<1>1. ContainedInv => ContainmentMatchesStatus
  BY DEF ContainedInv, Contained, Matches, HeldStatus, ContainmentMatchesStatus, ActiveAttempts
<1> QED BY <1>1, ContainedAlways, PTL

-----------------------------------------------------------------------------
(* Approvals decide *)

\* A remote effect began with a consumed approval, and an approval that was neither asked
\* for nor consumed holds its operation back.
Lawful(k, row) ==
  /\ OpKind[k] = "remote" /\ row.state \notin {"none", "proposed"} => row.approval = "consumed"
  /\ row.approval \notin {"none", "consumed"} => row.state = "proposed"

Waiting(i) ==
  status[i] = "waiting_for_approval" =>
    \E k \in Op : op[i][k].at = last[i] /\ op[i][k].approval = "pending"

Decided(i) == (\A k \in Op : Lawful(k, op[i][k])) /\ Waiting(i)

DecidedInv == \A i \in Job : Decided(i)

\* Decisions and expiry write the approval of a proposal; what became of an operation that
\* started writes its state.
LEMMA LawfulRow ==
  ASSUME NEW k \in Op, NEW r \in OpRow, Lawful(k, r)
  PROVE  /\ \A c \in ApprovalState : r.approval \in Open => Lawful(k, [r EXCEPT !.approval = c])
            \/ c \in {"none", "consumed"}
         /\ \A q \in OpState : r.state \in Unresolved => Lawful(k, [r EXCEPT !.state = q])
<1>1. ASSUME NEW c \in ApprovalState, r.approval \in Open, c \notin {"none", "consumed"}
      PROVE  Lawful(k, [r EXCEPT !.approval = c])
  <2>1. [r EXCEPT !.approval = c].approval = c /\ [r EXCEPT !.approval = c].state = r.state
    BY DEF OpRow
  <2>2. r.state = "proposed"
    BY <1>1 DEF Lawful, Open
  <2> QED BY <2>1, <2>2 DEF Lawful
<1>2. ASSUME NEW q \in OpState, r.state \in Unresolved PROVE Lawful(k, [r EXCEPT !.state = q])
  <2>1. [r EXCEPT !.state = q].approval = r.approval /\ [r EXCEPT !.state = q].state = q
    BY DEF OpRow
  <2>2. r.approval \in {"none", "consumed"} /\ (OpKind[k] = "remote" => r.approval = "consumed")
    BY <1>2 DEF Lawful, Unresolved
  <2> QED BY <2>1, <2>2 DEF Lawful
<1> QED BY <1>1, <1>2

\* Closing approvals and orphaning operations do not break the order of approval and start.
LEMMA LawfulLedger ==
  ASSUME NEW k \in Op, NEW n, NEW ops \in [Op -> OpRow], Lawful(k, ops[k])
  PROVE  Lawful(k, InvalidateApprovals(ops, n)[k]) /\ Lawful(k, OrphanOps(ops, n)[k])
<1>1. Lawful(k, InvalidateApprovals(ops, n)[k])
  <2>1. CASE ops[k].approval \in Open
    BY <2>1, LawfulRow DEF InvalidateApprovals, ApprovalState
  <2>2. CASE ops[k].approval \notin Open
    BY <2>2 DEF InvalidateApprovals, Open
  <2> QED BY <2>1, <2>2
<1>2. InvalidateApprovals(ops, n)[k] \in OpRow
  BY Ledger
<1>3. InvalidateApprovals(ops, n)[k].state = ops[k].state
  BY OutcomesKept
<1>4. Lawful(k, OrphanOps(ops, n)[k])
  BY <1>1, <1>2, <1>3, LawfulRow DEF OrphanOps, OpState, Unresolved
<1> QED BY <1>1, <1>4

\* A task that does not wait for an approval, and whose ledger at most loses approvals.
LEMMA DecidedAway ==
  ASSUME WorkTypes, NEW i \in Job, Decided(i), status'[i] # "waiting_for_approval",
         \/ op' = op
         \/ \E n : op'[i] = InvalidateApprovals(op[i], n)
         \/ \E n : op'[i] = OrphanOps(op[i], n)
  PROVE  Decided(i)'
<1>1. op[i] \in [Op -> OpRow]
  BY DEF WorkTypes
<1>2. ASSUME NEW k \in Op PROVE Lawful(k, op'[i][k])
  BY <1>1, LawfulLedger DEF Decided
<1> QED BY <1>2 DEF Decided, Waiting

\* A task that goes on as it was, or stops waiting.
LEMMA DecidedStays ==
  ASSUME NEW i \in Job, Decided(i), last'[i] = last[i], op'[i] = op[i],
         status'[i] \in {status[i]} \cup (JobState \ {"waiting_for_approval"})
  PROVE  Decided(i)'
BY DEF Decided, Waiting

\* An owner only takes approvals away (cancel_job, add_input), and none of them waits for one.
LEMMA OwnerDecides ==
  ASSUME TypeOK, NEW i \in Job, Decided(i),
         OwnerStep(i) \/ ClaimWork(i) \/ StartDeadlineExpired(i)
  PROVE  Decided(i)'
<1> USE DEF TypeOK, JobTypes, transition
<1>1. CASE CreateQueued(i) \/ CreateBlocked(i) \/ CompleteDraft(i)
  BY <1>1, DecidedAway DEF CreateQueued, CreateBlocked, CompleteDraft
<1>2. CASE CreateDraft(i)
  BY <1>2, DecidedAway DEF CreateDraft
<1>3. CASE CancelJob(i)
  <2>1. status'[i] \in {"cancelled", "cancel_requested"}
    BY <1>3 DEF CancelJob, StopAttempt
  <2>2. op' = op \/ \E n : op'[i] = InvalidateApprovals(op[i], n)
    <3>1. ASSUME NEW n, StopAttempt(i, n, "cancelled", "")
          PROVE  op'[i] = InvalidateApprovals(op[i], n)
      BY <3>1 DEF StopAttempt, WorkTypes
    <3> QED BY <1>3, <3>1 DEF CancelJob
  <2> QED BY <2>1, <2>2, DecidedAway
<1>4. CASE AddInput(i)
  <2>1. CASE status[i] \in EXECUTING \ {"running"}
    <3>1. status'[i] = "running" /\ \E n : op'[i] = InvalidateApprovals(op[i], n)
      BY <1>4, <2>1 DEF AddInput, WorkTypes
    <3> QED BY <3>1, DecidedAway
  <2>2. CASE status[i] \notin EXECUTING \ {"running"}
    BY <1>4, <2>2, DecidedAway DEF AddInput, EXECUTING
  <2> QED BY <2>1, <2>2
<1>5. CASE ResumeJob(i)
  BY <1>5, DecidedAway DEF ResumeJob
<1>6. CASE AccessChange(i)
  BY <1>6, DecidedStays DEF AccessChange
<1>7. CASE DeliverPrivately(i)
  BY <1>7, DecidedAway DEF DeliverPrivately, Publish
<1>8. CASE ClaimWork(i)
  BY <1>8, DecidedAway DEF ClaimWork
<1>9. CASE StartDeadlineExpired(i)
  BY <1>9, DecidedAway DEF StartDeadlineExpired
<1> QED BY <1>1, <1>2, <1>3, <1>4, <1>5, <1>6, <1>7, <1>8, <1>9 DEF OwnerStep

\* What a device reports ends approvals with their attempt, and starts nothing.
LEMMA DeviceDecides ==
  ASSUME TypeOK, NEW i \in Job, Decided(i), NEW n \in Attempts,
         DeviceStep(i, n) \/ TimerStep(i, n)
  PROVE  Decided(i)'
<1> USE DEF TypeOK, JobTypes, transition
<1>a. UNCHANGED <<status, last, op>> => Decided(i)'
  BY DecidedStays
<1>1. ASSUME NEW t \in Tree, WorkspacePrepared(i, n, t) \/ SaveCheckpoint(i, n, t)
      PROVE  Decided(i)'
  BY <1>1, <1>a DEF WorkspacePrepared, SaveCheckpoint
<1>2. CASE AttemptStarted(i, n) \/ DeliverInputs(i, n) \/ Heartbeat(i, n) \/ Elapse(i, n)
  BY <1>2, <1>a DEF AttemptStarted, DeliverInputs, Heartbeat, Elapse
<1>3. CASE AttemptInterrupted(i, n) \/ LeaseLost(i, n)
  <2>1. status'[i] = "interrupted" /\ op'[i] = OrphanOps(op[i], n)
    BY <1>3 DEF AttemptInterrupted, LeaseLost, LoseLease, WorkTypes
  <2> QED BY <2>1, DecidedAway
<1>4. CASE AttemptStopped(i, n)
  <2>1. op'[i] = OrphanOps(op[i], n)
    BY <1>4 DEF AttemptStopped, WorkTypes
  <2>2. status'[i] # "waiting_for_approval"
    BY <1>4 DEF AttemptStopped, TERMINAL
  <2> QED BY <2>1, <2>2, DecidedAway
<1>5. CASE InputRequested(i, n)
  BY <1>5, DecidedAway DEF InputRequested
<1>6. CASE EmptyResult(i, n)
  BY <1>6, DecidedAway DEF EmptyResult
<1>7. ASSUME NEW r \in Result, NEW t \in TreeHash, ResultPrepared(i, n, r, t) PROVE Decided(i)'
  BY <1>7, DecidedAway DEF ResultPrepared
<1>8. CASE Controls(i, n)
  <2>1. CASE UNCHANGED <<status, op>>
    BY <1>8, <2>1, <1>a DEF Controls
  <2>2. CASE StopAttempt(i, n, "blocked", "authority_changed")
    <3>1. status'[i] = "cancel_requested" /\ op'[i] = InvalidateApprovals(op[i], n)
      BY <2>2 DEF StopAttempt, WorkTypes
    <3> QED BY <3>1, DecidedAway
  <2> QED BY <1>8, <2>1, <2>2 DEF Controls
<1>9. ASSUME NEW s \in Inputs, InputApplied(i, n, s) PROVE Decided(i)'
  <2>1. /\ status'[i] \in {status[i], "running"} /\ UNCHANGED <<last, op>>
    BY <1>9 DEF InputApplied
  <2> QED BY <2>1, <1>9, DecidedStays DEF JobState, EXECUTING
<1>10. ASSUME NEW s \in Inputs, NEW o, InputUncertain(i, n, s) \/ ReconcileInput(i, n, s, o)
       PROVE  Decided(i)'
  BY <1>10, <1>a DEF InputUncertain, ReconcileInput
<1> QED BY <1>1, <1>2, <1>3, <1>4, <1>5, <1>6, <1>7, <1>8, <1>9, <1>10
  DEF DeviceStep, TimerStep

\* The ledger itself: propose_operation asks, decide_approval answers, consume_operation
\* takes the answer, and only then does anything become of the operation.
LEMMA OperationDecides ==
  ASSUME TypeOK, OneContainment, NEW i \in Job, Decided(i), NEW n \in Attempts, NEW k \in Op,
         OperationStep(i, n, k)
  PROVE  Decided(i)'
<1> USE DEF TypeOK, JobTypes, WorkTypes, transition
<1>a. Executable(i, n) => n = last[i]
  BY ExecutesNewest
<1>b. op[i] \in [Op -> OpRow] /\ op[i][k] \in OpRow /\ Lawful(k, op[i][k])
  BY DEF Decided
\* One row changes into a lawful one, and the task does not begin to wait for it.
<1>c. ASSUME NEW r, Lawful(k, r), op' = [op EXCEPT ![i][k] = r], last' = last,
             \/ status'[i] # "waiting_for_approval"
             \/ status' = status /\ op[i][k].approval # "pending"
             \/ r.at = last[i] /\ r.approval = "pending"
      PROVE  Decided(i)'
  <2>1. op'[i][k] = r /\ \A m \in Op \ {k} : op'[i][m] = op[i][m]
    BY <1>c
  <2>2. \A m \in Op : Lawful(m, op'[i][m])
    BY <1>c, <2>1 DEF Decided
  <2>3. Waiting(i)'
    BY <1>c, <2>1 DEF Decided, Waiting
  <2> QED BY <2>2, <2>3 DEF Decided
<1>1. ASSUME NEW b \in BOOLEAN, ProposeOperation(i, n, k, b) PROVE Decided(i)'
  <2> DEFINE row == [at |-> n, state |-> IF b THEN "proposed" ELSE "authorized",
                     approval |-> IF b THEN "pending" ELSE "none", tree |-> tree[i]]
  <2>1. /\ op' = [op EXCEPT ![i][k] = row] /\ n = last[i] /\ last' = last
        /\ OpKind[k] = "remote" => b /\ op[i][k].state = "none"
        /\ ~b => op[i][k].state = "none" /\ status' = status
    BY <1>1, <1>a DEF ProposeOperation
  <2>2. Lawful(k, row)
    BY <2>1 DEF Lawful
  <2>3. CASE b
    <3>1. row.at = last[i] /\ row.approval = "pending"
      BY <2>1, <2>3
    <3> HIDE DEF row
    <3> QED BY <2>1, <2>2, <3>1, <1>c
  <2>4. CASE ~b
    <3>1. op[i][k].approval # "pending"
      BY <1>b, <2>1, <2>4 DEF Lawful
    <3> HIDE DEF row
    <3> QED BY <2>1, <2>2, <2>4, <3>1, <1>c
  <2> QED BY <2>3, <2>4
<1>2. CASE Approve(i, n, k)
  <2> DEFINE row == [op[i][k] EXCEPT !.approval = "approved"]
  <2>1. /\ op' = [op EXCEPT ![i][k] = row] /\ last' = last /\ status'[i] = "running"
        /\ op[i][k].approval = "pending"
    BY <1>2 DEF Approve
  <2>2. Lawful(k, row)
    BY <2>1, <1>b, LawfulRow DEF ApprovalState, Open
  <2> HIDE DEF row
  <2> QED BY <2>1, <2>2, <1>c
<1>3. CASE Reject(i, n, k)
  <2> DEFINE ops == InvalidateApprovals(op[i], n)
             row == [ops[k] EXCEPT !.approval = "rejected"]
  <2>1. /\ op'[i] = [ops EXCEPT ![k] = row] /\ status'[i] = "cancel_requested"
        /\ op[i][k].approval = "pending"
    BY <1>3 DEF Reject
  <2>2. ops \in [Op -> OpRow] /\ ops[k].state = op[i][k].state
    BY <1>b, Ledger, OutcomesKept
  <2>3. row.approval = "rejected" /\ row.state = "proposed"
    <3>1. op[i][k].state = "proposed"
      BY <1>b, <2>1 DEF Lawful
    <3>2. row.approval = "rejected" /\ row.state = ops[k].state
      BY <2>2 DEF OpRow
    <3> QED BY <2>2, <3>1, <3>2
  <2>4. \A m \in Op : Lawful(m, ops[m])
    BY <1>b, LawfulLedger DEF Decided
  <2> HIDE DEF ops, row
  <2>5. \A m \in Op : Lawful(m, op'[i][m])
    BY <2>1, <2>2, <2>3, <2>4 DEF Lawful
  <2> QED BY <2>1, <2>5 DEF Decided, Waiting
<1>4. CASE ConsumeOperation(i, n, k)
  <2> DEFINE c == IF op[i][k].state = "proposed" THEN "consumed" ELSE op[i][k].approval
             row == [op[i][k] EXCEPT !.state = "started", !.approval = c]
  <2>1. /\ op' = [op EXCEPT ![i][k].state = "started", ![i][k].approval =
                    IF op[i][k].state = "proposed" THEN "consumed" ELSE @]
        /\ last' = last /\ status' = status
        /\ \/ op[i][k].state = "authorized"
           \/ op[i][k].state = "proposed" /\ op[i][k].approval = "approved"
    BY <1>4 DEF ConsumeOperation
  <2>2. op' = [op EXCEPT ![i][k] = row]
    BY <1>b, <2>1 DEF OpRow
  <2>3. row.state = "started" /\ row.approval = c
    <3> HIDE DEF c
    <3> QED BY <1>b DEF OpRow
  <2>4. Lawful(k, row) /\ op[i][k].approval # "pending"
    BY <1>b, <2>1, <2>3 DEF Lawful
  <2> HIDE DEF row
  <2> QED BY <2>1, <2>2, <2>4, <1>c
<1>5. ASSUME UNCHANGED <<last, status>>, NEW o \in OpState,
             op' = [op EXCEPT ![i][k].state = o], op[i][k].state \in Unresolved
      PROVE  Decided(i)'
  <2> DEFINE row == [op[i][k] EXCEPT !.state = o]
  <2>1. op' = [op EXCEPT ![i][k] = row]
    BY <1>5
  <2>2. Lawful(k, row) /\ op[i][k].approval # "pending"
    BY <1>b, <1>5, LawfulRow DEF Lawful, Unresolved
  <2> HIDE DEF row
  <2> QED BY <1>5, <2>1, <2>2, <1>c
<1>6. ASSUME NEW o \in {"succeeded", "failed", "outcome_unknown", "cancelled"},
             ToolFinished(i, n, k, o)
      PROVE  Decided(i)'
  BY <1>6, <1>5 DEF ToolFinished, Unresolved, OpState
<1>7. ASSUME NEW b, VerificationFinished(i, n, k, b) PROVE Decided(i)'
  BY <1>7, DecidedStays DEF VerificationFinished
<1>8. CASE ReconcileOperation(i, n, k)
  BY <1>8, <1>5 DEF ReconcileOperation, Unresolved, OpState
<1>9. ASSUME NEW o \in {"succeeded", "failed", "cancelled"}, NEW t,
             ReconcileLocalOperation(i, n, k, o, t)
      PROVE  Decided(i)'
  BY <1>9, <1>5 DEF ReconcileLocalOperation, Unresolved, OpState
<1> QED BY <1>1, <1>2, <1>3, <1>4, <1>6, <1>7, <1>8, <1>9 DEF OperationStep

\* Whoever closes an approval also ends the wait for it.
LEMMA OthersDecide ==
  ASSUME TypeOK, OneContainment, OpenIsLive, NEW i \in Job, Decided(i),
         \/ \E k \in Op : ApprovalExpired(i, k)
         \/ \E r \in Runner : RevokeRunner(r)
         \/ \E p \in Publisher : PublishStep(p) /\ pub[p].job = i
  PROVE  Decided(i)'
<1> USE DEF TypeOK, JobTypes, WorkTypes, transition
<1>1. ASSUME NEW k \in Op, ApprovalExpired(i, k) PROVE Decided(i)'
  <2> DEFINE n == op[i][k].at
             row == [op[i][k] EXCEPT !.approval = "expired"]
             expired == [op[i] EXCEPT ![k] = row]
  <2>a. op[i] \in [Op -> OpRow] /\ op[i][k] \in OpRow /\ "expired" \in ApprovalState
    BY DEF ApprovalState
  <2>1. op[i][k].approval \in Open /\ n \in Attempts /\ attempt[i][n].active
    BY ZenonT(60), <1>1 DEF ApprovalExpired, OpenIsLive, Open
  <2>b. /\ status' = [status EXCEPT ![i] = "cancel_requested"]
        /\ op' = [op EXCEPT ![i] =
             InvalidateApprovals([op[i] EXCEPT ![k].approval = "expired"], n)]
    BY Zenon, <1>1, <2>1 DEF ApprovalExpired
  <2>2. status'[i] = "cancel_requested" /\ op'[i] = InvalidateApprovals(expired, n)
    <3>1. [op[i] EXCEPT ![k].approval = "expired"] = expired
      OBVIOUS
    <3> HIDE DEF expired, n
    <3> QED BY <2>b, <3>1
  <2>3. row \in OpRow /\ Lawful(k, row)
    BY ZenonT(60), <2>a, <2>1, OpRows, LawfulRow DEF Decided
  <2> HIDE DEF row, n
  <2>4. expired \in [Op -> OpRow] /\ \A m \in Op : Lawful(m, expired[m])
    BY <2>a, <2>3 DEF Decided
  <2> HIDE DEF expired
  <2>5. \A m \in Op : Lawful(m, op'[i][m])
    BY <2>2, <2>4, LawfulLedger
  <2> QED BY <2>2, <2>5 DEF Decided, Waiting
<1>2. ASSUME NEW r \in Runner, RevokeRunner(r) PROVE Decided(i)'
  <2>1. UNCHANGED <<last, op>> /\ status'[i] \in {status[i], "cancel_requested"}
    BY <1>2 DEF RevokeRunner
  <2> QED BY <2>1, DecidedStays DEF JobState
<1>3. ASSUME NEW p \in Publisher, PublishStep(p), pub[p].job = i PROVE Decided(i)'
  <2>1. UNCHANGED <<last, op>>
    BY <1>3 DEF PublishStep, ReadProposal, CommitResult, BlockPublication
  <2>2. status'[i] \in {status[i], "completed", "verifying", "failed"}
    BY <1>3 DEF PublishStep, ReadProposal, CommitResult, BlockPublication, Publish
  <2> QED BY <2>1, <2>2, DecidedStays DEF JobState, EXECUTING, TERMINAL
<1> QED BY <1>1, <1>2, <1>3

\* No remote effect without an approval somebody consumed, and no task that waits for one
\* nobody can give any more (consume_operation, decide_approval, invalidate_approvals).
THEOREM ApprovalsDecideAlways == Spec => []ApprovalsDecide
<1>1. Init => DecidedInv
  <2> SUFFICES ASSUME Init, NEW i \in Job PROVE Decided(i)
    BY DEF DecidedInv
  <2>1. /\ op = [j \in Job |-> [k \in Op |-> NoOp]]
        /\ status = [j \in Job |-> "absent"]
    BY DEF Init
  <2> QED BY <2>1 DEF Decided, Waiting, Lawful, NoOp
<1>2. TypeOK /\ OneContainment /\ OpenIsLive /\ DecidedInv /\ [Next]_vars => DecidedInv'
  <2> SUFFICES ASSUME TypeOK, OneContainment, OpenIsLive, DecidedInv, [Next]_vars,
                      NEW i \in Job
               PROVE  Decided(i)'
    BY DEF DecidedInv
  <2>1. Decided(i)
    BY DEF DecidedInv
  <2>2. CASE Same(i)
    BY <2>1, <2>2 DEF Same, Decided, Waiting
  <2>3. CASE About(i)
    BY <2>1, <2>3, OwnerDecides, DeviceDecides, OperationDecides, OthersDecide DEF About
  <2> QED BY <2>2, <2>3, OneTask
<1>3. DecidedInv => ApprovalsDecide
  BY DEF DecidedInv, Decided, Waiting, Lawful, ApprovalsDecide, RemoteEffectWasApproved,
     WaitingHasApproval
<1> QED BY <1>1, <1>2, <1>3, TypeCorrect, OneAtATime, OpenStaysLive, PTL DEF Spec

-----------------------------------------------------------------------------
(* What is delivered *)

\* The tree of the result passed its checks and, for a pull request, was pushed with an
\* approval.
Proven(i) ==
  IsCode(i) =>
    /\ \E v \in verified[i] : v.tree = proposal[i].tree /\ op[i][v.op].state = "succeeded"
    /\ Kind[i] = "pull_request" =>
         \E k \in Op : /\ op[i][k].tree = proposal[i].tree
                       /\ op[i][k].approval = "consumed" /\ op[i][k].state = "succeeded"

ProvenInv == \A i \in Job : receipt[i] # 0 => Proven(i)

\* verify_result asks for exactly that.
LEMMA VerifiedIsProven == ASSUME NEW i \in Job, verify_result(i) = "none" PROVE Proven(i)
BY DEF verify_result, Proven, ChecksProve, Delivered

\* The checks of a published task are closed: nothing executes, nothing is unresolved, and
\* nobody claims it again.
LEMMA ChecksClosed ==
  ASSUME TypeOK, OneContainment, PublicationInv, NEW i \in Job, receipt[i] # 0,
         Same(i) \/ About(i)
  PROVE  verified'[i] = verified[i]
<1> USE DEF TypeOK, WorkTypes
<1>a. status[i] = "completed" /\ UnresolvedOps(i) = {}
  BY OverOrNot
<1>b. ASSUME NEW n \in Attempts PROVE ~Executable(i, n)
  BY <1>a DEF Executable, EXECUTING
<1>1. CASE Same(i)
  BY <1>1 DEF Same
<1>2. CASE OwnerStep(i)
  BY <1>2 DEF OwnerStep, CreateQueued, CreateBlocked, CreateDraft, CompleteDraft, CancelJob,
     AddInput, ResumeJob, DeliverPrivately, AccessChange
<1>3. CASE ClaimWork(i) \/ StartDeadlineExpired(i)
  BY SMTT(30), <1>3, <1>a DEF ClaimWork, StartDeadlineExpired
<1>4. ASSUME NEW n \in Attempts, DeviceStep(i, n) \/ TimerStep(i, n) PROVE verified'[i] = verified[i]
  BY Zenon, <1>4 DEF DeviceStep, TimerStep, WorkspacePrepared, SaveCheckpoint, AttemptStarted,
     AttemptInterrupted, AttemptStopped, InputRequested, EmptyResult, ResultPrepared,
     DeliverInputs, Heartbeat, Controls, InputApplied, InputUncertain, ReconcileInput,
     Elapse, LeaseLost, LoseLease
<1>5. ASSUME NEW n \in Attempts, NEW k \in Op, OperationStep(i, n, k)
      PROVE  verified'[i] = verified[i]
  <2>1. ASSUME NEW o, ToolFinished(i, n, k, o) PROVE FALSE
    BY <2>1, <1>b DEF ToolFinished, Reporting
  <2>2. ASSUME NEW b, VerificationFinished(i, n, k, b) PROVE FALSE
    BY <2>2, <1>b DEF VerificationFinished, Reporting
  <2>3. ASSUME NEW o, NEW t, ReconcileLocalOperation(i, n, k, o, t) PROVE FALSE
    BY <2>3, <1>a DEF ReconcileLocalOperation, UnresolvedOps
  <2>4. ASSUME NEW b, ProposeOperation(i, n, k, b) PROVE verified'[i] = verified[i]
    BY <2>4 DEF ProposeOperation
  <2>5. CASE Approve(i, n, k) \/ Reject(i, n, k) \/ ConsumeOperation(i, n, k)
             \/ ReconcileOperation(i, n, k)
    BY ZenonT(60), <2>5 DEF Approve, Reject, ConsumeOperation, ReconcileOperation
  <2> QED BY <1>5, <2>1, <2>2, <2>3, <2>4, <2>5 DEF OperationStep
<1>6. CASE \/ \E k \in Op : ApprovalExpired(i, k)
           \/ \E r \in Runner : RevokeRunner(r)
           \/ \E p \in Publisher : PublishStep(p) /\ pub[p].job = i
  BY Zenon, <1>6 DEF ApprovalExpired, RevokeRunner, PublishStep, ReadProposal, CommitResult,
     BlockPublication
<1> QED BY <1>1, <1>2, <1>3, <1>4, <1>5, <1>6 DEF About

\* A publication leaves the checks it relied on as they were.
LEMMA PublishedAsChecked ==
  ASSUME TypeOK, NEW i \in Job, receipt[i] = 0, receipt'[i] # 0, Same(i) \/ About(i)
  PROVE  verified'[i] = verified[i]
<1> USE DEF TypeOK, ResultTypes
<1>1. ASSUME UNCHANGED receipt PROVE FALSE
  BY <1>1
<1>2. CASE Same(i)
  BY <1>2 DEF Same
<1>3. CASE OwnerStep(i)
  BY <1>3 DEF OwnerStep, CreateQueued, CreateBlocked, CreateDraft, CompleteDraft, CancelJob,
     AddInput, ResumeJob, DeliverPrivately, AccessChange
<1>4. CASE ClaimWork(i) \/ StartDeadlineExpired(i)
  BY ZenonT(60), <1>1, <1>4 DEF ClaimWork, StartDeadlineExpired
<1>5. ASSUME NEW n \in Attempts, DeviceStep(i, n) \/ TimerStep(i, n) PROVE FALSE
  BY ZenonT(60), <1>1, <1>5 DEF DeviceStep, TimerStep, WorkspacePrepared, SaveCheckpoint, AttemptStarted,
     AttemptInterrupted, AttemptStopped, InputRequested, EmptyResult, ResultPrepared,
     DeliverInputs, Heartbeat, Controls, InputApplied, InputUncertain, ReconcileInput,
     Elapse, LeaseLost, LoseLease
<1>6. ASSUME NEW n \in Attempts, NEW k \in Op, OperationStep(i, n, k) PROVE FALSE
  BY ZenonT(60), <1>1, <1>6 DEF OperationStep, ProposeOperation, Approve, Reject, ConsumeOperation,
     ToolFinished, VerificationFinished, ReconcileOperation, ReconcileLocalOperation
<1>7. CASE \/ \E k \in Op : ApprovalExpired(i, k)
           \/ \E r \in Runner : RevokeRunner(r)
           \/ \E p \in Publisher : PublishStep(p) /\ pub[p].job = i
  BY Zenon, <1>7 DEF ApprovalExpired, RevokeRunner, PublishStep, ReadProposal, CommitResult,
     BlockPublication
<1> QED BY <1>2, <1>3, <1>4, <1>5, <1>6, <1>7 DEF About

\* What was delivered is the tree the checks passed on; for a pull request, also the tree
\* somebody approved to push, whatever runs between the check and the publication
\* (verify_result inside publish_result's transaction).
THEOREM DeliveryIsVerified == Spec => []DeliveredAsVerified
<1>1. Init => ProvenInv
  <2>1. Init => receipt = [j \in Job |-> 0]
    BY DEF Init
  <2> QED BY <2>1 DEF ProvenInv
<1>2. TypeOK /\ OneContainment /\ OpenIsLive /\ PublicationInv /\ ProvenInv /\ [Next]_vars
      => ProvenInv'
  <2> SUFFICES ASSUME TypeOK, OneContainment, OpenIsLive, PublicationInv, ProvenInv,
                      [Next]_vars, NEW i \in Job, receipt'[i] # 0
               PROVE  Proven(i)'
    BY DEF ProvenInv
  <2>1. Same(i) \/ About(i)
    BY OneTask
  <2>2. CASE Frozen(i)
    <3>1. receipt[i] # 0 /\ UNCHANGED <<proposal[i], op[i]>>
      BY <2>2 DEF Frozen
    <3>2. verified'[i] = verified[i]
      BY <2>1, <3>1, ChecksClosed
    <3> QED BY <3>1, <3>2 DEF ProvenInv, Proven, IsCode
  <2>3. CASE Publishes(i)
    <3>1. Proven(i) /\ receipt[i] = 0 /\ UNCHANGED <<proposal[i], op[i]>>
      BY <2>3, VerifiedIsProven DEF Publishes
    <3>2. verified'[i] = verified[i]
      BY <2>1, <3>1, PublishedAsChecked
    <3> QED BY <3>1, <3>2 DEF Proven, IsCode
  <2> QED BY <2>2, <2>3, StepProceeds DEF Proceeds, Unpublished
<1>3. PublicationInv /\ ProvenInv => DeliveredAsVerified
  <2> SUFFICES ASSUME PublicationInv, ProvenInv, NEW i \in Job, status[i] = "completed", IsCode(i)
               PROVE  Proven(i)
    BY DEF DeliveredAsVerified, Proven
  <2> QED BY DEF PublicationInv, ProvenInv
<1> QED BY <1>1, <1>2, <1>3, TypeCorrect, OneAtATime, OpenStaysLive, PublicationHolds, PTL
        DEF Spec

=============================================================================
