-------------------------- MODULE RunnerOperations --------------------------
(***************************************************************************)
(* The operations of one attempt from the proposal to the receipt: the     *)
(* runtime task (ToolBroker, RemoteOperationBroker.publish), the           *)
(* OperationBoundary and its journal entries, the server's ledger as the   *)
(* runner meets it, the effect itself, and the recovery that the run       *)
(* command makes before it polls.                                          *)
(*                                                                         *)
(* A request or an effect the runner has given up may still arrive.  A     *)
(* crash leaves the journal, the ledger and what is on its way.            *)
(***************************************************************************)
EXTENDS Naturals, Sequences, FiniteSets

CONSTANTS Steps,      \* the kinds of the operations, in the order of the task
          MaxFaults,  \* lost requests and failed effects
          MaxCrashes  \* times the process dies

Kind == {"local", "push", "pr"}
Bounds == Steps \in Seq(Kind) /\ {MaxFaults, MaxCrashes} \subseteq Nat

Op == 1..Len(Steps)
Remote == {i \in Op : Steps[i] # "local"}

VARIABLES attempt,   \* the attempt at the server
          ledger,    \* AgentOperation with its approval
          log,       \* the journal entries of an operation
          world,     \* what became of its effect
          task,      \* the runtime task and the session it belongs to
          run,       \* the run command
          call,      \* the request that is out
          late,      \* abandoned requests that may still arrive
          budget     \* faults, crashes and receipts so far

vars == <<attempt, ledger, log, world, task, run, call, late, budget>>
wireVars == <<call, late, budget>>

Receipt == 0..Cardinality(Remote)   \* they differ in observed_at; 0 is none
NoCall == [kind |-> "none", i |-> 0, r |-> 0, reply |-> "none"]

(***************************************************************************)
(* The ledger.                                                             *)
(***************************************************************************)
Live == attempt = "live"

Propose(i) ==
  IF Live /\ ledger[i].status = "none"
    THEN ledger' = [ledger EXCEPT ![i] =
           IF i \in Remote THEN [@ EXCEPT !.status = "proposed", !.approval = "pending"]
                           ELSE [@ EXCEPT !.status = "authorized"]]
    ELSE UNCHANGED ledger

Consumable(i) == \/ ledger[i].status = "authorized"
                 \/ ledger[i].status = "proposed" /\ ledger[i].approval = "approved"

Consume(i) ==
  IF Live /\ Consumable(i)
    THEN ledger' = [ledger EXCEPT ![i].status = "started",
                                  ![i].approval = IF @ = "none" THEN @ ELSE "consumed"]
    ELSE UNCHANGED ledger

(* tool.finished: the runtime's own word on a started operation.            *)
Finish(i, status) ==
  IF Live /\ ledger[i].status = "started"
    THEN ledger' = [ledger EXCEPT ![i].status = status] ELSE UNCHANGED ledger

Reconcile(i, r) ==
  IF ledger[i].status \in {"started", "outcome_unknown"} /\ ledger[i].approval = "consumed"
    THEN ledger' = [ledger EXCEPT ![i].status = "succeeded", ![i].receipt = r]
    ELSE UNCHANGED ledger

Handle(m) ==
  CASE m.kind = "propose"   -> Propose(m.i)
    [] m.kind = "consume"   -> Consume(m.i)
    [] m.kind = "started"   -> UNCHANGED ledger
    [] m.kind = "finished"  -> Finish(m.i, "succeeded")
    [] m.kind = "cancelled" -> Finish(m.i, "cancelled")
    [] m.kind = "receipt"   -> Reconcile(m.i, m.r)

(* Which requests the server accepts.  A consume that comes again is not a  *)
(* second permission.                                                       *)
Accepts(m) ==
  CASE m.kind = "propose"   -> Live
    [] m.kind = "consume"   -> Live /\ Consumable(m.i)
    [] m.kind = "started"   -> Live /\ ledger[m.i].status = "started"
    [] m.kind = "finished"  -> Live /\ ledger[m.i].status = "started"
    [] m.kind = "cancelled" -> Live /\ ledger[m.i].status = "started"
    [] m.kind = "receipt"   -> \/ /\ ledger[m.i].status \in {"started", "outcome_unknown"}
                                  /\ ledger[m.i].approval = "consumed"
                               \/ ledger[m.i].status = "succeeded" /\ ledger[m.i].receipt = m.r

Receive ==
  /\ call.reply = "waiting"
  /\ Handle(call)
  /\ call' = [call EXCEPT !.reply = IF Accepts(call) THEN "ok" ELSE "refused"]
  /\ UNCHANGED <<attempt, log, world, task, run, late, budget>>

LateArrival(m) ==
  /\ Handle(m)
  /\ late' = late \ {m}
  /\ UNCHANGED <<attempt, log, world, task, run, call, budget>>

Invalidated(row) ==
  IF row.approval \in {"pending", "approved"} THEN [row EXCEPT !.approval = "cancelled"] ELSE row

Approve(i) ==
  /\ Live /\ ledger[i].approval = "pending"
  /\ ledger' = [ledger EXCEPT ![i].approval = "approved"]
  /\ UNCHANGED <<attempt, log, world, task, run, wireVars>>

(* A rejection asks the attempt to stop.                                    *)
Reject(i) ==
  /\ Live /\ ledger[i].approval = "pending"
  /\ attempt' = "stopping"
  /\ ledger' = [k \in Op |-> IF k = i THEN [ledger[k] EXCEPT !.approval = "rejected"]
                                       ELSE Invalidated(ledger[k])]
  /\ UNCHANGED <<log, world, task, run, wireVars>>

RequestStop ==
  /\ Live
  /\ attempt' = "stopping"
  /\ ledger' = [i \in Op |-> Invalidated(ledger[i])]
  /\ UNCHANGED <<log, world, task, run, wireVars>>

(* attempt.stopped, which the runner sends once the session is retired.     *)
AttemptStopped ==
  /\ attempt # "stopped" /\ ~task.valid
  /\ attempt' = "stopped"
  /\ ledger' = [i \in Op |->
       IF ledger[i].status = "started"
         THEN [Invalidated(ledger[i]) EXCEPT !.status = "outcome_unknown"]
         ELSE Invalidated(ledger[i])]
  /\ UNCHANGED <<log, world, task, run, wireVars>>

(***************************************************************************)
(* Requests and effects.                                                   *)
(***************************************************************************)
Send(kind, i, r) == call' = [kind |-> kind, i |-> i, r |-> r, reply |-> "waiting"]
Answered(kind) == call.kind = kind /\ call.reply = "ok"
Message(m) == [kind |-> m.kind, i |-> m.i, r |-> m.r]

Fault == budget.faults < MaxFaults /\ budget' = [budget EXCEPT !.faults = @ + 1]

(* A refusal, a lost request, a lost answer, or a request still on its way. *)
Failed ==
  \/ call.reply = "refused" /\ UNCHANGED <<late, budget>>
  \/ /\ call.reply \in {"waiting", "ok"}
     /\ Fault
     /\ \/ UNCHANGED late
        \/ call.reply = "waiting" /\ late' = late \cup {Message(call)}

(* git push or the request to GitHub takes effect, perhaps long after the   *)
(* runner stopped waiting; or it never does.                                *)
EffectLands(i) ==
  /\ world[i].flying
  /\ world' = [world EXCEPT ![i] = [flying |-> FALSE, times |-> @.times + 1]]
  /\ UNCHANGED <<attempt, ledger, log, task, run, wireVars>>

EffectLost(i) ==
  /\ world[i].flying
  /\ Fault
  /\ world' = [world EXCEPT ![i].flying = FALSE]
  /\ UNCHANGED <<attempt, ledger, log, task, run, call, late>>

(***************************************************************************)
(* The runtime task.  Every await is followed by a check of the session.    *)
(***************************************************************************)
At(pc, i) == task.pc = pc /\ task.at = i
Step(pc) == task' = [task EXCEPT !.pc = pc]
Give(pc) == task' = [task EXCEPT !.pc = IF task.valid THEN pc ELSE "ended"]
Next_(i) == IF i = Len(Steps) THEN "ended" ELSE "idle"
Advance(i) == task' = [task EXCEPT !.pc = IF task.valid THEN Next_(i) ELSE "ended", !.at = i + 1]

(* currentPublication: an input that waits sends the result back.           *)
Interrupted(i) == i \in Remote /\ task.input
Proceed(i) == task.valid /\ ~Interrupted(i)

SendProposal(i) ==
  /\ At("idle", i)
  /\ IF Proceed(i) THEN Send("propose", i, 0) /\ Step("proposing")
                   ELSE Step("ended") /\ UNCHANGED call
  /\ UNCHANGED <<attempt, ledger, log, world, run, late, budget>>

Proposed(i) ==
  /\ At("proposing", i) /\ Answered("propose")
  /\ call' = NoCall
  /\ Give("deciding")
  /\ UNCHANGED <<attempt, ledger, log, world, run, late, budget>>

(* waitForApproval and approve: the decision is read again and again.       *)
SendConsume(i) ==
  /\ At("deciding", i) /\ ledger[i].approval # "pending"
  /\ IF Proceed(i) /\ ledger[i].approval \in {"none", "approved"}
       THEN /\ log' = [log EXCEPT ![i].consume = "uncertain"]
            /\ Send("consume", i, 0)
            /\ Step("consuming")
       ELSE Step("ended") /\ UNCHANGED <<log, call>>
  /\ UNCHANGED <<attempt, ledger, world, run, late, budget>>

Consumed(i) ==
  /\ At("consuming", i) /\ Answered("consume")
  /\ call' = NoCall
  /\ log' = [log EXCEPT ![i].consume = "done", ![i].authority = task.valid]
  /\ Give("authorized")
  /\ UNCHANGED <<attempt, ledger, world, run, late, budget>>

(* beginEffect: uncertain in the journal before anything happens.           *)
BeginEffect(i) ==
  /\ At("authorized", i)
  /\ IF task.valid /\ log[i].authority /\ log[i].effect = "absent"
       THEN /\ log' = [log EXCEPT ![i].effect = "uncertain"]
            /\ Send("started", i, 0)
            /\ Step("announcing")
       ELSE Step("ended") /\ UNCHANGED <<log, call>>
  /\ UNCHANGED <<attempt, ledger, world, run, late, budget>>

Announced(i) ==
  /\ At("announcing", i) /\ Answered("started")
  /\ call' = NoCall
  /\ Give("ready")
  /\ UNCHANGED <<attempt, ledger, log, world, run, late, budget>>

Dispatch(i) ==
  /\ At("ready", i) /\ Proceed(i)
  /\ world' = [world EXCEPT ![i].flying = TRUE]
  /\ Step("dispatched")
  /\ UNCHANGED <<attempt, ledger, log, run, wireVars>>

(* noEffect: the operation is started, and no request has been made.        *)
NoEffect(i) ==
  /\ At("ready", i) /\ ~Proceed(i)
  /\ IF task.valid THEN Send("cancelled", i, 0) /\ Step("cancelling")
                   ELSE Step("ended") /\ UNCHANGED call
  /\ UNCHANGED <<attempt, ledger, log, world, run, late, budget>>

Cancelled(i) ==
  /\ At("cancelling", i) /\ Answered("cancelled")
  /\ call' = NoCall
  /\ log' = [log EXCEPT ![i].effect = "done"]
  /\ Step("ended")
  /\ UNCHANGED <<attempt, ledger, world, run, late, budget>>

(* The answer of the effect: push verifies the remote head, create falls    *)
(* back to find.  Without a confirmed effect the task ends.                 *)
EffectAnswered(i) ==
  /\ At("dispatched", i) /\ ~world[i].flying
  /\ Give(IF world[i].times > 0 THEN "observed" ELSE "ended")
  /\ UNCHANGED <<attempt, ledger, log, world, run, wireVars>>

\* Mutant: a push that did not answer in time is reported as not made.
EffectUnansweredDenied(i) ==
  /\ At("dispatched", i)
  /\ Fault
  /\ Send("cancelled", i, 0)
  /\ Step("cancelling")
  /\ UNCHANGED <<attempt, ledger, log, world, run, late>>

\* Mutant: a push that did not answer in time is taken to have been made.
EffectUnansweredPresumed(i) ==
  /\ At("dispatched", i)
  /\ Fault
  /\ Advance(i)
  /\ UNCHANGED <<attempt, ledger, log, world, run, call, late>>

EffectUnanswered(i) ==
  /\ At("dispatched", i)
  /\ Fault
  /\ Step("ended")
  /\ UNCHANGED <<attempt, ledger, log, world, run, call, late>>

NewReceipt == budget.receipts + 1

SendReceipt(i) ==
  /\ At("observed", i) /\ i \in Remote
  /\ IF task.valid
       THEN /\ log' = [log EXCEPT ![i].receipt = NewReceipt, ![i].sent = "uncertain"]
            /\ budget' = [budget EXCEPT !.receipts = NewReceipt]
            /\ Send("receipt", i, NewReceipt)
            /\ Step("receipting")
       ELSE Step("ended") /\ UNCHANGED <<log, budget, call>>
  /\ UNCHANGED <<attempt, ledger, world, run, late>>

Receipted(i) ==
  /\ At("receipting", i) /\ Answered("receipt")
  /\ call' = NoCall
  /\ log' = [log EXCEPT ![i].sent = "done", ![i].effect = IF task.valid THEN "done" ELSE @]
  /\ Advance(i)
  /\ UNCHANGED <<attempt, ledger, world, run, late, budget>>

(* A tool in the sandbox: its receipt is in the journal before its event.   *)
SendFinished(i) ==
  /\ At("observed", i) /\ i \notin Remote
  /\ IF task.valid
       THEN /\ log' = [log EXCEPT ![i].effect = "done"]
            /\ Send("finished", i, 0)
            /\ Step("finishing")
       ELSE Step("ended") /\ UNCHANGED <<log, call>>
  /\ UNCHANGED <<attempt, ledger, world, run, late, budget>>

Finished(i) ==
  /\ At("finishing", i) /\ Answered("finished")
  /\ call' = NoCall
  /\ Advance(i)
  /\ UNCHANGED <<attempt, ledger, log, world, run, late, budget>>

TaskFailed ==
  /\ task.pc # "ended" /\ call.kind # "none"
  /\ Failed
  /\ call' = NoCall
  /\ Step("ended")
  /\ UNCHANGED <<attempt, ledger, log, world, run>>

(* A stop, a lost lease, a timeout: the channel is retired at any moment.   *)
Retire ==
  /\ task.valid
  /\ task' = [task EXCEPT !.valid = FALSE]
  /\ UNCHANGED <<attempt, ledger, log, world, run, wireVars>>

InputArrives ==
  /\ Live /\ ~task.input
  /\ task' = [task EXCEPT !.input = TRUE]
  /\ UNCHANGED <<attempt, ledger, log, world, run, wireVars>>

(***************************************************************************)
(* The run command: RemoteOperationBroker.recover, OperationRecovery.submit *)
(***************************************************************************)
Exit == run' = [pc |-> "down", todo |-> {}, seen |-> {}]
Landed == {i \in Remote : world[i].times > 0}

Crash ==
  /\ run.pc # "down" /\ budget.crashes < MaxCrashes
  /\ budget' = [budget EXCEPT !.crashes = @ + 1]
  /\ task' = [task EXCEPT !.valid = FALSE, !.pc = "ended"]
  /\ Exit
  /\ call' = NoCall
  /\ late' \in {late, late \cup (IF call.reply = "waiting" THEN {Message(call)} ELSE {})}
  /\ UNCHANGED <<attempt, ledger, log, world>>

(* The list is read once and gone through in the order of the journal, which *)
(* is that of the task.                                                      *)
Start ==
  /\ run.pc = "down"
  /\ run' = [pc |-> "recovering", seen |-> Landed,
             todo |-> {i \in Op : log[i].effect # "absent"}]
  /\ UNCHANGED <<attempt, ledger, log, world, task, wireVars>>

First(i) == i \in run.todo /\ \A k \in run.todo : i <= k
Skip(i) == run' = [run EXCEPT !.pc = "recovering", !.todo = @ \ {i}]
Recovering(i) == run.pc = "recovering" /\ First(i) /\ call.kind = "none"

RecoverNothing(i) ==
  /\ Recovering(i)
  /\ \/ log[i].effect # "uncertain"
     \/ i \in Remote /\ world[i].times = 0
  /\ Skip(i)
  /\ UNCHANGED <<attempt, ledger, log, world, task, wireVars>>

(* recover asks every uncertain effect for its remote action.               *)
RecoverLocal(i) ==
  /\ Recovering(i)
  /\ log[i].effect = "uncertain" /\ i \notin Remote
  /\ Exit
  /\ UNCHANGED <<attempt, ledger, log, world, task, wireVars>>

Recoverable(i) == /\ Recovering(i)
                  /\ log[i].effect = "uncertain" /\ i \in Remote
                  /\ world[i].times > 0

\* Mutant: every observation makes a receipt of its own.
ObservedAnew(i) == NewReceipt

(* reconciledReceipt: the retained receipt, or one made now.                *)
Observed(i) == IF log[i].receipt # 0 THEN log[i].receipt ELSE NewReceipt

(* submit writes operation_resolution, then the receipt entry, and sends.   *)
Resolve(i) ==
  /\ Recoverable(i)
  /\ LET r == Observed(i)
     IN /\ log[i].resolution \in {0, r}
        /\ log' = [log EXCEPT ![i].resolution = r]
        /\ budget' = [budget EXCEPT !.receipts = IF r = NewReceipt THEN r ELSE @]
  /\ run' = [run EXCEPT !.pc = "resolved"]
  /\ UNCHANGED <<attempt, ledger, world, task, call, late>>

Resubmit(i) ==
  /\ run.pc = "resolved" /\ First(i) /\ call.kind = "none"
  /\ log' = [log EXCEPT ![i].receipt = log[i].resolution,
                        ![i].sent = IF @ = "done" THEN @ ELSE "uncertain",
                        ![i].effect = IF log[i].sent = "done" THEN "done" ELSE @]
  /\ IF log[i].sent = "done"
       THEN Skip(i) /\ UNCHANGED call
       ELSE Send("receipt", i, log[i].resolution) /\ UNCHANGED run
  /\ UNCHANGED <<attempt, ledger, world, task, late, budget>>

(* The resolution of an earlier run names another receipt.                  *)
ResolveConflict(i) ==
  /\ Recoverable(i)
  /\ log[i].resolution \notin {0, Observed(i)}
  /\ Exit
  /\ UNCHANGED <<attempt, ledger, log, world, task, wireVars>>

Recovered(i) ==
  /\ run.pc = "resolved" /\ First(i) /\ Answered("receipt")
  /\ call' = NoCall
  /\ log' = [log EXCEPT ![i].sent = "done", ![i].effect = "done"]
  /\ Skip(i)
  /\ UNCHANGED <<attempt, ledger, world, task, late, budget>>

RecoveryFailed ==
  /\ run.pc = "resolved" /\ call.kind = "receipt"
  /\ Failed
  /\ call' = NoCall
  /\ Exit
  /\ UNCHANGED <<attempt, ledger, log, world, task>>

Poll ==
  /\ run.pc = "recovering" /\ run.todo = {}
  /\ run' = [run EXCEPT !.pc = "polling"]
  /\ UNCHANGED <<attempt, ledger, log, world, task, wireVars>>

Init ==
  /\ attempt = "live"
  /\ ledger = [i \in Op |-> [status |-> "none", approval |-> "none", receipt |-> 0]]
  /\ log = [i \in Op |-> [consume |-> "absent", authority |-> FALSE, effect |-> "absent",
                          receipt |-> 0, sent |-> "absent", resolution |-> 0]]
  /\ world = [i \in Op |-> [flying |-> FALSE, times |-> 0]]
  /\ task = [pc |-> "idle", at |-> 1, valid |-> TRUE, input |-> FALSE]
  /\ run = [pc |-> "polling", todo |-> {}, seen |-> {}]
  /\ call = NoCall
  /\ late = {}
  /\ budget = [faults |-> 0, crashes |-> 0, receipts |-> 0]

TaskStep ==
  \E i \in Op :
    \/ SendProposal(i) \/ Proposed(i) \/ SendConsume(i) \/ Consumed(i)
    \/ BeginEffect(i) \/ Announced(i) \/ Dispatch(i) \/ NoEffect(i) \/ Cancelled(i)
    \/ EffectAnswered(i) \/ SendReceipt(i) \/ Receipted(i) \/ SendFinished(i) \/ Finished(i)

RunStep ==
  \/ Start \/ Poll
  \/ \E i \in Op : \/ RecoverNothing(i) \/ RecoverLocal(i) \/ Resolve(i) \/ ResolveConflict(i)
                   \/ Resubmit(i) \/ Recovered(i)

Next ==
  \/ Receive \/ RequestStop \/ AttemptStopped
  \/ TaskStep \/ TaskFailed \/ Retire \/ InputArrives
  \/ RunStep \/ RecoveryFailed \/ Crash
  \/ \E m \in late : LateArrival(m)
  \/ \E i \in Op : \/ EffectLands(i) \/ EffectLost(i) \/ EffectUnanswered(i)
                   \/ Approve(i) \/ Reject(i)

(* The supervisor of the service starts it again, and it goes on.           *)
Fairness ==
  /\ WF_vars(RunStep)
  /\ WF_vars(Receive)
  /\ WF_vars(RecoveryFailed /\ budget' = budget)

Spec == Init /\ [][Next]_vars /\ Fairness

(***************************************************************************)
(* Properties.                                                             *)
(***************************************************************************)
(* The variables keep their shapes, and receipts stay within the bound.     *)
TypeOK ==
  /\ attempt \in {"live", "stopping", "stopped"}
  /\ ledger \in [Op -> [status: {"none", "proposed", "authorized", "started", "succeeded",
                                "cancelled", "outcome_unknown"},
                       approval: {"none", "pending", "approved", "rejected", "cancelled",
                                  "consumed"},
                       receipt: Receipt]]
  /\ log \in [Op -> [consume: {"absent", "uncertain", "done"}, authority: BOOLEAN,
                     effect: {"absent", "uncertain", "done"}, receipt: Receipt,
                     sent: {"absent", "uncertain", "done"}, resolution: Receipt]]
  /\ world \in [Op -> [flying: BOOLEAN, times: 0..1]]
  /\ task.at \in 1..(Len(Steps) + 1)
  /\ run.pc \in {"down", "recovering", "resolved", "polling"}
  /\ budget.receipts \in Receipt

(* No effect begins without a permission the server gave: at its time the   *)
(* operation is consumed at the ledger, a remote one with its approval, and *)
(* the authority is in the journal (consume, beginEffect).                  *)
EffectWasPermitted ==
  \A i \in Op : world[i].flying \/ world[i].times > 0 =>
    /\ ledger[i].status \notin {"none", "proposed", "authorized"}
    /\ i \in Remote => ledger[i].approval = "consumed"
    /\ log[i].authority /\ log[i].effect # "absent"

(* What the ledger says of a remote operation is true of the remote: a      *)
(* success has happened, and a cancelled one has not and never will         *)
(* (noEffect, reconcile_operation).                                         *)
RecordTruthful ==
  \A i \in Remote :
    /\ ledger[i].status = "succeeded" => world[i].times > 0
    /\ ledger[i].status = "cancelled" => world[i] = [flying |-> FALSE, times |-> 0]

(* A pull request is opened only for a push the server has the receipt of   *)
(* (publish).                                                               *)
PullRequestAfterPush ==
  \A i, k \in Op :
    Steps[i] = "push" /\ Steps[k] = "pr" /\ (world[k].flying \/ world[k].times > 0)
      => ledger[i].status = "succeeded"

(* Effects come after what permits them: the approval, the journal and, for *)
(* a pull request, the push (consume, beginEffect, publish).                *)
EffectsInOrder == EffectWasPermitted /\ PullRequestAfterPush

(* The receipt the server keeps is the one the journal retains, so that the *)
(* same receipt is accepted again (reconciledReceipt, submit).              *)
ReceiptsAgree ==
  \A i \in Remote : ledger[i].receipt # 0 => log[i].receipt = ledger[i].receipt

(* When polling begins, every effect that had landed when recovery read the *)
(* journal is succeeded at the ledger and closed in the journal (recover).  *)
NothingSeenIsForgotten ==
  run.pc = "polling" =>
    \A i \in run.seen : ledger[i].status = "succeeded" /\ log[i].effect = "done"

(* The three records of an effect -- the remote, the journal and the ledger *)
(* -- never contradict each other (submit, recover, reconcile_operation).   *)
RecordsAgree == RecordTruthful /\ ReceiptsAgree /\ NothingSeenIsForgotten

(* An effect that recovery can neither reproduce nor observe: one in the    *)
(* sandbox that a crash left uncertain, which has no remote action, and one *)
(* whose resolution is in the journal without the receipt it names, so that *)
(* the next observation is a conflict.                                      *)
Unresolvable(i) ==
  /\ log[i].effect = "uncertain"
  /\ \/ i \notin Remote
     \/ world[i].times > 0 /\ log[i].resolution # 0 /\ log[i].receipt # log[i].resolution

(* A runner that is started comes to poll, through effects that landed or   *)
(* did not, answers that were lost and crashes, unless such an effect stops *)
(* it: nothing else does (recover, submit, main).                           *)
StartReachesPolling ==
  run.pc = "down" ~> \/ run.pc = "polling"
                     \/ run.pc = "down" /\ \E i \in Op : Unresolvable(i)

(* "The run command recovers remote operations before it starts service     *)
(* polling" (README.md of the runner), so that it comes to poll in the end. *)
(* Untrue: an unresolvable effect makes every later start fail.             *)
StartAlwaysPolls == run.pc = "down" ~> run.pc = "polling"
=============================================================================
