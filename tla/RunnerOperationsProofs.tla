----------------------- MODULE RunnerOperationsProofs -----------------------
(***************************************************************************)
(* Effects come after what permits them, and the remote, the journal and   *)
(* the ledger agree on them, for every sequence of operations and any      *)
(* number of faults and crashes.  Bounds, which gives the constants their  *)
(* types, is the only assumption, except that a pull request comes after   *)
(* its push only in a task that has them in this order.  An operation has  *)
(* one receipt at most.                                                    *)
(*                                                                         *)
(* The inductive invariant says of each operation what the three records   *)
(* may be together, where the task is with it, and what a request that is  *)
(* under way may still change.                                             *)
(***************************************************************************)
EXTENDS RunnerOperations, FiniteSetTheorems, TLAPS

Status == {"none", "proposed", "authorized", "started", "succeeded", "cancelled", "outcome_unknown"}
Approval == {"none", "pending", "approved", "rejected", "cancelled", "consumed"}
EntryState == {"absent", "uncertain", "done"}
TaskPc == {"idle", "proposing", "deciding", "consuming", "authorized", "announcing", "ready", "cancelling",
           "dispatched", "observed", "receipting", "finishing", "ended"}
Request == {"propose", "consume", "started", "finished", "cancelled", "receipt"}

Row == [status: Status, approval: Approval, receipt: Nat]
Entry == [consume: EntryState, authority: BOOLEAN, effect: EntryState, receipt: Nat, sent: EntryState,
          resolution: Nat]
Fate == [flying: BOOLEAN, times: 0..1]
TaskRow == [pc: TaskPc, at: 1..(Len(Steps) + 1), valid: BOOLEAN, input: BOOLEAN]
RunRow == [pc: {"down", "recovering", "resolved", "polling"}, todo: SUBSET Op, seen: SUBSET Op]
CallRow == [kind: Request \cup {"none"}, i: Op \cup {0}, r: Nat,
            reply: {"none", "waiting", "ok", "refused"}]

Types ==
  /\ attempt \in {"live", "stopping", "stopped"} /\ ledger \in [Op -> Row] /\ log \in [Op -> Entry]
  /\ world \in [Op -> Fate] /\ task \in TaskRow /\ run \in RunRow /\ call \in CallRow
  /\ late \subseteq [kind: Request, i: Op, r: Nat]
  /\ budget \in [faults: Nat, crashes: Nat, receipts: Nat]

-----------------------------------------------------------------------------
(* The invariant *)

(* The permission was used; the effect is made; there is none, and there    *)
(* will be none, for the task has given the operation up.                   *)
Begun(i) == ledger[i].status \notin {"none", "proposed", "authorized"}
Succeeded(i) == ledger[i].status = "succeeded"
Effective(i) == world[i].flying \/ world[i].times > 0
Withdrawn(i) == ~Effective(i) /\ (task.pc = "ended" \/ At("cancelling", i))

(* What the ledger says of an operation.                                    *)
Recorded(i) ==
  /\ i \in Remote => ledger[i].status # "authorized"
  /\ i \in Remote /\ Begun(i) => ledger[i].approval = "consumed"
  /\ i \in Remote /\ Succeeded(i) => world[i].times > 0
  /\ ledger[i].status = "cancelled" => Withdrawn(i)
  /\ ledger[i].receipt # 0 => i \in Remote /\ log[i].receipt = ledger[i].receipt

(* What the journal says of it, and what its effect comes after.            *)
Journaled(i) ==
  /\ world[i].flying => world[i].times = 0 /\ log[i].effect = "uncertain"
  /\ Effective(i) => /\ Begun(i) /\ log[i].authority /\ log[i].effect # "absent"
                     /\ \A k \in Remote : k < i => Succeeded(k)
  /\ i \in Remote /\ world[i].times > 0 /\ log[i].effect = "done" => Succeeded(i)
  /\ log[i].sent = "done" => Succeeded(i)
  /\ log[i].receipt # 0 /\ log[i].resolution # 0 => log[i].receipt = log[i].resolution

(* The remote operations behind the task succeeded, and those ahead of it   *)
(* are untouched.                                                           *)
Behind == \A k \in Remote : k < task.at => Succeeded(k)
Ahead ==
  task.pc # "ended" => \A k \in Op :
    log[k].resolution = 0 /\ (k > task.at => ~Effective(k) /\ log[k].receipt = 0)

(* Where the task is with the operation in hand.                            *)
Here(i) ==
  /\ task.pc \notin {"dispatched", "observed", "receipting", "finishing", "ended"} => ~Effective(i)
  /\ task.pc \notin {"receipting", "ended"} => log[i].receipt = 0
  /\ task.pc \in {"authorized", "announcing", "ready", "cancelling", "dispatched", "observed",
                  "receipting"} => log[i].authority /\ Begun(i)
  /\ task.pc \in {"announcing", "ready", "cancelling", "dispatched", "observed", "receipting"} =>
       log[i].effect = "uncertain"
  /\ task.pc \in {"observed", "receipting"} => world[i].times > 0
  /\ task.pc = "receipting" => i \in Remote
  /\ task.pc = "finishing" => i \notin Remote

TaskInv == Behind /\ Ahead /\ (task.at \in Op => Here(task.at))

(* What a request under way, in time or late, may still do is so.           *)
Sound(m) ==
  /\ m.kind # "none" => m.i \in Op
  /\ m.kind = "finished" => m.i \notin Remote
  /\ m.kind = "cancelled" => Withdrawn(m.i)
  /\ m.kind = "receipt" => m.i \in Remote /\ world[m.i].times > 0 /\ m.r # 0 /\ log[m.i].receipt = m.r

CallInv ==
  /\ Sound(call) /\ (call.kind = "none" => call.reply = "none")
  /\ call.kind # "none" /\ task.pc # "ended" => call.i = task.at
  /\ call.kind # "none" /\ run.pc = "resolved" => First(call.i)
  /\ call.reply = "ok" /\ call.kind = "consume" => Begun(call.i)
  /\ call.reply = "ok" /\ call.kind = "receipt" => Succeeded(call.i)

LateInv == \A m \in late : Sound(m)

(* The recovery deals with what had landed when it began.                   *)
RunInv ==
  /\ run.pc # "polling" => task.pc = "ended"
  /\ run.pc = "polling" => run.todo = {}
  /\ run.pc = "resolved" => \A i \in Op : First(i) =>
       i \in Remote /\ world[i].times > 0 /\ log[i].resolution # 0
  /\ \A i \in run.seen : /\ i \in Remote /\ world[i].times > 0
                         /\ i \in run.todo \/ (Succeeded(i) /\ log[i].effect = "done")

OperationsInv ==
  /\ Types /\ (\A i \in Op : Recorded(i) /\ Journaled(i))
  /\ TaskInv /\ CallInv /\ LateInv /\ RunInv

-----------------------------------------------------------------------------
(* What is used throughout *)

LEMMA Operations ==
  ASSUME Bounds
  PROVE  Len(Steps) \in Nat /\ Op \subseteq Nat /\ Remote \subseteq Op /\ 0 \notin Op
         /\ \A i \in Op : i + 1 \in 1..(Len(Steps) + 1)
BY DEF Bounds, Op, Remote

(* Permission, order and agreement follow.                                  *)
LEMMA InvPermitted ==
  ASSUME Bounds, OperationsInv
  PROVE  EffectWasPermitted /\ RecordsAgree
<1>1. EffectWasPermitted
  BY Operations DEF OperationsInv, EffectWasPermitted, Journaled, Recorded, Begun, Effective
<1>2. RecordTruthful
  <2>1. ASSUME NEW i \in Remote, ledger[i].status = "cancelled"
        PROVE  world[i] = [flying |-> FALSE, times |-> 0]
    <3>1. world[i] \in Fate /\ ~Effective(i)
      BY <2>1, Operations DEF OperationsInv, Types, Recorded, Withdrawn
    <3>2. world[i] = [flying |-> world[i].flying, times |-> world[i].times]
      BY <3>1 DEF Fate
    <3>3. world[i].flying = FALSE /\ world[i].times = 0
      BY <3>1 DEF Fate, Effective
    <3> QED BY <3>2, <3>3
  <2> QED BY <2>1, Operations DEF OperationsInv, RecordTruthful, Recorded, Succeeded
<1>3. ReceiptsAgree
  BY Operations DEF OperationsInv, ReceiptsAgree, Recorded
<1>4. NothingSeenIsForgotten
  BY DEF OperationsInv, NothingSeenIsForgotten, RunInv, Succeeded
<1> QED BY <1>1, <1>2, <1>3, <1>4 DEF RecordsAgree

(* The push of a task comes before its pull request.                        *)
PushFirst == \A i, k \in Op : Steps[i] = "push" /\ Steps[k] = "pr" => i < k

LEMMA InvOrdered ==
  ASSUME Bounds, PushFirst, OperationsInv
  PROVE  PullRequestAfterPush
<1>1. SUFFICES ASSUME NEW i \in Op, NEW k \in Op, Steps[i] = "push", Steps[k] = "pr",
                      world[k].flying \/ world[k].times > 0
               PROVE  ledger[i].status = "succeeded"
  BY DEF PullRequestAfterPush
<1>2. i < k /\ i \in Remote
  BY <1>1 DEF PushFirst, Remote
<1> QED BY <1>1, <1>2 DEF OperationsInv, Journaled, Effective, Succeeded

LEMMA OperationsInit ==
  ASSUME Bounds, Init
  PROVE  OperationsInv
<1>1. Types
  BY Operations DEF Init, Types, Row, Entry, Fate, TaskRow, RunRow, CallRow, NoCall, Status, Approval,
     EntryState, TaskPc, Request
<1>2. \A i \in Op : Recorded(i) /\ Journaled(i) /\ ~Effective(i) /\ log[i].resolution = 0
                    /\ log[i].receipt = 0
  BY DEF Init, Recorded, Journaled, Begun, Succeeded, Effective
<1>3. TaskInv
  BY <1>2, Operations DEF Init, TaskInv, Behind, Ahead, Here
<1>4. CallInv /\ LateInv /\ RunInv
  BY DEF Init, CallInv, LateInv, RunInv, Sound, NoCall
<1> QED BY <1>1, <1>2, <1>3, <1>4 DEF OperationsInv

-----------------------------------------------------------------------------
(* What the server does to the ledger *)

(* A step of the ledger takes no permission and no success back.            *)
Keeps(i) == (Begun(i) => Begun(i)') /\ (Succeeded(i) => Succeeded(i)')

LEMMA LedgerMoves ==
  ASSUME Bounds, OperationsInv, UNCHANGED <<log, world, task, run>>,
         attempt' \in {"live", "stopping", "stopped"}, ledger' \in [Op -> Row],
         call' \in CallRow, late' \subseteq late, UNCHANGED budget,
         \A i \in Op : Keeps(i) /\ Recorded(i)', CallInv'
  PROVE  OperationsInv'
<1>1. Types'
  BY DEF OperationsInv, Types
<1>2. ASSUME NEW i \in Op PROVE Journaled(i)'
  BY Operations DEF OperationsInv, Journaled, Effective, Keeps
<1>3. TaskInv'
  BY Operations DEF OperationsInv, TaskInv, Behind, Ahead, Here, Effective, Keeps
<1>4. LateInv'
  BY DEF OperationsInv, LateInv, Sound, Withdrawn, Effective, At
<1>5. RunInv'
  <2>1. run.seen \subseteq Op
    BY DEF OperationsInv, Types, RunRow
  <2> QED BY <2>1 DEF OperationsInv, RunInv, First, Keeps
<1> QED BY <1>1, <1>2, <1>3, <1>4, <1>5 DEF OperationsInv

(* One row changes, and it goes on.                                         *)
LEMMA OneRow ==
  ASSUME Bounds, OperationsInv, UNCHANGED <<log, world, task>>, NEW i \in Op, NEW row \in Row,
         ledger' = [ledger EXCEPT ![i] = row],
         Begun(i) => row.status \notin {"none", "proposed", "authorized"},
         Succeeded(i) => row.status = "succeeded",
         /\ i \in Remote => row.status # "authorized"
         /\ i \in Remote /\ row.status \notin {"none", "proposed", "authorized"} =>
              row.approval = "consumed"
         /\ i \in Remote /\ row.status = "succeeded" => world[i].times > 0
         /\ row.status = "cancelled" => Withdrawn(i)
         /\ row.receipt # 0 => i \in Remote /\ log[i].receipt = row.receipt
  PROVE  ledger' \in [Op -> Row] /\ \A k \in Op : Keeps(k) /\ Recorded(k)'
<1>1. ledger' \in [Op -> Row] /\ \A k \in Op : ledger'[k] = IF k = i THEN row ELSE ledger[k]
  BY DEF OperationsInv, Types
<1>2. ASSUME NEW k \in Op PROVE Keeps(k) /\ Recorded(k)'
  <2>1. Recorded(k)
    BY DEF OperationsInv
  <2>2. CASE k = i
    BY <1>1, <2>2 DEF Keeps, Recorded, Begun, Succeeded, Withdrawn, Effective, At
  <2>3. CASE k # i
    BY <1>1, <2>1, <2>3 DEF Keeps, Recorded, Begun, Succeeded, Withdrawn, Effective, At
  <2> QED BY <2>2, <2>3
<1> QED BY <1>1, <1>2

LEMMA SameRows ==
  ASSUME Bounds, OperationsInv, UNCHANGED <<ledger, log, world, task>>
  PROVE  ledger' \in [Op -> Row] /\ \A k \in Op : Keeps(k) /\ Recorded(k)'
BY DEF OperationsInv, Types, Keeps, Recorded, Begun, Succeeded, Withdrawn, Effective, At

(* A request does at most what it may.                                      *)
LEMMA Handled ==
  ASSUME Bounds, OperationsInv, UNCHANGED <<log, world, task>>,
         NEW m, m.kind \in Request, m.i \in Op, m.r \in Nat, Sound(m), Handle(m)
  PROVE  /\ ledger' \in [Op -> Row] /\ \A k \in Op : Keeps(k) /\ Recorded(k)'
         /\ m.kind = "consume" /\ Accepts(m) => Begun(m.i)'
         /\ m.kind = "receipt" /\ Accepts(m) => Succeeded(m.i)'
<1> DEFINE i == m.i
           row == ledger[i]
<1>a. row \in Row /\ Recorded(i) /\ ledger \in [Op -> Row]
  BY DEF OperationsInv, Types
<1>1. CASE m.kind = "propose"
  <2>1. CASE UNCHANGED ledger
    BY <1>1, <2>1, SameRows
  <2>2. CASE Live /\ row.status = "none"
    <3> DEFINE new == IF i \in Remote THEN [row EXCEPT !.status = "proposed", !.approval = "pending"]
                                      ELSE [row EXCEPT !.status = "authorized"]
    <3>1. ledger' = [ledger EXCEPT ![i] = new]
      BY <1>1, <1>a, <2>2 DEF Handle, Propose
    <3>2. new \in Row /\ new.status \in {"proposed", "authorized"} /\ new.receipt = row.receipt
          /\ (i \in Remote => new.status = "proposed")
      BY <1>a DEF Row, Status, Approval
    <3> HIDE DEF new
    <3> QED BY <1>1, <1>a, <2>2, <3>1, <3>2, OneRow DEF Begun, Succeeded, Recorded
  <2> QED BY <1>1, <2>1, <2>2 DEF Handle, Propose
<1>2. CASE m.kind = "consume"
  <2>1. CASE UNCHANGED ledger /\ ~(Live /\ Consumable(i))
    BY <1>2, <2>1, SameRows DEF Accepts
  <2>2. CASE Live /\ Consumable(i)
    <3> DEFINE new == [row EXCEPT !.status = "started",
                                  !.approval = IF @ = "none" THEN @ ELSE "consumed"]
    <3>1. ledger' = [ledger EXCEPT ![i] = new]
      BY <1>2, <1>a, <2>2 DEF Handle, Consume
    <3>2. new \in Row /\ new.status = "started" /\ new.receipt = row.receipt
          /\ (row.approval # "none" => new.approval = "consumed")
      BY <1>a DEF Row, Status, Approval
    <3>3. ~Begun(i) /\ (i \in Remote => row.approval # "none")
      BY <1>a, <2>2 DEF Consumable, Begun, Recorded
    <3> HIDE DEF new
    <3>4. ledger' \in [Op -> Row] /\ \A k \in Op : Keeps(k) /\ Recorded(k)'
      BY <1>a, <3>1, <3>2, <3>3, OneRow DEF Begun, Succeeded, Recorded
    <3>5. Begun(i)'
      BY <1>a, <3>1, <3>2 DEF Begun
    <3> QED BY <1>2, <3>4, <3>5
  <2> QED BY <1>2, <2>1, <2>2 DEF Handle, Consume
<1>3. CASE m.kind = "started"
  BY <1>3, SameRows DEF Handle
<1>4. CASE m.kind \in {"finished", "cancelled"}
  <2>1. CASE UNCHANGED ledger
    BY <1>4, <2>1, SameRows
  <2>2. CASE row.status = "started"
    <3> DEFINE to == IF m.kind = "finished" THEN "succeeded" ELSE "cancelled"
               new == [row EXCEPT !.status = to]
    <3>1. \/ UNCHANGED ledger
          \/ ledger' = [ledger EXCEPT ![i] = new]
      BY <1>4, <1>a, <2>2 DEF Handle, Finish
    <3>2. new \in Row /\ new.status = to /\ new.receipt = row.receipt /\ new.approval = row.approval
      BY <1>a DEF Row, Status
    <3> HIDE DEF new
    <3>3. CASE ledger' = [ledger EXCEPT ![i] = new]
      BY <1>4, <1>a, <2>2, <3>2, <3>3, OneRow DEF Begun, Succeeded, Recorded, Sound
    <3> QED BY <1>4, <2>1, <3>1, <3>3
  <2> QED BY <1>4, <2>1, <2>2 DEF Handle, Finish
<1>5. CASE m.kind = "receipt"
  <2>1. CASE UNCHANGED ledger
             /\ ~(row.status \in {"started", "outcome_unknown"} /\ row.approval = "consumed")
    BY <1>5, <2>1, SameRows DEF Accepts, Succeeded
  <2>2. CASE row.status \in {"started", "outcome_unknown"} /\ row.approval = "consumed"
    <3> DEFINE new == [row EXCEPT !.status = "succeeded", !.receipt = m.r]
    <3>1. ledger' = [ledger EXCEPT ![i] = new]
      BY <1>5, <1>a, <2>2 DEF Handle, Reconcile
    <3>2. new \in Row /\ new.status = "succeeded" /\ new.receipt = m.r /\ new.approval = "consumed"
      BY <1>a, <2>2 DEF Row, Status
    <3> HIDE DEF new
    <3>3. ledger' \in [Op -> Row] /\ \A k \in Op : Keeps(k) /\ Recorded(k)'
      BY <1>5, <1>a, <2>2, <3>1, <3>2, OneRow DEF Begun, Succeeded, Recorded, Sound
    <3>4. Succeeded(i)'
      BY <1>a, <3>1, <3>2 DEF Succeeded
    <3> QED BY <1>5, <3>3, <3>4
  <2> QED BY <1>5, <2>1, <2>2 DEF Handle, Reconcile
<1> QED BY <1>1, <1>2, <1>3, <1>4, <1>5 DEF Request

LEMMA ReceiveKeeps ==
  ASSUME Bounds, OperationsInv, Receive
  PROVE  OperationsInv'
<1>1. /\ call.reply = "waiting" /\ Handle(call)
      /\ call' = [call EXCEPT !.reply = IF Accepts(call) THEN "ok" ELSE "refused"]
      /\ UNCHANGED <<attempt, log, world, task, run, late, budget>>
  BY DEF Receive
<1>2. call \in CallRow /\ call.kind \in Request /\ call.i \in Op /\ call.r \in Nat /\ Sound(call)
  BY <1>1 DEF OperationsInv, Types, CallRow, CallInv, Sound
<1>3. /\ ledger' \in [Op -> Row] /\ \A k \in Op : Keeps(k) /\ Recorded(k)'
      /\ call.kind = "consume" /\ Accepts(call) => Begun(call.i)'
      /\ call.kind = "receipt" /\ Accepts(call) => Succeeded(call.i)'
  BY <1>1, <1>2, Handled
<1>4. /\ call' \in CallRow /\ call'.kind = call.kind /\ call'.i = call.i /\ call'.r = call.r
      /\ (call'.reply = "ok" => Accepts(call))
  BY <1>1, <1>2 DEF CallRow
<1>5. CallInv'
  <2>1. Sound(call)'
    BY <1>1, <1>2, <1>4 DEF Sound, Withdrawn, Effective, At
  <2> QED BY <1>1, <1>2, <1>3, <1>4, <2>1 DEF OperationsInv, CallInv, First, Request
<1> QED BY <1>1, <1>3, <1>4, <1>5, LedgerMoves DEF OperationsInv, Types

LEMMA SameCall ==
  ASSUME OperationsInv, UNCHANGED <<call, log, world, task, run>>, \A i \in Op : Keeps(i)
  PROVE  CallInv' /\ call' \in CallRow
<1>1. call.kind # "none" => call.i \in Op
  BY DEF OperationsInv, CallInv, Sound
<1> QED BY <1>1 DEF OperationsInv, Types, CallInv, Sound, Withdrawn, Effective, At, First, Keeps

LEMMA LateArrivalKeeps ==
  ASSUME Bounds, OperationsInv, NEW m \in late, LateArrival(m)
  PROVE  OperationsInv'
<1>1. Handle(m) /\ late' = late \ {m} /\ UNCHANGED <<attempt, log, world, task, run, call, budget>>
  BY DEF LateArrival
<1>2. m.kind \in Request /\ m.i \in Op /\ m.r \in Nat /\ Sound(m)
  BY DEF OperationsInv, Types, LateInv
<1>3. ledger' \in [Op -> Row] /\ \A k \in Op : Keeps(k) /\ Recorded(k)'
  BY <1>1, <1>2, Handled
<1> QED BY <1>1, <1>3, SameCall, LedgerMoves DEF OperationsInv, Types

(* The owner and the end of the attempt close approvals; what was started   *)
(* becomes unknown.                                                         *)
LEMMA OwnerKeeps ==
  ASSUME Bounds, OperationsInv,
         RequestStop \/ AttemptStopped \/ \E i \in Op : Approve(i) \/ Reject(i)
  PROVE  OperationsInv'
<1>1. UNCHANGED <<log, world, task, run, call, late, budget>>
      /\ attempt' \in {"live", "stopping", "stopped"}
  BY DEF OperationsInv, Types, RequestStop, AttemptStopped, Approve, Reject, wireVars
<1>a. ledger \in [Op -> Row] /\ \A i \in Op : ledger[i] \in Row
  BY DEF OperationsInv, Types
<1>2. ASSUME NEW i \in Op
      PROVE  /\ Invalidated(ledger[i]) \in Row
             /\ Invalidated(ledger[i]).status = ledger[i].status
             /\ Invalidated(ledger[i]).receipt = ledger[i].receipt
             /\ ledger[i].approval = "consumed" => Invalidated(ledger[i]).approval = "consumed"
  BY <1>a DEF Invalidated, Row, Approval
<1>3. ASSUME NEW i \in Op
      PROVE  /\ ledger'[i] \in Row
             /\ ledger'[i].status = ledger[i].status
                \/ (ledger[i].status = "started" /\ ledger'[i].status = "outcome_unknown")
             /\ ledger'[i].receipt = ledger[i].receipt
             /\ ledger[i].approval = "consumed" => ledger'[i].approval = "consumed"
  <2>1. CASE RequestStop
    BY <1>2, <2>1 DEF RequestStop
  <2>2. CASE AttemptStopped
    <3>1. ledger'[i] = IF ledger[i].status = "started"
                         THEN [Invalidated(ledger[i]) EXCEPT !.status = "outcome_unknown"]
                         ELSE Invalidated(ledger[i])
      BY <2>2 DEF AttemptStopped
    <3> DEFINE closed == Invalidated(ledger[i])
    <3>2. closed \in Row
      BY <1>2
    <3> HIDE DEF closed
    <3>3. /\ [closed EXCEPT !.status = "outcome_unknown"] \in Row
          /\ [closed EXCEPT !.status = "outcome_unknown"].status = "outcome_unknown"
          /\ [closed EXCEPT !.status = "outcome_unknown"].receipt = closed.receipt
          /\ [closed EXCEPT !.status = "outcome_unknown"].approval = closed.approval
      BY <3>2 DEF Row, Status
    <3> QED BY <1>2, <3>1, <3>3 DEF closed
  <2>3. ASSUME NEW k \in Op, Approve(k) \/ Reject(k)
        PROVE  \/ ledger'[i] \in {ledger[i], Invalidated(ledger[i])}
               \/ \E v \in {"approved", "rejected"} : ledger[i].approval = "pending"
                    /\ ledger'[i] = [ledger[i] EXCEPT !.approval = v]
    BY <1>a, <2>3 DEF Approve, Reject
  <2>4. ASSUME NEW v \in {"approved", "rejected"}, ledger'[i] = [ledger[i] EXCEPT !.approval = v]
        PROVE  /\ ledger'[i] \in Row /\ ledger'[i].status = ledger[i].status
               /\ ledger'[i].receipt = ledger[i].receipt
    BY <1>a, <2>4 DEF Row, Approval
  <2> QED BY <1>2, <1>a, <2>1, <2>2, <2>3, <2>4
<1>4. ledger' \in [Op -> Row]
  <2>1. DOMAIN ledger' = Op /\ ledger' = [i \in Op |-> ledger'[i]]
    BY <1>a DEF RequestStop, AttemptStopped, Approve, Reject
  <2> QED BY <1>3, <2>1
<1>5. \A i \in Op : Keeps(i) /\ Recorded(i)'
  BY <1>1, <1>3 DEF OperationsInv, Keeps, Recorded, Begun, Succeeded, Withdrawn, Effective, At
<1> QED BY <1>1, <1>4, <1>5, SameCall, LedgerMoves

-----------------------------------------------------------------------------
(* Steps of the task and of the run command that leave the journal alone    *)

Budget == [faults: Nat, crashes: Nat, receipts: Nat]

LEMMA BudgetMoves ==
  ASSUME Bounds, OperationsInv
  PROVE  budget \in Budget /\ (Fault => budget' \in Budget)
         /\ (Failed => budget' \in Budget /\ late' \subseteq late \cup {Message(call)})
<1>1. budget \in Budget
  BY DEF OperationsInv, Types, Budget
<1>2. ASSUME Fault PROVE budget' \in Budget
  <2>1. budget' = [budget EXCEPT !.faults = @ + 1]
    BY <1>2 DEF Fault
  <2> QED BY <1>1, <2>1 DEF Budget
<1> QED BY <1>1, <1>2 DEF Failed

(* A request that is given up may still arrive.                             *)
LEMMA LateMoves ==
  ASSUME Bounds, OperationsInv, UNCHANGED <<ledger, log, world>>,
         late' \subseteq late \/ (call.kind # "none" /\ late' \subseteq late \cup {Message(call)}),
         \A k \in Op : Withdrawn(k) => Withdrawn(k)'
  PROVE  late' \subseteq [kind: Request, i: Op, r: Nat] /\ LateInv'
<1>1. ASSUME NEW m \in late', m \in late
      PROVE  m \in [kind: Request, i: Op, r: Nat] /\ Sound(m)'
  <2>1. m \in [kind: Request, i: Op, r: Nat] /\ Sound(m)
    BY <1>1 DEF OperationsInv, Types, LateInv
  <2> QED BY <2>1 DEF Sound
<1>2. ASSUME NEW m \in late', m = Message(call), call.kind # "none"
      PROVE  m \in [kind: Request, i: Op, r: Nat] /\ Sound(m)'
  <2>1. call \in CallRow /\ Sound(call)
    BY DEF OperationsInv, Types, CallInv
  <2>2. m.kind = call.kind /\ m.i = call.i /\ m.r = call.r
    BY <1>2 DEF Message
  <2>3. m \in [kind: Request, i: Op, r: Nat]
    BY <1>2, <2>1 DEF Message, CallRow, Sound
  <2>4. Sound(m)'
    BY <2>1, <2>2, <2>3 DEF Sound
  <2> QED BY <2>3, <2>4
<1> QED BY <1>1, <1>2 DEF LateInv

(* The task stays where it is or ends, and the request stays out or is given *)
(* up.                                                                      *)
LEMMA GivesUp ==
  ASSUME Bounds, OperationsInv, UNCHANGED <<attempt, ledger, log, world>>,
         task' \in TaskRow, task'.at = task.at, task'.pc \in {task.pc, "ended"},
         call' \in {call, NoCall}, budget' \in Budget,
         late' \subseteq late \/ (call.kind # "none" /\ late' \subseteq late \cup {Message(call)}),
         run' \in RunRow, RunInv',
         run'.pc = "resolved" => call' = NoCall \/ (run.pc = "resolved" /\ run'.todo = run.todo)
  PROVE  OperationsInv'
<1>1. \A k \in Op : Withdrawn(k) => Withdrawn(k)'
  BY DEF Withdrawn, Effective, At
<1>2. late' \subseteq [kind: Request, i: Op, r: Nat] /\ LateInv'
  BY <1>1, LateMoves
<1>3. Types'
  <2>1. call' \in CallRow
    BY DEF OperationsInv, Types, CallRow, NoCall
  <2> QED BY <1>2, <2>1 DEF OperationsInv, Types, Budget
<1>4. ASSUME NEW k \in Op PROVE Recorded(k)' /\ Journaled(k)'
  <2>1. Recorded(k) /\ Journaled(k)
    BY DEF OperationsInv
  <2>2. Recorded(k)'
    BY <1>1, <2>1 DEF Recorded, Begun, Succeeded
  <2>3. Journaled(k)'
    BY <2>1 DEF Journaled, Begun, Succeeded, Effective
  <2> QED BY <2>2, <2>3
<1>5. TaskInv'
  <2>1. Behind'
    BY DEF OperationsInv, TaskInv, Behind, Succeeded
  <2>2. Ahead'
    BY DEF OperationsInv, TaskInv, Ahead, Effective
  <2>3. task.at \in Op => Here(task.at)'
    BY DEF OperationsInv, TaskInv, Here, Effective, Begun
  <2> QED BY <2>1, <2>2, <2>3 DEF TaskInv, Here, Effective, Begun
<1>6. CallInv'
  <2>1. CASE call' = NoCall
    BY <2>1 DEF CallInv, Sound, NoCall
  <2>2. CASE call' = call /\ call' # NoCall
    <3>1. CallInv /\ (call.kind # "none" => call.i \in Op)
      BY DEF OperationsInv, CallInv, Sound
    <3>2. Sound(call)'
      BY <1>1, <2>2, <3>1 DEF CallInv, Sound
    <3> QED BY <2>2, <3>1, <3>2 DEF CallInv, First, Begun, Succeeded
  <2> QED BY <2>1, <2>2
<1> QED BY <1>2, <1>3, <1>4, <1>5, <1>6 DEF OperationsInv

(* The run command is not touched.                                          *)
LEMMA SameRun ==
  ASSUME OperationsInv, UNCHANGED <<ledger, log, world, run>>, task'.pc \in {task.pc, "ended"}
  PROVE  run' \in RunRow /\ RunInv'
<1>1. run.seen \subseteq Op
  BY DEF OperationsInv, Types, RunRow
<1> QED BY <1>1 DEF OperationsInv, Types, RunInv, First, Succeeded

LEMMA TaskEnds ==
  ASSUME Bounds, OperationsInv, UNCHANGED <<attempt, ledger, log, world, run>>, Step("ended"),
         call' \in {call, NoCall}, budget' \in Budget,
         late' \subseteq late \/ (call.kind # "none" /\ late' \subseteq late \cup {Message(call)})
  PROVE  OperationsInv'
<1>1. task \in TaskRow /\ task' = [task EXCEPT !.pc = "ended"]
  BY DEF OperationsInv, Types, Step
<1>2. task' \in TaskRow /\ task'.pc = "ended" /\ task'.at = task.at
  BY <1>1 DEF TaskRow, TaskPc
<1> QED BY <1>2, SameRun, GivesUp

(* The task goes on with the operation in hand.                             *)
LEMMA GoesOn ==
  ASSUME Bounds, OperationsInv, UNCHANGED <<attempt, ledger, log, world, run, late, budget>>,
         NEW i \in Op, task.at = i, task.pc \notin {"ended", "cancelling"},
         task' \in TaskRow, task'.at = i, Here(i)',
         call' \in CallRow,
         \/ UNCHANGED call
         \/ /\ call'.reply # "ok" /\ Sound(call)' /\ (call'.kind = "none" => call'.reply = "none")
            /\ call'.kind # "none" => call'.i = i
  PROVE  OperationsInv'
<1>1. \A k \in Op : Withdrawn(k) => Withdrawn(k)'
  BY DEF Withdrawn, Effective, At
<1>2. late' \subseteq [kind: Request, i: Op, r: Nat] /\ LateInv'
  BY <1>1, LateMoves
<1>3. Types'
  BY DEF OperationsInv, Types
<1>4. ASSUME NEW k \in Op PROVE Recorded(k)' /\ Journaled(k)'
  <2>1. Recorded(k) /\ Journaled(k)
    BY DEF OperationsInv
  <2>2. Recorded(k)'
    BY <1>1, <2>1 DEF Recorded, Begun, Succeeded
  <2>3. Journaled(k)'
    BY <2>1 DEF Journaled, Begun, Succeeded, Effective
  <2> QED BY <2>2, <2>3
<1>5. TaskInv'
  <2>1. Behind' /\ Ahead'
    BY DEF OperationsInv, TaskInv, Behind, Ahead, Succeeded, Effective
  <2> QED BY <2>1 DEF TaskInv, Here, Effective, Begun
<1>6. run.pc = "polling"
  BY DEF OperationsInv, RunInv
<1>7. CallInv'
  <2>1. CASE UNCHANGED call
    <3>1. CallInv /\ (call.kind # "none" => call.i \in Op)
      BY DEF OperationsInv, CallInv, Sound
    <3>2. Sound(call)'
      BY <1>1, <2>1, <3>1 DEF CallInv, Sound
    <3> QED BY <1>6, <2>1, <3>1, <3>2 DEF CallInv, Begun, Succeeded
  <2>2. CASE ~UNCHANGED call
    BY <1>6, <2>2 DEF CallInv
  <2> QED BY <2>1, <2>2
<1>8. RunInv'
  <2>1. run.seen \subseteq Op
    BY DEF OperationsInv, Types, RunRow
  <2> QED BY <1>6, <2>1 DEF OperationsInv, RunInv, First, Succeeded
<1> QED BY <1>2, <1>3, <1>4, <1>5, <1>7, <1>8 DEF OperationsInv

LEMMA TaskSteps ==
  ASSUME Bounds, OperationsInv, NEW pc \in TaskPc
  PROVE  /\ Step(pc) => task' \in TaskRow /\ task'.pc = pc /\ task'.at = task.at
         /\ Give(pc) => task' \in TaskRow /\ task'.at = task.at
                        /\ (task'.pc = pc \/ Step("ended"))
<1>1. task \in TaskRow
  BY DEF OperationsInv, Types
<1>2. ASSUME NEW q \in TaskPc, Step(q)
      PROVE  task' \in TaskRow /\ task'.pc = q /\ task'.at = task.at
  BY <1>1, <1>2 DEF TaskRow, Step
<1>3. Give(pc) => Step(pc) \/ Step("ended")
  BY DEF Give, Step
<1>4. "ended" \in TaskPc
  BY DEF TaskPc
<1> QED BY <1>2, <1>3, <1>4

LEMMA Sends ==
  ASSUME NEW kind \in Request, NEW i \in Op, NEW r \in Nat, Send(kind, i, r)
  PROVE  call' \in CallRow /\ call'.kind = kind /\ call'.i = i /\ call'.r = r /\ call'.reply = "waiting"
BY DEF Send, CallRow, Request

LEMMA SameBudget ==
  ASSUME OperationsInv
  PROVE  budget \in Budget /\ NoCall \in CallRow
BY DEF OperationsInv, Types, Budget, CallRow, NoCall

LEMMA SendProposalKeeps ==
  ASSUME Bounds, OperationsInv, NEW i \in Op, SendProposal(i)
  PROVE  OperationsInv'
<1>1. At("idle", i) /\ UNCHANGED <<attempt, ledger, log, world, run, late, budget>>
  BY DEF SendProposal
<1>2. CASE Send("propose", i, 0) /\ Step("proposing")
  <2>1. task' \in TaskRow /\ task'.pc = "proposing" /\ task'.at = i
    BY <1>1, <1>2, TaskSteps DEF TaskPc, At
  <2>2. call' \in CallRow /\ call'.kind = "propose" /\ call'.i = i /\ call'.reply = "waiting"
    BY <1>2, Sends DEF Request
  <2>3. Here(i)'
    BY <1>1, <2>1 DEF OperationsInv, TaskInv, Here, Effective, At
  <2> QED BY <1>1, <2>1, <2>2, <2>3, GoesOn DEF At, Sound
<1>3. CASE Step("ended") /\ UNCHANGED call
  BY <1>1, <1>3, SameBudget, TaskEnds
<1> QED BY <1>2, <1>3 DEF SendProposal

(* An answer takes the task on, or finds its session closed.                *)
LEMMA AnswerKeeps ==
  ASSUME Bounds, OperationsInv, UNCHANGED <<attempt, ledger, log, world, run, late, budget>>,
         NEW i \in Op, NEW pc \in TaskPc, task.at = i, task.pc \notin {"ended", "cancelling"},
         Give(pc), call' = NoCall, Here(i)'
  PROVE  OperationsInv'
<1>1. CASE Step("ended")
  BY <1>1, SameBudget, TaskEnds
<1>2. CASE ~Step("ended")
  <2>1. task' \in TaskRow /\ task'.at = i
    BY TaskSteps
  <2>2. call' \in CallRow /\ call'.kind = "none" /\ call'.reply = "none" /\ Sound(call)'
    BY SameBudget DEF NoCall, Sound
  <2> QED BY <2>1, <2>2, GoesOn
<1> QED BY <1>1, <1>2

LEMMA AnswersKeep ==
  ASSUME Bounds, OperationsInv, NEW i \in Op, Proposed(i) \/ Announced(i)
  PROVE  OperationsInv'
<1>1. CASE Proposed(i)
  <2>1. At("proposing", i) /\ Give("deciding") /\ call' = NoCall
        /\ UNCHANGED <<attempt, ledger, log, world, run, late, budget>>
    BY <1>1 DEF Proposed
  <2>2. task'.pc \in {"deciding", "ended"}
    BY <2>1, TaskSteps DEF TaskPc, Step
  <2>3. Here(i)'
    BY <2>1, <2>2 DEF OperationsInv, TaskInv, Here, Effective, At
  <2> QED BY <2>1, <2>3, AnswerKeeps DEF TaskPc, At
<1>2. CASE Announced(i)
  <2>1. At("announcing", i) /\ Give("ready") /\ call' = NoCall
        /\ UNCHANGED <<attempt, ledger, log, world, run, late, budget>>
    BY <1>2 DEF Announced
  <2>2. task'.pc \in {"ready", "ended"}
    BY <2>1, TaskSteps DEF TaskPc, Step
  <2>3. Here(i)'
    BY <2>1, <2>2 DEF OperationsInv, TaskInv, Here, Effective, Begun, At
  <2> QED BY <2>1, <2>3, AnswerKeeps DEF TaskPc, At
<1> QED BY <1>1, <1>2

LEMMA NoEffectKeeps ==
  ASSUME Bounds, OperationsInv, NEW i \in Op, NoEffect(i)
  PROVE  OperationsInv'
<1>1. At("ready", i) /\ UNCHANGED <<attempt, ledger, log, world, run, late, budget>>
  BY DEF NoEffect
<1>2. CASE Send("cancelled", i, 0) /\ Step("cancelling")
  <2>1. task' \in TaskRow /\ task'.pc = "cancelling" /\ task'.at = i
    BY <1>1, <1>2, TaskSteps DEF TaskPc, At
  <2>2. call' \in CallRow /\ call'.kind = "cancelled" /\ call'.i = i /\ call'.reply = "waiting"
    BY <1>2, Sends DEF Request
  <2>3. Here(i)' /\ ~Effective(i)'
    BY <1>1, <2>1 DEF OperationsInv, TaskInv, Here, Effective, Begun, At
  <2>4. Sound(call)'
    BY <2>1, <2>2, <2>3 DEF Sound, Withdrawn, At
  <2> QED BY <1>1, <2>1, <2>2, <2>3, <2>4, GoesOn DEF At
<1>3. CASE Step("ended") /\ UNCHANGED call
  BY <1>1, <1>3, SameBudget, TaskEnds
<1> QED BY <1>2, <1>3 DEF NoEffect

LEMMA EffectAnsweredKeeps ==
  ASSUME Bounds, OperationsInv, NEW i \in Op, EffectAnswered(i)
  PROVE  OperationsInv'
<1>1. At("dispatched", i) /\ UNCHANGED <<attempt, ledger, log, world, run, call, late, budget>>
      /\ Give(IF world[i].times > 0 THEN "observed" ELSE "ended")
  BY DEF EffectAnswered, wireVars
<1>2. CASE Step("ended")
  BY <1>1, <1>2, SameBudget, TaskEnds
<1>3. CASE ~Step("ended")
  <2>1. world[i].times > 0 /\ Give("observed")
    BY <1>1, <1>3 DEF Give, Step
  <2>2. task' \in TaskRow /\ task'.pc = "observed" /\ task'.at = i
    BY <1>1, <1>3, <2>1, TaskSteps DEF TaskPc, At
  <2>3. Here(i)'
    BY <1>1, <2>1, <2>2 DEF OperationsInv, TaskInv, Here, Effective, Begun, At
  <2>4. call' \in CallRow
    BY <1>1 DEF OperationsInv, Types
  <2> QED BY <1>1, <2>2, <2>3, <2>4, GoesOn DEF At
<1> QED BY <1>2, <1>3

LEMMA TaskStopsKeep ==
  ASSUME Bounds, OperationsInv, TaskFailed \/ \E i \in Op : EffectUnanswered(i)
  PROVE  OperationsInv'
<1>1. CASE TaskFailed
  BY <1>1, BudgetMoves, TaskEnds DEF TaskFailed
<1>2. CASE \E i \in Op : EffectUnanswered(i)
  BY <1>2, BudgetMoves, TaskEnds DEF EffectUnanswered
<1> QED BY <1>1, <1>2

LEMMA SessionKeeps ==
  ASSUME Bounds, OperationsInv, Retire \/ InputArrives
  PROVE  OperationsInv'
<1>1. UNCHANGED <<attempt, ledger, log, world, run, call, late, budget>>
      /\ (task' = [task EXCEPT !.valid = FALSE] \/ task' = [task EXCEPT !.input = TRUE])
  BY DEF Retire, InputArrives, wireVars
<1>2. task \in TaskRow
  BY DEF OperationsInv, Types
<1>3. task' \in TaskRow /\ task'.pc = task.pc /\ task'.at = task.at
  BY <1>1, <1>2 DEF TaskRow
<1> QED BY <1>1, <1>3, SameBudget, SameRun, GivesUp

-----------------------------------------------------------------------------
(* The run command, where it leaves the journal alone                       *)

LEMMA Exits ==
  ASSUME Exit
  PROVE  run' \in RunRow /\ run'.pc = "down" /\ run'.todo = {} /\ run'.seen = {}
BY DEF Exit, RunRow

LEMMA RunEnds ==
  ASSUME Bounds, OperationsInv, run.pc # "polling", Exit, UNCHANGED <<attempt, ledger, log, world, task>>,
         call' \in {call, NoCall}, budget' \in Budget,
         late' \subseteq late \/ (call.kind # "none" /\ late' \subseteq late \cup {Message(call)})
  PROVE  OperationsInv'
<1>1. run' \in RunRow /\ run'.pc = "down" /\ run'.todo = {} /\ run'.seen = {}
  BY Exits
<1>2. task \in TaskRow /\ task.pc = "ended"
  BY DEF OperationsInv, Types, RunInv
<1>3. RunInv'
  BY <1>1, <1>2 DEF RunInv
<1> QED BY <1>1, <1>2, <1>3, GivesUp

LEMMA RunFailsKeep ==
  ASSUME Bounds, OperationsInv,
         RecoveryFailed \/ \E i \in Op : RecoverLocal(i) \/ ResolveConflict(i)
  PROVE  OperationsInv'
<1>1. CASE RecoveryFailed
  BY <1>1, BudgetMoves, RunEnds DEF RecoveryFailed
<1>2. CASE \E i \in Op : RecoverLocal(i) \/ ResolveConflict(i)
  BY <1>2, SameBudget, RunEnds DEF RecoverLocal, ResolveConflict, Recoverable, Recovering, wireVars
<1> QED BY <1>1, <1>2

LEMMA CrashKeeps ==
  ASSUME Bounds, OperationsInv, Crash
  PROVE  OperationsInv'
<1>1. /\ budget' = [budget EXCEPT !.crashes = @ + 1]
      /\ task' = [task EXCEPT !.valid = FALSE, !.pc = "ended"]
      /\ Exit /\ call' = NoCall /\ UNCHANGED <<attempt, ledger, log, world>>
      /\ \/ late' \subseteq late
         \/ call.reply = "waiting" /\ late' \subseteq late \cup {Message(call)}
  BY DEF Crash
<1>2. budget' \in Budget
  BY <1>1, SameBudget DEF Budget
<1>3. task \in TaskRow
  BY DEF OperationsInv, Types
<1>4. task' \in TaskRow /\ task'.pc = "ended" /\ task'.at = task.at
  BY <1>1, <1>3 DEF TaskRow, TaskPc
<1>5. run' \in RunRow /\ run'.pc = "down" /\ run'.todo = {} /\ run'.seen = {}
  BY <1>1, Exits
<1>6. RunInv'
  BY <1>4, <1>5 DEF RunInv
<1>7. call.reply = "waiting" => call.kind # "none"
  BY DEF OperationsInv, CallInv
<1> QED BY <1>1, <1>2, <1>4, <1>5, <1>6, <1>7, GivesUp

LEMMA StartKeeps ==
  ASSUME Bounds, OperationsInv, Start
  PROVE  OperationsInv'
<1>1. /\ run.pc = "down" /\ UNCHANGED <<attempt, ledger, log, world, task, call, late, budget>>
      /\ run' = [pc |-> "recovering", seen |-> Landed, todo |-> {i \in Op : log[i].effect # "absent"}]
  BY DEF Start, wireVars
<1>2. run' \in RunRow /\ run'.pc = "recovering" /\ run'.seen = Landed
      /\ run'.todo = {i \in Op : log[i].effect # "absent"}
  BY <1>1, Operations DEF RunRow, Landed
<1>3. task \in TaskRow /\ task.pc = "ended"
  BY <1>1 DEF OperationsInv, Types, RunInv
<1>4. \A i \in Landed : i \in Remote /\ i \in Op /\ world[i].times > 0 /\ log[i].effect # "absent"
  BY Operations DEF OperationsInv, Landed, Journaled, Effective
<1>5. RunInv'
  BY <1>1, <1>2, <1>3, <1>4 DEF RunInv
<1> QED BY <1>1, <1>2, <1>3, <1>5, SameBudget, GivesUp

LEMMA PollKeeps ==
  ASSUME Bounds, OperationsInv, Poll
  PROVE  OperationsInv'
<1>1. /\ run.pc = "recovering" /\ run.todo = {} /\ run' = [run EXCEPT !.pc = "polling"]
      /\ UNCHANGED <<attempt, ledger, log, world, task, call, late, budget>>
  BY DEF Poll, wireVars
<1>2. run \in RunRow /\ task \in TaskRow /\ RunInv
  BY DEF OperationsInv, Types
<1>3. run' \in RunRow /\ run'.pc = "polling" /\ run'.todo = {} /\ run'.seen = run.seen
  BY <1>1, <1>2 DEF RunRow
<1>4. RunInv'
  BY <1>1, <1>2, <1>3 DEF RunInv, First, Succeeded
<1> QED BY <1>1, <1>2, <1>3, <1>4, SameBudget, GivesUp

LEMMA Skips ==
  ASSUME OperationsInv, NEW i \in Op, Skip(i)
  PROVE  run' \in RunRow /\ run'.pc = "recovering" /\ run'.todo = run.todo \ {i} /\ run'.seen = run.seen
<1>1. run \in RunRow /\ run' = [run EXCEPT !.pc = "recovering", !.todo = @ \ {i}]
  BY DEF OperationsInv, Types, Skip
<1> QED BY <1>1 DEF RunRow

(* What was seen to have landed is not passed over unless it is done.       *)
LEMMA RecoverNothingKeeps ==
  ASSUME Bounds, OperationsInv, NEW i \in Op, RecoverNothing(i)
  PROVE  OperationsInv'
<1>1. /\ run.pc = "recovering" /\ Skip(i) /\ (log[i].effect # "uncertain" \/ world[i].times = 0)
      /\ UNCHANGED <<attempt, ledger, log, world, task, call, late, budget>>
  BY DEF RecoverNothing, Recovering, wireVars
<1>2. run' \in RunRow /\ run'.pc = "recovering" /\ run'.todo = run.todo \ {i} /\ run'.seen = run.seen
  BY <1>1, Skips
<1>3. task \in TaskRow /\ task.pc = "ended" /\ RunInv
  BY <1>1 DEF OperationsInv, Types, RunInv
<1>4. i \in run.seen => Succeeded(i) /\ log[i].effect = "done"
  <2>1. ASSUME i \in run.seen PROVE i \in Remote /\ world[i].times > 0
    BY <1>3, <2>1 DEF RunInv
  <2>2. log[i] \in Entry
    BY DEF OperationsInv, Types
  <2> QED BY <1>1, <2>1, <2>2 DEF OperationsInv, Journaled, Effective, Entry, EntryState
<1>5. RunInv'
  <2>1. ASSUME NEW k \in run.seen
        PROVE  /\ k \in Remote /\ world[k].times > 0
               /\ k \in run.todo \ {i} \/ (Succeeded(k) /\ log[k].effect = "done")
    BY <1>3, <1>4 DEF RunInv
  <2> QED BY <1>1, <1>2, <1>3, <2>1 DEF RunInv, Succeeded
<1> QED BY <1>1, <1>2, <1>3, <1>5, SameBudget, GivesUp

-----------------------------------------------------------------------------
(* The effect *)

(* The world of one operation changes.                                      *)
LEMMA Worlds ==
  ASSUME Bounds, OperationsInv, NEW i \in Op, NEW fate, world' = [world EXCEPT ![i] = fate]
  PROVE  /\ world[i] \in Fate
         /\ \A k \in Op : world'[k] = IF k = i THEN fate ELSE world[k]
         /\ fate \in Fate => world' \in [Op -> Fate]
BY DEF OperationsInv, Types

(* Requests keep their sense when no effect appears that was withdrawn.     *)
LEMMA SameRequests ==
  ASSUME Bounds, OperationsInv, UNCHANGED <<ledger, log, run, call, late>>,
         task'.at = task.at, task'.pc = "ended" <=> task.pc = "ended",
         \A k \in Op : /\ Withdrawn(k) => Withdrawn(k)'
                       /\ world[k].times > 0 => world'[k].times > 0
  PROVE  CallInv' /\ LateInv' /\ RunInv'
<1>1. ASSUME NEW m, Sound(m) PROVE Sound(m)'
  BY <1>1, Operations DEF Sound
<1>2. CallInv'
  <2>1. CallInv /\ (call.kind # "none" => call.i \in Op)
    BY DEF OperationsInv, CallInv, Sound
  <2>2. Sound(call)'
    BY <1>1, <2>1 DEF CallInv, Sound
  <2> QED BY <2>1, <2>2 DEF CallInv, First, Begun, Succeeded
<1>3. LateInv'
  BY <1>1 DEF OperationsInv, LateInv
<1>4. RunInv'
  <2>1. run.seen \subseteq Op
    BY DEF OperationsInv, Types, RunRow
  <2> QED BY <2>1 DEF OperationsInv, RunInv, First, Succeeded
<1> QED BY <1>2, <1>3, <1>4

LEMMA DispatchKeeps ==
  ASSUME Bounds, OperationsInv, NEW i \in Op, Dispatch(i)
  PROVE  OperationsInv'
<1>1. /\ At("ready", i) /\ Step("dispatched") /\ world' = [world EXCEPT ![i].flying = TRUE]
      /\ UNCHANGED <<attempt, ledger, log, run, call, late, budget>>
  BY DEF Dispatch, wireVars
<1> DEFINE fate == [world[i] EXCEPT !.flying = TRUE]
<1>2. /\ world[i] \in Fate /\ ~Effective(i) /\ log[i].effect = "uncertain" /\ log[i].authority /\ Begun(i)
      /\ log[i].receipt = 0
  BY <1>1 DEF OperationsInv, Types, TaskInv, Here, At
<1>3. world' = [world EXCEPT ![i] = fate] /\ fate \in Fate /\ fate.flying /\ fate.times = 0
  <2>1. world[i].times = 0
    BY <1>2 DEF Fate, Effective
  <2>2. fate \in Fate /\ fate.flying /\ fate.times = world[i].times
    BY <1>2 DEF Fate
  <2>3. world' = [world EXCEPT ![i] = fate]
    BY <1>1
  <2> QED BY <2>1, <2>2, <2>3
<1> HIDE DEF fate
<1>4. world' \in [Op -> Fate] /\ \A k \in Op : world'[k] = IF k = i THEN fate ELSE world[k]
  BY <1>3, Worlds
<1>5. task' \in TaskRow /\ task'.pc = "dispatched" /\ task'.at = i /\ task.at = i
  BY <1>1, TaskSteps DEF TaskPc, At
<1>6. \A k \in Op : ~Withdrawn(k)
  BY <1>1 DEF Withdrawn, At
<1>7. ASSUME NEW k \in Op PROVE Recorded(k)' /\ Journaled(k)'
  <2>1. Recorded(k) /\ Journaled(k)
    BY DEF OperationsInv
  <2>2. Recorded(k)'
    BY <1>1, <1>3, <1>4, <1>6, <2>1 DEF Recorded, Begun, Succeeded
  <2>3. CASE k = i
    <3>1. world'[i].flying /\ world'[i].times = 0
      BY <1>3, <1>4
    <3>2. \A j \in Remote : j < i => Succeeded(j)
      BY <1>5 DEF OperationsInv, TaskInv, Behind
    <3>3. \A j \in Remote : j < i => Succeeded(j)'
      BY <1>1, <3>2 DEF Succeeded
    <3>4. log[i].sent = "done" => Succeeded(i)'
      BY <1>1, <2>1, <2>3 DEF Journaled, Succeeded
    <3>5. log[i].receipt # 0 /\ log[i].resolution # 0 => log[i].receipt = log[i].resolution
      BY <2>1, <2>3 DEF Journaled
    <3>6. Begun(i)' /\ log' = log
      BY <1>1, <1>2 DEF Begun
    <3>7. log[i].effect = "uncertain" /\ log[i].authority
      BY <1>2
    <3>8. /\ world'[i].flying => world'[i].times = 0 /\ log'[i].effect = "uncertain"
          /\ Effective(i)' => /\ Begun(i)' /\ log'[i].authority /\ log'[i].effect # "absent"
                              /\ \A j \in Remote : j < i => Succeeded(j)'
      BY <3>1, <3>3, <3>6, <3>7
    <3>9. /\ i \in Remote /\ world'[i].times > 0 /\ log'[i].effect = "done" => Succeeded(i)'
          /\ log'[i].sent = "done" => Succeeded(i)'
          /\ log'[i].receipt # 0 /\ log'[i].resolution # 0 => log'[i].receipt = log'[i].resolution
      BY <3>4, <3>5, <3>6, <3>7
    <3> QED BY <2>2, <2>3, <3>8, <3>9 DEF Journaled
  <2>4. CASE k # i
    <3>1. world'[k] = world[k] /\ log' = log /\ ledger' = ledger
      BY <1>1, <1>4, <2>4
    <3>2. (Effective(k)' <=> Effective(k)) /\ (Begun(k)' <=> Begun(k))
          /\ \A j \in Op : Succeeded(j)' <=> Succeeded(j)
      BY <3>1 DEF Begun, Succeeded, Effective
    <3> QED BY <2>1, <2>2, <3>1, <3>2, Operations DEF Journaled
  <2> QED BY <2>2, <2>3, <2>4
<1>8. TaskInv'
  <2>a. Behind'
    BY <1>1, <1>5 DEF OperationsInv, TaskInv, Behind, Succeeded
  <2>b. \A k \in Op : log[k].resolution = 0 /\ (k > i => ~Effective(k) /\ log[k].receipt = 0)
    BY <1>1, <1>5 DEF OperationsInv, TaskInv, Ahead, At
  <2>c. \A k \in Op : k > i => world'[k] = world[k]
    BY <1>4, Operations
  <2>1. Behind' /\ Ahead'
    BY <1>1, <1>5, <2>a, <2>b, <2>c DEF Ahead, Effective
  <2>2. Here(i)'
    BY <1>1, <1>2, <1>5 DEF Here, Begun
  <2> QED BY <1>5, <2>1, <2>2 DEF TaskInv
<1>9. CallInv' /\ LateInv' /\ RunInv'
  BY <1>1, <1>3, <1>4, <1>5, <1>6, SameRequests DEF At
<1> QED BY <1>1, <1>4, <1>5, <1>7, <1>8, <1>9 DEF OperationsInv, Types

(* An effect that is under way comes to an end, one way or the other.       *)
LEMMA EffectKeeps ==
  ASSUME Bounds, OperationsInv, NEW i \in Op, EffectLands(i) \/ EffectLost(i)
  PROVE  OperationsInv'
<1>1. world[i].flying /\ UNCHANGED <<attempt, ledger, log, task, run, call, late>> /\ budget' \in Budget
  BY SameBudget, BudgetMoves DEF EffectLands, EffectLost, wireVars
<1>2. world[i] \in Fate /\ world[i].times = 0 /\ log[i].effect = "uncertain"
  BY <1>1 DEF OperationsInv, Types, Journaled
<1>3. PICK fate \in Fate : world' = [world EXCEPT ![i] = fate] /\ ~fate.flying
  <2>1. CASE EffectLands(i)
    <3>1. [flying |-> FALSE, times |-> world[i].times + 1] \in Fate
      BY <1>2 DEF Fate
    <3> QED BY <2>1, <3>1 DEF EffectLands, OperationsInv, Types
  <2>2. CASE EffectLost(i)
    <3>1. [world[i] EXCEPT !.flying = FALSE] \in Fate
          /\ ~[world[i] EXCEPT !.flying = FALSE].flying
      BY <1>2 DEF Fate
    <3>2. world' = [world EXCEPT ![i] = [world[i] EXCEPT !.flying = FALSE]]
      BY <2>2 DEF EffectLost
    <3> QED BY <3>1, <3>2
  <2> QED BY <2>1, <2>2
<1>4. world' \in [Op -> Fate] /\ \A k \in Op : world'[k] = IF k = i THEN fate ELSE world[k]
  BY <1>3, Worlds
<1>5. ASSUME NEW k \in Op
      PROVE  /\ Effective(k)' => Effective(k)
             /\ Withdrawn(k) => Withdrawn(k)'
             /\ world[k].times > 0 => world'[k].times > 0
  BY <1>1, <1>2, <1>3, <1>4 DEF Effective, Withdrawn, At
<1>6. ASSUME NEW k \in Op PROVE Recorded(k)' /\ Journaled(k)'
  <2>1. Recorded(k) /\ Journaled(k)
    BY DEF OperationsInv
  <2>2. Recorded(k)'
    BY <1>1, <1>5, <2>1 DEF Recorded, Begun, Succeeded
  <2>3. Journaled(k)'
    BY <1>1, <1>2, <1>3, <1>4, <1>5, <2>1 DEF Journaled, Begun, Succeeded, Effective
  <2> QED BY <2>2, <2>3
<1>7. TaskInv'
  <2>1. Behind' /\ Ahead'
    BY <1>1, <1>5 DEF OperationsInv, TaskInv, Behind, Ahead, Succeeded
  <2>2. task.at \in Op => Here(task.at)'
    BY <1>1, <1>5 DEF OperationsInv, TaskInv, Here, Begun
  <2> QED BY <1>1, <2>1, <2>2 DEF TaskInv, Here, Effective, Begun
<1>8. CallInv' /\ LateInv' /\ RunInv'
  BY <1>1, <1>5, SameRequests
<1> QED BY <1>1, <1>4, <1>6, <1>7, <1>8 DEF OperationsInv, Types, Budget
-----------------------------------------------------------------------------
(* Steps that write to the journal *)

(* One entry changes.                                                       *)
LEMMA Journals ==
  ASSUME Bounds, OperationsInv, UNCHANGED <<attempt, ledger, world, late>>,
         NEW i \in Op, NEW entry \in Entry, log' = [log EXCEPT ![i] = entry],
         log[i].receipt # 0 => entry.receipt = log[i].receipt,
         /\ world[i].flying => entry.effect = "uncertain"
         /\ Effective(i) => entry.authority /\ entry.effect # "absent"
         /\ i \in Remote /\ world[i].times > 0 /\ entry.effect = "done" => Succeeded(i)
         /\ entry.sent = "done" => Succeeded(i)
         /\ entry.receipt # 0 /\ entry.resolution # 0 => entry.receipt = entry.resolution,
         \A k \in Op : Withdrawn(k) => Withdrawn(k)',
         task' \in TaskRow, run' \in RunRow, call' \in CallRow, budget' \in Budget,
         TaskInv', CallInv', RunInv'
  PROVE  OperationsInv'
<1>1. log' \in [Op -> Entry] /\ \A k \in Op : log'[k] = IF k = i THEN entry ELSE log[k]
  BY DEF OperationsInv, Types
<1>2. Types'
  BY <1>1 DEF OperationsInv, Types, Budget
<1>3. \A k \in Op : /\ Effective(k)' <=> Effective(k)
                    /\ Begun(k)' <=> Begun(k)
                    /\ Succeeded(k)' <=> Succeeded(k)
  BY DEF Effective, Begun, Succeeded
<1>4. ASSUME NEW k \in Op PROVE Recorded(k)' /\ Journaled(k)'
  <2>1. Recorded(k) /\ Journaled(k)
    BY DEF OperationsInv
  <2>2. Recorded(k)'
    BY <1>1, <1>3, <2>1 DEF Recorded
  <2>3. CASE k = i
    <3>1. log'[k] = entry
      BY <1>1, <2>3
    <3> QED BY <1>3, <2>1, <2>2, <2>3, <3>1, Operations DEF Journaled
  <2>4. CASE k # i
    <3>1. log'[k] = log[k]
      BY <1>1, <2>4
    <3> QED BY <1>3, <2>1, <2>2, <3>1, Operations DEF Journaled
  <2> QED BY <2>2, <2>3, <2>4
<1>5. LateInv'
  <2>1. ASSUME NEW m \in late PROVE Sound(m)'
    <3>1. Sound(m) /\ m.i \in Op
      BY DEF OperationsInv, Types, LateInv
    <3> QED BY <1>1, <3>1 DEF Sound
  <2> QED BY <2>1 DEF LateInv
<1> QED BY <1>2, <1>4, <1>5 DEF OperationsInv

(* The task writes, and keeps to the operation in hand or ends.             *)
LEMMA TaskWrites ==
  ASSUME Bounds, OperationsInv, UNCHANGED <<attempt, ledger, world, run, late>>,
         NEW i \in Op, task.at = i, task.pc # "ended",
         NEW entry \in Entry, log' = [log EXCEPT ![i] = entry],
         log[i].receipt # 0 => entry.receipt = log[i].receipt,
         entry.resolution = log[i].resolution,
         log[i].effect = "done" => entry.effect = "done",
         /\ world[i].flying => entry.effect = "uncertain"
         /\ Effective(i) => entry.authority /\ entry.effect # "absent"
         /\ i \in Remote /\ world[i].times > 0 /\ entry.effect = "done" => Succeeded(i)
         /\ entry.sent = "done" => Succeeded(i),
         task' \in TaskRow, call' \in CallRow, budget' \in Budget,
         task'.at = i, Here(i)', task.pc = "cancelling" => task'.pc = "ended",
         call'.reply # "ok", Sound(call)', call'.kind = "none" => call'.reply = "none",
         call'.kind # "none" => call'.i = i
  PROVE  OperationsInv'
<1>1. log' \in [Op -> Entry] /\ \A k \in Op : log'[k] = IF k = i THEN entry ELSE log[k]
  BY DEF OperationsInv, Types
<1>2. entry.resolution = 0
  BY DEF OperationsInv, TaskInv, Ahead
<1>3. run.pc = "polling"
  BY DEF OperationsInv, RunInv
<1>4. \A k \in Op : Withdrawn(k) => Withdrawn(k)'
  BY DEF Withdrawn, Effective, At
<1>5. TaskInv'
  <2>1. Behind'
    BY DEF OperationsInv, TaskInv, Behind, Succeeded
  <2>2. \A k \in Op : log[k].resolution = 0 /\ (k > i => ~Effective(k) /\ log[k].receipt = 0)
    BY DEF OperationsInv, TaskInv, Ahead
  <2>3. Ahead'
    BY <1>1, <1>2, <2>2, Operations DEF Ahead, Effective
  <2> QED BY <2>1, <2>3 DEF TaskInv
<1>6. CallInv'
  BY <1>3 DEF CallInv
<1>7. RunInv'
  <2>1. run.seen \subseteq Op /\ RunInv
    BY DEF OperationsInv, Types, RunRow
  <2>2. \A k \in run.seen : Succeeded(k) /\ log[k].effect = "done"
    BY <1>3, <2>1 DEF RunInv
  <2>3. \A k \in run.seen : Succeeded(k)' /\ log'[k].effect = "done"
    BY <1>1, <2>1, <2>2 DEF Succeeded
  <2> QED BY <1>3, <2>1, <2>3 DEF RunInv
<1>8. run' \in RunRow
  BY DEF OperationsInv, Types
<1> QED BY <1>2, <1>4, <1>5, <1>6, <1>7, <1>8, Journals

LEMMA SendConsumeKeeps ==
  ASSUME Bounds, OperationsInv, NEW i \in Op, SendConsume(i)
  PROVE  OperationsInv'
<1>1. At("deciding", i) /\ UNCHANGED <<attempt, ledger, world, run, late, budget>>
  BY DEF SendConsume
<1>2. CASE log' = [log EXCEPT ![i].consume = "uncertain"] /\ Send("consume", i, 0) /\ Step("consuming")
  <2> DEFINE entry == [log[i] EXCEPT !.consume = "uncertain"]
  <2>1. log[i] \in Entry /\ Journaled(i)
    BY DEF OperationsInv, Types
  <2>2. /\ entry \in Entry /\ entry.effect = log[i].effect /\ entry.authority = log[i].authority
        /\ entry.receipt = log[i].receipt /\ entry.sent = log[i].sent
        /\ entry.resolution = log[i].resolution
    BY <2>1 DEF Entry, EntryState
  <2>3. log' = [log EXCEPT ![i] = entry]
    BY <1>2
  <2> HIDE DEF entry
  <2>4. task' \in TaskRow /\ task'.pc = "consuming" /\ task'.at = i
    BY <1>1, <1>2, TaskSteps DEF TaskPc, At
  <2>5. call' \in CallRow /\ call'.kind = "consume" /\ call'.i = i /\ call'.reply = "waiting"
    BY <1>2, Sends DEF Request
  <2>6. log'[i] = entry
    BY <2>3 DEF OperationsInv, Types
  <2>7. ~Effective(i) /\ log[i].receipt = 0
    BY <1>1 DEF OperationsInv, TaskInv, Here, At
  <2>8. Here(i)'
    BY <1>1, <2>2, <2>4, <2>6, <2>7 DEF Here, Effective
  <2>9. /\ world[i].flying => entry.effect = "uncertain"
        /\ Effective(i) => entry.authority /\ entry.effect # "absent"
        /\ i \in Remote /\ world[i].times > 0 /\ entry.effect = "done" => Succeeded(i)
        /\ entry.sent = "done" => Succeeded(i)
    BY <2>1, <2>2 DEF Journaled
  <2> QED BY <1>1, <2>2, <2>3, <2>4, <2>5, <2>8, <2>9, SameBudget, TaskWrites DEF At, Sound
<1>3. CASE Step("ended") /\ UNCHANGED <<log, call>>
  BY <1>1, <1>3, SameBudget, TaskEnds
<1> QED BY <1>2, <1>3 DEF SendConsume

LEMMA ConsumedKeeps ==
  ASSUME Bounds, OperationsInv, NEW i \in Op, Consumed(i)
  PROVE  OperationsInv'
<1>1. /\ At("consuming", i) /\ call.kind = "consume" /\ call.reply = "ok" /\ call' = NoCall
      /\ log' = [log EXCEPT ![i].consume = "done", ![i].authority = task.valid] /\ Give("authorized")
      /\ UNCHANGED <<attempt, ledger, world, run, late, budget>>
  BY DEF Consumed, Answered
<1> DEFINE entry == [log[i] EXCEPT !.consume = "done", !.authority = task.valid]
<1>2. log[i] \in Entry /\ Journaled(i) /\ task.valid \in BOOLEAN
  BY DEF OperationsInv, Types, TaskRow
<1>3. /\ entry \in Entry /\ entry.effect = log[i].effect /\ entry.authority = task.valid
      /\ entry.receipt = log[i].receipt /\ entry.sent = log[i].sent
      /\ entry.resolution = log[i].resolution
  BY <1>2 DEF Entry, EntryState
<1>4. log' = [log EXCEPT ![i] = entry]
  BY <1>1, <1>2 DEF Entry
<1> HIDE DEF entry
<1>5. task' \in TaskRow /\ task'.at = i /\ task'.pc \in {"authorized", "ended"}
      /\ (task'.pc = "authorized" => task.valid)
  <2>1. task' \in TaskRow /\ task'.at = i
    BY <1>1, TaskSteps DEF TaskPc, At
  <2>2. task \in TaskRow /\ task' = [task EXCEPT !.pc = IF task.valid THEN "authorized" ELSE "ended"]
    BY <1>1 DEF OperationsInv, Types, Give
  <2> QED BY <2>1, <2>2 DEF TaskRow
<1>6. ~Effective(i) /\ log[i].receipt = 0 /\ Begun(i)
  BY <1>1 DEF OperationsInv, TaskInv, Here, At, CallInv
<1>7. log'[i] = entry
  BY <1>4 DEF OperationsInv, Types
<1>8. Here(i)'
  BY <1>1, <1>3, <1>5, <1>6, <1>7 DEF Here, Effective, Begun
<1>9. /\ world[i].flying => entry.effect = "uncertain"
      /\ Effective(i) => entry.authority /\ entry.effect # "absent"
      /\ i \in Remote /\ world[i].times > 0 /\ entry.effect = "done" => Succeeded(i)
      /\ entry.sent = "done" => Succeeded(i)
  BY <1>2, <1>3, <1>6 DEF Journaled
<1>10. call' \in CallRow /\ call'.kind = "none" /\ call'.reply = "none" /\ Sound(call)'
  BY <1>1, SameBudget DEF NoCall, Sound
<1> QED BY <1>1, <1>3, <1>4, <1>5, <1>8, <1>9, <1>10, SameBudget, TaskWrites DEF At

LEMMA BeginEffectKeeps ==
  ASSUME Bounds, OperationsInv, NEW i \in Op, BeginEffect(i)
  PROVE  OperationsInv'
<1>1. At("authorized", i) /\ UNCHANGED <<attempt, ledger, world, run, late, budget>>
  BY DEF BeginEffect
<1>2. CASE /\ log[i].effect = "absent" /\ log' = [log EXCEPT ![i].effect = "uncertain"]
           /\ Send("started", i, 0) /\ Step("announcing")
  <2> DEFINE entry == [log[i] EXCEPT !.effect = "uncertain"]
  <2>1. log[i] \in Entry /\ Journaled(i)
    BY DEF OperationsInv, Types
  <2>2. /\ entry \in Entry /\ entry.effect = "uncertain" /\ entry.authority = log[i].authority
        /\ entry.receipt = log[i].receipt /\ entry.sent = log[i].sent
        /\ entry.resolution = log[i].resolution
    BY <2>1 DEF Entry, EntryState
  <2>3. log' = [log EXCEPT ![i] = entry]
    BY <1>2
  <2> HIDE DEF entry
  <2>4. task' \in TaskRow /\ task'.pc = "announcing" /\ task'.at = i
    BY <1>1, <1>2, TaskSteps DEF TaskPc, At
  <2>5. call' \in CallRow /\ call'.kind = "started" /\ call'.i = i /\ call'.reply = "waiting"
    BY <1>2, Sends DEF Request
  <2>6. log'[i] = entry
    BY <2>3 DEF OperationsInv, Types
  <2>7. ~Effective(i) /\ log[i].receipt = 0 /\ log[i].authority /\ Begun(i)
    BY <1>1 DEF OperationsInv, TaskInv, Here, At
  <2>8. Here(i)'
    BY <1>1, <2>2, <2>4, <2>6, <2>7 DEF Here, Effective, Begun
  <2>9. /\ world[i].flying => entry.effect = "uncertain"
        /\ Effective(i) => entry.authority /\ entry.effect # "absent"
        /\ i \in Remote /\ world[i].times > 0 /\ entry.effect = "done" => Succeeded(i)
        /\ entry.sent = "done" => Succeeded(i)
    BY <2>1, <2>2, <2>7 DEF Journaled
  <2> QED BY <1>1, <1>2, <2>2, <2>3, <2>4, <2>5, <2>8, <2>9, SameBudget, TaskWrites DEF At, Sound
<1>3. CASE Step("ended") /\ UNCHANGED <<log, call>>
  BY <1>1, <1>3, SameBudget, TaskEnds
<1> QED BY <1>2, <1>3 DEF BeginEffect

LEMMA CancelledKeeps ==
  ASSUME Bounds, OperationsInv, NEW i \in Op, Cancelled(i)
  PROVE  OperationsInv'
<1>1. /\ At("cancelling", i) /\ call' = NoCall /\ log' = [log EXCEPT ![i].effect = "done"]
      /\ Step("ended") /\ UNCHANGED <<attempt, ledger, world, run, late, budget>>
  BY DEF Cancelled
<1> DEFINE entry == [log[i] EXCEPT !.effect = "done"]
<1>2. log[i] \in Entry /\ Journaled(i)
  BY DEF OperationsInv, Types
<1>3. /\ entry \in Entry /\ entry.effect = "done" /\ entry.authority = log[i].authority
      /\ entry.receipt = log[i].receipt /\ entry.sent = log[i].sent
      /\ entry.resolution = log[i].resolution
  BY <1>2 DEF Entry, EntryState
<1>4. log' = [log EXCEPT ![i] = entry]
  BY <1>1
<1> HIDE DEF entry
<1>5. task' \in TaskRow /\ task'.pc = "ended" /\ task'.at = i
  BY <1>1, TaskSteps DEF TaskPc, At
<1>6. ~Effective(i)
  BY <1>1 DEF OperationsInv, TaskInv, Here, At
<1>7. Here(i)'
  BY <1>5 DEF Here
<1>8. /\ world[i].flying => entry.effect = "uncertain"
      /\ Effective(i) => entry.authority /\ entry.effect # "absent"
      /\ i \in Remote /\ world[i].times > 0 /\ entry.effect = "done" => Succeeded(i)
      /\ entry.sent = "done" => Succeeded(i)
  BY <1>2, <1>3, <1>6 DEF Journaled, Effective
<1>9. call' \in CallRow /\ call'.kind = "none" /\ call'.reply = "none" /\ Sound(call)'
  BY <1>1, SameBudget DEF NoCall, Sound
<1> QED BY <1>1, <1>3, <1>4, <1>5, <1>7, <1>8, <1>9, SameBudget, TaskWrites DEF At

(* The entry, as a write to it leaves what it does not name.                *)
LEMMA Written ==
  ASSUME Bounds, OperationsInv, NEW i \in Op, NEW entry \in Entry, log' = [log EXCEPT ![i] = entry]
  PROVE  log'[i] = entry /\ log[i] \in Entry /\ Journaled(i) /\ Recorded(i)
BY DEF OperationsInv, Types

LEMMA SendReceiptKeeps ==
  ASSUME Bounds, OperationsInv, NEW i \in Op, SendReceipt(i)
  PROVE  OperationsInv'
<1>1. At("observed", i) /\ i \in Remote /\ UNCHANGED <<attempt, ledger, world, run, late>>
  BY DEF SendReceipt
<1>2. CASE /\ log' = [log EXCEPT ![i].receipt = NewReceipt, ![i].sent = "uncertain"]
           /\ budget' = [budget EXCEPT !.receipts = NewReceipt]
           /\ Send("receipt", i, NewReceipt) /\ Step("receipting")
  <2> DEFINE entry == [log[i] EXCEPT !.receipt = NewReceipt, !.sent = "uncertain"]
  <2>1. log[i] \in Entry /\ Journaled(i)
    BY DEF OperationsInv, Types
  <2>2. NewReceipt \in Nat /\ NewReceipt # 0 /\ budget' \in Budget
    BY <1>2, SameBudget DEF NewReceipt, Budget
  <2>3. /\ entry \in Entry /\ entry.effect = log[i].effect /\ entry.authority = log[i].authority
        /\ entry.receipt = NewReceipt /\ entry.sent = "uncertain"
        /\ entry.resolution = log[i].resolution
    BY <2>1, <2>2 DEF Entry, EntryState
  <2>4. log' = [log EXCEPT ![i] = entry]
    BY <1>2, <2>1 DEF Entry
  <2> HIDE DEF entry
  <2>5. task' \in TaskRow /\ task'.pc = "receipting" /\ task'.at = i
    BY <1>1, <1>2, TaskSteps DEF TaskPc, At
  <2>6. call' \in CallRow /\ call'.kind = "receipt" /\ call'.i = i /\ call'.r = NewReceipt
        /\ call'.reply = "waiting"
    BY <1>2, <2>2, Sends DEF Request
  <2>7. log'[i] = entry
    BY <2>3, <2>4, Written
  <2>8. log[i].receipt = 0 /\ log[i].authority /\ Begun(i) /\ log[i].effect = "uncertain"
        /\ world[i].times > 0
    BY <1>1 DEF OperationsInv, TaskInv, Here, At
  <2>9. Here(i)'
    BY <1>1, <2>3, <2>5, <2>7, <2>8 DEF Here, Effective, Begun
  <2>10. Sound(call)'
    BY <1>1, <2>2, <2>3, <2>6, <2>7, <2>8 DEF Sound
  <2>11. /\ world[i].flying => entry.effect = "uncertain"
         /\ Effective(i) => entry.authority /\ entry.effect # "absent"
         /\ i \in Remote /\ world[i].times > 0 /\ entry.effect = "done" => Succeeded(i)
         /\ entry.sent = "done" => Succeeded(i)
    BY <2>3, <2>8
  <2> QED BY <1>1, <2>2, <2>3, <2>4, <2>5, <2>6, <2>8, <2>9, <2>10, <2>11, TaskWrites DEF At
<1>3. CASE Step("ended") /\ UNCHANGED <<log, budget, call>>
  BY <1>1, <1>3, SameBudget, TaskEnds
<1> QED BY <1>2, <1>3 DEF SendReceipt

LEMMA SendFinishedKeeps ==
  ASSUME Bounds, OperationsInv, NEW i \in Op, SendFinished(i)
  PROVE  OperationsInv'
<1>1. At("observed", i) /\ i \notin Remote /\ UNCHANGED <<attempt, ledger, world, run, late, budget>>
  BY DEF SendFinished
<1>2. CASE log' = [log EXCEPT ![i].effect = "done"] /\ Send("finished", i, 0) /\ Step("finishing")
  <2> DEFINE entry == [log[i] EXCEPT !.effect = "done"]
  <2>1. log[i] \in Entry /\ Journaled(i)
    BY DEF OperationsInv, Types
  <2>2. /\ entry \in Entry /\ entry.effect = "done" /\ entry.authority = log[i].authority
        /\ entry.receipt = log[i].receipt /\ entry.sent = log[i].sent
        /\ entry.resolution = log[i].resolution
    BY <2>1 DEF Entry, EntryState
  <2>3. log' = [log EXCEPT ![i] = entry]
    BY <1>2
  <2> HIDE DEF entry
  <2>4. task' \in TaskRow /\ task'.pc = "finishing" /\ task'.at = i
    BY <1>1, <1>2, TaskSteps DEF TaskPc, At
  <2>5. call' \in CallRow /\ call'.kind = "finished" /\ call'.i = i /\ call'.reply = "waiting"
    BY <1>2, Sends DEF Request
  <2>6. log'[i] = entry
    BY <2>2, <2>3, Written
  <2>7. log[i].receipt = 0 /\ log[i].authority /\ world[i].times > 0
    BY <1>1 DEF OperationsInv, TaskInv, Here, At
  <2>8. Here(i)'
    BY <1>1, <2>2, <2>4, <2>6, <2>7 DEF Here
  <2>9. Sound(call)'
    BY <1>1, <2>5 DEF Sound
  <2>10. /\ world[i].flying => entry.effect = "uncertain"
         /\ Effective(i) => entry.authority /\ entry.effect # "absent"
         /\ i \in Remote /\ world[i].times > 0 /\ entry.effect = "done" => Succeeded(i)
         /\ entry.sent = "done" => Succeeded(i)
    BY <1>1, <2>1, <2>2, <2>7 DEF Journaled
  <2> QED BY <1>1, <2>2, <2>3, <2>4, <2>5, <2>8, <2>9, <2>10, SameBudget, TaskWrites DEF At
<1>3. CASE Step("ended") /\ UNCHANGED <<log, call>>
  BY <1>1, <1>3, SameBudget, TaskEnds
<1> QED BY <1>2, <1>3 DEF SendFinished

(* The operation is behind, and the task comes to the next one, or ends.    *)
LEMMA Advances ==
  ASSUME Bounds, OperationsInv, NEW i \in Op, task.at = i, task.pc # "ended", Advance(i),
         i \in Remote => Succeeded(i)
  PROVE  /\ task' \in TaskRow /\ task'.at = i + 1 /\ task'.pc \in {"idle", "ended"}
         /\ \A k \in Remote : k < i + 1 => Succeeded(k)
         /\ \A k \in Op : k >= i + 1 => ~Effective(k) /\ log[k].receipt = 0
<1>1. task \in TaskRow /\ i + 1 \in 1..(Len(Steps) + 1)
  BY Operations DEF OperationsInv, Types
<1>2. task' = [task EXCEPT !.pc = IF task.valid THEN Next_(i) ELSE "ended", !.at = i + 1]
  BY DEF Advance
<1>3. task' \in TaskRow /\ task'.at = i + 1 /\ task'.pc \in {"idle", "ended"}
  BY <1>1, <1>2 DEF TaskRow, TaskPc, Next_
<1>4. \A k \in Remote : k < i + 1 => Succeeded(k)
  BY Operations DEF OperationsInv, TaskInv, Behind
<1>5. \A k \in Op : k >= i + 1 => ~Effective(k) /\ log[k].receipt = 0
  BY Operations DEF OperationsInv, TaskInv, Ahead
<1> QED BY <1>3, <1>4, <1>5

LEMMA FinishedKeeps ==
  ASSUME Bounds, OperationsInv, NEW i \in Op, Finished(i)
  PROVE  OperationsInv'
<1>1. /\ At("finishing", i) /\ call' = NoCall /\ Advance(i)
      /\ UNCHANGED <<attempt, ledger, log, world, run, late, budget>>
  BY DEF Finished
<1>2. i \notin Remote
  BY <1>1 DEF OperationsInv, TaskInv, Here, At
<1>3. /\ task' \in TaskRow /\ task'.at = i + 1 /\ task'.pc \in {"idle", "ended"}
      /\ \A k \in Remote : k < i + 1 => Succeeded(k)
      /\ \A k \in Op : k >= i + 1 => ~Effective(k) /\ log[k].receipt = 0
  BY <1>1, <1>2, Advances DEF At
<1>4. \A k \in Op : ~Withdrawn(k)
  BY <1>1 DEF Withdrawn, At
<1>5. late' \subseteq [kind: Request, i: Op, r: Nat] /\ LateInv'
  BY <1>1, <1>4, LateMoves
<1>6. Types'
  BY <1>1, <1>3, <1>5, SameBudget DEF OperationsInv, Types
<1>7. ASSUME NEW k \in Op PROVE Recorded(k)' /\ Journaled(k)'
  <2>1. Recorded(k) /\ Journaled(k)
    BY DEF OperationsInv
  <2>2. Recorded(k)'
    BY <1>1, <1>4, <2>1 DEF Recorded, Begun, Succeeded
  <2>3. Journaled(k)'
    BY <1>1, <2>1 DEF Journaled, Begun, Succeeded, Effective
  <2> QED BY <2>2, <2>3
<1>8. TaskInv'
  <2>1. Behind'
    BY <1>1, <1>3 DEF Behind, Succeeded
  <2>2. Ahead'
    <3>1. \A k \in Op : log[k].resolution = 0
      BY <1>1 DEF OperationsInv, TaskInv, Ahead, At
    <3> QED BY <1>1, <1>3, <3>1, Operations DEF Ahead, Effective
  <2>3. i + 1 \in Op => ~Effective(i + 1)' /\ log'[i + 1].receipt = 0
    BY <1>1, <1>3, Operations DEF Effective
  <2>4. task'.at \in Op => Here(i + 1)'
    BY <1>3, <2>3 DEF Here
  <2> QED BY <1>3, <2>1, <2>2, <2>4 DEF TaskInv
<1>9. CallInv'
  BY <1>1 DEF CallInv, Sound, NoCall
<1>10. RunInv'
  BY <1>1, SameRun, <1>3 DEF OperationsInv, RunInv, At, First, Succeeded
<1> QED BY <1>5, <1>6, <1>7, <1>8, <1>9, <1>10 DEF OperationsInv

LEMMA ReceiptedKeeps ==
  ASSUME Bounds, OperationsInv, NEW i \in Op, Receipted(i)
  PROVE  OperationsInv'
<1>1. /\ At("receipting", i) /\ call.kind = "receipt" /\ call.reply = "ok" /\ call' = NoCall /\ Advance(i)
      /\ log' = [log EXCEPT ![i].sent = "done", ![i].effect = IF task.valid THEN "done" ELSE @]
      /\ UNCHANGED <<attempt, ledger, world, run, late, budget>>
  BY DEF Receipted, Answered
<1>2. Succeeded(i) /\ i \in Remote /\ world[i].times > 0 /\ log[i].authority /\ log[i].effect = "uncertain"
  BY <1>1 DEF OperationsInv, CallInv, TaskInv, Here, At
<1> DEFINE effect == IF task.valid THEN "done" ELSE "uncertain"
           entry == [log[i] EXCEPT !.sent = "done", !.effect = effect]
<1>3. log[i] \in Entry /\ Journaled(i)
  BY DEF OperationsInv, Types
<1>4. /\ entry \in Entry /\ entry.effect = effect /\ entry.authority = log[i].authority
      /\ entry.receipt = log[i].receipt /\ entry.sent = "done" /\ entry.resolution = log[i].resolution
  BY <1>3 DEF Entry, EntryState
<1>5. log' = [log EXCEPT ![i] = entry]
  BY <1>1, <1>2, <1>3 DEF Entry
<1> HIDE DEF entry
<1>6. /\ task' \in TaskRow /\ task'.at = i + 1 /\ task'.pc \in {"idle", "ended"}
      /\ \A k \in Remote : k < i + 1 => Succeeded(k)
      /\ \A k \in Op : k >= i + 1 => ~Effective(k) /\ log[k].receipt = 0
  BY <1>1, <1>2, Advances DEF At
<1>7. \A k \in Op : ~Withdrawn(k)
  BY <1>1 DEF Withdrawn, At
<1>8. log' \in [Op -> Entry] /\ \A k \in Op : log'[k] = IF k = i THEN entry ELSE log[k]
  BY <1>4, <1>5 DEF OperationsInv, Types
<1>9. \A k \in Op : log[k].resolution = 0
  BY <1>1 DEF OperationsInv, TaskInv, Ahead, At
<1>10. TaskInv'
  <2>1. Behind'
    BY <1>1, <1>6 DEF Behind, Succeeded
  <2>2. Ahead'
    BY <1>1, <1>4, <1>6, <1>8, <1>9, Operations DEF Ahead, Effective
  <2>3. i + 1 \in Op => ~Effective(i + 1)' /\ log'[i + 1].receipt = 0
    BY <1>1, <1>6, <1>8, Operations DEF Effective
  <2>4. task'.at \in Op => Here(i + 1)'
    BY <1>6, <2>3 DEF Here
  <2> QED BY <1>6, <2>1, <2>2, <2>4 DEF TaskInv
<1>11. CallInv'
  BY <1>1 DEF CallInv, Sound, NoCall
<1>12. RunInv'
  <2>1. run.pc = "polling" /\ run.todo = {} /\ run.seen \subseteq Op
        /\ \A k \in run.seen : /\ k \in Remote /\ world[k].times > 0
                               /\ Succeeded(k) /\ log[k].effect = "done"
    BY <1>1 DEF OperationsInv, Types, RunRow, RunInv, At
  <2>2. \A k \in run.seen : k # i
    BY <1>2, <2>1
  <2> QED BY <1>1, <1>8, <2>1, <2>2 DEF RunInv, First, Succeeded
<1>13. /\ world[i].flying => entry.effect = "uncertain"
       /\ Effective(i) => entry.authority /\ entry.effect # "absent"
       /\ i \in Remote /\ world[i].times > 0 /\ entry.effect = "done" => Succeeded(i)
       /\ entry.sent = "done" => Succeeded(i)
       /\ entry.receipt # 0 /\ entry.resolution # 0 => entry.receipt = entry.resolution
  BY <1>2, <1>3, <1>4, <1>9 DEF Journaled
<1>14. run' \in RunRow /\ call' \in CallRow /\ budget' \in Budget
  BY <1>1, SameBudget DEF OperationsInv, Types
<1> QED BY <1>1, <1>4, <1>5, <1>6, <1>7, <1>10, <1>11, <1>12, <1>13, <1>14, Journals

(* The run command writes, the task is over.                                *)
LEMMA RunWrites ==
  ASSUME Bounds, OperationsInv, UNCHANGED <<attempt, ledger, world, task, late>>, run.pc # "polling",
         NEW i \in Op, NEW entry \in Entry, log' = [log EXCEPT ![i] = entry],
         log[i].receipt # 0 => entry.receipt = log[i].receipt,
         /\ world[i].flying => entry.effect = "uncertain"
         /\ Effective(i) => entry.authority /\ entry.effect # "absent"
         /\ i \in Remote /\ world[i].times > 0 /\ entry.effect = "done" => Succeeded(i)
         /\ entry.sent = "done" => Succeeded(i)
         /\ entry.receipt # 0 /\ entry.resolution # 0 => entry.receipt = entry.resolution,
         run' \in RunRow, call' \in CallRow, budget' \in Budget, CallInv', RunInv'
  PROVE  OperationsInv'
<1>1. task.pc = "ended" /\ task \in TaskRow
  BY DEF OperationsInv, Types, RunInv
<1>2. TaskInv'
  BY <1>1 DEF OperationsInv, TaskInv, Behind, Ahead, Here, Succeeded
<1>3. \A k \in Op : Withdrawn(k) => Withdrawn(k)'
  BY DEF Withdrawn, Effective, At
<1> QED BY <1>1, <1>2, <1>3, Journals

(* What recovery saw, while it goes through the list.                       *)
Closed(k, todo) == k \in todo \/ (Succeeded(k) /\ log[k].effect = "done")

LEMMA Seen ==
  ASSUME OperationsInv, NEW k \in run.seen
  PROVE  k \in Op /\ k \in Remote /\ world[k].times > 0 /\ Closed(k, run.todo)
BY DEF OperationsInv, Types, RunRow, RunInv, Closed

LEMMA ResolveKeeps ==
  ASSUME Bounds, OperationsInv, NEW i \in Op, Resolve(i)
  PROVE  OperationsInv'
<1> DEFINE r == Observed(i)
           entry == [log[i] EXCEPT !.resolution = r]
<1>1. /\ run.pc = "recovering" /\ First(i) /\ call.kind = "none" /\ i \in Remote /\ world[i].times > 0
      /\ log[i].effect = "uncertain"
      /\ log' = [log EXCEPT ![i].resolution = r]
      /\ budget' = [budget EXCEPT !.receipts = IF r = NewReceipt THEN r ELSE @]
      /\ run' = [run EXCEPT !.pc = "resolved"]
      /\ UNCHANGED <<attempt, ledger, world, task, call, late>>
  BY DEF Resolve, Recoverable, Recovering
<1>2. log[i] \in Entry /\ Journaled(i) /\ run \in RunRow
  BY DEF OperationsInv, Types
<1>3. r \in Nat /\ r # 0 /\ (log[i].receipt # 0 => r = log[i].receipt)
  BY <1>2, SameBudget DEF Observed, NewReceipt, Budget, Entry
<1>4. budget' \in Budget
  BY <1>1, <1>3, SameBudget DEF Budget
<1> HIDE DEF r
<1>5. /\ entry \in Entry /\ entry.effect = "uncertain" /\ entry.authority = log[i].authority
      /\ entry.receipt = log[i].receipt /\ entry.sent = log[i].sent /\ entry.resolution = r
  BY <1>1, <1>2, <1>3 DEF Entry
<1>6. log' = [log EXCEPT ![i] = entry]
  BY <1>1
<1> HIDE DEF entry
<1>7. log' \in [Op -> Entry] /\ \A k \in Op : log'[k] = IF k = i THEN entry ELSE log[k]
  BY <1>5, <1>6 DEF OperationsInv, Types
<1>8. run' \in RunRow /\ run'.pc = "resolved" /\ run'.todo = run.todo /\ run'.seen = run.seen
  BY <1>1, <1>2 DEF RunRow
<1>9. task.pc = "ended" /\ i \in run.todo
  BY <1>1 DEF OperationsInv, RunInv, First
<1>10. RunInv'
  <2>1. ASSUME NEW k \in Op, First(k)' PROVE k = i
    BY <1>1, <1>8, <2>1, Operations DEF First, OperationsInv, Types, RunRow
  <2>2. ASSUME NEW k \in Op, First(k)'
        PROVE  k \in Remote /\ world'[k].times > 0 /\ log'[k].resolution # 0
    BY <1>1, <1>3, <1>5, <1>7, <2>1, <2>2
  <2>3. ASSUME NEW k \in run.seen
        PROVE  /\ k \in Remote /\ world'[k].times > 0
               /\ k \in run.todo \/ (Succeeded(k)' /\ log'[k].effect = "done")
    BY <1>1, <1>7, <1>9, Seen DEF Closed, Succeeded
  <2> QED BY <1>1, <1>8, <1>9, <2>2, <2>3 DEF RunInv
<1>11. CallInv' /\ call' \in CallRow
  BY <1>1 DEF OperationsInv, Types, CallInv, Sound
<1>12. /\ world[i].flying => entry.effect = "uncertain"
       /\ Effective(i) => entry.authority /\ entry.effect # "absent"
       /\ i \in Remote /\ world[i].times > 0 /\ entry.effect = "done" => Succeeded(i)
       /\ entry.sent = "done" => Succeeded(i)
       /\ entry.receipt # 0 /\ entry.resolution # 0 => entry.receipt = entry.resolution
  BY <1>2, <1>3, <1>5 DEF Journaled
<1> QED BY <1>1, <1>4, <1>5, <1>6, <1>8, <1>10, <1>11, <1>12, RunWrites

LEMMA ResubmitKeeps ==
  ASSUME Bounds, OperationsInv, NEW i \in Op, Resubmit(i)
  PROVE  OperationsInv'
<1> DEFINE sent == IF log[i].sent = "done" THEN "done" ELSE "uncertain"
           effect == IF log[i].sent = "done" THEN "done" ELSE log[i].effect
           entry == [log[i] EXCEPT !.receipt = log[i].resolution, !.sent = sent, !.effect = effect]
<1>1. /\ run.pc = "resolved" /\ First(i) /\ call.kind = "none"
      /\ log' = [log EXCEPT ![i].receipt = log[i].resolution,
                            ![i].sent = IF @ = "done" THEN @ ELSE "uncertain",
                            ![i].effect = IF log[i].sent = "done" THEN "done" ELSE @]
      /\ UNCHANGED <<attempt, ledger, world, task, late, budget>>
  BY DEF Resubmit
<1>2. /\ i \in Remote /\ world[i].times > 0 /\ log[i].resolution # 0
      /\ log[i] \in Entry /\ Journaled(i) /\ run \in RunRow
      /\ log[i].receipt # 0 => log[i].receipt = log[i].resolution
  BY <1>1 DEF OperationsInv, Types, RunInv, Journaled
<1>3. /\ entry \in Entry /\ entry.effect = effect /\ entry.authority = log[i].authority
      /\ entry.receipt = log[i].resolution /\ entry.sent = sent
      /\ entry.resolution = log[i].resolution
  BY <1>2 DEF Entry, EntryState
<1>4. log' = [log EXCEPT ![i] = entry]
  BY <1>1, <1>2 DEF Entry
<1> HIDE DEF entry
<1>5. log' \in [Op -> Entry] /\ \A k \in Op : log'[k] = IF k = i THEN entry ELSE log[k]
  BY <1>3, <1>4 DEF OperationsInv, Types
<1>6. ~world[i].flying /\ log[i].authority /\ log[i].effect # "absent"
      /\ (log[i].sent = "done" => Succeeded(i)) /\ (log[i].effect = "done" => Succeeded(i))
  BY <1>2 DEF Journaled, Effective
<1>7. /\ world[i].flying => entry.effect = "uncertain"
      /\ Effective(i) => entry.authority /\ entry.effect # "absent"
      /\ i \in Remote /\ world[i].times > 0 /\ entry.effect = "done" => Succeeded(i)
      /\ entry.sent = "done" => Succeeded(i)
      /\ entry.receipt # 0 /\ entry.resolution # 0 => entry.receipt = entry.resolution
  BY <1>3, <1>6
<1>8. task.pc = "ended" /\ i \in run.todo
  BY <1>1 DEF OperationsInv, RunInv, First
<1>b. /\ run.pc # "polling" /\ UNCHANGED <<attempt, ledger, world, task, late>> /\ budget' \in Budget
      /\ entry \in Entry /\ (log[i].receipt # 0 => entry.receipt = log[i].receipt)
  BY <1>1, <1>2, <1>3, SameBudget
<1>9. CASE log[i].sent = "done"
  <2>1. Skip(i) /\ UNCHANGED call
    BY <1>9 DEF Resubmit
  <2>2. run' \in RunRow /\ run'.pc = "recovering" /\ run'.todo = run.todo \ {i} /\ run'.seen = run.seen
    BY <2>1, Skips
  <2>3. CallInv' /\ call' \in CallRow
    BY <1>1, <2>1 DEF OperationsInv, Types, CallInv, Sound
  <2>4. Succeeded(i)' /\ log'[i].effect = "done"
    BY <1>1, <1>3, <1>5, <1>6, <1>9 DEF Succeeded
  <2>5. ASSUME NEW k \in run.seen
        PROVE  /\ k \in Remote /\ world'[k].times > 0
               /\ k \in run.todo \ {i} \/ (Succeeded(k)' /\ log'[k].effect = "done")
    BY <1>1, <1>5, <2>4, Seen DEF Closed, Succeeded
  <2>6. RunInv'
    BY <1>1, <1>8, <2>2, <2>5 DEF RunInv
  <2> QED BY <1>b, <1>4, <1>7, <2>2, <2>3, <2>6, RunWrites
<1>10. CASE log[i].sent # "done"
  <2>1. Send("receipt", i, log[i].resolution) /\ UNCHANGED run
    BY <1>10 DEF Resubmit
  <2>2. call' \in CallRow /\ call'.kind = "receipt" /\ call'.i = i /\ call'.r = log[i].resolution
        /\ call'.reply = "waiting"
    BY <1>2, <2>1, Sends DEF Request, Entry
  <2>3. Sound(call)'
    BY <1>1, <1>2, <1>3, <1>5, <2>2 DEF Sound
  <2>4. CallInv'
    BY <1>1, <1>8, <2>1, <2>2, <2>3 DEF CallInv, First
  <2>5. ASSUME NEW k \in Op, First(k)'
        PROVE  k \in Remote /\ world'[k].times > 0 /\ log'[k].resolution # 0
    BY <1>1, <1>3, <1>5, <2>1, <2>5 DEF OperationsInv, RunInv, First
  <2>6. ASSUME NEW k \in run.seen
        PROVE  /\ k \in Remote /\ world'[k].times > 0
               /\ k \in run.todo \/ (Succeeded(k)' /\ log'[k].effect = "done")
    BY <1>1, <1>5, <1>8, Seen DEF Closed, Succeeded
  <2>7. RunInv' /\ run' \in RunRow
    BY <1>1, <1>2, <1>8, <2>1, <2>5, <2>6 DEF RunInv
  <2> QED BY <1>b, <1>4, <1>7, <2>2, <2>4, <2>7, RunWrites
<1> QED BY <1>9, <1>10

LEMMA RecoveredKeeps ==
  ASSUME Bounds, OperationsInv, NEW i \in Op, Recovered(i)
  PROVE  OperationsInv'
<1> DEFINE entry == [log[i] EXCEPT !.sent = "done", !.effect = "done"]
<1>1. /\ run.pc = "resolved" /\ First(i) /\ call.kind = "receipt" /\ call.reply = "ok" /\ call' = NoCall
      /\ log' = [log EXCEPT ![i].sent = "done", ![i].effect = "done"] /\ Skip(i)
      /\ UNCHANGED <<attempt, ledger, world, task, late, budget>>
  BY DEF Recovered, Answered
<1>2. i \in Remote /\ world[i].times > 0 /\ log[i] \in Entry /\ Journaled(i)
  BY <1>1 DEF OperationsInv, Types, RunInv
<1>3. Succeeded(i)
  <2>1. First(call.i) /\ call.i \in Op /\ Succeeded(call.i)
    BY <1>1 DEF OperationsInv, CallInv, Sound
  <2>2. call.i = i
    BY <1>1, <2>1, Operations DEF First
  <2> QED BY <2>1, <2>2
<1>4. /\ entry \in Entry /\ entry.effect = "done" /\ entry.authority = log[i].authority
      /\ entry.receipt = log[i].receipt /\ entry.sent = "done" /\ entry.resolution = log[i].resolution
  BY <1>2 DEF Entry, EntryState
<1>5. log' = [log EXCEPT ![i] = entry]
  BY <1>1, <1>2 DEF Entry
<1> HIDE DEF entry
<1>6. log' \in [Op -> Entry] /\ \A k \in Op : log'[k] = IF k = i THEN entry ELSE log[k]
  BY <1>4, <1>5 DEF OperationsInv, Types
<1>7. /\ world[i].flying => entry.effect = "uncertain"
      /\ Effective(i) => entry.authority /\ entry.effect # "absent"
      /\ i \in Remote /\ world[i].times > 0 /\ entry.effect = "done" => Succeeded(i)
      /\ entry.sent = "done" => Succeeded(i)
      /\ entry.receipt # 0 /\ entry.resolution # 0 => entry.receipt = entry.resolution
  BY <1>2, <1>3, <1>4 DEF Journaled, Effective
<1>8. run' \in RunRow /\ run'.pc = "recovering" /\ run'.todo = run.todo \ {i} /\ run'.seen = run.seen
  BY <1>1, Skips
<1>9. task.pc = "ended"
  BY <1>1 DEF OperationsInv, RunInv
<1>10. RunInv'
  <2>1. ASSUME NEW k \in run.seen
        PROVE  /\ k \in Remote /\ world'[k].times > 0
               /\ k \in run.todo \ {i} \/ (Succeeded(k)' /\ log'[k].effect = "done")
    BY <1>1, <1>3, <1>4, <1>6, Seen DEF Closed, Succeeded
  <2> QED BY <1>1, <1>8, <1>9, <2>1 DEF RunInv
<1>11. CallInv' /\ call' \in CallRow
  BY <1>1, SameBudget DEF CallInv, Sound, NoCall
<1> QED BY <1>1, <1>4, <1>5, <1>7, <1>8, <1>10, <1>11, SameBudget, RunWrites

-----------------------------------------------------------------------------
(* Every step *)

LEMMA TaskStepKeeps ==
  ASSUME Bounds, OperationsInv, TaskStep
  PROVE  OperationsInv'
BY SendProposalKeeps, AnswersKeep, SendConsumeKeeps, ConsumedKeeps, BeginEffectKeeps, DispatchKeeps,
   NoEffectKeeps, CancelledKeeps, EffectAnsweredKeeps, SendReceiptKeeps, ReceiptedKeeps, SendFinishedKeeps,
   FinishedKeeps DEF TaskStep

LEMMA RunStepKeeps ==
  ASSUME Bounds, OperationsInv, RunStep
  PROVE  OperationsInv'
BY StartKeeps, PollKeeps, RecoverNothingKeeps, RunFailsKeep, ResolveKeeps, ResubmitKeeps, RecoveredKeeps
   DEF RunStep

LEMMA StutterKeeps ==
  ASSUME Bounds, OperationsInv, UNCHANGED vars
  PROVE  OperationsInv'
<1>1. UNCHANGED <<attempt, ledger, log, world, task, run, call, late, budget>>
  BY DEF vars
<1>2. task' \in TaskRow
  BY <1>1 DEF OperationsInv, Types
<1> QED BY <1>1, <1>2, SameBudget, SameRun, GivesUp

LEMMA NextKeeps ==
  ASSUME Bounds, OperationsInv, [Next]_vars
  PROVE  OperationsInv'
<1>1. CASE Receive \/ \E m \in late : LateArrival(m)
  BY <1>1, ReceiveKeeps, LateArrivalKeeps
<1>2. CASE RequestStop \/ AttemptStopped \/ \E i \in Op : Approve(i) \/ Reject(i)
  BY <1>2, OwnerKeeps
<1>3. CASE TaskStep \/ TaskFailed \/ Retire \/ InputArrives \/ \E i \in Op : EffectUnanswered(i)
  BY <1>3, TaskStepKeeps, TaskStopsKeep, SessionKeeps
<1>4. CASE RunStep \/ RecoveryFailed \/ Crash
  BY <1>4, RunStepKeeps, RunFailsKeep, CrashKeeps
<1>5. CASE \E i \in Op : EffectLands(i) \/ EffectLost(i)
  BY <1>5, EffectKeeps
<1>6. CASE UNCHANGED vars
  BY <1>6, StutterKeeps
<1> QED BY <1>1, <1>2, <1>3, <1>4, <1>5, <1>6 DEF Next

LEMMA OperationsAlways ==
  ASSUME Bounds
  PROVE  Spec => []OperationsInv
<1>1. Init => OperationsInv
  BY OperationsInit
<1>2. OperationsInv /\ [Next]_vars => OperationsInv'
  BY NextKeeps
<1> QED BY <1>1, <1>2, PTL DEF Spec

(* The remote, the journal and the ledger never contradict each other, and  *)
(* no effect begins without a permission the server gave, whatever is lost, *)
(* late or cut off by a crash (submit, recover, reconcile_operation,        *)
(* beginEffect).                                                            *)
THEOREM RecordsAgreeAlways ==
  ASSUME Bounds
  PROVE  Spec => [](EffectWasPermitted /\ RecordsAgree)
<1>1. OperationsInv => EffectWasPermitted /\ RecordsAgree
  BY InvPermitted
<1> QED BY <1>1, OperationsAlways, PTL

(* In a task that proposes its push first, as publish does, a pull request  *)
(* is opened only for a push the server has the receipt of (publish).       *)
THEOREM EffectsComeInOrder ==
  ASSUME Bounds, PushFirst
  PROVE  Spec => []EffectsInOrder
<1>1. OperationsInv => EffectsInOrder
  BY InvPermitted, InvOrdered DEF EffectsInOrder
<1> QED BY <1>1, OperationsAlways, PTL

-----------------------------------------------------------------------------
(* The number of receipts: one for an operation at most.                    *)

Evidenced == {i \in Remote : log[i].receipt # 0 \/ log[i].resolution # 0}

ReceiptInv ==
  /\ budget.receipts = Cardinality(Evidenced)
  /\ \A i \in Op : log[i].receipt <= budget.receipts /\ log[i].resolution <= budget.receipts

LEMMA RemoteFinite ==
  ASSUME Bounds
  PROVE  IsFiniteSet(Remote) /\ Cardinality(Remote) \in Nat
         /\ \A S \in SUBSET Remote : IsFiniteSet(S) /\ Cardinality(S) \in 0..Cardinality(Remote)
<1>1. IsFiniteSet(Op)
  BY Operations, FS_Interval DEF Op
<1>2. IsFiniteSet(Remote)
  BY <1>1, Operations, FS_Subset
<1>3. Cardinality(Remote) \in Nat
  BY <1>2, FS_CardinalityType
<1>4. ASSUME NEW S \in SUBSET Remote PROVE IsFiniteSet(S) /\ Cardinality(S) \in 0..Cardinality(Remote)
  <2>1. IsFiniteSet(S) /\ Cardinality(S) <= Cardinality(Remote)
    BY <1>2, FS_Subset
  <2>2. Cardinality(S) \in Nat
    BY <2>1, FS_CardinalityType
  <2> QED BY <1>3, <2>1, <2>2
<1> QED BY <1>2, <1>3, <1>4

LEMMA ReceiptTypes ==
  ASSUME Bounds, OperationsInv, ReceiptInv
  PROVE  TypeOK
<1>1. Evidenced \in SUBSET Remote
  BY DEF Evidenced
<1>2. budget.receipts \in Receipt /\ Cardinality(Remote) \in Nat
  BY <1>1, RemoteFinite DEF Receipt, ReceiptInv
<1>3. \A r \in Nat : r <= budget.receipts => r \in Receipt
  BY <1>2 DEF Receipt
<1>4. ASSUME NEW i \in Op
      PROVE  log[i].receipt \in Receipt /\ log[i].resolution \in Receipt /\ ledger[i].receipt \in Receipt
  <2>1. log[i] \in Entry /\ ledger[i] \in Row /\ Recorded(i)
    BY DEF OperationsInv, Types
  <2>2. log[i].receipt \in Receipt /\ log[i].resolution \in Receipt
    BY <1>3, <2>1 DEF ReceiptInv, Entry
  <2>3. 0 \in Receipt
    BY <1>2 DEF Receipt
  <2> QED BY <2>1, <2>2, <2>3 DEF Recorded
<1>5. ledger \in [Op -> [status: Status, approval: Approval, receipt: Receipt]]
  <2>1. ASSUME NEW i \in Op PROVE ledger[i] \in [status: Status, approval: Approval, receipt: Receipt]
    <3>1. ledger[i] \in Row
      BY DEF OperationsInv, Types
    <3> QED BY <1>4, <3>1 DEF Row
  <2> QED BY <2>1 DEF OperationsInv, Types
<1>6. log \in [Op -> [consume: EntryState, authority: BOOLEAN, effect: EntryState, receipt: Receipt,
                      sent: EntryState, resolution: Receipt]]
  <2>1. ASSUME NEW i \in Op
        PROVE  log[i] \in [consume: EntryState, authority: BOOLEAN, effect: EntryState, receipt: Receipt,
                           sent: EntryState, resolution: Receipt]
    <3>1. log[i] \in Entry
      BY DEF OperationsInv, Types
    <3> QED BY <1>4, <3>1 DEF Entry
  <2> QED BY <2>1 DEF OperationsInv, Types
<1>7. /\ attempt \in {"live", "stopping", "stopped"} /\ world \in [Op -> Fate]
      /\ task.at \in 1..(Len(Steps) + 1) /\ run.pc \in {"down", "recovering", "resolved", "polling"}
  BY DEF OperationsInv, Types, TaskRow, RunRow
<1> QED BY <1>2, <1>5, <1>6, <1>7 DEF TypeOK, Status, Approval, EntryState, Fate

LEMMA ReceiptInit ==
  ASSUME Bounds, Init
  PROVE  ReceiptInv
<1>1. Evidenced = {}
  BY Operations DEF Init, Evidenced
<1>2. budget.receipts = 0 /\ \A i \in Op : log[i].receipt = 0 /\ log[i].resolution = 0
  BY DEF Init
<1> QED BY <1>1, <1>2, FS_EmptySet DEF ReceiptInv

(* No receipt is made: the entries keep theirs, or retain the resolution.   *)
LEMMA NoReceipt ==
  ASSUME Bounds, OperationsInv, ReceiptInv, budget'.receipts = budget.receipts,
         \A i \in Op : /\ log'[i].resolution = log[i].resolution
                       /\ \/ log'[i].receipt = log[i].receipt
                          \/ log[i].resolution # 0 /\ log'[i].receipt = log[i].resolution
  PROVE  ReceiptInv'
<1>1. Evidenced' = Evidenced
  BY Operations DEF Evidenced
<1> QED BY <1>1 DEF ReceiptInv

(* A receipt is made for an operation that had none.                        *)
LEMMA OneReceipt ==
  ASSUME Bounds, OperationsInv, ReceiptInv, NEW i \in Remote,
         log[i].receipt = 0, log[i].resolution = 0,
         budget'.receipts = NewReceipt,
         NEW entry \in Entry, log' = [log EXCEPT ![i] = entry],
         \/ entry.receipt = NewReceipt /\ entry.resolution = 0
         \/ entry.receipt = 0 /\ entry.resolution = NewReceipt
  PROVE  ReceiptInv'
<1>a. log' \in [Op -> Entry] /\ \A k \in Op : log'[k] = IF k = i THEN entry ELSE log[k]
  BY DEF OperationsInv, Types
<1>1. budget.receipts \in Nat /\ NewReceipt = budget.receipts + 1
  BY DEF OperationsInv, Types, NewReceipt
<1>2. i \in Op /\ i \notin Evidenced /\ Evidenced \in SUBSET Remote
  BY Operations DEF Evidenced
<1>3. Evidenced' = Evidenced \cup {i}
  BY <1>1, <1>a, <1>2, Operations DEF Evidenced
<1>4. Cardinality(Evidenced') = Cardinality(Evidenced) + 1
  BY <1>2, <1>3, RemoteFinite, FS_AddElement
<1>5. ASSUME NEW k \in Op
      PROVE  log'[k].receipt <= budget'.receipts /\ log'[k].resolution <= budget'.receipts
  <2>1. log[k] \in Entry
    BY DEF OperationsInv, Types
  <2> QED BY <1>1, <1>a, <2>1 DEF ReceiptInv, Entry
<1> QED BY <1>1, <1>4, <1>5 DEF ReceiptInv

(* What the steps that make no receipt leave alone.                         *)
Retains == budget'.receipts = budget.receipts
           /\ \A i \in Op : log'[i].receipt = log[i].receipt /\ log'[i].resolution = log[i].resolution

LEMMA BudgetRetains ==
  ASSUME Bounds, OperationsInv
  PROVE  /\ Fault => budget'.receipts = budget.receipts
         /\ Failed => budget'.receipts = budget.receipts
         /\ Crash => budget'.receipts = budget.receipts
<1>1. budget \in Budget
  BY SameBudget
<1> QED BY <1>1 DEF Fault, Failed, Crash, Budget

LEMMA QuietRetains ==
  ASSUME Bounds, OperationsInv, [Next]_vars, ~TaskStep, ~RunStep
  PROVE  Retains
<1>1. UNCHANGED log
  BY DEF Next, vars, Receive, LateArrival, RequestStop, AttemptStopped, Approve, Reject, TaskFailed, Retire,
     InputArrives, EffectUnanswered, RecoveryFailed, Crash, EffectLands, EffectLost
<1>2. budget'.receipts = budget.receipts
  <2>1. CASE UNCHANGED budget
    BY <2>1
  <2>2. CASE budget' # budget
    BY <2>2, BudgetRetains DEF Next, vars, wireVars, Receive, LateArrival, RequestStop, AttemptStopped,
       Approve, Reject, TaskFailed, Retire, InputArrives, EffectUnanswered, RecoveryFailed, EffectLands,
       EffectLost
  <2> QED BY <2>1, <2>2
<1> QED BY <1>1, <1>2 DEF Retains

LEMMA TaskRetains ==
  ASSUME Bounds, OperationsInv, TaskStep, \A i \in Op : ~SendReceipt(i)
  PROVE  Retains
<1>1. PICK i \in Op :
        \/ SendProposal(i) \/ Proposed(i) \/ Announced(i) \/ Dispatch(i) \/ NoEffect(i)
        \/ EffectAnswered(i) \/ Finished(i)
        \/ SendConsume(i) \/ Consumed(i) \/ BeginEffect(i) \/ Cancelled(i) \/ Receipted(i) \/ SendFinished(i)
  BY DEF TaskStep
<1>2. log \in [Op -> Entry] /\ log[i] \in Entry
  BY DEF OperationsInv, Types
<1>3. CASE \/ SendProposal(i) \/ Proposed(i) \/ Announced(i) \/ Dispatch(i) \/ NoEffect(i)
           \/ EffectAnswered(i) \/ Finished(i)
  BY <1>3 DEF Retains, wireVars, SendProposal, Proposed, Announced, Dispatch, NoEffect, EffectAnswered,
     Finished
<1>4. CASE SendConsume(i) \/ Consumed(i)
  <2>1. UNCHANGED budget
    BY <1>4 DEF SendConsume, Consumed
  <2>2. CASE UNCHANGED log
    BY <2>1, <2>2 DEF Retains
  <2>3. CASE log' = [log EXCEPT ![i].consume = "uncertain"]
    BY <1>2, <2>1, <2>3 DEF Retains, Entry
  <2>4. CASE log' = [log EXCEPT ![i].consume = "done", ![i].authority = task.valid]
    BY <1>2, <2>1, <2>4 DEF Retains, Entry
  <2> QED BY <1>4, <2>2, <2>3, <2>4 DEF SendConsume, Consumed
<1>5. CASE BeginEffect(i) \/ Cancelled(i) \/ SendFinished(i)
  <2>1. UNCHANGED budget
    BY <1>5 DEF BeginEffect, Cancelled, SendFinished
  <2>2. CASE UNCHANGED log
    BY <2>1, <2>2 DEF Retains
  <2>3. ASSUME NEW v, log' = [log EXCEPT ![i].effect = v] PROVE Retains
    BY <1>2, <2>1, <2>3 DEF Retains, Entry
  <2> QED BY <1>5, <2>2, <2>3 DEF BeginEffect, Cancelled, SendFinished
<1>6. CASE Receipted(i)
  <2>1. UNCHANGED budget
        /\ log' = [log EXCEPT ![i].sent = "done", ![i].effect = IF task.valid THEN "done" ELSE @]
    BY <1>6 DEF Receipted
  <2> QED BY <1>2, <2>1 DEF Retains, Entry
<1> QED BY <1>1, <1>3, <1>4, <1>5, <1>6

LEMMA RunRetains ==
  ASSUME Bounds, OperationsInv, RunStep, \A i \in Op : ~Resolve(i) /\ ~Resubmit(i)
  PROVE  Retains
<1>1. CASE Start \/ Poll \/ \E i \in Op : RecoverNothing(i) \/ RecoverLocal(i) \/ ResolveConflict(i)
  BY <1>1 DEF Retains, wireVars, Start, Poll, RecoverNothing, RecoverLocal, ResolveConflict
<1>2. CASE \E i \in Op : Recovered(i)
  <2>1. PICK i \in Op : UNCHANGED budget /\ log' = [log EXCEPT ![i].sent = "done", ![i].effect = "done"]
    BY <1>2 DEF Recovered
  <2>2. log \in [Op -> Entry] /\ log[i] \in Entry
    BY DEF OperationsInv, Types
  <2> QED BY <2>1, <2>2 DEF Retains, Entry
<1> QED BY <1>1, <1>2 DEF RunStep

LEMMA SendReceiptCounted ==
  ASSUME Bounds, OperationsInv, ReceiptInv, NEW i \in Op, SendReceipt(i)
  PROVE  ReceiptInv'
<1>1. At("observed", i) /\ i \in Remote
  BY DEF SendReceipt
<1>2. CASE /\ log' = [log EXCEPT ![i].receipt = NewReceipt, ![i].sent = "uncertain"]
           /\ budget' = [budget EXCEPT !.receipts = NewReceipt]
  <2>1. log[i] \in Entry /\ log \in [Op -> Entry] /\ budget \in Budget /\ NewReceipt \in Nat
    BY SameBudget DEF OperationsInv, Types, NewReceipt, Budget
  <2>2. log[i].receipt = 0 /\ log[i].resolution = 0
    BY <1>1 DEF OperationsInv, TaskInv, Here, Ahead, At
  <2> DEFINE entry == [log[i] EXCEPT !.receipt = NewReceipt, !.sent = "uncertain"]
  <2>3. entry \in Entry /\ entry.receipt = NewReceipt /\ entry.resolution = log[i].resolution
    BY <2>1 DEF Entry, EntryState
  <2>4. log' = [log EXCEPT ![i] = entry]
    BY <1>2, <2>1 DEF Entry
  <2>5. budget'.receipts = NewReceipt
    BY <1>2, <2>1 DEF Budget
  <2> HIDE DEF entry
  <2> QED BY <1>1, <2>2, <2>3, <2>4, <2>5, OneReceipt
<1>3. CASE UNCHANGED <<log, budget>>
  BY <1>3, NoReceipt
<1> QED BY <1>2, <1>3 DEF SendReceipt

LEMMA ResolveCounted ==
  ASSUME Bounds, OperationsInv, ReceiptInv, NEW i \in Op, Resolve(i)
  PROVE  ReceiptInv'
<1>1. /\ i \in Remote /\ log[i].resolution \in {0, Observed(i)}
      /\ log' = [log EXCEPT ![i].resolution = Observed(i)]
      /\ budget' = [budget EXCEPT !.receipts = IF Observed(i) = NewReceipt THEN Observed(i) ELSE @]
  BY DEF Resolve, Recoverable
<1>2. log[i] \in Entry /\ log \in [Op -> Entry] /\ budget \in Budget /\ NewReceipt = budget.receipts + 1
  BY SameBudget DEF OperationsInv, Types, NewReceipt
<1>3. log[i].receipt <= budget.receipts /\ log[i].resolution <= budget.receipts
      /\ log[i].receipt \in Nat /\ log[i].resolution \in Nat /\ budget.receipts \in Nat
  BY <1>2 DEF ReceiptInv, Entry, Budget
<1> DEFINE entry == [log[i] EXCEPT !.resolution = Observed(i)]
<1>4. entry \in Entry /\ entry.receipt = log[i].receipt /\ entry.resolution = Observed(i)
  BY <1>2, <1>3 DEF Entry, Observed
<1>5. log' = [log EXCEPT ![i] = entry]
  BY <1>1
<1>6. budget'.receipts = IF Observed(i) = NewReceipt THEN NewReceipt ELSE budget.receipts
  BY <1>1, <1>2 DEF Budget
<1> HIDE DEF entry
<1>7. log' \in [Op -> Entry] /\ log'[i] = entry /\ \A k \in Op : k # i => log'[k] = log[k]
  BY <1>2, <1>4, <1>5
<1>8. CASE log[i].receipt = 0
  <2>1. log[i].resolution = 0 /\ Observed(i) = NewReceipt
    BY <1>1, <1>2, <1>3, <1>8 DEF Observed
  <2> QED BY <1>1, <1>4, <1>5, <1>6, <1>8, <2>1, OneReceipt
<1>9. CASE log[i].receipt # 0
  <2>1. Observed(i) = log[i].receipt /\ Observed(i) # NewReceipt /\ Observed(i) # 0
    BY <1>2, <1>3, <1>9 DEF Observed
  <2>2. budget'.receipts = budget.receipts
    BY <1>6, <2>1
  <2>3. Evidenced' = Evidenced
    BY <1>1, <1>4, <1>7, <1>9, <2>1, Operations DEF Evidenced
  <2>4. ASSUME NEW k \in Op
        PROVE  log'[k].receipt <= budget.receipts /\ log'[k].resolution <= budget.receipts
    BY <1>3, <1>4, <1>7, <2>1 DEF ReceiptInv
  <2> QED BY <2>2, <2>3, <2>4 DEF ReceiptInv
<1> QED BY <1>8, <1>9

LEMMA ResubmitCounted ==
  ASSUME Bounds, OperationsInv, ReceiptInv, NEW i \in Op, Resubmit(i)
  PROVE  ReceiptInv'
<1> DEFINE sent == IF log[i].sent = "done" THEN "done" ELSE "uncertain"
           effect == IF log[i].sent = "done" THEN "done" ELSE log[i].effect
           entry == [log[i] EXCEPT !.receipt = log[i].resolution, !.sent = sent, !.effect = effect]
<1>1. log[i] \in Entry /\ log \in [Op -> Entry] /\ log[i].resolution # 0 /\ UNCHANGED budget
  BY DEF OperationsInv, Types, RunInv, Resubmit
<1>2. log' = [log EXCEPT ![i] = entry]
  BY <1>1 DEF Resubmit, Entry
<1>3. entry.receipt = log[i].resolution /\ entry.resolution = log[i].resolution
  BY <1>1 DEF Entry
<1> HIDE DEF entry
<1>4. \A k \in Op : log'[k] = IF k = i THEN entry ELSE log[k]
  BY <1>1, <1>2
<1> QED BY <1>1, <1>3, <1>4, NoReceipt

LEMMA ReceiptsCounted ==
  ASSUME Bounds, OperationsInv, ReceiptInv, [Next]_vars
  PROVE  ReceiptInv'
<1>1. CASE Retains
  BY <1>1, NoReceipt DEF Retains
<1>2. CASE \E i \in Op : SendReceipt(i) \/ Resolve(i) \/ Resubmit(i)
  BY <1>2, SendReceiptCounted, ResolveCounted, ResubmitCounted
<1> QED BY <1>1, <1>2, QuietRetains, TaskRetains, RunRetains

(* The records keep their shapes, and an operation has one receipt at most, *)
(* however often its recovery begins again (reconciledReceipt).             *)
THEOREM OperationTypes ==
  ASSUME Bounds
  PROVE  Spec => []TypeOK
<1>1. Init => ReceiptInv
  BY ReceiptInit
<1>2. OperationsInv /\ ReceiptInv /\ [Next]_vars => ReceiptInv'
  BY ReceiptsCounted
<1>3. OperationsInv /\ ReceiptInv => TypeOK
  BY ReceiptTypes
<1> QED BY <1>1, <1>2, <1>3, OperationsAlways, PTL DEF Spec
=============================================================================
