---------------------------- MODULE RunnerChannel ----------------------------
(***************************************************************************)
(* The channel between a running attempt and its task: events go out once  *)
(* and in order, inputs come in once and in order.                         *)
(*                                                                         *)
(* Modelled are the serial queue of a session (serial, enqueue,            *)
(* replayEvents, refreshVersion), the input deliveries (collectInputs,     *)
(* deliverInput, finishInput), the InputQueue of the runtime, the server's *)
(* add_input, deliver_inputs, record_event and reconcile_input, and what a *)
(* stop or a crash makes of an input that is on its way.                   *)
(***************************************************************************)
EXTENDS Naturals, Sequences, FiniteSets, SequencesExt

CONSTANTS MaxInputs,    \* inputs a user adds
          MaxEvents,    \* tool events the task reports, over all attempts
          MaxAttempts,  \* attempts of the job
          MaxFaults     \* lost requests, stops and crashes

Bounds == {MaxInputs, MaxEvents, MaxFaults} \subseteq Nat /\ MaxAttempts \in Nat \ {0}

Input == 1..MaxInputs
Attempt == 1..MaxAttempts

VARIABLES job,      \* version and inputs of the AgentJob
          attempt,  \* the latest attempt at the server, with the events it recorded
          events,   \* journal: the event entries of the attempt
          taken,    \* journal: the runtime-input entries, by attempt
          turns,    \* how often an input was put to the model
          session,  \* the Coordinator's session
          lane,     \* the work at the head of the session's queue
          task,     \* the runtime task and its InputQueue
          late,     \* abandoned event requests
          faults

vars == <<job, attempt, events, taken, turns, session, lane, task, late, faults>>

Fault == faults < MaxFaults /\ faults' = faults + 1
Now == attempt.number
Live == attempt.state = "live"

(***************************************************************************)
(* The server.                                                             *)
(***************************************************************************)
Count(state) == {i \in Input : job.inputs[i] = state}

(* Every input raises the version of the job.                              *)
AddInput ==
  /\ Live
  /\ \E i \in Count("none") :
       /\ \A k \in Count("none") : i <= k
       /\ job' = [job EXCEPT !.version = @ + 1, !.inputs[i] = "pending"]
  /\ UNCHANGED <<attempt, events, taken, turns, session, lane, task, late, faults>>

Recorded(e) == Contains(attempt.seen, e.what)
Settled(i) == \A k \in Input : k < i => job.inputs[k] = "applied"

(* record_event: a new event needs the current version and its turn, and an *)
(* acknowledgement needs the input to be the next.                          *)
Recordable(e) ==
  /\ Live /\ e.version = job.version /\ e.n = Len(attempt.seen) + 1
  /\ e.what \in Input => job.inputs[e.what] = "delivered" /\ Settled(e.what)

Accepts(e) == e.attempt = Now /\ (Recorded(e) \/ Recordable(e))

Append_(e) ==
  /\ attempt' = [attempt EXCEPT !.seen = Append(@, e.what)]
  /\ job' = IF e.what \in Input THEN [job EXCEPT !.inputs[e.what] = "applied"] ELSE job

\* Mutant: neither the identity nor the sequence of an event is compared.
RecordAgain(e) ==
  IF e.attempt = Now /\ Live THEN Append_(e) ELSE UNCHANGED <<attempt, job>>

Record(e) ==
  IF e.attempt = Now /\ ~Recorded(e) /\ Recordable(e)
    THEN Append_(e) ELSE UNCHANGED <<attempt, job>>

LateArrival(e) ==
  /\ Record(e)
  /\ late' = late \ {e}
  /\ UNCHANGED <<events, taken, turns, session, lane, task, faults>>

(***************************************************************************)
(* The queue of the session: what is at its head first replays the pending *)
(* event, then refreshes the version, then does its own work.              *)
(***************************************************************************)
Idle == [pc |-> "idle", work |-> "none", reply |-> 0]
Work == {"event", "ack", "collect"}
Undone == {n \in DOMAIN events : events[n].state # "done"}

TakesUp ==
  /\ session.valid /\ lane.pc = "idle"
  /\ \E w \in Work :
       /\ \/ w = "event" /\ task.pc = "reporting"
          \/ w = "ack" /\ task.pc = "acknowledging"
          \/ w = "collect"
       /\ lane' = [pc |-> "replay", work |-> w, reply |-> 0]
  /\ UNCHANGED <<job, attempt, events, taken, turns, session, task, late, faults>>

Send(n) == lane' = [lane EXCEPT !.pc = "sent", !.reply = n]

Replay ==
  /\ session.valid /\ lane.pc = "replay"
  /\ IF Undone = {} THEN lane' = [lane EXCEPT !.pc = "refresh"]
                    ELSE \E n \in Undone : (\A k \in Undone : n <= k) /\ Send(n)
  /\ UNCHANGED <<job, attempt, events, taken, turns, session, task, late, faults>>

(* The caller of the work that failed: the task ends, and a poll that fails *)
(* stops the session.                                                       *)
Fail ==
  /\ lane' = Idle
  /\ IF lane.work = "collect" THEN session' = [session EXCEPT !.stop = TRUE] /\ UNCHANGED task
                              ELSE task' = [task EXCEPT !.pc = "failed"] /\ UNCHANGED session

Refresh ==
  /\ session.valid /\ lane.pc = "refresh"
  /\ IF Live THEN /\ session' = [session EXCEPT !.version = job.version]
                  /\ lane' = [lane EXCEPT !.pc = "work"]
                  /\ UNCHANGED task
             ELSE Fail
  /\ UNCHANGED <<job, attempt, events, taken, turns, late, faults>>

(* A lost response is replayed as it was, its version included.             *)
Report ==
  /\ session.valid /\ lane.pc = "work" /\ lane.work \in {"event", "ack"}
  /\ LET what == IF lane.work = "ack" THEN task.input ELSE MaxInputs + task.events
     IN events' = Append(events, [what |-> what, attempt |-> Now, n |-> Len(events) + 1,
                                  version |-> session.version, state |-> "uncertain"])
  /\ Send(Len(events) + 1)
  /\ UNCHANGED <<job, attempt, taken, turns, session, task, late, faults>>

Entry == [events[lane.reply] EXCEPT !.state = "uncertain"]

Arrive ==
  /\ lane.pc = "sent"
  /\ Record(Entry)
  /\ lane' = [lane EXCEPT !.pc = IF Accepts(Entry) THEN "ok" ELSE "refused"]
  /\ UNCHANGED <<events, taken, turns, session, task, late, faults>>

(* The work goes on from the replay, or is done when its own event is.      *)
Acknowledged ==
  /\ session.valid /\ lane.pc = "ok"
  /\ events' = [events EXCEPT ![lane.reply].state = "done"]
  /\ LET what == events[lane.reply].what
         own == \/ lane.work = "event" /\ what = MaxInputs + task.events
                \/ lane.work = "ack" /\ what = task.input
     IN IF own
          THEN /\ lane' = Idle
               /\ task' = IF lane.work = "event"
                            THEN [task EXCEPT !.pc = "between"]
                            ELSE [task EXCEPT !.pc = "between",
                                              !.pending = @ \ {task.input}]
          ELSE lane' = [lane EXCEPT !.pc = "replay"] /\ UNCHANGED task
  /\ UNCHANGED <<job, attempt, taken, turns, session, late, faults>>

Refused ==
  /\ session.valid /\ lane.pc = "refused"
  /\ Fail
  /\ UNCHANGED <<job, attempt, events, taken, turns, late, faults>>

LostRequest ==
  /\ session.valid /\ lane.pc \in {"sent", "ok"}
  /\ Fault
  /\ Fail
  /\ late' \in {late, IF lane.pc = "sent" THEN late \cup {Entry} ELSE late}
  /\ UNCHANGED <<job, attempt, events, taken, turns>>

(***************************************************************************)
(* Inputs.  The entry of an input is uncertain before the runtime has it.   *)
(***************************************************************************)
Wanted == Count("pending") \cup Count("delivered")

(* deliver_inputs answers with all that wait; each is delivered unless a    *)
(* delivery of it is under way.  The task was ended, or the entry is of an  *)
(* earlier delivery: the session is stopped.                                *)
Collect ==
  /\ session.valid /\ lane.pc = "work" /\ lane.work = "collect"
  /\ LET new == Wanted \ task.pending
     IN IF ~Live \/ (\E i \in new : taken[Now][i] # "absent") \/ task.pc = "failed"
          THEN Fail /\ UNCHANGED <<job, taken>>
          ELSE /\ job' = [job EXCEPT !.inputs = [i \in Input |->
                            IF i \in Wanted THEN "delivered" ELSE @[i]]]
               /\ taken' = [taken EXCEPT ![Now] = [i \in Input |->
                            IF i \in new THEN "prepared" ELSE @[i]]]
               /\ task' = [task EXCEPT !.pending = @ \cup new]
               /\ lane' = Idle
               /\ UNCHANGED session
  /\ UNCHANGED <<attempt, events, turns, late, faults>>

(***************************************************************************)
(* The task: between two turns it takes the next input, or reports an       *)
(* event of its own.                                                        *)
(***************************************************************************)
Event ==
  /\ session.valid /\ task.pc = "between" /\ task.pending = {} /\ task.events < MaxEvents
  /\ task' = [task EXCEPT !.pc = "reporting", !.events = @ + 1]
  /\ UNCHANGED <<job, attempt, events, taken, turns, session, lane, late, faults>>

Turn(i) ==
  /\ session.valid /\ task.pc = "between" /\ i \in task.pending
  /\ taken' = [taken EXCEPT ![Now][i] = "uncertain"]
  /\ turns' = [turns EXCEPT ![i] = @ + 1]
  /\ task' = [task EXCEPT !.pc = "turning", !.input = i]
  /\ UNCHANGED <<job, attempt, events, session, lane, late, faults>>

\* Mutant: the inputs are taken as they come.
NextInputAny == \E i \in task.pending : Turn(i)

NextInput == \E i \in task.pending : (\A k \in task.pending : i <= k) /\ Turn(i)

\* Mutant: the acknowledgement is not preceded by the runtime's own record.
AnsweredUnrecorded ==
  /\ task.pc = "turning"
  /\ task' = [task EXCEPT !.pc = IF session.valid THEN "acknowledging" ELSE "failed"]
  /\ UNCHANGED <<job, attempt, events, taken, turns, session, lane, late, faults>>

(* The answer is in the journal before the input is acknowledged.           *)
Answered ==
  /\ task.pc = "turning"
  /\ taken' = [taken EXCEPT ![Now][task.input] = "applied"]
  /\ task' = [task EXCEPT !.pc = IF session.valid THEN "acknowledging" ELSE "failed"]
  /\ UNCHANGED <<job, attempt, events, turns, session, lane, late, faults>>

TurnFails ==
  /\ task.pc = "turning"
  /\ Fault
  /\ task' = [task EXCEPT !.pc = "failed"]
  /\ UNCHANGED <<job, attempt, events, taken, turns, session, lane, late>>

(***************************************************************************)
(* The end of a session.                                                   *)
(***************************************************************************)
\* Mutant: an input that was being put to the model counts as not applied.
ReleaseAll ==
  taken' = [taken EXCEPT ![Now] = [i \in Input |->
             IF @[i] \in {"prepared", "uncertain"} THEN "not_applied" ELSE @[i]]]

(* The abort of the InputQueue: only an input no turn was made of is known  *)
(* not to be applied.                                                       *)
Release ==
  taken' = [taken EXCEPT ![Now] = [i \in Input |->
             IF @[i] = "prepared" THEN "not_applied" ELSE @[i]]]

Retire ==
  /\ session.valid
  /\ \/ (session.stop \/ task.pc = "failed") /\ UNCHANGED faults
     \/ Fault
  /\ Release
  /\ session' = [session EXCEPT !.valid = FALSE]
  /\ lane' = Idle
  /\ UNCHANGED <<job, attempt, events, turns, task, late>>

Crash ==
  /\ session.valid \/ task.pc = "turning"
  /\ Fault
  /\ session' = [session EXCEPT !.valid = FALSE]
  /\ lane' = Idle
  /\ task' = [task EXCEPT !.pc = "failed"]
  /\ UNCHANGED <<job, attempt, events, taken, turns, late>>

(* attempt.stopped: the containers are gone, and what was delivered to the  *)
(* attempt and not acknowledged is uncertain.                               *)
Stopped ==
  /\ ~session.valid /\ Live
  /\ task' = [task EXCEPT !.pc = "failed"]
  /\ attempt' = [attempt EXCEPT !.state = "stopped"]
  /\ job' = [job EXCEPT !.version = @ + 1,
                        !.inputs = [i \in Input |->
                          IF @[i] = "delivered" THEN "delivery_uncertain" ELSE @[i]]]
  /\ UNCHANGED <<events, taken, turns, session, lane, late, faults>>

(* The trusted host reads the runtime's receipt; an input that was never    *)
(* dispatched has none, and the owner may say so (reconcile_input).         *)
Reconcile(i) ==
  /\ ~Live /\ job.inputs[i] = "delivery_uncertain"
  /\ \/ /\ taken[Now][i] = "applied" /\ Settled(i)
        /\ job' = [job EXCEPT !.inputs[i] = "applied"]
        /\ UNCHANGED taken
     \/ /\ taken[Now][i] \in {"absent", "prepared", "not_applied"}
        /\ job' = [job EXCEPT !.inputs[i] = "pending"]
        /\ taken' = [taken EXCEPT ![Now][i] = "not_applied"]
  /\ UNCHANGED <<attempt, events, turns, session, lane, task, late, faults>>

NewSession == session' = [valid |-> TRUE, stop |-> FALSE, version |-> job.version]

(* resume_job refuses a task with an uncertain input.                       *)
Resume ==
  /\ ~Live /\ Now < MaxAttempts
  /\ Count("delivery_uncertain") = {}
  /\ attempt' = [number |-> Now + 1, state |-> "live", seen |-> <<>>]
  /\ events' = <<>>
  /\ NewSession
  /\ task' = [task EXCEPT !.pc = "between", !.pending = {}, !.input = 0]
  /\ UNCHANGED <<job, taken, turns, lane, late, faults>>

Init ==
  /\ job = [version |-> 1, inputs |-> [i \in Input |-> "none"]]
  /\ attempt = [number |-> 1, state |-> "live", seen |-> <<>>]
  /\ events = <<>>
  /\ taken = [a \in Attempt |-> [i \in Input |-> "absent"]]
  /\ turns = [i \in Input |-> 0]
  /\ session = [valid |-> TRUE, stop |-> FALSE, version |-> 1]
  /\ lane = Idle
  /\ task = [pc |-> "between", pending |-> {}, input |-> 0, events |-> 0]
  /\ late = {}
  /\ faults = 0

LaneStep == TakesUp \/ Replay \/ Refresh \/ Report \/ Arrive \/ Acknowledged \/ Refused \/ Collect
TaskStep == Event \/ NextInput \/ Answered

Next ==
  \/ AddInput \/ \E e \in late : LateArrival(e)
  \/ LaneStep \/ LostRequest
  \/ TaskStep \/ TurnFails
  \/ Retire \/ Crash \/ Stopped \/ Resume
  \/ \E i \in Input : Reconcile(i)

Spec == Init /\ [][Next]_vars

(***************************************************************************)
(* Properties.                                                             *)
(***************************************************************************)
Event_ == 1..(MaxInputs + MaxEvents)

(* The variables keep their shapes.                                         *)
TypeOK ==
  /\ job.version \in Nat
  /\ job.inputs \in [Input -> {"none", "pending", "delivered", "delivery_uncertain", "applied"}]
  /\ attempt.number \in Attempt /\ attempt.state \in {"live", "stopped"}
  /\ attempt.seen \in Seq(Event_)
  /\ \A n \in DOMAIN events : events[n].state \in {"uncertain", "done"} /\ events[n].n = n
  /\ taken \in [Attempt -> [Input ->
                 {"absent", "prepared", "uncertain", "applied", "not_applied"}]]
  /\ turns \in [Input -> 0..1]
  /\ lane.pc \in {"idle", "replay", "refresh", "work", "sent", "ok", "refused"}
  /\ task.pc \in {"between", "reporting", "turning", "acknowledging", "failed"}
  /\ task.pending \subseteq Input /\ task.events \in 0..MaxEvents

(* Inputs come to the model one after the other, each of them once, over    *)
(* every attempt, stop and crash: an uncertain input is never delivered     *)
(* again (deliverInput, InputQueue.next, reconcile_input).                  *)
TurnsOnceInOrder ==
  \A i \in Input : turns[i] <= 1 /\ (turns[i] = 1 => \A k \in Input : k < i => turns[k] = 1)

(* An input counts as applied only when its turn was answered, and the      *)
(* journal of the attempt says so (Answered before finishInput).            *)
AppliedWasAnswered ==
  \A i \in Input : job.inputs[i] = "applied" => \E a \in Attempt : taken[a][i] = "applied"

(* An input the server holds pending was not put to the model, and may be.  *)
PendingWasNotTaken == \A i \in Input : job.inputs[i] = "pending" => turns[i] = 0

(* The server records the events of the attempt once each, in the order of  *)
(* the journal, whatever is lost or comes late (record_event, replayEvents).*)
RecordedAsReported ==
  Len(attempt.seen) <= Len(events)
    /\ \A n \in DOMAIN attempt.seen : attempt.seen[n] = events[n].what

(* Inputs and events of a task each take place once and in order, and both  *)
(* sides know of it (deliverInput, enqueue, record_event).                  *)
ExchangedOnce ==
  TurnsOnceInOrder /\ AppliedWasAnswered /\ PendingWasNotTaken /\ RecordedAsReported

(* "Input accepted before this boundary invalidates the result and keeps    *)
(* execution active": without a fault no task fails.                        *)
InputKeepsExecution == faults = 0 => session.valid /\ ~session.stop /\ task.pc # "failed"
=============================================================================
