------------------------- MODULE RunnerChannelProofs -------------------------
(***************************************************************************)
(* Inputs and events are exchanged once each and in order, for every       *)
(* number of inputs, events, attempts and faults.  Bounds, which says that *)
(* these numbers are natural, is the only assumption.                      *)
(*                                                                         *)
(* The inductive invariant connects what the server says of an input, what *)
(* the journal of the attempt says of it, and what the task has in hand.   *)
(***************************************************************************)
EXTENDS RunnerChannel, SequenceTheorems, TLAPS

InputState == {"none", "pending", "delivered", "delivery_uncertain", "applied"}
EntryState == {"absent", "prepared", "uncertain", "applied", "not_applied"}
TaskPc == {"between", "reporting", "turning", "acknowledging", "failed"}
LanePc == {"idle", "replay", "refresh", "work", "sent", "ok", "refused"}

EventRow == [what: Event_, attempt: Attempt, n: Nat, version: Nat, state: {"uncertain", "done"}]

JobTypes == job \in [version: Nat, inputs: [Input -> InputState]]
AttemptTypes == attempt \in [number: Attempt, state: {"live", "stopped"}, seen: Seq(Event_)]
JournalTypes == /\ events \in Seq(EventRow) /\ late \subseteq EventRow
                /\ taken \in [Attempt -> [Input -> EntryState]]
                /\ turns \in [Input -> 0..1]
RunTypes == /\ session \in [valid: BOOLEAN, stop: BOOLEAN, version: Nat]
            /\ lane \in [pc: LanePc, work: {"none"} \cup Work, reply: Nat]
            /\ task \in [pc: TaskPc, pending: SUBSET Input, input: {0} \cup Input,
                         events: 0..MaxEvents]

Types == JobTypes /\ AttemptTypes /\ JournalTypes /\ RunTypes

-----------------------------------------------------------------------------
(* The invariant *)

(* Who can hold what: a session is over before its attempt is.              *)
SessionInv ==
  /\ Live => \A i \in Input : job.inputs[i] # "delivery_uncertain"
  /\ ~Live => ~session.valid /\ task.pc = "failed" /\ \A i \in Input : job.inputs[i] # "delivered"
  /\ ~session.valid => lane = Idle

(* Inputs are added, delivered and put to the model in their order.         *)
InOrder ==
  \A k, i \in Input : k < i =>
    /\ job.inputs[i] # "none" => job.inputs[k] # "none"
    /\ job.inputs[i] = "delivered" => job.inputs[k] \in {"delivered", "applied"}
    /\ turns[i] = 1 => turns[k] = 1

(* The journal of attempt a has an input the model was given.               *)
Given(a, i) == taken[a][i] \in {"uncertain", "applied"}

(* What the server says of an input, and what the journals and the model    *)
(* know of it.                                                              *)
Known(i) ==
  /\ job.inputs[i] \in {"none", "pending"} => turns[i] = 0
  /\ job.inputs[i] \in {"delivered", "delivery_uncertain"} =>
       taken[Now][i] # "absent" /\ (turns[i] = 1 => Given(Now, i))
  /\ job.inputs[i] = "applied" => turns[i] = 1 /\ \E a \in Attempt : taken[a][i] = "applied"
  /\ \A a \in Attempt : Given(a, i) => turns[i] = 1
  /\ \A a \in Attempt : a > Now => taken[a][i] = "absent"

InputsInv == InOrder /\ \A i \in Input : Known(i)

(* What the task has in hand.                                               *)
TaskInv ==
  /\ task.pc \in {"turning", "acknowledging"} => task.input \in task.pending
  /\ task.pc = "turning" => taken[Now][task.input] = "uncertain"
  /\ task.pc = "acknowledging" => taken[Now][task.input] = "applied"
  /\ task.pc = "reporting" => task.events >= 1
  /\ session.valid /\ task.pc # "failed" => \A i \in task.pending :
       \/ taken[Now][i] = "prepared" /\ job.inputs[i] = "delivered"
       \/ task.pc \in {"turning", "acknowledging"} /\ i = task.input
  /\ session.valid => \A i \in Input : job.inputs[i] = "delivered" => i \in task.pending

(* What the head of the session's queue works for.                          *)
LaneInv ==
  /\ lane.work = "event" => task.pc = "reporting"
  /\ lane.work = "ack" => task.pc = "acknowledging"
  /\ lane.pc \in {"sent", "ok", "refused"} => lane.reply \in 1..Len(events)
  /\ lane.pc = "ok" => Contains(attempt.seen, events[lane.reply].what)

(* An acknowledgement was preceded by the runtime's own record of the       *)
(* answer; a request of this attempt is an entry of its journal.            *)
Rests(e) == e.what \in Input => taken[e.attempt][e.what] = "applied"
OnRecord(e) == e.attempt = Now => e.n \in 1..Len(events) /\ events[e.n].what = e.what
Backed(e) == e.attempt <= Now /\ Rests(e) /\ OnRecord(e)

EventsInv ==
  /\ \A n \in 1..Len(events) : events[n].n = n /\ events[n].attempt = Now /\ Rests(events[n])
  /\ \A e \in late : Backed(e)

SeenInv ==
  /\ Len(attempt.seen) <= Len(events)
  /\ \A n \in 1..Len(attempt.seen) :
       /\ attempt.seen[n] = events[n].what
       /\ attempt.seen[n] \in Input => job.inputs[attempt.seen[n]] = "applied"

ChannelInv ==
  Types /\ SessionInv /\ InputsInv /\ TaskInv /\ LaneInv /\ EventsInv /\ SeenInv

-----------------------------------------------------------------------------
(* What is used throughout *)

(* The parameters are numbers, and an event of the task is no input.        *)
LEMMA Parameters ==
  ASSUME Bounds
  PROVE  /\ MaxInputs \in Nat /\ MaxEvents \in Nat /\ MaxAttempts \in Nat /\ 1 \in Attempt
         /\ Input \subseteq Event_ /\ Input \subseteq Nat /\ Attempt \subseteq Nat /\ 0 \notin Input
         /\ \A n \in 1..MaxEvents : MaxInputs + n \in Event_ /\ MaxInputs + n \notin Input
BY DEF Bounds, Input, Attempt, Event_

(* The lists of the journal and of the server.                              *)
LEMMA Lists ==
  ASSUME Types
  PROVE  /\ Len(events) \in Nat /\ DOMAIN events = 1..Len(events)
         /\ \A n \in 1..Len(events) : events[n] \in EventRow
         /\ Len(attempt.seen) \in Nat /\ DOMAIN attempt.seen = 1..Len(attempt.seen)
         /\ \A n \in 1..Len(attempt.seen) : attempt.seen[n] \in Event_
<1>1. events \in Seq(EventRow) /\ attempt.seen \in Seq(Event_)
  BY DEF Types, JournalTypes, AttemptTypes
<1> QED BY <1>1, LenProperties, ElementOfSeq

(* The variables have the types of the module, and the properties hold.     *)
LEMMA InvTypes ==
  ASSUME Bounds, ChannelInv
  PROVE  TypeOK
<1>1. \A n \in DOMAIN events : events[n].state \in {"uncertain", "done"} /\ events[n].n = n
  BY Lists DEF ChannelInv, EventsInv, EventRow
<1> QED BY <1>1 DEF ChannelInv, Types, JobTypes, AttemptTypes, JournalTypes, RunTypes, TypeOK,
       InputState, EntryState, TaskPc, LanePc

LEMMA InvExchanged ==
  ASSUME Bounds, ChannelInv
  PROVE  ExchangedOnce
<1>1. TurnsOnceInOrder
  BY DEF ChannelInv, InputsInv, InOrder, TurnsOnceInOrder, Types, JournalTypes
<1>2. AppliedWasAnswered /\ PendingWasNotTaken
  BY DEF ChannelInv, InputsInv, Known, AppliedWasAnswered, PendingWasNotTaken
<1>3. RecordedAsReported
  BY Lists DEF ChannelInv, SeenInv, RecordedAsReported
<1> QED BY <1>1, <1>2, <1>3 DEF ExchangedOnce

LEMMA ChannelInit ==
  ASSUME Bounds, Init
  PROVE  ChannelInv
<1>1. Types
  BY Parameters, EmptySeq DEF Init, Types, JobTypes, AttemptTypes, JournalTypes, RunTypes, Idle,
     InputState, EntryState, TaskPc, LanePc, EventRow
<1>2. SessionInv
  BY DEF Init, SessionInv, Live
<1>3. InputsInv
  BY DEF Init, InputsInv, InOrder, Known, Given, Now
<1>4. TaskInv /\ LaneInv
  BY DEF Init, TaskInv, LaneInv, Idle
<1>5. EventsInv /\ SeenInv
  BY EmptySeq DEF Init, EventsInv, SeenInv
<1> QED BY <1>1, <1>2, <1>3, <1>4, <1>5 DEF ChannelInv

-----------------------------------------------------------------------------
(* Steps of the queue and of the task that leave the inputs alone *)

(* What only the queue and the task do.                                     *)
LEMMA RunOnly ==
  ASSUME ChannelInv, UNCHANGED <<job, attempt, events, taken, turns>>,
         \A e \in late' : e \in EventRow /\ Backed(e),
         RunTypes', SessionInv', TaskInv', LaneInv'
  PROVE  ChannelInv'
BY DEF ChannelInv, Types, JobTypes, AttemptTypes, JournalTypes, InputsInv, InOrder, Known, Given,
       EventsInv, Backed, Rests, OnRecord, SeenInv, Now

LEMMA LateKept ==
  ASSUME ChannelInv
  PROVE  \A e \in late : e \in EventRow /\ Backed(e)
BY DEF ChannelInv, Types, JournalTypes, EventsInv

(* Whoever's work failed, the session or the task is over.                  *)
LEMMA FailEnds ==
  ASSUME Bounds, ChannelInv, session.valid, Fail, UNCHANGED <<job, attempt, events, taken, turns>>
  PROVE  RunTypes' /\ SessionInv' /\ TaskInv' /\ LaneInv'
<1> USE DEF ChannelInv, Types
<1>1. RunTypes'
  BY DEF Fail, RunTypes, Idle, TaskPc, LanePc
<1>2. session'.valid = session.valid /\ lane' = Idle
  BY DEF Fail, RunTypes
<1>3. /\ task'.pc = task.pc \/ task'.pc = "failed"
      /\ task'.pending = task.pending /\ task'.input = task.input /\ task'.events = task.events
  BY DEF Fail, RunTypes
<1>4. LaneInv'
  BY <1>2 DEF LaneInv, Idle
<1>5. SessionInv'
  BY <1>2, <1>3 DEF SessionInv, Live
<1>6. TaskInv'
  BY <1>2, <1>3 DEF TaskInv, Now
<1> QED BY <1>1, <1>4, <1>5, <1>6

LEMMA QueueKeeps ==
  ASSUME Bounds, ChannelInv, TakesUp \/ Replay \/ Refresh \/ Refused
  PROVE  ChannelInv'
<1>a. UNCHANGED <<job, attempt, events, taken, turns, late>> /\ session.valid
  BY DEF TakesUp, Replay, Refresh, Refused
<1>b. Live
  BY <1>a DEF ChannelInv, SessionInv
<1> USE DEF ChannelInv, Types
<1>1. ASSUME lane' \in [pc: LanePc, work: {"none"} \cup Work, reply: Nat], UNCHANGED task,
             session' \in [valid: BOOLEAN, stop: BOOLEAN, version: Nat], session'.valid,
             LaneInv'
      PROVE  ChannelInv'
  <2>1. RunTypes' /\ SessionInv' /\ TaskInv'
    BY <1>a, <1>b, <1>1 DEF RunTypes, SessionInv, TaskInv, Live, Now
  <2> HIDE DEF ChannelInv, Types
  <2> QED BY <1>a, <1>1, <2>1, RunOnly, LateKept
<1>2. CASE TakesUp
  <2>1. PICK w \in Work :
          /\ \/ w = "event" /\ task.pc = "reporting"
             \/ w = "ack" /\ task.pc = "acknowledging"
             \/ w = "collect"
          /\ lane' = [pc |-> "replay", work |-> w, reply |-> 0]
          /\ UNCHANGED <<session, task>>
    BY <1>2 DEF TakesUp
  <2>2. LaneInv'
    BY <2>1 DEF LaneInv
  <2> QED BY <1>1, <1>a, <2>1, <2>2 DEF RunTypes, LanePc
<1>3. CASE Replay
  <2>1. UNCHANGED <<session, task>>
    BY <1>3 DEF Replay
  <2>2. CASE lane' = [lane EXCEPT !.pc = "refresh"]
    <3>1. LaneInv'
      BY <1>a, <2>1, <2>2 DEF LaneInv, RunTypes
    <3> QED BY <1>1, <1>a, <2>1, <2>2, <3>1 DEF RunTypes, LanePc
  <2>3. ASSUME NEW n \in Undone, lane' = [lane EXCEPT !.pc = "sent", !.reply = n] PROVE ChannelInv'
    <3>1. n \in 1..Len(events) /\ n \in Nat
      BY Lists DEF Undone
    <3>2. LaneInv'
      BY <1>a, <2>1, <2>3, <3>1 DEF LaneInv, RunTypes
    <3> QED BY <1>1, <1>a, <2>1, <2>3, <3>1, <3>2 DEF RunTypes, LanePc
  <2> QED BY <1>3, <2>2, <2>3 DEF Replay, Send
<1>4. CASE Refresh
  <2>1. /\ session' = [session EXCEPT !.version = job.version]
        /\ lane' = [lane EXCEPT !.pc = "work"] /\ UNCHANGED task
    BY <1>4, <1>b DEF Refresh
  <2>2. LaneInv'
    BY <1>a, <2>1 DEF LaneInv, RunTypes
  <2> QED BY <1>1, <1>a, <2>1, <2>2 DEF RunTypes, LanePc, JobTypes
<1>5. CASE Refused
  <2> HIDE DEF ChannelInv, Types
  <2>1. Fail
    BY <1>5 DEF Refused
  <2> QED BY <1>a, <2>1, FailEnds, RunOnly, LateKept
<1> QED BY <1>2, <1>3, <1>4, <1>5

LEMMA TaskKeeps ==
  ASSUME Bounds, ChannelInv, Event \/ TurnFails \/ Crash
  PROVE  ChannelInv'
<1>a. UNCHANGED <<job, attempt, events, taken, turns, late>>
  BY DEF Event, TurnFails, Crash
<1> SUFFICES RunTypes' /\ SessionInv' /\ TaskInv' /\ LaneInv'
  BY <1>a, RunOnly, LateKept
<1> USE DEF ChannelInv, Types
<1>1. CASE Event
  <2>1. /\ task' = [task EXCEPT !.pc = "reporting", !.events = @ + 1] /\ UNCHANGED <<session, lane>>
        /\ task.pc = "between" /\ task.pending = {} /\ task.events < MaxEvents /\ session.valid
    BY <1>1 DEF Event
  <2>2. /\ task'.pc = "reporting" /\ task'.pending = {} /\ task'.input = task.input
        /\ task'.events = task.events + 1
    BY <2>1 DEF RunTypes
  <2>3. RunTypes'
    <3>1. task.events + 1 \in 0..MaxEvents
      BY <2>1, Parameters DEF RunTypes
    <3> QED BY <2>1, <3>1 DEF RunTypes, TaskPc
  <2>4. TaskInv'
    BY <1>a, <2>1, <2>2 DEF TaskInv, RunTypes
  <2> QED BY <1>a, <2>1, <2>2, <2>3, <2>4 DEF SessionInv, LaneInv, Live
<1>2. CASE TurnFails \/ Crash
  <2>1. /\ task' = [task EXCEPT !.pc = "failed"]
        /\ \/ UNCHANGED <<session, lane>> /\ task.pc = "turning"
           \/ session' = [session EXCEPT !.valid = FALSE] /\ lane' = Idle
    BY <1>2 DEF TurnFails, Crash
  <2>2. /\ task'.pc = "failed" /\ task'.pending = task.pending /\ task'.input = task.input
        /\ session'.valid => session.valid
    BY <2>1 DEF RunTypes
  <2>3. RunTypes'
    <3>1. session' \in [valid: BOOLEAN, stop: BOOLEAN, version: Nat]
      BY <2>1 DEF RunTypes
    <3>2. lane' \in [pc: LanePc, work: {"none"} \cup Work, reply: Nat]
      BY <2>1 DEF RunTypes, Idle, LanePc
    <3>3. task' \in [pc: TaskPc, pending: SUBSET Input, input: {0} \cup Input, events: 0..MaxEvents]
      BY <2>1 DEF RunTypes, TaskPc
    <3> QED BY <3>1, <3>2, <3>3 DEF RunTypes
  <2>4. TaskInv'
    BY <1>a, <2>2 DEF TaskInv
  <2>5. LaneInv' /\ SessionInv'
    BY <1>a, <2>1, <2>2 DEF LaneInv, SessionInv, Live, Idle, RunTypes
  <2> QED BY <2>3, <2>4, <2>5
<1> QED BY <1>1, <1>2

(* What is on its way when a request is given up is backed by its entry.    *)
LEMMA LostKeeps ==
  ASSUME Bounds, ChannelInv, LostRequest
  PROVE  ChannelInv'
<1>1. /\ session.valid /\ Fail /\ UNCHANGED <<job, attempt, events, taken, turns>>
      /\ lane.pc \in {"sent", "ok"} /\ late' \in {late, late \cup {Entry}}
  BY DEF LostRequest
<1>2. lane.reply \in 1..Len(events)
  BY <1>1 DEF ChannelInv, LaneInv
<1>3. events[lane.reply] \in EventRow /\ events[lane.reply].n = lane.reply
      /\ events[lane.reply].attempt = Now /\ Rests(events[lane.reply])
  BY <1>2, Lists DEF ChannelInv, EventsInv
<1>4. /\ Entry \in EventRow /\ Entry.n = events[lane.reply].n
      /\ Entry.attempt = events[lane.reply].attempt /\ Entry.what = events[lane.reply].what
  BY <1>3 DEF Entry, EventRow
<1>5. Backed(Entry)
  <2>1. Now <= Now
    BY Parameters DEF ChannelInv, Types, AttemptTypes, Now
  <2> QED BY <1>2, <1>3, <1>4, <2>1 DEF Backed, Rests, OnRecord
<1> QED BY <1>1, <1>4, <1>5, FailEnds, RunOnly, LateKept

(* A new entry of the journal.                                              *)
LEMMA ReportKeeps ==
  ASSUME Bounds, ChannelInv, Report
  PROVE  ChannelInv'
<1> DEFINE what == IF lane.work = "ack" THEN task.input ELSE MaxInputs + task.events
           row == [what |-> what, attempt |-> Now, n |-> Len(events) + 1,
                   version |-> session.version, state |-> "uncertain"]
<1>a. /\ session.valid /\ lane.pc = "work" /\ lane.work \in {"event", "ack"}
      /\ events' = Append(events, row) /\ lane' = [lane EXCEPT !.pc = "sent", !.reply = Len(events) + 1]
      /\ UNCHANGED <<job, attempt, taken, turns, session, task, late>>
  BY DEF Report, Send
<1>b. Types /\ TaskInv /\ LaneInv /\ EventsInv /\ SeenInv /\ SessionInv
  BY DEF ChannelInv
<1>1. /\ what \in Event_
      /\ what \in Input => taken[Now][what] = "applied"
  <2>1. CASE lane.work = "ack"
    BY <1>b, <2>1, Parameters DEF LaneInv, TaskInv, Types, RunTypes
  <2>2. CASE lane.work = "event"
    <3>1. task.events \in 1..MaxEvents
      BY <1>b, <2>2 DEF LaneInv, TaskInv, Types, RunTypes
    <3> QED BY <2>2, <3>1, Parameters
  <2> QED BY <1>a, <2>1, <2>2
<1> HIDE DEF what
<1>2. row \in EventRow /\ row.what = what /\ row.attempt = Now /\ row.n = Len(events) + 1
  BY <1>1, <1>b, Lists DEF EventRow, Types, AttemptTypes, RunTypes, Now
<1> HIDE DEF row
<1>3. /\ events' \in Seq(EventRow) /\ Len(events') = Len(events) + 1
      /\ \A n \in 1..Len(events) : events'[n] = events[n]
      /\ events'[Len(events) + 1] = row /\ Len(events) \in Nat
  BY <1>a, <1>b, <1>2, Lists DEF Types, JournalTypes
<1>4. Types'
  <2>1. lane' \in [pc: LanePc, work: {"none"} \cup Work, reply: Nat]
    <3>1. Len(events) + 1 \in Nat /\ lane \in [pc: LanePc, work: {"none"} \cup Work, reply: Nat]
      BY <1>b, <1>3 DEF Types, RunTypes
    <3> QED BY <1>a, <3>1 DEF LanePc
  <2> QED BY <1>a, <1>b, <1>3, <2>1 DEF Types, JobTypes, AttemptTypes, JournalTypes, RunTypes
<1>5. SessionInv' /\ TaskInv'
  BY <1>a, <1>b DEF SessionInv, TaskInv, Live, Now
<1>6. InputsInv'
  BY <1>a DEF ChannelInv, InputsInv, InOrder, Known, Given, Now
<1>7. LaneInv'
  <2>1. lane'.pc = "sent" /\ lane'.reply = Len(events) + 1 /\ lane'.work = lane.work
    BY <1>a, <1>b DEF Types, RunTypes
  <2> QED BY <1>a, <1>b, <1>3, <2>1 DEF LaneInv
<1>8. EventsInv'
  <2>1. ASSUME NEW n \in 1..Len(events')
        PROVE  events'[n].n = n /\ events'[n].attempt = Now
               /\ (events'[n].what \in Input =>
                     taken[events'[n].attempt][events'[n].what] = "applied")
    <3>1. CASE n \in 1..Len(events)
      BY <1>a, <1>b, <1>3, <3>1 DEF EventsInv, Rests, Now
    <3>2. CASE n = Len(events) + 1
      BY <1>a, <1>1, <1>2, <1>3, <3>2 DEF Rests, Now
    <3> QED BY <1>3, <3>1, <3>2
  <2>2. \A e \in late' : Backed(e)'
    BY <1>a, <1>b, <1>3 DEF EventsInv, Backed, Rests, OnRecord, Now
  <2> QED BY <1>a, <2>1, <2>2 DEF EventsInv, Rests, Now
<1>9. SeenInv'
  BY <1>a, <1>b, <1>3, Lists DEF SeenInv
<1> QED BY <1>4, <1>5, <1>6, <1>7, <1>8, <1>9 DEF ChannelInv

(* The entry is done, and what it acknowledged is no longer in hand.        *)
LEMMA AcknowledgedKeeps ==
  ASSUME Bounds, ChannelInv, Acknowledged
  PROVE  ChannelInv'
<1> DEFINE r == lane.reply
           own == \/ lane.work = "event" /\ events[r].what = MaxInputs + task.events
                  \/ lane.work = "ack" /\ events[r].what = task.input
           row == [events[r] EXCEPT !.state = "done"]
<1>a. /\ session.valid /\ lane.pc = "ok" /\ events' = [events EXCEPT ![r] = row]
      /\ UNCHANGED <<job, attempt, taken, turns, session, late>>
      /\ IF own THEN /\ lane' = Idle
                     /\ task' = IF lane.work = "event" THEN [task EXCEPT !.pc = "between"]
                                ELSE [task EXCEPT !.pc = "between", !.pending = @ \ {task.input}]
         ELSE lane' = [lane EXCEPT !.pc = "replay"] /\ UNCHANGED task
  BY DEF Acknowledged
<1>b. Types /\ TaskInv /\ LaneInv /\ EventsInv /\ SeenInv /\ SessionInv
  BY DEF ChannelInv
<1>1. r \in 1..Len(events) /\ events[r] \in EventRow /\ Contains(attempt.seen, events[r].what)
  BY <1>a, <1>b, Lists DEF LaneInv
<1>2. row \in EventRow /\ row.what = events[r].what /\ row.n = events[r].n
      /\ row.attempt = events[r].attempt
  BY <1>1 DEF EventRow
<1> HIDE DEF row
<1>3. /\ events' \in Seq(EventRow) /\ Len(events') = Len(events)
      /\ \A n \in 1..Len(events) : /\ events'[n].what = events[n].what /\ events'[n].n = events[n].n
                                   /\ events'[n].attempt = events[n].attempt
  <2>1. events \in Seq(EventRow)
    BY <1>b DEF Types, JournalTypes
  <2>2. /\ events' \in Seq(EventRow) /\ Len(events') = Len(events)
        /\ \A n \in 1..Len(events) : events'[n] = IF n = r THEN row ELSE events[n]
    BY <1>a, <1>1, <1>2, <2>1, ExceptSeq
  <2> QED BY <1>2, <2>2
<1>4. EventsInv' /\ SeenInv' /\ InputsInv'
  <2>1. EventsInv'
    BY <1>a, <1>b, <1>3 DEF EventsInv, Backed, Rests, OnRecord, Now
  <2>2. SeenInv'
    BY <1>a, <1>b, <1>3, Lists DEF SeenInv
  <2>3. InputsInv'
    BY <1>a DEF ChannelInv, InputsInv, InOrder, Known, Given, Now
  <2> QED BY <2>1, <2>2, <2>3
<1>c. JobTypes' /\ AttemptTypes' /\ JournalTypes'
  BY <1>a, <1>b, <1>3 DEF Types, JobTypes, AttemptTypes, JournalTypes
<1>5. CASE ~own
  <2>1. lane' = [lane EXCEPT !.pc = "replay"] /\ UNCHANGED task
    BY <1>a, <1>5
  <2>2. RunTypes'
    BY <1>a, <1>b, <2>1 DEF Types, RunTypes, LanePc
  <2>3. SessionInv' /\ TaskInv'
    BY <1>a, <1>b, <2>1 DEF SessionInv, TaskInv, Live, Now
  <2>4. LaneInv'
    BY <1>a, <1>b, <2>1 DEF LaneInv, Types, RunTypes
  <2> QED BY <1>4, <1>c, <2>2, <2>3, <2>4 DEF ChannelInv, Types
<1>6. CASE own
  <2>1. /\ lane' = Idle /\ task'.pc = "between" /\ task'.input = task.input
        /\ task'.events = task.events
        /\ task'.pending = IF lane.work = "event" THEN task.pending ELSE task.pending \ {task.input}
    BY <1>a, <1>b, <1>6 DEF Types, RunTypes
  <2>2. RunTypes'
    <3>1. lane' \in [pc: LanePc, work: {"none"} \cup Work, reply: Nat]
      BY <2>1 DEF Idle, LanePc
    <3>2. task' \in [pc: TaskPc, pending: SUBSET Input, input: {0} \cup Input, events: 0..MaxEvents]
      <4>1. \/ task' = [task EXCEPT !.pc = "between"]
            \/ task' = [task EXCEPT !.pc = "between", !.pending = @ \ {task.input}]
        BY <1>a, <1>6
      <4>2. task \in [pc: TaskPc, pending: SUBSET Input, input: {0} \cup Input, events: 0..MaxEvents]
        BY <1>b DEF Types, RunTypes
      <4> QED BY <4>1, <4>2 DEF TaskPc
    <3> QED BY <1>a, <1>b, <3>1, <3>2 DEF Types, RunTypes
  <2>3. SessionInv' /\ LaneInv'
    BY <1>a, <1>b, <2>1 DEF SessionInv, LaneInv, Live, Idle
  <2>4. TaskInv'
    <3>1. CASE lane.work = "event"
      <4>1. task.pc = "reporting"
        BY <1>b, <3>1 DEF LaneInv
      <4> QED BY <1>a, <1>b, <2>1, <3>1, <4>1 DEF TaskInv, Now
    <3>2. CASE lane.work # "event"
      <4>1. task.pc = "acknowledging" /\ events[r].what = task.input
        BY <1>b, <1>6, <3>2 DEF LaneInv
      <4>2. task.input \in Input
        BY <1>b, <4>1 DEF TaskInv, Types, RunTypes
      <4>3. job.inputs[task.input] = "applied"
        BY <1>1, <1>b, <4>1, <4>2 DEF Contains, SeenInv
      <4> QED BY <1>a, <1>b, <2>1, <3>2, <4>1, <4>2, <4>3 DEF TaskInv, Now
    <3> QED BY <3>1, <3>2
  <2> QED BY <1>4, <1>c, <2>2, <2>3, <2>4 DEF ChannelInv, Types
<1> QED BY <1>5, <1>6

-----------------------------------------------------------------------------
(* The server records an event, when it comes and when it comes late *)

(* What an event that is backed changes: the input it acknowledges was      *)
(* delivered, and the journal has the answer.                               *)
LEMMA RecordIs ==
  ASSUME Bounds, ChannelInv, NEW e \in EventRow, Backed(e), Record(e)
  PROVE  \/ UNCHANGED <<job, attempt>>
         \/ /\ e.attempt = Now /\ Live /\ e.n = Len(attempt.seen) + 1
            /\ e.n \in 1..Len(events) /\ events[e.n].what = e.what
            /\ attempt'.number = Now /\ attempt'.state = attempt.state
            /\ attempt'.seen = Append(attempt.seen, e.what)
            /\ \/ e.what \notin Input /\ UNCHANGED job
               \/ /\ e.what \in Input /\ job.inputs[e.what] = "delivered"
                  /\ taken[Now][e.what] = "applied"
                  /\ job' = [job EXCEPT !.inputs[e.what] = "applied"]
<1>1. CASE e.attempt = Now /\ ~Recorded(e) /\ Recordable(e)
  <2>1. Append_(e)
    BY <1>1 DEF Record
  <2>2. /\ attempt'.number = Now /\ attempt'.state = attempt.state
        /\ attempt'.seen = Append(attempt.seen, e.what)
    BY <2>1 DEF Append_, ChannelInv, Types, AttemptTypes, Now
  <2>3. e.n \in 1..Len(events) /\ events[e.n].what = e.what
    BY <1>1 DEF Backed, OnRecord
  <2>4. e.what \in Input => taken[Now][e.what] = "applied" /\ job.inputs[e.what] = "delivered"
    BY <1>1 DEF Backed, Rests, Recordable
  <2> QED BY <1>1, <2>1, <2>2, <2>3, <2>4 DEF Append_, Recordable
<1>2. CASE ~(e.attempt = Now /\ ~Recorded(e) /\ Recordable(e))
  BY <1>2 DEF Record
<1> QED BY <1>1, <1>2

LEMMA SeenGrows ==
  ASSUME Bounds, ChannelInv, NEW e \in EventRow, Backed(e), Record(e)
  PROVE  /\ \A x : Contains(attempt.seen, x) => Contains(attempt'.seen, x)
         /\ Accepts(e) => Contains(attempt'.seen, e.what)
<1>1. CASE UNCHANGED attempt
  <2>1. Accepts(e) => Recorded(e)
    <3>1. SUFFICES ASSUME Accepts(e), ~Recorded(e) PROVE FALSE
      OBVIOUS
    <3>2. attempt'.seen = Append(attempt.seen, e.what)
      BY <3>1 DEF Accepts, Record, Append_, ChannelInv, Types, AttemptTypes
    <3>3. Len(attempt'.seen) = Len(attempt.seen) + 1
      BY <3>2 DEF ChannelInv, Types, AttemptTypes
    <3> QED BY <1>1, <3>3, Lists DEF ChannelInv
  <2> QED BY <1>1, <2>1 DEF Recorded
<1>2. CASE attempt'.seen = Append(attempt.seen, e.what)
  <2>1. attempt.seen \in Seq(Event_) /\ e.what \in Event_
    BY DEF ChannelInv, Types, AttemptTypes, EventRow
  <2>2. /\ Len(attempt'.seen) = Len(attempt.seen) + 1 /\ Len(attempt.seen) \in Nat
        /\ attempt'.seen[Len(attempt.seen) + 1] = e.what
        /\ \A n \in 1..Len(attempt.seen) : attempt'.seen[n] = attempt.seen[n]
    BY <1>2, <2>1, LenProperties, AppendProperties
  <2>3. Contains(attempt'.seen, e.what)
    BY <2>2 DEF Contains
  <2>4. ASSUME NEW x, Contains(attempt.seen, x) PROVE Contains(attempt'.seen, x)
    BY <2>2, <2>4 DEF Contains
  <2> QED BY <2>3, <2>4
<1> QED BY <1>1, <1>2, RecordIs

LEMMA RecordKeeps ==
  ASSUME Bounds, ChannelInv, NEW e \in EventRow, Backed(e), Record(e),
         UNCHANGED <<events, taken, turns, session, task>>, late' \subseteq late,
         lane' \in [pc: LanePc, work: {"none"} \cup Work, reply: Nat],
         session.valid \/ lane' = Idle, LaneInv'
  PROVE  ChannelInv'
<1>a. Types /\ SessionInv /\ InputsInv /\ TaskInv /\ LaneInv /\ EventsInv /\ SeenInv
  BY DEF ChannelInv
<1>b. JournalTypes' /\ RunTypes'
  BY <1>a DEF Types, JournalTypes, RunTypes
<1>1. CASE UNCHANGED <<job, attempt>>
  <2>1. Types'
    BY <1>1, <1>a, <1>b DEF Types, JobTypes, AttemptTypes
  <2>2. SessionInv' /\ TaskInv'
    BY <1>1, <1>a DEF SessionInv, TaskInv, Live, Now
  <2>3. InputsInv'
    BY <1>1, <1>a DEF InputsInv, InOrder, Known, Given, Now
  <2>4. EventsInv' /\ SeenInv'
    BY <1>1, <1>a DEF EventsInv, Backed, Rests, OnRecord, SeenInv, Now
  <2> QED BY <2>1, <2>2, <2>3, <2>4 DEF ChannelInv
<1>2. CASE /\ e.attempt = Now /\ Live /\ e.n = Len(attempt.seen) + 1
           /\ e.n \in 1..Len(events) /\ events[e.n].what = e.what
           /\ attempt'.number = Now /\ attempt'.state = attempt.state
           /\ attempt'.seen = Append(attempt.seen, e.what)
           /\ \/ e.what \notin Input /\ UNCHANGED job
              \/ /\ e.what \in Input /\ job.inputs[e.what] = "delivered"
                 /\ taken[Now][e.what] = "applied"
                 /\ job' = [job EXCEPT !.inputs[e.what] = "applied"]
  <2>1. attempt.seen \in Seq(Event_) /\ e.what \in Event_
    BY <1>a DEF Types, AttemptTypes, EventRow
  <2>2. /\ attempt'.seen \in Seq(Event_)
        /\ Len(attempt'.seen) = Len(attempt.seen) + 1 /\ Len(attempt.seen) \in Nat
        /\ attempt'.seen[Len(attempt.seen) + 1] = e.what
        /\ \A n \in 1..Len(attempt.seen) : attempt'.seen[n] = attempt.seen[n]
    BY <1>2, <2>1, LenProperties, AppendProperties
  <2>3. /\ job'.version = job.version /\ job'.inputs \in [Input -> InputState]
        /\ \A i \in Input : job'.inputs[i] = IF i = e.what THEN "applied" ELSE job.inputs[i]
        /\ e.what \in Input => job.inputs[e.what] = "delivered" /\ taken[Now][e.what] = "applied"
    BY <1>2, <1>a DEF Types, JobTypes, InputState
  <2>4. Types'
    <3>1. JobTypes'
      BY <1>2, <1>a DEF Types, JobTypes, InputState
    <3>2. AttemptTypes'
      <4>1. attempt' = [attempt EXCEPT !.seen = Append(@, e.what)]
        <5>1. CASE UNCHANGED attempt
          BY <5>1, <2>2
        <5>2. CASE ~UNCHANGED attempt
          BY <5>2 DEF Record, Append_
        <5> QED BY <5>1, <5>2
      <4> QED BY <1>a, <2>1, <2>2, <4>1 DEF Types, AttemptTypes
    <3> QED BY <1>b, <3>1, <3>2 DEF Types
  <2>5. SessionInv'
    BY <1>2, <1>a, <2>3 DEF SessionInv, Live
  <2>6. TaskInv'
    BY <1>2, <1>a, <2>3 DEF TaskInv, Now, Types, RunTypes
  <2>7. InputsInv'
    <3>1. InOrder'
      BY <1>a, <2>3 DEF InputsInv, InOrder
    <3>2. ASSUME NEW i \in Input PROVE Known(i)'
      <4>1. Known(i) /\ Now \in Attempt /\ Now' = Now
        BY <1>2, <1>a DEF InputsInv, Types, AttemptTypes, Now
      <4>2. CASE i = e.what
        BY <2>3, <4>1, <4>2 DEF Known, Given
      <4>3. CASE i # e.what
        BY <2>3, <4>1, <4>3 DEF Known, Given
      <4> QED BY <4>2, <4>3
    <3> QED BY <3>1, <3>2 DEF InputsInv
  <2>8. EventsInv'
    BY <1>2, <1>a DEF EventsInv, Backed, Rests, OnRecord, Now
  <2>9. SeenInv'
    <3>1. Len(events) \in Nat /\ Len(attempt'.seen) <= Len(events)
      BY <1>2, <1>a, <2>2, Lists
    <3>2. ASSUME NEW n \in 1..Len(attempt'.seen)
          PROVE  attempt'.seen[n] = events[n].what
                 /\ (attempt'.seen[n] \in Input => job'.inputs[attempt'.seen[n]] = "applied")
      <4>1. CASE n \in 1..Len(attempt.seen)
        BY <1>a, <2>2, <2>3, <4>1 DEF SeenInv
      <4>2. CASE n = Len(attempt.seen) + 1
        BY <1>2, <2>2, <2>3, <4>2
      <4> QED BY <2>2, <4>1, <4>2
    <3> QED BY <3>1, <3>2 DEF SeenInv
  <2> QED BY <2>4, <2>5, <2>6, <2>7, <2>8, <2>9 DEF ChannelInv
<1> QED BY <1>1, <1>2, RecordIs

LEMMA LateArrivalKeeps ==
  ASSUME Bounds, ChannelInv, NEW e \in late, LateArrival(e)
  PROVE  ChannelInv'
<1>1. /\ Record(e) /\ late' = late \ {e} /\ e \in EventRow /\ Backed(e)
      /\ UNCHANGED <<events, taken, turns, session, lane, task>>
  BY LateKept DEF LateArrival
<1>2. lane' \in [pc: LanePc, work: {"none"} \cup Work, reply: Nat] /\ (session.valid \/ lane' = Idle)
  BY <1>1 DEF ChannelInv, Types, RunTypes, SessionInv
<1>3. LaneInv'
  BY <1>1, SeenGrows DEF ChannelInv, LaneInv
<1> QED BY <1>1, <1>2, <1>3, RecordKeeps

LEMMA ArriveKeeps ==
  ASSUME Bounds, ChannelInv, Arrive
  PROVE  ChannelInv'
<1>1. /\ lane.pc = "sent" /\ Record(Entry)
      /\ lane' = [lane EXCEPT !.pc = IF Accepts(Entry) THEN "ok" ELSE "refused"]
      /\ UNCHANGED <<events, taken, turns, session, task, late>>
  BY DEF Arrive
<1>2. lane.reply \in 1..Len(events)
  BY <1>1 DEF ChannelInv, LaneInv
<1>3. events[lane.reply] \in EventRow /\ events[lane.reply].n = lane.reply
      /\ events[lane.reply].attempt = Now /\ Rests(events[lane.reply])
  BY <1>2, Lists DEF ChannelInv, EventsInv
<1>4. /\ Entry \in EventRow /\ Entry.n = events[lane.reply].n
      /\ Entry.attempt = events[lane.reply].attempt /\ Entry.what = events[lane.reply].what
  BY <1>3 DEF Entry, EventRow
<1>5. Backed(Entry)
  <2>1. Now <= Now
    BY Parameters DEF ChannelInv, Types, AttemptTypes, Now
  <2> QED BY <1>2, <1>3, <1>4, <2>1 DEF Backed, Rests, OnRecord
<1>6. /\ lane'.pc \in {"ok", "refused"} /\ (lane'.pc = "ok" => Accepts(Entry))
      /\ lane'.work = lane.work /\ lane'.reply = lane.reply
  BY <1>1 DEF ChannelInv, Types, RunTypes
<1>7. lane' \in [pc: LanePc, work: {"none"} \cup Work, reply: Nat]
  <2>1. lane \in [pc: LanePc, work: {"none"} \cup Work, reply: Nat]
    BY DEF ChannelInv, Types, RunTypes
  <2> QED BY <1>1, <2>1 DEF LanePc
<1>8. session.valid
  BY <1>1 DEF ChannelInv, SessionInv, Idle
<1>9. LaneInv'
  <2>1. lane'.pc = "ok" => Contains(attempt'.seen, events[lane.reply].what)
    BY <1>1, <1>4, <1>5, <1>6, SeenGrows
  <2> QED BY <1>1, <1>2, <1>6, <2>1 DEF ChannelInv, LaneInv
<1> QED BY <1>1, <1>4, <1>5, <1>7, <1>8, <1>9, RecordKeeps

-----------------------------------------------------------------------------
(* Steps of the inputs *)

(* An answer that is recorded stays recorded, and so does an input that is  *)
(* applied: what the lists rest on is kept.                                 *)
LEMMA ListsKept ==
  ASSUME ChannelInv, UNCHANGED <<events, late>>,
         attempt'.number = attempt.number, attempt'.seen = attempt.seen,
         \A a \in Attempt, i \in Input : taken[a][i] = "applied" => taken'[a][i] = "applied",
         \A i \in Input : job.inputs[i] = "applied" => job'.inputs[i] = "applied"
  PROVE  EventsInv' /\ SeenInv'
<1>1. ASSUME NEW e \in EventRow, Backed(e) PROVE Backed(e)'
  <2>1. e.attempt \in Attempt
    BY DEF EventRow
  <2> QED BY <1>1, <2>1 DEF Backed, Rests, OnRecord, Now
<1>2. ASSUME NEW n \in 1..Len(events)
      PROVE  events[n].what \in Input => taken'[events[n].attempt][events[n].what] = "applied"
  <2>1. events[n].attempt \in Attempt
    BY Lists DEF ChannelInv, EventRow
  <2> QED BY <2>1 DEF ChannelInv, EventsInv, Rests
<1>3. EventsInv'
  BY <1>1, <1>2, LateKept DEF ChannelInv, EventsInv, Rests, Now
<1> QED BY <1>3 DEF ChannelInv, SeenInv

LEMMA AddInputKeeps ==
  ASSUME Bounds, ChannelInv, AddInput
  PROVE  ChannelInv'
<1>a. Types /\ SessionInv /\ InputsInv /\ TaskInv /\ LaneInv /\ EventsInv /\ SeenInv
  BY DEF ChannelInv
<1>1. PICK i \in Input :
        /\ Live /\ job.inputs[i] = "none" /\ \A k \in Input : job.inputs[k] = "none" => i <= k
        /\ job' = [job EXCEPT !.version = @ + 1, !.inputs[i] = "pending"]
        /\ UNCHANGED <<attempt, events, taken, turns, session, lane, task, late>>
  BY DEF AddInput, Count
<1>2. \A k \in Input : job'.inputs[k] = IF k = i THEN "pending" ELSE job.inputs[k]
  BY <1>a, <1>1 DEF Types, JobTypes
<1>3. Types'
  <2>1. JobTypes'
    <3> DEFINE given == [job.inputs EXCEPT ![i] = "pending"]
    <3>1. job' = [job EXCEPT !.version = job.version + 1, !.inputs = given]
      BY <1>1, <1>a DEF Types, JobTypes
    <3>2. given \in [Input -> InputState] /\ job.version + 1 \in Nat
      BY <1>a DEF Types, JobTypes, InputState
    <3> HIDE DEF given
    <3> QED BY <3>1, <3>2, <1>a DEF Types, JobTypes
  <2>2. AttemptTypes' /\ JournalTypes' /\ RunTypes'
    BY <1>a, <1>1 DEF Types, AttemptTypes, JournalTypes, RunTypes
  <2> QED BY <2>1, <2>2 DEF Types
<1>4. SessionInv' /\ TaskInv' /\ LaneInv'
  BY <1>a, <1>1, <1>2 DEF SessionInv, TaskInv, LaneInv, Live, Now
<1>5. InputsInv'
  <2>1. InOrder'
    BY <1>a, <1>1, <1>2, Parameters DEF InputsInv, InOrder
  <2>2. ASSUME NEW k \in Input PROVE Known(k)'
    BY <1>a, <1>1, <1>2 DEF InputsInv, Known, Given, Now
  <2> QED BY <2>1, <2>2 DEF InputsInv
<1>6. EventsInv' /\ SeenInv'
  BY <1>1, <1>2, ListsKept
<1> QED BY <1>3, <1>4, <1>5, <1>6 DEF ChannelInv

(* All that wait are delivered, in the order they were added.               *)
LEMMA CollectKeeps ==
  ASSUME Bounds, ChannelInv, Collect
  PROVE  ChannelInv'
<1> DEFINE new == Wanted \ task.pending
<1>a. Types /\ SessionInv /\ InputsInv /\ TaskInv /\ LaneInv /\ EventsInv /\ SeenInv
  BY DEF ChannelInv
<1>b. /\ session.valid /\ lane.work = "collect"
      /\ UNCHANGED <<attempt, events, turns, late>>
  BY DEF Collect
<1>c. Live
  BY <1>a, <1>b DEF SessionInv
<1>1. CASE Fail /\ UNCHANGED <<job, taken>>
  BY <1>b, <1>1, FailEnds, RunOnly, LateKept
<1>2. CASE /\ \A i \in new : taken[Now][i] = "absent"
           /\ task.pc # "failed"
           /\ job' = [job EXCEPT !.inputs = [i \in Input |->
                            IF i \in Wanted THEN "delivered" ELSE @[i]]]
           /\ taken' = [taken EXCEPT ![Now] = [i \in Input |->
                            IF i \in new THEN "prepared" ELSE @[i]]]
           /\ task' = [task EXCEPT !.pending = @ \cup new]
           /\ lane' = Idle /\ UNCHANGED session
  <2>1. Now \in Attempt /\ Wanted \subseteq Input /\ new \subseteq Input /\ Now' = Now
    BY <1>a, <1>b DEF Types, AttemptTypes, Now, Wanted, Count
  <2>2. \A i \in Input : i \in Wanted <=> job.inputs[i] \in {"pending", "delivered"}
    BY DEF Wanted, Count
  <2>3. \A i \in Input : job'.inputs[i] = IF i \in Wanted THEN "delivered" ELSE job.inputs[i]
    BY <1>2, <1>a DEF Types, JobTypes
  <2>4. \A a \in Attempt, i \in Input :
          taken'[a][i] = IF a = Now /\ i \in new THEN "prepared" ELSE taken[a][i]
    BY <1>2, <1>a, <2>1 DEF Types, JournalTypes
  <2>5. /\ task'.pending = task.pending \cup new /\ task'.pc = task.pc
        /\ task'.input = task.input /\ task'.events = task.events
    BY <1>2, <1>a DEF Types, RunTypes
  <2>6. Types'
    <3>1. JobTypes'
      BY <1>2, <1>a DEF Types, JobTypes, InputState
    <3>2. taken' \in [Attempt -> [Input -> EntryState]]
      BY <1>2, <1>a, <2>1 DEF Types, JournalTypes, EntryState
    <3>3. task' \in [pc: TaskPc, pending: SUBSET Input, input: {0} \cup Input, events: 0..MaxEvents]
      BY <1>2, <1>a, <2>1 DEF Types, RunTypes
    <3>4. lane' \in [pc: LanePc, work: {"none"} \cup Work, reply: Nat]
      BY <1>2 DEF Idle, LanePc
    <3>5. AttemptTypes' /\ JournalTypes'
      BY <1>a, <1>b, <3>2 DEF Types, AttemptTypes, JournalTypes
    <3> QED BY <1>2, <1>a, <3>1, <3>3, <3>4, <3>5 DEF Types, RunTypes
  <2>7. SessionInv' /\ LaneInv'
    BY <1>2, <1>a, <1>b, <1>c, <2>2, <2>3 DEF SessionInv, LaneInv, Live, Idle
  <2>8. \A i \in Input : /\ job.inputs[i] = "delivered" => i \in task.pending
                         /\ i \in task.pending => taken[Now][i] # "absent"
    BY <1>2, <1>a, <1>b DEF TaskInv
  <2>9. InputsInv'
    <3>1. InOrder'
      <4>1. ASSUME NEW k \in Input, NEW i \in Input, k < i
            PROVE  /\ job'.inputs[i] # "none" => job'.inputs[k] # "none"
                   /\ job'.inputs[i] = "delivered" => job'.inputs[k] \in {"delivered", "applied"}
        <5>1. /\ job.inputs[i] # "none" => job.inputs[k] # "none"
              /\ job.inputs[k] # "delivery_uncertain" /\ job.inputs[k] \in InputState
          BY <1>a, <1>c, <4>1 DEF InputsInv, InOrder, SessionInv, Types, JobTypes
        <5> QED BY <2>2, <2>3, <5>1 DEF InputState
      <4> QED BY <1>a, <1>b, <4>1 DEF InputsInv, InOrder
    <3>2. ASSUME NEW i \in Input PROVE Known(i)'
      <4>1. Known(i)
        BY <1>a DEF InputsInv
      <4>2. \A a \in Attempt : Given(a, i)' <=> Given(a, i)
        BY <1>2, <2>4 DEF Given
      <4>3. /\ job'.inputs[i] \in {"none", "pending"} => turns'[i] = 0
            /\ job'.inputs[i] = "applied" =>
                 turns'[i] = 1 /\ \E a \in Attempt : taken'[a][i] = "applied"
        BY <1>2, <1>b, <2>2, <2>3, <2>4, <4>1 DEF Known
      <4>4. job'.inputs[i] \in {"delivered", "delivery_uncertain"} =>
              taken'[Now][i] # "absent" /\ (turns'[i] = 1 => Given(Now, i)')
        BY <1>b, <1>c, <1>a, <2>1, <2>2, <2>3, <2>4, <2>8, <4>1, <4>2 DEF Known, SessionInv
      <4>5. \A a \in Attempt : a > Now => taken'[a][i] = "absent"
        BY <2>1, <2>4, <4>1, Parameters DEF Known
      <4>6. \A a \in Attempt : Given(a, i)' => turns'[i] = 1
        BY <1>b, <4>1, <4>2 DEF Known
      <4> QED BY <2>1, <4>3, <4>4, <4>5, <4>6 DEF Known
    <3> QED BY <3>1, <3>2 DEF InputsInv
  <2>10. TaskInv'
    <3>1. \A i \in task.pending : taken'[Now][i] = taken[Now][i]
      BY <1>a, <2>1, <2>4 DEF Types, RunTypes
    <3>2. \A i \in task'.pending :
            \/ taken'[Now][i] = "prepared" /\ job'.inputs[i] = "delivered"
            \/ task.pc \in {"turning", "acknowledging"} /\ i = task.input
      <4>1. \A i \in task.pending :
              \/ taken[Now][i] = "prepared" /\ job.inputs[i] = "delivered"
              \/ task.pc \in {"turning", "acknowledging"} /\ i = task.input
        BY <1>2, <1>a, <1>b DEF TaskInv
      <4>2. task.pending \subseteq Input
        BY <1>a DEF Types, RunTypes
      <4> QED BY <2>1, <2>2, <2>3, <2>4, <2>5, <3>1, <4>1, <4>2
    <3>3. \A i \in Input : job'.inputs[i] = "delivered" => i \in task'.pending
      BY <2>2, <2>3, <2>5
    <3>4. /\ task'.pc \in {"turning", "acknowledging"} => task'.input \in task'.pending
          /\ task'.pc = "turning" => taken'[Now'][task'.input] = "uncertain"
          /\ task'.pc = "acknowledging" => taken'[Now'][task'.input] = "applied"
          /\ task'.pc = "reporting" => task'.events >= 1
      BY <1>a, <2>1, <2>5, <3>1 DEF TaskInv
    <3> QED BY <1>b, <2>1, <2>5, <3>2, <3>3, <3>4 DEF TaskInv
  <2>11. EventsInv' /\ SeenInv'
    <3>1. \A a \in Attempt, i \in Input : taken[a][i] = "applied" => taken'[a][i] = "applied"
      BY <1>2, <2>4
    <3>2. \A i \in Input : job.inputs[i] = "applied" => job'.inputs[i] = "applied"
      BY <2>2, <2>3
    <3> QED BY <1>b, <3>1, <3>2, ListsKept
  <2> QED BY <2>6, <2>7, <2>9, <2>10, <2>11 DEF ChannelInv
<1> QED BY <1>1, <1>2, <1>c DEF Collect

(* The next input is the first of those that were delivered: what was added *)
(* before it was applied.                                                   *)
LEMMA NextInputKeeps ==
  ASSUME Bounds, ChannelInv, NextInput
  PROVE  ChannelInv'
<1>a. Types /\ SessionInv /\ InputsInv /\ TaskInv /\ LaneInv /\ EventsInv /\ SeenInv
  BY DEF ChannelInv
<1>1. PICK i \in task.pending :
        /\ \A k \in task.pending : i <= k
        /\ session.valid /\ task.pc = "between"
        /\ taken' = [taken EXCEPT ![Now][i] = "uncertain"]
        /\ turns' = [turns EXCEPT ![i] = @ + 1]
        /\ task' = [task EXCEPT !.pc = "turning", !.input = i]
        /\ UNCHANGED <<job, attempt, events, session, lane, late>>
  BY DEF NextInput, Turn
<1>2. /\ i \in Input /\ Now \in Attempt /\ Now' = Now /\ i \in Nat
      /\ taken[Now][i] = "prepared" /\ job.inputs[i] = "delivered"
  BY <1>a, <1>1, Parameters DEF Types, RunTypes, AttemptTypes, TaskInv, Now
<1>3. turns[i] = 0
  BY <1>2, <1>a DEF InputsInv, Known, Given, Types, JournalTypes
<1>4. /\ \A k \in Input : turns'[k] = IF k = i THEN 1 ELSE turns[k]
      /\ \A a \in Attempt, k \in Input :
           taken'[a][k] = IF a = Now /\ k = i THEN "uncertain" ELSE taken[a][k]
      /\ task'.pc = "turning" /\ task'.input = i /\ task'.pending = task.pending
      /\ task'.events = task.events
  BY <1>1, <1>2, <1>3, <1>a DEF Types, JournalTypes, RunTypes
<1>5. Types'
  <2>1. turns' \in [Input -> 0..1] /\ taken' \in [Attempt -> [Input -> EntryState]]
    BY <1>1, <1>2, <1>3, <1>a DEF Types, JournalTypes, EntryState
  <2>2. task' \in [pc: TaskPc, pending: SUBSET Input, input: {0} \cup Input, events: 0..MaxEvents]
    BY <1>1, <1>2, <1>a DEF Types, RunTypes, TaskPc
  <2> QED BY <1>1, <1>a, <2>1, <2>2 DEF Types, JobTypes, AttemptTypes, JournalTypes, RunTypes
<1>6. SessionInv' /\ LaneInv'
  BY <1>1, <1>4, <1>a DEF SessionInv, LaneInv, Live
<1>7. InputsInv'
  <2>1. ASSUME NEW k \in Input, k < i PROVE turns[k] = 1
    <3>1. job.inputs[k] \in {"delivered", "applied"} /\ k \in Nat
      BY <1>2, <1>a, <2>1, Parameters DEF InputsInv, InOrder
    <3>2. k \notin task.pending
      BY <1>1, <1>2, <2>1, <3>1
    <3>3. job.inputs[k] = "applied"
      BY <1>1, <1>a, <3>1, <3>2 DEF TaskInv
    <3> QED BY <1>a, <3>3 DEF InputsInv, Known
  <2>2. InOrder'
    BY <1>1, <1>4, <1>a, <2>1, Parameters DEF InputsInv, InOrder
  <2>3. ASSUME NEW k \in Input PROVE Known(k)'
    <3>1. Known(k)
      BY <1>a DEF InputsInv
    <3>2. \A a \in Attempt : a > Now => a # Now
      BY Parameters, <1>2
    <3>3. ASSUME NEW a \in Attempt, taken[a][k] = "applied" PROVE taken'[a][k] = "applied"
      BY <1>2, <1>4, <3>3
    <3> QED BY <1>1, <1>2, <1>4, <3>1, <3>2, <3>3 DEF Known, Given
  <2> QED BY <2>2, <2>3 DEF InputsInv
<1>8. TaskInv'
  BY <1>1, <1>2, <1>4, <1>a DEF TaskInv, Types, RunTypes
<1>9. EventsInv' /\ SeenInv'
  <2>1. \A a \in Attempt, k \in Input : taken[a][k] = "applied" => taken'[a][k] = "applied"
    BY <1>2, <1>4
  <2> QED BY <1>1, <2>1, ListsKept
<1> QED BY <1>5, <1>6, <1>7, <1>8, <1>9 DEF ChannelInv

LEMMA AnsweredKeeps ==
  ASSUME Bounds, ChannelInv, Answered
  PROVE  ChannelInv'
<1> DEFINE i == task.input
<1>a. Types /\ SessionInv /\ InputsInv /\ TaskInv /\ LaneInv /\ EventsInv /\ SeenInv
  BY DEF ChannelInv
<1>1. /\ task.pc = "turning" /\ taken' = [taken EXCEPT ![Now][i] = "applied"]
      /\ task' = [task EXCEPT !.pc = IF session.valid THEN "acknowledging" ELSE "failed"]
      /\ UNCHANGED <<job, attempt, events, turns, session, lane, late>>
  BY DEF Answered
<1>2. /\ i \in task.pending /\ i \in Input /\ taken[Now][i] = "uncertain"
      /\ Now \in Attempt /\ Now' = Now /\ Live
  BY <1>a, <1>1 DEF TaskInv, SessionInv, Types, RunTypes, AttemptTypes, Now
<1>3. /\ \A a \in Attempt, k \in Input :
           taken'[a][k] = IF a = Now /\ k = i THEN "applied" ELSE taken[a][k]
      /\ task'.pc = IF session.valid THEN "acknowledging" ELSE "failed"
      /\ task'.input = i /\ task'.pending = task.pending /\ task'.events = task.events
  BY <1>1, <1>2, <1>a DEF Types, JournalTypes, RunTypes
<1>4. Types'
  <2>1. taken' \in [Attempt -> [Input -> EntryState]]
    BY <1>1, <1>2, <1>a DEF Types, JournalTypes, EntryState
  <2>2. task' \in [pc: TaskPc, pending: SUBSET Input, input: {0} \cup Input, events: 0..MaxEvents]
    <3>1. task \in [pc: TaskPc, pending: SUBSET Input, input: {0} \cup Input, events: 0..MaxEvents]
      BY <1>a DEF Types, RunTypes
    <3> QED BY <1>1, <3>1 DEF TaskPc
  <2> QED BY <1>1, <1>a, <2>1, <2>2 DEF Types, JobTypes, AttemptTypes, JournalTypes, RunTypes
<1>5. SessionInv' /\ LaneInv'
  BY <1>1, <1>2, <1>3, <1>a DEF SessionInv, LaneInv, Live
<1>6. InputsInv'
  <2>1. ASSUME NEW k \in Input PROVE Known(k)'
    <3>1. Known(k)
      BY <1>a DEF InputsInv
    <3>2. /\ \A a \in Attempt : Given(a, k)' <=> Given(a, k)
          /\ \A a \in Attempt : taken[a][k] = "applied" => taken'[a][k] = "applied"
          /\ \A a \in Attempt : taken[a][k] = "absent" <=> taken'[a][k] = "absent"
      BY <1>2, <1>3 DEF Given
    <3> QED BY <1>1, <1>2, <3>1, <3>2 DEF Known
  <2> QED BY <1>1, <1>a, <2>1 DEF InputsInv, InOrder
<1>7. TaskInv'
  BY <1>1, <1>2, <1>3, <1>a DEF TaskInv, Types, RunTypes
<1>8. EventsInv' /\ SeenInv'
  <2>1. \A a \in Attempt, k \in Input : taken[a][k] = "applied" => taken'[a][k] = "applied"
    BY <1>3
  <2> QED BY <1>1, <2>1, ListsKept
<1> QED BY <1>4, <1>5, <1>6, <1>7, <1>8 DEF ChannelInv

-----------------------------------------------------------------------------
(* The end of a session and of an attempt *)

(* Only an input no turn was made of is released.                           *)
LEMMA RetireKeeps ==
  ASSUME Bounds, ChannelInv, Retire
  PROVE  ChannelInv'
<1>a. Types /\ SessionInv /\ InputsInv /\ TaskInv /\ LaneInv /\ EventsInv /\ SeenInv
  BY DEF ChannelInv
<1>1. /\ session.valid /\ lane' = Idle /\ session' = [session EXCEPT !.valid = FALSE]
      /\ taken' = [taken EXCEPT ![Now] = [i \in Input |->
                     IF @[i] = "prepared" THEN "not_applied" ELSE @[i]]]
      /\ UNCHANGED <<job, attempt, events, turns, task, late>>
  BY DEF Retire, Release
<1>2. Now \in Attempt /\ Now' = Now
  BY <1>a, <1>1 DEF Types, AttemptTypes, Now
<1>3. /\ \A a \in Attempt, k \in Input :
           taken'[a][k] = IF a = Now /\ taken[a][k] = "prepared" THEN "not_applied" ELSE taken[a][k]
      /\ ~session'.valid
  BY <1>1, <1>2, <1>a DEF Types, JournalTypes, RunTypes
<1>4. Types'
  <2>1. taken' \in [Attempt -> [Input -> EntryState]]
    BY <1>1, <1>2, <1>a DEF Types, JournalTypes, EntryState
  <2>2. session' \in [valid: BOOLEAN, stop: BOOLEAN, version: Nat]
    BY <1>1, <1>a DEF Types, RunTypes
  <2>3. lane' \in [pc: LanePc, work: {"none"} \cup Work, reply: Nat]
    BY <1>1 DEF Idle, LanePc
  <2> QED BY <1>1, <1>a, <2>1, <2>2, <2>3 DEF Types, JobTypes, AttemptTypes, JournalTypes, RunTypes
<1>5. SessionInv' /\ LaneInv'
  BY <1>1, <1>3, <1>a DEF SessionInv, LaneInv, Live, Idle
<1>6. InputsInv'
  <2>1. ASSUME NEW k \in Input PROVE Known(k)'
    <3>1. Known(k)
      BY <1>a DEF InputsInv
    <3>2. /\ \A a \in Attempt : Given(a, k)' <=> Given(a, k)
          /\ \A a \in Attempt : taken[a][k] = "applied" => taken'[a][k] = "applied"
          /\ \A a \in Attempt : taken[a][k] = "absent" <=> taken'[a][k] = "absent"
      BY <1>2, <1>3 DEF Given
    <3> QED BY <1>1, <1>2, <3>1, <3>2 DEF Known
  <2> QED BY <1>1, <1>a, <2>1 DEF InputsInv, InOrder
<1>7. TaskInv'
  BY <1>1, <1>2, <1>3, <1>a DEF TaskInv, Types, RunTypes
<1>8. EventsInv' /\ SeenInv'
  <2>1. \A a \in Attempt, k \in Input : taken[a][k] = "applied" => taken'[a][k] = "applied"
    BY <1>3
  <2> QED BY <1>1, <2>1, ListsKept
<1> QED BY <1>4, <1>5, <1>6, <1>7, <1>8 DEF ChannelInv

(* What was delivered and not acknowledged is uncertain.                    *)
LEMMA StoppedKeeps ==
  ASSUME Bounds, ChannelInv, Stopped
  PROVE  ChannelInv'
<1>a. Types /\ SessionInv /\ InputsInv /\ TaskInv /\ LaneInv /\ EventsInv /\ SeenInv
  BY DEF ChannelInv
<1>1. /\ ~session.valid /\ Live /\ task' = [task EXCEPT !.pc = "failed"]
      /\ attempt' = [attempt EXCEPT !.state = "stopped"]
      /\ job' = [job EXCEPT !.version = @ + 1,
                            !.inputs = [i \in Input |->
                              IF @[i] = "delivered" THEN "delivery_uncertain" ELSE @[i]]]
      /\ UNCHANGED <<events, taken, turns, session, lane, late>>
  BY DEF Stopped
<1>2. /\ \A i \in Input : job'.inputs[i] =
           IF job.inputs[i] = "delivered" THEN "delivery_uncertain" ELSE job.inputs[i]
      /\ attempt'.number = attempt.number /\ attempt'.seen = attempt.seen
      /\ attempt'.state = "stopped"
      /\ task'.pc = "failed" /\ lane = Idle
  BY <1>1, <1>a DEF Types, JobTypes, AttemptTypes, RunTypes, SessionInv
<1>3. Types'
  <2>1. JobTypes'
    <3> DEFINE left == [i \in Input |-> IF job.inputs[i] = "delivered" THEN "delivery_uncertain"
                                       ELSE job.inputs[i]]
    <3>1. job' = [job EXCEPT !.version = job.version + 1, !.inputs = left]
      BY <1>1
    <3>2. left \in [Input -> InputState] /\ job.version + 1 \in Nat
      BY <1>a DEF Types, JobTypes, InputState
    <3> HIDE DEF left
    <3> QED BY <3>1, <3>2, <1>a DEF Types, JobTypes
  <2>2. AttemptTypes'
    BY <1>1, <1>a DEF Types, AttemptTypes
  <2>3. task' \in [pc: TaskPc, pending: SUBSET Input, input: {0} \cup Input, events: 0..MaxEvents]
    BY <1>1, <1>a DEF Types, RunTypes, TaskPc
  <2> QED BY <1>1, <1>a, <2>1, <2>2, <2>3 DEF Types, JournalTypes, RunTypes
<1>4. SessionInv' /\ LaneInv' /\ TaskInv'
  BY <1>1, <1>2 DEF SessionInv, LaneInv, TaskInv, Live, Idle
<1>5. InputsInv'
  <2>1. InOrder'
    BY <1>1, <1>2, <1>a DEF InputsInv, InOrder
  <2>2. ASSUME NEW k \in Input PROVE Known(k)'
    BY <1>1, <1>2, <1>a DEF InputsInv, Known, Given, Now
  <2> QED BY <2>1, <2>2 DEF InputsInv
<1>6. EventsInv' /\ SeenInv'
  BY <1>1, <1>2, ListsKept
<1> QED BY <1>3, <1>4, <1>5, <1>6 DEF ChannelInv

(* The receipt of the runtime decides: an answer was given, or no turn was  *)
(* made of the input.                                                       *)
LEMMA ReconcileKeeps ==
  ASSUME Bounds, ChannelInv, NEW i \in Input, Reconcile(i)
  PROVE  ChannelInv'
<1>a. Types /\ SessionInv /\ InputsInv /\ TaskInv /\ LaneInv /\ EventsInv /\ SeenInv
  BY DEF ChannelInv
<1>b. /\ ~Live /\ job.inputs[i] = "delivery_uncertain"
      /\ UNCHANGED <<attempt, events, turns, session, lane, task, late>>
  BY DEF Reconcile
<1>1. Now \in Attempt /\ Now' = Now /\ Known(i)
  BY <1>a, <1>b DEF Types, AttemptTypes, InputsInv, Now
<1>2. CASE /\ taken[Now][i] = "applied"
           /\ job' = [job EXCEPT !.inputs[i] = "applied"] /\ UNCHANGED taken
  <2>1. \A k \in Input : job'.inputs[k] = IF k = i THEN "applied" ELSE job.inputs[k]
    BY <1>2, <1>a DEF Types, JobTypes
  <2>2. Types'
    <3>1. JobTypes'
      BY <1>2, <1>a DEF Types, JobTypes, InputState
    <3> QED BY <1>2, <1>a, <1>b, <3>1 DEF Types, AttemptTypes, JournalTypes, RunTypes
  <2>3. SessionInv' /\ LaneInv' /\ TaskInv'
    BY <1>a, <1>b, <2>1 DEF SessionInv, LaneInv, TaskInv, Live, Idle
  <2>4. InputsInv'
    <3>1. InOrder'
      BY <1>a, <1>b, <2>1 DEF InputsInv, InOrder
    <3>2. turns[i] = 1
      BY <1>1, <1>2 DEF Known, Given
    <3>3. ASSUME NEW k \in Input PROVE Known(k)'
      <4>1. Known(k)
        BY <1>a DEF InputsInv
      <4> QED BY <1>1, <1>2, <1>b, <2>1, <3>2, <4>1 DEF Known, Given
    <3> QED BY <3>1, <3>3 DEF InputsInv
  <2>5. EventsInv' /\ SeenInv'
    BY <1>2, <1>b, <2>1, ListsKept
  <2> QED BY <2>2, <2>3, <2>4, <2>5 DEF ChannelInv
<1>3. CASE /\ taken[Now][i] \in {"absent", "prepared", "not_applied"}
           /\ job' = [job EXCEPT !.inputs[i] = "pending"]
           /\ taken' = [taken EXCEPT ![Now][i] = "not_applied"]
  <2>1. /\ \A k \in Input : job'.inputs[k] = IF k = i THEN "pending" ELSE job.inputs[k]
        /\ \A a \in Attempt, k \in Input :
             taken'[a][k] = IF a = Now /\ k = i THEN "not_applied" ELSE taken[a][k]
    BY <1>1, <1>3, <1>a DEF Types, JobTypes, JournalTypes
  <2>2. Types'
    <3>1. JobTypes' /\ taken' \in [Attempt -> [Input -> EntryState]]
      BY <1>1, <1>3, <1>a DEF Types, JobTypes, JournalTypes, InputState, EntryState
    <3> QED BY <1>a, <1>b, <3>1 DEF Types, AttemptTypes, JournalTypes, RunTypes
  <2>3. SessionInv' /\ LaneInv' /\ TaskInv'
    BY <1>a, <1>b, <2>1 DEF SessionInv, LaneInv, TaskInv, Live, Idle
  <2>4. InputsInv'
    <3>1. InOrder'
      BY <1>a, <1>b, <2>1 DEF InputsInv, InOrder, SessionInv
    <3>2. turns[i] = 0
      BY <1>1, <1>3, <1>b, <1>a DEF Known, Given, Types, JournalTypes
    <3>3. ASSUME NEW k \in Input PROVE Known(k)'
      <4>1. Known(k)
        BY <1>a DEF InputsInv
      <4>2. /\ \A a \in Attempt : Given(a, k)' <=> Given(a, k)
            /\ \A a \in Attempt : taken[a][k] = "applied" => taken'[a][k] = "applied"
            /\ \A a \in Attempt : a > Now => taken'[a][k] = taken[a][k]
            /\ taken[Now][k] # "absent" => taken'[Now][k] # "absent"
        BY <1>1, <1>3, <2>1, Parameters DEF Given
      <4> QED BY <1>1, <1>b, <2>1, <3>2, <4>1, <4>2 DEF Known
    <3> QED BY <3>1, <3>3 DEF InputsInv
  <2>5. EventsInv' /\ SeenInv'
    <3>1. \A a \in Attempt, k \in Input : taken[a][k] = "applied" => taken'[a][k] = "applied"
      BY <1>3, <2>1
    <3> QED BY <1>b, <2>1, <3>1, ListsKept
  <2> QED BY <2>2, <2>3, <2>4, <2>5 DEF ChannelInv
<1> QED BY <1>2, <1>3 DEF Reconcile

(* A new attempt begins with an empty journal and nothing in hand.          *)
LEMMA ResumeKeeps ==
  ASSUME Bounds, ChannelInv, Resume
  PROVE  ChannelInv'
<1>a. Types /\ SessionInv /\ InputsInv /\ TaskInv /\ LaneInv /\ EventsInv /\ SeenInv
  BY DEF ChannelInv
<1>1. /\ ~Live /\ Now < MaxAttempts
      /\ \A i \in Input : job.inputs[i] # "delivery_uncertain"
      /\ attempt' = [number |-> Now + 1, state |-> "live", seen |-> <<>>]
      /\ events' = <<>>
      /\ session' = [valid |-> TRUE, stop |-> FALSE, version |-> job.version]
      /\ task' = [task EXCEPT !.pc = "between", !.pending = {}, !.input = 0]
      /\ UNCHANGED <<job, taken, turns, lane, late>>
  BY DEF Resume, Count, NewSession
<1>2. /\ Now \in Attempt /\ Now \in Nat /\ Now + 1 \in Attempt /\ Now' = Now + 1
      /\ lane = Idle /\ \A i \in Input : job.inputs[i] # "delivered"
      /\ task'.pc = "between" /\ task'.pending = {}
  BY <1>1, <1>a, Parameters DEF Types, AttemptTypes, RunTypes, Attempt, Now, SessionInv
<1>3. Types'
  <2>1. AttemptTypes' /\ JournalTypes'
    BY <1>1, <1>2, <1>a DEF Types, AttemptTypes, JournalTypes
  <2>2. task' \in [pc: TaskPc, pending: SUBSET Input, input: {0} \cup Input, events: 0..MaxEvents]
    BY <1>1, <1>a DEF Types, RunTypes, TaskPc
  <2>3. session' \in [valid: BOOLEAN, stop: BOOLEAN, version: Nat]
    BY <1>1, <1>a DEF Types, JobTypes
  <2> QED BY <1>1, <1>a, <2>1, <2>2, <2>3 DEF Types, JobTypes, RunTypes
<1>4. SessionInv' /\ LaneInv' /\ TaskInv'
  BY <1>1, <1>2 DEF SessionInv, LaneInv, TaskInv, Live, Idle
<1>5. InputsInv'
  <2>1. ASSUME NEW k \in Input PROVE Known(k)'
    BY <1>1, <1>2, <1>a, Parameters DEF InputsInv, Known, Given
  <2> QED BY <1>1, <1>a, <2>1 DEF InputsInv, InOrder
<1>6. EventsInv' /\ SeenInv'
  <2>1. Len(events') = 0 /\ Len(attempt'.seen) = 0
    BY <1>1
  <2>2. ASSUME NEW e \in late PROVE Backed(e)'
    <3>1. Backed(e) /\ e.attempt \in Nat
      BY <1>a, Parameters DEF EventsInv, EventRow, Types, JournalTypes
    <3> QED BY <1>1, <1>2, <3>1 DEF Backed, Rests, OnRecord
  <2> QED BY <1>1, <2>1, <2>2 DEF EventsInv, SeenInv
<1> QED BY <1>3, <1>4, <1>5, <1>6 DEF ChannelInv

-----------------------------------------------------------------------------
(* The theorems *)

LEMMA ChannelStutter ==
  ASSUME Bounds, ChannelInv, UNCHANGED vars
  PROVE  ChannelInv'
<1>1. UNCHANGED <<job, attempt, events, taken, turns, session, lane, task, late>>
  BY DEF vars
<1>2. RunTypes' /\ SessionInv' /\ TaskInv' /\ LaneInv'
  BY <1>1 DEF ChannelInv, Types, RunTypes, SessionInv, TaskInv, LaneInv, Live, Now
<1> QED BY <1>1, <1>2, RunOnly, LateKept

LEMMA ChannelStep ==
  ASSUME Bounds, ChannelInv, [Next]_vars
  PROVE  ChannelInv'
<1>1. CASE LaneStep \/ LostRequest
  BY <1>1, QueueKeeps, ReportKeeps, ArriveKeeps, AcknowledgedKeeps, CollectKeeps, LostKeeps
     DEF LaneStep
<1>2. CASE TaskStep \/ TurnFails \/ Crash
  BY <1>2, TaskKeeps, NextInputKeeps, AnsweredKeeps DEF TaskStep
<1>3. CASE AddInput \/ \E e \in late : LateArrival(e)
  BY <1>3, AddInputKeeps, LateArrivalKeeps
<1>4. CASE Retire \/ Stopped \/ Resume \/ \E i \in Input : Reconcile(i)
  BY <1>4, RetireKeeps, StoppedKeeps, ResumeKeeps, ReconcileKeeps
<1>5. CASE UNCHANGED vars
  BY <1>5, ChannelStutter
<1> QED BY <1>1, <1>2, <1>3, <1>4, <1>5 DEF Next

LEMMA ChannelAlways ==
  ASSUME Bounds
  PROVE  Spec => []ChannelInv
<1>1. Init => ChannelInv
  BY ChannelInit
<1>2. ChannelInv /\ [Next]_vars => ChannelInv'
  BY ChannelStep
<1> QED BY <1>1, <1>2, PTL DEF Spec

(* Every variable of the channel keeps its shape, and no input has a second *)
(* turn, over all attempts, stops and crashes (deliverInput, record_event). *)
THEOREM ChannelTypes ==
  ASSUME Bounds
  PROVE  Spec => []TypeOK
<1>1. ChannelInv => TypeOK
  BY InvTypes
<1> QED BY <1>1, ChannelAlways, PTL

(* Inputs are put to the model once each and in their order, an input that  *)
(* counts as applied was answered, one that is pending was never put to the *)
(* model, and the server records the events of an attempt once each, in the *)
(* order of its journal, whatever is lost, late or repeated (deliverInput,  *)
(* InputQueue.next, enqueue, replayEvents, record_event, reconcile_input).  *)
THEOREM ExchangedAlways ==
  ASSUME Bounds
  PROVE  Spec => []ExchangedOnce
<1>1. ChannelInv => ExchangedOnce
  BY InvExchanged
<1> QED BY <1>1, ChannelAlways, PTL

=============================================================================
