------------------------- MODULE RunnerCoordinator -------------------------
(***************************************************************************)
(* The device side of an attempt: the Coordinator of the runner service,   *)
(* the RuntimeSupervisor it drives, the journal entries both rely on, and  *)
(* the server routes they call (claims, leases, controls, stop evidence).  *)
(*                                                                         *)
(* Three activities of the one Node process interleave at their awaits:    *)
(* the poll loop, a session stop that can run beside it, and the runtime   *)
(* task with the event it reports.  Each has at most one request out; a    *)
(* request that failed for the runner may still reach the server later.    *)
(* A crash ends the three and leaves the journal, the containers, the      *)
(* server and what is still on the wire.                                   *)
(***************************************************************************)
EXTENDS Naturals, FiniteSets

CONSTANTS MaxAttempt,   \* claim keys, and so attempts, of a behaviour
          MaxEvents,    \* runtime events an attempt reports, the interruption aside
          MaxFaults,    \* failed requests, lapsed leases and failed stops
          MaxCrashes    \* times the process dies

Bounds == MaxAttempt \in Nat \ {0} /\ {MaxEvents, MaxFaults, MaxCrashes} \subseteq Nat

Attempt == 1..MaxAttempt
None == 0
LastEvent == MaxEvents + 1   \* an interruption may follow the events

VARIABLES srv,       \* the attempt rows of the server, by claim key
          claims,    \* journal: the claim entries
          events,    \* journal: how many events of an attempt are written, how many of
                     \* them acknowledged, and whether the last one is the interruption (cut)
          stops,     \* journal: the stop entries of an attempt
          box,       \* the attempts whose containers run
          task,      \* the runtime task of each attempt in this process
          blocked,   \* containment-recovery.json
          session,   \* the fields of the Coordinator
          loop,      \* where the poll loop is
          stopper,   \* where a session stop is
          call,      \* the request each activity waits for
          late,      \* abandoned requests the server may still receive
          budget     \* faults and crashes so far

journalVars == <<claims, events, stops>>
hostVars == <<box, task, blocked>>
runVars == <<session, loop, stopper>>
wireVars == <<call, late, budget>>
vars == <<srv, journalVars, hostVars, runVars, wireVars>>

Activity == {"loop", "stopper", "task"}
StopId == {"base", "next"}
Message == [kind: {"claim", "leases", "controls", "stop", "event", "interrupted"},
            a: Attempt \cup {None}, id: {"none"} \cup StopId, n: 0..LastEvent]
Msg(kind, a, id, n) == [kind |-> kind, a |-> a, id |-> id, n |-> n]
Effective == {"claim", "stop", "event", "interrupted"}   \* kinds that change the server
Quiet == [m |-> Msg("leases", None, "none", 0), reply |-> "idle"]

Leased == {a \in Attempt : srv[a].state = "active"}

(***************************************************************************)
(* The server's handlers, as the runner meets them.                        *)
(***************************************************************************)
(* One claim key makes one attempt, and a device with an active attempt    *)
(* gets no other; without a queued task the answer is empty.                *)
ServerClaim(a) ==
  \/ /\ srv[a].state = "none" /\ Leased = {}
     /\ srv' = [srv EXCEPT ![a].state = "active"]
  \/ UNCHANGED srv

(* The first stop event ends the attempt and is its receipt for good.      *)
ServerStop(a, id) ==
  srv' = IF srv[a].state = "active"
           THEN [srv EXCEPT ![a].state = "ended", ![a].receipt = id]
           ELSE srv

(* Events count while the attempt executes, each one once and in order.     *)
Continues(a) == srv[a].state = "active" /\ ~srv[a].stopAsked

ServerEvent(a, n) ==
  srv' = IF Continues(a) /\ n = srv[a].seen + 1
           THEN [srv EXCEPT ![a].seen = n] ELSE srv

(* attempt.interrupted is the next event too, and what became of the        *)
(* process is not known: it counts while the attempt has its lease.         *)
ServerInterrupted(a, n) ==
  srv' = IF srv[a].state = "active" /\ n = srv[a].seen + 1
           THEN [srv EXCEPT ![a].seen = n, ![a].stopAsked = TRUE] ELSE srv

Handle(m) ==
  CASE m.kind = "claim" -> ServerClaim(m.a)
    [] m.kind = "stop"  -> ServerStop(m.a, m.id)
    [] m.kind = "event" -> ServerEvent(m.a, m.n)
    [] m.kind = "interrupted" -> ServerInterrupted(m.a, m.n)
    [] OTHER            -> UNCHANGED srv

(* The answer, read in the state the handler leaves.  A refusal is a 400,   *)
(* which the transport reports as a policy error.                           *)
Reply(m) ==
  CASE m.kind = "claim"    -> IF srv'[m.a].state = "none" THEN "empty" ELSE "ok"
    [] m.kind = "stop"     -> IF srv'[m.a].receipt = m.id THEN "ok" ELSE "refused"
    [] m.kind \in {"event", "interrupted"} ->
         IF srv'[m.a].seen >= m.n THEN "ok" ELSE "refused"
    [] m.kind = "controls" -> IF Continues(m.a) THEN "ok" ELSE "stop"
    [] OTHER               -> "ok"

(* /runner/leases answers with the active attempt and its event cursor.     *)
Stamped(m) ==
  IF m.kind = "leases" /\ Leased # {}
    THEN LET a == CHOOSE x \in Leased : TRUE IN Msg("leases", a, "none", srv[a].seen)
    ELSE m

Receive(p) ==
  /\ call[p].reply = "waiting"
  /\ Handle(call[p].m)
  /\ call' = [call EXCEPT ![p] = [m |-> Stamped(@.m), reply |-> Reply(@.m)]]
  /\ UNCHANGED <<journalVars, hostVars, runVars, late, budget>>

LateArrival(m) ==
  /\ Handle(m)
  /\ late' = late \ {m}
  /\ UNCHANGED <<journalVars, hostVars, runVars, call, budget>>

(* A cancellation, a lost lease, a revoked access: the task shall end.      *)
AskStop(a) ==
  /\ srv[a].state = "active" /\ ~srv[a].stopAsked
  /\ srv' = [srv EXCEPT ![a].stopAsked = TRUE]
  /\ UNCHANGED <<journalVars, hostVars, runVars, wireVars>>

(***************************************************************************)
(* Requests.                                                               *)
(***************************************************************************)
Send(p, m) == call' = [call EXCEPT ![p] = [m |-> m, reply |-> "waiting"]]
HangUp(p) == call' = [call EXCEPT ![p] = Quiet]
Busy(p) == call[p].reply # "idle"

Fault == /\ budget.faults < MaxFaults
         /\ budget' = [budget EXCEPT !.faults = @ + 1]

Got(p, replies) == call[p].reply \in replies /\ UNCHANGED <<late, budget>>

(* No answer in time: the request was lost, its answer was lost, or it is   *)
(* still on its way.                                                        *)
TimedOut(p) ==
  /\ Busy(p)
  /\ Fault
  /\ \/ UNCHANGED late
     \/ /\ call[p].reply = "waiting" /\ call[p].m.kind \in Effective
        /\ late' = late \cup {call[p].m}

Refused(p) == Got(p, {"refused"})

(***************************************************************************)
(* The stop entries of the journal: "base" is stop:attempt:epoch, "next"   *)
(* the entry that supersedes it when the server's cursor is another.       *)
(***************************************************************************)
NextSequence(a) == events[a].written + 1
Superseded(a, seq) == stops[a].base = "pending" /\ stops[a].seq # seq

Entry(a, id) == IF id = "base" THEN stops[a].base ELSE stops[a].next

(* Coordinator.stopped: seq is the sequence a new entry would carry, and    *)
(* bySeq says that the server's cursor is known.                            *)
SentStop(a, seq, bySeq) == IF bySeq /\ Superseded(a, seq) THEN "next" ELSE "base"
\* Mutant: the entry that is superseded stays pending.
WriteStopBeside(a, seq, bySeq) ==
  stops' = [stops EXCEPT ![a] =
    IF @.base = "absent" THEN [@ EXCEPT !.base = "pending", !.seq = seq]
    ELSE IF bySeq /\ Superseded(a, seq) THEN [@ EXCEPT !.next = "pending"]
    ELSE @]

WriteStop(a, seq, bySeq) ==
  stops' = [stops EXCEPT ![a] =
    IF @.base = "absent" THEN [@ EXCEPT !.base = "pending", !.seq = seq]
    ELSE IF bySeq /\ Superseded(a, seq) THEN [@ EXCEPT !.base = "done", !.next = "pending"]
    ELSE @]
SilentlyDone(a) == stops[a].base = "done"

Acknowledge(m) ==
  stops' = [stops EXCEPT ![m.a] = IF m.id = "base" THEN [@ EXCEPT !.base = "done"]
                                                  ELSE [@ EXCEPT !.next = "done"]]

PendingStops(leased) ==
  {e \in (Attempt \ leased) \X StopId : Entry(e[1], e[2]) = "pending"}

(***************************************************************************)
(* The session and the runtime.                                            *)
(***************************************************************************)
Goto(pc) == loop' = [loop EXCEPT !.pc = pc]
Retired == [session EXCEPT !.active = None]
Stopping == stopper.pc # "none"

(* Effects of attempt a that this process can still cause.                 *)
Running(a) == a \in box \/ task[a] \in {"working", "dispatching"}

StartSession(a) ==
  /\ session' = [session EXCEPT !.active = a]
  /\ box' = box \cup {a}
  /\ task' = [task EXCEPT ![a] = "working"]

(* OperationBoundary and RemoteOperationBroker check the lease once more    *)
(* before a remote effect, then wait for the remote service.                *)
Dispatch(a) ==
  /\ session.active = a /\ ~session.failed
  /\ task[a] = "working" /\ ~Busy("task")
  /\ task' = [task EXCEPT ![a] = "dispatching"]
  /\ UNCHANGED <<srv, journalVars, box, blocked, runVars, wireVars>>

EffectDone(a) ==
  /\ task[a] = "dispatching"
  /\ task' = [task EXCEPT ![a] = "working"]
  /\ UNCHANGED <<srv, journalVars, box, blocked, runVars, wireVars>>

(* session.queue: what the task reports and what the loop asks for the      *)
(* session go out one after the other, each while the session has its lease. *)
InTurn(a) ==
  /\ session.active = a /\ ~session.failed
  /\ ~Busy("task") /\ loop.pc \notin {"events", "controls"}

Unreported(a) == events[a].written # events[a].acked
LastWritten(a) ==
  Msg(IF events[a].cut THEN "interrupted" ELSE "event", a, "none", events[a].written)

(* Coordinator.enqueue: the server still wants the attempt, and the event is *)
(* in the journal before it is sent.                                        *)
ReportEvent(a) ==
  /\ InTurn(a) /\ task[a] = "working" /\ Continues(a)
  /\ events[a].written < MaxEvents /\ ~Unreported(a)
  /\ events' = [events EXCEPT ![a].written = @ + 1]
  /\ Send("task", Msg("event", a, "none", events[a].written + 1))
  /\ UNCHANGED <<srv, claims, stops, hostVars, runVars, late, budget>>

(* It does not, or the question gets no answer: nothing is written, and the *)
(* runtime ends.                                                            *)
EventNotWritten(a) ==
  /\ InTurn(a) /\ task[a] = "working"
  /\ IF Continues(a) THEN Fault ELSE UNCHANGED budget
  /\ task' = [task EXCEPT ![a] = "failed"]
  /\ UNCHANGED <<srv, journalVars, box, blocked, runVars, call, late>>

Reporting == call["task"].m.kind \in {"event", "interrupted"}

EventAcknowledged ==
  LET m == call["task"].m IN
  /\ Reporting /\ Got("task", {"ok"})
  /\ events' = [events EXCEPT ![m.a].acked = m.n]
  /\ task' = [task EXCEPT ![m.a] = IF m.kind = "interrupted" THEN "ended" ELSE @]
  /\ HangUp("task")
  /\ UNCHANGED <<srv, claims, stops, box, blocked, runVars>>

(* The callback of the runtime rejects; the runtime then ends, or is over.  *)
EventFailed ==
  LET a == call["task"].m.a IN
  /\ Reporting
  /\ Refused("task") \/ TimedOut("task")
  /\ task' = [task EXCEPT ![a] = IF @ = "closing" THEN "ended" ELSE "failed"]
  /\ HangUp("task")
  /\ UNCHANGED <<srv, journalVars, box, blocked, runVars>>

(* RuntimeSupervisor.execute ends and closes its scope; runtimeTerminated   *)
(* retires a session that is still current and reports beside the loop.     *)
TaskEnds(a) ==
  /\ task[a] \in {"working", "failed"} /\ ~Busy("task")
  /\ task' = [task EXCEPT ![a] = "ended"]
  /\ box' = box \ {a}
  /\ IF session.active = a
       THEN /\ session' = Retired
            /\ stopper' = [pc |-> "reporting", a |-> a, strict |-> TRUE]
            /\ WriteStop(a, NextSequence(a), FALSE)
            /\ Send("stopper", Msg("stop", a, "base", 0))
       ELSE UNCHANGED <<session, stopper, stops, call>>
  /\ UNCHANGED <<srv, claims, events, blocked, loop, late, budget>>

(* The scope did not close: the session stays, and the server shall know    *)
(* that nobody knows whether the process runs.                              *)
TaskEndsUnconfirmed(a) ==
  /\ task[a] \in {"working", "failed"} /\ ~Busy("task") /\ a \in box
  /\ Fault
  /\ blocked' = TRUE
  /\ task' = [task EXCEPT ![a] = "closing"]
  /\ UNCHANGED <<srv, journalVars, box, runVars, call, late>>

(* attempt.interrupted goes through the same queue: an event that is still  *)
(* pending goes out first.                                                  *)
Interrupt(a) ==
  /\ InTurn(a) /\ task[a] = "closing"
  /\ IF Unreported(a)
       THEN Send("task", LastWritten(a)) /\ UNCHANGED events
       ELSE /\ Continues(a) /\ events[a].written < LastEvent
            /\ events' = [events EXCEPT ![a].written = @ + 1, ![a].cut = TRUE]
            /\ Send("task", Msg("interrupted", a, "none", events[a].written + 1))
  /\ UNCHANGED <<srv, claims, stops, hostVars, runVars, late, budget>>

(* It cannot be reported: the session or the attempt is over, or the        *)
(* controls are not known.                                                  *)
TaskClosed(a) ==
  /\ task[a] = "closing" /\ ~Busy("task")
  /\ IF session.active # a \/ session.failed \/ ~Continues(a) THEN UNCHANGED budget ELSE Fault
  /\ task' = [task EXCEPT ![a] = "ended"]
  /\ UNCHANGED <<srv, journalVars, box, blocked, runVars, call, late>>

(***************************************************************************)
(* Coordinator.stopSession, which the loop awaits or starts beside itself. *)
(***************************************************************************)
BeginStop(a, strict) ==
  /\ session' = Retired
  /\ stopper' = [pc |-> "killing", a |-> a, strict |-> strict]

(* The expiry timer of the session.                                        *)
Watchdog(a) ==
  /\ session.active = a
  /\ BeginStop(a, TRUE)
  /\ Fault
  /\ UNCHANGED <<srv, journalVars, hostVars, loop, call, late>>

(* collectInputs: an input failed; the stop is not awaited.                 *)
InputFailed(a) ==
  /\ session.active = a
  /\ session' = [Retired EXCEPT !.reconciled = FALSE]
  /\ stopper' = [pc |-> "killing", a |-> a, strict |-> TRUE]
  /\ Fault
  /\ UNCHANGED <<srv, journalVars, hostVars, loop, call, late>>

ScopeStopped ==
  /\ stopper.pc = "killing"
  /\ box' = box \ {stopper.a}
  /\ stopper' = [stopper EXCEPT !.pc = "settling"]
  /\ UNCHANGED <<srv, journalVars, task, blocked, session, loop, wireVars>>

(* RuntimeSupervisor.stop awaits the task before it confirms.               *)
StopConfirmed ==
  LET a == stopper.a IN
  /\ stopper.pc = "settling" /\ task[a] \in {"none", "ended"}
  /\ stopper' = [stopper EXCEPT !.pc = "reporting"]
  /\ WriteStop(a, NextSequence(a), FALSE)
  /\ Send("stopper", Msg("stop", a, "base", 0))
  /\ UNCHANGED <<srv, claims, events, hostVars, session, loop, late, budget>>

\* Mutant: an unconfirmed stop is reported like a confirmed one.
StopUnconfirmedReported ==
  /\ stopper.pc = "killing"
  /\ blocked' = TRUE
  /\ stopper' = [stopper EXCEPT !.pc = "settling"]
  /\ Fault
  /\ UNCHANGED <<srv, journalVars, box, task, session, loop, call, late>>

(* closeScope could not confirm: nothing may start before an inspection.    *)
StopUnconfirmed ==
  /\ stopper.pc = "killing"
  /\ blocked' = TRUE
  /\ session' = [session EXCEPT !.failed = TRUE, !.reconciled = FALSE]
  /\ stopper' = [stopper EXCEPT !.pc = "none"]
  /\ Fault
  /\ UNCHANGED <<srv, journalVars, box, task, loop, call, late>>

StopReported ==
  /\ stopper.pc = "reporting" /\ Got("stopper", {"ok"})
  /\ Acknowledge(call["stopper"].m)
  /\ HangUp("stopper")
  /\ stopper' = [stopper EXCEPT !.pc = "none"]
  /\ UNCHANGED <<srv, claims, events, hostVars, session, loop>>

\* Mutant: a lost report is left as it is.
StopNotReportedAccepted ==
  /\ stopper.pc = "reporting"
  /\ Refused("stopper") \/ TimedOut("stopper")
  /\ HangUp("stopper")
  /\ stopper' = [stopper EXCEPT !.pc = "none"]
  /\ UNCHANGED <<srv, journalVars, hostVars, session, loop>>

StopNotReported ==
  /\ stopper.pc = "reporting"
  /\ \E after \in {"idle", "exit"} :
       /\ IF after = "exit" THEN Refused("stopper") ELSE TimedOut("stopper")
       /\ loop' = IF loop.pc = "awaiting" THEN [loop EXCEPT !.after = after] ELSE loop
  /\ HangUp("stopper")
  /\ session' = [session EXCEPT !.reconciled = FALSE, !.failed = @ \/ stopper.strict]
  /\ stopper' = [stopper EXCEPT !.pc = "none"]
  /\ UNCHANGED <<srv, journalVars, hostVars>>

(***************************************************************************)
(* The poll loop: runService and Coordinator.tick, contain and recover.    *)
(***************************************************************************)
BeginContain(after) ==
  /\ session' = [Retired EXCEPT !.reconciled = FALSE]
  /\ loop' = [pc |-> IF session.active = None THEN "inspecting" ELSE "killing",
              a |-> session.active, after |-> after]

LoopScopeStopped ==
  /\ loop.pc = "killing"
  /\ box' = box \ {loop.a}
  /\ Goto("settling")
  /\ UNCHANGED <<srv, journalVars, task, blocked, session, stopper, wireVars>>

LoopSettled ==
  /\ loop.pc = "settling" /\ task[loop.a] \in {"none", "ended"}
  /\ Goto("inspecting")
  /\ UNCHANGED <<srv, journalVars, hostVars, session, stopper, wireVars>>

\* Mutant: a container this process did not start is not looked for.
InspectOwn ==
  /\ loop.pc = "inspecting"
  /\ blocked' = FALSE
  /\ loop' = [loop EXCEPT !.pc = loop.after, !.a = None]
  /\ UNCHANGED <<srv, journalVars, box, task, session, stopper, wireVars>>

Inspect ==
  /\ loop.pc = "inspecting"
  /\ IF box # {}
       THEN /\ \E a \in box : loop' = [loop EXCEPT !.pc = "killing", !.a = a]
            /\ UNCHANGED blocked
       ELSE /\ blocked' = FALSE
            /\ loop' = [loop EXCEPT !.pc = loop.after, !.a = None]
  /\ UNCHANGED <<srv, journalVars, box, task, session, stopper, wireVars>>

Tick ==
  /\ loop.pc = "idle" /\ ~session.reconciled
  /\ BeginContain("replaying")
  /\ UNCHANGED <<srv, journalVars, hostVars, stopper, wireVars>>

(* recover(): every claim without an answer goes out again, then the leases *)
(* of the server are asked for.                                             *)
Replay ==
  /\ loop.pc = "replaying"
  /\ IF \E a \in Attempt : claims[a] = "pending"
       THEN LET a == CHOOSE x \in Attempt : claims[x] = "pending"
            IN Send("loop", Msg("claim", a, "none", 0)) /\ Goto("replayed")
       ELSE Send("loop", Msg("leases", None, "none", 0)) /\ Goto("leases")
  /\ UNCHANGED <<srv, journalVars, hostVars, session, stopper, late, budget>>

ClaimEntry(a, reply) ==
  claims' = [claims EXCEPT ![a] = IF reply = "ok" THEN "attempt" ELSE "empty"]

Replayed ==
  /\ loop.pc = "replayed" /\ Got("loop", {"ok", "empty"})
  /\ ClaimEntry(call["loop"].m.a, call["loop"].reply)
  /\ HangUp("loop")
  /\ Goto("replaying")
  /\ UNCHANGED <<srv, events, stops, hostVars, session, stopper>>

\* Mutant: a stop that is written and not done is left to the other loop.
LeasesKnownOnce ==
  /\ loop.pc = "leases" /\ Got("loop", {"ok"})
  /\ LET a == call["loop"].m.a
         seq == call["loop"].m.n + 1
     IN IF a = None \/ stops[a].base # "absent"
          THEN /\ loop' = [loop EXCEPT !.pc = "resending", !.a = a]
               /\ HangUp("loop")
               /\ UNCHANGED stops
          ELSE /\ WriteStop(a, seq, TRUE)
               /\ Send("loop", Msg("stop", a, SentStop(a, seq, TRUE), 0))
               /\ loop' = [loop EXCEPT !.pc = "evidence", !.a = a]
  /\ UNCHANGED <<srv, claims, events, hostVars, session, stopper>>

(* A leased attempt is stopped evidence now: its containers are gone.       *)
LeasesKnown ==
  /\ loop.pc = "leases" /\ Got("loop", {"ok"})
  /\ LET a == call["loop"].m.a
         seq == call["loop"].m.n + 1
     IN IF a = None \/ SilentlyDone(a)
          THEN /\ loop' = [loop EXCEPT !.pc = "resending", !.a = a]
               /\ HangUp("loop")
               /\ UNCHANGED stops
          ELSE /\ WriteStop(a, seq, TRUE)
               /\ Send("loop", Msg("stop", a, SentStop(a, seq, TRUE), 0))
               /\ loop' = [loop EXCEPT !.pc = "evidence", !.a = a]
  /\ UNCHANGED <<srv, claims, events, hostVars, session, stopper>>

(* Stops of attempts the server no longer leases go out once more.          *)
Resend ==
  /\ loop.pc = "resending"
  /\ LET pending == PendingStops({loop.a} \ {None}) IN
     IF pending # {}
       THEN /\ \E p \in pending : Send("loop", Msg("stop", p[1], p[2], 0))
            /\ Goto("evidence")
            /\ UNCHANGED session
       ELSE /\ session' = [session EXCEPT !.reconciled = TRUE]
            /\ loop' = [loop EXCEPT !.pc = "idle", !.a = None]
            /\ UNCHANGED call
  /\ UNCHANGED <<srv, journalVars, hostVars, stopper, late, budget>>

EvidenceTaken ==
  /\ loop.pc = "evidence" /\ Got("loop", {"ok"})
  /\ Acknowledge(call["loop"].m)
  /\ HangUp("loop")
  /\ Goto("resending")
  /\ UNCHANGED <<srv, claims, events, hostVars, session, stopper>>

(* claimOnce: a claim key without an answer is used again.                  *)
Unanswered == {a \in Attempt : claims[a] = "pending"}
Fresh == {a \in Attempt : claims[a] = "absent"}
ClaimKey == IF Unanswered # {} THEN Unanswered
            ELSE {a \in Fresh : \A b \in Fresh : a <= b}

Claim ==
  /\ loop.pc = "idle" /\ session.reconciled /\ session.active = None
  /\ ~session.failed /\ ~Stopping /\ ~blocked
  /\ \E a \in ClaimKey :
       /\ claims' = [claims EXCEPT ![a] = "pending"]
       /\ Send("loop", Msg("claim", a, "none", 0))
  /\ Goto("claiming")
  /\ UNCHANGED <<srv, events, stops, hostVars, session, stopper, late, budget>>

ClaimRefused ==
  /\ loop.pc = "idle" /\ session.reconciled /\ session.failed
  /\ BeginContain("exit")
  /\ UNCHANGED <<srv, journalVars, hostVars, stopper, wireVars>>

(* The heartbeat that precedes a claim carries no lease; only its loss counts. *)
HeartbeatLost ==
  /\ loop.pc = "idle" /\ session.reconciled /\ session.active = None
  /\ Fault
  /\ BeginContain("idle")
  /\ UNCHANGED <<srv, journalVars, hostVars, stopper, call, late>>

Claimed ==
  /\ loop.pc = "claiming" /\ Got("loop", {"ok"})
  /\ LET a == call["loop"].m.a IN
     /\ ClaimEntry(a, "ok")
     /\ StartSession(a)
  /\ HangUp("loop")
  /\ Goto("idle")
  /\ UNCHANGED <<srv, events, stops, blocked, stopper>>

(* The owner's registry no longer matches the descriptor.                   *)
StartRefused ==
  /\ loop.pc = "claiming" /\ call["loop"].reply = "ok"
  /\ Fault
  /\ ClaimEntry(call["loop"].m.a, "ok")
  /\ HangUp("loop")
  /\ BeginContain("exit")
  /\ UNCHANGED <<srv, events, stops, hostVars, stopper, late>>

NothingClaimed ==
  /\ loop.pc = "claiming" /\ Got("loop", {"empty"})
  /\ ClaimEntry(call["loop"].m.a, "empty")
  /\ HangUp("loop")
  /\ Goto("idle")
  /\ UNCHANGED <<srv, events, stops, hostVars, session, stopper>>

(* A tick with a session, in the session's queue: an event that is still    *)
(* pending goes out, then the controls are asked for.                       *)
Poll ==
  LET a == session.active IN
  /\ loop.pc = "idle" /\ session.reconciled /\ a # None /\ ~Busy("task")
  /\ IF Unreported(a) THEN Send("loop", LastWritten(a)) /\ Goto("events")
                      ELSE Send("loop", Msg("controls", a, "none", 0)) /\ Goto("controls")
  /\ UNCHANGED <<srv, journalVars, hostVars, session, stopper, late, budget>>

(* A session that was retired meanwhile throws "retired", which is no       *)
(* transport error: the loop contains and the process ends.                 *)
EventReplayed ==
  LET m == call["loop"].m IN
  /\ loop.pc = "events" /\ Got("loop", {"ok"})
  /\ events' = [events EXCEPT ![m.a].acked = m.n]
  /\ IF session.active = m.a
       THEN /\ Send("loop", Msg("controls", m.a, "none", 0))
            /\ Goto("controls")
            /\ UNCHANGED session
       ELSE HangUp("loop") /\ BeginContain("exit")
  /\ UNCHANGED <<srv, claims, stops, hostVars, stopper>>

(* The loop stops the session and waits for that.                           *)
StopAndWait(a, keeps, after) ==
  /\ session' = [Retired EXCEPT !.reconciled = keeps /\ session.reconciled]
  /\ stopper' = [pc |-> "killing", a |-> a, strict |-> FALSE]
  /\ loop' = [loop EXCEPT !.pc = "awaiting", !.after = after]

(* What the controls, or the heartbeat after them, tell: that the attempt   *)
(* shall stop stops the session; if the question before the request tells   *)
(* it (refreshVersion), the process ends as well.                           *)
ControlsRead ==
  /\ loop.pc = "controls" /\ Got("loop", {"ok", "stop"})
  /\ HangUp("loop")
  /\ LET a == call["loop"].m.a IN
     CASE session.active # a -> BeginContain("exit") /\ UNCHANGED stopper
       [] session.active = a /\ call["loop"].reply = "ok" ->
            Goto("idle") /\ UNCHANGED <<session, stopper>>
       [] OTHER -> StopAndWait(a, TRUE, "idle") \/ StopAndWait(a, FALSE, "exit")
  /\ UNCHANGED <<srv, journalVars, hostVars>>

PollFailed ==
  /\ loop.pc \in {"events", "controls"}
  /\ HangUp("loop")
  /\ LET a == call["loop"].m.a IN
     \E after \in {"idle", "exit"} :
       /\ IF after = "exit" THEN Refused("loop") ELSE TimedOut("loop")
       /\ IF session.active = a THEN StopAndWait(a, FALSE, after)
                                ELSE BeginContain(after) /\ UNCHANGED stopper
  /\ UNCHANGED <<srv, journalVars, hostVars>>

StopAwaited ==
  /\ loop.pc = "awaiting" /\ ~Stopping
  /\ IF session.reconciled THEN Goto("idle") /\ UNCHANGED session
     ELSE BeginContain(IF session.failed THEN "exit" ELSE loop.after)
  /\ UNCHANGED <<srv, journalVars, hostVars, stopper, wireVars>>

(* A request of recover or claim failed: contain, then back off or, after a *)
(* refusal, end the process.                                                *)
RequestFailed ==
  /\ loop.pc \in {"replayed", "leases", "evidence", "claiming"}
  /\ \/ Refused("loop") /\ BeginContain("exit")
     \/ TimedOut("loop") /\ BeginContain("idle")
  /\ HangUp("loop")
  /\ UNCHANGED <<srv, journalVars, hostVars, stopper>>

(***************************************************************************)
(* The end and the start of the process.                                   *)
(***************************************************************************)
Dead == /\ task' = [a \in Attempt |-> IF task[a] = "none" THEN "none" ELSE "ended"]
        /\ session' = [active |-> None, reconciled |-> FALSE, failed |-> FALSE]
        /\ stopper' = [pc |-> "none", a |-> None, strict |-> FALSE]
        /\ loop' = [pc |-> "down", a |-> None, after |-> "idle"]
        /\ call' = [p \in Activity |-> Quiet]

InFlight == {call[p].m : p \in {q \in Activity : /\ call[q].reply = "waiting"
                                                 /\ call[q].m.kind \in Effective}}

(* SIGTERM between two ticks: stopActive, contain, exit.                    *)
Terminate ==
  /\ loop.pc = "idle" /\ budget.crashes < MaxCrashes
  /\ budget' = [budget EXCEPT !.crashes = @ + 1]
  /\ IF session.active # None THEN BeginStop(session.active, FALSE)
                              ELSE UNCHANGED <<session, stopper>>
  /\ Goto("stopping")
  /\ UNCHANGED <<srv, journalVars, hostVars, call, late>>

StopBeforeExit ==
  /\ loop.pc \in {"stopping", "exit"} /\ ~Stopping
  /\ IF loop.pc = "stopping"
       THEN /\ BeginContain("exit")
            /\ UNCHANGED <<task, stopper, call>>
       ELSE Dead
  /\ UNCHANGED <<srv, journalVars, box, blocked, late, budget>>

Crash ==
  /\ loop.pc # "down" /\ budget.crashes < MaxCrashes
  /\ budget' = [budget EXCEPT !.crashes = @ + 1]
  /\ Dead
  /\ late' \in {late, late \cup InFlight}
  /\ UNCHANGED <<srv, journalVars, box, blocked>>

(* stopped() completes the old entry before it writes the new one.          *)
CrashSuperseding ==
  /\ loop.pc = "leases" /\ call["loop"].reply = "ok"
  /\ LET a == call["loop"].m.a
     IN /\ a # None /\ Superseded(a, call["loop"].m.n + 1)
        /\ stops' = [stops EXCEPT ![a].base = "done"]
  /\ budget.crashes < MaxCrashes
  /\ budget' = [budget EXCEPT !.crashes = @ + 1]
  /\ Dead
  /\ UNCHANGED <<srv, claims, events, box, blocked, late>>

\* Mutant: the loop goes on although a container could not be stopped.
LoopUnconfirmedIgnored ==
  /\ loop.pc = "killing"
  /\ Fault
  /\ blocked' = TRUE
  /\ loop' = [loop EXCEPT !.pc = loop.after, !.a = None]
  /\ UNCHANGED <<srv, journalVars, box, task, session, stopper, call, late>>

LoopUnconfirmed ==
  /\ loop.pc = "killing"
  /\ Fault
  /\ blocked' = TRUE
  /\ Dead
  /\ UNCHANGED <<srv, journalVars, box, late>>

(* The run command contains before it polls.                                *)
Boot ==
  /\ loop.pc = "down"
  /\ loop' = [pc |-> "inspecting", a |-> None, after |-> "idle"]
  /\ UNCHANGED <<srv, journalVars, hostVars, session, stopper, wireVars>>

Init ==
  /\ srv = [a \in Attempt |-> [state |-> "none", stopAsked |-> FALSE, seen |-> 0,
                               receipt |-> "none"]]
  /\ claims = [a \in Attempt |-> "absent"]
  /\ events = [a \in Attempt |-> [written |-> 0, acked |-> 0, cut |-> FALSE]]
  /\ stops = [a \in Attempt |-> [base |-> "absent", seq |-> 0, next |-> "absent"]]
  /\ box = {}
  /\ task = [a \in Attempt |-> "none"]
  /\ blocked = FALSE
  /\ session = [active |-> None, reconciled |-> FALSE, failed |-> FALSE]
  /\ loop = [pc |-> "down", a |-> None, after |-> "idle"]
  /\ stopper = [pc |-> "none", a |-> None, strict |-> FALSE]
  /\ call = [p \in Activity |-> Quiet]
  /\ late = {}
  /\ budget = [faults |-> 0, crashes |-> 0]

LoopStep ==
  \/ LoopScopeStopped \/ LoopSettled \/ Inspect \/ Tick
  \/ Replay \/ Replayed \/ LeasesKnown \/ Resend \/ EvidenceTaken
  \/ Claim \/ ClaimRefused \/ Claimed \/ NothingClaimed
  \/ Poll \/ EventReplayed \/ ControlsRead \/ StopAwaited \/ StopBeforeExit \/ Boot
  \/ ((RequestFailed \/ PollFailed) /\ late' = late /\ budget' = budget)

StopperStep == ScopeStopped \/ StopConfirmed \/ StopReported

TaskStep == \/ \E a \in Attempt : \/ EffectDone(a) \/ TaskEnds(a) \/ Interrupt(a)
                                \/ (TaskClosed(a) /\ budget' = budget)
            \/ EventAcknowledged \/ (EventFailed /\ budget' = budget)

Next ==
  \/ LoopStep \/ StopperStep \/ TaskStep
  \/ RequestFailed \/ HeartbeatLost \/ PollFailed \/ StartRefused \/ LoopUnconfirmed
  \/ StopNotReported \/ StopUnconfirmed \/ EventFailed
  \/ Terminate \/ Crash \/ CrashSuperseding
  \/ \E a \in Attempt : \/ Dispatch(a) \/ ReportEvent(a) \/ EventNotWritten(a) \/ Watchdog(a)
                        \/ InputFailed(a) \/ AskStop(a)
                        \/ TaskEndsUnconfirmed(a) \/ TaskClosed(a)
  \/ \E p \in Activity : Receive(p)
  \/ \E m \in late : LateArrival(m)

(* The process goes on when it can, is started again when it is down, and   *)
(* the server answers what reaches it.                                      *)
Fairness ==
  /\ WF_vars(LoopStep)
  /\ WF_vars(StopperStep)
  /\ WF_vars(TaskStep)
  /\ \A p \in Activity : WF_vars(Receive(p))

Spec == Init /\ [][Next]_vars /\ Fairness

----------------------------------------------------------------------------
TypeOK ==
  /\ srv \in [Attempt -> [state: {"none", "active", "ended"}, stopAsked: BOOLEAN,
                          seen: 0..LastEvent, receipt: {"none"} \cup StopId]]
  /\ claims \in [Attempt -> {"absent", "pending", "empty", "attempt"}]
  /\ events \in [Attempt -> [written: 0..LastEvent, acked: 0..LastEvent, cut: BOOLEAN]]
  /\ stops \in [Attempt -> [base: {"absent", "pending", "done"}, seq: 0..(LastEvent + 1),
                            next: {"absent", "pending", "done"}]]
  /\ \A a \in Attempt : stops[a].next # "absent" => stops[a].base = "done"
  /\ box \subseteq Attempt
  /\ task \in [Attempt -> {"none", "working", "dispatching", "failed", "closing", "ended"}]
  /\ blocked \in BOOLEAN
  /\ session \in [active: Attempt \cup {None}, reconciled: BOOLEAN, failed: BOOLEAN]
  /\ loop \in [pc: {"down", "idle", "killing", "settling", "inspecting", "replaying",
                    "replayed", "leases", "evidence", "resending", "claiming", "events", "controls",
                    "awaiting", "stopping", "exit"},
               a: Attempt \cup {None}, after: {"idle", "replaying", "exit"}]
  /\ stopper \in [pc: {"none", "killing", "settling", "reporting"},
                  a: Attempt \cup {None}, strict: BOOLEAN]
  /\ call \in [Activity -> [m: Message,
                            reply: {"idle", "waiting", "ok", "empty", "stop", "refused"}]]
  /\ late \subseteq Message
  /\ budget \in [faults: 0..MaxFaults, crashes: 0..MaxCrashes]

(* Two attempts never have effects at once: not the containers of one that  *)
(* an earlier process left and the task of the next, nor a task that is     *)
(* still being stopped and the next claim's.                                *)
OneAttemptRuns == Cardinality({a \in Attempt : Running(a)}) <= 1

(* Stop evidence is written only after the containers of the attempt ended, *)
(* whichever of the three ways reports it.                                  *)
EvidenceAfterContainers == \A a \in Attempt : stops[a].base # "absent" => a \notin box

(* The server ends an attempt on evidence alone, so no attempt it ended is  *)
(* still running on the device in a container.                              *)
EndedIsContained == \A a \in Attempt : srv[a].state = "ended" => a \notin box

(* Neither the device nor the server takes an attempt for stopped while its *)
(* containers may have effects (stop, contain, stopped).                     *)
StoppedIsContained == EvidenceAfterContainers /\ EndedIsContained

(* README.md:162 "`stop` must confirm that effects have stopped": no remote *)
(* effect is under way once evidence of the stop exists.                    *)
StopEvidenceTruthful ==
  \A a \in Attempt : stops[a].base # "absent" => task[a] # "dispatching"

(* The stop of an attempt the server still leases was superseded, and the   *)
(* entry that supersedes it is in no request: stopped() finds the old entry *)
(* done and says nothing, and recover() sends only stops of attempts that   *)
(* are not leased.                                                          *)
Stranded(a) ==
  /\ srv[a].state = "active" /\ stops[a].base = "done"
  /\ \A p \in Activity : ~(Busy(p) /\ call[p].m.kind = "stop" /\ call[p].m.a = a)

(* Before a fresh claim key is used, every attempt the device was given has *)
(* ended at the server, or its stop was superseded and lost.                *)
NoLiveAttemptAtClaim ==
  \A a \in Attempt :
    (claims[a] = "absent" /\ claims'[a] = "pending")
      => \A b \in Attempt : claims[b] = "attempt" => srv[b].state # "active" \/ Stranded(b)
EvidenceBeforeClaim == [][NoLiveAttemptAtClaim]_vars

(* An attempt the server wants stopped is ended in the end, through lost    *)
(* requests, unconfirmed stops and restarts, or its stop was superseded and *)
(* lost.                                                                    *)
StopIsReported ==
  \A a \in Attempt :
    (srv[a].stopAsked /\ claims[a] = "attempt") ~> (srv[a].state = "ended" \/ Stranded(a))

(* What the runner's README.md:163 says, "reports stopped evidence before   *)
(* new claims", and the server counts on (agent_jobs.py:1636, "a lost       *)
(* execution ACK cannot prevent containment release"): neither excepts a    *)
(* stop that was superseded and lost, and neither holds.                    *)
EvidenceAlwaysFirst ==
  [][\A a \in Attempt : (claims[a] = "absent" /\ claims'[a] = "pending")
       => \A b \in Attempt : claims[b] = "attempt" => srv[b].state # "active"]_vars
StopAlwaysReported ==
  \A a \in Attempt : (srv[a].stopAsked /\ claims[a] = "attempt") ~> (srv[a].state = "ended")
============================================================================
