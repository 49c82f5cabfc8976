----------------------- MODULE RunnerCoordinatorProofs -----------------------
(***************************************************************************)
(* One attempt at a time has effects on a device, and what counts as       *)
(* stopped has no container left, for every number of attempts, events,    *)
(* faults and crashes.  Bounds, which says that these numbers are natural, *)
(* is the only assumption, and fairness plays no part.                     *)
(*                                                                         *)
(* The inductive invariant says who answers for an attempt that still has  *)
(* a container or a task: the session, a stop beside the loop, the loop    *)
(* itself while it contains, or the inspection a new process begins with.  *)
(***************************************************************************)
EXTENDS RunnerCoordinator, FiniteSetTheorems, TLAPS

USE DEF journalVars, hostVars, runVars, wireVars

Over == {"none", "ended"}
Containing == {"down", "inspecting", "killing", "settling"}
Recovering == {"replaying", "replayed", "leases", "evidence", "resending", "claiming"}

(* What can still have effects, or will before it is over.                  *)
Alive(a) == a \in box \/ task[a] \notin Over

(* What a message rests on: a claim on its entry, a stop on its entry.      *)
Wire(m) ==
  /\ m.kind \in Effective \cup {"controls"} => m.a \in Attempt
  /\ m.kind = "claim" => claims[m.a] # "absent"
  /\ m.kind = "stop" => m.id \in StopId /\ Entry(m.a, m.id) # "absent"
  /\ m.kind = "leases" /\ m.a # None => srv[m.a].state # "none"

WireInv == (\A p \in Activity : Wire(call[p].m)) /\ (\A m \in late : Wire(m))

(* The server knows of an attempt what the journal wrote before, and the    *)
(* journal has evidence only of attempts without a container.               *)
Evident(a) ==
  /\ claims[a] = "absent" => srv[a].state = "none"
  /\ srv[a].state = "ended" => stops[a].base # "absent"
  /\ stops[a].base # "absent" => claims[a] \in {"empty", "attempt"} /\ a \notin box
  /\ a \in box \/ task[a] # "none" => claims[a] = "attempt"

EvidenceInv == \A a \in Attempt : Evident(a)

(* Who answers for attempt a.                                               *)
InCharge(a) ==
  \/ session.active = a
  \/ stopper.a = a /\ stopper.pc \in {"killing", "settling"}
  \/ loop.a = a /\ loop.pc \in {"killing", "settling"}
  \/ session.failed
  \/ a \in box /\ task[a] \in Over /\ loop.pc \in Containing

Alone == \A a, b \in Attempt : Alive(a) /\ Alive(b) => a = b

Covered == \A a \in Attempt : Alive(a) => InCharge(a)

SessionInv ==
  /\ session.active # None =>
       /\ loop.pc \in {"idle", "events", "controls"} /\ stopper.pc = "none"
       /\ claims[session.active] = "attempt"
  /\ stopper.pc # "none" => /\ stopper.a \in Attempt /\ claims[stopper.a] = "attempt"
                            /\ loop.pc \notin {"down", "claiming"}
  /\ stopper.pc \in {"settling", "reporting"} => stopper.a \notin box
  /\ stopper.pc = "reporting" => call["stopper"].m.kind = "stop"

LoopInv ==
  /\ loop.pc \in Recovering => box = {}
  /\ loop.pc \in {"killing", "settling"} => loop.a \in Attempt
  /\ loop.pc = "settling" => loop.a \notin box
  /\ loop.pc \in {"replayed", "claiming"} =>
       call["loop"].m.kind = "claim" /\ claims[call["loop"].m.a] = "pending"
  /\ loop.pc = "leases" =>
       call["loop"].m.kind = "leases" /\ \A a \in Attempt : claims[a] # "pending"
  /\ loop.pc = "evidence" => call["loop"].m.kind = "stop"
  /\ loop.pc = "events" => call["loop"].m.kind \in {"event", "interrupted"}
  /\ loop.pc = "controls" => call["loop"].m.kind = "controls"
  /\ loop.pc \in {"down", "claiming"} => \A a \in Attempt : task[a] \in Over

(* The task waits for the answer to what it reports of itself.              *)
TaskInv ==
  call["task"].reply # "idle" =>
    \/ call["task"].m.kind = "event" /\ task[call["task"].m.a] \in {"working", "closing"}
    \/ call["task"].m.kind = "interrupted" /\ task[call["task"].m.a] = "closing"

CoordinatorInv ==
  /\ TypeOK /\ WireInv /\ EvidenceInv
  /\ Alone /\ Covered
  /\ SessionInv /\ LoopInv /\ TaskInv

-----------------------------------------------------------------------------
(* Rows and messages *)

SrvRow == [state: {"none", "active", "ended"}, stopAsked: BOOLEAN,
           seen: 0..LastEvent, receipt: {"none"} \cup StopId]
StopRow == [base: {"absent", "pending", "done"}, seq: 0..(LastEvent + 1),
            next: {"absent", "pending", "done"}]
CallRow == [m: Message, reply: {"idle", "waiting", "ok", "empty", "stop", "refused"}]

(* Attempts are numbers other than None, so that None stands for nobody.    *)
LEMMA Attempts ==
  ASSUME Bounds
  PROVE  /\ None \notin Attempt
         /\ MaxEvents \in Nat /\ LastEvent \in Nat /\ LastEvent = MaxEvents + 1
         /\ MaxFaults \in Nat /\ MaxCrashes \in Nat /\ MaxAttempt \in Nat
         /\ IsFiniteSet(Attempt)
<1>1. None \notin Attempt /\ IsFiniteSet(Attempt)
  BY FS_Interval DEF Bounds, Attempt, None
<1>2. MaxEvents \in Nat /\ MaxFaults \in Nat /\ MaxCrashes \in Nat /\ MaxAttempt \in Nat
  BY DEF Bounds
<1> QED BY <1>1, <1>2 DEF LastEvent

(* What the activities send is a message.                                   *)
LEMMA Messages ==
  ASSUME Bounds
  PROVE  /\ Quiet \in CallRow
         /\ Msg("leases", None, "none", 0) \in Message
         /\ \A a \in Attempt :
              /\ \A k \in {"claim", "controls"} : Msg(k, a, "none", 0) \in Message
              /\ \A id \in StopId : Msg("stop", a, id, 0) \in Message
              /\ \A n \in 0..LastEvent, k \in {"event", "interrupted", "leases"} :
                   Msg(k, a, "none", n) \in Message
<1> USE Attempts DEF Msg, Message, None
<1>1. Quiet \in CallRow /\ Msg("leases", None, "none", 0) \in Message
  BY DEF Quiet, CallRow
<1>2. ASSUME NEW a \in Attempt
      PROVE  /\ \A k \in {"claim", "controls"} : Msg(k, a, "none", 0) \in Message
             /\ \A id \in StopId : Msg("stop", a, id, 0) \in Message
             /\ \A n \in 0..LastEvent, k \in {"event", "interrupted", "leases"} :
                  Msg(k, a, "none", n) \in Message
  BY DEF StopId
<1> QED BY <1>1, <1>2

(* What the fields of a message are.                                        *)
LEMMA Fields ==
  ASSUME NEW k, NEW a, NEW id, NEW n
  PROVE  /\ Msg(k, a, id, n).kind = k /\ Msg(k, a, id, n).a = a
         /\ Msg(k, a, id, n).id = id /\ Msg(k, a, id, n).n = n
BY DEF Msg

(* A request of an activity is one of its own, and an answer is one too.    *)
LEMMA CallRows ==
  ASSUME call \in [Activity -> CallRow], NEW p \in Activity, NEW m \in Message
  PROVE  /\ Send(p, m) => call' \in [Activity -> CallRow] /\ call'[p].m = m
              /\ call'[p].reply = "waiting"
              /\ \A q \in Activity : q # p => call'[q] = call[q]
         /\ HangUp(p) => /\ call'[p] = Quiet
              /\ \A q \in Activity : q # p => call'[q] = call[q]
BY DEF Send, HangUp, CallRow

(* The server answers with its rows: it begins an attempt only for a claim, *)
(* ends one only for a stop, and forgets none.                              *)
LEMMA ServerMoves ==
  ASSUME Bounds, srv \in [Attempt -> SrvRow], NEW m \in Message,
         m.kind \in Effective => m.a \in Attempt, Handle(m)
  PROVE  /\ srv' \in [Attempt -> SrvRow]
         /\ \A a \in Attempt :
              \/ srv'[a].state = srv[a].state
              \/ /\ m.kind = "claim" /\ m.a = a
                 /\ srv[a].state = "none" /\ srv'[a].state = "active"
              \/ /\ m.kind = "stop" /\ m.a = a
                 /\ srv[a].state = "active" /\ srv'[a].state = "ended"
<1>1. CASE m.kind = "claim"
  BY <1>1 DEF Handle, ServerClaim, Effective, SrvRow
<1>2. CASE m.kind = "stop"
  <2>1. m.a \in Attempt /\ m.id \in {"none"} \cup StopId
    BY <1>2 DEF Effective, Message
  <2>2. srv' = srv \/ srv' = [srv EXCEPT ![m.a].state = "ended", ![m.a].receipt = m.id]
    BY <1>2 DEF Handle, ServerStop
  <2>3. srv' # srv => srv[m.a].state = "active"
    BY <1>2 DEF Handle, ServerStop
  <2> QED BY <1>2, <2>1, <2>2, <2>3 DEF SrvRow
<1>3. CASE m.kind = "event"
  <2>1. m.a \in Attempt /\ m.n \in 0..LastEvent
    BY <1>3 DEF Effective, Message
  <2>2. srv' = srv \/ srv' = [srv EXCEPT ![m.a].seen = m.n]
    BY <1>3 DEF Handle, ServerEvent
  <2> QED BY <2>1, <2>2 DEF SrvRow
<1>4. CASE m.kind = "interrupted"
  <2>1. m.a \in Attempt /\ m.n \in 0..LastEvent
    BY <1>4 DEF Effective, Message
  <2> DEFINE row == [srv[m.a] EXCEPT !.seen = m.n, !.stopAsked = TRUE]
  <2>2. row \in SrvRow /\ row.state = srv[m.a].state
    BY <2>1 DEF SrvRow
  <2>3. srv' = srv \/ srv' = [srv EXCEPT ![m.a] = row]
    BY <1>4 DEF Handle, ServerInterrupted
  <2> HIDE DEF row
  <2> QED BY <2>1, <2>2, <2>3
<1>5. CASE m.kind \notin Effective
  BY <1>5 DEF Handle, Effective
<1>6. \/ m.kind = "claim" \/ m.kind = "stop" \/ m.kind = "event" \/ m.kind = "interrupted"
      \/ m.kind \notin Effective
  BY DEF Effective
<1> QED BY <1>1, <1>2, <1>3, <1>4, <1>5, <1>6

-----------------------------------------------------------------------------
(* Types *)

JournalTypes ==
  /\ claims \in [Attempt -> {"absent", "pending", "empty", "attempt"}]
  /\ events \in [Attempt -> [written: 0..LastEvent, acked: 0..LastEvent, cut: BOOLEAN]]
  /\ stops \in [Attempt -> StopRow]
  /\ \A a \in Attempt : stops[a].next # "absent" => stops[a].base = "done"

HostTypes ==
  /\ box \subseteq Attempt
  /\ task \in [Attempt -> {"none", "working", "dispatching", "failed", "closing", "ended"}]
  /\ blocked \in BOOLEAN

LoopPc == {"down", "idle", "killing", "settling", "inspecting", "replaying", "replayed", "leases",
           "evidence", "resending", "claiming", "events", "controls", "awaiting", "stopping", "exit"}
SessionRow == [active: Attempt \cup {None}, reconciled: BOOLEAN, failed: BOOLEAN]
LoopRow == [pc: LoopPc, a: Attempt \cup {None}, after: {"idle", "replaying", "exit"}]
StopperRow == [pc: {"none", "killing", "settling", "reporting"}, a: Attempt \cup {None},
               strict: BOOLEAN]

RunTypes == session \in SessionRow /\ loop \in LoopRow /\ stopper \in StopperRow

WireTypes ==
  /\ call \in [Activity -> CallRow]
  /\ late \subseteq Message
  /\ budget \in [faults: 0..MaxFaults, crashes: 0..MaxCrashes]

ServerTypes == srv \in [Attempt -> SrvRow]

LEMMA Types ==
  /\ TypeOK => ServerTypes /\ JournalTypes /\ HostTypes /\ RunTypes /\ WireTypes
  /\ ServerTypes' /\ JournalTypes' /\ HostTypes' /\ RunTypes' /\ WireTypes' => TypeOK'
BY DEF TypeOK, ServerTypes, SrvRow, JournalTypes, StopRow, HostTypes, RunTypes, SessionRow,
   LoopRow, LoopPc, StopperRow, WireTypes, CallRow

(* What is sent once more is an event of its attempt.                       *)
LEMMA LastWrittenSent ==
  ASSUME Bounds, JournalTypes, NEW a \in Attempt
  PROVE  /\ LastWritten(a) \in Message /\ LastWritten(a).a = a
         /\ LastWritten(a).kind \in {"event", "interrupted"}
<1>1. events[a].written \in 0..LastEvent
  BY DEF JournalTypes
<1> QED BY <1>1, Messages, Fields DEF LastWritten

(* A fault or a crash within the bounds.                                    *)
LEMMA Budgets ==
  ASSUME Bounds, WireTypes
  PROVE  /\ Fault => budget' \in [faults: 0..MaxFaults, crashes: 0..MaxCrashes]
         /\ budget.crashes < MaxCrashes /\ budget' = [budget EXCEPT !.crashes = @ + 1] =>
              budget' \in [faults: 0..MaxFaults, crashes: 0..MaxCrashes]
BY Attempts DEF WireTypes, Fault

(* The wire after what an activity does with its request.                   *)
LEMMA WireMoves ==
  ASSUME Bounds, WireTypes, NEW p \in Activity
  PROVE  /\ \A R : Got(p, R) => late' \subseteq Message /\ budget' = budget
         /\ TimedOut(p) \/ Refused(p) =>
              /\ late' \subseteq Message
              /\ budget' \in [faults: 0..MaxFaults, crashes: 0..MaxCrashes]
         /\ HangUp(p) => call' \in [Activity -> CallRow]
         /\ \A m \in Message : Send(p, m) => call' \in [Activity -> CallRow]
<1>1. call[p].m \in Message /\ Quiet \in CallRow
  BY Attempts DEF WireTypes, CallRow, Quiet, Msg, Message, None
<1>2. HangUp(p) => call' \in [Activity -> CallRow]
  BY <1>1 DEF HangUp, WireTypes
<1>3. ASSUME NEW m \in Message, Send(p, m) PROVE call' \in [Activity -> CallRow]
  BY <1>3 DEF Send, WireTypes, CallRow
<1>4. TimedOut(p) => late' \subseteq Message
  BY <1>1 DEF TimedOut, WireTypes
<1> QED BY <1>2, <1>3, <1>4, Budgets DEF TimedOut, Refused, Got, WireTypes

(* The process and its two programs after the steps they share.             *)
LEMMA RunMoves ==
  ASSUME Bounds, RunTypes
  PROVE  /\ \A after \in {"idle", "replaying", "exit"} :
              BeginContain(after) => session' \in SessionRow /\ loop' \in LoopRow
         /\ \A a \in Attempt, strict \in BOOLEAN :
              BeginStop(a, strict) => session' \in SessionRow /\ stopper' \in StopperRow
         /\ \A a \in Attempt, keeps \in BOOLEAN, after \in {"idle", "exit"} :
              StopAndWait(a, keeps, after) => RunTypes'
         /\ \A pc \in LoopPc : Goto(pc) => loop' \in LoopRow
<1>1. Retired \in SessionRow /\ [Retired EXCEPT !.reconciled = FALSE] \in SessionRow
  BY DEF RunTypes, SessionRow, Retired
<1>2. ASSUME NEW after \in {"idle", "replaying", "exit"}, BeginContain(after)
      PROVE  session' \in SessionRow /\ loop' \in LoopRow
  <2>1. session.active \in Attempt \cup {None}
    BY DEF RunTypes, SessionRow
  <2> QED BY <1>1, <1>2, <2>1 DEF BeginContain, LoopRow, LoopPc
<1>3. ASSUME NEW a \in Attempt, NEW strict \in BOOLEAN, BeginStop(a, strict)
      PROVE  session' \in SessionRow /\ stopper' \in StopperRow
  BY <1>1, <1>3 DEF BeginStop, StopperRow
<1>4. ASSUME NEW pc \in LoopPc, Goto(pc) PROVE loop' \in LoopRow
  BY <1>4 DEF RunTypes, Goto, LoopRow
<1>5. ASSUME NEW a \in Attempt, NEW keeps \in BOOLEAN, NEW after \in {"idle", "exit"},
             StopAndWait(a, keeps, after)
      PROVE  RunTypes'
  <2>1. session' \in SessionRow
    BY <1>1, <1>5 DEF StopAndWait, SessionRow
  <2>2. loop' \in LoopRow
    BY <1>5 DEF StopAndWait, RunTypes, LoopRow, LoopPc
  <2>3. stopper' \in StopperRow
    BY <1>5 DEF StopAndWait, StopperRow
  <2> QED BY <2>1, <2>2, <2>3 DEF RunTypes
<1> QED BY <1>2, <1>3, <1>4, <1>5

LEMMA DeadTypes ==
  ASSUME Bounds, HostTypes, WireTypes, Dead
  PROVE  /\ task' \in [Attempt -> {"none", "ended"}]
         /\ RunTypes' /\ call' \in [Activity -> CallRow]
         /\ \A a \in Attempt : task[a] = "none" <=> task'[a] = "none"
<1>1. Quiet \in CallRow
  BY Attempts DEF CallRow, Quiet, Msg, Message, None
<1>2. RunTypes'
  BY DEF Dead, RunTypes, SessionRow, LoopRow, LoopPc, StopperRow, None
<1> QED BY <1>1, <1>2 DEF Dead, HostTypes

(* What is left alone keeps its type.                                       *)
LEMMA TypesUnchanged ==
  /\ UNCHANGED srv /\ ServerTypes => ServerTypes'
  /\ UNCHANGED journalVars /\ JournalTypes => JournalTypes'
  /\ UNCHANGED hostVars /\ HostTypes => HostTypes'
  /\ UNCHANGED runVars /\ RunTypes => RunTypes'
  /\ UNCHANGED wireVars /\ WireTypes => WireTypes'
BY DEF ServerTypes, JournalTypes, HostTypes, RunTypes, WireTypes

(* An entry of the journal that is written, sent or acknowledged.           *)
LEMMA ClaimTypes ==
  ASSUME JournalTypes, NEW a \in Attempt, UNCHANGED <<events, stops>>
  PROVE  /\ \A r : ClaimEntry(a, r) => JournalTypes'
         /\ claims' = [claims EXCEPT ![a] = "pending"] => JournalTypes'
BY DEF JournalTypes, ClaimEntry

LEMMA StopTypes ==
  ASSUME Bounds, JournalTypes, NEW a \in Attempt, UNCHANGED <<claims, events>>
  PROVE  /\ \A seq \in 0..(LastEvent + 1), b \in BOOLEAN : WriteStop(a, seq, b) => JournalTypes'
         /\ \A m : m.kind = "stop" /\ m.a = a /\ Wire(m) /\ Acknowledge(m) => JournalTypes'
         /\ NextSequence(a) \in 0..(LastEvent + 1)
<1> DEFINE row == stops[a]
<1>1. row \in StopRow /\ (row.next # "absent" => row.base = "done")
  BY DEF JournalTypes
<1>2. ASSUME NEW r \in StopRow, r.next # "absent" => r.base = "done",
             stops' = [stops EXCEPT ![a] = r]
      PROVE  JournalTypes'
  BY <1>2 DEF JournalTypes
<1>3. /\ \A seq \in 0..(LastEvent + 1) : [row EXCEPT !.base = "pending", !.seq = seq] \in StopRow
      /\ [row EXCEPT !.next = "pending"] \in StopRow
      /\ [row EXCEPT !.base = "done", !.next = "pending"] \in StopRow
      /\ [row EXCEPT !.base = "done"] \in StopRow
      /\ [row EXCEPT !.next = "done"] \in StopRow
  BY <1>1 DEF StopRow
<1>4. ASSUME NEW seq \in 0..(LastEvent + 1), NEW b \in BOOLEAN, WriteStop(a, seq, b)
      PROVE  JournalTypes'
  <2> DEFINE r == IF row.base = "absent" THEN [row EXCEPT !.base = "pending", !.seq = seq]
                  ELSE IF b /\ Superseded(a, seq)
                    THEN [row EXCEPT !.base = "done", !.next = "pending"] ELSE row
  <2>1. r \in StopRow /\ (r.next # "absent" => r.base = "done")
    BY <1>1, <1>3 DEF StopRow
  <2>2. stops' = [stops EXCEPT ![a] = r]
    BY <1>4 DEF WriteStop
  <2> HIDE DEF r
  <2> QED BY <1>2, <2>1, <2>2
<1>5. ASSUME NEW m, m.kind = "stop", m.a = a, Wire(m), Acknowledge(m) PROVE JournalTypes'
  <2> DEFINE r == IF m.id = "base" THEN [row EXCEPT !.base = "done"]
                                   ELSE [row EXCEPT !.next = "done"]
  <2>1. m.id # "base" => row.next # "absent"
    BY <1>5 DEF Wire, Entry
  <2>2. r \in StopRow /\ (r.next # "absent" => r.base = "done")
    BY <1>1, <1>3, <2>1 DEF StopRow
  <2>3. stops' = [stops EXCEPT ![a] = r]
    BY <1>5 DEF Acknowledge
  <2> HIDE DEF r
  <2> QED BY <1>2, <2>2, <2>3
<1>6. NextSequence(a) \in 0..(LastEvent + 1)
  BY Attempts DEF JournalTypes, NextSequence
<1> QED BY <1>4, <1>5, <1>6

(* The poll loop.                                                           *)
LEMMA LoopTypes ==
  ASSUME Bounds, CoordinatorInv,
         LoopStep \/ RequestFailed \/ HeartbeatLost \/ PollFailed \/ StartRefused
         \/ LoopUnconfirmed
  PROVE  TypeOK'
<1> USE TypesUnchanged
<1>a. ServerTypes /\ JournalTypes /\ HostTypes /\ RunTypes /\ WireTypes
  BY Types DEF CoordinatorInv
<1>b. "loop" \in Activity /\ call["loop"].m \in Message /\ call["loop"] \in CallRow
  BY <1>a DEF WireTypes, CallRow, Activity
<1>c. loop.a \in Attempt \cup {None} /\ loop.after \in {"idle", "replaying", "exit"}
      /\ session.active \in Attempt \cup {None}
  BY <1>a DEF RunTypes, LoopRow, SessionRow
<1>d. WireInv /\ Wire(call["loop"].m)
  BY <1>b DEF CoordinatorInv, WireInv
<1>e. loop.pc = "inspecting" => [loop EXCEPT !.pc = loop.after, !.a = None] \in LoopRow
  BY <1>a, <1>c DEF RunTypes, LoopRow, LoopPc
<1>1. CASE LoopScopeStopped
  BY <1>1, <1>a, RunMoves, Types DEF LoopScopeStopped, HostTypes, RunTypes, LoopPc
<1>2. CASE LoopSettled \/ Boot
  BY <1>2, <1>a, RunMoves, Types DEF LoopSettled, Boot, RunTypes, LoopPc, LoopRow, None
<1>3. CASE Inspect
  <2>1. \A a \in Attempt : [loop EXCEPT !.pc = "killing", !.a = a] \in LoopRow
    BY <1>a DEF RunTypes, LoopRow, LoopPc
  <2>2. loop' \in LoopRow
    BY <1>3, <1>a, <1>e, <2>1 DEF Inspect, HostTypes
  <2>3. blocked' \in BOOLEAN
    BY <1>3, <1>a DEF Inspect, HostTypes
  <2> QED BY <1>3, <1>a, <2>2, <2>3, Types DEF Inspect, HostTypes, RunTypes
<1>4. CASE Tick \/ ClaimRefused
  BY <1>4, <1>a, RunMoves, Types DEF Tick, ClaimRefused, RunTypes
<1>5. CASE Replay
  <2>1. \/ \E a \in Attempt : Send("loop", Msg("claim", a, "none", 0)) /\ Goto("replayed")
        \/ Send("loop", Msg("leases", None, "none", 0)) /\ Goto("leases")
    BY <1>5 DEF Replay
  <2>2. loop' \in LoopRow
    BY <1>a, <2>1, RunMoves DEF LoopPc
  <2>3. call' \in [Activity -> CallRow]
    <3>1. ASSUME NEW a \in Attempt, Send("loop", Msg("claim", a, "none", 0))
          PROVE  call' \in [Activity -> CallRow]
      BY <1>a, <1>b, <3>1, WireMoves, Messages
    <3>2. ASSUME Send("loop", Msg("leases", None, "none", 0))
          PROVE  call' \in [Activity -> CallRow]
      BY <1>a, <1>b, <3>2, WireMoves, Messages
    <3> QED BY <2>1, <3>1, <3>2
  <2> QED BY <1>5, <1>a, <2>2, <2>3, Types DEF Replay, RunTypes, WireTypes
<1>6. CASE Replayed
  BY <1>6, <1>a, <1>b, <1>d, RunMoves, WireMoves, ClaimTypes, Types
  DEF Replayed, RunTypes, WireTypes, LoopPc, CoordinatorInv, LoopInv, Wire, Effective
<1>7. CASE LeasesKnown
  <2> DEFINE a == call["loop"].m.a
             seq == call["loop"].m.n + 1
  <2>1. a \in Attempt \cup {None} /\ seq \in 0..(LastEvent + 1)
    BY <1>b, Attempts DEF Message
  <2>2. /\ loop' = [loop EXCEPT !.pc = "resending", !.a = a]
           \/ loop' = [loop EXCEPT !.pc = "evidence", !.a = a]
        /\ \/ HangUp("loop") /\ UNCHANGED stops
           \/ /\ a # None /\ WriteStop(a, seq, TRUE)
              /\ Send("loop", Msg("stop", a, SentStop(a, seq, TRUE), 0))
    BY <1>7 DEF LeasesKnown
  <2>3. SentStop(a, seq, TRUE) \in StopId
    BY DEF SentStop, StopId
  <2>4. late' = late /\ budget' = budget /\ UNCHANGED <<srv, claims, events, hostVars, session, stopper>>
    BY <1>7 DEF LeasesKnown, Got
  <2> HIDE DEF a, seq
  <2>5. loop' \in LoopRow
    BY <1>a, <2>1, <2>2 DEF RunTypes, LoopRow, LoopPc
  <2>6. JournalTypes'
    BY <1>a, <2>1, <2>2, <2>4, StopTypes
  <2>7. call' \in [Activity -> CallRow]
    BY <1>a, <1>b, <2>1, <2>2, <2>3, WireMoves, Messages
  <2> QED BY <1>a, <2>4, <2>5, <2>6, <2>7, Types DEF RunTypes, WireTypes
<1>8. CASE Resend
  <2>1. CASE /\ \E p \in PendingStops({loop.a} \ {None}) : Send("loop", Msg("stop", p[1], p[2], 0))
             /\ Goto("evidence") /\ UNCHANGED session
    <3>1. PICK p \in Attempt \X StopId : Send("loop", Msg("stop", p[1], p[2], 0))
      BY <1>c, <2>1 DEF PendingStops
    <3>2. Msg("stop", p[1], p[2], 0) \in Message
      BY Messages
    <3>3. call' \in [Activity -> CallRow]
      BY <1>a, <1>b, <3>1, <3>2, WireMoves
    <3>4. loop' \in LoopRow
      BY <1>a, <2>1, RunMoves DEF LoopPc
    <3> QED BY <1>8, <1>a, <2>1, <3>3, <3>4, Types DEF Resend, RunTypes, WireTypes
  <2>2. CASE /\ session' = [session EXCEPT !.reconciled = TRUE]
             /\ loop' = [loop EXCEPT !.pc = "idle", !.a = None] /\ UNCHANGED call
    <3>1. session' \in SessionRow /\ loop' \in LoopRow
      BY <1>a, <2>2 DEF RunTypes, SessionRow, LoopRow, LoopPc
    <3> QED BY <1>8, <1>a, <2>2, <3>1, Types DEF Resend, RunTypes, WireTypes
  <2> QED BY <1>8, <2>1, <2>2 DEF Resend
<1>9. CASE EvidenceTaken
  BY <1>9, <1>a, <1>b, <1>d, RunMoves, WireMoves, StopTypes, Types
  DEF EvidenceTaken, RunTypes, WireTypes, LoopPc, CoordinatorInv, LoopInv, Wire, Effective
<1>10. CASE Claim
  BY <1>10, <1>a, <1>b, RunMoves, WireMoves, Messages, ClaimTypes, Types
  DEF Claim, RunTypes, WireTypes, LoopPc, ClaimKey, Unanswered, Fresh
<1>11. CASE Claimed
  BY <1>11, <1>a, <1>b, <1>d, RunMoves, WireMoves, ClaimTypes, Types
  DEF Claimed, StartSession, RunTypes, HostTypes, SessionRow, WireTypes, LoopPc, CoordinatorInv,
      LoopInv, Wire, Effective
<1>12. CASE NothingClaimed
  BY <1>12, <1>a, <1>b, <1>d, RunMoves, WireMoves, ClaimTypes, Types
  DEF NothingClaimed, RunTypes, WireTypes, LoopPc, CoordinatorInv, LoopInv, Wire, Effective
<1>13. CASE Poll
  <2> DEFINE a == session.active
  <2>1. /\ a \in Attempt
        /\ UNCHANGED <<srv, journalVars, hostVars, session, stopper, late, budget>>
        /\ \/ Send("loop", LastWritten(a)) /\ Goto("events")
           \/ Send("loop", Msg("controls", a, "none", 0)) /\ Goto("controls")
    BY <1>13, <1>c DEF Poll
  <2>2. LastWritten(a) \in Message /\ Msg("controls", a, "none", 0) \in Message
    BY <1>a, <2>1, LastWrittenSent, Messages
  <2> HIDE DEF a
  <2>3. call' \in [Activity -> CallRow] /\ loop' \in LoopRow
    BY <1>a, <1>b, <2>1, <2>2, WireMoves, RunMoves DEF LoopPc
  <2> QED BY <1>a, <2>1, <2>3, Types DEF RunTypes, WireTypes
<1>14. CASE ControlsRead
  <2> DEFINE a == call["loop"].m.a
  <2>1. a \in Attempt
    BY <1>14, <1>d DEF ControlsRead, CoordinatorInv, LoopInv, Wire
  <2>2. /\ UNCHANGED <<srv, journalVars, hostVars, late, budget>> /\ HangUp("loop")
        /\ \/ BeginContain("exit") /\ UNCHANGED stopper
           \/ Goto("idle") /\ UNCHANGED <<session, stopper>>
           \/ StopAndWait(a, TRUE, "idle") \/ StopAndWait(a, FALSE, "exit")
    BY <1>14 DEF ControlsRead, Got
  <2> HIDE DEF a
  <2>3. RunTypes'
    BY <1>a, <2>1, <2>2, RunMoves DEF RunTypes, LoopPc
  <2> QED BY <1>a, <1>b, <2>2, <2>3, WireMoves, Types DEF WireTypes
<1>15. CASE PollFailed
  <2> DEFINE a == call["loop"].m.a
  <2>1. a \in Attempt
    BY <1>15, <1>d DEF PollFailed, CoordinatorInv, LoopInv, Wire, Effective
  <2>2. PICK after \in {"idle", "exit"} :
          /\ UNCHANGED <<srv, journalVars, hostVars>> /\ HangUp("loop")
          /\ Refused("loop") \/ TimedOut("loop")
          /\ StopAndWait(a, FALSE, after) \/ (BeginContain(after) /\ UNCHANGED stopper)
    BY <1>15 DEF PollFailed
  <2> HIDE DEF a
  <2>3. RunTypes'
    BY <1>a, <2>1, <2>2, RunMoves DEF RunTypes
  <2> QED BY <1>a, <1>b, <2>2, <2>3, WireMoves, Types DEF WireTypes
<1>22. CASE EventReplayed
  <2> DEFINE m == call["loop"].m
  <2>1. m.a \in Attempt /\ m.n \in 0..LastEvent
    BY <1>22, <1>b, <1>d DEF EventReplayed, CoordinatorInv, LoopInv, Wire, Effective, Message
  <2>2. /\ UNCHANGED <<srv, claims, stops, hostVars, stopper, late, budget>>
        /\ events' = [events EXCEPT ![m.a].acked = m.n]
        /\ \/ /\ Send("loop", Msg("controls", m.a, "none", 0)) /\ Goto("controls")
              /\ UNCHANGED session
           \/ HangUp("loop") /\ BeginContain("exit")
    BY <1>22 DEF EventReplayed, Got
  <2> HIDE DEF m
  <2>3. JournalTypes'
    BY <1>a, <2>1, <2>2 DEF JournalTypes
  <2>4. RunTypes'
    BY <1>a, <2>2, RunMoves DEF RunTypes, LoopPc
  <2>5. call' \in [Activity -> CallRow]
    BY <1>a, <1>b, <2>1, <2>2, WireMoves, Messages
  <2>6. ServerTypes' /\ HostTypes' /\ WireTypes'
    BY <1>a, <2>2, <2>5 DEF WireTypes
  <2> QED BY <2>3, <2>4, <2>6, Types
<1>16. CASE StopAwaited
  BY <1>16, <1>a, <1>c, RunMoves, Types DEF StopAwaited, RunTypes, LoopPc
<1>17. CASE StopBeforeExit
  BY <1>17, <1>a, RunMoves, DeadTypes, Types DEF StopBeforeExit, RunTypes, HostTypes, WireTypes
<1>18. CASE RequestFailed
  BY <1>18, <1>a, <1>b, RunMoves, WireMoves, Types DEF RequestFailed, RunTypes, WireTypes
<1>19. CASE HeartbeatLost
  BY <1>19, <1>a, RunMoves, Budgets, Types DEF HeartbeatLost, RunTypes, WireTypes
<1>20. CASE StartRefused
  BY <1>20, <1>a, <1>b, <1>d, RunMoves, WireMoves, ClaimTypes, Budgets, Types
  DEF StartRefused, RunTypes, WireTypes, CoordinatorInv, LoopInv, Wire, Effective
<1>21. CASE LoopUnconfirmed
  BY <1>21, <1>a, DeadTypes, Budgets, Types DEF LoopUnconfirmed, HostTypes, WireTypes
<1> QED BY <1>1, <1>2, <1>3, <1>4, <1>5, <1>6, <1>7, <1>8, <1>9, <1>10, <1>11, <1>12, <1>13,
  <1>14, <1>15, <1>16, <1>17, <1>18, <1>19, <1>20, <1>21, <1>22 DEF LoopStep

(* A stop beside the loop, and what starts one.                             *)
LEMMA StopperTypes ==
  ASSUME Bounds, CoordinatorInv,
         StopperStep \/ StopNotReported \/ StopUnconfirmed \/ Terminate
         \/ \E a \in Attempt : Watchdog(a) \/ InputFailed(a)
  PROVE  TypeOK'
<1> USE TypesUnchanged
<1>a. ServerTypes /\ JournalTypes /\ HostTypes /\ RunTypes /\ WireTypes
  BY Types DEF CoordinatorInv
<1>b. "stopper" \in Activity /\ call["stopper"].m \in Message /\ Wire(call["stopper"].m)
  BY <1>a DEF WireTypes, CallRow, Activity, CoordinatorInv, WireInv
<1>c. /\ \A pc \in {"none", "settling", "reporting"} : [stopper EXCEPT !.pc = pc] \in StopperRow
      /\ Retired \in SessionRow /\ [Retired EXCEPT !.reconciled = FALSE] \in SessionRow
  BY <1>a DEF RunTypes, StopperRow, SessionRow, Retired
<1>1. CASE ScopeStopped
  BY <1>1, <1>a, <1>c, Types DEF ScopeStopped, HostTypes, RunTypes
<1>2. CASE StopConfirmed
  <2>1. stopper.a \in Attempt
    BY <1>2 DEF StopConfirmed, CoordinatorInv, SessionInv
  <2>2. JournalTypes'
    BY <1>2, <1>a, <2>1, StopTypes DEF StopConfirmed
  <2>3. call' \in [Activity -> CallRow]
    BY <1>2, <1>a, <1>b, <2>1, WireMoves, Messages DEF StopConfirmed, StopId
  <2> QED BY <1>2, <1>a, <1>c, <2>2, <2>3, Types DEF StopConfirmed, RunTypes, WireTypes
<1>3. CASE StopReported
  <2>1. JournalTypes'
    BY <1>3, <1>a, <1>b, StopTypes
    DEF StopReported, CoordinatorInv, SessionInv, Wire, Effective
  <2> QED BY <1>3, <1>a, <1>b, <1>c, <2>1, WireMoves, Types DEF StopReported, RunTypes, WireTypes
<1>4. CASE StopNotReported
  <2>1. session' \in SessionRow /\ loop' \in LoopRow
    BY <1>4, <1>a DEF StopNotReported, RunTypes, SessionRow, StopperRow, LoopRow
  <2> QED BY <1>4, <1>a, <1>b, <1>c, <2>1, WireMoves, Types DEF StopNotReported, RunTypes, WireTypes
<1>5. CASE StopUnconfirmed
  <2>1. session' \in SessionRow
    BY <1>5, <1>a DEF StopUnconfirmed, RunTypes, SessionRow
  <2> QED BY <1>5, <1>a, <1>c, <2>1, Budgets, Types
      DEF StopUnconfirmed, HostTypes, RunTypes, WireTypes
<1>6. CASE Terminate
  <2>1. session.active # None => session.active \in Attempt
    BY <1>a DEF RunTypes, SessionRow
  <2>2. RunTypes'
    BY <1>6, <1>a, <2>1, RunMoves DEF Terminate, RunTypes, LoopPc
  <2> QED BY <1>6, <1>a, <2>2, Budgets, Types DEF Terminate, WireTypes
<1>7. ASSUME NEW a \in Attempt, Watchdog(a) PROVE TypeOK'
  BY <1>7, <1>a, RunMoves, Budgets, Types DEF Watchdog, RunTypes, WireTypes
<1>8. ASSUME NEW a \in Attempt, InputFailed(a) PROVE TypeOK'
  BY <1>8, <1>a, <1>c, Budgets, Types DEF InputFailed, RunTypes, StopperRow, WireTypes
<1> QED BY <1>1, <1>2, <1>3, <1>4, <1>5, <1>6, <1>7, <1>8 DEF StopperStep

(* The runtime task, and what it reports of itself.                         *)
LEMMA TaskTypes ==
  ASSUME Bounds, CoordinatorInv,
         TaskStep \/ EventFailed
         \/ \E a \in Attempt : \/ Dispatch(a) \/ ReportEvent(a) \/ EventNotWritten(a)
                               \/ TaskEndsUnconfirmed(a) \/ TaskClosed(a)
  PROVE  TypeOK'
<1> USE TypesUnchanged
<1>a. ServerTypes /\ JournalTypes /\ HostTypes /\ RunTypes /\ WireTypes
  BY Types DEF CoordinatorInv
<1>b. {"task", "stopper"} \subseteq Activity /\ call["task"].m \in Message /\ Wire(call["task"].m)
  BY <1>a DEF WireTypes, CallRow, Activity, CoordinatorInv, WireInv
<1>1. ASSUME NEW a \in Attempt, Dispatch(a) \/ EffectDone(a) PROVE TypeOK'
  BY <1>1, <1>a, Types DEF Dispatch, EffectDone, HostTypes, RunTypes
<1>2. ASSUME NEW a \in Attempt, ReportEvent(a) PROVE TypeOK'
  <2>1. events[a].written + 1 \in 0..LastEvent
    BY <1>2, <1>a, Attempts DEF ReportEvent, JournalTypes
  <2>2. [events[a] EXCEPT !.written = @ + 1]
          \in [written: 0..LastEvent, acked: 0..LastEvent, cut: BOOLEAN]
    BY <1>a, <2>1 DEF JournalTypes
  <2>3. JournalTypes'
    BY <1>2, <1>a, <2>2 DEF ReportEvent, JournalTypes
  <2>4. call' \in [Activity -> CallRow]
    BY <1>2, <1>a, <1>b, <2>1, WireMoves, Messages DEF ReportEvent
  <2> QED BY <1>2, <1>a, <2>3, <2>4, Types DEF ReportEvent, WireTypes
<1>3. CASE EventAcknowledged
  <2>1. call["task"].m.n \in 0..LastEvent /\ call["task"].m.a \in Attempt
    BY <1>3, <1>b DEF EventAcknowledged, Reporting, Message, Wire, Effective
  <2>2. JournalTypes' /\ HostTypes'
    BY <1>3, <1>a, <2>1 DEF EventAcknowledged, JournalTypes, HostTypes
  <2> QED BY <1>3, <1>a, <1>b, <2>2, WireMoves, Types DEF EventAcknowledged, WireTypes
<1>4. CASE EventFailed
  BY <1>4, <1>a, <1>b, WireMoves, Types DEF EventFailed, HostTypes, WireTypes
<1>5. ASSUME NEW a \in Attempt, TaskEnds(a) PROVE TypeOK'
  <2>1. HostTypes'
    BY <1>5, <1>a DEF TaskEnds, HostTypes
  <2>2. JournalTypes'
    BY <1>5, <1>a, StopTypes DEF TaskEnds
  <2>3. call' \in [Activity -> CallRow]
    BY <1>5, <1>a, <1>b, WireMoves, Messages DEF TaskEnds, StopId, WireTypes
  <2>4. [pc |-> "reporting", a |-> a, strict |-> TRUE] \in StopperRow /\ Retired \in SessionRow
    BY <1>a DEF StopperRow, SessionRow, RunTypes, Retired
  <2>5. RunTypes'
    BY <1>5, <1>a, <2>4 DEF TaskEnds, RunTypes
  <2> QED BY <1>5, <1>a, <2>1, <2>2, <2>3, <2>5, Types DEF TaskEnds, WireTypes
<1>6. ASSUME NEW a \in Attempt, TaskEndsUnconfirmed(a) \/ EventNotWritten(a) \/ TaskClosed(a)
      PROVE  TypeOK'
  <2>1. HostTypes'
    BY <1>6, <1>a DEF TaskEndsUnconfirmed, EventNotWritten, TaskClosed, HostTypes
  <2> QED BY <1>6, <1>a, <2>1, Budgets, Types
      DEF TaskEndsUnconfirmed, EventNotWritten, TaskClosed, WireTypes
<1>7. ASSUME NEW a \in Attempt, Interrupt(a) PROVE TypeOK'
  <2>1. /\ UNCHANGED <<srv, claims, stops, hostVars, runVars, late, budget>>
        /\ \/ Send("task", LastWritten(a)) /\ UNCHANGED events
           \/ /\ events[a].written < LastEvent
              /\ events' = [events EXCEPT ![a].written = @ + 1, ![a].cut = TRUE]
              /\ Send("task", Msg("interrupted", a, "none", events[a].written + 1))
    BY <1>7 DEF Interrupt
  <2>2. events[a].written < LastEvent => events[a].written + 1 \in 0..LastEvent
    BY <1>a, Attempts DEF JournalTypes
  <2>3. JournalTypes'
    <3> DEFINE row == [events[a] EXCEPT !.written = events[a].written + 1, !.cut = TRUE]
    <3>1. events[a].written < LastEvent
            => row \in [written: 0..LastEvent, acked: 0..LastEvent, cut: BOOLEAN]
      BY <1>a, <2>2 DEF JournalTypes
    <3>2. [events EXCEPT ![a].written = @ + 1, ![a].cut = TRUE] = [events EXCEPT ![a] = row]
      BY <1>a DEF JournalTypes
    <3> HIDE DEF row
    <3> QED BY <1>a, <2>1, <3>1, <3>2 DEF JournalTypes
  <2>4. call' \in [Activity -> CallRow]
    BY <1>a, <1>b, <2>1, <2>2, WireMoves, Messages, LastWrittenSent
  <2> QED BY <1>a, <2>1, <2>3, <2>4, Types DEF WireTypes
<1> QED BY <1>1, <1>2, <1>3, <1>4, <1>5, <1>6, <1>7 DEF TaskStep

(* The server, and a crash.                                                 *)
LEMMA ServerKeepsTypes ==
  ASSUME Bounds, CoordinatorInv,
         \/ \E a \in Attempt : AskStop(a)
         \/ \E p \in Activity : Receive(p)
         \/ \E m \in late : LateArrival(m)
         \/ Crash \/ CrashSuperseding
  PROVE  TypeOK'
<1> USE TypesUnchanged
<1>a. ServerTypes /\ JournalTypes /\ HostTypes /\ RunTypes /\ WireTypes
  BY Types DEF CoordinatorInv
<1>1. ASSUME NEW a \in Attempt, AskStop(a) PROVE TypeOK'
  BY <1>1, <1>a, Types DEF AskStop, ServerTypes, SrvRow
<1>2. ASSUME NEW p \in Activity, Receive(p) PROVE TypeOK'
  <2> DEFINE m == call[p].m
  <2>1. m \in Message /\ Wire(m)
    BY <1>a DEF WireTypes, CallRow, CoordinatorInv, WireInv
  <2>2. ServerTypes'
    BY <1>2, <1>a, <2>1, ServerMoves DEF Receive, ServerTypes, Wire
  <2>3. Stamped(m) \in Message
    <3>1. ASSUME Leased # {}
          PROVE  Msg("leases", CHOOSE x \in Leased : TRUE, "none",
                     srv[CHOOSE x \in Leased : TRUE].seen) \in Message
      <4>1. (CHOOSE x \in Leased : TRUE) \in Attempt
        BY <3>1 DEF Leased
      <4>2. srv[CHOOSE x \in Leased : TRUE].seen \in 0..LastEvent
        BY <1>a, <4>1 DEF ServerTypes, SrvRow
      <4> QED BY <4>1, <4>2, Messages
    <3> QED BY <2>1, <3>1 DEF Stamped
  <2>4. Reply(m) \in {"idle", "waiting", "ok", "empty", "stop", "refused"}
    BY DEF Reply
  <2> HIDE DEF m
  <2>5. call' \in [Activity -> CallRow]
    BY <1>2, <1>a, <2>3, <2>4 DEF Receive, WireTypes, CallRow, m
  <2> QED BY <1>2, <1>a, <2>2, <2>5, Types DEF Receive, WireTypes
<1>3. ASSUME NEW m \in late, LateArrival(m) PROVE TypeOK'
  <2>1. m \in Message /\ Wire(m)
    BY <1>a DEF WireTypes, CoordinatorInv, WireInv
  <2>2. ServerTypes'
    BY <1>3, <1>a, <2>1, ServerMoves DEF LateArrival, ServerTypes, Wire
  <2> QED BY <1>3, <1>a, <2>2, Types DEF LateArrival, WireTypes
<1>4. CASE Crash
  <2>1. InFlight \subseteq Message
    BY <1>a DEF InFlight, WireTypes, CallRow
  <2> QED BY <1>4, <1>a, <2>1, DeadTypes, Budgets, Types DEF Crash, HostTypes, WireTypes
<1>5. CASE CrashSuperseding
  <2> DEFINE a == call["loop"].m.a
             row == [stops[a] EXCEPT !.base = "done"]
  <2>1. a \in Attempt
    BY <1>5, <1>a DEF CrashSuperseding, WireTypes, CallRow, Message, Activity
  <2>2. stops' = [stops EXCEPT ![a] = row] /\ UNCHANGED <<claims, events>>
    BY <1>5 DEF CrashSuperseding
  <2>3. row \in StopRow /\ row.base = "done" /\ row.next = stops[a].next
    BY <1>a, <2>1 DEF JournalTypes, StopRow
  <2> HIDE DEF a, row
  <2>4. JournalTypes'
    BY <1>a, <2>1, <2>2, <2>3 DEF JournalTypes
  <2> QED BY <1>5, <1>a, <2>4, DeadTypes, Budgets, Types DEF CrashSuperseding, HostTypes, WireTypes
<1> QED BY <1>1, <1>2, <1>3, <1>4, <1>5

(* Every step keeps the types.                                              *)
LEMMA TypesKept ==
  ASSUME Bounds, CoordinatorInv, [Next]_vars
  PROVE  TypeOK'
<1>1. CASE UNCHANGED vars
  BY <1>1 DEF vars, TypeOK, CoordinatorInv
<1>2. CASE Next
  BY <1>2, LoopTypes, StopperTypes, TaskTypes, ServerKeepsTypes DEF Next
<1> QED BY <1>1, <1>2

-----------------------------------------------------------------------------
(* What a step leaves of the journal and of the server *)

(* No entry disappears, and the server forgets no attempt.                  *)
Onward ==
  \A a \in Attempt :
    /\ claims[a] # "absent" => claims'[a] # "absent"
    /\ stops[a].base # "absent" => stops'[a].base # "absent"
    /\ stops[a].base = "done" => stops'[a].base = "done"
    /\ stops[a].next # "absent" => stops'[a].next # "absent"
    /\ srv[a].state # "none" => srv'[a].state # "none"

(* A stop entry that is written: it and no other has evidence then.         *)
LEMMA StopWritten ==
  ASSUME JournalTypes, NEW a \in Attempt, NEW seq, NEW b, WriteStop(a, seq, b)
  PROVE  /\ stops'[a].base # "absent" /\ (stops[a].base = "done" => stops'[a].base = "done")
         /\ stops[a].next # "absent" \/ SentStop(a, seq, b) = "next" => stops'[a].next # "absent"
         /\ \A x \in Attempt : x # a => stops'[x] = stops[x]
<1>1. stops[a] \in StopRow
  BY DEF JournalTypes
<1> DEFINE r == IF stops[a].base = "absent" THEN [stops[a] EXCEPT !.base = "pending", !.seq = seq]
                ELSE IF b /\ Superseded(a, seq)
                  THEN [stops[a] EXCEPT !.base = "done", !.next = "pending"] ELSE stops[a]
<1>2. stops' = [stops EXCEPT ![a] = r]
  BY DEF WriteStop
<1>3. /\ r.base # "absent" /\ (stops[a].base = "done" => r.base = "done")
      /\ stops[a].next # "absent" \/ SentStop(a, seq, b) = "next" => r.next # "absent"
  BY <1>1 DEF StopRow, SentStop, Superseded
<1> HIDE DEF r
<1> QED BY <1>2, <1>3 DEF JournalTypes

(* A stop entry that is acknowledged was there.                             *)
LEMMA StopAcknowledged ==
  ASSUME JournalTypes, NEW m, m.kind = "stop", Wire(m), Acknowledge(m)
  PROVE  \A x \in Attempt : /\ stops'[x].base = "absent" <=> stops[x].base = "absent"
                            /\ stops[x].base = "done" => stops'[x].base = "done"
                            /\ stops[x].next # "absent" => stops'[x].next # "absent"
<1> DEFINE r == IF m.id = "base" THEN [stops[m.a] EXCEPT !.base = "done"]
                                 ELSE [stops[m.a] EXCEPT !.next = "done"]
<1>1. m.a \in Attempt /\ Entry(m.a, m.id) # "absent"
  BY DEF Wire, Effective
<1>2. stops[m.a] \in StopRow
  BY <1>1 DEF JournalTypes
<1>3. stops' = [stops EXCEPT ![m.a] = r]
  BY DEF Acknowledge
<1>4. r.base # "absent" /\ stops[m.a].base # "absent"
  BY <1>1, <1>2 DEF JournalTypes, StopRow, Entry
<1>5. /\ stops[m.a].next # "absent" => r.next # "absent"
      /\ stops[m.a].base = "done" => r.base = "done"
  BY <1>2 DEF StopRow
<1> HIDE DEF r
<1> QED BY <1>1, <1>3, <1>4, <1>5 DEF JournalTypes

(* The journal entries and the attempts of the server, after any step.      *)
LEMMA JournalGrows ==
  ASSUME Bounds, CoordinatorInv, Next
  PROVE  Onward
<1>a. ServerTypes /\ JournalTypes /\ WireTypes
  BY Types DEF CoordinatorInv
<1>b. \A p \in Activity : call[p].m \in Message /\ Wire(call[p].m)
  BY <1>a DEF WireTypes, CallRow, CoordinatorInv, WireInv
<1>c. {"loop", "stopper", "task"} \subseteq Activity
  BY DEF Activity
<1>1. CASE Replayed \/ Claim \/ Claimed \/ NothingClaimed \/ StartRefused
  BY <1>1, <1>a DEF Onward, JournalTypes, Replayed, Claim, Claimed, NothingClaimed, StartRefused,
     ClaimEntry
<1>2. CASE LeasesKnown
  <2> DEFINE a == call["loop"].m.a
             seq == call["loop"].m.n + 1
  <2>0. a \in Attempt \cup {None}
    BY <1>b, <1>c DEF Message
  <2>1. UNCHANGED stops \/ (a # None /\ WriteStop(a, seq, TRUE))
    BY <1>2 DEF LeasesKnown
  <2>2. UNCHANGED <<srv, claims>>
    BY <1>2 DEF LeasesKnown
  <2> HIDE DEF a, seq
  <2> QED BY <1>a, <2>0, <2>1, <2>2, StopWritten DEF Onward
<1>3. CASE EvidenceTaken \/ StopReported
  <2>1. UNCHANGED <<srv, claims>>
    BY <1>3 DEF EvidenceTaken, StopReported
  <2>2. PICK p \in {"loop", "stopper"} : call[p].m.kind = "stop" /\ Acknowledge(call[p].m)
    BY <1>3 DEF EvidenceTaken, StopReported, CoordinatorInv, LoopInv, SessionInv
  <2> QED BY <1>a, <1>b, <1>c, <2>1, <2>2, StopAcknowledged DEF Onward
<1>4. CASE StopConfirmed
  <2>1. stopper.a \in Attempt
    BY <1>4 DEF StopConfirmed, CoordinatorInv, SessionInv
  <2>2. UNCHANGED <<srv, claims>> /\ WriteStop(stopper.a, NextSequence(stopper.a), FALSE)
    BY <1>4 DEF StopConfirmed
  <2> QED BY <1>a, <2>1, <2>2, StopWritten DEF Onward
<1>5. ASSUME NEW a \in Attempt, TaskEnds(a) PROVE Onward
  <2>1. /\ UNCHANGED <<srv, claims>>
        /\ UNCHANGED stops \/ WriteStop(a, NextSequence(a), FALSE)
    BY <1>5 DEF TaskEnds
  <2> QED BY <1>a, <2>1, StopWritten DEF Onward
<1>6. CASE CrashSuperseding
  <2> DEFINE a == call["loop"].m.a
  <2>1. a \in Attempt
    BY <1>6, <1>b, <1>c DEF CrashSuperseding, Message
  <2>2. stops' = [stops EXCEPT ![a] = [stops[a] EXCEPT !.base = "done"]] /\ UNCHANGED <<srv, claims>>
    BY <1>6 DEF CrashSuperseding
  <2> HIDE DEF a
  <2> QED BY <1>a, <2>1, <2>2 DEF Onward, JournalTypes, StopRow
<1>7. ASSUME NEW a \in Attempt, AskStop(a) PROVE Onward
  BY <1>7, <1>a DEF AskStop, Onward, ServerTypes, SrvRow
<1>8. ASSUME NEW m \in Message, Wire(m), Handle(m), UNCHANGED <<claims, stops>> PROVE Onward
  BY <1>8, <1>a, ServerMoves DEF Onward, ServerTypes, Wire
<1>9. ASSUME NEW p \in Activity, Receive(p) PROVE Onward
  BY <1>9, <1>8, <1>b DEF Receive
<1>10. ASSUME NEW m \in late, LateArrival(m) PROVE Onward
  BY <1>10, <1>8, <1>a DEF LateArrival, WireTypes, CoordinatorInv, WireInv
<1>11. CASE UNCHANGED <<srv, claims, stops>>
  BY <1>11 DEF Onward
<1>12. CASE \/ LoopScopeStopped \/ LoopSettled \/ Inspect \/ Tick \/ Replay \/ Resend
            \/ ClaimRefused \/ Poll \/ EventReplayed \/ ControlsRead \/ StopAwaited
            \/ StopBeforeExit \/ Boot
            \/ RequestFailed \/ HeartbeatLost \/ PollFailed \/ LoopUnconfirmed
  BY <1>12, <1>11 DEF LoopScopeStopped, LoopSettled, Inspect, Tick, Replay, Resend, ClaimRefused,
     Poll, EventReplayed, ControlsRead, StopAndWait, StopAwaited, StopBeforeExit, Boot,
     RequestFailed, HeartbeatLost, PollFailed, LoopUnconfirmed
<1>13. CASE \/ ScopeStopped \/ StopNotReported \/ StopUnconfirmed \/ EventAcknowledged
            \/ EventFailed
            \/ Terminate \/ Crash
            \/ \E a \in Attempt : \/ EffectDone(a) \/ TaskClosed(a) \/ Interrupt(a) \/ Dispatch(a)
                                  \/ ReportEvent(a) \/ EventNotWritten(a)
                                  \/ Watchdog(a) \/ InputFailed(a) \/ TaskEndsUnconfirmed(a)
  BY <1>13, <1>11 DEF ScopeStopped, StopNotReported, StopUnconfirmed, EventAcknowledged,
     EventFailed, Terminate, Crash, EffectDone, TaskClosed, Interrupt, Dispatch, ReportEvent,
     EventNotWritten, Watchdog, InputFailed, TaskEndsUnconfirmed
<1> QED BY <1>1, <1>2, <1>3, <1>4, <1>5, <1>6, <1>7, <1>9, <1>10, <1>12, <1>13
        DEF Next, LoopStep, StopperStep, TaskStep

-----------------------------------------------------------------------------
(* Messages *)

(* A message that was sound stays so, and so does what is no request.       *)
LEMMA WireStays ==
  ASSUME Bounds, CoordinatorInv, Onward,
         \A p \in Activity : \/ call'[p].m \in {call[p].m, Quiet.m}
                             \/ \E m \in Message : call'[p].m = m /\ Wire(m)',
         \A m \in late' : m \in late \/ (\E p \in Activity : m = call[p].m)
  PROVE  WireInv'
<1>a. WireTypes /\ JournalTypes
  BY Types DEF CoordinatorInv
<1>1. \A m \in Message : Wire(m) => Wire(m)'
  BY <1>a, Attempts DEF Onward, Wire, Entry, StopId, Message, Effective
<1>2. Quiet.m \in Message /\ Wire(Quiet.m)
  BY Messages, Fields DEF Wire, Quiet, Effective, CallRow
<1>3. \A p \in Activity : call[p].m \in Message /\ Wire(call[p].m)
  BY <1>a DEF WireTypes, CallRow, CoordinatorInv, WireInv
<1>4. \A m \in late : m \in Message /\ Wire(m)
  BY <1>a DEF WireTypes, CoordinatorInv, WireInv
<1>5. ASSUME NEW p \in Activity PROVE Wire(call[p].m)'
  <2>1. PICK m \in Message : call'[p].m = m /\ Wire(m)'
    BY <1>1, <1>2, <1>3
  <2> QED BY <2>1 DEF Wire
<1>6. ASSUME NEW m \in late' PROVE Wire(m)'
  <2>1. m \in Message /\ Wire(m)
    BY <1>3, <1>4
  <2> QED BY <1>1, <2>1
<1> QED BY <1>5, <1>6 DEF WireInv

(* What an activity writes, hangs up or abandons.                           *)
LEMMA Requests ==
  ASSUME WireTypes, NEW p \in Activity
  PROVE  /\ HangUp(p) => \A q \in Activity : call'[q].m \in {call[q].m, Quiet.m}
         /\ \A m : Send(p, m) => \A q \in Activity : \/ q # p /\ call'[q].m = call[q].m
                                                     \/ q = p /\ call'[q].m = m
         /\ TimedOut(p) \/ Refused(p) => \A m \in late' : m \in late \/ m = call[p].m
         /\ \A R : Got(p, R) => late' = late
BY DEF WireTypes, HangUp, Send, TimedOut, Refused, Got, CallRow

(* Every message rests on an entry that is still there.                     *)
LEMMA WireKept ==
  ASSUME Bounds, CoordinatorInv, TypeOK', Next
  PROVE  WireInv'
<1> DEFINE Sound(p) == \/ call'[p].m \in {call[p].m, Quiet.m}
                       \/ \E m \in Message : call'[p].m = m /\ Wire(m)'
           Lately == \A m \in late' : m \in late \/ (\E p \in Activity : m = call[p].m)
<1>a. ServerTypes /\ JournalTypes /\ WireTypes /\ RunTypes
  BY Types DEF CoordinatorInv
<1>b. \A p \in Activity : call[p] \in CallRow /\ call[p].m \in Message /\ Wire(call[p].m)
  BY <1>a DEF WireTypes, CallRow, CoordinatorInv, WireInv
<1>c. {"loop", "stopper", "task"} \subseteq Activity /\ Onward
  BY JournalGrows DEF Activity
<1>d. SUFFICES (\A p \in Activity : Sound(p)) /\ Lately
  BY <1>c, WireStays
<1>e. \A a \in Attempt : claims'[a] # "absent" => Wire(Msg("claim", a, "none", 0))'
  BY Fields DEF Wire
<1>f. \A a \in Attempt, id \in StopId :
        (IF id = "base" THEN stops'[a].base ELSE stops'[a].next) # "absent"
          => Wire(Msg("stop", a, id, 0))'
  BY Fields DEF Wire, Entry
<1>g. \A a \in Attempt, n \in 0..LastEvent :
        /\ Wire(Msg("controls", a, "none", 0))'
        /\ Wire(Msg("event", a, "none", n))'
        /\ Wire(Msg("interrupted", a, "none", n))'
  BY Fields DEF Wire
<1>j. \A m \in Message : m.kind \in {"event", "interrupted", "controls"} /\ m.a \in Attempt
                           => Wire(m)'
  BY DEF Wire
<1>h. Wire(Msg("leases", None, "none", 0))' /\ Msg("leases", None, "none", 0) \in Message
  BY Messages, Fields DEF Wire, Effective
<1>1. CASE UNCHANGED <<call, late>>
  BY <1>1, <1>b
<1>2. CASE Dead /\ late' \in {late, late \cup InFlight}
  BY <1>2, <1>b DEF Dead, InFlight
<1>3. ASSUME NEW p \in Activity, HangUp(p), late' = late \/ TimedOut(p) \/ Refused(p)
      PROVE  (\A q \in Activity : Sound(q)) /\ Lately
  BY <1>3, <1>a, Requests
<1>4. ASSUME NEW p \in Activity, NEW m \in Message, Send(p, m), Wire(m)', late' = late
      PROVE  (\A q \in Activity : Sound(q)) /\ Lately
  BY <1>4, <1>a, Requests
<1> HIDE DEF Sound, Lately
<1>5. CASE \/ LoopScopeStopped \/ LoopSettled \/ Inspect \/ Tick \/ ClaimRefused \/ StopAwaited
           \/ Boot
           \/ HeartbeatLost \/ Terminate \/ ScopeStopped \/ StopUnconfirmed
           \/ \E a \in Attempt : \/ AskStop(a) \/ EffectDone(a) \/ Dispatch(a)
                                 \/ Watchdog(a) \/ InputFailed(a) \/ EventNotWritten(a)
                                 \/ TaskEndsUnconfirmed(a) \/ TaskClosed(a)
  BY <1>1, <1>5 DEF LoopScopeStopped, LoopSettled, Inspect, Tick, ClaimRefused, StopAwaited, Boot,
     HeartbeatLost, Terminate, ScopeStopped, StopUnconfirmed, AskStop, EffectDone, Dispatch,
     Watchdog, InputFailed, EventNotWritten, TaskEndsUnconfirmed, TaskClosed
<1>6. CASE Replayed \/ EvidenceTaken \/ Claimed \/ StartRefused \/ NothingClaimed
           \/ ControlsRead \/ PollFailed \/ RequestFailed
  BY <1>3, <1>6, <1>c DEF Replayed, EvidenceTaken, Claimed, StartRefused, NothingClaimed,
     ControlsRead, PollFailed, RequestFailed, Got, StopAndWait
<1>7. CASE StopReported \/ StopNotReported
  BY <1>3, <1>7, <1>c DEF StopReported, StopNotReported, Got
<1>8. CASE EventAcknowledged \/ EventFailed
  BY <1>3, <1>8, <1>c DEF EventAcknowledged, EventFailed, Got
<1>9. CASE StopBeforeExit \/ Crash \/ CrashSuperseding \/ LoopUnconfirmed
  BY <1>1, <1>2, <1>9 DEF StopBeforeExit, Crash, CrashSuperseding, LoopUnconfirmed
<1>10. CASE Replay
  <2>1. \/ \E a \in Attempt : /\ claims[a] = "pending"
                              /\ Send("loop", Msg("claim", a, "none", 0))
        \/ Send("loop", Msg("leases", None, "none", 0))
    BY <1>10 DEF Replay
  <2>2. late' = late /\ claims' = claims
    BY <1>10 DEF Replay
  <2>3. CASE Send("loop", Msg("leases", None, "none", 0))
    BY <2>2, <2>3, <1>4, <1>c, <1>h
  <2>4. ASSUME NEW a \in Attempt, claims[a] = "pending", Send("loop", Msg("claim", a, "none", 0))
        PROVE  (\A q \in Activity : Sound(q)) /\ Lately
    BY <2>2, <2>4, <1>4, <1>c, <1>e, Messages
  <2> QED BY <2>1, <2>3, <2>4
<1>11. CASE Claim
  <2>1. PICK a \in Attempt : /\ claims' = [claims EXCEPT ![a] = "pending"]
                             /\ Send("loop", Msg("claim", a, "none", 0))
    BY <1>11 DEF Claim, ClaimKey, Unanswered, Fresh
  <2>2. claims'[a] # "absent" /\ late' = late
    BY <1>11, <1>a, <2>1 DEF Claim, JournalTypes
  <2> QED BY <2>1, <2>2, <1>4, <1>c, <1>e, Messages
<1>12. CASE LeasesKnown
  <2> DEFINE a == call["loop"].m.a
             seq == call["loop"].m.n + 1
  <2>0. a \in Attempt \cup {None} /\ late' = late
    BY <1>b, <1>c, <1>12 DEF Message, LeasesKnown, Got
  <2>1. \/ HangUp("loop")
        \/ (a # None /\ WriteStop(a, seq, TRUE)
              /\ Send("loop", Msg("stop", a, SentStop(a, seq, TRUE), 0)))
    BY <1>12 DEF LeasesKnown
  <2> HIDE DEF a, seq
  <2>2. CASE HangUp("loop")
    BY <2>0, <2>2, <1>3, <1>c
  <2>3. CASE a # None /\ WriteStop(a, seq, TRUE)
             /\ Send("loop", Msg("stop", a, SentStop(a, seq, TRUE), 0))
    <3>1. /\ a \in Attempt /\ SentStop(a, seq, TRUE) \in StopId
          /\ stops'[a].base # "absent"
          /\ SentStop(a, seq, TRUE) # "base" => stops'[a].next # "absent"
      BY <1>a, <2>0, <2>3, StopWritten DEF SentStop, StopId
    <3> QED BY <2>0, <2>3, <3>1, <1>4, <1>c, <1>f, Messages
  <2> QED BY <2>1, <2>2, <2>3
<1>13. CASE Resend
  <2>1. late' = late /\ stops' = stops
    BY <1>13 DEF Resend
  <2>2. \/ UNCHANGED call
        \/ \E p \in Attempt \X StopId : /\ Entry(p[1], p[2]) = "pending"
                                        /\ Send("loop", Msg("stop", p[1], p[2], 0))
    BY <1>13 DEF Resend, PendingStops
  <2>3. ASSUME NEW p \in Attempt \X StopId, Entry(p[1], p[2]) = "pending",
               Send("loop", Msg("stop", p[1], p[2], 0))
        PROVE  (\A q \in Activity : Sound(q)) /\ Lately
    BY <2>1, <2>3, <1>4, <1>c, <1>f, Messages DEF Entry
  <2> QED BY <2>1, <2>2, <2>3, <1>1
<1>14. CASE Poll
  <2> DEFINE a == session.active
  <2>1. /\ a \in Attempt /\ late' = late
        /\ Send("loop", LastWritten(a)) \/ Send("loop", Msg("controls", a, "none", 0))
    BY <1>14, <1>a DEF Poll, RunTypes, SessionRow
  <2> HIDE DEF a
  <2>2. PICK m \in Message : /\ Send("loop", m) /\ m.a \in Attempt
                             /\ m.kind \in {"event", "interrupted", "controls"}
    BY <1>a, <2>1, LastWrittenSent, Messages, Fields
  <2> QED BY <2>1, <2>2, <1>4, <1>c, <1>j
<1>15. CASE StopConfirmed
  <2>1. stopper.a \in Attempt /\ late' = late
        /\ Send("stopper", Msg("stop", stopper.a, "base", 0))
    BY <1>15 DEF StopConfirmed, CoordinatorInv, SessionInv
  <2>2. stops'[stopper.a].base # "absent" /\ "base" \in StopId
    BY <1>15, <1>a, <2>1, StopWritten DEF StopConfirmed, StopId
  <2> QED BY <2>1, <2>2, <1>4, <1>c, <1>f, Messages
<1>16. ASSUME NEW a \in Attempt, ReportEvent(a) PROVE (\A q \in Activity : Sound(q)) /\ Lately
  <2>1. events[a].written + 1 \in 0..LastEvent /\ late' = late
        /\ Send("task", Msg("event", a, "none", events[a].written + 1))
    BY <1>16, <1>a, Attempts DEF ReportEvent, JournalTypes
  <2> QED BY <2>1, <1>4, <1>c, <1>g, Messages
<1>17. ASSUME NEW a \in Attempt, TaskEnds(a) PROVE (\A q \in Activity : Sound(q)) /\ Lately
  <2>1. /\ late' = late
        /\ UNCHANGED call \/ (/\ WriteStop(a, NextSequence(a), FALSE)
                              /\ Send("stopper", Msg("stop", a, "base", 0)))
    BY <1>17 DEF TaskEnds
  <2>2. CASE WriteStop(a, NextSequence(a), FALSE) /\ Send("stopper", Msg("stop", a, "base", 0))
    <3>1. stops'[a].base # "absent" /\ "base" \in StopId
      BY <1>a, <2>2, StopWritten DEF StopId
    <3> QED BY <2>1, <2>2, <3>1, <1>4, <1>c, <1>f, Messages
  <2> QED BY <2>1, <2>2, <1>1
<1>18. ASSUME NEW a \in Attempt, Interrupt(a) PROVE (\A q \in Activity : Sound(q)) /\ Lately
  <2>1. /\ late' = late
        /\ \/ Send("task", LastWritten(a))
           \/ /\ events[a].written < LastEvent
              /\ Send("task", Msg("interrupted", a, "none", events[a].written + 1))
    BY <1>18 DEF Interrupt
  <2>2. events[a].written < LastEvent => events[a].written + 1 \in 0..LastEvent
    BY <1>a, Attempts DEF JournalTypes
  <2>3. PICK m \in Message : /\ Send("task", m) /\ m.a \in Attempt
                             /\ m.kind \in {"event", "interrupted", "controls"}
    BY <1>a, <2>1, <2>2, LastWrittenSent, Messages, Fields
  <2> QED BY <2>1, <2>3, <1>4, <1>c, <1>j
<1>21. CASE EventReplayed
  <2>1. /\ call["loop"].m.a \in Attempt /\ late' = late
        /\ \/ HangUp("loop")
           \/ Send("loop", Msg("controls", call["loop"].m.a, "none", 0))
    <3>1. call["loop"].m.kind \in {"event", "interrupted"}
      BY <1>21 DEF EventReplayed, CoordinatorInv, LoopInv
    <3>2. call["loop"].m.a \in Attempt
      BY <1>b, <1>c, <3>1 DEF Wire, Effective
    <3> QED BY <1>21, <3>2 DEF EventReplayed, Got
  <2>2. CASE HangUp("loop")
    BY <2>1, <2>2, <1>3, <1>c
  <2>3. CASE Send("loop", Msg("controls", call["loop"].m.a, "none", 0))
    <3>1. PICK m \in Message : Send("loop", m) /\ m.a \in Attempt /\ m.kind = "controls"
      BY <2>1, <2>3, Messages, Fields
    <3> QED BY <2>1, <3>1, <1>4, <1>c, <1>j
  <2> QED BY <2>1, <2>2, <2>3
<1>19. ASSUME NEW m \in late, LateArrival(m) PROVE (\A q \in Activity : Sound(q)) /\ Lately
  BY <1>19 DEF LateArrival, Sound, Lately
<1>20. ASSUME NEW p \in Activity, Receive(p) PROVE (\A q \in Activity : Sound(q)) /\ Lately
  <2>1. late' = late /\ \A q \in Activity : q # p => call'[q] = call[q]
    BY <1>20, <1>a DEF Receive, WireTypes
  <2>2. call'[p].m = Stamped(call[p].m)
    BY <1>20, <1>a DEF Receive, WireTypes
  <2>3. ASSUME call[p].m.kind = "leases", Leased # {} PROVE Sound(p)
    <3> DEFINE a == CHOOSE x \in Leased : TRUE
    <3>1. a \in Attempt /\ srv[a].state = "active"
      BY <2>3 DEF Leased
    <3>2. srv[a].seen \in 0..LastEvent /\ Msg("leases", a, "none", srv[a].seen) \in Message
      BY <1>a, <3>1, Messages DEF ServerTypes, SrvRow
    <3>3. call'[p].m = Msg("leases", a, "none", srv[a].seen)
      BY <2>2, <2>3 DEF Stamped
    <3> HIDE DEF a
    <3>4. ASSUME NEW m \in Message, m = Msg("leases", a, "none", srv[a].seen) PROVE Wire(m)'
      <4>1. m.kind = "leases" /\ m.a = a
        BY <3>4, Fields
      <4>2. srv'[a].state # "none"
        BY <1>c, <3>1 DEF Onward
      <4> QED BY <4>1, <4>2 DEF Wire, Effective
    <3> QED BY <3>2, <3>3, <3>4 DEF Sound
  <2>4. ASSUME ~(call[p].m.kind = "leases" /\ Leased # {}) PROVE Sound(p)
    BY <2>2, <2>4 DEF Sound, Stamped
  <2> QED BY <2>1, <2>3, <2>4 DEF Sound, Lately
<1> QED BY <1>5, <1>6, <1>7, <1>8, <1>9, <1>10, <1>11, <1>12, <1>13, <1>14, <1>15, <1>16, <1>17,
           <1>18, <1>19, <1>20, <1>21 DEF Next, LoopStep, StopperStep, TaskStep

-----------------------------------------------------------------------------
(* Evidence *)

(* The server begins attempts that were claimed and ends those with evidence. *)
ServerSteps == \A a \in Attempt : \/ srv'[a].state = srv[a].state
                                  \/ srv'[a].state = "active" /\ claims[a] # "absent"
                                  \/ srv'[a].state = "ended" /\ stops[a].base # "absent"
                                       /\ claims[a] # "absent"

(* The server moves on what the journal has.                                *)
LEMMA ServerFollows ==
  ASSUME Bounds, CoordinatorInv, Next
  PROVE  ServerSteps /\ (UNCHANGED srv \/ UNCHANGED <<claims, stops, box, task>>)
<1>a. ServerTypes /\ JournalTypes /\ WireTypes
  BY Types DEF CoordinatorInv
<1>1. ASSUME NEW m \in Message, Wire(m), Handle(m) PROVE ServerSteps
  <2>1. \A a \in Attempt :
          \/ srv'[a].state = srv[a].state
          \/ /\ m.kind = "claim" /\ m.a = a
             /\ srv[a].state = "none" /\ srv'[a].state = "active"
          \/ /\ m.kind = "stop" /\ m.a = a
             /\ srv[a].state = "active" /\ srv'[a].state = "ended"
    BY <1>1, <1>a, ServerMoves DEF Wire, ServerTypes
  <2>2. m.kind = "stop" => m.a \in Attempt /\ Entry(m.a, m.id) # "absent"
    BY <1>1 DEF Wire, Effective
  <2>3. m.kind = "stop" => stops[m.a].base # "absent"
    BY <2>2, <1>a DEF Entry, JournalTypes
  <2>4. \A a \in Attempt : srv[a].state = "active" => claims[a] # "absent"
    BY DEF CoordinatorInv, EvidenceInv, Evident
  <2> QED BY <1>1, <2>1, <2>3, <2>4 DEF ServerSteps, Wire
<1>2. ASSUME NEW p \in Activity, Receive(p)
      PROVE  ServerSteps /\ UNCHANGED <<claims, stops, box, task>>
  BY <1>1, <1>2, <1>a DEF Receive, WireTypes, CallRow, CoordinatorInv, WireInv
<1>3. ASSUME NEW m \in late, LateArrival(m)
      PROVE  ServerSteps /\ UNCHANGED <<claims, stops, box, task>>
  BY <1>1, <1>3, <1>a DEF LateArrival, WireTypes, CoordinatorInv, WireInv
<1>4. ASSUME NEW a \in Attempt, AskStop(a)
      PROVE  ServerSteps /\ UNCHANGED <<claims, stops, box, task>>
  BY <1>4, <1>a DEF AskStop, ServerSteps, ServerTypes, SrvRow
<1>5. UNCHANGED srv => ServerSteps
  BY DEF ServerSteps
<1>6. CASE LoopStep
  BY <1>5, <1>6 DEF LoopStep, LoopScopeStopped, LoopSettled, Inspect, Tick, Replay, Replayed,
     LeasesKnown, Resend, EvidenceTaken, Claim, ClaimRefused, Claimed, NothingClaimed, Poll,
     EventReplayed, ControlsRead, StopAndWait, StopAwaited, StopBeforeExit, Boot, RequestFailed,
     PollFailed
<1>7. CASE \/ RequestFailed \/ HeartbeatLost \/ PollFailed \/ StartRefused \/ LoopUnconfirmed
           \/ StopperStep \/ StopNotReported \/ StopUnconfirmed \/ Terminate \/ Crash
           \/ CrashSuperseding
  BY <1>5, <1>7 DEF RequestFailed, HeartbeatLost, PollFailed, StartRefused, LoopUnconfirmed,
     StopperStep, ScopeStopped, StopConfirmed, StopReported, StopNotReported, StopUnconfirmed,
     Terminate, Crash, CrashSuperseding, StopAndWait
<1>8. CASE \/ TaskStep \/ EventFailed
           \/ \E a \in Attempt : \/ Dispatch(a) \/ ReportEvent(a) \/ EventNotWritten(a)
                                 \/ Watchdog(a) \/ InputFailed(a)
                                 \/ TaskEndsUnconfirmed(a) \/ TaskClosed(a) \/ Interrupt(a)
  BY <1>5, <1>8 DEF TaskStep, EffectDone, TaskEnds, TaskClosed, Interrupt, EventAcknowledged,
     EventFailed, Dispatch, ReportEvent, EventNotWritten, Watchdog, InputFailed,
     TaskEndsUnconfirmed
<1> QED BY <1>2, <1>3, <1>4, <1>5, <1>6, <1>7, <1>8 DEF Next

(* Containers and tasks come with the claim of one attempt and only go      *)
(* otherwise: what lives after any other step lived before.                 *)
Fewer ==
  /\ box' \subseteq box
  /\ \A a \in Attempt : /\ task'[a] # "none" => task[a] # "none"
                        /\ task'[a] \notin Over => task[a] \notin Over

LEMMA LivesOn ==
  ASSUME Bounds, CoordinatorInv, Next
  PROVE  /\ ~Claimed => Fewer
         /\ Claimed => \A a \in Attempt : ~Alive(a)
<1>a. HostTypes /\ WireTypes
  BY Types DEF CoordinatorInv
<1>b. "task" \in Activity /\ Wire(call["task"].m)
  BY DEF Activity, CoordinatorInv, WireInv
<1>1. SUFFICES ASSUME ~Claimed PROVE Fewer
  BY DEF Claimed, CoordinatorInv, LoopInv, Recovering, Alive
<1>2. CASE UNCHANGED <<box, task>>
  BY <1>2 DEF Fewer
<1>3. CASE Dead /\ box' = box
  BY <1>3 DEF Dead, Fewer, Over
<1>4. CASE StopBeforeExit \/ LoopUnconfirmed \/ Crash \/ CrashSuperseding
  BY <1>2, <1>3, <1>4 DEF StopBeforeExit, LoopUnconfirmed, Crash, CrashSuperseding
<1>5. CASE LoopScopeStopped \/ ScopeStopped
  BY <1>5 DEF LoopScopeStopped, ScopeStopped, Fewer
<1>6. ASSUME NEW a \in Attempt, \/ Dispatch(a) \/ EffectDone(a) \/ EventNotWritten(a)
                                \/ TaskEnds(a)
                                \/ TaskEndsUnconfirmed(a) \/ TaskClosed(a)
      PROVE  Fewer
  BY <1>6, <1>a DEF Dispatch, EffectDone, EventNotWritten, TaskEnds, TaskEndsUnconfirmed,
     TaskClosed, Fewer, HostTypes, Over
<1>7. CASE EventAcknowledged \/ EventFailed
  <2>1. call["task"].reply # "idle"
    BY <1>7 DEF EventAcknowledged, EventFailed, Refused, TimedOut, Got, Busy
  <2>2. task[call["task"].m.a] \in {"working", "closing"} /\ call["task"].m.a \in Attempt
    BY <1>b, <1>7, <2>1 DEF CoordinatorInv, TaskInv, Wire, Effective
  <2>3. CASE EventAcknowledged
    BY <1>a, <2>2, <2>3 DEF EventAcknowledged, Fewer, HostTypes, Over
  <2>4. CASE EventFailed
    BY <1>a, <2>2, <2>4 DEF EventFailed, Fewer, HostTypes, Over
  <2> QED BY <1>7, <2>3, <2>4
<1>8. CASE \/ LoopSettled \/ Inspect \/ Tick \/ Replay \/ Replayed \/ LeasesKnown \/ Resend
           \/ EvidenceTaken \/ Claim \/ ClaimRefused \/ NothingClaimed \/ Poll \/ EventReplayed
           \/ ControlsRead
           \/ StopAwaited \/ Boot \/ RequestFailed \/ HeartbeatLost \/ PollFailed \/ StartRefused
  BY <1>2, <1>8 DEF LoopSettled, Inspect, Tick, Replay, Replayed, LeasesKnown, Resend,
     EvidenceTaken, Claim, ClaimRefused, NothingClaimed, Poll, EventReplayed, ControlsRead,
     StopAndWait, StopAwaited, Boot, RequestFailed, HeartbeatLost, PollFailed, StartRefused
<1>9. CASE \/ StopConfirmed \/ StopReported \/ StopNotReported \/ StopUnconfirmed \/ Terminate
           \/ \E a \in Attempt : \/ ReportEvent(a) \/ Interrupt(a) \/ Watchdog(a) \/ InputFailed(a)
                                 \/ AskStop(a)
           \/ (\E p \in Activity : Receive(p)) \/ (\E m \in late : LateArrival(m))
  BY <1>2, <1>9 DEF StopConfirmed, StopReported, StopNotReported, StopUnconfirmed, Terminate,
     ReportEvent, Interrupt, Watchdog, InputFailed, AskStop, Receive, LateArrival
<1> QED BY <1>1, <1>4, <1>5, <1>6, <1>7, <1>8, <1>9 DEF Next, LoopStep, StopperStep, TaskStep

(* Every entry of evidence is still backed by the device.                   *)
LEMMA EvidenceKept ==
  ASSUME Bounds, CoordinatorInv, Next
  PROVE  EvidenceInv'
<1>a. ServerTypes /\ JournalTypes /\ HostTypes /\ WireTypes
  BY Types DEF CoordinatorInv
<1>b. \A p \in Activity : call[p].m \in Message /\ Wire(call[p].m)
  BY <1>a DEF WireTypes, CallRow, CoordinatorInv, WireInv
<1>c. {"loop", "stopper", "task"} \subseteq Activity
  BY DEF Activity
<1>d. ServerSteps /\ (UNCHANGED srv \/ UNCHANGED <<claims, stops, box, task>>) /\ Onward
  BY ServerFollows, JournalGrows
<1>e. \A a \in Attempt : Evident(a)
  BY DEF CoordinatorInv, EvidenceInv
<1> DEFINE Backed(a) == stops'[a].base # "absent" => \/ stops[a].base # "absent"
                                                     \/ claims[a] = "attempt" /\ a \notin box'
                                                     \/ claims[a] \in {"empty", "attempt"} /\ box = {}
(* A step of the device that begins nothing.                                *)
<1>f. ASSUME UNCHANGED <<srv, claims>>, Fewer, \A a \in Attempt : Backed(a) PROVE EvidenceInv'
  BY <1>d, <1>e, <1>f DEF Fewer, EvidenceInv, Evident, Onward
<1>1. CASE UNCHANGED <<claims, stops, box, task>>
  BY <1>1, <1>d, <1>e, <1>a DEF EvidenceInv, Evident, ServerSteps, ServerTypes, SrvRow
<1>g. CASE Fewer /\ UNCHANGED <<srv, claims, stops>>
  BY <1>f, <1>g
<1>2. CASE Replayed \/ NothingClaimed \/ StartRefused
  <2> DEFINE a == call["loop"].m.a
  <2>1. a \in Attempt /\ claims[a] = "pending"
    BY <1>2, <1>b, <1>c DEF Replayed, NothingClaimed, StartRefused, CoordinatorInv, LoopInv, Wire,
       Effective
  <2>2. PICK r \in {"attempt", "empty"} : claims' = [claims EXCEPT ![a] = r]
    BY <1>2 DEF Replayed, NothingClaimed, StartRefused, ClaimEntry
  <2>3. UNCHANGED <<srv, stops, box, task>>
    BY <1>2 DEF Replayed, NothingClaimed, StartRefused
  <2> HIDE DEF a
  <2> QED BY <1>a, <1>e, <2>1, <2>2, <2>3 DEF EvidenceInv, Evident, JournalTypes
<1>3. CASE Claimed
  <2> DEFINE a == call["loop"].m.a
  <2>1. a \in Attempt /\ claims[a] = "pending"
    BY <1>3, <1>b, <1>c DEF Claimed, CoordinatorInv, LoopInv, Wire, Effective
  <2>2. /\ claims' = [claims EXCEPT ![a] = "attempt"] /\ UNCHANGED <<srv, stops>>
        /\ box' = box \cup {a} /\ task' = [task EXCEPT ![a] = "working"]
    BY <1>3 DEF Claimed, StartSession, ClaimEntry
  <2> HIDE DEF a
  <2> QED BY <1>a, <1>e, <2>1, <2>2 DEF EvidenceInv, Evident, JournalTypes, HostTypes
<1>4. CASE Claim
  <2>1. PICK a \in Attempt : /\ claims[a] \in {"pending", "absent"}
                             /\ claims' = [claims EXCEPT ![a] = "pending"]
    BY <1>4 DEF Claim, ClaimKey, Unanswered, Fresh
  <2>2. UNCHANGED <<srv, stops, box, task>>
    BY <1>4 DEF Claim
  <2> QED BY <1>a, <1>e, <2>1, <2>2 DEF EvidenceInv, Evident, JournalTypes
<1>5. CASE LeasesKnown
  <2> DEFINE a == call["loop"].m.a
             seq == call["loop"].m.n + 1
  <2>0. a \in Attempt \cup {None} /\ box = {} /\ UNCHANGED <<srv, claims, box, task>>
    BY <1>b, <1>c, <1>5 DEF Message, LeasesKnown, CoordinatorInv, LoopInv, Recovering
  <2>1. UNCHANGED stops \/ (a # None /\ WriteStop(a, seq, TRUE))
    BY <1>5 DEF LeasesKnown
  <2>2. a # None => srv[a].state # "none" /\ \A x \in Attempt : claims[x] # "pending"
    BY <1>b, <1>c, <1>5 DEF LeasesKnown, CoordinatorInv, LoopInv, Wire
  <2> HIDE DEF a, seq
  <2>3. a # None => claims[a] \in {"empty", "attempt"}
    BY <1>a, <1>e, <2>0, <2>2 DEF Evident, JournalTypes
  <2>4. \A x \in Attempt : Backed(x)
    BY <1>a, <2>0, <2>1, <2>3, StopWritten
  <2> QED BY <1>f, <2>0, <2>4 DEF Fewer
<1>6. CASE EvidenceTaken \/ StopReported
  <2>1. UNCHANGED <<srv, claims, box, task>>
    BY <1>6 DEF EvidenceTaken, StopReported
  <2>2. PICK p \in {"loop", "stopper"} : call[p].m.kind = "stop" /\ Acknowledge(call[p].m)
    BY <1>6 DEF EvidenceTaken, StopReported, CoordinatorInv, LoopInv, SessionInv
  <2>3. \A x \in Attempt : stops'[x].base = "absent" <=> stops[x].base = "absent"
    BY <1>a, <1>b, <1>c, <2>2, StopAcknowledged
  <2> QED BY <1>f, <2>1, <2>3 DEF Fewer
<1>7. CASE StopConfirmed
  <2>1. stopper.a \in Attempt /\ claims[stopper.a] = "attempt" /\ stopper.a \notin box
    BY <1>7 DEF StopConfirmed, CoordinatorInv, SessionInv
  <2>2. UNCHANGED <<srv, claims, box, task>> /\ WriteStop(stopper.a, NextSequence(stopper.a), FALSE)
    BY <1>7 DEF StopConfirmed
  <2>3. \A x \in Attempt : Backed(x)
    BY <1>a, <2>1, <2>2, StopWritten
  <2> QED BY <1>f, <2>2, <2>3 DEF Fewer
<1>h. ~Claimed => Fewer
  BY LivesOn
<1>8. ASSUME NEW a \in Attempt, TaskEnds(a), Fewer PROVE EvidenceInv'
  <2>1. /\ UNCHANGED <<srv, claims>> /\ box' = box \ {a}
        /\ UNCHANGED stops \/ (session.active = a /\ WriteStop(a, NextSequence(a), FALSE))
    BY <1>8 DEF TaskEnds
  <2>2. session.active = a => claims[a] = "attempt"
    BY Attempts DEF CoordinatorInv, SessionInv
  <2>3. \A x \in Attempt : Backed(x)
    BY <1>a, <2>1, <2>2, StopWritten
  <2> QED BY <1>8, <1>f, <2>1, <2>3
<1>9. CASE CrashSuperseding /\ Fewer
  <2> DEFINE a == call["loop"].m.a
  <2>1. a \in Attempt
    BY <1>9, <1>b, <1>c DEF CrashSuperseding, Message
  <2>2. stops[a].base = "pending" /\ UNCHANGED <<srv, claims>>
        /\ stops' = [stops EXCEPT ![a] = [stops[a] EXCEPT !.base = "done"]]
    BY <1>9 DEF CrashSuperseding, Superseded
  <2> HIDE DEF a
  <2>3. \A x \in Attempt : Backed(x)
    BY <1>a, <2>1, <2>2 DEF JournalTypes
  <2> QED BY <1>9, <1>f, <2>2, <2>3
<1>10. CASE Fewer /\ (\/ LoopScopeStopped \/ LoopSettled \/ Inspect \/ Tick \/ Replay \/ Resend
            \/ ClaimRefused \/ Poll \/ EventReplayed \/ ControlsRead \/ StopAwaited
            \/ StopBeforeExit \/ Boot
            \/ RequestFailed \/ HeartbeatLost \/ PollFailed \/ LoopUnconfirmed)
  BY <1>10, <1>g DEF LoopScopeStopped, LoopSettled, Inspect, Tick, Replay, Resend, ClaimRefused,
     Poll, EventReplayed, ControlsRead, StopAndWait, StopAwaited, StopBeforeExit, Boot,
     RequestFailed, HeartbeatLost, PollFailed, LoopUnconfirmed
<1>11. CASE Fewer /\ (\/ ScopeStopped \/ StopNotReported \/ StopUnconfirmed \/ EventAcknowledged
            \/ EventFailed \/ Terminate \/ Crash
            \/ \E a \in Attempt : \/ EffectDone(a) \/ TaskClosed(a) \/ Interrupt(a) \/ Dispatch(a)
                                  \/ ReportEvent(a) \/ EventNotWritten(a)
                                  \/ Watchdog(a) \/ InputFailed(a) \/ TaskEndsUnconfirmed(a))
  BY <1>11, <1>g DEF ScopeStopped, StopNotReported, StopUnconfirmed, EventAcknowledged,
     EventFailed, Terminate, Crash, EffectDone, TaskClosed, Interrupt, Dispatch, ReportEvent,
     EventNotWritten, Watchdog, InputFailed, TaskEndsUnconfirmed
<1>12. CASE \/ (\E p \in Activity : Receive(p)) \/ (\E m \in late : LateArrival(m))
            \/ (\E a \in Attempt : AskStop(a))
  BY <1>12, <1>1 DEF Receive, LateArrival, AskStop
<1> QED BY <1>h, <1>2, <1>3, <1>4, <1>5, <1>6, <1>7, <1>8, <1>9, <1>10, <1>11, <1>12
        DEF Next, LoopStep, StopperStep, TaskStep

(* No step brings a second attempt to life.                                 *)
LEMMA AloneKept ==
  ASSUME Bounds, CoordinatorInv, Next
  PROVE  Alone'
<1>1. CASE Fewer
  BY <1>1 DEF Fewer, Alone, Alive, CoordinatorInv
<1>2. CASE Claimed
  <2>1. HostTypes
    BY Types DEF CoordinatorInv
  <2> QED BY <1>2, <2>1, LivesOn DEF Claimed, StartSession, Alone, Alive, HostTypes
<1> QED BY <1>1, <1>2, LivesOn

-----------------------------------------------------------------------------
(* Who is in charge *)

(* An attempt that lives on stays in somebody's charge.                     *)
LEMMA CoveredKept ==
  ASSUME Bounds, CoordinatorInv, Next
  PROVE  Covered'
<1>a. HostTypes /\ RunTypes /\ WireTypes
  BY Types DEF CoordinatorInv
<1>1. CASE Claimed
  BY <1>1, <1>a, LivesOn DEF Claimed, StartSession, Covered, Alive, InCharge, HostTypes, RunTypes,
     SessionRow, Over
<1>2. SUFFICES ASSUME Fewer, ~Claimed, NEW a \in Attempt, Alive(a)'
               PROVE  InCharge(a)'
  BY <1>1, LivesOn DEF Covered
<1>3. Alive(a) /\ InCharge(a) /\ (a \in box' => a \in box) /\ a # None
  BY <1>2, Attempts DEF Alive, Fewer, CoordinatorInv, Covered
<1>4. SessionInv /\ LoopInv
  BY DEF CoordinatorInv
<1>c. Wire(call["loop"].m)
  BY DEF CoordinatorInv, WireInv, Activity
<1>b. Retired.failed = session.failed
      /\ [Retired EXCEPT !.reconciled = FALSE].failed = session.failed
  BY <1>a DEF RunTypes, SessionRow, Retired
(* Containment takes over what the session was in charge of.                *)
<1>5. ASSUME NEW after, BeginContain(after), loop.pc \notin Containing, UNCHANGED <<box, task, stopper>>
      PROVE  InCharge(a)'
  <2>1. /\ session'.failed = session.failed /\ loop'.a = session.active
        /\ loop'.pc = IF session.active = None THEN "inspecting" ELSE "killing"
    BY <1>5, <1>b DEF BeginContain
  <2>2. \/ session.active = a \/ session.failed
        \/ stopper.a = a /\ stopper.pc \in {"killing", "settling"}
    BY <1>3, <1>5 DEF InCharge, Containing
  <2> QED BY <1>3, <1>5, <2>1, <2>2 DEF InCharge
(* So does a stop beside the loop.                                          *)
<1>6. ASSUME session.active # None, stopper'.a = session.active, stopper'.pc = "killing",
             session'.failed = session.failed, UNCHANGED <<box, task>>
      PROVE  InCharge(a)'
  <2>1. stopper.pc = "none" /\ loop.pc \in {"idle", "events", "controls"}
    BY <1>6, <1>4 DEF SessionInv
  <2>2. session.active = a \/ session.failed
    BY <1>3, <2>1 DEF InCharge, Containing
  <2> QED BY <1>6, <2>2 DEF InCharge
(* The loop goes on outside of containment.                                 *)
<1>7. ASSUME UNCHANGED <<box, task, session, stopper>>, loop.pc \notin Containing
      PROVE  InCharge(a)'
  BY <1>3, <1>7 DEF InCharge, Containing
<1>8. CASE session'.failed
  BY <1>8 DEF InCharge
<1>9. CASE Dead /\ box' = box
  BY <1>2, <1>9 DEF Dead, Alive, InCharge, Over, Containing
<1>10. CASE UNCHANGED <<box, task, session, stopper, loop>>
  BY <1>3, <1>10 DEF InCharge
<1>11. CASE Tick \/ ClaimRefused \/ HeartbeatLost \/ RequestFailed
  BY <1>5, <1>11 DEF Tick, ClaimRefused, HeartbeatLost, RequestFailed, Containing
<1>12. CASE StartRefused \/ StopAwaited
  BY <1>5, <1>7, <1>12 DEF StartRefused, StopAwaited, Containing, Goto
<1>13. CASE \/ Replay \/ Replayed \/ LeasesKnown \/ EvidenceTaken \/ Claim \/ NothingClaimed
            \/ Poll \/ EventReplayed
  <2>1. CASE EventReplayed
    BY <1>5, <1>7, <2>1 DEF EventReplayed, Containing
  <2>2. CASE ~EventReplayed
    BY <1>7, <1>13, <2>2 DEF Replay, Replayed, LeasesKnown, EvidenceTaken, Claim, NothingClaimed,
       Poll, Containing
  <2> QED BY <2>1, <2>2
<1>14. CASE Resend
  <2>1. session'.failed = session.failed /\ session'.active = session.active
    BY <1>14, <1>a DEF Resend, RunTypes, SessionRow
  <2> QED BY <1>3, <1>14, <2>1 DEF Resend, InCharge, Containing
<1>15. CASE StopBeforeExit
  BY <1>5, <1>9, <1>15 DEF StopBeforeExit, Containing
<1>16. CASE LoopUnconfirmed \/ Crash \/ CrashSuperseding
  BY <1>9, <1>16 DEF LoopUnconfirmed, Crash, CrashSuperseding
<1>17. CASE LoopScopeStopped
  BY <1>3, <1>17, <1>a DEF LoopScopeStopped, Goto, InCharge, Containing, RunTypes, LoopRow
<1>18. CASE LoopSettled
  BY <1>2, <1>3, <1>4, <1>18, <1>a DEF LoopSettled, Goto, InCharge, Containing, RunTypes, LoopRow,
     LoopInv, Alive, Over
<1>19. CASE Inspect
  BY <1>2, <1>3, <1>19, <1>a DEF Inspect, InCharge, Containing, RunTypes, LoopRow, Alive, Over
<1>20. CASE Boot
  BY <1>3, <1>20 DEF Boot, InCharge, Containing
<1>21. CASE ControlsRead \/ PollFailed
  <2> DEFINE b == call["loop"].m.a
  <2>1. \/ (\E after : BeginContain(after)) /\ UNCHANGED stopper
        \/ Goto("idle") /\ UNCHANGED <<session, stopper>>
        \/ /\ session.active = b
           /\ \E keeps \in BOOLEAN, after \in {"idle", "exit"} : StopAndWait(b, keeps, after)
    BY <1>21 DEF ControlsRead, PollFailed
  <2>2. loop.pc \in {"events", "controls"} /\ UNCHANGED <<box, task>>
    BY <1>21 DEF ControlsRead, PollFailed
  <2>3. b \in Attempt
    BY <1>c, <1>4, <2>2 DEF LoopInv, Wire, Effective
  <2> HIDE DEF b
  <2>4. ASSUME session.active = b, NEW keeps \in BOOLEAN, NEW after \in {"idle", "exit"},
             StopAndWait(b, keeps, after)
        PROVE  InCharge(a)'
    <3>1. session' = [Retired EXCEPT !.reconciled = keeps /\ session.reconciled] /\ stopper'.a = b
          /\ stopper'.pc = "killing"
      BY <2>4 DEF StopAndWait
    <3>2. session'.failed = session.failed
      BY <1>a, <3>1 DEF RunTypes, SessionRow, Retired
    <3> QED BY <1>6, <2>2, <2>3, <2>4, <3>1, <3>2, Attempts
  <2> QED BY <1>5, <1>7, <2>1, <2>2, <2>4 DEF Containing
<1>23. CASE Terminate
  <2>1. loop.pc = "idle" /\ UNCHANGED <<box, task>>
        /\ \/ session.active # None /\ BeginStop(session.active, FALSE)
           \/ UNCHANGED <<session, stopper>>
    BY <1>23 DEF Terminate
  <2> QED BY <1>6, <1>7, <1>b, <2>1 DEF BeginStop, Containing
<1>24. ASSUME NEW b \in Attempt, Watchdog(b) \/ InputFailed(b) PROVE InCharge(a)'
  <2>1. session.active = b /\ b # None /\ UNCHANGED <<box, task>>
    BY <1>24, Attempts DEF Watchdog, InputFailed
  <2>2. stopper'.a = b /\ stopper'.pc = "killing" /\ session'.failed = session.failed
    <3>1. CASE Watchdog(b)
      BY <3>1, <1>b DEF Watchdog, BeginStop
    <3>2. CASE InputFailed(b)
      <4>1. /\ session' = [Retired EXCEPT !.reconciled = FALSE]
            /\ stopper' = [pc |-> "killing", a |-> b, strict |-> TRUE]
        BY <3>2 DEF InputFailed
      <4> QED BY <4>1, <1>b
    <3> QED BY <1>24, <3>1, <3>2
  <2> QED BY <1>6, <2>1, <2>2
<1>25. CASE ScopeStopped
  BY <1>3, <1>25, <1>a DEF ScopeStopped, InCharge, RunTypes, StopperRow
<1>26. CASE StopConfirmed
  BY <1>2, <1>3, <1>4, <1>26, <1>a DEF StopConfirmed, InCharge, RunTypes, StopperRow, SessionInv,
     Alive, Over
<1>27. CASE StopReported
  BY <1>3, <1>27, <1>a DEF StopReported, InCharge, RunTypes, StopperRow
<1>28. CASE StopNotReported
  <2>1. loop'.pc = loop.pc /\ loop'.a = loop.a
    BY <1>28, <1>a DEF StopNotReported, RunTypes, LoopRow
  <2> QED BY <1>3, <1>28, <1>a, <2>1
      DEF StopNotReported, InCharge, RunTypes, StopperRow, SessionRow
<1>29. CASE StopUnconfirmed
  BY <1>8, <1>29, <1>a DEF StopUnconfirmed, RunTypes, SessionRow
<1>30. ASSUME NEW b \in Attempt, TaskEnds(b) PROVE InCharge(a)'
  <2>1. a # b /\ box' = box \ {b} /\ task'[a] = task[a] /\ loop' = loop
    BY <1>2, <1>30, <1>a DEF TaskEnds, Alive, HostTypes, Over
  <2>2. CASE session.active = b
    <3>1. stopper.pc = "none" /\ session'.failed = session.failed
      BY <1>30, <1>4, <1>b, <2>2, Attempts DEF TaskEnds, SessionInv
    <3> QED BY <1>3, <2>1, <2>2, <3>1 DEF InCharge
  <2>3. CASE session.active # b
    BY <1>3, <1>30, <2>1, <2>3 DEF TaskEnds, InCharge
  <2> QED BY <2>2, <2>3
<1>31. ASSUME NEW b \in Attempt, \/ Dispatch(b) \/ EffectDone(b) \/ TaskEndsUnconfirmed(b)
                                 \/ TaskClosed(b) \/ EventNotWritten(b)
       PROVE  InCharge(a)'
  BY <1>3, <1>31, <1>a DEF Dispatch, EffectDone, TaskEndsUnconfirmed, TaskClosed, EventNotWritten,
     InCharge, HostTypes, Over
<1>32. CASE \/ \E b \in Attempt : ReportEvent(b) \/ Interrupt(b) \/ AskStop(b)
            \/ (\E p \in Activity : Receive(p)) \/ (\E m \in late : LateArrival(m))
  BY <1>10, <1>32 DEF ReportEvent, Interrupt, AskStop, Receive, LateArrival
<1>33. CASE EventAcknowledged \/ EventFailed
  <2>1. UNCHANGED <<session, loop, stopper, box>> /\ (task[a] \in Over => task'[a] \in Over)
    BY <1>2, <1>33 DEF EventAcknowledged, EventFailed, Fewer
  <2> QED BY <1>3, <2>1 DEF InCharge
<1> QED BY <1>2, <1>11, <1>12, <1>13, <1>14, <1>15, <1>16, <1>17, <1>18, <1>19, <1>20, <1>21,
           <1>23, <1>24, <1>25, <1>26, <1>27, <1>28, <1>29, <1>30, <1>31, <1>32, <1>33
        DEF Next, LoopStep, StopperStep, TaskStep

(* A claim that was answered with an attempt stays so.                      *)
LEMMA AttemptsStay ==
  ASSUME Bounds, CoordinatorInv, Next
  PROVE  \A a \in Attempt : claims[a] = "attempt" => claims'[a] = "attempt"
<1>a. JournalTypes
  BY Types DEF CoordinatorInv
<1>1. CASE Replayed \/ NothingClaimed \/ StartRefused \/ Claimed
  <2>1. claims[call["loop"].m.a] = "pending"
    BY <1>1 DEF Replayed, NothingClaimed, StartRefused, Claimed, CoordinatorInv, LoopInv
  <2> QED BY <1>1, <1>a, <2>1 DEF Replayed, NothingClaimed, StartRefused, Claimed, ClaimEntry,
      JournalTypes
<1>2. CASE Claim
  BY <1>2, <1>a DEF Claim, ClaimKey, Unanswered, Fresh, JournalTypes
<1>3. CASE LoopStep
  BY <1>1, <1>2, <1>3 DEF LoopStep, LoopScopeStopped, LoopSettled, Inspect, Tick, Replay,
     LeasesKnown, Resend, EvidenceTaken, ClaimRefused, Poll, EventReplayed, ControlsRead,
     StopAndWait, StopAwaited, StopBeforeExit, Boot, RequestFailed, PollFailed
<1>4. CASE \/ RequestFailed \/ HeartbeatLost \/ PollFailed \/ LoopUnconfirmed
           \/ StopperStep \/ StopNotReported \/ StopUnconfirmed \/ Terminate \/ Crash
           \/ CrashSuperseding
  BY <1>4 DEF RequestFailed, HeartbeatLost, PollFailed, LoopUnconfirmed, StopperStep, ScopeStopped,
     StopConfirmed, StopReported, StopNotReported, StopUnconfirmed, Terminate, Crash,
     CrashSuperseding, StopAndWait
<1>5. CASE \/ TaskStep \/ EventFailed
           \/ \E a \in Attempt : \/ Dispatch(a) \/ ReportEvent(a) \/ EventNotWritten(a)
                                 \/ Watchdog(a) \/ InputFailed(a)
                                 \/ TaskEndsUnconfirmed(a) \/ TaskClosed(a) \/ Interrupt(a)
                                 \/ AskStop(a)
  BY <1>5 DEF TaskStep, EffectDone, TaskEnds, TaskClosed, Interrupt, EventAcknowledged, EventFailed,
     Dispatch, ReportEvent, EventNotWritten, Watchdog, InputFailed, TaskEndsUnconfirmed, AskStop
<1>6. CASE (\E p \in Activity : Receive(p)) \/ (\E m \in late : LateArrival(m))
  BY <1>6 DEF Receive, LateArrival
<1> QED BY <1>1, <1>3, <1>4, <1>5, <1>6 DEF Next

(* The requests of one activity are no business of another.                 *)
LEMMA Apart ==
  ASSUME WireTypes, NEW p \in Activity
  PROVE  /\ HangUp(p) => \A q \in Activity : q # p => call'[q] = call[q]
         /\ \A m : Send(p, m) => /\ call'[p].m = m
                                 /\ \A q \in Activity : q # p => call'[q] = call[q]
         /\ Receive(p) => \A q \in Activity :
              /\ call'[q].m.kind = call[q].m.kind
              /\ call[q].m.kind # "leases" => call'[q].m = call[q].m
              /\ call[q].reply = "idle" <=> call'[q].reply = "idle"
<1>1. HangUp(p) => \A q \in Activity : q # p => call'[q] = call[q]
  BY DEF HangUp, WireTypes
<1>2. ASSUME NEW m, Send(p, m)
      PROVE  call'[p].m = m /\ \A q \in Activity : q # p => call'[q] = call[q]
  BY <1>2 DEF Send, WireTypes
<1>3. ASSUME Receive(p), NEW q \in Activity
      PROVE  /\ call'[q].m.kind = call[q].m.kind
             /\ call[q].m.kind # "leases" => call'[q].m = call[q].m
             /\ call[q].reply = "idle" <=> call'[q].reply = "idle"
  <2>1. call[p].m \in Message
    BY DEF WireTypes, CallRow
  <2>2. Stamped(call[p].m).kind = call[p].m.kind
    BY Fields DEF Stamped
  <2>3. call[p].m.kind # "leases" => Stamped(call[p].m) = call[p].m
    BY DEF Stamped
  <2>4. Reply(call[p].m) # "idle"
    BY DEF Reply
  <2>5. call' = [call EXCEPT ![p] = [m |-> Stamped(call[p].m), reply |-> Reply(call[p].m)]]
        /\ call[p].reply = "waiting"
    BY <1>3 DEF Receive
  <2>6. CASE q = p
    BY <2>2, <2>3, <2>4, <2>5, <2>6 DEF WireTypes
  <2>7. CASE q # p
    BY <2>5, <2>7 DEF WireTypes
  <2> QED BY <2>6, <2>7
<1> QED BY <1>1, <1>2, <1>3

(* The session, a stop beside it and the loop keep out of each other's way. *)
LEMMA SessionKept ==
  ASSUME Bounds, CoordinatorInv, Next
  PROVE  SessionInv'
<1>a. HostTypes /\ RunTypes /\ WireTypes
  BY Types DEF CoordinatorInv
<1>b. /\ SessionInv /\ LoopInv
      /\ \A a \in Attempt : claims[a] = "attempt" => claims'[a] = "attempt"
  BY AttemptsStay DEF CoordinatorInv
<1>c. /\ Retired.active = None
      /\ [Retired EXCEPT !.reconciled = FALSE].active = None
      /\ session.active \in Attempt \cup {None}
      /\ [session EXCEPT !.failed = TRUE, !.reconciled = FALSE].active = session.active
  BY <1>a DEF RunTypes, SessionRow, Retired
<1>d. {"loop", "stopper", "task"} \subseteq Activity
  BY DEF Activity
<1>e. ~Claimed => box' \subseteq box
  BY LivesOn DEF Fewer
<1>f. \A m : Send("loop", m) \/ HangUp("loop") => call'["stopper"] = call["stopper"]
  BY <1>a, <1>d, Apart
(* The stop is where it was, and the session too or gone.                   *)
<1>1. ASSUME stopper' = stopper, box' \subseteq box,
             call'["stopper"].m.kind = call["stopper"].m.kind,
             \/ session'.active = None
             \/ session'.active = session.active /\ loop'.pc \in {"idle", "events", "controls"}
             \/ session'.active = session.active /\ loop'.pc = loop.pc,
             loop'.pc \in {"down", "claiming"} => stopper.pc = "none"
      PROVE  SessionInv'
  BY <1>1, <1>b, <1>c DEF SessionInv
(* The stop of the session begins.                                          *)
<1>2. ASSUME session.active # None, session'.active = None,
             stopper'.a = session.active, stopper'.pc = "killing",
             loop'.pc \notin {"down", "claiming"}
      PROVE  SessionInv'
  BY <1>2, <1>b, <1>c DEF SessionInv
(* The stop goes on or is over.                                             *)
<1>3. ASSUME session'.active = None \/ session'.active = session.active, loop'.pc = loop.pc,
             stopper.pc # "none", box' \subseteq box, stopper'.a = stopper.a,
             \/ stopper'.pc = "none"
             \/ stopper'.pc = "settling" /\ stopper.a \notin box'
             \/ stopper'.pc = "reporting" /\ stopper.pc = "settling"
                  /\ call'["stopper"].m.kind = "stop"
      PROVE  SessionInv'
  BY <1>3, <1>b, <1>c DEF SessionInv
<1>4. CASE Dead
  BY <1>4 DEF Dead, SessionInv
<1>5. CASE LoopScopeStopped \/ LoopSettled \/ Inspect \/ Boot
  BY <1>1, <1>5, <1>a, <1>b, <1>e DEF LoopScopeStopped, LoopSettled, Inspect, Boot, Claimed, Goto,
     RunTypes, LoopRow, SessionInv
<1>6. ASSUME NEW after, BeginContain(after), box' \subseteq box, stopper' = stopper,
             call'["stopper"].m.kind = call["stopper"].m.kind
      PROVE  SessionInv'
  BY <1>1, <1>6, <1>c DEF BeginContain
<1>7. CASE Tick \/ ClaimRefused \/ HeartbeatLost
  BY <1>6, <1>7 DEF Tick, ClaimRefused, HeartbeatLost
<1>8. CASE RequestFailed \/ StartRefused
  BY <1>6, <1>8, <1>f DEF RequestFailed, StartRefused
<1>9. CASE StopAwaited
  BY <1>1, <1>6, <1>9, <1>a, <1>e DEF StopAwaited, Goto, RunTypes, LoopRow
<1>10. CASE Replay \/ Replayed \/ LeasesKnown \/ EvidenceTaken \/ NothingClaimed
  <2>1. /\ UNCHANGED <<session, stopper, box>> /\ loop'.pc # "claiming" /\ loop'.pc # "down"
        /\ loop.pc \in Recovering
        /\ \/ HangUp("loop") \/ \E m : Send("loop", m)
    BY <1>10, <1>a DEF Replay, Replayed, LeasesKnown, EvidenceTaken, NothingClaimed, Goto,
       RunTypes, LoopRow, Recovering
  <2>2. session.active = None
    BY <1>b, <2>1 DEF SessionInv, Recovering
  <2> QED BY <1>1, <1>f, <2>1, <2>2
<1>11. CASE Resend
  BY <1>1, <1>11, <1>a, <1>b, <1>f DEF Resend, Goto, RunTypes, LoopRow, SessionRow, SessionInv
<1>12. CASE Claim
  <2>1. /\ UNCHANGED <<session, stopper, box>> /\ session.active = None /\ stopper.pc = "none"
        /\ \E m : Send("loop", m)
    BY <1>12 DEF Claim, Stopping
  <2> QED BY <1>1, <1>f, <2>1
<1>13. CASE Claimed
  <2> DEFINE a == call["loop"].m.a
  <2>1. a \in Attempt
    BY <1>13, <1>b, <1>d DEF Claimed, LoopInv, CoordinatorInv, WireInv, Wire, Effective
  <2>2. stopper.pc = "none" /\ stopper' = stopper
    BY <1>13, <1>b DEF Claimed, SessionInv
  <2>3. session'.active = a /\ loop'.pc = "idle" /\ claims'[a] = "attempt"
    BY <1>13, <1>a, <2>1, Types
    DEF Claimed, StartSession, ClaimEntry, Goto, RunTypes, LoopRow, SessionRow, JournalTypes,
        CoordinatorInv
  <2> HIDE DEF a
  <2> QED BY <2>1, <2>2, <2>3 DEF SessionInv
<1>14. CASE Poll \/ EventReplayed
  <2>1. /\ UNCHANGED <<stopper, box>> /\ call'["stopper"] = call["stopper"]
        /\ \/ Goto("events") /\ UNCHANGED session
           \/ Goto("controls") /\ UNCHANGED session
           \/ BeginContain("exit")
    BY <1>14, <1>f DEF Poll, EventReplayed
  <2>2. Goto("events") \/ Goto("controls") => loop'.pc \in {"events", "controls"}
    BY <1>a DEF Goto, RunTypes, LoopRow
  <2> QED BY <1>1, <1>6, <2>1, <2>2
<1>15. CASE ControlsRead \/ PollFailed
  <2> DEFINE b == call["loop"].m.a
  <2>1. /\ loop.pc \in {"events", "controls"} /\ HangUp("loop") /\ box' = box
        /\ \/ stopper' = stopper /\ \E after : BeginContain(after)
           \/ Goto("idle") /\ UNCHANGED <<session, stopper>>
           \/ /\ session.active = b
              /\ \E keeps \in BOOLEAN, after \in {"idle", "exit"} : StopAndWait(b, keeps, after)
    BY <1>15 DEF ControlsRead, PollFailed
  <2>2. b \in Attempt
    BY <1>b, <1>d, <2>1 DEF LoopInv, CoordinatorInv, WireInv, Wire, Effective
  <2>3. Goto("idle") => loop'.pc = "idle"
    BY <1>a DEF Goto, RunTypes, LoopRow
  <2> HIDE DEF b
  <2>4. ASSUME session.active = b, NEW keeps \in BOOLEAN, NEW after \in {"idle", "exit"},
               StopAndWait(b, keeps, after)
        PROVE  SessionInv'
    <3>1. session' = [Retired EXCEPT !.reconciled = keeps /\ session.reconciled] /\ stopper'.a = b
          /\ stopper'.pc = "killing" /\ loop' = [loop EXCEPT !.pc = "awaiting", !.after = after]
      BY <2>4 DEF StopAndWait
    <3>2. session'.active = None /\ loop'.pc = "awaiting"
      BY <1>a, <3>1 DEF RunTypes, SessionRow, LoopRow, Retired
    <3> QED BY <1>2, <2>2, <2>4, <3>1, <3>2, Attempts
  <2> QED BY <1>1, <1>6, <1>f, <2>1, <2>3, <2>4
<1>16. CASE Terminate
  <2>1. /\ UNCHANGED <<box, call>> /\ loop'.pc = "stopping"
        /\ \/ UNCHANGED <<session, stopper>> /\ session.active = None
           \/ /\ session.active # None /\ session'.active = None
              /\ stopper'.a = session.active /\ stopper'.pc = "killing"
    BY <1>16, <1>a, <1>c DEF Terminate, Goto, RunTypes, LoopRow, BeginStop
  <2> QED BY <1>1, <1>2, <2>1
<1>17. CASE StopBeforeExit
  BY <1>4, <1>6, <1>17 DEF StopBeforeExit
<1>18. CASE LoopUnconfirmed \/ Crash \/ CrashSuperseding
  BY <1>4, <1>18 DEF LoopUnconfirmed, Crash, CrashSuperseding
<1>19. ASSUME NEW a \in Attempt, Watchdog(a) \/ InputFailed(a) PROVE SessionInv'
  <2>1. session.active = a /\ a # None /\ loop' = loop /\ session'.active = None
    BY <1>19, <1>c, Attempts DEF Watchdog, InputFailed, BeginStop
  <2>2. stopper'.a = a /\ stopper'.pc = "killing"
    BY <1>19 DEF Watchdog, InputFailed, BeginStop
  <2>3. loop.pc \in {"idle", "events", "controls"}
    BY <1>b, <2>1 DEF SessionInv
  <2> QED BY <1>2, <2>1, <2>2, <2>3
<1>20. CASE ScopeStopped \/ StopReported
  BY <1>3, <1>20, <1>a DEF ScopeStopped, StopReported, RunTypes, StopperRow
<1>21. CASE StopNotReported \/ StopUnconfirmed
  <2>1. loop'.pc = loop.pc
    BY <1>21, <1>a DEF StopNotReported, StopUnconfirmed, RunTypes, LoopRow
  <2> QED BY <1>3, <1>21, <1>a, <1>c, <2>1
      DEF StopNotReported, StopUnconfirmed, RunTypes, StopperRow, SessionRow
<1>22. CASE StopConfirmed
  <2>1. call'["stopper"].m.kind = "stop"
    BY <1>22, <1>a, <1>d, Apart, Fields DEF StopConfirmed
  <2> QED BY <1>3, <1>22, <1>a, <2>1 DEF StopConfirmed, RunTypes, StopperRow
<1>23. ASSUME NEW a \in Attempt, TaskEnds(a) PROVE SessionInv'
  <2>1. CASE session.active = a
    <3>1. /\ stopper' = [pc |-> "reporting", a |-> a, strict |-> TRUE] /\ session'.active = None
          /\ box' = box \ {a} /\ loop' = loop /\ Send("stopper", Msg("stop", a, "base", 0))
      BY <1>23, <1>c, <2>1 DEF TaskEnds
    <3>2. call'["stopper"].m.kind = "stop"
      BY <1>a, <1>d, <3>1, Apart, Fields
    <3>3. loop.pc \in {"idle", "events", "controls"} /\ claims'[a] = "attempt"
      BY <1>b, <2>1, Attempts DEF SessionInv
    <3> QED BY <3>1, <3>2, <3>3 DEF SessionInv
  <2>2. CASE session.active # a
    BY <1>1, <1>23, <1>b, <2>2 DEF TaskEnds, SessionInv
  <2> QED BY <2>1, <2>2
<1>24. ASSUME NEW a \in Attempt, \/ ReportEvent(a) \/ EventNotWritten(a) \/ Interrupt(a)
                                 \/ TaskEndsUnconfirmed(a) \/ TaskClosed(a)
       PROVE  SessionInv'
  <2>1. UNCHANGED <<session, stopper, loop, box>>
    BY <1>24 DEF ReportEvent, EventNotWritten, TaskEndsUnconfirmed, TaskClosed, Interrupt
  <2>2. UNCHANGED call \/ HangUp("task") \/ \E m : Send("task", m)
    BY <1>24 DEF ReportEvent, EventNotWritten, TaskEndsUnconfirmed, TaskClosed, Interrupt
  <2>3. call'["stopper"] = call["stopper"]
    BY <1>a, <1>d, <2>2, Apart
  <2> QED BY <1>1, <1>b, <2>1, <2>3 DEF SessionInv
<1>25. CASE EventAcknowledged \/ EventFailed
  <2>1. UNCHANGED <<session, stopper, loop, box>> /\ HangUp("task")
    BY <1>25 DEF EventAcknowledged, EventFailed
  <2>2. call'["stopper"] = call["stopper"]
    BY <1>a, <1>d, <2>1, Apart
  <2> QED BY <1>1, <1>b, <2>1, <2>2 DEF SessionInv
<1>26. ASSUME NEW a \in Attempt, Dispatch(a) \/ EffectDone(a) \/ AskStop(a) PROVE SessionInv'
  BY <1>1, <1>26, <1>b DEF Dispatch, EffectDone, AskStop, SessionInv
<1>27. CASE \E m \in late : LateArrival(m)
  BY <1>1, <1>27, <1>b DEF LateArrival, SessionInv
<1>28. ASSUME NEW p \in Activity, Receive(p) PROVE SessionInv'
  <2>1. UNCHANGED <<session, stopper, loop, box>>
        /\ call'["stopper"].m.kind = call["stopper"].m.kind
    BY <1>28, <1>a, <1>d, Apart DEF Receive
  <2> QED BY <1>1, <1>b, <2>1 DEF SessionInv
<1> QED BY <1>5, <1>7, <1>8, <1>9, <1>10, <1>11, <1>12, <1>13, <1>14, <1>15, <1>16, <1>17, <1>18,
           <1>19, <1>20, <1>21, <1>22, <1>23, <1>24, <1>25, <1>26, <1>27, <1>28
        DEF Next, LoopStep, StopperStep, TaskStep

(* The loop knows what it waits for, and recovers only a quiet device.      *)
LEMMA LoopKept ==
  ASSUME Bounds, CoordinatorInv, Next
  PROVE  LoopInv'
<1>a. HostTypes /\ RunTypes /\ WireTypes /\ JournalTypes
  BY Types DEF CoordinatorInv
<1>b. /\ SessionInv /\ LoopInv
      /\ ~Claimed => Fewer
  BY LivesOn DEF CoordinatorInv
<1>c. session.active \in Attempt \cup {None} /\ loop.a \in Attempt \cup {None}
      /\ loop.after \in {"idle", "replaying", "exit"}
  BY <1>a DEF RunTypes, SessionRow, LoopRow
<1>d. {"loop", "stopper", "task"} \subseteq Activity
  BY DEF Activity
<1>e. \A pc \in LoopPc : Goto(pc) => loop'.pc = pc /\ loop'.a = loop.a
  BY <1>a DEF Goto, RunTypes, LoopRow
<1>f. \A m : Send("loop", m) => call'["loop"].m = m
  BY <1>a, <1>d, Apart
(* The step is another activity's or the server's.                          *)
<1>1. ASSUME loop'.pc = loop.pc, loop'.a = loop.a, claims' = claims, Fewer,
             call'["loop"].m.kind = call["loop"].m.kind,
             call["loop"].m.kind # "leases" => call'["loop"].m = call["loop"].m
      PROVE  LoopInv'
  BY <1>1, <1>a, <1>b DEF LoopInv, Fewer, HostTypes, Over, Recovering
(* The loop waits for nothing of its own.                                   *)
<1>2. ASSUME loop'.pc \in {"idle", "awaiting", "stopping", "exit", "inspecting"} PROVE LoopInv'
  BY <1>2 DEF LoopInv, Recovering
<1>3. ASSUME NEW after, BeginContain(after) PROVE LoopInv'
  <2>1. \/ loop'.pc = "inspecting"
        \/ loop'.pc = "killing" /\ loop'.a \in Attempt
    BY <1>3, <1>c DEF BeginContain
  <2> QED BY <1>2, <2>1 DEF LoopInv, Recovering
<1>4. CASE Dead
  BY <1>4 DEF Dead, LoopInv, Recovering, Over
<1>5. CASE Tick \/ ClaimRefused \/ HeartbeatLost \/ RequestFailed \/ StartRefused
  BY <1>3, <1>5 DEF Tick, ClaimRefused, HeartbeatLost, RequestFailed, StartRefused
<1>6. CASE LoopSettled \/ Boot \/ Claimed \/ NothingClaimed \/ Terminate
  <2>1. loop'.pc \in {"idle", "inspecting", "stopping"}
    <3>1. \/ Goto("inspecting") \/ Goto("idle") \/ Goto("stopping")
          \/ loop' = [pc |-> "inspecting", a |-> None, after |-> "idle"]
      BY <1>6 DEF LoopSettled, Boot, Claimed, NothingClaimed, Terminate
    <3> QED BY <1>e, <3>1 DEF LoopPc
  <2> QED BY <1>2, <2>1
<1>7. CASE ControlsRead \/ PollFailed
  <2>1. \/ \E after : BeginContain(after)
        \/ Goto("idle")
        \/ \E after : loop' = [loop EXCEPT !.pc = "awaiting", !.after = after]
    BY <1>7 DEF ControlsRead, PollFailed, StopAndWait
  <2>2. (\E after : loop' = [loop EXCEPT !.pc = "awaiting", !.after = after])
          => loop'.pc = "awaiting"
    BY <1>a DEF RunTypes, LoopRow
  <2> QED BY <1>2, <1>3, <1>e, <2>1, <2>2 DEF LoopPc
<1>8. CASE StopAwaited \/ StopBeforeExit
  BY <1>2, <1>3, <1>4, <1>8, <1>e DEF StopAwaited, StopBeforeExit, LoopPc
<1>9. CASE LoopUnconfirmed \/ Crash \/ CrashSuperseding
  BY <1>4, <1>9 DEF LoopUnconfirmed, Crash, CrashSuperseding
<1>10. CASE LoopScopeStopped
  <2>1. loop'.pc = "settling" /\ loop'.a = loop.a /\ box' = box \ {loop.a} /\ loop.a \in Attempt
    BY <1>10, <1>b, <1>e DEF LoopScopeStopped, LoopPc, LoopInv
  <2> QED BY <2>1 DEF LoopInv, Recovering
<1>11. CASE Inspect
  <2>1. CASE box # {}
    <3>1. loop'.pc = "killing" /\ loop'.a \in Attempt
      BY <1>11, <1>a, <2>1 DEF Inspect, HostTypes, RunTypes, LoopRow
    <3> QED BY <3>1 DEF LoopInv, Recovering
  <2>2. CASE box = {}
    <3>1. loop'.pc \in {"idle", "replaying", "exit"} /\ box' = {}
      BY <1>11, <1>a, <1>c, <2>2 DEF Inspect, RunTypes, LoopRow
    <3> QED BY <3>1 DEF LoopInv
  <2> QED BY <2>1, <2>2
<1>12. CASE Replay
  <2>1. box' = {} /\ claims' = claims
    BY <1>12, <1>b DEF Replay, LoopInv, Recovering
  <2>2. CASE \E a \in Attempt : claims[a] = "pending"
    <3>1. PICK a \in Attempt : /\ claims[a] = "pending"
                               /\ Send("loop", Msg("claim", a, "none", 0)) /\ Goto("replayed")
      BY <1>12, <2>2 DEF Replay
    <3>2. loop'.pc = "replayed" /\ call'["loop"].m = Msg("claim", a, "none", 0)
      BY <1>e, <1>f, <3>1 DEF LoopPc
    <3>3. call'["loop"].m.kind = "claim" /\ claims'[call'["loop"].m.a] = "pending"
      BY <2>1, <3>1, <3>2, Fields
    <3> QED BY <2>1, <3>2, <3>3 DEF LoopInv
  <2>3. CASE ~\E a \in Attempt : claims[a] = "pending"
    <3>1. Send("loop", Msg("leases", None, "none", 0)) /\ Goto("leases")
      BY <1>12, <2>3 DEF Replay
    <3>2. loop'.pc = "leases" /\ call'["loop"].m.kind = "leases"
      BY <1>e, <1>f, <3>1, Fields DEF LoopPc
    <3> QED BY <2>1, <2>3, <3>2 DEF LoopInv
  <2> QED BY <2>2, <2>3
<1>13. CASE Replayed \/ EvidenceTaken
  <2>1. loop'.pc \in {"replaying", "resending"} /\ box' = {}
    BY <1>13, <1>b, <1>e DEF Replayed, EvidenceTaken, LoopInv, Recovering, LoopPc
  <2> QED BY <2>1 DEF LoopInv
<1>14. CASE LeasesKnown
  <2> DEFINE a == call["loop"].m.a
             id == SentStop(a, call["loop"].m.n + 1, TRUE)
  <2>1. box' = {}
    BY <1>14, <1>b DEF LeasesKnown, LoopInv, Recovering
  <2>2. \/ loop' = [loop EXCEPT !.pc = "resending", !.a = a]
        \/ /\ Send("loop", Msg("stop", a, id, 0))
           /\ loop' = [loop EXCEPT !.pc = "evidence", !.a = a]
    BY <1>14 DEF LeasesKnown
  <2> HIDE DEF a, id
  <2>3. \/ loop'.pc = "resending"
        \/ loop'.pc = "evidence" /\ call'["loop"].m.kind = "stop"
    <3>1. CASE loop' = [loop EXCEPT !.pc = "resending", !.a = a]
      BY <1>a, <3>1 DEF RunTypes, LoopRow
    <3>2. CASE /\ Send("loop", Msg("stop", a, id, 0))
               /\ loop' = [loop EXCEPT !.pc = "evidence", !.a = a]
      <4>1. loop'.pc = "evidence"
        BY <1>a, <3>2 DEF RunTypes, LoopRow
      <4> QED BY <1>f, <3>2, <4>1, Fields
    <3> QED BY <2>2, <3>1, <3>2
  <2> QED BY <2>1, <2>3 DEF LoopInv
<1>15. CASE Resend
  <2>1. box' = {}
    BY <1>15, <1>b DEF Resend, LoopInv, Recovering
  <2>2. \/ loop' = [loop EXCEPT !.pc = "idle", !.a = None]
        \/ Goto("evidence") /\ \E p \in Attempt \X StopId : Send("loop", Msg("stop", p[1], p[2], 0))
    BY <1>15 DEF Resend, PendingStops
  <2>3. \/ loop'.pc = "idle"
        \/ loop'.pc = "evidence" /\ call'["loop"].m.kind = "stop"
    <3>1. CASE loop' = [loop EXCEPT !.pc = "idle", !.a = None]
      BY <1>a, <3>1 DEF RunTypes, LoopRow
    <3>2. ASSUME Goto("evidence"), NEW p \in Attempt \X StopId,
                 Send("loop", Msg("stop", p[1], p[2], 0))
          PROVE  loop'.pc = "evidence" /\ call'["loop"].m.kind = "stop"
      <4>1. loop'.pc = "evidence"
        BY <1>e, <3>2 DEF LoopPc
      <4> QED BY <1>f, <3>2, <4>1, Fields
    <3> QED BY <2>2, <3>1, <3>2
  <2> QED BY <2>1, <2>3 DEF LoopInv
<1>16. CASE Claim
  <2>1. PICK a \in Attempt : /\ claims' = [claims EXCEPT ![a] = "pending"]
                             /\ Send("loop", Msg("claim", a, "none", 0))
    BY <1>16 DEF Claim, ClaimKey, Unanswered, Fresh
  <2>2. call'["loop"].m.kind = "claim" /\ claims'[call'["loop"].m.a] = "pending"
    BY <1>a, <1>f, <2>1, Fields DEF JournalTypes
  <2>3. loop'.pc = "claiming" /\ UNCHANGED <<box, task>>
    BY <1>16, <1>e DEF Claim, LoopPc
  <2>4. \A b \in Attempt : ~Alive(b)
    BY <1>16, Attempts
    DEF Claim, Stopping, CoordinatorInv, Covered, InCharge, Containing
  <2>5. box = {} /\ \A b \in Attempt : task[b] \in Over
    BY <1>a, <2>4 DEF Alive, HostTypes
  <2> QED BY <2>2, <2>3, <2>5 DEF LoopInv
<1>17. CASE Poll \/ EventReplayed
  <2>1. \/ \E a \in Attempt : Send("loop", LastWritten(a)) /\ Goto("events")
        \/ \E a : Send("loop", Msg("controls", a, "none", 0)) /\ Goto("controls")
        \/ BeginContain("exit")
    BY <1>17, <1>c DEF Poll, EventReplayed
  <2>2. ASSUME NEW a \in Attempt, Send("loop", LastWritten(a)), Goto("events") PROVE LoopInv'
    <3>1. loop'.pc = "events" /\ call'["loop"].m.kind \in {"event", "interrupted"}
      BY <1>a, <1>e, <1>f, <2>2, LastWrittenSent DEF LoopPc
    <3> QED BY <3>1 DEF LoopInv, Recovering
  <2>3. ASSUME NEW a, Send("loop", Msg("controls", a, "none", 0)), Goto("controls") PROVE LoopInv'
    <3>1. loop'.pc = "controls" /\ call'["loop"].m.kind = "controls"
      BY <1>e, <1>f, <2>3, Fields DEF LoopPc
    <3> QED BY <3>1 DEF LoopInv, Recovering
  <2> QED BY <1>3, <2>1, <2>2, <2>3
<1>18. CASE StopperStep \/ StopNotReported \/ StopUnconfirmed
  <2>1. loop'.pc = loop.pc /\ loop'.a = loop.a /\ claims' = claims /\ ~Claimed
    BY <1>18, <1>a, <1>b DEF RunTypes, LoopRow, StopperStep, ScopeStopped, StopConfirmed,
       StopReported, StopNotReported, StopUnconfirmed, Claimed, SessionInv
  <2>2. UNCHANGED call \/ HangUp("stopper") \/ \E m : Send("stopper", m)
    BY <1>18 DEF StopperStep, ScopeStopped, StopConfirmed, StopReported, StopNotReported,
       StopUnconfirmed
  <2>3. call'["loop"] = call["loop"]
    BY <1>a, <1>d, <2>2, Apart
  <2> QED BY <1>1, <1>b, <2>1, <2>3
<1>19. CASE \/ TaskStep \/ EventFailed
            \/ \E a \in Attempt : \/ Dispatch(a) \/ ReportEvent(a) \/ EventNotWritten(a)
                                  \/ Watchdog(a) \/ InputFailed(a)
                                  \/ TaskEndsUnconfirmed(a) \/ TaskClosed(a) \/ Interrupt(a)
                                  \/ AskStop(a)
  <2>1. loop' = loop /\ claims' = claims
    BY <1>19 DEF TaskStep, EffectDone, TaskEnds, TaskClosed, Interrupt, EventAcknowledged,
       EventFailed, Dispatch, ReportEvent, EventNotWritten, Watchdog, InputFailed,
       TaskEndsUnconfirmed, AskStop
  <2>2. UNCHANGED call \/ HangUp("task") \/ (\E m : Send("task", m)) \/ \E m : Send("stopper", m)
    BY <1>19 DEF TaskStep, EffectDone, TaskEnds, TaskClosed, Interrupt, EventAcknowledged,
       EventFailed, Dispatch, ReportEvent, EventNotWritten, Watchdog, InputFailed,
       TaskEndsUnconfirmed, AskStop
  <2>3. call'["loop"] = call["loop"]
    BY <1>a, <1>d, <2>2, Apart
  <2>4. CASE Claimed
    BY <1>6, <2>4
  <2> QED BY <1>1, <1>b, <2>1, <2>3, <2>4
<1>20. CASE \E m \in late : LateArrival(m)
  <2>1. UNCHANGED <<loop, claims, call>>
    BY <1>20 DEF LateArrival
  <2> QED BY <1>1, <1>6, <1>b, <2>1
<1>21. ASSUME NEW p \in Activity, Receive(p) PROVE LoopInv'
  <2>1. UNCHANGED <<loop, claims>>
    BY <1>21 DEF Receive
  <2>2. /\ call'["loop"].m.kind = call["loop"].m.kind
        /\ call["loop"].m.kind # "leases" => call'["loop"].m = call["loop"].m
    BY <1>21, <1>a, <1>d, Apart
  <2> QED BY <1>1, <1>6, <1>b, <2>1, <2>2
<1> QED BY <1>5, <1>6, <1>7, <1>8, <1>9, <1>10, <1>11, <1>12, <1>13, <1>14, <1>15, <1>16, <1>17,
           <1>18, <1>19, <1>20, <1>21
        DEF Next, LoopStep, StopperStep, TaskStep

(* The task and the report it waits for stay together.                      *)
LEMMA TaskKept ==
  ASSUME Bounds, CoordinatorInv, Next
  PROVE  TaskInv'
<1>a. HostTypes /\ RunTypes /\ WireTypes /\ JournalTypes
  BY Types DEF CoordinatorInv
<1>b. TaskInv /\ (call["task"].reply # "idle" => call["task"].m.a \in Attempt)
  BY DEF CoordinatorInv, TaskInv, WireInv, Wire, Effective, Activity
<1>d. {"loop", "stopper", "task"} \subseteq Activity /\ Quiet.reply = "idle"
  BY DEF Activity, Quiet
(* Neither the task nor its report moved.                                   *)
<1>1. ASSUME \/ call'["task"] = call["task"]
             \/ /\ call'["task"].m = call["task"].m
                /\ call["task"].reply = "idle" <=> call'["task"].reply = "idle",
             call["task"].reply # "idle" => task'[call["task"].m.a] = task[call["task"].m.a]
      PROVE  TaskInv'
  BY <1>1, <1>b DEF TaskInv
<1>2. CASE call'["task"].reply = "idle"
  BY <1>2 DEF TaskInv
<1>3. CASE Dead
  BY <1>2, <1>3, <1>d DEF Dead
<1>4. CASE HangUp("task")
  BY <1>2, <1>4, <1>a, <1>d DEF HangUp, WireTypes
<1>5. CASE StopBeforeExit \/ LoopUnconfirmed \/ Crash \/ CrashSuperseding
  BY <1>1, <1>3, <1>5 DEF StopBeforeExit, LoopUnconfirmed, Crash, CrashSuperseding
<1>6. CASE Claimed
  <2>1. call["task"].reply = "idle"
    BY <1>6, <1>b DEF Claimed, CoordinatorInv, LoopInv, TaskInv, Over
  <2>2. call'["task"] = call["task"]
    BY <1>6, <1>a, <1>d, Apart DEF Claimed
  <2> QED BY <1>1, <2>1, <2>2
<1>7. CASE \/ LoopScopeStopped \/ LoopSettled \/ Inspect \/ Tick \/ Replay \/ Replayed
           \/ LeasesKnown
           \/ Resend \/ EvidenceTaken \/ Claim \/ ClaimRefused \/ NothingClaimed \/ Poll
           \/ EventReplayed \/ ControlsRead
           \/ StopAwaited \/ Boot \/ RequestFailed \/ HeartbeatLost \/ PollFailed \/ StartRefused
  <2>1. task' = task /\ (UNCHANGED call \/ HangUp("loop") \/ \E m : Send("loop", m))
    BY <1>7 DEF LoopScopeStopped, LoopSettled, Inspect, Tick, Replay, Replayed, LeasesKnown,
       Resend, EvidenceTaken, Claim, ClaimRefused, NothingClaimed, Poll, EventReplayed,
       ControlsRead, StopAndWait, StopAwaited, Boot, RequestFailed, HeartbeatLost, PollFailed,
       StartRefused
  <2>2. call'["task"] = call["task"]
    BY <1>a, <1>d, <2>1, Apart
  <2> QED BY <1>1, <2>1, <2>2
<1>8. CASE StopperStep \/ StopNotReported \/ StopUnconfirmed \/ Terminate
           \/ \E a \in Attempt : Watchdog(a) \/ InputFailed(a) \/ AskStop(a)
  <2>1. task' = task /\ (UNCHANGED call \/ HangUp("stopper") \/ \E m : Send("stopper", m))
    BY <1>8 DEF StopperStep, ScopeStopped, StopConfirmed, StopReported, StopNotReported,
       StopUnconfirmed, Terminate, Watchdog, InputFailed, AskStop
  <2>2. call'["task"] = call["task"]
    BY <1>a, <1>d, <2>1, Apart
  <2> QED BY <1>1, <2>1, <2>2
<1>9. ASSUME NEW a \in Attempt, Dispatch(a) \/ EffectDone(a) PROVE TaskInv'
  <2>1. UNCHANGED call /\ (call["task"].reply # "idle" => task[a] = "dispatching")
    BY <1>9 DEF Dispatch, EffectDone, Busy
  <2>2. call["task"].reply # "idle" => task'[call["task"].m.a] = task[call["task"].m.a]
    BY <1>9, <1>a, <1>b, <2>1 DEF Dispatch, EffectDone, HostTypes, TaskInv
  <2> QED BY <1>1, <2>1, <2>2
<1>10. ASSUME NEW a \in Attempt, ReportEvent(a) PROVE TaskInv'
  <2>1. /\ task'[a] = "working"
        /\ Send("task", Msg("event", a, "none", events[a].written + 1))
    BY <1>10 DEF ReportEvent
  <2>2. call'["task"].m.kind = "event" /\ call'["task"].m.a = a
    BY <1>a, <1>d, <2>1, Apart, Fields
  <2> QED BY <2>1, <2>2 DEF TaskInv
<1>11. CASE EventAcknowledged \/ EventFailed
  BY <1>4, <1>11 DEF EventAcknowledged, EventFailed
<1>12. ASSUME NEW a \in Attempt, TaskEnds(a) PROVE TaskInv'
  <2>1. call["task"].reply = "idle" /\ (UNCHANGED call \/ \E m : Send("stopper", m))
    BY <1>12 DEF TaskEnds, Busy
  <2>2. call'["task"] = call["task"]
    BY <1>a, <1>d, <2>1, Apart
  <2> QED BY <1>1, <2>1, <2>2
<1>13. ASSUME NEW a \in Attempt, TaskEndsUnconfirmed(a) \/ TaskClosed(a) \/ EventNotWritten(a)
       PROVE  TaskInv'
  <2>1. call["task"].reply = "idle" /\ UNCHANGED call
    BY <1>13 DEF TaskEndsUnconfirmed, TaskClosed, EventNotWritten, InTurn, Busy
  <2> QED BY <1>2, <2>1
<1>16. ASSUME NEW a \in Attempt, Interrupt(a) PROVE TaskInv'
  <2>1. /\ task'[a] = "closing"
        /\ \/ Send("task", LastWritten(a))
           \/ Send("task", Msg("interrupted", a, "none", events[a].written + 1))
    BY <1>16 DEF Interrupt
  <2>2. call'["task"].m.kind \in {"event", "interrupted"} /\ call'["task"].m.a = a
    BY <1>a, <1>d, <2>1, Apart, Fields, LastWrittenSent
  <2> QED BY <2>1, <2>2 DEF TaskInv
<1>14. CASE \E m \in late : LateArrival(m)
  BY <1>1, <1>14 DEF LateArrival
<1>15. ASSUME NEW p \in Activity, Receive(p) PROVE TaskInv'
  <2>1. task' = task
    BY <1>15 DEF Receive
  <2>2. CASE call["task"].reply = "idle"
    <3>1. call'["task"].reply = "idle"
      BY <1>15, <1>a, <1>d, <2>2, Apart
    <3> QED BY <1>2, <3>1
  <2>3. CASE call["task"].reply # "idle"
    <3>1. call["task"].m.kind # "leases"
      BY <1>b, <2>3 DEF TaskInv
    <3>2. call'["task"].m = call["task"].m
          /\ (call["task"].reply = "idle" <=> call'["task"].reply = "idle")
      BY <1>15, <1>a, <1>d, <3>1, Apart
    <3> QED BY <1>1, <2>1, <3>2
  <2> QED BY <2>2, <2>3
<1> QED BY <1>5, <1>6, <1>7, <1>8, <1>9, <1>10, <1>11, <1>12, <1>13, <1>14, <1>15,
           <1>16
        DEF Next, LoopStep, StopperStep, TaskStep

-----------------------------------------------------------------------------
(* The invariant *)

(* The invariant holds before anything happened.                            *)
LEMMA CoordinatorInit ==
  ASSUME Bounds, Init
  PROVE  CoordinatorInv
<1>1. TypeOK
  <2>1. Quiet \in CallRow /\ 0 \in 0..LastEvent /\ 0 \in 0..(LastEvent + 1)
    BY Messages, Attempts
  <2>2. ServerTypes /\ JournalTypes
    BY <2>1 DEF Init, ServerTypes, SrvRow, JournalTypes, StopRow
  <2>3. HostTypes /\ RunTypes
    BY DEF Init, HostTypes, RunTypes, SessionRow, LoopRow, LoopPc, StopperRow
  <2>4. WireTypes
    BY <2>1, Attempts DEF Init, WireTypes
  <2> QED BY <2>2, <2>3, <2>4
      DEF TypeOK, ServerTypes, SrvRow, JournalTypes, StopRow, HostTypes, RunTypes, SessionRow,
          LoopRow, LoopPc, StopperRow, WireTypes, CallRow
<1>2. WireInv
  BY Fields DEF Init, WireInv, Wire, Quiet, Effective
<1>3. EvidenceInv
  BY DEF Init, EvidenceInv, Evident
<1>4. \A a \in Attempt : ~Alive(a)
  BY DEF Init, Alive, Over
<1>5. SessionInv /\ LoopInv
  BY DEF Init, SessionInv, LoopInv, Recovering, Over
<1>6. TaskInv
  BY DEF Init, TaskInv, Quiet, Activity
<1> QED BY <1>1, <1>2, <1>3, <1>4, <1>5, <1>6 DEF CoordinatorInv, Alone, Covered

(* Every step keeps it.                                                     *)
LEMMA CoordinatorStep ==
  ASSUME Bounds, CoordinatorInv, [Next]_vars
  PROVE  CoordinatorInv'
<1>1. TypeOK'
  BY TypesKept
<1>2. CASE Next
  BY <1>1, <1>2, WireKept, EvidenceKept, AloneKept, CoveredKept, SessionKept, LoopKept, TaskKept
  DEF CoordinatorInv
<1>3. CASE UNCHANGED vars
  BY <1>1, <1>3 DEF vars, CoordinatorInv, WireInv, Wire, Entry, EvidenceInv, Evident, Alone,
     Covered, Alive, InCharge, SessionInv, LoopInv, TaskInv
<1> QED BY <1>2, <1>3

LEMMA InvRunsOne ==
  ASSUME CoordinatorInv
  PROVE  OneAttemptRuns
<1> SUFFICES Cardinality({a \in Attempt : Running(a)}) <= 1
  BY DEF OneAttemptRuns
<1> DEFINE S == {a \in Attempt : Running(a)}
<1>1. \A a, b \in S : a = b
  BY DEF CoordinatorInv, Alone, Alive, Running, Over
<1>2. CASE S = {}
  BY <1>2, FS_EmptySet
<1>3. CASE S # {}
  <2>1. PICK a : S = {a}
    BY <1>1, <1>3
  <2> HIDE DEF S
  <2>2. Cardinality(S) = 1
    BY <2>1, FS_Singleton
  <2> QED BY <2>2 DEF S
<1> QED BY <1>2, <1>3

LEMMA InvContained ==
  ASSUME CoordinatorInv
  PROVE  StoppedIsContained
BY DEF CoordinatorInv, EvidenceInv, Evident, StoppedIsContained, EvidenceAfterContainers,
   EndedIsContained

-----------------------------------------------------------------------------
(* Evidence before claims *)

(* The server counts an attempt that the device was given as active, and    *)
(* the journal does not take its stop for done.                             *)
Open(a) == claims[a] = "attempt" /\ srv[a].state = "active" /\ stops[a].base # "done"

RowsSound ==
  /\ \A a \in Attempt : srv[a].receipt # "none" => srv[a].state = "ended"
  /\ \A a, b \in Attempt : srv[a].state = "active" /\ srv[b].state = "active" => a = b

GivenWasBegun == \A a \in Attempt : claims[a] = "attempt" => srv[a].state # "none"

(* What an answer says is so, and stays so.                                 *)
AnswersTrue ==
  \A p \in Activity : call[p].reply = "ok" =>
    /\ call[p].m.kind = "stop" => srv[call[p].m.a].state = "ended"
    /\ call[p].m.kind = "claim" => srv[call[p].m.a].state # "none"

ReportsOwn == stopper.pc = "reporting" => call["stopper"].m.a = stopper.a

(* The loop and the stop beside it have a request out where they wait for   *)
(* its answer, and nowhere else.                                            *)
Waiting == {"replayed", "leases", "evidence", "claiming", "events", "controls"}
StopperCalls == call["stopper"].reply # "idle" => stopper.pc = "reporting"
LoopCalls == call["loop"].reply # "idle" => loop.pc \in Waiting
CallsOwn == StopperCalls /\ LoopCalls

(* From a containment to the end of the recovery that follows it.           *)
Unreconciled == {"down", "killing", "settling", "inspecting", "replaying", "replayed", "leases",
                 "evidence", "resending"}

(* An open attempt is known to whoever will see to its stop.                *)
Served(a) == session.active = a \/ (Stopping /\ stopper.a = a)
Accounted(a) ==
  /\ session.reconciled => Served(a)
  /\ loop.pc = "leases" /\ call["loop"].reply = "ok" => call["loop"].m.a = a
  /\ loop.pc = "evidence" => call["loop"].m.a = a
  /\ loop.pc # "resending"

OpenKnown ==
  /\ loop.pc \in Unreconciled => ~session.reconciled
  /\ \A a \in Attempt : Open(a) => Accounted(a)

ClaimsInv ==
  RowsSound /\ GivenWasBegun /\ AnswersTrue /\ ReportsOwn /\ CallsOwn /\ OpenKnown

(* The server begins attempts and ends them, and takes nothing back.        *)
Steady ==
  \A a \in Attempt : /\ srv[a].state # "none" => srv'[a].state # "none"
                     /\ srv[a].state = "ended" => srv'[a].state = "ended"
                     /\ srv'[a].state = "active" => srv[a].state \in {"none", "active"}

(* A request keeps the server's rows sound.                                 *)
LEMMA RowsAnswer ==
  ASSUME Bounds, ServerTypes, RowsSound, NEW m \in Message, Wire(m), Handle(m)
  PROVE  RowsSound' /\ Steady
<1>a. m.kind \in Effective => m.a \in Attempt
  BY DEF Wire
<1>1. /\ srv' \in [Attempt -> SrvRow]
      /\ \A a \in Attempt :
           \/ srv'[a].state = srv[a].state
           \/ /\ m.kind = "claim" /\ m.a = a
              /\ srv[a].state = "none" /\ srv'[a].state = "active"
           \/ /\ m.kind = "stop" /\ m.a = a
              /\ srv[a].state = "active" /\ srv'[a].state = "ended"
  BY <1>a, ServerMoves DEF ServerTypes
<1>2. Steady
  BY <1>1 DEF Steady
<1>3. ASSUME NEW a \in Attempt, srv'[a].receipt # "none" PROVE srv'[a].state = "ended"
  <2>1. CASE m.kind = "stop" /\ srv[m.a].state = "active"
    <3>1. srv' = [srv EXCEPT ![m.a] = [srv[m.a] EXCEPT !.state = "ended", !.receipt = m.id]]
      BY <2>1 DEF Handle, ServerStop
    <3> DEFINE row == [srv[m.a] EXCEPT !.state = "ended", !.receipt = m.id]
    <3>2. row.state = "ended"
      BY <1>a, <2>1 DEF Effective, ServerTypes, SrvRow
    <3> HIDE DEF row
    <3>3. CASE a = m.a
      BY <3>1, <3>2, <3>3 DEF ServerTypes, row
    <3>4. CASE a # m.a
      BY <1>3, <3>1, <3>4 DEF ServerTypes, RowsSound
    <3> QED BY <3>3, <3>4
  <2>2. CASE ~(m.kind = "stop" /\ srv[m.a].state = "active")
    <3>1. srv'[a].receipt = srv[a].receipt
      <4>1. CASE m.kind = "claim"
        <5>1. srv' = srv \/ srv' = [srv EXCEPT ![m.a].state = "active"]
          BY <4>1 DEF Handle, ServerClaim
        <5> QED BY <1>a, <4>1, <5>1 DEF ServerTypes, SrvRow, Effective
      <4>2. CASE m.kind = "stop"
        BY <2>2, <4>2 DEF Handle, ServerStop
      <4>3. CASE m.kind = "event"
        <5>1. srv' = srv \/ srv' = [srv EXCEPT ![m.a].seen = m.n]
          BY <4>3 DEF Handle, ServerEvent
        <5> QED BY <1>a, <4>3, <5>1 DEF ServerTypes, SrvRow, Effective
      <4>4. CASE m.kind = "interrupted"
        <5> DEFINE row == [srv[m.a] EXCEPT !.seen = m.n, !.stopAsked = TRUE]
        <5>1. m.a \in Attempt /\ srv[m.a] \in SrvRow
          BY <1>a, <4>4 DEF Effective, ServerTypes
        <5>2. row.receipt = srv[m.a].receipt
          BY <5>1 DEF SrvRow
        <5>3. srv' = srv \/ srv' = [srv EXCEPT ![m.a] = row]
          BY <4>4 DEF Handle, ServerInterrupted
        <5> HIDE DEF row
        <5> QED BY <5>1, <5>2, <5>3 DEF ServerTypes
      <4>5. CASE m.kind \notin {"claim", "stop", "event", "interrupted"}
        BY <4>5 DEF Handle
      <4> QED BY <4>1, <4>2, <4>3, <4>4, <4>5
    <3>2. srv[a].state = "ended"
      BY <1>3, <3>1 DEF RowsSound
    <3> QED BY <1>2, <3>2 DEF Steady
  <2> QED BY <2>1, <2>2
<1>4. ASSUME NEW a \in Attempt, NEW b \in Attempt, srv'[a].state = "active", srv'[b].state = "active"
      PROVE  a = b
  <2>1. CASE m.kind = "claim"
    <3>1. srv' = srv \/ Leased = {}
      BY <2>1 DEF Handle, ServerClaim
    <3>2. CASE srv' = srv
      BY <1>4, <3>2 DEF RowsSound
    <3>3. CASE Leased = {}
      <4>1. srv[a].state # "active" /\ srv[b].state # "active"
        BY <3>3 DEF Leased
      <4> QED BY <1>1, <1>4, <4>1
    <3> QED BY <3>1, <3>2, <3>3
  <2>2. CASE m.kind # "claim"
    <3>1. srv[a].state = "active" /\ srv[b].state = "active"
      BY <1>1, <1>4, <2>2
    <3> QED BY <3>1 DEF RowsSound
  <2> QED BY <2>1, <2>2
<1> QED BY <1>2, <1>3, <1>4 DEF RowsSound

(* The server's rows after any step; the device does nothing when the       *)
(* server does something.                                                   *)
LEMMA RowsKept ==
  ASSUME Bounds, CoordinatorInv, RowsSound, Next
  PROVE  RowsSound' /\ Steady /\ (UNCHANGED srv \/ UNCHANGED <<journalVars, hostVars, runVars>>)
<1>a. ServerTypes /\ JournalTypes /\ WireTypes
  BY Types DEF CoordinatorInv
<1>1. ASSUME NEW p \in Activity, Receive(p)
      PROVE  RowsSound' /\ Steady /\ UNCHANGED <<journalVars, hostVars, runVars>>
  <2>1. call[p].m \in Message /\ Wire(call[p].m) /\ Handle(call[p].m)
    BY <1>1, <1>a DEF Receive, WireTypes, CallRow, CoordinatorInv, WireInv
  <2> QED BY <1>1, <1>a, <2>1, RowsAnswer DEF Receive
<1>2. ASSUME NEW m \in late, LateArrival(m)
      PROVE  RowsSound' /\ Steady /\ UNCHANGED <<journalVars, hostVars, runVars>>
  <2>1. m \in Message /\ Wire(m) /\ Handle(m)
    BY <1>2, <1>a DEF LateArrival, WireTypes, CoordinatorInv, WireInv
  <2> QED BY <1>2, <1>a, <2>1, RowsAnswer DEF LateArrival
<1>3. ASSUME NEW a \in Attempt, AskStop(a)
      PROVE  RowsSound' /\ Steady /\ UNCHANGED <<journalVars, hostVars, runVars>>
  <2>1. \A b \in Attempt : srv'[b].state = srv[b].state /\ srv'[b].receipt = srv[b].receipt
    BY <1>3, <1>a DEF AskStop, ServerTypes, SrvRow
  <2>2. RowsSound' /\ Steady
    BY <2>1, <1>a DEF RowsSound, Steady, ServerTypes, SrvRow
  <2> QED BY <1>3, <2>2 DEF AskStop
<1>4. UNCHANGED srv => RowsSound' /\ Steady
  BY <1>a DEF RowsSound, Steady, ServerTypes, SrvRow
<1>6. CASE LoopStep
  BY <1>4, <1>6 DEF LoopStep, LoopScopeStopped, LoopSettled, Inspect, Tick, Replay, Replayed,
     LeasesKnown, Resend, EvidenceTaken, Claim, ClaimRefused, Claimed, NothingClaimed, Poll,
     EventReplayed, ControlsRead, StopAndWait, StopAwaited, StopBeforeExit, Boot, RequestFailed,
     PollFailed
<1>7. CASE \/ RequestFailed \/ HeartbeatLost \/ PollFailed \/ StartRefused \/ LoopUnconfirmed
           \/ StopperStep \/ StopNotReported \/ StopUnconfirmed \/ Terminate \/ Crash
           \/ CrashSuperseding
  BY <1>4, <1>7 DEF RequestFailed, HeartbeatLost, PollFailed, StartRefused, LoopUnconfirmed,
     StopperStep, ScopeStopped, StopConfirmed, StopReported, StopNotReported, StopUnconfirmed,
     Terminate, Crash, CrashSuperseding, StopAndWait
<1>8. CASE \/ TaskStep \/ EventFailed
           \/ \E a \in Attempt : \/ Dispatch(a) \/ ReportEvent(a) \/ EventNotWritten(a)
                                 \/ Watchdog(a) \/ InputFailed(a)
                                 \/ TaskEndsUnconfirmed(a) \/ TaskClosed(a) \/ Interrupt(a)
  BY <1>4, <1>8 DEF TaskStep, EffectDone, TaskEnds, TaskClosed, Interrupt, EventAcknowledged,
     EventFailed, Dispatch, ReportEvent, EventNotWritten, Watchdog, InputFailed,
     TaskEndsUnconfirmed
<1> QED BY <1>1, <1>2, <1>3, <1>6, <1>7, <1>8 DEF Next

(* No request has an answer that it did not have before.                     *)
NoNewAnswer == \A q \in Activity : call'[q].reply = "ok" => call'[q] = call[q]

(* A step that is no answer of the server answers nothing.                  *)
LEMMA NothingAnswered ==
  ASSUME Bounds, CoordinatorInv, Next
  PROVE  \/ \E p \in Activity : Receive(p)
         \/ NoNewAnswer
<1>a. WireTypes
  BY Types DEF CoordinatorInv
<1>1. ASSUME NEW p, HangUp(p) PROVE NoNewAnswer
  BY <1>1, <1>a DEF HangUp, WireTypes, Quiet, NoNewAnswer
<1>2. ASSUME NEW p, NEW m, Send(p, m) PROVE NoNewAnswer
  BY <1>2, <1>a DEF Send, WireTypes, NoNewAnswer
<1>3. ASSUME UNCHANGED call PROVE NoNewAnswer
  BY <1>3 DEF NoNewAnswer
<1>4. ASSUME Dead PROVE NoNewAnswer
  BY <1>4 DEF Dead, Quiet, NoNewAnswer
<1>5. CASE LoopStep \/ RequestFailed \/ HeartbeatLost \/ PollFailed \/ StartRefused
  <2>1. UNCHANGED call \/ Dead \/ HangUp("loop") \/ \E m : Send("loop", m)
    BY <1>5 DEF LoopStep, LoopScopeStopped, LoopSettled, Inspect, Tick, Replay, Replayed,
       LeasesKnown, Resend, EvidenceTaken, Claim, ClaimRefused, Claimed, NothingClaimed, Poll,
       EventReplayed, ControlsRead, StopAndWait, StopAwaited, StopBeforeExit, Boot, RequestFailed,
       HeartbeatLost, PollFailed, StartRefused
  <2> QED BY <1>1, <1>2, <1>3, <1>4, <2>1
<1>6. CASE StopperStep \/ StopNotReported \/ StopUnconfirmed \/ \E a \in Attempt : TaskEnds(a)
  <2>1. UNCHANGED call \/ HangUp("stopper") \/ \E m : Send("stopper", m)
    BY <1>6 DEF StopperStep, ScopeStopped, StopConfirmed, StopReported, StopNotReported,
       StopUnconfirmed, TaskEnds
  <2> QED BY <1>1, <1>2, <1>3, <2>1
<1>7. CASE \/ EventAcknowledged \/ EventFailed
           \/ \E a \in Attempt : \/ EffectDone(a) \/ Dispatch(a) \/ ReportEvent(a)
                                 \/ EventNotWritten(a)
                                 \/ TaskEndsUnconfirmed(a) \/ TaskClosed(a) \/ Interrupt(a)
  <2>1. UNCHANGED call \/ HangUp("task") \/ \E m : Send("task", m)
    BY <1>7 DEF EventAcknowledged, EventFailed, EffectDone, Dispatch, ReportEvent, EventNotWritten,
       TaskEndsUnconfirmed, TaskClosed, Interrupt
  <2> QED BY <1>1, <1>2, <1>3, <2>1
<1>8. CASE \/ LoopUnconfirmed \/ Terminate \/ Crash \/ CrashSuperseding
           \/ \E a \in Attempt : Watchdog(a) \/ InputFailed(a) \/ AskStop(a)
           \/ \E m \in late : LateArrival(m)
  BY <1>3, <1>4, <1>8 DEF LoopUnconfirmed, Terminate, Crash, CrashSuperseding, Watchdog,
     InputFailed, AskStop, LateArrival
<1> QED BY <1>5, <1>6, <1>7, <1>8 DEF Next, TaskStep

(* Answers stay true, and those of the server are.                          *)
LEMMA AnswersStayTrue ==
  ASSUME Bounds, CoordinatorInv, ClaimsInv, Next
  PROVE  AnswersTrue'
<1>a. ServerTypes /\ WireTypes /\ AnswersTrue /\ RowsSound' /\ Steady
  BY Types, RowsKept DEF CoordinatorInv, ClaimsInv
<1>b. \A p \in Activity : call[p].m \in Message /\ Wire(call[p].m)
  BY <1>a DEF WireTypes, CallRow, CoordinatorInv, WireInv
<1>1. ASSUME NEW q \in Activity, call'[q] = call[q], call[q].reply = "ok"
      PROVE  /\ call'[q].m.kind = "stop" => srv'[call'[q].m.a].state = "ended"
             /\ call'[q].m.kind = "claim" => srv'[call'[q].m.a].state # "none"
  <2>1. call[q].m.kind \in {"stop", "claim"} => call[q].m.a \in Attempt
    BY <1>b DEF Wire, Effective
  <2> QED BY <1>1, <1>a, <2>1 DEF AnswersTrue, Steady
<1>2. ASSUME NEW p \in Activity, Receive(p) PROVE AnswersTrue'
  <2> DEFINE m == call[p].m
  <2>1. call' = [call EXCEPT ![p] = [m |-> Stamped(m), reply |-> Reply(m)]]
    BY <1>2 DEF Receive
  <2>2. \A q \in Activity : q # p => call'[q] = call[q]
    BY <2>1, <1>a DEF WireTypes
  <2>3. call'[p].m = Stamped(m) /\ call'[p].reply = Reply(m)
    BY <2>1, <1>a DEF WireTypes
  <2>4. CASE m.kind \notin {"stop", "claim"}
    <3>1. Stamped(m).kind = m.kind
      BY Fields DEF Stamped
    <3> QED BY <1>1, <2>2, <2>3, <2>4, <3>1 DEF AnswersTrue
  <2>5. CASE m.kind = "stop"
    <3>1. Stamped(m) = m /\ m.a \in Attempt /\ m.id \in StopId
      BY <1>b, <2>5 DEF Stamped, Wire, Effective
    <3>2. Reply(m) = "ok" => srv'[m.a].receipt = m.id
      BY <2>5 DEF Reply
    <3>3. Reply(m) = "ok" => srv'[m.a].state = "ended"
      BY <1>a, <3>1, <3>2 DEF RowsSound, StopId
    <3> QED BY <1>1, <2>2, <2>3, <2>5, <3>1, <3>3 DEF AnswersTrue
  <2>6. CASE m.kind = "claim"
    <3>1. Stamped(m) = m
      BY <2>6 DEF Stamped
    <3>2. Reply(m) = "ok" => srv'[m.a].state # "none"
      BY <2>6 DEF Reply
    <3> QED BY <1>1, <2>2, <2>3, <2>6, <3>1, <3>2 DEF AnswersTrue
  <2> QED BY <2>4, <2>5, <2>6
<1> QED BY <1>1, <1>2, NothingAnswered DEF AnswersTrue, NoNewAnswer

(* An attempt that the device is given was begun, and it is open to the     *)
(* device from the answer to its claim on.                                  *)
LEMMA OpensWithItsClaim ==
  ASSUME Bounds, CoordinatorInv, ClaimsInv, Next
  PROVE  /\ GivenWasBegun'
         /\ Replayed \/ Claimed \/ StartRefused \/ \A a \in Attempt : Open(a)' => Open(a)
<1>a. ServerTypes /\ JournalTypes /\ GivenWasBegun /\ AnswersTrue /\ Steady /\ Onward
  BY Types, RowsKept, JournalGrows DEF CoordinatorInv, ClaimsInv
<1> DEFINE Fewest == \A a \in Attempt : Open(a)' => Open(a)
<1>1. ASSUME \A a \in Attempt : claims'[a] = "attempt" => claims[a] = "attempt"
      PROVE  GivenWasBegun' /\ Fewest
  BY <1>1, <1>a DEF GivenWasBegun, Open, Steady, Onward
<1>2. CASE UNCHANGED claims
  BY <1>1, <1>2
<1>3. CASE Replayed \/ Claimed \/ StartRefused
  <2> DEFINE a == call["loop"].m.a
  <2>1. call["loop"].m.kind = "claim" /\ a \in Attempt
    BY <1>3 DEF Replayed, Claimed, StartRefused, CoordinatorInv, LoopInv, WireInv, Wire, Effective,
       Activity
  <2>2. /\ UNCHANGED srv /\ call["loop"].reply \in {"ok", "empty"}
        /\ ClaimEntry(a, call["loop"].reply)
    BY <1>3 DEF Replayed, Claimed, StartRefused, Got
  <2>3. call["loop"].reply = "ok" => srv[a].state # "none"
    BY <1>a, <2>1 DEF AnswersTrue, Activity
  <2>4. \A x \in Attempt : x # a => claims'[x] = claims[x]
    BY <1>a, <2>2 DEF ClaimEntry, JournalTypes
  <2>5. claims'[a] = "attempt" => call["loop"].reply = "ok"
    BY <1>a, <2>1, <2>2 DEF ClaimEntry, JournalTypes
  <2> HIDE DEF a
  <2> QED BY <1>3, <1>a, <2>2, <2>3, <2>4, <2>5 DEF GivenWasBegun
<1>4. CASE NothingClaimed
  <2>1. claims' = [claims EXCEPT ![call["loop"].m.a] = "empty"]
    BY <1>4 DEF NothingClaimed, ClaimEntry
  <2> QED BY <1>1, <1>a, <2>1 DEF JournalTypes
<1>5. CASE Claim
  <2>1. PICK a \in ClaimKey : claims' = [claims EXCEPT ![a] = "pending"]
    BY <1>5 DEF Claim
  <2> QED BY <1>1, <1>a, <2>1 DEF JournalTypes
<1> HIDE DEF Fewest
<1>6. CASE LoopStep
  BY <1>2, <1>3, <1>4, <1>5, <1>6 DEF LoopStep, LoopScopeStopped, LoopSettled, Inspect, Tick,
     Replay, LeasesKnown, Resend, EvidenceTaken, ClaimRefused, Poll, EventReplayed, ControlsRead,
     StopAndWait, StopAwaited, StopBeforeExit, Boot, RequestFailed, PollFailed
<1>7. CASE \/ RequestFailed \/ HeartbeatLost \/ PollFailed \/ LoopUnconfirmed
           \/ StopperStep \/ StopNotReported \/ StopUnconfirmed \/ Terminate \/ Crash
           \/ CrashSuperseding
  BY <1>2, <1>7 DEF RequestFailed, HeartbeatLost, PollFailed, LoopUnconfirmed, StopperStep,
     ScopeStopped, StopConfirmed, StopReported, StopNotReported, StopUnconfirmed, Terminate, Crash,
     CrashSuperseding, StopAndWait
<1>8. CASE \/ TaskStep \/ EventFailed
           \/ \E a \in Attempt : \/ Dispatch(a) \/ ReportEvent(a) \/ EventNotWritten(a)
                                 \/ Watchdog(a) \/ InputFailed(a)
                                 \/ TaskEndsUnconfirmed(a) \/ TaskClosed(a) \/ Interrupt(a)
                                 \/ AskStop(a)
  BY <1>2, <1>8 DEF TaskStep, EffectDone, TaskEnds, TaskClosed, Interrupt, EventAcknowledged,
     EventFailed, Dispatch, ReportEvent, EventNotWritten, Watchdog, InputFailed,
     TaskEndsUnconfirmed, AskStop
<1>9. CASE (\E p \in Activity : Receive(p)) \/ (\E m \in late : LateArrival(m))
  BY <1>2, <1>9 DEF Receive, LateArrival
<1> QED BY <1>3, <1>6, <1>7, <1>8, <1>9 DEF Next, Fewest

(* Who reports a stop has sent it for the attempt it stopped.               *)
LEMMA ReportsStayOwn ==
  ASSUME Bounds, CoordinatorInv, ReportsOwn, Next
  PROVE  ReportsOwn'
<1>a. RunTypes /\ WireTypes
  BY Types DEF CoordinatorInv
<1>d. {"loop", "stopper", "task"} \subseteq Activity
  BY DEF Activity
<1>1. CASE stopper'.pc # "reporting"
  BY <1>1 DEF ReportsOwn
<1>2. CASE stopper' = stopper /\ call'["stopper"] = call["stopper"]
  BY <1>2 DEF ReportsOwn
<1>3. ASSUME NEW a, stopper'.a = a, Send("stopper", Msg("stop", a, "base", 0)) PROVE ReportsOwn'
  <2>1. call'["stopper"].m = Msg("stop", a, "base", 0)
    BY <1>3, <1>a, <1>d, Apart
  <2> QED BY <1>3, <2>1, Fields DEF ReportsOwn
<1>4. ASSUME UNCHANGED stopper,
             UNCHANGED call \/ (\E p \in {"loop", "task"} : HangUp(p) \/ \E m : Send(p, m))
      PROVE  ReportsOwn'
  <2>1. call'["stopper"] = call["stopper"]
    BY <1>4, <1>a, <1>d, Apart
  <2> QED BY <1>2, <1>4, <2>1
<1>5. CASE Dead \/ \E a, strict : BeginStop(a, strict)
  BY <1>1, <1>5 DEF Dead, BeginStop
<1>6. CASE \/ LoopScopeStopped \/ LoopSettled \/ Inspect \/ Tick \/ Replay \/ Replayed
           \/ LeasesKnown
           \/ Resend \/ EvidenceTaken \/ Claim \/ ClaimRefused \/ Claimed \/ NothingClaimed \/ Poll
           \/ EventReplayed \/ StopAwaited \/ Boot \/ RequestFailed \/ HeartbeatLost
           \/ StartRefused
  BY <1>4, <1>6 DEF LoopScopeStopped, LoopSettled, Inspect, Tick, Replay, Replayed, LeasesKnown,
     Resend, EvidenceTaken, Claim, ClaimRefused, Claimed, NothingClaimed, Poll, EventReplayed,
     StopAwaited, Boot, RequestFailed, HeartbeatLost, StartRefused
<1>7. CASE ControlsRead \/ PollFailed
  <2>1. UNCHANGED stopper \/ stopper'.pc = "killing"
    BY <1>7 DEF ControlsRead, PollFailed, BeginStop, StopAndWait
  <2>2. HangUp("loop")
    BY <1>7 DEF ControlsRead, PollFailed, StopAndWait
  <2> QED BY <1>1, <1>4, <2>1, <2>2
<1>8. CASE StopBeforeExit \/ LoopUnconfirmed \/ Terminate \/ Crash \/ CrashSuperseding
  BY <1>4, <1>5, <1>8 DEF StopBeforeExit, LoopUnconfirmed, Terminate, Crash, CrashSuperseding
<1>9. ASSUME NEW a \in Attempt, Watchdog(a) \/ InputFailed(a) PROVE ReportsOwn'
  BY <1>1, <1>9 DEF Watchdog, InputFailed, BeginStop
<1>10. CASE ScopeStopped \/ StopReported \/ StopNotReported \/ StopUnconfirmed
  BY <1>1, <1>10, <1>a DEF ScopeStopped, StopReported, StopNotReported, StopUnconfirmed, RunTypes,
     StopperRow
<1>11. CASE StopConfirmed
  <2>1. stopper'.a = stopper.a /\ Send("stopper", Msg("stop", stopper.a, "base", 0))
    BY <1>11, <1>a DEF StopConfirmed, RunTypes, StopperRow
  <2> QED BY <1>3, <2>1
<1>12. ASSUME NEW a \in Attempt, TaskEnds(a) PROVE ReportsOwn'
  <2>1. CASE session.active = a
    BY <1>3, <1>12, <2>1 DEF TaskEnds
  <2>2. CASE session.active # a
    BY <1>4, <1>12, <2>2 DEF TaskEnds
  <2> QED BY <2>1, <2>2
<1>13. ASSUME NEW a \in Attempt, \/ Dispatch(a) \/ EffectDone(a) \/ AskStop(a) \/ ReportEvent(a)
                                 \/ EventNotWritten(a)
                                 \/ TaskEndsUnconfirmed(a) \/ TaskClosed(a) \/ Interrupt(a)
       PROVE  ReportsOwn'
  BY <1>4, <1>13 DEF Dispatch, EffectDone, AskStop, ReportEvent, EventNotWritten,
     TaskEndsUnconfirmed, TaskClosed, Interrupt
<1>14. CASE EventAcknowledged \/ EventFailed \/ \E m \in late : LateArrival(m)
  BY <1>4, <1>14 DEF EventAcknowledged, EventFailed, LateArrival
<1>15. ASSUME NEW p \in Activity, Receive(p) PROVE ReportsOwn'
  <2>1. UNCHANGED stopper
    BY <1>15 DEF Receive
  <2>2. stopper.pc = "reporting" => call["stopper"].m.kind = "stop"
    BY DEF CoordinatorInv, SessionInv
  <2>3. stopper.pc = "reporting" => call'["stopper"].m = call["stopper"].m
    BY <1>15, <1>a, <1>d, <2>2, Apart
  <2> QED BY <2>1, <2>3 DEF ReportsOwn
<1> QED BY <1>6, <1>7, <1>8, <1>9, <1>10, <1>11, <1>12, <1>13, <1>14, <1>15
        DEF Next, LoopStep, StopperStep, TaskStep

(* Who has a request out waits for its answer.                              *)
LEMMA CallsStayOwn ==
  ASSUME Bounds, CoordinatorInv, CallsOwn, Next
  PROVE  CallsOwn'
<1>a. RunTypes /\ WireTypes
  BY Types DEF CoordinatorInv
<1>b. /\ SessionInv /\ StopperCalls /\ LoopCalls /\ Quiet.reply = "idle"
      /\ session.active \in Attempt \cup {None} /\ None \notin Attempt
  BY <1>a, Attempts DEF CoordinatorInv, CallsOwn, Quiet, RunTypes, SessionRow
<1>d. {"loop", "stopper", "task"} \subseteq Activity
  BY DEF Activity
<1>e. \A pc \in LoopPc : Goto(pc) => loop'.pc = pc
  BY <1>a DEF Goto, RunTypes, LoopRow
<1>f. \A p \in {"loop", "stopper", "task"} : HangUp(p) =>
        /\ call'[p].reply = "idle" /\ \A q \in Activity : q # p => call'[q] = call[q]
  BY <1>a, <1>b, <1>d DEF HangUp, WireTypes
<1>g. \A p \in {"loop", "stopper", "task"} : \A m : Send(p, m) =>
        \A q \in Activity : q # p => call'[q] = call[q]
  BY <1>a, <1>d DEF Send, WireTypes
(* The loop waits for an answer, for none, or as it did.                    *)
<1>1. ASSUME \/ loop'.pc \in Waiting
             \/ call'["loop"].reply = "idle"
             \/ /\ call'["loop"] = call["loop"]
                /\ loop'.pc = loop.pc \/ loop.pc \notin Waiting
      PROVE  LoopCalls'
  BY <1>1, <1>b DEF LoopCalls
(* So does the stop beside it.                                              *)
<1>2. ASSUME \/ stopper'.pc = "reporting"
             \/ call'["stopper"].reply = "idle"
             \/ /\ call'["stopper"] = call["stopper"]
                /\ stopper' = stopper \/ stopper.pc # "reporting"
      PROVE  StopperCalls'
  BY <1>2, <1>b DEF StopperCalls
<1>3. CASE Dead
  <2>1. call'["loop"].reply = "idle" /\ call'["stopper"].reply = "idle"
    BY <1>3, <1>b, <1>d DEF Dead
  <2> QED BY <1>1, <1>2, <2>1 DEF CallsOwn
<1>4. CASE StopBeforeExit
  <2>1. CASE ~Dead
    <3>1. loop.pc \notin Waiting /\ UNCHANGED <<call, stopper>>
      BY <1>4, <2>1 DEF StopBeforeExit, Waiting
    <3> QED BY <1>1, <1>2, <3>1 DEF CallsOwn
  <2> QED BY <1>3, <2>1
<1>5. CASE LoopUnconfirmed \/ Crash \/ CrashSuperseding
  BY <1>3, <1>5 DEF LoopUnconfirmed, Crash, CrashSuperseding
(* The loop begins no request and has none out.                             *)
<1>6. CASE LoopScopeStopped \/ LoopSettled \/ Inspect \/ Tick \/ ClaimRefused \/ HeartbeatLost
           \/ StopAwaited \/ Boot
  <2>1. loop.pc \notin Waiting /\ UNCHANGED <<call, stopper>>
    BY <1>6 DEF LoopScopeStopped, LoopSettled, Inspect, Tick, ClaimRefused, HeartbeatLost,
       StopAwaited, Boot, Waiting
  <2> QED BY <1>1, <1>2, <2>1 DEF CallsOwn
<1>7. CASE Terminate
  <2>1. loop.pc \notin Waiting /\ UNCHANGED call
    BY <1>7 DEF Terminate, Waiting
  <2>2. UNCHANGED stopper \/ session.active # None
    BY <1>7 DEF Terminate
  <2>3. session.active # None => stopper.pc # "reporting"
    BY <1>b DEF SessionInv
  <2> QED BY <1>1, <1>2, <2>1, <2>2, <2>3 DEF CallsOwn
(* It asks, or has its answer.                                              *)
<1>8. CASE \/ Replayed \/ EvidenceTaken \/ Claimed \/ NothingClaimed \/ StartRefused
           \/ RequestFailed
  <2>1. HangUp("loop") /\ UNCHANGED stopper
    BY <1>8 DEF Replayed, EvidenceTaken, Claimed, NothingClaimed, StartRefused, RequestFailed
  <2> QED BY <1>1, <1>2, <1>d, <1>f, <2>1 DEF CallsOwn
<1>9. CASE Replay \/ LeasesKnown \/ Resend \/ Claim \/ Poll \/ EventReplayed
  <2>1. /\ UNCHANGED stopper
        /\ \/ HangUp("loop")
           \/ loop.pc = "resending" /\ UNCHANGED call
           \/ loop'.pc \in Waiting /\ \E m : Send("loop", m)
    <3>1. CASE Replay \/ Claim \/ Poll
      BY <3>1, <1>e DEF Replay, Claim, Poll, LoopPc, Waiting
    <3>2. CASE Resend
      BY <3>2, <1>e DEF Resend, LoopPc, Waiting
    <3>3. CASE LeasesKnown
      BY <3>3, <1>a DEF LeasesKnown, RunTypes, LoopRow, Waiting
    <3>4. CASE EventReplayed
      BY <3>4, <1>e DEF EventReplayed, LoopPc, Waiting
    <3> QED BY <1>9, <3>1, <3>2, <3>3, <3>4
  <2> QED BY <1>1, <1>2, <1>d, <1>f, <1>g, <2>1 DEF CallsOwn, Waiting
<1>10. CASE ControlsRead \/ PollFailed
  <2>1. /\ HangUp("loop") /\ loop.pc \in {"events", "controls"}
        /\ UNCHANGED stopper \/ session.active = call["loop"].m.a
    BY <1>10 DEF ControlsRead, PollFailed
  <2>2. call["loop"].m.a \in Attempt
    BY <1>d, <2>1 DEF CoordinatorInv, LoopInv, WireInv, Wire, Effective
  <2>3. session.active = call["loop"].m.a => stopper.pc # "reporting"
    BY <1>b, <2>2 DEF SessionInv
  <2> QED BY <1>1, <1>2, <1>d, <1>f, <2>1, <2>3 DEF CallsOwn
<1>11. ASSUME NEW a \in Attempt, Watchdog(a) \/ InputFailed(a) PROVE CallsOwn'
  <2>1. UNCHANGED <<loop, call>> /\ session.active = a
    BY <1>11 DEF Watchdog, InputFailed
  <2>2. stopper.pc # "reporting"
    BY <1>b, <2>1 DEF SessionInv
  <2> QED BY <1>1, <1>2, <2>1, <2>2 DEF CallsOwn
<1>12. CASE ScopeStopped \/ StopUnconfirmed
  <2>1. UNCHANGED <<loop, call>> /\ stopper.pc # "reporting"
    BY <1>12 DEF ScopeStopped, StopUnconfirmed
  <2> QED BY <1>1, <1>2, <2>1 DEF CallsOwn
<1>13. CASE StopReported \/ StopNotReported
  <2>1. HangUp("stopper") /\ loop'.pc = loop.pc
    BY <1>13, <1>a DEF StopReported, StopNotReported, RunTypes, LoopRow
  <2> QED BY <1>1, <1>2, <1>d, <1>f, <2>1 DEF CallsOwn
<1>14. CASE StopConfirmed
  <2>1. loop' = loop /\ stopper'.pc = "reporting" /\ \E m : Send("stopper", m)
    BY <1>14, <1>a DEF StopConfirmed, RunTypes, StopperRow
  <2> QED BY <1>1, <1>2, <1>d, <1>g, <2>1 DEF CallsOwn
<1>15. ASSUME NEW a \in Attempt, TaskEnds(a) PROVE CallsOwn'
  <2>1. CASE session.active = a
    <3>1. loop' = loop /\ stopper'.pc = "reporting" /\ \E m : Send("stopper", m)
      BY <1>15, <2>1 DEF TaskEnds
    <3> QED BY <1>1, <1>2, <1>d, <1>g, <3>1 DEF CallsOwn
  <2>2. CASE session.active # a
    <3>1. UNCHANGED <<loop, stopper, call>>
      BY <1>15, <2>2 DEF TaskEnds
    <3> QED BY <1>1, <1>2, <3>1 DEF CallsOwn
  <2> QED BY <2>1, <2>2
<1>16. CASE \/ EventAcknowledged \/ EventFailed
            \/ \E a \in Attempt : \/ Dispatch(a) \/ EffectDone(a) \/ AskStop(a) \/ ReportEvent(a)
                                  \/ EventNotWritten(a) \/ TaskEndsUnconfirmed(a) \/ TaskClosed(a)
                                  \/ Interrupt(a)
            \/ \E m \in late : LateArrival(m)
  <2>1. /\ UNCHANGED <<loop, stopper>>
        /\ UNCHANGED call \/ HangUp("task") \/ \E m : Send("task", m)
    BY <1>16 DEF EventAcknowledged, EventFailed, Dispatch, EffectDone, AskStop, ReportEvent,
       EventNotWritten, TaskEndsUnconfirmed, TaskClosed, Interrupt, LateArrival
  <2> QED BY <1>1, <1>2, <1>d, <1>f, <1>g, <2>1 DEF CallsOwn
<1>17. ASSUME NEW p \in Activity, Receive(p) PROVE CallsOwn'
  <2>1. UNCHANGED <<loop, stopper>>
    BY <1>17 DEF Receive
  <2>2. \A q \in Activity : call[q].reply = "idle" <=> call'[q].reply = "idle"
    BY <1>17, <1>a, Apart
  <2> QED BY <1>b, <1>d, <2>1, <2>2 DEF CallsOwn, StopperCalls, LoopCalls
<1> QED BY <1>4, <1>5, <1>6, <1>7, <1>8, <1>9, <1>10, <1>11, <1>12, <1>13, <1>14, <1>15, <1>16,
           <1>17
        DEF Next, LoopStep, StopperStep, TaskStep

(* Every open attempt stays known to whoever will see to its stop.          *)
LEMMA OpenStaysKnown ==
  ASSUME Bounds, CoordinatorInv, ClaimsInv, Next
  PROVE  OpenKnown'
<1>a. ServerTypes /\ JournalTypes /\ HostTypes /\ RunTypes /\ WireTypes
  BY Types DEF CoordinatorInv
<1>b. SessionInv /\ LoopInv /\ OpenKnown /\ AnswersTrue /\ ReportsOwn
  BY DEF CoordinatorInv, ClaimsInv
<1>c. /\ session \in SessionRow /\ Retired.active = None /\ Retired.reconciled = session.reconciled
      /\ ~[Retired EXCEPT !.reconciled = FALSE].reconciled
      /\ loop.a \in Attempt \cup {None} /\ loop.after \in {"idle", "replaying", "exit"}
  BY <1>a DEF RunTypes, SessionRow, LoopRow, Retired
<1>d. {"loop", "stopper", "task"} \subseteq Activity
  BY DEF Activity
<1>e. \A pc \in LoopPc : Goto(pc) => loop'.pc = pc
  BY <1>a DEF Goto, RunTypes, LoopRow
<1>f. \A m : Send("loop", m) => call'["loop"].m = m /\ call'["loop"].reply = "waiting"
  BY <1>a, <1>d DEF Send, WireTypes
<1>g. Replayed \/ Claimed \/ StartRefused \/ \A a \in Attempt : Open(a)' => Open(a)
  BY OpensWithItsClaim
<1>h. ASSUME UNCHANGED claims PROVE \A a \in Attempt : Open(a)' => Open(a)
  BY <1>h, RowsKept, JournalGrows DEF ClaimsInv, GivenWasBegun, Steady, Open, Onward
(* The device is on its way to what it knows.                               *)
<1>1. ASSUME ~session'.reconciled, loop'.pc \notin {"evidence", "resending"},
             loop'.pc = "leases" => call'["loop"].reply # "ok"
      PROVE  OpenKnown'
  BY <1>1 DEF OpenKnown, Accounted
(* The loop is where it was, and who served an open attempt still does.     *)
<1>2. ASSUME loop'.pc = loop.pc, call'["loop"] = call["loop"],
             \A a \in Attempt : Open(a)' => Open(a),
             session'.reconciled => session.reconciled,
             session'.reconciled => \A a \in Attempt : Open(a) /\ Served(a) => Served(a)'
      PROVE  OpenKnown'
  BY <1>2, <1>b DEF OpenKnown, Accounted
(* The loop is at work, for the same session.                               *)
<1>3. ASSUME loop'.pc \notin Unreconciled, \A a \in Attempt : Open(a)' => Open(a),
             UNCHANGED <<session, stopper>>
      PROVE  OpenKnown'
  BY <1>3, <1>b DEF OpenKnown, Accounted, Unreconciled, Served, Stopping
(* A stop of the session begins.                                            *)
<1>4. ASSUME loop'.pc \notin Unreconciled, \A a \in Attempt : Open(a)' => Open(a),
             session.active # None, stopper'.a = session.active, stopper'.pc # "none",
             session'.reconciled => session.reconciled
      PROVE  OpenKnown'
  <2>1. stopper.pc = "none"
    BY <1>4, <1>b DEF SessionInv
  <2> QED BY <1>4, <1>b, <2>1 DEF OpenKnown, Accounted, Unreconciled, Served, Stopping
<1>5. CASE Dead
  BY <1>1, <1>5 DEF Dead
<1>6. ASSUME NEW after, BeginContain(after) PROVE OpenKnown'
  <2>1. ~session'.reconciled /\ loop'.pc \in {"inspecting", "killing"}
    BY <1>6, <1>c DEF BeginContain
  <2> QED BY <1>1, <2>1
<1>7. CASE LoopScopeStopped \/ LoopSettled \/ Inspect \/ Boot
  <2>1. session' = session /\ loop.pc \in Unreconciled
    BY <1>7 DEF LoopScopeStopped, LoopSettled, Inspect, Boot, Unreconciled
  <2>2. loop'.pc \in {"settling", "inspecting", "killing", "idle", "replaying", "exit"}
    <3>1. CASE LoopScopeStopped \/ LoopSettled
      BY <3>1, <1>e DEF LoopScopeStopped, LoopSettled, LoopPc
    <3>2. CASE Inspect
      <4>1. \/ \E a \in box : loop' = [loop EXCEPT !.pc = "killing", !.a = a]
            \/ loop' = [loop EXCEPT !.pc = loop.after, !.a = None]
        BY <3>2 DEF Inspect
      <4> QED BY <1>a, <1>c, <4>1 DEF RunTypes, LoopRow
    <3>3. CASE Boot
      BY <3>3 DEF Boot
    <3> QED BY <1>7, <3>1, <3>2, <3>3
  <2>3. ~session'.reconciled
    BY <1>b, <2>1 DEF OpenKnown
  <2> QED BY <1>1, <2>2, <2>3
<1>8. CASE Tick \/ ClaimRefused \/ HeartbeatLost \/ RequestFailed \/ StartRefused
  BY <1>6, <1>8 DEF Tick, ClaimRefused, HeartbeatLost, RequestFailed, StartRefused
<1>9. CASE Replay \/ Replayed
  <2>1. session' = session /\ loop.pc \in Unreconciled
    BY <1>9 DEF Replay, Replayed, Unreconciled
  <2>2. \/ loop'.pc \in {"replayed", "replaying"}
        \/ loop'.pc = "leases" /\ call'["loop"].reply = "waiting"
    BY <1>9, <1>e, <1>f DEF Replay, Replayed, LoopPc
  <2>3. ~session'.reconciled
    BY <1>b, <2>1 DEF OpenKnown
  <2> QED BY <1>1, <2>2, <2>3
<1>10. CASE LeasesKnown
  <2> DEFINE a == call["loop"].m.a
  <2>1. /\ session' = session /\ loop.pc = "leases" /\ call["loop"].reply = "ok"
        /\ UNCHANGED claims
    BY <1>10 DEF LeasesKnown, Got
  <2>2. ~session'.reconciled
    BY <1>b, <2>1 DEF OpenKnown, Unreconciled
  <2>3. \A x \in Attempt : Open(x)' => Open(x) /\ x = a
    BY <1>b, <1>h, <2>1 DEF OpenKnown, Accounted
  <2>4. CASE a = None \/ SilentlyDone(a)
    <3>1. loop'.pc = "resending"
      BY <1>10, <1>a, <2>4 DEF LeasesKnown, RunTypes, LoopRow
    <3>2. \A x \in Attempt : ~Open(x)'
      BY <2>3, <2>4, Attempts DEF SilentlyDone, Open
    <3> QED BY <2>2, <3>1, <3>2 DEF OpenKnown
  <2>5. CASE ~(a = None \/ SilentlyDone(a))
    <3> DEFINE id == SentStop(a, call["loop"].m.n + 1, TRUE)
    <3>1. loop'.pc = "evidence" /\ Send("loop", Msg("stop", a, id, 0))
      BY <1>10, <1>a, <2>5 DEF LeasesKnown, RunTypes, LoopRow
    <3> HIDE DEF id
    <3>2. call'["loop"].m.a = a
      <4> HIDE DEF a
      <4>1. call'["loop"].m = Msg("stop", a, id, 0)
        BY <1>f, <3>1
      <4> QED BY <4>1, Fields
    <3> HIDE DEF a
    <3> QED BY <2>2, <2>3, <3>1, <3>2 DEF OpenKnown, Accounted
  <2> QED BY <2>4, <2>5
<1>11. CASE Resend
  <2>1. \A x \in Attempt : ~Open(x)'
    <3>1. \A x \in Attempt : ~Open(x)
      BY <1>11, <1>b DEF Resend, OpenKnown, Accounted
    <3> QED BY <1>11, <1>h, <3>1 DEF Resend
  <2>2. \/ loop'.pc = "evidence" /\ session' = session
        \/ loop'.pc = "idle"
    BY <1>11, <1>a, <1>e DEF Resend, RunTypes, LoopRow, LoopPc
  <2>3. loop'.pc = "evidence" => ~session'.reconciled
    BY <1>11, <1>b, <2>2 DEF Resend, OpenKnown, Unreconciled
  <2> QED BY <2>1, <2>2, <2>3 DEF OpenKnown, Unreconciled
<1>12. CASE EvidenceTaken
  <2>1. /\ session' = session /\ loop.pc = "evidence" /\ call["loop"].reply = "ok"
        /\ UNCHANGED <<srv, claims>> /\ loop'.pc = "resending"
    BY <1>12, <1>e DEF EvidenceTaken, Got, LoopPc
  <2>2. srv[call["loop"].m.a].state = "ended"
    BY <1>b, <1>d, <2>1 DEF LoopInv, AnswersTrue
  <2>3. \A x \in Attempt : ~Open(x)'
    BY <1>b, <1>h, <2>1, <2>2 DEF OpenKnown, Accounted, Open
  <2>4. ~session'.reconciled
    BY <1>b, <2>1 DEF OpenKnown, Unreconciled
  <2> QED BY <2>3, <2>4 DEF OpenKnown
<1>13. CASE Claim \/ NothingClaimed \/ Poll \/ EventReplayed
  <2>1. \/ /\ UNCHANGED <<session, stopper>>
           /\ Goto("claiming") \/ Goto("idle") \/ Goto("controls") \/ Goto("events")
        \/ BeginContain("exit")
    BY <1>13 DEF Claim, NothingClaimed, Poll, EventReplayed
  <2>2. ~Replayed /\ ~Claimed /\ ~StartRefused
    BY <1>13 DEF Claim, NothingClaimed, Poll, EventReplayed, Replayed, Claimed, StartRefused, Got
  <2>3. Goto("claiming") \/ Goto("idle") \/ Goto("controls") \/ Goto("events") =>
          loop'.pc \notin Unreconciled
    BY <1>e DEF LoopPc, Unreconciled
  <2> QED BY <1>3, <1>6, <1>g, <2>1, <2>2, <2>3
<1>14. CASE Claimed
  <2> DEFINE a == call["loop"].m.a
  <2>1. loop.pc = "claiming" /\ loop'.pc = "idle" /\ UNCHANGED <<srv, stopper>>
    BY <1>14, <1>e DEF Claimed, LoopPc
  <2>2. session' = [session EXCEPT !.active = a] /\ ClaimEntry(a, "ok")
    BY <1>14 DEF Claimed, StartSession
  <2>3. session'.active = a /\ session'.reconciled = session.reconciled
    BY <1>c, <2>2 DEF SessionRow
  <2>4. session.active = None /\ stopper.pc = "none"
    BY <1>b, <2>1 DEF SessionInv
  <2>5. \A x \in Attempt : x # a => claims'[x] = claims[x]
    BY <1>a, <2>2 DEF ClaimEntry, JournalTypes
  <2> HIDE DEF a
  <2>6. ASSUME NEW x \in Attempt, Open(x)', session'.reconciled PROVE x = a
    <3>1. SUFFICES ASSUME x # a PROVE FALSE
      OBVIOUS
    <3>2. Open(x)
      BY <2>1, <2>5, <2>6, <3>1, JournalGrows DEF Open, Onward
    <3> QED BY <1>b, <2>3, <2>4, <2>6, <3>2, Attempts DEF OpenKnown, Accounted, Served, Stopping
  <2> QED BY <2>1, <2>3, <2>6 DEF OpenKnown, Accounted, Served, Unreconciled
<1>15. CASE ControlsRead \/ PollFailed
  <2> DEFINE b == call["loop"].m.a
  <2>1. /\ loop.pc \in {"events", "controls"} /\ UNCHANGED claims
        /\ \/ \E after : BeginContain(after)
           \/ Goto("idle") /\ UNCHANGED <<session, stopper>>
           \/ /\ session.active = b
              /\ \E keeps \in BOOLEAN, after \in {"idle", "exit"} : StopAndWait(b, keeps, after)
    BY <1>15 DEF ControlsRead, PollFailed
  <2>2. b \in Attempt
    BY <1>b, <1>d, <2>1 DEF LoopInv, CoordinatorInv, WireInv, Wire, Effective
  <2>3. CASE \E after : BeginContain(after)
    BY <1>6, <2>3
  <2>4. CASE Goto("idle") /\ UNCHANGED <<session, stopper>>
    BY <1>3, <1>e, <1>h, <2>1, <2>4 DEF LoopPc, Unreconciled
  <2> HIDE DEF b
  <2>5. ASSUME session.active = b, NEW keeps \in BOOLEAN, NEW after, StopAndWait(b, keeps, after)
        PROVE  OpenKnown'
    <3>1. /\ session' = [Retired EXCEPT !.reconciled = keeps /\ session.reconciled] /\ stopper'.a = b
          /\ stopper'.pc = "killing" /\ loop' = [loop EXCEPT !.pc = "awaiting", !.after = after]
      BY <2>5 DEF StopAndWait
    <3>2. (session'.reconciled => session.reconciled) /\ loop'.pc = "awaiting"
      BY <1>a, <3>1 DEF RunTypes, SessionRow, LoopRow, Retired
    <3> QED BY <1>4, <1>h, <2>1, <2>2, <2>5, <3>1, <3>2, Attempts DEF Unreconciled
  <2> QED BY <2>1, <2>3, <2>4, <2>5
<1>16. CASE StopAwaited
  <2>1. ~Replayed /\ ~Claimed /\ ~StartRefused
    BY <1>16 DEF StopAwaited, Replayed, Claimed, StartRefused
  <2>2. \/ \E after : BeginContain(after)
        \/ Goto("idle") /\ UNCHANGED <<session, stopper>>
    BY <1>16 DEF StopAwaited
  <2>3. CASE Goto("idle") /\ UNCHANGED <<session, stopper>>
    BY <1>3, <1>e, <1>g, <2>1, <2>3 DEF LoopPc, Unreconciled
  <2> QED BY <1>6, <2>2, <2>3
<1>17. CASE Terminate
  <2>1. loop'.pc = "stopping" /\ ~Replayed /\ ~Claimed /\ ~StartRefused
    BY <1>17, <1>e DEF Terminate, Replayed, Claimed, StartRefused, LoopPc
  <2>2. CASE session.active = None
    BY <1>3, <1>17, <1>g, <2>1, <2>2 DEF Terminate, Unreconciled
  <2>3. CASE session.active # None
    <3>1. /\ stopper'.a = session.active /\ stopper'.pc = "killing"
          /\ session'.reconciled = session.reconciled
      BY <1>17, <1>c, <2>3 DEF Terminate, BeginStop
    <3> QED BY <1>4, <1>g, <2>1, <2>3, <3>1 DEF Unreconciled
  <2> QED BY <2>2, <2>3
<1>18. CASE StopBeforeExit \/ LoopUnconfirmed \/ Crash \/ CrashSuperseding
  BY <1>5, <1>6, <1>18 DEF StopBeforeExit, LoopUnconfirmed, Crash, CrashSuperseding
<1>19. ASSUME NEW a \in Attempt, Watchdog(a) \/ InputFailed(a) PROVE OpenKnown'
  <2>1. session.active = a /\ a # None /\ loop' = loop
    BY <1>19, Attempts DEF Watchdog, InputFailed
  <2>2. stopper'.a = a /\ stopper'.pc = "killing"
    BY <1>19 DEF Watchdog, InputFailed, BeginStop
  <2>3. session'.reconciled => session.reconciled
    <3>1. session' = Retired \/ session' = [Retired EXCEPT !.reconciled = FALSE]
      BY <1>19 DEF Watchdog, InputFailed, BeginStop
    <3> QED BY <1>c, <3>1
  <2>4. loop.pc \in {"idle", "events", "controls"}
    BY <1>b, <2>1 DEF SessionInv
  <2>5. ~Replayed /\ ~Claimed /\ ~StartRefused
    BY <2>4 DEF Replayed, Claimed, StartRefused
  <2> QED BY <1>4, <1>g, <2>1, <2>2, <2>3, <2>4, <2>5 DEF Unreconciled
(* What goes on beside the loop begins no attempt.                          *)
<1>20. ASSUME loop'.pc = loop.pc, call'["loop"] = call["loop"], UNCHANGED claims,
              session'.reconciled => session' = session /\ stopper'.a = stopper.a,
              session'.reconciled /\ Stopping =>
                Stopping' \/ \A a \in Attempt : Open(a) => a # stopper.a
       PROVE  OpenKnown'
  BY <1>2, <1>20, <1>h DEF Served, Stopping
<1>21. CASE ScopeStopped \/ StopConfirmed \/ StopNotReported \/ StopUnconfirmed
  <2>1. loop'.pc = loop.pc /\ UNCHANGED claims
    BY <1>21, <1>a DEF ScopeStopped, StopConfirmed, StopNotReported, StopUnconfirmed, RunTypes,
       LoopRow
  <2>2. UNCHANGED call \/ HangUp("stopper") \/ \E m : Send("stopper", m)
    BY <1>21 DEF ScopeStopped, StopConfirmed, StopNotReported, StopUnconfirmed
  <2>3. call'["loop"] = call["loop"]
    BY <1>a, <1>d, <2>2, Apart
  <2>4. \/ session' = session /\ stopper'.a = stopper.a /\ stopper'.pc # "none"
        \/ ~session'.reconciled
    BY <1>21, <1>a DEF ScopeStopped, StopConfirmed, StopNotReported, StopUnconfirmed, RunTypes,
       StopperRow, SessionRow
  <2> QED BY <1>20, <2>1, <2>3, <2>4 DEF Stopping
<1>22. CASE StopReported
  <2>1. /\ UNCHANGED <<loop, srv, claims, session>> /\ stopper'.a = stopper.a
        /\ stopper.pc = "reporting" /\ call["stopper"].reply = "ok" /\ HangUp("stopper")
    BY <1>22, <1>a DEF StopReported, Got, RunTypes, StopperRow
  <2>2. call'["loop"] = call["loop"]
    BY <1>a, <1>d, <2>1, Apart
  <2>3. srv[stopper.a].state = "ended"
    BY <1>b, <1>d, <2>1 DEF SessionInv, AnswersTrue, ReportsOwn
  <2> QED BY <1>20, <2>1, <2>2, <2>3 DEF Open
<1>23. ASSUME NEW a \in Attempt, TaskEnds(a) PROVE OpenKnown'
  <2>1. UNCHANGED <<loop, srv, claims>>
    BY <1>23 DEF TaskEnds
  <2>2. CASE session.active = a
    <3>1. /\ stopper'.a = a /\ stopper'.pc = "reporting" /\ a # None
          /\ session'.reconciled = session.reconciled
      BY <1>23, <1>c, <2>2, Attempts DEF TaskEnds
    <3>2. loop.pc \in {"idle", "events", "controls"}
      BY <1>b, <2>2, <3>1 DEF SessionInv
    <3> QED BY <1>4, <1>h, <2>1, <2>2, <3>1, <3>2 DEF Unreconciled
  <2>3. CASE session.active # a
    BY <1>20, <1>23, <2>1, <2>3 DEF TaskEnds, Stopping
  <2> QED BY <2>2, <2>3
<1>24. CASE \/ EventAcknowledged \/ EventFailed
            \/ \E a \in Attempt : \/ Dispatch(a) \/ EffectDone(a) \/ AskStop(a) \/ ReportEvent(a)
                                  \/ EventNotWritten(a)
                                  \/ TaskEndsUnconfirmed(a) \/ TaskClosed(a) \/ Interrupt(a)
  <2>1. /\ UNCHANGED <<loop, claims, session, stopper>>
        /\ UNCHANGED call \/ HangUp("task") \/ \E m : Send("task", m)
    BY <1>24 DEF EventAcknowledged, EventFailed, Dispatch, EffectDone, AskStop, ReportEvent,
       EventNotWritten, TaskEndsUnconfirmed, TaskClosed, Interrupt
  <2>2. call'["loop"] = call["loop"]
    BY <1>a, <1>d, <2>1, Apart
  <2> QED BY <1>20, <2>1, <2>2 DEF Stopping
<1>26. CASE \E m \in late : LateArrival(m)
  BY <1>20, <1>26 DEF LateArrival, Stopping
<1>27. ASSUME NEW p \in Activity, Receive(p) PROVE OpenKnown'
  <2>1. UNCHANGED <<loop, claims, session, stopper>>
    BY <1>27 DEF Receive
  <2>2. CASE p # "loop"
    <3>1. call'["loop"] = call["loop"]
      BY <1>27, <1>a, <1>d, <2>2 DEF Receive, WireTypes
    <3> QED BY <1>20, <2>1, <3>1 DEF Stopping
  <2>3. CASE p = "loop"
    <3> DEFINE m == call["loop"].m
    <3>1. call'["loop"].m = Stamped(m) /\ call["loop"].reply = "waiting" /\ Handle(m)
      BY <1>27, <1>a, <1>d, <2>3 DEF Receive, WireTypes
    <3>2. ASSUME NEW a \in Attempt, Open(a)', loop.pc = "leases" PROVE call'["loop"].m.a = a
      <4>1. m.kind = "leases"
        BY <1>b, <3>2 DEF LoopInv
      <4>2. Open(a) /\ a \in Leased
        BY <1>h, <2>1, <3>2 DEF Open, Leased
      <4>3. \A x \in Leased : x = a
        BY <4>2 DEF Leased, ClaimsInv, RowsSound
      <4>4. (CHOOSE x \in Leased : TRUE) = a
        BY <4>2, <4>3
      <4>5. Stamped(m) = Msg("leases", a, "none", srv[a].seen)
        BY <4>1, <4>2, <4>4 DEF Stamped
      <4> QED BY <3>1, <4>5, Fields
    <3>3. loop.pc = "evidence" => call'["loop"].m.a = m.a
      BY <1>b, <3>1 DEF LoopInv, Stamped
    <3> HIDE DEF m
    <3>4. ASSUME NEW a \in Attempt, Open(a)' PROVE Accounted(a)'
      <4>1. Open(a) /\ Accounted(a)
        BY <1>h, <1>b, <2>1, <3>4 DEF OpenKnown
      <4>2. loop.pc = "evidence" => m.a = a
        BY <4>1 DEF Accounted, m
      <4> QED BY <2>1, <3>2, <3>3, <3>4, <4>1, <4>2 DEF Accounted, Served, Stopping
    <3> QED BY <1>b, <2>1, <3>4 DEF OpenKnown
  <2> QED BY <2>2, <2>3
<1> QED BY <1>7, <1>8, <1>9, <1>10, <1>11, <1>12, <1>13, <1>14, <1>15, <1>16, <1>17, <1>18, <1>19,
           <1>21, <1>22, <1>23, <1>24, <1>26, <1>27
        DEF Next, LoopStep, StopperStep, TaskStep

LEMMA ClaimsInit ==
  ASSUME Init
  PROVE  ClaimsInv
<1>1. RowsSound /\ GivenWasBegun /\ ReportsOwn
  BY DEF Init, RowsSound, GivenWasBegun, ReportsOwn
<1>2. AnswersTrue
  BY DEF Init, AnswersTrue, Quiet
<1>3. OpenKnown
  BY DEF Init, OpenKnown, Open
<1>4. CallsOwn
  BY DEF Init, CallsOwn, StopperCalls, LoopCalls, Quiet, Activity
<1> QED BY <1>1, <1>2, <1>3, <1>4 DEF ClaimsInv

(* Every step keeps it.                                                     *)
LEMMA ClaimsStep ==
  ASSUME Bounds, CoordinatorInv, ClaimsInv, [Next]_vars
  PROVE  ClaimsInv'
<1>1. CASE Next
  <2>1. RowsSound' /\ ReportsOwn' /\ CallsOwn'
    BY <1>1, RowsKept, ReportsStayOwn, CallsStayOwn DEF ClaimsInv
  <2> QED BY <1>1, <2>1, OpensWithItsClaim, AnswersStayTrue, OpenStaysKnown DEF ClaimsInv
<1>2. CASE UNCHANGED vars
  BY <1>2 DEF vars, ClaimsInv, RowsSound, GivenWasBegun, AnswersTrue, ReportsOwn, CallsOwn,
     StopperCalls, LoopCalls, OpenKnown, Open, Accounted, Served, Stopping
<1> QED BY <1>1, <1>2

(* A key is used for the first time when nothing is open, and no stop is in *)
(* a request.                                                               *)
LEMMA ClaimsFindNoneLive ==
  ASSUME Bounds, CoordinatorInv, ClaimsInv, [Next]_vars
  PROVE  NoLiveAttemptAtClaim
<1>a. JournalTypes
  BY Types DEF CoordinatorInv
<1>1. CASE Claim
  <2>1. session.reconciled /\ session.active = None /\ ~Stopping
    BY <1>1 DEF Claim
  <2>2. \A a \in Attempt : ~Open(a)
    BY <2>1, Attempts DEF ClaimsInv, OpenKnown, Accounted, Served
  <2>3. ASSUME NEW p \in Activity, Busy(p) PROVE call[p].m.kind # "stop"
    <3>1. p # "loop" /\ p # "stopper"
      BY <1>1, <2>1, <2>3 DEF Claim, Busy, Stopping, ClaimsInv, CallsOwn, StopperCalls, LoopCalls,
         Waiting
    <3>2. p = "task"
      BY <3>1 DEF Activity
    <3> QED BY <2>3, <3>2 DEF Busy, CoordinatorInv, TaskInv
  <2> QED BY <2>2, <2>3 DEF NoLiveAttemptAtClaim, Open, Stranded
<1>2. ASSUME \A a \in Attempt : claims'[a] = "pending" => claims[a] # "absent"
      PROVE  NoLiveAttemptAtClaim
  BY <1>2 DEF NoLiveAttemptAtClaim
<1>3. CASE UNCHANGED claims
  BY <1>2, <1>3
<1>4. CASE Replayed \/ Claimed \/ StartRefused \/ NothingClaimed
  <2>1. \E r : ClaimEntry(call["loop"].m.a, r)
    BY <1>4 DEF Replayed, Claimed, StartRefused, NothingClaimed
  <2>2. \A a \in Attempt : claims'[a] = "pending" => claims[a] = "pending"
    BY <1>a, <2>1 DEF ClaimEntry, JournalTypes
  <2> QED BY <1>2, <2>2
<1>5. CASE LoopStep
  BY <1>1, <1>3, <1>4, <1>5 DEF LoopStep, LoopScopeStopped, LoopSettled, Inspect, Tick, Replay,
     LeasesKnown, Resend, EvidenceTaken, ClaimRefused, Poll, EventReplayed, ControlsRead,
     StopAndWait, StopAwaited, StopBeforeExit, Boot, RequestFailed, PollFailed
<1>6. CASE \/ RequestFailed \/ HeartbeatLost \/ PollFailed \/ LoopUnconfirmed
           \/ StopperStep \/ StopNotReported \/ StopUnconfirmed \/ Terminate \/ Crash
           \/ CrashSuperseding
  BY <1>3, <1>6 DEF RequestFailed, HeartbeatLost, PollFailed, LoopUnconfirmed, StopperStep,
     ScopeStopped, StopConfirmed, StopReported, StopNotReported, StopUnconfirmed, Terminate, Crash,
     CrashSuperseding, StopAndWait
<1>7. CASE \/ TaskStep \/ EventFailed
           \/ \E a \in Attempt : \/ Dispatch(a) \/ ReportEvent(a) \/ EventNotWritten(a)
                                 \/ Watchdog(a) \/ InputFailed(a)
                                 \/ TaskEndsUnconfirmed(a) \/ TaskClosed(a) \/ Interrupt(a)
                                 \/ AskStop(a)
  BY <1>3, <1>7 DEF TaskStep, EffectDone, TaskEnds, TaskClosed, Interrupt, EventAcknowledged,
     EventFailed, Dispatch, ReportEvent, EventNotWritten, Watchdog, InputFailed,
     TaskEndsUnconfirmed, AskStop
<1>8. CASE (\E p \in Activity : Receive(p)) \/ (\E m \in late : LateArrival(m))
  BY <1>3, <1>8 DEF Receive, LateArrival
<1>9. CASE UNCHANGED vars
  BY <1>3, <1>9 DEF vars
<1> QED BY <1>4, <1>5, <1>6, <1>7, <1>8, <1>9 DEF Next

-----------------------------------------------------------------------------
(* The theorems *)

(* Every state a device and its server can reach satisfies the invariant.   *)
THEOREM CoordinatorCorrect ==
  ASSUME Bounds
  PROVE  Spec => []CoordinatorInv
<1>1. Spec => Init /\ [][Next]_vars
  BY DEF Spec
<1>2. Init => CoordinatorInv
  BY CoordinatorInit
<1>3. CoordinatorInv /\ [Next]_vars => CoordinatorInv'
  BY CoordinatorStep
<1> QED BY <1>1, <1>2, <1>3, PTL

(* Fields, entries and messages of the runner stay of their types through   *)
(* faults and crashes.                                                      *)
THEOREM RunnerTypes ==
  ASSUME Bounds
  PROVE  Spec => []TypeOK
<1>1. CoordinatorInv => TypeOK
  BY DEF CoordinatorInv
<1> QED BY <1>1, CoordinatorCorrect, PTL

(* The device never runs two attempts at once (Coordinator.claimOnce is     *)
(* reached only when stopSession, contain and the task have ended the last  *)
(* one).                                                                    *)
THEOREM OneAttemptAtATime ==
  ASSUME Bounds
  PROVE  Spec => []OneAttemptRuns
<1>1. CoordinatorInv => OneAttemptRuns
  BY InvRunsOne
<1> QED BY <1>1, CoordinatorCorrect, PTL

(* Whoever reports a stop (stopSession, runtimeTerminated, recover), the    *)
(* attempt has no container on the device when the journal or the server    *)
(* takes it for stopped.                                                    *)
THEOREM StoppedMeansContained ==
  ASSUME Bounds
  PROVE  Spec => []StoppedIsContained
<1>1. CoordinatorInv => StoppedIsContained
  BY InvContained
<1> QED BY <1>1, CoordinatorCorrect, PTL

(* A new key is used only when the server has ended every attempt the       *)
(* device was given, or its stop was superseded and lost: recover sends the *)
(* evidence, and claimOnce waits for it.                                    *)
THEOREM EvidenceComesFirst ==
  ASSUME Bounds
  PROVE  Spec => EvidenceBeforeClaim
<1>1. Spec => Init /\ [][Next]_vars
  BY DEF Spec
<1>2. Init => CoordinatorInv /\ ClaimsInv
  BY CoordinatorInit, ClaimsInit
<1>3. CoordinatorInv /\ ClaimsInv /\ [Next]_vars => (CoordinatorInv /\ ClaimsInv)'
  BY CoordinatorStep, ClaimsStep
<1>4. CoordinatorInv /\ ClaimsInv /\ [Next]_vars => [NoLiveAttemptAtClaim]_vars
  BY ClaimsFindNoneLive
<1> QED BY <1>1, <1>2, <1>3, <1>4, PTL DEF EvidenceBeforeClaim

=============================================================================
