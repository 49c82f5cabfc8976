-------------------------- MODULE QueueNotifications --------------------------
(***************************************************************************)
(* When Tornado tells a user by mail or push of the messages that no client*)
(* of theirs picked up (zerver/tornado/event_queue.py): at once if they    *)
(* have no active event queue, else when the sweep of the queues finds the *)
(* last one abandoned.                                                     *)
(*                                                                         *)
(* The queues are those of one user; what the code keeps of another user is*)
(* disjoint from it.  A queue holds the messages its client has not        *)
(* acknowledged, and Other for events of other types.  Every message is one*)
(* the user is to be notified of when idle.  Mail and push are decided     *)
(* alike and are one notification here.                                    *)
(*                                                                         *)
(* Time passes in ticks of EVENT_QUEUE_OFFLINE_TIMEOUT_SECS; a queue's     *)
(* timeout is 1 (ten minutes: the default) or 3 (far longer: the mobile    *)
(* one), so that a mobile queue can be offline while others come and go.   *)
(***************************************************************************)
EXTENDS Naturals, FiniteSets

CONSTANTS
  Queue,          \* names of queues
  Mobile,         \* those with the longer queue_timeout of the mobile clients
  Deaf,           \* queues registered without message events
  Leaving,        \* queues whose client asks for their removal when it goes
  MaxMessages,
  MaxRestarts

Bounds == /\ Mobile \cup Deaf \cup Leaving \subseteq Queue
          /\ {MaxMessages, MaxRestarts} \subseteq Nat

VARIABLES
  queues,     \* descriptors: queue -> [held, answered, handler, age, offline]
  processed,  \* messages processed so far: 1..processed
  early,      \* those notified of when they came: push_notified, email_notified
  told,       \* message -> on how many occasions the user was notified of it
  seen,       \* messages a client has acknowledged, or found in its initial state
  restarts

vars == <<queues, processed, early, told, seen, restarts>>

Message == 1..MaxMessages
Other == 0
Timeout(q) == IF q \in Mobile THEN 3 ELSE 1   \* queue_timeout, in ticks
Oldest == 3

New == [held |-> {}, answered |-> {}, handler |-> FALSE, age |-> 0, offline |-> FALSE]
Live == DOMAIN queues
Accepts(q) == q \notin Deaf
Active(q) == Accepts(q) /\ ~queues[q].offline

receiver_is_off_zulip == \A q \in Live : ~Active(q)

\* add_event: the waiting client, if there is one, is answered with everything.
AddEvent(d, e) ==
  LET held == d.held \cup {e} IN
  [d EXCEPT !.held = held, !.handler = FALSE,
            !.answered = IF d.handler THEN held ELSE @]

----------------------------------------------------------------------------
(* The clients.                                                             *)
Register(q) ==
  /\ q \notin Live
  /\ queues' = [r \in Live \cup {q} |-> IF r = q THEN New ELSE queues[r]]
  /\ seen' = 1..processed
  /\ UNCHANGED <<processed, early, told, restarts>>

\* A poll acknowledges the last answer, unless that was lost.  Only a queue with nothing left
\* has its connection time refreshed.
FetchEvents(q) ==
  /\ q \in Live /\ ~queues[q].handler
  /\ \E acked \in {{}, queues[q].answered} :
       LET left == queues[q].held \ acked IN
       /\ seen' = seen \cup (acked \ {Other})
       /\ queues' = [queues EXCEPT ![q] =
            IF left = {}
            THEN [New EXCEPT !.handler = TRUE]
            ELSE [@ EXCEPT !.held = left, !.answered = left]]
  /\ UNCHANGED <<processed, early, told, restarts>>

\* A heartbeat, or an event of another type.
OtherEvent(q) ==
  /\ q \in Live /\ queues[q].handler
  /\ queues' = [queues EXCEPT ![q] = AddEvent(@, Other)]
  /\ UNCHANGED <<processed, early, told, seen, restarts>>

ConnectionClosed(q) ==
  /\ q \in Live /\ queues[q].handler
  /\ queues' = [queues EXCEPT ![q].handler = FALSE]
  /\ UNCHANGED <<processed, early, told, seen, restarts>>

----------------------------------------------------------------------------
(* A message comes.                                                         *)
ProcessMessageEvent ==
  /\ processed < MaxMessages
  /\ LET m == processed + 1 IN
     \E presence_idle \in BOOLEAN :
       LET idle == receiver_is_off_zulip \/ presence_idle IN
       /\ early' = IF idle THEN early \cup {m} ELSE early
       /\ told' = [told EXCEPT ![m] = IF idle THEN 1 ELSE 0]
       /\ queues' = [q \in Live |-> IF Accepts(q) THEN AddEvent(queues[q], m) ELSE queues[q]]
  /\ processed' = processed + 1
  /\ UNCHANGED <<seen, restarts>>

----------------------------------------------------------------------------
(* Queues are removed and marked offline.  missedmessage_hook tells of what *)
(* a queue holds if it is the user's last and was not offline before.       *)
\* Mutant: a queue that was told of when it was marked offline is told of again.
MissedAgain(q, last) == IF last THEN queues[q].held \ ({Other} \cup early) ELSE {}

Missed(q, last) ==
  IF last /\ ~queues[q].offline THEN queues[q].held \ ({Other} \cup early) ELSE {}

Tell(messages) == told' = [m \in Message |-> IF m \in messages THEN told[m] + 1 ELSE told[m]]
Without(removed) == [q \in Live \ removed |-> queues[q]]

\* Mutant: whether a queue is the last is seen before the others of the sweep are gone.
RemovedTellBefore(removed) == UNION {Missed(q, Live = {q}) : q \in removed}

\* do_gc_event_queues: the last ones when the user has no queue left of any kind.
RemovedTell(removed) == UNION {Missed(q, Live \ removed = {}) : q \in removed}

\* mark_clients_offline, after the others were removed.
MarkedTell(removed, marked) ==
  LET last == \A q \in Live \ (removed \cup marked) : ~Active(q)
  IN UNION {Missed(q, last) : q \in marked}

Expired(q) == ~queues[q].handler /\ queues[q].age >= Timeout(q)
\* Mutant: queues with a long timeout are not marked offline before it.
ShouldMarkNever(q) == FALSE

ShouldMarkOffline(q) == ~queues[q].handler /\ ~queues[q].offline /\ queues[q].age >= 1

\* gc_event_queues, one sweep.
GcEventQueues ==
  LET removed == {q \in Live : Expired(q)}
      marked == {q \in Live \ removed : ShouldMarkOffline(q)}
  IN
  /\ removed \cup marked # {}
  /\ Tell(RemovedTell(removed) \cup MarkedTell(removed, marked))
  /\ queues' = [q \in Live \ removed |->
                  [queues[q] EXCEPT !.offline = @ \/ q \in marked]]
  /\ UNCHANGED <<processed, early, seen, restarts>>

\* The client asks for the removal of its queue.
CleanupEventQueue(q) ==
  /\ q \in Live \cap Leaving
  /\ Tell(RemovedTell({q}))
  /\ queues' = Without({q})
  /\ UNCHANGED <<processed, early, seen, restarts>>

\* Ten minutes, ten times what the sweep takes to come again.  A client that stayed connected
\* was answered and came back all along.
Tick ==
  /\ \A q \in Live : ~Expired(q) /\ ~ShouldMarkOffline(q)
  /\ \E q \in Live : ~queues[q].handler /\ queues[q].age < Oldest
  /\ queues' = [q \in Live |-> IF queues[q].handler \/ queues[q].age = Oldest THEN queues[q]
                               ELSE [queues[q] EXCEPT !.age = @ + 1]]
  /\ UNCHANGED <<processed, early, told, seen, restarts>>

\* dump_event_queues, load_event_queues and send_restart_events.
Restart ==
  /\ restarts < MaxRestarts
  /\ restarts' = restarts + 1
  /\ queues' = [q \in Live |-> AddEvent([queues[q] EXCEPT !.handler = FALSE], Other)]
  /\ UNCHANGED <<processed, early, told, seen>>

----------------------------------------------------------------------------
Init ==
  /\ queues = <<>>
  /\ processed = 0 /\ early = {} /\ told = [m \in Message |-> 0] /\ seen = {}
  /\ restarts = 0

Next ==
  \/ \E q \in Queue : Register(q) \/ FetchEvents(q) \/ OtherEvent(q) \/ ConnectionClosed(q)
                        \/ CleanupEventQueue(q)
  \/ ProcessMessageEvent
  \/ GcEventQueues
  \/ Tick
  \/ Restart

\* Time passes and the sweep, a periodic callback, goes on.
Fairness == WF_vars(Tick) /\ WF_vars(GcEventQueues)

Spec == Init /\ [][Next]_vars
FairSpec == Spec /\ Fairness

----------------------------------------------------------------------------
TypeOK ==
  /\ Live \subseteq Queue
  /\ \A q \in Live : LET d == queues[q] IN
       /\ d.answered \subseteq d.held /\ d.held \subseteq 1..processed \cup {Other}
       /\ d.handler => d.held = {} /\ ~d.offline /\ d.age = 0
       /\ d.age \in 0..Oldest /\ d.offline \in BOOLEAN
       /\ q \in Deaf => d.held \subseteq {Other}
  /\ processed \in 0..MaxMessages
  /\ told \in [Message -> Nat] /\ early \subseteq 1..processed /\ seen \subseteq 1..processed
  /\ restarts \in 0..MaxRestarts

\* A user with no active client left has been notified of every message that none of their
\* clients picked up: closing the laptop shortly after it came loses no notification.
MissedIsNotified ==
  receiver_is_off_zulip => \A m \in 1..processed : told[m] > 0 \/ m \in seen

\* No message is notified of on two occasions, whether it came to several queues, a queue was
\* first marked offline and removed later, or Tornado was restarted.
NotifiedOnce == \A m \in Message : told[m] <= 1

\* A message that nobody picked up is notified of, on one occasion (missedmessage_hook).
NotifiedExactlyOnce == MissedIsNotified /\ NotifiedOnce

\* What came while the user seemed active is notified of in the end if they stay away.
AwayIsNotified ==
  <>[](\A q \in Live : ~queues[q].handler)
    => <>[](\A m \in 1..processed : told[m] > 0 \/ m \in seen)
=============================================================================
