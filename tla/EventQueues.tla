----------------------------- MODULE EventQueues -----------------------------
(***************************************************************************)
(* The chat server's event queues (zerver/tornado/event_queue.py and       *)
(* handlers.py, do_events_register of zerver/lib/events.py) and one web    *)
(* client of them (web/src/server_events.js).                              *)
(*                                                                         *)
(* Actions of the server commit events to the database and a message queue *)
(* hands them, in order, to the Tornado process, which appends each to the *)
(* event queues of its users.  A client registers a queue, reads the state *)
(* that the database then holds, and long-polls its queue for what follows,*)
(* acknowledging the last event it has.  Everything Tornado does runs on   *)
(* its one thread; a request reaches that thread some time after it was    *)
(* sent and its answer is written some time later, and in between either   *)
(* end may go away.  Tornado writes its queues to a file when it is stopped*)
(* and reads them when it starts; a crash loses them.                      *)
(*                                                                         *)
(* An event is an index into db; what is in it is left out except its type.*)
(* Events of the compressed types are merged into one per type while the   *)
(* client is away.  A queue is the set of its events: push gives each a    *)
(* greater id than those before it, and contents() merges by id, so that   *)
(* their order is that of their ids.                                       *)
(***************************************************************************)
EXTENDS Integers, Sequences, FiniteSetsExt

CONSTANTS
  EventTypes,   \* of the events that are published
  Compressed,   \* those of them that push() merges (flags/..., without flags/remove/read)
  Conn,         \* connections a client has at one time, with the abandoned ones
  MaxEvents,    \* events published
  MaxBeats,     \* heartbeats
  MaxFaults,    \* connections given up, crashes, restarts, collected queues, reloads
  MaxLate       \* things Tornado still does after it wrote its queues out

Bounds == /\ Compressed \subseteq EventTypes
          /\ "none" \notin Conn
          /\ {MaxEvents, MaxBeats, MaxFaults, MaxLate} \subseteq Nat

VARIABLES
  db,         \* the types of the events the server has committed, in order
  fed,        \* how many of them Tornado has taken from the message queue
  up,         \* Tornado: "up", "stopping" (its queues are written out) or "down"
  clients,    \* its descriptors: queue id -> [next, pruned, queue, virtual, handler]
  saved,      \* the descriptors in the file
  allocated,  \* queue ids given out
  conn,       \* the requests
  browser,    \* the client
  budget      \* faults, heartbeats and late steps so far

vars == <<db, fed, up, clients, saved, allocated, conn, browser, budget>>
server == <<db, fed, up, clients, saved, allocated>>

None == "none"
Own == EventTypes \cup {"heartbeat", "restart"}

----------------------------------------------------------------------------
(* One event queue.                                                         *)
Fresh == [next |-> 0, pruned |-> -1, queue |-> {}, virtual |-> {}, handler |-> None]

Contents(d) == d.queue \cup d.virtual
Empty(d) == Contents(d) = {}
Carried(events) == UNION {e.of : e \in events}
NewestId(events) == Max({e.id : e \in events})

\* Mutant: the merged event keeps only what the newest one says.
PushNewest(d, type, of) ==
  LET event == [id |-> d.next, type |-> type, of |-> of]
  IN IF type \in Compressed
     THEN [d EXCEPT !.next = @ + 1, !.virtual = {v \in @ : v.type # type} \cup {event}]
     ELSE [d EXCEPT !.next = @ + 1, !.queue = @ \cup {event}]

\* An event of a compressed type joins the virtual event of its type, which moves to its id.
Push(d, type, of) ==
  LET merged == {v \in d.virtual : v.type = type}
      event == [id |-> d.next, type |-> type, of |-> Carried(merged) \cup of]
  IN IF type \in Compressed
     THEN [d EXCEPT !.next = @ + 1, !.virtual = (@ \ merged) \cup {event}]
     ELSE [d EXCEPT !.next = @ + 1, !.queue = @ \cup {event}]

\* Mutant: contents() leaves the virtual events where they were, too.
ResolvedTwice(d) == [d EXCEPT !.queue = Contents(d)]

Resolved(d) == [d EXCEPT !.queue = Contents(d), !.virtual = {}]

Prune(d, through) ==
  LET gone == {e \in d.queue : e.id <= through}
  IN IF gone = {} THEN d ELSE [d EXCEPT !.pruned = NewestId(gone), !.queue = @ \ gone]

----------------------------------------------------------------------------
(* The requests.  A connection is known to Tornado until it has noticed     *)
(* that the client closed it.                                               *)
Idle == [state |-> "idle"]
Sent(q, last, block) ==
  [state |-> "sent", queue |-> q, last |-> last, block |-> block, known |-> TRUE]
Events(events) == [error |-> None, events |-> events]
Error(code) == [error |-> code, events |-> {}]
Answering(answer) == [state |-> "answering", answer |-> answer, known |-> TRUE]

\* finish_handler, and the answer of a request that does not wait: nobody is there to read
\* the answer of a connection that is gone.
Answered(c, answer) == IF c.known THEN Answering(answer) ELSE Idle

\* finish_current_handler of every descriptor of ds: what was waiting is answered.
FinishHandlers(ds) ==
  /\ clients' = [q \in DOMAIN ds |->
                   IF ds[q].handler = None THEN ds[q]
                   ELSE [Resolved(ds[q]) EXCEPT !.handler = None]]
  /\ conn' = [h \in Conn |->
                IF \E q \in DOMAIN ds : ds[q].handler = h
                THEN Answered(conn[h], Events(Contents(ds[CHOOSE q \in DOMAIN ds : ds[q].handler = h])))
                ELSE conn[h]]

NoQueues == [q \in {} |-> Fresh]
Without(ds, q) == [r \in DOMAIN ds \ {q} |-> ds[r]]

AddEvent(type, of) == FinishHandlers([q \in DOMAIN clients |-> Push(clients[q], type, of)])

\* What Tornado does while it is up, and at most MaxLate times until its process ends.
Runs == \/ up = "up" /\ budget' = budget
        \/ /\ up = "stopping" /\ budget.late < MaxLate
           /\ budget' = [budget EXCEPT !.late = @ + 1]

----------------------------------------------------------------------------
(* The server.                                                              *)
Publish(type) ==
  /\ Len(db) < MaxEvents
  /\ db' = Append(db, type)
  /\ UNCHANGED <<fed, up, clients, saved, allocated, conn, browser, budget>>

ProcessEvent ==
  /\ fed < Len(db)
  /\ Runs
  /\ fed' = fed + 1
  /\ AddEvent(db[fed + 1], {fed + 1})
  /\ UNCHANGED <<db, up, saved, allocated, browser>>

Heartbeat(q) ==
  /\ q \in DOMAIN clients /\ clients[q].handler # None
  /\ budget.beats < MaxBeats /\ up = "up"
  /\ budget' = [budget EXCEPT !.beats = @ + 1]
  /\ LET beaten == Push(clients[q], "heartbeat", {}) IN
       /\ clients' = [clients EXCEPT ![q] = [Resolved(beaten) EXCEPT !.handler = None]]
       /\ conn' = [conn EXCEPT ![clients[q].handler] = Answered(@, Events(Contents(beaten)))]
  /\ UNCHANGED <<db, fed, up, saved, allocated, browser>>

\* get_events: the poll with a queue and the last event the client has.
FetchEvents(h) ==
  LET c == conn[h]
      answer(a) == conn' = [conn EXCEPT ![h] = Answered(c, a)]
  IN
  /\ c.state = "sent"
  /\ Runs
  /\ \/ /\ c.queue \notin DOMAIN clients
        /\ answer(Error("bad_queue"))
        /\ UNCHANGED clients
     \/ /\ c.queue \in DOMAIN clients
        /\ LET d == clients[c.queue]
               e == Prune(d, c.last)
           IN
           \/ /\ c.last < d.pruned
              /\ answer(Error("pruned"))
              /\ UNCHANGED clients
           \/ /\ c.last >= d.pruned /\ e.pruned # c.last
              /\ clients' = [clients EXCEPT ![c.queue] = e]
              /\ answer(Error("not_in_queue"))
           \/ /\ c.last >= d.pruned /\ e.pruned = c.last
              /\ LET waits == Empty(e) /\ c.block
                     others == [g \in Conn |-> IF g = e.handler
                                               THEN Answered(conn[g], Events(Contents(e))) ELSE conn[g]]
                 IN
                 /\ clients' = [clients EXCEPT ![c.queue] =
                                  [Resolved(e) EXCEPT !.handler = IF waits THEN h ELSE None]]
                 /\ conn' = [others EXCEPT ![h] = IF waits THEN [c EXCEPT !.state = "held"]
                                                  ELSE Answered(c, Events(Contents(e)))]
  /\ UNCHANGED <<db, fed, up, saved, allocated, browser>>

\* Tornado notices that a client closed its connection.  A request that is still on its way
\* to the queues goes on.
OnConnectionClose(h) ==
  /\ conn[h].state # "idle" /\ browser.xhr # h
  /\ conn[h].known
  /\ up # "down"
  /\ conn' = [conn EXCEPT ![h] = IF @.state = "sent" THEN [@ EXCEPT !.known = FALSE] ELSE Idle]
  /\ clients' = [q \in DOMAIN clients |->
                   IF clients[q].handler = h THEN [clients[q] EXCEPT !.handler = None]
                   ELSE clients[q]]
  /\ UNCHANGED <<db, fed, up, saved, allocated, browser, budget>>

\* A queue nobody waits on for its timeout; the client of a live one was away that long.
GcEventQueue(q) ==
  /\ up = "up"
  /\ q \in DOMAIN clients /\ clients[q].handler = None
  /\ IF q = browser.queue
     THEN budget.faults < MaxFaults /\ budget' = [budget EXCEPT !.faults = @ + 1]
     ELSE UNCHANGED budget
  /\ clients' = Without(clients, q)
  /\ UNCHANGED <<db, fed, up, saved, allocated, conn, browser>>

\* Mutant: the request that waits on the queue is forgotten with it.
CleanupForgetful(q) ==
  /\ up = "up"
  /\ q \in DOMAIN clients /\ q # browser.queue
  /\ clients' = Without(clients, q)
  /\ UNCHANGED <<db, fed, up, saved, allocated, conn, browser, budget>>

\* The client that leaves asks for its queue to be removed.
CleanupEventQueue(q) ==
  /\ up = "up"
  /\ q \in DOMAIN clients /\ q # browser.queue
  /\ clients' = Without(clients, q)
  /\ LET h == clients[q].handler IN
       conn' = IF h = None THEN conn
               ELSE [conn EXCEPT ![h] = Answered(@, Events(Contents(clients[q])))]
  /\ UNCHANGED <<db, fed, up, saved, allocated, browser, budget>>

----------------------------------------------------------------------------
(* Tornado stops, crashes and starts.                                       *)
Spend == budget.faults < MaxFaults /\ budget' = [budget EXCEPT !.faults = @ + 1]

Stop ==
  /\ up = "up"
  /\ Spend
  /\ up' = "stopping"
  /\ saved' = [q \in DOMAIN clients |-> [clients[q] EXCEPT !.handler = None]]
  /\ UNCHANGED <<db, fed, clients, allocated, conn, browser>>

\* The connections that are open end; a request that was sent finds nobody and fails.
ConnectionsLost ==
  /\ conn' = [h \in Conn |-> Idle]
  /\ browser' = IF browser.xhr = None THEN browser
                ELSE [browser EXCEPT !.xhr = None, !.retrying = TRUE]

Exit ==
  /\ up = "stopping"
  /\ up' = "down"
  /\ clients' = NoQueues
  /\ ConnectionsLost
  /\ UNCHANGED <<db, fed, saved, allocated, budget>>

Crash ==
  /\ up = "up"
  /\ Spend
  /\ up' = "down"
  /\ clients' = NoQueues
  /\ ConnectionsLost
  /\ UNCHANGED <<db, fed, saved, allocated>>

\* Mutant: the descriptors are restored with what was pruned as new.
SetupUnpruned ==
  /\ up = "down"
  /\ up' = "up"
  /\ clients' = [q \in DOMAIN saved |-> Push([saved[q] EXCEPT !.pruned = -1], "restart", {})]
  /\ saved' = NoQueues
  /\ UNCHANGED <<db, fed, allocated, conn, browser, budget>>

\* The file is read and put aside, and every client is told of the restart.
SetupEventQueue ==
  /\ up = "down"
  /\ up' = "up"
  /\ clients' = [q \in DOMAIN saved |-> Push(saved[q], "restart", {})]
  /\ saved' = NoQueues
  /\ UNCHANGED <<db, fed, allocated, conn, browser, budget>>

----------------------------------------------------------------------------
(* The client, and the request that registers it.                           *)
NewBrowser == [stage |-> "new", queue |-> 0, last |-> -1, snapshot |-> 0, applied |-> <<>>,
               xhr |-> None, retrying |-> FALSE]

\* The events of one answer are dispatched in their order, and the last one is acknowledged.
Apply(b, events) ==
  IF events = {} THEN b
  ELSE [b EXCEPT !.applied = Append(@, events), !.last = NewestId(events)]

\* request_event_queue
AllocateQueue ==
  /\ browser.stage = "new" /\ up = "up"
  /\ allocated' = allocated + 1
  /\ clients' = [q \in DOMAIN clients \cup {allocated'} |->
                   IF q = allocated' THEN Fresh ELSE clients[q]]
  /\ browser' = [NewBrowser EXCEPT !.stage = "allocated", !.queue = allocated']
  /\ UNCHANGED <<db, fed, up, saved, conn, budget>>

FetchInitialState ==
  /\ browser.stage = "allocated"
  /\ browser' = [browser EXCEPT !.stage = "fetched", !.snapshot = Len(db)]
  /\ UNCHANGED <<server, conn, budget>>

\* get_user_events of the new queue and apply_events; without the queue the registration
\* fails and the page is loaded again.
GetUserEvents ==
  /\ browser.stage = "fetched" /\ up = "up"
  /\ LET q == browser.queue IN
     IF q \in DOMAIN clients
     THEN LET e == Prune(clients[q], -1)
          IN /\ clients' = [clients EXCEPT ![q] = Resolved(e)]
             /\ browser' = [Apply(browser, Contents(e)) EXCEPT !.stage = "polling"]
     ELSE UNCHANGED clients /\ browser' = NewBrowser
  /\ UNCHANGED <<db, fed, up, saved, allocated, conn, budget>>

Poll(h) ==
  /\ browser.stage = "polling" /\ browser.xhr = None
  /\ conn[h].state = "idle"
  /\ up = "up"
  /\ conn' = [conn EXCEPT ![h] = Sent(browser.queue, browser.last, ~browser.retrying)]
  /\ browser' = [browser EXCEPT !.xhr = h]
  /\ UNCHANGED <<server, budget>>

\* Mutant: a client told that its queue is unknown tries again like after any other error.
ReceiveAndRetry(h) ==
  /\ conn[h].state = "answering" /\ browser.xhr = h
  /\ conn' = [conn EXCEPT ![h] = Idle]
  /\ LET answer == conn[h].answer IN
     \/ /\ answer.error # None
        /\ browser' = [browser EXCEPT !.xhr = None, !.retrying = TRUE]
     \/ /\ answer.error = None
        /\ browser' = [Apply(browser, answer.events) EXCEPT !.xhr = None, !.retrying = FALSE]
  /\ UNCHANGED <<server, budget>>

\* zulip_finish writes the answer, and the client handles it in one go.
Receive(h) ==
  /\ conn[h].state = "answering" /\ browser.xhr = h
  /\ conn' = [conn EXCEPT ![h] = Idle]
  /\ LET answer == conn[h].answer IN
     \/ /\ answer.error = "bad_queue"
        /\ browser' = NewBrowser
     \/ /\ answer.error \in {"pruned", "not_in_queue"}
        /\ browser' = [browser EXCEPT !.xhr = None, !.retrying = TRUE]
     \/ /\ answer.error = None
        /\ browser' = [Apply(browser, answer.events) EXCEPT !.xhr = None, !.retrying = FALSE]
  /\ UNCHANGED <<server, budget>>

\* The long poll times out, which is no failure, or the network drops it.
GiveUp ==
  /\ browser.xhr # None
  /\ Spend
  /\ \E failed \in BOOLEAN : browser' = [browser EXCEPT !.xhr = None, !.retrying = failed]
  /\ UNCHANGED <<server, conn>>

Reload ==
  /\ browser.stage = "polling"
  /\ Spend
  /\ browser' = NewBrowser
  /\ UNCHANGED <<server, conn>>

----------------------------------------------------------------------------
Init ==
  /\ db = <<>> /\ fed = 0
  /\ up = "up" /\ clients = NoQueues /\ saved = NoQueues /\ allocated = 0
  /\ conn = [h \in Conn |-> Idle]
  /\ browser = NewBrowser
  /\ budget = [faults |-> 0, beats |-> 0, late |-> 0]

Register == AllocateQueue \/ FetchInitialState \/ GetUserEvents
Restart == Exit \/ SetupEventQueue

Next ==
  \/ \E type \in EventTypes : Publish(type)
  \/ ProcessEvent
  \/ \E q \in DOMAIN clients : Heartbeat(q) \/ GcEventQueue(q) \/ CleanupEventQueue(q)
  \/ \E h \in Conn : FetchEvents(h) \/ OnConnectionClose(h) \/ Poll(h) \/ Receive(h)
  \/ Register
  \/ Stop \/ Crash \/ Restart
  \/ GiveUp \/ Reload

\* Tornado serves what reaches it and is started again; the client registers and polls.
Fairness ==
  /\ WF_vars(ProcessEvent) /\ WF_vars(Restart) /\ WF_vars(Register)
  /\ WF_vars(\E h \in Conn : Poll(h))
  /\ \A h \in Conn : /\ WF_vars(FetchEvents(h)) /\ WF_vars(OnConnectionClose(h))
                     /\ WF_vars(Receive(h))

Spec == Init /\ [][Next]_vars
FairSpec == Spec /\ Fairness

----------------------------------------------------------------------------
\* The ids of a queue are all different, below the next one, and after what was pruned.
TypeOK ==
  /\ db \in Seq(EventTypes) /\ Len(db) <= MaxEvents /\ fed \in 0..Len(db)
  /\ up \in {"up", "stopping", "down"}
  /\ \A ds \in {clients, saved} : \A q \in DOMAIN ds :
       /\ q \in 1..allocated /\ ds[q].handler \in Conn \cup {None}
       /\ \A e, f \in Contents(ds[q]) : e.id = f.id => e = f
       /\ \A e \in Contents(ds[q]) :
            /\ e.id \in (ds[q].pruned + 1)..(ds[q].next - 1)
            /\ e.type \in Own /\ e.of \subseteq 1..fed
  /\ browser.stage \in {"new", "allocated", "fetched", "polling"}
  /\ browser.xhr \in Conn \cup {None}

Applied == UNION {browser.applied[a] : a \in 1..Len(browser.applied)}

\* The descriptors that count: those of the file while the process that wrote it ends.
Kept == IF up = "up" THEN clients ELSE saved

\* What the client has, or will be given, leaves nothing out: every event Tornado took is in
\* the state the client fetched, in the events it applied, or still in its queue -- also
\* across a restart, lost answers and merged events.
NothingSkipped ==
  browser.stage \in {"fetched", "polling"} /\ browser.queue \in DOMAIN Kept =>
    1..fed \subseteq 1..browser.snapshot \cup Carried(Applied)
                       \cup Carried(Contents(Kept[browser.queue]))

\* Two events of a queue that are rightly one after the other, of the types that were published.
Before(types, e, f) == \A i \in e.of, j \in f.of : i < j \/ (j < i /\ types[j] \in Compressed)
InTurn(types, events) ==
  \A e, f \in events : \/ e = f
                       \/ e.id < f.id /\ Before(types, e, f)
                       \/ f.id < e.id /\ Before(types, f, e)

\* No event is applied a second time after the initial state, and none before an earlier one
\* but for the delay of a compressed event.
AppliedOnceInOrder ==
  \A a \in 1..Len(browser.applied) :
    /\ InTurn(db, browser.applied[a])
    /\ \A b \in 1..Len(browser.applied) : a < b =>
         \A e \in browser.applied[a], f \in browser.applied[b] : Before(db, e, f)

\* The client keeps on asking with what it has unless its queue is unknown, so the other
\* refusals never answer the request it waits for: it could not get out of them.
NoDeadEnd ==
  \A h \in Conn : conn[h].state = "answering" /\ browser.xhr = h =>
    conn[h].answer.error \notin {"pruned", "not_in_queue"}

\* A request that waits is the one its queue wakes: no other poll, removal of the queue or
\* closed connection leaves it waiting with nobody to answer it.
HeldIsCurrent ==
  \A h \in Conn : conn[h].state = "held" =>
    conn[h].queue \in DOMAIN clients /\ clients[conn[h].queue].handler = h

\* A client gets every event, none twice and none out of its turn, through pruning, merging,
\* restarts and lost answers (EventQueue, load_event_queues).
EventsOnceInOrder == NothingSkipped /\ AppliedOnceInOrder

\* No client is stuck: not with an id its queue refuses, nor with a poll that nobody will
\* answer (fetch_events, cleanup, disconnect_handler).
NoClientIsStuck == NoDeadEnd /\ HeldIsCurrent

\* Whatever was lost on the way, the client ends up with everything that was published.
CatchesUp ==
  <>[](browser.stage = "polling"
         /\ 1..Len(db) = 1..browser.snapshot \cup Carried(Applied))

(* Not true of this code: see the README.  The merged event takes its       *)
(* newest place, so that a flag set before it was cleared is set again.     *)
AppliedInOrder ==
  \A a, b \in 1..Len(browser.applied) : \A e \in browser.applied[a], f \in browser.applied[b] :
    a < b \/ (a = b /\ e.id < f.id) => \A i \in e.of, j \in f.of : i < j
=============================================================================
