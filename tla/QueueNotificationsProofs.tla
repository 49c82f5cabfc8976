----------------------- MODULE QueueNotificationsProofs -----------------------
(***************************************************************************)
(* A message nobody picked up is notified of exactly once, for every       *)
(* number of queues, messages and restarts of Tornado.                     *)
(*                                                                         *)
(* That it is notified of at most once needs no more than Bounds.  That it *)
(* is notified of at all is proved for the users of one kind of client     *)
(* (OneKind): beside a browser, a phone whose queue is already offline     *)
(* keeps the browser's from being the last when it is removed, and nobody  *)
(* is told, which the run MissedNotification shows.                        *)
(***************************************************************************)
EXTENDS QueueNotifications, TLAPS

(* Browsers alone, which take messages; or mobile clients alone, which ask  *)
(* for no removal unless their queue takes no messages.                     *)
OneKind ==
  \/ Mobile = {} /\ Deaf = {}
  \/ Mobile = Queue /\ Leaving \subseteq Deaf

Event == Message \cup {Other}
Descriptor == [held: SUBSET Event, answered: SUBSET Event, handler: BOOLEAN, age: 0..Oldest,
               offline: BOOLEAN]

(* A descriptor of queue q when n messages were processed.                  *)
RowOf(q, d, n) ==
  /\ d \in Descriptor
  /\ d.answered \subseteq d.held /\ d.held \subseteq 1..n \cup {Other}
  /\ d.handler => d.held = {} /\ ~d.offline /\ d.age = 0
  /\ q \in Deaf => d.held \subseteq {Other}

Rows == /\ Live \subseteq Queue
        /\ queues \in [Live -> Descriptor]
        /\ \A q \in Live : RowOf(q, queues[q], processed)

Counts == /\ processed \in 0..MaxMessages
          /\ told \in [Message -> Nat]
          /\ early \subseteq 1..processed /\ seen \subseteq 1..processed
          /\ restarts \in 0..MaxRestarts

(* What was notified of when it came was so once, and what has not come is  *)
(* not notified of.                                                         *)
ToldInTime == /\ \A m \in early : told[m] = 1
              /\ \A m \in Message : m > processed => told[m] = 0

(* A message no client acknowledged is in every queue that takes messages.  *)
HeldByAll == \A m \in (1..processed) \ seen : \A q \in Live : Accepts(q) => m \in queues[q].held

(* Only queues that were marked offline hold what was notified of later.    *)
ToldWhenOffline ==
  \A q \in Live : \A m \in queues[q].held \ {Other} :
    told[m] > 0 /\ m \notin early => queues[q].offline

QueueInv == Rows /\ Counts /\ ToldInTime /\ HeldByAll /\ ToldWhenOffline /\ NotifiedOnce

(* Browsers' queues are removed when they expire, and not marked offline;   *)
(* mobile ones are marked offline long before they expire.                  *)
Sweeping == /\ Mobile = {} => \A q \in Live : ~queues[q].offline
            /\ Mobile = Queue => \A q \in Live : queues[q].age >= 2 => queues[q].offline

-----------------------------------------------------------------------------
(* Descriptors *)

(* The parameters are numbers, and Other is no message.                     *)
LEMMA Parameters ==
  ASSUME Bounds
  PROVE  /\ MaxMessages \in Nat /\ MaxRestarts \in Nat
         /\ Other \notin Message
         /\ \A n \in 0..MaxMessages : 1..n \subseteq Message
BY DEF Bounds, Message, Other

(* What a registration and a poll that empties the queue make of one.       *)
LEMMA NewRow ==
  ASSUME NEW q, NEW n
  PROVE  /\ RowOf(q, New, n) /\ RowOf(q, [New EXCEPT !.handler = TRUE], n)
         /\ New.held = {} /\ ~New.offline /\ New.age = 0
         /\ [New EXCEPT !.handler = TRUE].held = {} /\ ~[New EXCEPT !.handler = TRUE].offline
         /\ [New EXCEPT !.handler = TRUE].age = 0
<1> DEFINE waiting == [New EXCEPT !.handler = TRUE]
<1>1. New \in Descriptor /\ New.held = {} /\ New.answered = {} /\ New.age = 0
      /\ New.handler = FALSE /\ New.offline = FALSE
  BY DEF New, Descriptor, Oldest
<1>2. /\ waiting \in Descriptor /\ waiting.held = {} /\ waiting.answered = {} /\ waiting.age = 0
      /\ waiting.offline = FALSE
  BY <1>1 DEF Descriptor
<1> HIDE DEF waiting
<1>3. RowOf(q, New, n) /\ RowOf(q, waiting, n)
  BY <1>1, <1>2 DEF RowOf
<1> QED BY <1>1, <1>2, <1>3 DEF waiting

(* What an event makes of a descriptor.                                     *)
LEMMA EventRow ==
  ASSUME NEW q, NEW n, NEW d, RowOf(q, d, n), NEW e \in Event, e \in 1..n \cup {Other},
         q \in Deaf => e = Other
  PROVE  /\ RowOf(q, AddEvent(d, e), n)
         /\ AddEvent(d, e).held = d.held \cup {e}
         /\ AddEvent(d, e).offline = d.offline /\ AddEvent(d, e).age = d.age
BY DEF AddEvent, RowOf, Descriptor

(* What a poll, a lost connection, a tick and a sweep make of a descriptor. *)
Acked(d, left) == [d EXCEPT !.held = left, !.answered = left]
Closed(d) == [d EXCEPT !.handler = FALSE]
Aged(d) == [d EXCEPT !.age = @ + 1]
Marked(d) == [d EXCEPT !.offline = TRUE]

(* All four are descriptors again, and change only what they name.          *)
LEMMA AckedRow ==
  ASSUME NEW q, NEW n, NEW d, RowOf(q, d, n), ~d.handler, NEW left \in SUBSET d.held
  PROVE  /\ RowOf(q, Acked(d, left), n)
         /\ Acked(d, left).held = left
         /\ Acked(d, left).offline = d.offline /\ Acked(d, left).age = d.age
BY DEF RowOf, Descriptor, Acked

LEMMA ClosedRow ==
  ASSUME NEW q, NEW n, NEW d, RowOf(q, d, n)
  PROVE  /\ RowOf(q, Closed(d), n) /\ Closed(d).held = d.held
         /\ Closed(d).offline = d.offline /\ Closed(d).age = d.age
BY DEF RowOf, Descriptor, Closed

LEMMA AgedRow ==
  ASSUME NEW q, NEW n, NEW d, RowOf(q, d, n), ~d.handler, d.age # Oldest
  PROVE  /\ RowOf(q, Aged(d), n) /\ Aged(d).held = d.held
         /\ Aged(d).offline = d.offline /\ Aged(d).age = d.age + 1
BY DEF RowOf, Descriptor, Oldest, Aged

LEMMA MarkedRow ==
  ASSUME NEW q, NEW n, NEW d, RowOf(q, d, n), ~d.handler
  PROVE  /\ RowOf(q, Marked(d), n) /\ Marked(d).held = d.held
         /\ Marked(d).offline /\ Marked(d).age = d.age
BY DEF RowOf, Descriptor, Marked

(* gc_event_queues marks some of the queues it leaves.                      *)
LEMMA SweptRow ==
  ASSUME NEW d \in Descriptor, NEW b \in BOOLEAN
  PROVE  [d EXCEPT !.offline = @ \/ b] = IF b THEN Marked(d) ELSE d
<1>1. CASE b
  BY <1>1 DEF Marked, Descriptor
<1>2. CASE ~b
  BY <1>2 DEF Descriptor
<1> QED BY <1>1, <1>2

(* The types of the module are those of the invariant.                      *)
LEMMA InvTypes ==
  ASSUME Bounds
  PROVE  QueueInv => TypeOK
BY DEF QueueInv, Rows, Counts, RowOf, Descriptor, TypeOK, Live, Oldest

-----------------------------------------------------------------------------
(* What a step does to the queues *)

(* A step that notifies nobody.  A new queue starts when everything was     *)
(* seen; the others keep what is not acknowledged, and age no further than  *)
(* the sweep lets them.                                                     *)
Kept(q) ==
  /\ queues[q].held \ (seen' \cup {Other}) \subseteq queues'[q].held
  /\ queues'[q].held \subseteq queues[q].held \cup {Other}
  /\ \/ queues'[q].held = {} /\ ~queues'[q].offline /\ queues'[q].age = 0
     \/ /\ queues'[q].offline = queues[q].offline
        /\ \/ queues'[q].age = queues[q].age
           \/ queues'[q].age = queues[q].age + 1 /\ (queues[q].age >= 1 => queues[q].offline)

NotifiesNobody ==
  /\ UNCHANGED <<processed, early, told>> /\ restarts' \in 0..MaxRestarts
  /\ seen \subseteq seen' /\ seen' \subseteq 1..processed
  /\ Live \subseteq Live' /\ Live' \subseteq Queue /\ queues' \in [Live' -> Descriptor]
  /\ \A q \in Live' :
       /\ RowOf(q, queues'[q], processed)
       /\ \/ q \in Live /\ Kept(q)
          \/ /\ q \notin Live /\ seen' = 1..processed
             /\ queues'[q].held = {} /\ ~queues'[q].offline /\ queues'[q].age = 0

(* Such a step keeps the invariant.                                         *)
LEMMA QueuesKept ==
  ASSUME Bounds, QueueInv, NotifiesNobody
  PROVE  QueueInv'
<1>1. Rows'
  BY DEF QueueInv, Rows, NotifiesNobody
<1>2. Counts' /\ ToldInTime' /\ NotifiedOnce'
  BY DEF QueueInv, Counts, ToldInTime, NotifiedOnce, NotifiesNobody
<1>3. HeldByAll'
  BY DEF QueueInv, HeldByAll, Accepts, Other, Counts, NotifiesNobody, Kept
<1>4. ToldWhenOffline'
  BY DEF QueueInv, ToldWhenOffline, NotifiesNobody, Kept
<1> QED BY <1>1, <1>2, <1>3, <1>4 DEF QueueInv

(* A sweep or a removal: what it tells of was not told of before, and is    *)
(* held by offline queues only afterwards.                                  *)
LEMMA QueuesSwept ==
  ASSUME Bounds, QueueInv, UNCHANGED <<processed, early, seen, restarts>>,
         NEW missed, Tell(missed),
         \A m \in missed : told[m] = 0 /\ m \notin early /\ m \in 1..processed,
         Live' \subseteq Live, queues' \in [Live' -> Descriptor],
         \A q \in Live' :
           /\ RowOf(q, queues'[q], processed)
           /\ queues'[q].held = queues[q].held
           /\ queues[q].offline => queues'[q].offline
           /\ queues'[q].held \cap missed # {} => queues'[q].offline
  PROVE  QueueInv'
<1>1. Rows' /\ HeldByAll'
  BY DEF QueueInv, Rows, HeldByAll, Accepts
<1>2. /\ told' \in [Message -> Nat]
      /\ \A m \in Message : told'[m] = IF m \in missed THEN told[m] + 1 ELSE told[m]
  BY DEF QueueInv, Counts, Tell
<1>3. Counts'
  BY <1>2 DEF QueueInv, Counts
<1>4. ToldInTime'
  <2>1. early \subseteq Message
    BY Parameters DEF QueueInv, Counts
  <2>2. \A m \in early : told'[m] = 1
    BY <1>2, <2>1 DEF QueueInv, ToldInTime
  <2>3. \A m \in Message : m > processed => m \notin missed
    BY DEF QueueInv, Counts, Message
  <2> QED BY <1>2, <2>2, <2>3 DEF QueueInv, ToldInTime
<1>5. NotifiedOnce'
  BY <1>2 DEF QueueInv, NotifiedOnce
<1>6. ToldWhenOffline'
  <2> SUFFICES ASSUME NEW q \in Live', NEW m \in queues'[q].held \ {Other}, told'[m] > 0, m \notin early
               PROVE  queues'[q].offline
    BY DEF ToldWhenOffline
  <2>1. m \in Message /\ q \in Live /\ m \in queues[q].held
    BY DEF RowOf, Descriptor, Event
  <2>2. CASE m \in missed
    BY <2>2
  <2>3. CASE m \notin missed
    <3>1. told[m] > 0
      BY <1>2, <2>1, <2>3
    <3> QED BY <2>1, <3>1 DEF QueueInv, ToldWhenOffline
  <2> QED BY <2>2, <2>3
<1> QED BY <1>1, <1>3, <1>4, <1>5, <1>6 DEF QueueInv

(* What missedmessage_hook tells of was not told of before.                 *)
LEMMA MissedIsNew ==
  ASSUME Bounds, QueueInv, NEW q \in Live, NEW last, NEW m \in Missed(q, last)
  PROVE  /\ told[m] = 0 /\ m \notin early /\ m \in 1..processed
         /\ last /\ ~queues[q].offline /\ m \in queues[q].held
<1>1. /\ last /\ ~queues[q].offline /\ m \in queues[q].held \ {Other} /\ m \notin early
  BY DEF Missed
<1>2. m \in 1..processed
  BY <1>1 DEF QueueInv, Rows, RowOf
<1>3. ~(told[m] > 0)
  BY <1>1 DEF QueueInv, ToldWhenOffline
<1>4. told[m] \in Nat
  BY <1>2, Parameters DEF QueueInv, Counts
<1> QED BY <1>1, <1>2, <1>3, <1>4

-----------------------------------------------------------------------------
(* At most once *)

(* There is no queue and no message at first.                               *)
LEMMA QueueInit ==
  ASSUME Bounds, Init
  PROVE  QueueInv
<1>1. Live = {}
  BY DEF Init, Live
<1>2. Rows /\ HeldByAll /\ ToldWhenOffline
  BY <1>1 DEF Rows, HeldByAll, ToldWhenOffline, Init, Live
<1>3. Counts /\ ToldInTime /\ NotifiedOnce
  BY Parameters DEF Counts, ToldInTime, NotifiedOnce, Init
<1> QED BY <1>2, <1>3 DEF QueueInv

(* The clients, the clock and the restart notify nobody.                    *)
LEMMA ClientRows ==
  ASSUME Bounds, QueueInv,
         \/ Tick \/ Restart
         \/ \E q \in Queue : Register(q) \/ FetchEvents(q) \/ OtherEvent(q) \/ ConnectionClosed(q)
  PROVE  NotifiesNobody
<1>a. /\ Live \subseteq Queue /\ queues \in [Live -> Descriptor]
      /\ \A q \in Live : RowOf(q, queues[q], processed)
      /\ restarts \in 0..MaxRestarts /\ seen \subseteq 1..processed
  BY DEF QueueInv, Rows, Counts
<1>b. \A q, d : RowOf(q, d, processed) => d \in Descriptor
  BY DEF RowOf
<1>c. Other \in Event /\ Other \in 1..processed \cup {Other}
  BY DEF Event
<1>1. ASSUME NEW q \in Queue, Register(q) PROVE NotifiesNobody
  <2>1. /\ UNCHANGED <<processed, early, told, restarts>> /\ seen' = 1..processed
        /\ queues' = [r \in Live \cup {q} |-> IF r = q THEN New ELSE queues[r]]
    BY <1>1 DEF Register
  <2>2. Live' = Live \cup {q}
    BY <2>1 DEF Live
  <2>3. /\ RowOf(q, queues'[q], processed) /\ queues'[q].held = {}
        /\ \A r \in Live' : r # q => r \in Live /\ queues'[r] = queues[r]
    BY <2>1, <2>2, NewRow
  <2>4. queues' \in [Live' -> Descriptor]
    BY <1>a, <1>b, <2>1, <2>2, <2>3
  <2>5. q \notin Live /\ seen \subseteq seen' /\ seen' \subseteq 1..processed
    BY <1>1, <1>a, <2>1 DEF Register
  <2>6. ~queues'[q].offline /\ queues'[q].age = 0
    BY <2>1, <2>2, NewRow
  <2>7. \A r \in Live' : r # q => RowOf(r, queues'[r], processed) /\ r \in Live /\ Kept(r)
    BY <1>a, <2>3 DEF Kept
  <2>8. Live \subseteq Live' /\ Live' \subseteq Queue
    BY <1>a, <2>2
  <2> QED BY <1>a, <2>1, <2>3, <2>4, <2>5, <2>6, <2>7, <2>8 DEF NotifiesNobody
<1>2. ASSUME NEW q \in Queue, FetchEvents(q) PROVE NotifiesNobody
  <2>1. PICK acked \in {{}, queues[q].answered} :
          /\ seen' = seen \cup (acked \ {Other})
          /\ queues' = [queues EXCEPT ![q] =
               IF queues[q].held \ acked = {}
                 THEN [New EXCEPT !.handler = TRUE]
                 ELSE Acked(queues[q], queues[q].held \ acked)]
    BY <1>2 DEF FetchEvents, Acked
  <2>2. q \in Live /\ ~queues[q].handler /\ UNCHANGED <<processed, early, told, restarts>>
    BY <1>2 DEF FetchEvents
  <2> DEFINE left == queues[q].held \ acked
             row == IF left = {} THEN [New EXCEPT !.handler = TRUE]
                    ELSE Acked(queues[q], left)
  <2>3. RowOf(q, row, processed) /\ row.held = left
        /\ \/ left = {} /\ ~row.offline /\ row.age = 0
           \/ row.offline = queues[q].offline /\ row.age = queues[q].age
    <3>1. CASE left = {}
      BY <3>1, NewRow
    <3>2. CASE left # {}
      <4>1. left \in SUBSET queues[q].held /\ RowOf(q, queues[q], processed)
        BY <1>a, <2>2
      <4> HIDE DEF left
      <4> QED BY <2>2, <3>2, <4>1, AckedRow
    <3> QED BY <3>1, <3>2
  <2>4. queues' = [queues EXCEPT ![q] = row]
    BY <2>1
  <2>5. seen' \subseteq 1..processed /\ seen \subseteq seen'
    BY <1>a, <2>1, <2>2 DEF RowOf
  <2>6. queues[q].held \ (seen' \cup {Other}) \subseteq left /\ left \subseteq queues[q].held
    BY <2>1
  <2> HIDE DEF row, left
  <2>7. Live' = Live /\ queues'[q] = row /\ \A r \in Live : r # q => queues'[r] = queues[r]
    BY <1>a, <2>2, <2>4 DEF Live
  <2>8. queues' \in [Live' -> Descriptor]
    BY <1>a, <1>b, <2>2, <2>3, <2>4, <2>7
  <2>9. \A r \in Live' :
           /\ RowOf(r, queues'[r], processed)
           /\ queues[r].held \ (seen' \cup {Other}) \subseteq queues'[r].held
           /\ queues'[r].held \subseteq queues[r].held
           /\ \/ queues'[r].held = {} /\ ~queues'[r].offline /\ queues'[r].age = 0
              \/ queues'[r].offline = queues[r].offline /\ queues'[r].age = queues[r].age
    BY <1>a, <2>3, <2>6, <2>7
  <2> QED BY <1>a, <2>2, <2>5, <2>7, <2>8, <2>9 DEF NotifiesNobody, Kept
<1>d. /\ \A q \in Queue, e \in Event : q \in Live /\ e = Other =>
            /\ RowOf(q, AddEvent(queues[q], e), processed)
            /\ AddEvent(queues[q], e).held = queues[q].held \cup {e}
            /\ AddEvent(queues[q], e).offline = queues[q].offline
            /\ AddEvent(queues[q], e).age = queues[q].age
  BY <1>a, <1>c, EventRow
<1>3. ASSUME NEW q \in Queue, OtherEvent(q) \/ ConnectionClosed(q) PROVE NotifiesNobody
  <2>1. PICK row : /\ queues' = [queues EXCEPT ![q] = row]
                   /\ row = AddEvent(queues[q], Other) \/ row = Closed(queues[q])
    BY <1>3 DEF OtherEvent, ConnectionClosed, Closed
  <2>2. q \in Live /\ UNCHANGED <<processed, early, told, seen, restarts>>
    BY <1>3 DEF OtherEvent, ConnectionClosed
  <2>3. RowOf(q, row, processed) /\ row.offline = queues[q].offline /\ row.age = queues[q].age
        /\ queues[q].held \subseteq row.held /\ row.held \subseteq queues[q].held \cup {Other}
    <3>1. CASE row = AddEvent(queues[q], Other)
      BY <1>c, <1>d, <2>2, <3>1
    <3>2. CASE row = Closed(queues[q])
      BY <1>a, <2>2, <3>2, ClosedRow
    <3> QED BY <2>1, <3>1, <3>2
  <2>4. Live' = Live /\ queues'[q] = row /\ \A r \in Live : r # q => queues'[r] = queues[r]
    BY <1>a, <2>1, <2>2 DEF Live
  <2>5. queues' \in [Live' -> Descriptor]
    BY <1>a, <1>b, <2>1, <2>2, <2>3, <2>4
  <2>6. \A r \in Live' :
           /\ RowOf(r, queues'[r], processed)
           /\ queues[r].held \subseteq queues'[r].held
           /\ queues'[r].held \subseteq queues[r].held \cup {Other}
           /\ queues'[r].offline = queues[r].offline /\ queues'[r].age = queues[r].age
    BY <1>a, <2>2, <2>3, <2>4
  <2> QED BY <1>a, <2>2, <2>4, <2>5, <2>6 DEF NotifiesNobody, Kept
<1>4. ASSUME Tick PROVE NotifiesNobody
  <2> DEFINE row(q) == IF queues[q].handler \/ queues[q].age = Oldest THEN queues[q]
                       ELSE Aged(queues[q])
  <2>1. queues' = [q \in Live |-> row(q)] /\ UNCHANGED <<processed, early, told, seen, restarts>>
    BY <1>4 DEF Tick, Aged
  <2>2. \A q \in Live : RowOf(q, row(q), processed) /\ row(q).held = queues[q].held
                        /\ row(q).offline = queues[q].offline
                        /\ \/ row(q).age = queues[q].age
                           \/ row(q).age = queues[q].age + 1 /\ (queues[q].age >= 1 => queues[q].offline)
    <3> TAKE q \in Live
    <3>1. CASE queues[q].handler \/ queues[q].age = Oldest
      BY <1>a, <3>1
    <3>2. CASE ~queues[q].handler /\ queues[q].age # Oldest
      <4>1. queues[q].age >= 1 => queues[q].offline
        BY <1>4, <3>2 DEF Tick, ShouldMarkOffline
      <4> QED BY <1>a, <3>2, <4>1, AgedRow
    <3> QED BY <3>1, <3>2
  <2> HIDE DEF row
  <2>3. Live' = Live /\ \A q \in Live : queues'[q] = row(q)
    BY <2>1 DEF Live
  <2>4. queues' \in [Live' -> Descriptor]
    BY <1>b, <2>1, <2>2, <2>3
  <2> QED BY <1>a, <2>1, <2>2, <2>3, <2>4 DEF NotifiesNobody, Kept
<1>5. ASSUME Restart PROVE NotifiesNobody
  <2> DEFINE closed(q) == Closed(queues[q])
             row(q) == AddEvent(closed(q), Other)
  <2>1. queues' = [q \in Live |-> row(q)] /\ UNCHANGED <<processed, early, told, seen>>
    BY <1>5 DEF Restart, Closed
  <2>2. restarts' \in 0..MaxRestarts
    BY <1>5, <1>a, Parameters DEF Restart
  <2>3. \A q \in Live : RowOf(q, closed(q), processed) /\ closed(q).held = queues[q].held
                        /\ closed(q).age = queues[q].age /\ closed(q).offline = queues[q].offline
    BY <1>a, ClosedRow
  <2> HIDE DEF closed
  <2>4. \A q \in Live : RowOf(q, row(q), processed) /\ row(q).held = queues[q].held \cup {Other}
                        /\ row(q).age = queues[q].age
                        /\ row(q).offline = queues[q].offline
    BY <1>c, <2>3, EventRow
  <2> HIDE DEF row
  <2>5. Live' = Live /\ \A q \in Live : queues'[q] = row(q)
    BY <2>1 DEF Live
  <2>6. queues' \in [Live' -> Descriptor]
    BY <1>b, <2>1, <2>4, <2>5
  <2> QED BY <1>a, <2>1, <2>2, <2>4, <2>5, <2>6 DEF NotifiesNobody, Kept
<1> QED BY <1>1, <1>2, <1>3, <1>4, <1>5

(* A message comes: it is notified of now, or it is held by every queue     *)
(* that takes messages, none of them offline or there is another.           *)
LEMMA MessageKeeps ==
  ASSUME Bounds, QueueInv, ProcessMessageEvent
  PROVE  QueueInv'
<1> DEFINE m == processed + 1
<1>a. /\ Live \subseteq Queue /\ queues \in [Live -> Descriptor]
      /\ \A q \in Live : RowOf(q, queues[q], processed)
      /\ processed \in 0..MaxMessages /\ processed < MaxMessages /\ MaxMessages \in Nat
  BY Parameters DEF QueueInv, Rows, Counts, ProcessMessageEvent
<1>b. m \in Message /\ m \in Event /\ 1..processed' = 1..processed \cup {m} /\ processed' = m
      /\ m \notin 1..processed /\ m # Other
  BY <1>a DEF Message, Event, ProcessMessageEvent, Other
<1>c. PICK idle \in BOOLEAN :
        /\ early' = IF idle THEN early \cup {m} ELSE early
        /\ told' = [told EXCEPT ![m] = IF idle THEN 1 ELSE 0]
        /\ receiver_is_off_zulip => idle
  BY DEF ProcessMessageEvent, receiver_is_off_zulip
<1>d. /\ queues' = [q \in Live |-> IF Accepts(q) THEN AddEvent(queues[q], m) ELSE queues[q]]
      /\ UNCHANGED <<seen, restarts>>
  BY DEF ProcessMessageEvent
<1>e. /\ told \in [Message -> Nat] /\ early \subseteq 1..processed /\ seen \subseteq 1..processed
      /\ restarts \in 0..MaxRestarts
  BY DEF QueueInv, Counts
<1>f. Live' = Live
  BY <1>d DEF Live
<1> HIDE DEF m
<1>1. \A q \in Live : RowOf(q, queues[q], m)
  BY <1>a, <1>b DEF RowOf
<1>2. \A q \in Live :
        /\ RowOf(q, queues'[q], m)
        /\ queues'[q].held = IF Accepts(q) THEN queues[q].held \cup {m} ELSE queues[q].held
        /\ queues'[q].offline = queues[q].offline
  <2> TAKE q \in Live
  <2>1. CASE Accepts(q)
    <3>1. RowOf(q, AddEvent(queues[q], m), m)
          /\ AddEvent(queues[q], m).held = queues[q].held \cup {m}
          /\ AddEvent(queues[q], m).offline = queues[q].offline
      <4>1. m \in 1..m \cup {Other} /\ ~(q \in Deaf)
        BY <1>a, <1>b, <2>1 DEF Accepts, Message
      <4> QED BY <1>1, <1>b, <4>1, EventRow
    <3> QED BY <1>d, <2>1, <3>1
  <2>2. CASE ~Accepts(q)
    BY <1>1, <1>d, <2>2
  <2> QED BY <2>1, <2>2
<1>3. Rows'
  <2>1. queues' \in [Live -> Descriptor]
    <3>1. \A q \in Live : queues'[q] \in Descriptor
      BY <1>2 DEF RowOf
    <3> QED BY <1>d, <3>1
  <2> QED BY <1>a, <1>b, <1>2, <1>f, <2>1 DEF Rows
<1>4. Counts'
  BY <1>a, <1>b, <1>c, <1>d, <1>e DEF Counts, Message
<1>5. ToldInTime' /\ NotifiedOnce'
  <2>1. \A n \in Message : told'[n] = IF n = m THEN (IF idle THEN 1 ELSE 0) ELSE told[n]
    BY <1>b, <1>c, <1>e
  <2>2. early \subseteq Message
    BY <1>e, <1>a, Parameters
  <2>3. \A n \in early' : told'[n] = 1
    BY <1>b, <1>c, <1>e, <2>1, <2>2 DEF QueueInv, ToldInTime
  <2>4. \A n \in Message : n > processed' => told'[n] = 0
    BY <1>a, <1>b, <2>1 DEF QueueInv, ToldInTime, Message
  <2>5. NotifiedOnce'
    BY <2>1 DEF QueueInv, NotifiedOnce
  <2> QED BY <2>3, <2>4, <2>5 DEF ToldInTime
<1>6. HeldByAll'
  <2> SUFFICES ASSUME NEW n \in (1..processed) \cup {m}, n \notin seen, NEW q \in Live, Accepts(q)
               PROVE  n \in queues'[q].held
    BY <1>b, <1>d, <1>f DEF HeldByAll, Accepts
  <2> QED BY <1>2 DEF QueueInv, HeldByAll
<1>7. ToldWhenOffline'
  <2> SUFFICES ASSUME NEW q \in Live, NEW n \in queues'[q].held \ {Other}, told'[n] > 0, n \notin early'
               PROVE  queues'[q].offline
    BY <1>f DEF ToldWhenOffline
  <2>1. n # m
    BY <1>b, <1>c, <1>e
  <2>2. n \in queues[q].held \ {Other} /\ n \in Message
    <3>1. n \in queues[q].held
      BY <1>2, <2>1
    <3>2. queues[q].held \subseteq Message \cup {Other}
      BY <1>1 DEF RowOf, Descriptor, Event
    <3> QED BY <3>1, <3>2
  <2>3. told[n] > 0 /\ n \notin early
    BY <1>b, <1>c, <1>e, <2>1, <2>2
  <2> QED BY <1>2, <2>2, <2>3 DEF QueueInv, ToldWhenOffline
<1> QED BY <1>3, <1>4, <1>5, <1>6, <1>7 DEF QueueInv

(* What a sweep or a client's removal tells of was not told of, and what    *)
(* of it is still held is in queues marked offline just now.                *)
LEMMA SweepKeeps ==
  ASSUME Bounds, QueueInv, GcEventQueues
  PROVE  QueueInv'
<1> DEFINE removed == {q \in Live : Expired(q)}
           marked == {q \in Live \ removed : ShouldMarkOffline(q)}
           missed == RemovedTell(removed) \cup MarkedTell(removed, marked)
<1>a. /\ Live \subseteq Queue /\ queues \in [Live -> Descriptor]
      /\ \A q \in Live : RowOf(q, queues[q], processed)
  BY DEF QueueInv, Rows
<1>b. /\ Tell(missed) /\ UNCHANGED <<processed, early, seen, restarts>>
      /\ queues' = [q \in Live \ removed |-> IF q \in marked THEN Marked(queues[q]) ELSE queues[q]]
  <2>1. \A q \in Live \ removed :
          [queues[q] EXCEPT !.offline = @ \/ q \in marked]
            = IF q \in marked THEN Marked(queues[q]) ELSE queues[q]
    <3> HIDE DEF removed, marked
    <3> QED BY <1>a, SweptRow DEF RowOf
  <2>2. /\ Tell(missed) /\ UNCHANGED <<processed, early, seen, restarts>>
        /\ queues' = [q \in Live \ removed |-> [queues[q] EXCEPT !.offline = @ \/ q \in marked]]
    BY DEF GcEventQueues
  <2> HIDE DEF removed, marked, missed
  <2> QED BY <2>1, <2>2
<1>c. Live' = Live \ removed /\ \A q \in Live' : queues'[q] = IF q \in marked THEN Marked(queues[q]) ELSE queues[q]
  BY <1>b DEF Live
<1>d. \A q \in marked : ~queues[q].handler /\ q \in Live
  BY DEF ShouldMarkOffline
<1>e. \A m \in missed :
        /\ told[m] = 0 /\ m \notin early /\ m \in 1..processed
        /\ \/ Live \ removed = {}
           \/ \A q \in Live \ (removed \cup marked) : ~Active(q)
  <2> SUFFICES ASSUME NEW m \in missed
               PROVE  /\ told[m] = 0 /\ m \notin early /\ m \in 1..processed
                      /\ \/ Live \ removed = {}
                         \/ \A q \in Live \ (removed \cup marked) : ~Active(q)
    OBVIOUS
  <2>1. ASSUME NEW q \in removed, m \in Missed(q, Live \ removed = {})
        PROVE  told[m] = 0 /\ m \notin early /\ m \in 1..processed /\ Live \ removed = {}
    BY <2>1, MissedIsNew
  <2> DEFINE last == \A q \in Live \ (removed \cup marked) : ~Active(q)
  <2>2. ASSUME NEW q \in marked, m \in Missed(q, last)
        PROVE  told[m] = 0 /\ m \notin early /\ m \in 1..processed /\ last
    <3> HIDE DEF last
    <3> QED BY <1>d, <2>2, MissedIsNew
  <2>3. \/ \E q \in removed : m \in Missed(q, Live \ removed = {})
        \/ \E q \in marked : m \in Missed(q, last)
    <3> HIDE DEF removed, marked
    <3> QED BY DEF RemovedTell, MarkedTell
  <2> QED BY <2>1, <2>2, <2>3
<1> HIDE DEF removed, marked, missed
<1>1. \A q \in Live' :
        /\ RowOf(q, queues'[q], processed)
        /\ queues'[q].held = queues[q].held
        /\ queues'[q].offline <=> queues[q].offline \/ q \in marked
  <2> TAKE q \in Live'
  <2>1. /\ q \in Live /\ RowOf(q, queues[q], processed)
        /\ queues'[q] = IF q \in marked THEN Marked(queues[q]) ELSE queues[q]
    BY <1>a, <1>c
  <2>2. CASE q \in marked
    <3>1. queues'[q] = Marked(queues[q]) /\ ~queues[q].handler
      BY <1>d, <2>1, <2>2
    <3> QED BY <2>1, <2>2, <3>1, MarkedRow
  <2>3. CASE q \notin marked
    BY <2>1, <2>3
  <2> QED BY <2>2, <2>3
<1>2. queues' \in [Live' -> Descriptor]
  BY <1>b, <1>c, <1>1 DEF RowOf
<1>3. ASSUME NEW q \in Live', queues'[q].held \cap missed # {}
      PROVE  queues'[q].offline
  <2>1. PICK m \in missed : m \in queues[q].held
    BY <1>1, <1>3
  <2>2. q \in Live /\ q \notin removed
    BY <1>c
  <2>3. m # Other /\ m \in Message
    BY <1>e, <2>1, Parameters DEF QueueInv, Counts
  <2>4. q \notin Deaf
    BY <1>a, <2>1, <2>2, <2>3 DEF RowOf
  <2>5. q \in marked \/ queues[q].offline
    BY <1>e, <2>2, <2>4 DEF Active, Accepts
  <2> QED BY <1>1, <2>5
<1> QED BY <1>b, <1>c, <1>e, <1>1, <1>2, <1>3, QueuesSwept

(* So does the removal a client asks for.                                   *)
LEMMA CleanupKeeps ==
  ASSUME Bounds, QueueInv, NEW q \in Queue, CleanupEventQueue(q)
  PROVE  QueueInv'
<1>a. /\ Live \subseteq Queue /\ queues \in [Live -> Descriptor]
      /\ \A r \in Live : RowOf(r, queues[r], processed)
  BY DEF QueueInv, Rows
<1>b. /\ Tell(RemovedTell({q})) /\ UNCHANGED <<processed, early, seen, restarts>>
      /\ queues' = [r \in Live \ {q} |-> queues[r]] /\ q \in Live
  BY DEF CleanupEventQueue, Without
<1>c. Live' = Live \ {q} /\ \A r \in Live' : queues'[r] = queues[r]
  BY <1>b DEF Live
<1>d. \A m \in RemovedTell({q}) : told[m] = 0 /\ m \notin early /\ m \in 1..processed /\ Live' = {}
  <2> SUFFICES ASSUME NEW m \in Missed(q, Live \ {q} = {})
               PROVE  told[m] = 0 /\ m \notin early /\ m \in 1..processed /\ Live' = {}
    BY DEF RemovedTell
  <2> QED BY <1>b, <1>c, MissedIsNew
<1>1. queues' \in [Live' -> Descriptor]
  BY <1>a, <1>b, <1>c
<1> QED BY <1>a, <1>b, <1>c, <1>d, <1>1, QueuesSwept

(* Every step keeps the invariant.                                          *)
LEMMA QueueStep ==
  ASSUME Bounds
  PROVE  QueueInv /\ [Next]_vars => QueueInv'
<1> SUFFICES ASSUME QueueInv, [Next]_vars PROVE QueueInv'
  OBVIOUS
<1>1. CASE UNCHANGED vars
  BY <1>1 DEF vars, QueueInv, Rows, Counts, ToldInTime, HeldByAll, ToldWhenOffline, NotifiedOnce, Live
<1>2. CASE Next
  BY <1>2, ClientRows, QueuesKept, MessageKeeps, SweepKeeps, CleanupKeeps DEF Next
<1> QED BY <1>1, <1>2

(* QueueInv holds throughout.                                               *)
LEMMA QueueCorrect == ASSUME Bounds PROVE Spec => []QueueInv
<1>1. Init => QueueInv
  BY QueueInit
<1>2. QueueInv /\ [Next]_vars => QueueInv'
  BY QueueStep
<1> QED BY <1>1, <1>2, PTL DEF Spec

(* The types of what Tornado keeps of a user's queues.                      *)
THEOREM QueueTypes == ASSUME Bounds PROVE Spec => []TypeOK
BY QueueCorrect, InvTypes, PTL

(* missedmessage_hook: no message is notified of on two occasions, however  *)
(* many queues held it, were marked offline, removed or restored.           *)
THEOREM AtMostOnce == ASSUME Bounds PROVE Spec => []NotifiedOnce
<1>1. QueueInv => NotifiedOnce
  BY DEF QueueInv
<1> QED BY <1>1, QueueCorrect, PTL

-----------------------------------------------------------------------------
(* At least once, for the users of one kind of client *)

MissedInv == QueueInv /\ MissedIsNotified /\ Sweeping

(* Who is off afterwards was off before.                                    *)
LEMMA ClientNotified ==
  ASSUME Bounds, MissedInv, NotifiesNobody
  PROVE  MissedIsNotified' /\ Sweeping'
<1>1. MissedIsNotified'
  <2>1. ASSUME NEW q \in Live' \ Live PROVE MissedIsNotified'
    BY <2>1 DEF MissedIsNotified, NotifiesNobody
  <2>2. ASSUME Live' = Live PROVE MissedIsNotified'
    <3>1. \A q \in Live : queues'[q].offline => queues[q].offline
      BY <2>2 DEF NotifiesNobody, Kept
    <3>2. receiver_is_off_zulip' => receiver_is_off_zulip
      BY <2>2, <3>1 DEF receiver_is_off_zulip, Active, Accepts
    <3> QED BY <3>2 DEF MissedIsNotified, NotifiesNobody, MissedInv
  <2> QED BY <2>1, <2>2 DEF NotifiesNobody
<1>2. Sweeping'
  BY DEF Sweeping, MissedInv, NotifiesNobody, Kept, QueueInv, Rows, RowOf, Descriptor, Oldest
<1> QED BY <1>1, <1>2

(* A message comes when somebody is there, or is notified of at once.       *)
LEMMA MessageNotified ==
  ASSUME Bounds, MissedInv, ProcessMessageEvent
  PROVE  MissedIsNotified' /\ Sweeping'
<1>a. QueueInv /\ Live' = Live
  BY DEF MissedInv, ProcessMessageEvent, Live
<1>1. \A q \in Live : queues'[q].offline = queues[q].offline /\ queues'[q].age = queues[q].age
  <2> TAKE q \in Live
  <2>1. queues[q] \in Descriptor
    BY <1>a DEF QueueInv, Rows
  <2>2. /\ AddEvent(queues[q], processed + 1).offline = queues[q].offline
        /\ AddEvent(queues[q], processed + 1).age = queues[q].age
    BY <2>1 DEF AddEvent, Descriptor
  <2>3. queues'[q] = IF Accepts(q) THEN AddEvent(queues[q], processed + 1) ELSE queues[q]
    BY DEF ProcessMessageEvent
  <2> QED BY <2>2, <2>3
<1>2. Sweeping'
  BY <1>a, <1>1 DEF MissedInv, Sweeping
<1>3. receiver_is_off_zulip' = receiver_is_off_zulip
  BY <1>a, <1>1 DEF receiver_is_off_zulip, Active, Accepts
<1>4. ASSUME receiver_is_off_zulip, NEW m \in 1..processed'
      PROVE  told'[m] > 0 \/ m \in seen'
  BY <1>a, <1>4, Parameters DEF MissedInv, MissedIsNotified, ProcessMessageEvent, QueueInv, Counts, Message
<1> QED BY <1>2, <1>3, <1>4 DEF MissedIsNotified

(* Who is told of stays so, and who is told of now is told.                 *)
LEMMA ToldAfter ==
  ASSUME Bounds, QueueInv, NEW missed, Tell(missed), NEW m \in 1..processed
  PROVE  /\ told[m] > 0 => told'[m] > 0
         /\ m \in missed => told'[m] > 0
         /\ m \in early => told'[m] > 0
<1>1. m \in Message /\ told[m] \in Nat
  BY Parameters DEF QueueInv, Counts
<1>2. told'[m] = IF m \in missed THEN told[m] + 1 ELSE told[m]
  BY <1>1 DEF Tell
<1> QED BY <1>1, <1>2 DEF QueueInv, ToldInTime

(* Browsers are never marked offline, so the user is off only when their    *)
(* last queue is removed; mobile queues are marked before they are removed. *)
(* Either way what the last queues held is told of, and every one of them   *)
(* held what nobody picked up.                                              *)
LEMMA SweepNotified ==
  ASSUME Bounds, OneKind, MissedInv, GcEventQueues
  PROVE  MissedIsNotified' /\ Sweeping'
<1> DEFINE removed == {q \in Live : Expired(q)}
           marked == {q \in Live \ removed : ShouldMarkOffline(q)}
           missed == RemovedTell(removed) \cup MarkedTell(removed, marked)
<1>a. QueueInv /\ Live \subseteq Queue /\ \A q \in Live : queues[q] \in Descriptor
  BY DEF MissedInv, QueueInv, Rows
<1>b. /\ Tell(missed) /\ UNCHANGED <<processed, early, seen, restarts>>
      /\ queues' = [q \in Live \ removed |-> IF q \in marked THEN Marked(queues[q]) ELSE queues[q]]
  <2>1. \A q \in Live \ removed :
          [queues[q] EXCEPT !.offline = @ \/ q \in marked]
            = IF q \in marked THEN Marked(queues[q]) ELSE queues[q]
    <3> HIDE DEF removed, marked
    <3> QED BY <1>a, SweptRow DEF RowOf
  <2>2. /\ Tell(missed) /\ UNCHANGED <<processed, early, seen, restarts>>
        /\ queues' = [q \in Live \ removed |-> [queues[q] EXCEPT !.offline = @ \/ q \in marked]]
    BY DEF GcEventQueues
  <2> HIDE DEF removed, marked, missed
  <2> QED BY <2>1, <2>2
<1>c. /\ Live' = Live \ removed
      /\ \A q \in Live' : /\ queues'[q].offline <=> queues[q].offline \/ q \in marked
                          /\ queues'[q].age = queues[q].age
  <2>1. Live' = Live \ removed /\ \A q \in Live' : queues'[q] = IF q \in marked THEN Marked(queues[q]) ELSE queues[q]
    BY <1>b DEF Live
  <2> HIDE DEF removed, marked
  <2> QED BY <1>a, <2>1 DEF Marked, Descriptor
<1>d. \A q \in removed : q \in Live /\ ~queues[q].handler /\ queues[q].age >= Timeout(q)
  BY DEF Expired
<1>e. \A q \in marked : q \in Live \ removed /\ ~queues[q].offline /\ queues[q].age >= 1
  BY DEF ShouldMarkOffline
<1>f. \A q \in Live \ removed : ~queues[q].handler /\ ~queues[q].offline /\ queues[q].age >= 1
        => q \in marked
  BY DEF ShouldMarkOffline
<1>g. \A q \in Live \ removed : queues[q].handler \/ queues[q].age < Timeout(q)
  BY <1>a DEF Expired, Timeout, Descriptor, Oldest
<1>i. \A q \in marked : ~queues[q].handler
  BY DEF ShouldMarkOffline
<1>j. removed \cup marked # {}
  BY DEF GcEventQueues
<1> HIDE DEF removed, marked, missed
<1>1. ASSUME Mobile = {}, Deaf = {} PROVE MissedIsNotified' /\ Sweeping'
  <2>1. marked = {}
    <3>1. \A q \in marked : queues[q].age < 1
      BY <1>e, <1>g, <1>i, <1>1 DEF Timeout
    <3> QED BY <1>a, <1>e, <3>1 DEF Descriptor, Oldest
  <2>2. \A q \in Live : ~queues[q].offline /\ Accepts(q)
    BY <1>1 DEF MissedInv, Sweeping, Accepts
  <2>3. Sweeping'
    BY <1>1, <1>a, <1>c, <2>1, <2>2 DEF Sweeping
  <2>4. ASSUME receiver_is_off_zulip', NEW m \in 1..processed, m \notin seen
        PROVE  told'[m] > 0
    <3>1. Live \ removed = {}
      BY <1>c, <2>1, <2>2, <2>4 DEF receiver_is_off_zulip, Active, Accepts
    <3>2. PICK q \in removed : TRUE
      BY <1>j, <2>1
    <3>3. m \in queues[q].held \ {Other} /\ ~queues[q].offline
      BY <1>a, <1>d, <2>2, <2>4, <3>2 DEF QueueInv, HeldByAll, Other, Counts
    <3>4. CASE m \in early
      BY <1>a, <1>b, <2>4, <3>4, ToldAfter
    <3>5. CASE m \notin early
      <4>1. m \in Missed(q, Live \ removed = {})
        BY <3>1, <3>3, <3>5 DEF Missed
      <4>2. m \in missed
        BY <3>2, <4>1 DEF missed, RemovedTell
      <4> QED BY <1>a, <1>b, <2>4, <4>2, ToldAfter
    <3> QED BY <3>4, <3>5
  <2> QED BY <1>b, <2>3, <2>4 DEF MissedIsNotified
<1>2. ASSUME Mobile = Queue PROVE MissedIsNotified' /\ Sweeping'
  <2>1. \A q \in removed : queues[q].offline
    BY <1>a, <1>d, <1>2 DEF Timeout, Descriptor, Oldest, MissedInv, Sweeping
  <2>2. Sweeping'
    BY <1>2, <1>a, <1>c DEF MissedInv, Sweeping
  <2>3. ASSUME receiver_is_off_zulip', NEW m \in 1..processed, m \notin seen
        PROVE  told'[m] > 0
    <3>1. CASE receiver_is_off_zulip
      BY <1>a, <1>b, <2>3, <3>1, ToldAfter DEF MissedInv, MissedIsNotified
    <3>2. ASSUME NEW q \in Live, Active(q) PROVE told'[m] > 0
      <4>1. q \in Live' /\ q \in marked
        BY <1>c, <2>1, <2>3, <3>2 DEF receiver_is_off_zulip, Active, Accepts
      <4>2. \A r \in Live \ (removed \cup marked) : ~Active(r)
        BY <1>c, <2>3 DEF receiver_is_off_zulip, Active, Accepts
      <4>3. m \in queues[q].held \ {Other} /\ ~queues[q].offline
        BY <1>a, <2>3, <3>2 DEF QueueInv, HeldByAll, Other, Counts, Active
      <4>4. CASE m \in early
        BY <1>a, <1>b, <2>3, <4>4, ToldAfter
      <4>5. CASE m \notin early
        <5>1. m \in Missed(q, \A r \in Live \ (removed \cup marked) : ~Active(r))
          BY <4>2, <4>3, <4>5 DEF Missed
        <5>2. m \in missed
          BY <4>1, <5>1 DEF missed, MarkedTell
        <5> QED BY <1>a, <1>b, <2>3, <5>2, ToldAfter
      <4> QED BY <4>4, <4>5
    <3> QED BY <3>1, <3>2 DEF receiver_is_off_zulip
  <2> QED BY <1>b, <2>2, <2>3 DEF MissedIsNotified
<1> QED BY <1>1, <1>2 DEF OneKind

(* A browser that leaves last has the user told of what it held; a mobile   *)
(* client that may leave took no messages.                                  *)
LEMMA CleanupNotified ==
  ASSUME Bounds, OneKind, MissedInv, NEW q \in Queue, CleanupEventQueue(q)
  PROVE  MissedIsNotified' /\ Sweeping'
<1>a. /\ Tell(RemovedTell({q})) /\ UNCHANGED <<processed, early, seen, restarts>>
      /\ q \in Live /\ q \in Leaving
      /\ Live' = Live \ {q} /\ \A r \in Live' : queues'[r] = queues[r]
  BY DEF CleanupEventQueue, Without, Live
<1>b. QueueInv
  BY DEF MissedInv
<1>1. Sweeping'
  BY <1>a DEF MissedInv, Sweeping
<1>2. ASSUME receiver_is_off_zulip', NEW m \in 1..processed, m \notin seen
      PROVE  told'[m] > 0
  <2>1. CASE receiver_is_off_zulip
    BY <1>a, <1>b, <1>2, <2>1, ToldAfter DEF MissedInv, MissedIsNotified
  <2>2. CASE ~receiver_is_off_zulip
    <3>1. Active(q)
      BY <1>a, <1>2, <2>2 DEF receiver_is_off_zulip, Active, Accepts
    <3>2. Mobile = {} /\ Deaf = {}
      BY <1>a, <3>1 DEF OneKind, Active, Accepts
    <3>3. Live \ {q} = {}
      BY <1>a, <1>2, <3>2 DEF MissedInv, Sweeping, receiver_is_off_zulip, Active, Accepts
    <3>4. m \in queues[q].held \ {Other} /\ ~queues[q].offline
      BY <1>a, <1>b, <1>2, <3>1 DEF QueueInv, HeldByAll, Other, Counts, Active
    <3>5. CASE m \in early
      BY <1>a, <1>b, <1>2, <3>5, ToldAfter
    <3>6. CASE m \notin early
      <4>1. m \in RemovedTell({q})
        BY <3>3, <3>4, <3>6 DEF Missed, RemovedTell
      <4> QED BY <1>a, <1>b, <1>2, <4>1, ToldAfter
    <3> QED BY <3>5, <3>6
  <2> QED BY <2>1, <2>2
<1> QED BY <1>a, <1>1, <1>2 DEF MissedIsNotified

LEMMA MissedInit ==
  ASSUME Bounds, Init
  PROVE  MissedInv
<1>1. QueueInv /\ Live = {} /\ processed = 0
  BY QueueInit DEF Init, Live
<1> QED BY <1>1 DEF MissedInv, MissedIsNotified, Sweeping

(* Every step keeps the invariant.                                          *)
LEMMA MissedStep ==
  ASSUME Bounds, OneKind, MissedInv, [Next]_vars
  PROVE  MissedInv'
<1>1. QueueInv'
  BY QueueStep DEF MissedInv
<1>2. MissedIsNotified' /\ Sweeping'
  <2>1. CASE UNCHANGED vars
    BY <2>1 DEF vars, MissedInv, MissedIsNotified, Sweeping, Live, receiver_is_off_zulip, Active, Accepts
  <2>2. CASE Next
    BY <2>2, ClientRows, ClientNotified, MessageNotified, SweepNotified, CleanupNotified
    DEF Next, MissedInv
  <2> QED BY <2>1, <2>2
<1> QED BY <1>1, <1>2 DEF MissedInv

LEMMA MissedExactly ==
  ASSUME MissedInv
  PROVE  NotifiedExactlyOnce
BY DEF MissedInv, QueueInv, NotifiedExactlyOnce

(* missedmessage_hook: a message that nobody picked up is notified of, and  *)
(* on one occasion, when the user's clients are of one kind.                *)
THEOREM ExactlyOnce == ASSUME Bounds, OneKind PROVE Spec => []NotifiedExactlyOnce
<1>1. Init => MissedInv
  BY MissedInit
<1>2. MissedInv /\ [Next]_vars => MissedInv'
  BY MissedStep
<1>3. MissedInv => NotifiedExactlyOnce
  BY MissedExactly
<1> QED BY <1>1, <1>2, <1>3, PTL DEF Spec
=============================================================================
