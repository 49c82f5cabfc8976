--------------------------- MODULE EventQueuesProofs ---------------------------
(***************************************************************************)
(* Proofs about the event queues: for every number of connections, events, *)
(* heartbeats and faults, of any types, a client that registered gets every*)
(* event, once and in its turn, and is never left with a poll that nobody  *)
(* answers -- as long as Tornado does nothing after it wrote its queues out*)
(* (MaxLate = 0); the README tells what becomes of it otherwise.           *)
(*                                                                         *)
(* The invariant has four parts: each descriptor is sound by itself; the   *)
(* queue that the client polls begins where the client is, and what the    *)
(* client does not have yet is in it; the answer that is on its way to the *)
(* client carries the next events of that queue; and a request waits on at *)
(* most one queue, which is empty.                                         *)
(***************************************************************************)
EXTENDS EventQueues, WellFoundedInduction, TLAPS

Event == [id : Nat, type : Own, of : SUBSET Nat]
Descriptor == [next : Nat, pruned : Int, queue : SUBSET Event, virtual : SUBSET Event,
               handler : Conn \cup {None}]
Asking == [state : {"sent", "held"}, queue : Nat, last : Int, block : BOOLEAN, known : BOOLEAN]
Answer == [error : {None, "bad_queue", "pruned", "not_in_queue"}, events : SUBSET Event]
Told == [state : {"answering"}, answer : Answer, known : {TRUE}]
Request == {Idle} \cup Asking \cup Told
Browser == [stage : {"new", "allocated", "fetched", "polling"}, queue : Nat, last : Int,
            snapshot : Nat, applied : Seq(SUBSET Event), xhr : Conn \cup {None},
            retrying : BOOLEAN]
Budget == [faults : Nat, beats : Nat, late : Nat]

(* A descriptor by itself, after the first n events, which have these types. *)
Sound(d, n, types) ==
  /\ d \in Descriptor
  /\ -1 <= d.pruned /\ d.pruned < d.next
  /\ d.queue \cap d.virtual = {}
  /\ \A e \in Contents(d) : d.pruned < e.id /\ e.id < d.next /\ e.of \subseteq 1..n
  /\ InTurn(types, Contents(d))
  /\ \A v \in d.virtual : v.type \in Compressed /\ \A i \in v.of : types[i] \in Compressed

(* What d still merges is new to who has its events up to the id last.      *)
Ahead(d, last) == last < d.next /\ \A v \in d.virtual : last < v.id

(* What the client b is still to get from its queue d.                      *)
Pending(d, b) == {e \in Contents(d) : e.id > b.last}
AppliedBy(b) == UNION {b.applied[a] : a \in 1..Len(b.applied)}

(* The queue d goes on where the client b is.                               *)
Continues(d, b, n, types) ==
  /\ d.pruned <= b.last /\ Ahead(d, b.last)
  /\ b.last = d.pruned \/ \E e \in d.queue : e.id = b.last
  /\ \A e \in AppliedBy(b), f \in Pending(d, b) : Before(types, e, f)
  /\ b.stage \in {"fetched", "polling"} =>
       1..n \subseteq 1..b.snapshot \cup Carried(AppliedBy(b)) \cup Carried(Pending(d, b))

(* The events of an answer are the next ones of the queue d for b.          *)
NextOf(events, d, b) ==
  \A e \in events : /\ e \in d.queue /\ b.last < e.id
                    /\ \A f \in Pending(d, b) : f \in events \/ e.id < f.id

(* What b applied, it applied once and in order.                            *)
OnceInOrder(b, types) ==
  \A a \in 1..Len(b.applied) :
    /\ InTurn(types, b.applied[a])
    /\ \A c \in 1..Len(b.applied) : a < c =>
         \A e \in b.applied[a], f \in b.applied[c] : Before(types, e, f)

(* Events that may be applied after what b applied.                         *)
MayFollow(events, b, n, types) ==
  /\ InTurn(types, events)
  /\ \A f \in events : b.last < f.id /\ f.of \subseteq 1..n
  /\ \E k \in Nat : \A f \in events : f.id < k
  /\ \A e \in AppliedBy(b), f \in events : Before(types, e, f)

Types ==
  /\ db \in Seq(EventTypes) /\ Len(db) <= MaxEvents /\ fed \in 0..Len(db)
  /\ up \in {"up", "stopping", "down"} /\ allocated \in Nat /\ budget \in Budget

QueuesInv ==
  /\ clients = [q \in DOMAIN clients |-> clients[q]] /\ saved = [q \in DOMAIN saved |-> saved[q]]
  /\ DOMAIN clients \subseteq 1..allocated /\ DOMAIN saved \subseteq 1..allocated
  /\ \A q \in DOMAIN clients : Sound(clients[q], fed, db)
  /\ \A q \in DOMAIN saved : Sound(saved[q], fed, db) /\ saved[q].handler = None
  /\ up = "up" => DOMAIN saved = {}
  /\ up = "down" => DOMAIN clients = {}

ConnInv ==
  /\ conn \in [Conn -> Request]
  /\ \A h \in Conn : conn[h].state \in {"sent", "held"} =>
       /\ conn[h].queue \in 1..allocated
       /\ conn[h].queue = browser.queue => conn[h].last <= browser.last
       /\ conn[h].queue \in DOMAIN clients => Ahead(clients[conn[h].queue], conn[h].last)
  /\ \A h \in Conn : conn[h].state = "held" =>
       conn[h].queue \in DOMAIN clients /\ clients[conn[h].queue].handler = h
  /\ \A q \in DOMAIN clients : clients[q].handler # None =>
       /\ conn[clients[q].handler].state = "held" /\ conn[clients[q].handler].queue = q
       /\ Contents(clients[q]) = {}
  /\ up = "down" => \A h \in Conn : conn[h] = Idle

BrowserInv ==
  /\ browser \in Browser
  /\ -1 <= browser.last
  /\ browser.stage = "new" => browser.queue = 0
  /\ browser.stage # "new" => browser.queue \in 1..allocated
  /\ browser.stage # "polling" => browser.xhr = None /\ browser.applied = <<>> /\ browser.last = -1
  /\ \A e \in AppliedBy(browser) : e.of \subseteq 1..fed
  /\ OnceInOrder(browser, db)

(* The request that the client waits for.                                   *)
XhrInv ==
  browser.xhr # None =>
    LET c == conn[browser.xhr] IN
    /\ c # Idle /\ c.known = TRUE
    /\ up # "down"
    /\ c.state \in {"sent", "held"} => c.queue = browser.queue /\ c.last = browser.last
    /\ c.state = "answering" =>
         /\ c.answer.error \in {None, "bad_queue"}
         /\ MayFollow(c.answer.events, browser, fed, db)
         /\ browser.queue \in DOMAIN Kept =>
              NextOf(c.answer.events, Kept[browser.queue], browser)

ContinuesInv ==
  browser.queue \in DOMAIN Kept => Continues(Kept[browser.queue], browser, fed, db)

EventsInv == Types /\ QueuesInv /\ ConnInv /\ BrowserInv /\ XhrInv /\ ContinuesInv

----------------------------------------------------------------------------
(* The smallest of a set of numbers, and the largest of a bounded one.      *)
LEMMA SmallestNumber ==
  ASSUME NEW S \in SUBSET Nat, S # {}
  PROVE  \E p \in S : \A q \in S : p <= q
<1>1. PICK p \in S : \A q \in S : ~ (<<q, p>> \in OpToRel(<, Nat))
  BY NatLessThanWellFounded, WFMin
<1>2. \A q \in S : ~ (q < p)
  BY <1>1 DEF OpToRel
<1> QED
  BY <1>2

LEMMA MaxIsLargest ==
  ASSUME NEW S \in SUBSET Nat, S # {}, NEW n \in Nat, \A x \in S : x < n
  PROVE  Max(S) \in S /\ \A x \in S : x <= Max(S)
<1> DEFINE T == {t \in 0..n : \E x \in S : t = n - x}
<1>1. \A x \in S : n - x \in T
  OBVIOUS
<1>2. T \in SUBSET Nat /\ T # {}
  <2>1. T \in SUBSET Nat
    OBVIOUS
  <2> HIDE DEF T
  <2> QED BY <2>1, <1>1
<1>3. PICK t \in T : \A y \in T : t <= y
  <2> HIDE DEF T
  <2> QED BY <1>2, SmallestNumber
<1>4. PICK m \in S : t = n - m
  BY <1>3
<1>5. \A x \in S : m >= x
  <2> TAKE x \in S
  <2>1. t <= n - x
    <3> HIDE DEF T
    <3> QED BY <1>3, <1>1
  <2> QED BY <2>1, <1>4
<1>6. \E y \in S : \A x \in S : y >= x
  BY <1>5
<1>7. Max(S) \in S /\ \A x \in S : Max(S) >= x
  BY <1>6 DEF Max
<1> QED BY <1>7

LEMMA NewestIsLast ==
  ASSUME NEW events \in SUBSET Event, events # {},
         NEW n \in Nat, \A e \in events : e.id < n
  PROVE  /\ \E e \in events : e.id = NewestId(events)
         /\ \A e \in events : e.id <= NewestId(events)
<1> DEFINE S == {e.id : e \in events}
<1>1. S \in SUBSET Nat /\ S # {} /\ \A x \in S : x < n
  BY DEF Event
<1>2. Max(S) \in S /\ \A x \in S : x <= Max(S)
  <2> HIDE DEF S
  <2> QED BY <1>1, MaxIsLargest
<1> QED BY <1>2 DEF NewestId

LEMMA FreshIsSound ==
  ASSUME NEW n \in Nat, NEW types
  PROVE  Sound(Fresh, n, types) /\ Fresh.handler = None /\ Contents(Fresh) = {}
BY DEF Sound, Fresh, Contents, InTurn, Descriptor

(* contents() makes ordinary events of the virtual ones and changes nothing else. *)
LEMMA ResolvedIs ==
  ASSUME NEW d \in Descriptor, NEW h \in Conn \cup {None}
  PROVE  LET r == [Resolved(d) EXCEPT !.handler = h] IN
         /\ r \in Descriptor /\ r.next = d.next /\ r.pruned = d.pruned /\ r.handler = h
         /\ r.queue = Contents(d) /\ r.virtual = {} /\ Contents(r) = Contents(d)
         /\ Resolved(d) \in Descriptor /\ Resolved(d).next = d.next /\ Resolved(d).pruned = d.pruned
         /\ Resolved(d).queue = Contents(d) /\ Resolved(d).virtual = {}
         /\ Resolved(d).handler = d.handler /\ Contents(Resolved(d)) = Contents(d)
BY DEF Resolved, Contents, Descriptor

(* What a descriptor with the events of a sound one is.                     *)
LEMMA SameIsSound ==
  ASSUME NEW d, NEW n, NEW types, Sound(d, n, types), NEW r \in Descriptor,
         r.next = d.next, r.pruned = d.pruned, Contents(r) = Contents(d),
         d.queue \subseteq r.queue, r.virtual \subseteq d.virtual, r.queue \cap r.virtual = {}
  PROVE  /\ Sound(r, n, types)
         /\ \A b : Continues(d, b, n, types) => Continues(r, b, n, types)
         /\ \A events, b : NextOf(events, d, b) => NextOf(events, r, b)
         /\ \A last : Ahead(d, last) => Ahead(r, last)
<1>1. Sound(r, n, types)
  BY DEF Sound
<1>2. ASSUME NEW b, Continues(d, b, n, types) PROVE Continues(r, b, n, types)
  <2>1. Pending(r, b) = Pending(d, b)
    BY DEF Pending
  <2> QED BY <1>2, <2>1 DEF Continues, Ahead
<1>3. ASSUME NEW events, NEW b, NextOf(events, d, b) PROVE NextOf(events, r, b)
  BY <1>3 DEF NextOf, Pending
<1>4. \A last : Ahead(d, last) => Ahead(r, last)
  BY DEF Ahead
<1> QED BY <1>1, <1>2, <1>3, <1>4

LEMMA ResolvedIsSound ==
  ASSUME NEW d, NEW n, NEW types, Sound(d, n, types), NEW h \in Conn \cup {None}
  PROVE  LET r == [Resolved(d) EXCEPT !.handler = h] IN
         /\ Sound(r, n, types) /\ Sound(Resolved(d), n, types)
         /\ \A b : Continues(d, b, n, types) =>
              Continues(r, b, n, types) /\ Continues(Resolved(d), b, n, types)
         /\ \A events, b : NextOf(events, d, b) => NextOf(events, r, b) /\ NextOf(events, Resolved(d), b)
         /\ \A last : Ahead(d, last) => Ahead(r, last) /\ Ahead(Resolved(d), last)
<1> DEFINE r == [Resolved(d) EXCEPT !.handler = h]
<1>1. d \in Descriptor /\ d.queue \subseteq Contents(d)
  BY DEF Sound, Contents
<1>2. /\ r \in Descriptor /\ r.next = d.next /\ r.pruned = d.pruned
      /\ r.queue = Contents(d) /\ r.virtual = {} /\ Contents(r) = Contents(d)
      /\ Resolved(d) \in Descriptor /\ Resolved(d).next = d.next /\ Resolved(d).pruned = d.pruned
      /\ Resolved(d).queue = Contents(d) /\ Resolved(d).virtual = {}
      /\ Contents(Resolved(d)) = Contents(d)
  BY <1>1, ResolvedIs
<1> HIDE DEF r
<1>3. /\ Sound(r, n, types)
      /\ \A b : Continues(d, b, n, types) => Continues(r, b, n, types)
      /\ \A events, b : NextOf(events, d, b) => NextOf(events, r, b)
      /\ \A last : Ahead(d, last) => Ahead(r, last)
  BY <1>1, <1>2, SameIsSound
<1>4. /\ Sound(Resolved(d), n, types)
      /\ \A b : Continues(d, b, n, types) => Continues(Resolved(d), b, n, types)
      /\ \A events, b : NextOf(events, d, b) => NextOf(events, Resolved(d), b)
      /\ \A last : Ahead(d, last) => Ahead(Resolved(d), last)
  BY <1>1, <1>2, SameIsSound
<1> QED BY <1>3, <1>4 DEF r

(* A descriptor that only gets another handler.                             *)
LEMMA RehandledIsSound ==
  ASSUME NEW d, NEW n, NEW types, Sound(d, n, types), NEW h \in Conn \cup {None}
  PROVE  LET r == [d EXCEPT !.handler = h] IN
         /\ Sound(r, n, types) /\ r.handler = h /\ Contents(r) = Contents(d)
         /\ \A b : Continues(d, b, n, types) => Continues(r, b, n, types)
         /\ \A events, b : NextOf(events, d, b) => NextOf(events, r, b)
         /\ \A last : Ahead(d, last) => Ahead(r, last)
<1> DEFINE r == [d EXCEPT !.handler = h]
<1>1. d \in Descriptor /\ d.queue \cap d.virtual = {}
  BY DEF Sound
<1>2. /\ r \in Descriptor /\ r.next = d.next /\ r.pruned = d.pruned /\ r.handler = h
      /\ r.queue = d.queue /\ r.virtual = d.virtual /\ Contents(r) = Contents(d)
  BY <1>1 DEF Descriptor, Contents
<1> HIDE DEF r
<1> QED BY <1>1, <1>2, SameIsSound DEF r

----------------------------------------------------------------------------
(* An event that joins: it comes after all of those that are there.         *)
\* What Push does, as the proofs below use it: E joins, and takes what was merged with it.
Joins(r, d, E, merged, of) ==
  /\ E \in Event /\ E.id = d.next
  /\ merged \subseteq d.virtual
  /\ E.of = Carried(merged) \cup of
  /\ r \in Descriptor /\ r.next = d.next + 1 /\ r.pruned = d.pruned /\ r.handler = d.handler
  /\ \/ r.queue = d.queue /\ r.virtual = (d.virtual \ merged) \cup {E}
     \/ r.queue = d.queue \cup {E} /\ r.virtual = d.virtual /\ merged = {}

LEMMA PushJoins ==
  ASSUME NEW d \in Descriptor, \A v \in d.virtual : v.type \in Compressed,
         NEW type \in Own, NEW of \in SUBSET Nat
  PROVE  \E E, merged : /\ Joins(Push(d, type, of), d, E, merged, of)
                        /\ E \in Push(d, type, of).virtual => type \in Compressed /\ E.type = type
<1> DEFINE merged == {v \in d.virtual : v.type = type}
           event == [id |-> d.next, type |-> type, of |-> Carried(merged) \cup of]
           r == Push(d, type, of)
<1>1. Carried(merged) \in SUBSET Nat
  BY DEF Carried, Descriptor, Event
<1>2. merged \subseteq d.virtual /\ (type \notin Compressed => merged = {})
  OBVIOUS
<1>3. r = IF type \in Compressed
          THEN [d EXCEPT !.next = @ + 1, !.virtual = (@ \ merged) \cup {event}]
          ELSE [d EXCEPT !.next = @ + 1, !.queue = @ \cup {event}]
  BY DEF Push
<1> HIDE DEF merged, r
<1>4. event \in Event /\ event.id = d.next /\ event.of = Carried(merged) \cup of /\ event.type = type
  BY <1>1 DEF Event, Descriptor
<1> HIDE DEF event
<1>5. r \in Descriptor /\ r.next = d.next + 1 /\ r.pruned = d.pruned /\ r.handler = d.handler
      /\ r.queue = (IF type \in Compressed THEN d.queue ELSE d.queue \cup {event})
      /\ r.virtual = (IF type \in Compressed THEN (d.virtual \ merged) \cup {event} ELSE d.virtual)
  <2>1. CASE type \in Compressed
    <3>1. r = [d EXCEPT !.next = d.next + 1, !.virtual = (d.virtual \ merged) \cup {event}]
      BY <1>3, <2>1
    <3>2. (d.virtual \ merged) \cup {event} \in SUBSET Event /\ d.next + 1 \in Nat
      BY <1>4 DEF Descriptor
    <3> QED BY <3>1, <3>2, <2>1 DEF Descriptor
  <2>2. CASE type \notin Compressed
    <3>1. r = [d EXCEPT !.next = d.next + 1, !.queue = d.queue \cup {event}]
      BY <1>3, <2>2
    <3>2. d.queue \cup {event} \in SUBSET Event /\ d.next + 1 \in Nat
      BY <1>4 DEF Descriptor
    <3> QED BY <3>1, <3>2, <2>2 DEF Descriptor
  <2> QED BY <2>1, <2>2
<1>6. Joins(r, d, event, merged, of)
  BY <1>2, <1>4, <1>5 DEF Joins
<1>7. CASE type \in Compressed
  BY <1>4, <1>6, <1>7 DEF r
<1>8. CASE type \notin Compressed /\ event \notin d.virtual
  BY <1>5, <1>6, <1>8 DEF r
<1>9. CASE type \notin Compressed /\ event \in d.virtual
  BY <1>4, <1>9
<1> QED BY <1>7, <1>8, <1>9

(* One more event, or one of Tornado's own when m = n, keeps all of this.   *)
LEMMA PushIsSound ==
  ASSUME NEW n \in Nat, NEW m \in Nat, n <= m, NEW types, NEW d, Sound(d, n, types),
         NEW type \in Own,
         type \in Compressed => \A i \in (n + 1)..m : types[i] \in Compressed
  PROVE  LET r == Push(d, type, (n + 1)..m) IN
         /\ Sound(r, m, types) /\ r.handler = d.handler
         /\ \A b : /\ \A e \in AppliedBy(b) : e.of \subseteq 1..n
                   /\ Continues(d, b, n, types)
                   => Continues(r, b, m, types)
         /\ \A events, b : NextOf(events, d, b) => NextOf(events, r, b)
         /\ \A b : b.last < d.next /\ Contents(d) = {} => \A e \in Contents(r) : b.last < e.id
         /\ \A last : last \in Int /\ Ahead(d, last) => Ahead(r, last)
<1> DEFINE of == (n + 1)..m
           r == Push(d, type, of)
<1>1. of \in SUBSET Nat /\ 1..m = 1..n \cup of
  OBVIOUS
<1>2. PICK E, merged : Joins(r, d, E, merged, of) /\ (E \in r.virtual => type \in Compressed /\ E.type = type)
  <2> HIDE DEF of
  <2> QED BY <1>1, PushJoins DEF Sound
<1>3. \A i \in of, k \in 1..n : k < i
  OBVIOUS
<1> HIDE DEF of, r
<1>4. /\ E \in Event /\ E.id = d.next /\ merged \subseteq d.virtual /\ E.of = Carried(merged) \cup of
      /\ r \in Descriptor /\ r.next = d.next + 1 /\ r.pruned = d.pruned /\ r.handler = d.handler
      /\ d.queue \subseteq r.queue
      /\ Contents(r) = (Contents(d) \ merged) \cup {E}
      /\ d.next \in Nat /\ d.pruned \in Int
      /\ \A e \in Contents(d) : e \in Event /\ e.id \in Nat /\ e.id < d.next /\ d.pruned < e.id /\ e.of \subseteq 1..n
  <2>1. Contents(r) = (Contents(d) \ merged) \cup {E}
    BY <1>2 DEF Joins, Contents, Sound
  <2>2. /\ d.next \in Nat /\ d.pruned \in Int
        /\ \A e \in Contents(d) : e \in Event /\ e.id \in Nat /\ e.id < d.next /\ d.pruned < e.id /\ e.of \subseteq 1..n
    BY DEF Sound, Descriptor, Contents, Event
  <2> QED BY <1>2, <2>1, <2>2 DEF Joins
<1>5. E \notin Contents(d)
  BY <1>4
<1>6. r.queue \cap r.virtual = {}
  BY <1>2, <1>5 DEF Joins, Sound, Contents
<1>7. E.of \subseteq 1..m
  BY <1>1, <1>4 DEF Carried, Contents
<1>8. \A v \in r.virtual : v.type \in Compressed /\ \A i \in v.of : types[i] \in Compressed
  <2>1. ASSUME NEW v \in r.virtual PROVE v.type \in Compressed /\ \A i \in v.of : types[i] \in Compressed
    <3>1. CASE v = E
      <4>1. \A i \in Carried(merged) : types[i] \in Compressed
        BY <1>4 DEF Carried, Sound
      <4> QED BY <1>2, <1>4, <2>1, <3>1, <4>1 DEF of
    <3>2. CASE v # E
      BY <1>2, <2>1, <3>2 DEF Joins, Sound
    <3> QED BY <3>1, <3>2
  <2> QED BY <2>1
\* E may come after what all of the merged events may come after.
<1>9. ASSUME NEW e, e.of \subseteq 1..n, \A v \in merged : Before(types, e, v) \/ Before(types, v, e)
      PROVE  Before(types, e, E)
  <2>1. ASSUME NEW i \in e.of, NEW j \in E.of PROVE i < j \/ (j < i /\ types[j] \in Compressed)
    <3>1. CASE j \in of
      BY <1>3, <1>9, <2>1, <3>1
    <3>2. CASE j \in Carried(merged)
      <4>1. PICK v \in merged : j \in v.of
        BY <3>2 DEF Carried
      <4>2. v.of \subseteq 1..n /\ types[j] \in Compressed
        BY <1>4, <4>1 DEF Sound, Contents
      <4>3. i \in 1..n /\ j \in 1..n
        BY <4>1, <4>2, <1>9, <2>1
      <4>4. i # j
        BY <1>9, <2>1, <4>1, <4>3 DEF Before
      <4> QED BY <4>2, <4>3, <4>4
    <3> QED BY <1>4, <2>1, <3>1, <3>2
  <2> QED BY <2>1 DEF Before
<1>10. ASSUME NEW e \in Contents(d) \ merged PROVE e.id < E.id /\ Before(types, e, E)
  <2>1. \A v \in merged : Before(types, e, v) \/ Before(types, v, e)
    BY <1>4, <1>10 DEF Sound, InTurn, Contents
  <2> QED BY <1>4, <1>9, <1>10, <2>1
<1>11. InTurn(types, Contents(r))
  BY <1>4, <1>10 DEF InTurn, Sound
<1>12. Sound(r, m, types)
  <2>1. \A e \in Contents(r) : r.pruned < e.id /\ e.id < r.next /\ e.of \subseteq 1..m
    BY <1>1, <1>4, <1>7 DEF Sound
  <2>2. -1 <= r.pruned /\ r.pruned < r.next
    BY <1>4 DEF Sound
  <2> QED BY <1>4, <1>6, <1>8, <1>11, <2>1, <2>2 DEF Sound
<1>13. ASSUME NEW b, \A e \in AppliedBy(b) : e.of \subseteq 1..n, Continues(d, b, n, types)
       PROVE  Continues(r, b, m, types)
  <2>1. b.last \in Int /\ b.last < d.next /\ r.pruned <= b.last /\ b.last < r.next
    BY <1>4, <1>13 DEF Continues, Ahead, Contents
  <2>2. Pending(r, b) = (Pending(d, b) \ merged) \cup {E} /\ merged \subseteq Pending(d, b)
    BY <1>4, <1>13, <2>1 DEF Pending, Continues, Ahead, Contents
  <2>3. b.last = r.pruned \/ \E e \in r.queue : e.id = b.last
    BY <1>4, <1>13 DEF Continues
  <2>4. \A v \in r.virtual : b.last < v.id
    BY <1>2, <1>4, <1>13, <2>1 DEF Continues, Ahead, Joins
  <2>5. \A e \in AppliedBy(b), f \in Pending(r, b) : Before(types, e, f)
    <3>1. ASSUME NEW e \in AppliedBy(b) PROVE Before(types, e, E)
      BY <1>9, <1>13, <2>2, <3>1 DEF Continues
    <3> QED BY <1>13, <2>2, <3>1 DEF Continues
  <2>6. Carried(Pending(d, b)) \cup of \subseteq Carried(Pending(r, b))
    BY <1>4, <2>2 DEF Carried
  <2>7. b.stage \in {"fetched", "polling"} =>
          1..m \subseteq 1..b.snapshot \cup Carried(AppliedBy(b)) \cup Carried(Pending(r, b))
    BY <1>1, <1>13, <2>6 DEF Continues, of
  <2> QED BY <2>1, <2>3, <2>4, <2>5, <2>7 DEF Continues, Ahead
<1>14. ASSUME NEW events, NEW b, NextOf(events, d, b) PROVE NextOf(events, r, b)
  BY <1>4, <1>14 DEF NextOf, Pending, Contents
<1>15. ASSUME NEW b, b.last < d.next, Contents(d) = {} PROVE \A e \in Contents(r) : b.last < e.id
  BY <1>4, <1>15
<1>16. \A last : last \in Int /\ Ahead(d, last) => Ahead(r, last)
  BY <1>2, <1>4 DEF Ahead, Joins
<1> QED BY <1>4, <1>12, <1>13, <1>14, <1>15, <1>16 DEF r, of

----------------------------------------------------------------------------
(* What is acknowledged goes; the queue then begins where the client is.    *)
LEMMA PruneIs ==
  ASSUME NEW n, NEW types, NEW d, Sound(d, n, types), NEW through \in Int
  PROVE  LET r == Prune(d, through) IN
         /\ r \in Descriptor /\ r.next = d.next /\ r.handler = d.handler /\ r.virtual = d.virtual
         /\ r.queue = {e \in d.queue : through < e.id}
         /\ \/ r.pruned = d.pruned /\ r.queue = d.queue
            \/ /\ r.pruned <= through /\ d.pruned < r.pruned /\ r.pruned < d.next
               /\ \E e \in d.queue : e.id = r.pruned
               /\ \A e \in d.queue : e.id <= through => e.id <= r.pruned
<1> DEFINE gone == {e \in d.queue : e.id <= through}
           r == Prune(d, through)
<1>1. d \in Descriptor /\ \A e \in d.queue : e \in Event /\ e.id \in Nat /\ d.pruned < e.id /\ e.id < d.next
  BY DEF Sound, Descriptor, Event, Contents
<1>2. r = IF gone = {} THEN d ELSE [d EXCEPT !.pruned = NewestId(gone), !.queue = @ \ gone]
  BY DEF Prune
<1> HIDE DEF r
<1>3. CASE gone = {}
  <2>1. {e \in d.queue : through < e.id} = d.queue
    BY <1>1, <1>3
  <2> QED BY <1>1, <1>2, <1>3, <2>1 DEF Descriptor, r
<1>4. CASE gone # {}
  <2>1. /\ gone \in SUBSET Event /\ d.next \in Nat /\ \A e \in gone : e.id < d.next
        /\ \A e \in gone : e \in d.queue /\ e.id <= through
        /\ \A e \in d.queue : e.id <= through => e \in gone
    BY <1>1 DEF Descriptor
  <2>2. d.queue \ gone = {e \in d.queue : through < e.id} /\ d.queue \ gone \in SUBSET Event
    BY <1>1 DEF Descriptor
  <2> HIDE DEF gone
  <2>3. (\E e \in gone : e.id = NewestId(gone)) /\ \A e \in gone : e.id <= NewestId(gone)
    BY <1>4, <2>1, NewestIsLast
  <2>4. NewestId(gone) \in Int /\ NewestId(gone) <= through /\ d.pruned < NewestId(gone) /\ NewestId(gone) < d.next
    BY <1>1, <2>1, <2>3
  <2>5. r = [d EXCEPT !.pruned = NewestId(gone), !.queue = d.queue \ gone]
    BY <1>2, <1>4
  <2>6. r \in Descriptor /\ r.next = d.next /\ r.handler = d.handler /\ r.virtual = d.virtual
        /\ r.queue = d.queue \ gone /\ r.pruned = NewestId(gone)
    BY <1>1, <2>2, <2>4, <2>5 DEF Descriptor
  <2> QED BY <2>1, <2>2, <2>3, <2>4, <2>6 DEF r
<1> QED BY <1>3, <1>4

LEMMA PruneIsSound ==
  ASSUME NEW n, NEW types, NEW d, Sound(d, n, types), NEW through \in Int, Ahead(d, through)
  PROVE  LET r == Prune(d, through) IN
         /\ Sound(r, n, types) /\ r.handler = d.handler /\ r.next = d.next
         /\ Contents(r) \subseteq Contents(d)
         /\ \A b : b.last \in Int /\ through <= b.last /\ Continues(d, b, n, types) => Continues(r, b, n, types)
         /\ \A events, b : b.last \in Int /\ through <= b.last /\ NextOf(events, d, b) => NextOf(events, r, b)
         /\ \A b : through = b.last /\ Continues(d, b, n, types) =>
              r.pruned = b.last /\ \A e \in Contents(r) : b.last < e.id
         /\ \A last : Ahead(d, last) => Ahead(r, last)
<1> DEFINE r == Prune(d, through)
<1>1. /\ r \in Descriptor /\ r.next = d.next /\ r.handler = d.handler /\ r.virtual = d.virtual
      /\ r.queue = {e \in d.queue : through < e.id}
      /\ \/ r.pruned = d.pruned /\ r.queue = d.queue
         \/ /\ r.pruned <= through /\ d.pruned < r.pruned /\ r.pruned < d.next
            /\ \E e \in d.queue : e.id = r.pruned
            /\ \A e \in d.queue : e.id <= through => e.id <= r.pruned
  BY PruneIs
<1> HIDE DEF r
<1>2. /\ d \in Descriptor /\ d.pruned \in Int /\ r.pruned \in Int /\ -1 <= d.pruned /\ d.pruned < d.next /\ d.next \in Nat
      /\ \A e \in d.queue \cup d.virtual :
           e \in Event /\ e.id \in Nat /\ d.pruned < e.id /\ e.id < d.next /\ e.of \subseteq 1..n
  BY <1>1 DEF Sound, Descriptor, Event, Contents
<1>3. Contents(r) \subseteq Contents(d)
  BY <1>1 DEF Contents
<1>4. Sound(r, n, types)
  <2>1. \A e \in Contents(r) : r.pruned < e.id /\ e.id < r.next /\ e.of \subseteq 1..n
    BY <1>1, <1>2 DEF Contents, Ahead
  <2>2. -1 <= r.pruned /\ r.pruned < r.next /\ r.queue \cap r.virtual = {}
    BY <1>1, <1>2 DEF Sound
  <2>3. InTurn(types, Contents(r))
    BY <1>3 DEF Sound, InTurn
  <2> QED BY <1>1, <2>1, <2>2, <2>3 DEF Sound
<1>5. ASSUME NEW b, b.last \in Int, through <= b.last PROVE Pending(r, b) = Pending(d, b)
  BY <1>1, <1>2, <1>5 DEF Pending, Contents
<1>6. ASSUME NEW b, b.last \in Int, through <= b.last, Continues(d, b, n, types)
      PROVE  Continues(r, b, n, types)
  <2>1. r.pruned <= b.last
    BY <1>1, <1>2, <1>6 DEF Continues
  <2>2. b.last = r.pruned \/ \E e \in r.queue : e.id = b.last
    <3>1. CASE b.last = d.pruned
      BY <1>1, <1>2, <1>6, <3>1
    <3>2. CASE \E e \in d.queue : e.id = b.last
      BY <1>1, <1>2, <1>6, <3>2
    <3> QED BY <1>6, <3>1, <3>2 DEF Continues
  <2>3. Ahead(r, b.last)
    BY <1>1, <1>6 DEF Continues, Ahead
  <2> QED BY <1>5, <1>6, <2>1, <2>2, <2>3 DEF Continues
<1>7. ASSUME NEW events, NEW b, b.last \in Int, through <= b.last, NextOf(events, d, b)
      PROVE  NextOf(events, r, b)
  BY <1>1, <1>2, <1>5, <1>7 DEF NextOf
<1>8. ASSUME NEW b, through = b.last, Continues(d, b, n, types)
      PROVE  r.pruned = b.last /\ \A e \in Contents(r) : b.last < e.id
  <2>1. \A e \in Contents(r) : b.last < e.id
    BY <1>1, <1>2, <1>8 DEF Contents, Ahead
  <2>2. Continues(r, b, n, types)
    BY <1>6, <1>8
  <2> QED BY <1>1, <1>2, <2>1, <2>2 DEF Continues, Contents
<1>9. \A last : Ahead(d, last) => Ahead(r, last)
  BY <1>1 DEF Ahead
<1> QED BY <1>1, <1>3, <1>4, <1>6, <1>7, <1>8, <1>9 DEF r

(* All that a queue holds, when the client has none of it, may go to the client. *)
LEMMA AllIsNext ==
  ASSUME NEW n, NEW types, NEW d, Sound(d, n, types), NEW b, Continues(d, b, n, types),
         \A e \in Contents(d) : b.last < e.id
  PROVE  /\ MayFollow(Contents(d), b, n, types)
         /\ \A h \in Conn \cup {None} : NextOf(Contents(d), [Resolved(d) EXCEPT !.handler = h], b)
         /\ NextOf(Contents(d), Resolved(d), b)
<1>1. Pending(d, b) = Contents(d) /\ d \in Descriptor
  BY DEF Pending, Sound
<1>2. MayFollow(Contents(d), b, n, types)
  BY <1>1 DEF MayFollow, Continues, Sound, Descriptor
<1>3. ASSUME NEW h \in Conn \cup {None}
      PROVE  NextOf(Contents(d), [Resolved(d) EXCEPT !.handler = h], b)
  <2> DEFINE r == [Resolved(d) EXCEPT !.handler = h]
  <2>1. r.queue = Contents(d) /\ Contents(r) = Contents(d)
    BY <1>1, ResolvedIs
  <2> HIDE DEF r
  <2>2. NextOf(Contents(d), r, b)
    BY <2>1 DEF NextOf, Pending
  <2> QED BY <2>2 DEF r
<1>4. NextOf(Contents(d), Resolved(d), b)
  <2> DEFINE r == Resolved(d)
  <2>1. r.queue = Contents(d) /\ Contents(r) = Contents(d)
    BY <1>1, ResolvedIs
  <2> HIDE DEF r
  <2>2. NextOf(Contents(d), r, b)
    BY <2>1 DEF NextOf, Pending
  <2> QED BY <2>2 DEF r
<1> QED BY <1>2, <1>3, <1>4

----------------------------------------------------------------------------
(* The client.                                                              *)
LEMMA SameContinues ==
  ASSUME NEW b, NEW c, c.last = b.last, c.applied = b.applied, c.snapshot = b.snapshot,
         c.stage \in {"fetched", "polling"} => b.stage \in {"fetched", "polling"}
  PROVE  /\ AppliedBy(c) = AppliedBy(b)
         /\ \A d, n, types : Continues(d, b, n, types) => Continues(d, c, n, types)
         /\ \A d, events : NextOf(events, d, b) => NextOf(events, d, c)
         /\ \A events, n, types : MayFollow(events, b, n, types) => MayFollow(events, c, n, types)
         /\ \A types : OnceInOrder(b, types) => OnceInOrder(c, types)
<1>1. AppliedBy(c) = AppliedBy(b) /\ \A d : Pending(d, c) = Pending(d, b)
  BY DEF AppliedBy, Pending
<1> QED BY <1>1 DEF Continues, NextOf, MayFollow, OnceInOrder

LEMMA ApplyIs ==
  ASSUME NEW b \in Browser, NEW events \in SUBSET Event,
         NEW k \in Nat, \A e \in events : e.id < k
  PROVE  LET r == Apply(b, events) IN
         /\ r \in Browser /\ r.stage = b.stage /\ r.queue = b.queue /\ r.snapshot = b.snapshot
         /\ r.xhr = b.xhr /\ r.retrying = b.retrying
         /\ \/ r.applied = b.applied /\ r.last = b.last /\ events = {}
            \/ /\ r.applied = Append(b.applied, events)
               /\ \E e \in events : e.id = r.last
               /\ \A e \in events : e.id <= r.last
<1> DEFINE r == Apply(b, events)
<1>1. CASE events = {}
  BY <1>1 DEF Apply
<1>2. CASE events # {}
  <2>1. (\E e \in events : e.id = NewestId(events)) /\ \A e \in events : e.id <= NewestId(events)
    BY <1>2, NewestIsLast
  <2>2. NewestId(events) \in Int
    BY <2>1 DEF Event
  <2>3. b.applied \in Seq(SUBSET Event)
    BY DEF Browser
  <2>4. Append(b.applied, events) \in Seq(SUBSET Event)
    BY <2>3
  <2>5. r = [b EXCEPT !.applied = Append(b.applied, events), !.last = NewestId(events)]
    BY <1>2 DEF Apply
  <2> HIDE DEF r
  <2>6. /\ r \in Browser /\ r.stage = b.stage /\ r.queue = b.queue /\ r.snapshot = b.snapshot
        /\ r.xhr = b.xhr /\ r.retrying = b.retrying
        /\ r.applied = Append(b.applied, events) /\ r.last = NewestId(events)
    BY <2>2, <2>4, <2>5 DEF Browser
  <2> QED BY <2>1, <2>6 DEF r
<1> QED BY <1>1, <1>2

LEMMA ApplyInOrder ==
  ASSUME NEW b \in Browser, NEW events \in SUBSET Event, NEW n, NEW types,
         OnceInOrder(b, types), MayFollow(events, b, n, types)
  PROVE  LET r == Apply(b, events) IN
         /\ OnceInOrder(r, types)
         /\ AppliedBy(r) = AppliedBy(b) \cup events
<1> DEFINE r == Apply(b, events)
<1>1. \/ r.applied = b.applied /\ events = {}
      \/ r.applied = Append(b.applied, events)
  BY ApplyIs DEF MayFollow
<1> HIDE DEF r
<1>2. CASE r.applied = b.applied /\ events = {}
  BY <1>2 DEF OnceInOrder, AppliedBy, r
<1>3. CASE r.applied = Append(b.applied, events)
  <2> DEFINE l == Len(b.applied)
  <2>1. /\ l \in Nat /\ Len(r.applied) = l + 1 /\ r.applied[l + 1] = events
        /\ \A a \in 1..l : r.applied[a] = b.applied[a]
    BY <1>3 DEF Browser
  <2> HIDE DEF l
  <2>2. 1..(l + 1) = 1..l \cup {l + 1}
    BY <2>1
  <2>3. AppliedBy(b) = UNION {b.applied[a] : a \in 1..l}
    BY DEF AppliedBy, l
  <2>4. AppliedBy(r) = AppliedBy(b) \cup events
    <3>1. AppliedBy(r) = UNION {r.applied[a] : a \in 1..(l + 1)}
      BY <2>1 DEF AppliedBy
    <3>2. ASSUME NEW e, e \in AppliedBy(r) PROVE e \in AppliedBy(b) \cup events
      <4>1. PICK a \in 1..(l + 1) : e \in r.applied[a]
        BY <3>1, <3>2
      <4> QED BY <2>1, <2>2, <2>3, <4>1
    <3>3. ASSUME NEW e, e \in AppliedBy(b) \cup events PROVE e \in AppliedBy(r)
      <4>1. CASE e \in events
        BY <2>1, <2>2, <3>1, <4>1
      <4>2. CASE e \in AppliedBy(b)
        <5>1. PICK a \in 1..l : e \in b.applied[a]
          BY <2>3, <4>2
        <5> QED BY <2>1, <2>2, <3>1, <5>1
      <4> QED BY <3>3, <4>1, <4>2
    <3> QED BY <3>2, <3>3
  <2>5. ASSUME NEW a \in 1..(l + 1) PROVE InTurn(types, r.applied[a])
    BY <2>1, <2>2, <2>5 DEF OnceInOrder, MayFollow, l
  <2>6. ASSUME NEW a \in 1..(l + 1), NEW c \in 1..(l + 1), a < c,
               NEW e \in r.applied[a], NEW f \in r.applied[c]
        PROVE  Before(types, e, f)
    <3>1. a \in 1..l /\ r.applied[a] = b.applied[a]
      BY <2>1, <2>6
    <3>2. CASE c \in 1..l
      BY <2>1, <2>6, <3>1, <3>2 DEF OnceInOrder, l
    <3>3. CASE c = l + 1
      <4>1. e \in AppliedBy(b)
        BY <2>3, <2>6, <3>1
      <4>2. f \in events
        BY <2>1, <2>6, <3>3
      <4> QED BY <4>1, <4>2 DEF MayFollow
    <3> QED BY <2>2, <2>6, <3>2, <3>3
  <2>7. OnceInOrder(r, types)
    BY <2>1, <2>5, <2>6 DEF OnceInOrder
  <2> QED BY <2>4, <2>7 DEF r
<1> QED BY <1>1, <1>2, <1>3

LEMMA ApplyContinues ==
  ASSUME NEW b \in Browser, NEW events \in SUBSET Event, NEW n, NEW types, NEW d,
         Sound(d, n, types), Continues(d, b, n, types), NextOf(events, d, b),
         OnceInOrder(b, types), MayFollow(events, b, n, types)
  PROVE  Continues(d, Apply(b, events), n, types) /\ b.last <= Apply(b, events).last
<1> DEFINE r == Apply(b, events)
<1>1. /\ r.stage = b.stage /\ r.snapshot = b.snapshot
      /\ \/ r.applied = b.applied /\ r.last = b.last /\ events = {}
         \/ /\ r.applied = Append(b.applied, events)
            /\ \E e \in events : e.id = r.last
            /\ \A e \in events : e.id <= r.last
  BY ApplyIs DEF MayFollow
<1>2. AppliedBy(r) = AppliedBy(b) \cup events
  BY ApplyInOrder
<1> HIDE DEF r
<1>3. CASE r.applied = b.applied /\ r.last = b.last /\ events = {}
  <2>1. Continues(d, r, n, types)
    BY <1>1, <1>3, SameContinues
  <2> QED BY <1>3, <2>1 DEF r, Browser
<1>4. CASE (\E e \in events : e.id = r.last) /\ \A e \in events : e.id <= r.last
  <2>1. /\ \A e \in Contents(d) : e \in Event /\ e.id \in Nat /\ e.id < d.next
        /\ d.next \in Nat /\ d.pruned \in Int /\ b.last \in Int
    BY DEF Sound, Descriptor, Contents, Event, Browser
  <2>2. r.last \in Int /\ b.last < r.last /\ \E e \in d.queue : e.id = r.last
    BY <1>4, <2>1 DEF NextOf, Contents
  <2>3. d.pruned <= r.last /\ r.last < d.next
    BY <2>1, <2>2 DEF Continues, Contents
  <2>4. \A f \in Pending(d, b) : f \in events \/ f \in Pending(d, r)
    BY <1>4, <2>1 DEF NextOf, Pending, Contents
  <2>5. \A f \in Pending(d, r) : f \in Pending(d, b) /\ f \notin events
    BY <1>4, <2>1, <2>2 DEF Pending
  <2>6. \A v \in d.virtual : r.last < v.id
    <3>1. ASSUME NEW v \in d.virtual PROVE v \in Pending(d, b) /\ v \notin events
      BY <2>1, <3>1 DEF Pending, Continues, Ahead, Contents, NextOf, Sound
    <3> QED BY <2>4, <3>1 DEF Pending
  <2>7. \A e \in AppliedBy(r), f \in Pending(d, r) : Before(types, e, f)
    <3>1. ASSUME NEW e \in AppliedBy(b), NEW f \in Pending(d, r) PROVE Before(types, e, f)
      BY <2>5, <3>1 DEF Continues
    <3>2. ASSUME NEW e \in events, NEW f \in Pending(d, r) PROVE Before(types, e, f)
      <4>1. e \in Contents(d) /\ f \in Contents(d) /\ e.id < f.id
        BY <1>4, <2>1, <2>2, <3>2 DEF NextOf, Pending, Contents
      <4> QED BY <2>1, <4>1 DEF Sound, InTurn
    <3> QED BY <1>2, <3>1, <3>2
  <2>8. Carried(AppliedBy(b)) \cup Carried(Pending(d, b)) \subseteq Carried(AppliedBy(r)) \cup Carried(Pending(d, r))
    BY <1>2, <2>4 DEF Carried
  <2>9. r.stage \in {"fetched", "polling"} =>
          1..n \subseteq 1..r.snapshot \cup Carried(AppliedBy(r)) \cup Carried(Pending(d, r))
    BY <1>1, <2>8 DEF Continues
  <2>10. Ahead(d, r.last)
    BY <2>3, <2>6 DEF Ahead
  <2>11. Continues(d, r, n, types)
    BY <2>2, <2>3, <2>7, <2>9, <2>10 DEF Continues
  <2>12. b.last <= r.last
    BY <2>1, <2>2
  <2> QED BY <2>11, <2>12 DEF r
<1> QED BY <1>1, <1>3, <1>4

(* One more event in the database changes nothing of what is known of the others. *)
LEMMA MoreTypes ==
  ASSUME NEW n \in Nat, NEW types, NEW more, \A j \in 1..n : more[j] = types[j]
  PROVE  /\ \A d : Sound(d, n, types) => Sound(d, n, more)
         /\ \A b, events : /\ \A e \in AppliedBy(b) : e.of \subseteq 1..n
                           /\ MayFollow(events, b, n, types)
                           => MayFollow(events, b, n, more)
         /\ \A d, b : /\ \A e \in AppliedBy(b) : e.of \subseteq 1..n
                      /\ Sound(d, n, types) /\ Continues(d, b, n, types)
                      => Continues(d, b, n, more)
         /\ \A b : /\ \A e \in AppliedBy(b) : e.of \subseteq 1..n
                   /\ OnceInOrder(b, types)
                   => OnceInOrder(b, more)
<1>1. ASSUME NEW e, NEW f, e.of \subseteq 1..n, f.of \subseteq 1..n, Before(types, e, f)
      PROVE  Before(more, e, f)
  BY <1>1 DEF Before
<1>2. ASSUME NEW events, \A e \in events : e.of \subseteq 1..n, InTurn(types, events)
      PROVE  InTurn(more, events)
  BY <1>1, <1>2 DEF InTurn
<1>3. ASSUME NEW d, Sound(d, n, types) PROVE Sound(d, n, more)
  <2>1. InTurn(more, Contents(d))
    BY <1>2, <1>3 DEF Sound
  <2>2. \A v \in d.virtual : \A i \in v.of : i \in 1..n
    BY <1>3 DEF Sound, Contents
  <2> QED BY <1>3, <2>1, <2>2 DEF Sound
<1>4. ASSUME NEW b, NEW events, \A e \in AppliedBy(b) : e.of \subseteq 1..n,
             MayFollow(events, b, n, types)
      PROVE  MayFollow(events, b, n, more)
  BY <1>1, <1>2, <1>4 DEF MayFollow
<1>5. ASSUME NEW d, NEW b, \A e \in AppliedBy(b) : e.of \subseteq 1..n,
             Sound(d, n, types), Continues(d, b, n, types)
      PROVE  Continues(d, b, n, more)
  <2>1. \A f \in Pending(d, b) : f.of \subseteq 1..n
    BY <1>5 DEF Pending, Sound
  <2> QED BY <1>1, <1>5, <2>1 DEF Continues
<1>6. ASSUME NEW b, \A e \in AppliedBy(b) : e.of \subseteq 1..n, OnceInOrder(b, types)
      PROVE  OnceInOrder(b, more)
  <2>1. \A a \in 1..Len(b.applied) : \A e \in b.applied[a] : e.of \subseteq 1..n
    BY <1>6 DEF AppliedBy
  <2> QED BY <1>1, <1>2, <1>6, <2>1 DEF OnceInOrder
<1> QED BY <1>3, <1>4, <1>5, <1>6

----------------------------------------------------------------------------
(* The requests.                                                            *)
LEMMA RequestKinds ==
  ASSUME NEW c \in Request
  PROVE  /\ c.state \in {"idle", "sent", "held", "answering"}
         /\ c.state \in {"sent", "held"} => c \in Asking
         /\ c.state = "answering" => c \in Told
         /\ c.state = "idle" => c = Idle
<1>1. CASE c = Idle
  BY <1>1 DEF Idle
<1>2. CASE c \in Asking
  BY <1>2 DEF Asking
<1>3. CASE c \in Told
  BY <1>3 DEF Told
<1> QED BY <1>1, <1>2, <1>3 DEF Request

LEMMA AnsweredIs ==
  ASSUME NEW c, NEW answer \in Answer
  PROVE  /\ Answered(c, answer) \in Request
         /\ Answered(c, answer).state \in {"idle", "answering"}
         /\ c.known = TRUE => /\ Answered(c, answer).state = "answering" /\ Answered(c, answer).answer = answer
                       /\ Answered(c, answer).known = TRUE /\ Answered(c, answer) # Idle
BY DEF Answered, Answering, Request, Told, Idle

LEMMA EventsAnswer ==
  ASSUME NEW events \in SUBSET Event
  PROVE  Events(events) \in Answer /\ Events(events).error = None /\ Events(events).events = events
BY DEF Events, Answer

LEMMA ErrorAnswer ==
  ASSUME NEW code \in {"bad_queue", "pruned", "not_in_queue"}
  PROVE  Error(code) \in Answer /\ Error(code).error = code /\ Error(code).events = {}
BY DEF Error, Answer

LEMMA InitEvents ==
  ASSUME Bounds, Init
  PROVE  EventsInv
<1> USE DEF Init
<1>1. Types
  BY DEF Types, Bounds, Budget
<1>2. QueuesInv
  BY DEF QueuesInv, NoQueues
<1>3. ConnInv
  BY DEF ConnInv, Request, NoQueues, Idle, NewBrowser
<1>4. BrowserInv
  BY DEF BrowserInv, Browser, NewBrowser, AppliedBy, OnceInOrder
<1>5. XhrInv
  BY DEF XhrInv, NewBrowser
<1>6. ContinuesInv
  BY DEF ContinuesInv, Kept, NoQueues
<1> QED BY <1>1, <1>2, <1>3, <1>4, <1>5, <1>6 DEF EventsInv

LEMMA PublishKeeps ==
  ASSUME Bounds, EventsInv, NEW type \in EventTypes, Publish(type)
  PROVE  EventsInv'
<1> USE DEF EventsInv
<1>1. /\ Len(db) < MaxEvents /\ db' = Append(db, type)
      /\ fed' = fed /\ up' = up /\ clients' = clients /\ saved' = saved /\ allocated' = allocated
      /\ conn' = conn /\ browser' = browser /\ budget' = budget
  BY DEF Publish
<1>2. /\ Len(db) \in Nat /\ fed \in Nat /\ \A j \in 1..fed : db'[j] = db[j]
      /\ db' \in Seq(EventTypes) /\ Len(db') <= MaxEvents /\ fed \in 0..Len(db')
  BY <1>1 DEF Types, Bounds
<1>3. \A e \in AppliedBy(browser) : e.of \subseteq 1..fed
  BY DEF BrowserInv
<1>4. Types'
  BY <1>1, <1>2 DEF Types
<1>5. QueuesInv'
  BY <1>1, <1>2, MoreTypes DEF QueuesInv
<1>6. ConnInv'
  BY <1>1 DEF ConnInv
<1>7. BrowserInv'
  BY <1>1, <1>2, <1>3, MoreTypes DEF BrowserInv
<1>8. Kept' = Kept
  BY <1>1 DEF Kept
<1>9. XhrInv'
  <2>1. \A events : MayFollow(events, browser, fed, db) => MayFollow(events, browser, fed, db')
    BY <1>2, <1>3, MoreTypes
  <2> QED BY <1>1, <1>8, <2>1 DEF XhrInv
<1>10. ContinuesInv'
  <2>1. \A q \in DOMAIN Kept : Sound(Kept[q], fed, db)
    BY DEF QueuesInv, Kept
  <2> QED BY <1>1, <1>2, <1>3, <1>8, <2>1, MoreTypes DEF ContinuesInv
<1> QED BY <1>4, <1>5, <1>6, <1>7, <1>9, <1>10

\* What the steps below need of the parts that they leave alone.
LEMMA KeptIsSound ==
  ASSUME EventsInv
  PROVE  /\ \A q \in DOMAIN Kept : Sound(Kept[q], fed, db)
         /\ DOMAIN Kept \subseteq 1..allocated /\ allocated \in Nat /\ fed \in Nat
         /\ \A e \in AppliedBy(browser) : e.of \subseteq 1..fed
         /\ browser \in Browser /\ browser.last \in Int /\ -1 <= browser.last
         /\ browser.queue \in DOMAIN Kept => browser.queue \in 1..allocated /\ browser.stage # "new"
BY DEF EventsInv, Types, QueuesInv, Kept, BrowserInv, Browser

LEMMA FetchInitialStateKeeps ==
  ASSUME Bounds, EventsInv, FetchInitialState
  PROVE  EventsInv'
<1> USE DEF EventsInv
<1>1. /\ browser.stage = "allocated"
      /\ browser' = [browser EXCEPT !.stage = "fetched", !.snapshot = Len(db)]
      /\ db' = db /\ fed' = fed /\ up' = up /\ clients' = clients /\ saved' = saved
      /\ allocated' = allocated /\ conn' = conn /\ budget' = budget
  BY DEF FetchInitialState, server
<1>2. /\ browser' \in Browser /\ browser'.stage = "fetched" /\ browser'.snapshot = Len(db)
      /\ browser'.queue = browser.queue /\ browser'.last = browser.last
      /\ browser'.applied = browser.applied /\ browser'.xhr = browser.xhr
      /\ browser.xhr = None
  <2>1. Len(db) \in Nat /\ browser \in Browser /\ browser.xhr = None
    BY <1>1 DEF Types, BrowserInv
  <2> QED BY <1>1, <2>1 DEF Browser
<1>3. Types' /\ QueuesInv' /\ Kept' = Kept
  BY <1>1 DEF Types, QueuesInv, Kept
<1>4. ConnInv'
  BY <1>1, <1>2 DEF ConnInv
<1>5. BrowserInv'
  BY <1>1, <1>2 DEF BrowserInv, AppliedBy, OnceInOrder
<1>6. XhrInv'
  BY <1>1, <1>2 DEF XhrInv
<1>7. ContinuesInv'
  <2>1. Pending(Kept[browser.queue], browser') = Pending(Kept[browser.queue], browser)
        /\ AppliedBy(browser') = AppliedBy(browser)
    BY <1>2 DEF Pending, AppliedBy
  <2>2. 1..fed \subseteq 1..Len(db)
    BY DEF Types
  <2> QED BY <1>1, <1>2, <1>3, <2>1, <2>2 DEF ContinuesInv, Continues
<1> QED BY <1>3, <1>4, <1>5, <1>6, <1>7

LEMMA PollKeeps ==
  ASSUME Bounds, EventsInv, NEW h \in Conn, Poll(h)
  PROVE  EventsInv'
<1> USE DEF EventsInv
<1> DEFINE c == Sent(browser.queue, browser.last, ~browser.retrying)
<1>1. /\ browser.stage = "polling" /\ browser.xhr = None /\ conn[h].state = "idle" /\ up = "up"
      /\ conn' = [conn EXCEPT ![h] = c] /\ browser' = [browser EXCEPT !.xhr = h]
      /\ db' = db /\ fed' = fed /\ up' = up /\ clients' = clients /\ saved' = saved
      /\ allocated' = allocated /\ budget' = budget
  BY DEF Poll, server
<1>2. /\ browser' \in Browser /\ browser'.xhr = h /\ h # None
      /\ browser'.stage = "polling" /\ browser'.snapshot = browser.snapshot
      /\ browser'.queue = browser.queue /\ browser'.last = browser.last
      /\ browser'.applied = browser.applied
  BY <1>1 DEF BrowserInv, Browser, Bounds, None
<1>3. /\ c \in Asking /\ c \in Request /\ c.state = "sent" /\ c.known = TRUE
      /\ c.queue = browser.queue /\ c.last = browser.last /\ c # Idle
  BY DEF Sent, Asking, Request, BrowserInv, Browser, Idle
<1> HIDE DEF c
<1>4. Types' /\ QueuesInv' /\ Kept' = Kept /\ Kept = clients
  BY <1>1 DEF Types, QueuesInv, Kept
<1>5. /\ conn' \in [Conn -> Request] /\ conn'[h] = c
      /\ \A g \in Conn : g # h => conn'[g] = conn[g]
  BY <1>1, <1>3 DEF ConnInv
<1>6. ConnInv'
  <2>1. \A g \in Conn : conn'[g].state \in {"sent", "held"} =>
          /\ conn'[g].queue \in 1..allocated
          /\ conn'[g].queue = browser.queue => conn'[g].last <= browser.last
          /\ conn'[g].queue \in DOMAIN clients => Ahead(clients[conn'[g].queue], conn'[g].last)
    BY <1>1, <1>3, <1>4, <1>5, KeptIsSound DEF ConnInv, BrowserInv, ContinuesInv, Continues
  <2>2. \A g \in Conn : conn'[g].state = "held" =>
         conn'[g].queue \in DOMAIN clients /\ clients[conn'[g].queue].handler = g
    BY <1>3, <1>5 DEF ConnInv
  <2>3. \A q \in DOMAIN clients : clients[q].handler # None => clients[q].handler # h /\ clients[q].handler \in Conn
    BY <1>1 DEF ConnInv, QueuesInv, Sound, Descriptor
  <2> QED BY <1>1, <1>2, <1>5, <2>1, <2>2, <2>3 DEF ConnInv
<1>7. BrowserInv'
  BY <1>1, <1>2 DEF BrowserInv, AppliedBy, OnceInOrder
<1>8. XhrInv'
  BY <1>1, <1>2, <1>3, <1>5 DEF XhrInv
<1>9. ContinuesInv'
  <2>1. \A d : Continues(d, browser, fed, db) => Continues(d, browser', fed, db)
    BY <1>1, <1>2, SameContinues
  <2> QED BY <1>1, <1>2, <1>4, <2>1 DEF ContinuesInv
<1> QED BY <1>4, <1>6, <1>7, <1>8, <1>9

LEMMA GiveUpKeeps ==
  ASSUME Bounds, EventsInv, GiveUp
  PROVE  EventsInv'
<1> USE DEF EventsInv
<1>1. /\ browser.xhr # None
      /\ \E failed \in BOOLEAN : browser' = [browser EXCEPT !.xhr = None, !.retrying = failed]
      /\ budget' = [budget EXCEPT !.faults = @ + 1]
      /\ db' = db /\ fed' = fed /\ up' = up /\ clients' = clients /\ saved' = saved
      /\ allocated' = allocated /\ conn' = conn
  BY DEF GiveUp, Spend, server
<1>2. /\ browser' \in Browser /\ browser'.xhr = None
      /\ browser'.stage = browser.stage /\ browser'.snapshot = browser.snapshot
      /\ browser'.queue = browser.queue /\ browser'.last = browser.last
      /\ browser'.applied = browser.applied
  BY <1>1 DEF BrowserInv, Browser
<1>3. Types'
  BY <1>1 DEF Types, Budget
<1>4. QueuesInv' /\ Kept' = Kept
  BY <1>1 DEF QueuesInv, Kept
<1>5. ConnInv'
  BY <1>1, <1>2 DEF ConnInv
<1>6. BrowserInv'
  BY <1>1, <1>2 DEF BrowserInv, AppliedBy, OnceInOrder
<1>7. XhrInv'
  BY <1>2 DEF XhrInv
<1>8. ContinuesInv'
  <2>1. \A d : Continues(d, browser, fed, db) => Continues(d, browser', fed, db)
    BY <1>2, SameContinues
  <2> QED BY <1>1, <1>2, <1>4, <2>1 DEF ContinuesInv
<1> QED BY <1>3, <1>4, <1>5, <1>6, <1>7, <1>8

\* The client starts over.
LEMMA NewBrowserKeeps ==
  ASSUME Bounds, EventsInv, browser' = NewBrowser, up' = up, Types',
         db' = db, fed' = fed, clients' = clients, saved' = saved, allocated' = allocated,
         conn' \in [Conn -> Request],
         \A h \in Conn : conn'[h] = conn[h] \/ (conn[h].state # "held" /\ conn'[h] = Idle)
  PROVE  EventsInv'
<1> USE DEF EventsInv
<1>1. /\ NewBrowser \in Browser /\ NewBrowser.xhr = None /\ NewBrowser.stage = "new"
      /\ NewBrowser.queue = 0 /\ NewBrowser.last = -1 /\ NewBrowser.applied = <<>>
  BY DEF NewBrowser, Browser
<1>2. QueuesInv' /\ Kept' = Kept
  BY DEF QueuesInv, Kept
<1>3. Idle.state = "idle"
  BY DEF Idle
<1>4. ConnInv'
  <2>1. \A h \in Conn : conn'[h].state \in {"sent", "held"} =>
          conn'[h] = conn[h] /\ conn'[h].queue # NewBrowser.queue
    BY <1>1, <1>3 DEF ConnInv
  <2>2. \A q \in DOMAIN clients : clients[q].handler # None =>
          clients[q].handler \in Conn /\ conn[clients[q].handler].state = "held"
    BY DEF ConnInv, QueuesInv, Sound, Descriptor
  <2> QED BY <1>1, <2>1, <2>2 DEF ConnInv
<1>5. BrowserInv'
  BY <1>1 DEF BrowserInv, AppliedBy, OnceInOrder
<1>6. XhrInv'
  BY <1>1 DEF XhrInv
<1>7. ContinuesInv'
  BY <1>1, <1>2, KeptIsSound DEF ContinuesInv
<1> QED BY <1>2, <1>4, <1>5, <1>6, <1>7

LEMMA ReloadKeeps ==
  ASSUME Bounds, EventsInv, Reload
  PROVE  EventsInv'
<1>1. /\ browser' = NewBrowser /\ db' = db /\ fed' = fed /\ up' = up /\ clients' = clients
      /\ saved' = saved /\ allocated' = allocated /\ conn' = conn
      /\ budget' = [budget EXCEPT !.faults = @ + 1]
  BY DEF Reload, Spend, server
<1>2. Types'
  BY <1>1 DEF EventsInv, Types, Budget
<1>3. conn' \in [Conn -> Request]
  BY <1>1 DEF EventsInv, ConnInv
<1>4. \A h \in Conn : conn'[h] = conn[h] \/ (conn[h].state # "held" /\ conn'[h] = Idle)
  BY <1>1
<1> QED BY <1>1, <1>2, <1>3, <1>4, NewBrowserKeeps

\* A closed connection is forgotten, with the wait of its queue.
LEMMA OnConnectionCloseKeeps ==
  ASSUME Bounds, EventsInv, NEW h \in Conn, OnConnectionClose(h)
  PROVE  EventsInv'
<1> USE DEF EventsInv
<1>1. /\ conn[h].state # "idle" /\ browser.xhr # h /\ up # "down"
      /\ conn' = [conn EXCEPT ![h] = IF @.state = "sent" THEN [@ EXCEPT !.known = FALSE] ELSE Idle]
      /\ clients' = [q \in DOMAIN clients |->
                       IF clients[q].handler = h THEN [clients[q] EXCEPT !.handler = None]
                       ELSE clients[q]]
      /\ db' = db /\ fed' = fed /\ up' = up /\ saved' = saved /\ allocated' = allocated
      /\ browser' = browser /\ budget' = budget
  BY DEF OnConnectionClose
<1>2. /\ conn' \in [Conn -> Request] /\ \A g \in Conn : g # h => conn'[g] = conn[g]
      /\ conn'[h].state \in {"idle", "sent"}
      /\ conn'[h].state = "sent" => /\ conn[h].state = "sent" /\ conn'[h].queue = conn[h].queue
                                    /\ conn'[h].last = conn[h].last
  <2>1. conn \in [Conn -> Request] /\ conn[h] \in Request
    BY DEF ConnInv
  <2>2. CASE conn[h].state = "sent"
    <3>1. conn[h] \in Asking
      BY <2>1, <2>2, RequestKinds
    <3>2. conn' = [conn EXCEPT ![h] = [conn[h] EXCEPT !.known = FALSE]]
      BY <1>1, <2>2
    <3> DEFINE c == [conn[h] EXCEPT !.known = FALSE]
    <3>3. c \in Asking /\ c.state = "sent" /\ c.queue = conn[h].queue /\ c.last = conn[h].last
      BY <2>2, <3>1 DEF Asking
    <3> HIDE DEF c
    <3>4. c \in Request /\ conn' = [conn EXCEPT ![h] = c]
      BY <3>2, <3>3 DEF Request, c
    <3> QED BY <2>1, <2>2, <3>3, <3>4
  <2>3. CASE conn[h].state # "sent"
    <3>1. Idle \in Request /\ Idle.state = "idle" /\ conn' = [conn EXCEPT ![h] = Idle]
      BY <1>1, <2>3 DEF Request, Idle
    <3> HIDE DEF Idle
    <3> QED BY <2>1, <3>1
  <2> QED BY <2>2, <2>3
<1>3. /\ DOMAIN clients' = DOMAIN clients /\ clients' = [q \in DOMAIN clients' |-> clients'[q]]
      /\ \A q \in DOMAIN clients :
           /\ Sound(clients'[q], fed, db) /\ Contents(clients'[q]) = Contents(clients[q])
           /\ \A b : Continues(clients[q], b, fed, db) => Continues(clients'[q], b, fed, db)
           /\ \A events, b : NextOf(events, clients[q], b) => NextOf(events, clients'[q], b)
           /\ \A last : Ahead(clients[q], last) => Ahead(clients'[q], last)
           /\ clients[q].handler = h => clients'[q].handler = None
           /\ clients[q].handler # h => clients'[q] = clients[q]
  <2>1. DOMAIN clients' = DOMAIN clients /\ clients' = [q \in DOMAIN clients' |-> clients'[q]]
    BY <1>1
  <2>2. ASSUME NEW q \in DOMAIN clients, clients[q].handler = h
        PROVE  /\ Sound(clients'[q], fed, db) /\ Contents(clients'[q]) = Contents(clients[q])
               /\ \A b : Continues(clients[q], b, fed, db) => Continues(clients'[q], b, fed, db)
               /\ \A events, b : NextOf(events, clients[q], b) => NextOf(events, clients'[q], b)
               /\ \A last : Ahead(clients[q], last) => Ahead(clients'[q], last)
               /\ clients'[q].handler = None
    <3>1. Sound(clients[q], fed, db) /\ clients'[q] = [clients[q] EXCEPT !.handler = None]
      BY <1>1, <2>2 DEF QueuesInv
    <3> QED BY <3>1, RehandledIsSound
  <2>3. ASSUME NEW q \in DOMAIN clients, clients[q].handler # h
        PROVE  clients'[q] = clients[q] /\ Sound(clients'[q], fed, db)
    BY <1>1, <2>3 DEF QueuesInv
  <2> QED BY <2>1, <2>2, <2>3
<1>4. Types' /\ QueuesInv'
  <2>1. Types'
    BY <1>1 DEF Types
  <2>2. up = "down" => DOMAIN clients' = {}
    BY <1>1
  <2> QED BY <1>1, <1>3, <2>1, <2>2 DEF QueuesInv
<1>5. ConnInv'
  <2>1. \A g \in Conn : conn'[g].state \in {"sent", "held"} =>
          /\ conn'[g].queue \in 1..allocated
          /\ conn'[g].queue = browser.queue => conn'[g].last <= browser.last
          /\ conn'[g].queue \in DOMAIN clients' => Ahead(clients'[conn'[g].queue], conn'[g].last)
    BY <1>2, <1>3 DEF ConnInv
  <2>2. \A g \in Conn : conn'[g].state = "held" =>
         conn'[g].queue \in DOMAIN clients' /\ clients'[conn'[g].queue].handler = g
    BY <1>2, <1>3 DEF ConnInv
  <2>3. \A q \in DOMAIN clients' : clients'[q].handler # None =>
         /\ conn'[clients'[q].handler].state = "held" /\ conn'[clients'[q].handler].queue = q
         /\ Contents(clients'[q]) = {}
    <3>1. \A q \in DOMAIN clients : clients[q].handler \in Conn \cup {None}
      BY DEF QueuesInv, Sound, Descriptor
    <3> QED BY <1>2, <1>3, <3>1 DEF ConnInv
  <2> QED BY <1>1, <1>2, <2>1, <2>2, <2>3 DEF ConnInv
<1>6. BrowserInv'
  BY <1>1 DEF BrowserInv
<1>7. /\ DOMAIN Kept' = DOMAIN Kept
      /\ \A q \in DOMAIN Kept :
           /\ \A b : Continues(Kept[q], b, fed, db) => Continues(Kept'[q], b, fed, db)
           /\ \A events, b : NextOf(events, Kept[q], b) => NextOf(events, Kept'[q], b)
  BY <1>1, <1>3 DEF Kept
<1>8. XhrInv'
  <2>1. CASE browser.xhr = None
    BY <1>1, <2>1 DEF XhrInv
  <2>2. CASE browser.xhr # None
    <3>1. browser.xhr \in Conn /\ conn'[browser.xhr] = conn[browser.xhr]
      BY <1>1, <1>2, <2>2 DEF BrowserInv, Browser
    <3> QED BY <1>1, <1>7, <2>2, <3>1 DEF XhrInv
  <2> QED BY <2>1, <2>2
<1>9. ContinuesInv'
  BY <1>1, <1>7 DEF ContinuesInv
<1> QED BY <1>4, <1>5, <1>6, <1>8, <1>9

----------------------------------------------------------------------------
(* Queues that go, and what happens when Tornado stops and starts.          *)

\* Queue q is removed; who waited on it is answered.
LEMMA RemovedKeeps ==
  ASSUME Bounds, EventsInv, NEW q \in DOMAIN clients, up = "up", up' = up,
         clients' = Without(clients, q), browser' = browser, Types', db' = db, fed' = fed,
         saved' = saved, allocated' = allocated, conn' \in [Conn -> Request],
         \A g \in Conn : \/ conn'[g] = conn[g] /\ clients[q].handler # g
                         \/ browser.xhr # g /\ conn[g].state = "held" /\ conn[g].queue = q
                            /\ conn'[g].state \in {"idle", "answering"}
  PROVE  EventsInv'
<1> USE DEF EventsInv
<1>1. /\ DOMAIN clients' = DOMAIN clients \ {q} /\ clients' = [r \in DOMAIN clients' |-> clients'[r]]
      /\ \A r \in DOMAIN clients' : clients'[r] = clients[r] /\ r \in DOMAIN clients /\ r # q
  BY DEF Without
<1>2. Kept = clients /\ Kept' = clients'
  BY DEF Kept
<1>3. QueuesInv'
  BY <1>1 DEF QueuesInv
<1>4. ConnInv'
  <2>1. \A g \in Conn : conn'[g].state \in {"sent", "held"} => conn'[g] = conn[g] /\ clients[q].handler # g
    OBVIOUS
  <2>2. \A g \in Conn : conn'[g].state \in {"sent", "held"} =>
          /\ conn'[g].queue \in 1..allocated
          /\ conn'[g].queue = browser.queue => conn'[g].last <= browser.last
          /\ conn'[g].queue \in DOMAIN clients' => Ahead(clients'[conn'[g].queue], conn'[g].last)
    BY <1>1, <2>1 DEF ConnInv
  <2>3. \A g \in Conn : conn'[g].state = "held" =>
         conn'[g].queue \in DOMAIN clients' /\ clients'[conn'[g].queue].handler = g
    BY <1>1, <2>1 DEF ConnInv
  <2>4. \A r \in DOMAIN clients' : clients'[r].handler # None =>
         /\ conn'[clients'[r].handler].state = "held" /\ conn'[clients'[r].handler].queue = r
         /\ Contents(clients'[r]) = {}
    <3>1. ASSUME NEW r \in DOMAIN clients', clients'[r].handler # None
          PROVE  conn'[clients'[r].handler] = conn[clients'[r].handler]
      <4>1. clients[r].handler \in Conn /\ conn[clients[r].handler].queue = r /\ r # q
        BY <1>1, <3>1 DEF QueuesInv, Sound, Descriptor, ConnInv
      <4> QED BY <1>1, <3>1, <4>1
    <3> QED BY <1>1, <3>1 DEF ConnInv
  <2> QED BY <2>2, <2>3, <2>4 DEF ConnInv
<1>5. BrowserInv'
  BY DEF BrowserInv
<1>6. XhrInv'
  <2>1. ASSUME browser.xhr # None PROVE conn'[browser.xhr] = conn[browser.xhr]
    BY <2>1 DEF BrowserInv, Browser
  <2> QED BY <1>1, <1>2, <2>1 DEF XhrInv
<1>7. ContinuesInv'
  BY <1>1, <1>2 DEF ContinuesInv
<1> QED BY <1>3, <1>4, <1>5, <1>6, <1>7

LEMMA GcEventQueueKeeps ==
  ASSUME Bounds, EventsInv, NEW q \in DOMAIN clients, GcEventQueue(q)
  PROVE  EventsInv'
<1>1. /\ up = "up" /\ clients[q].handler = None /\ clients' = Without(clients, q)
      /\ budget' = budget \/ budget' = [budget EXCEPT !.faults = @ + 1]
      /\ db' = db /\ fed' = fed /\ up' = up /\ saved' = saved /\ allocated' = allocated
      /\ conn' = conn /\ browser' = browser
  BY DEF GcEventQueue
<1>2. Types'
  BY <1>1 DEF EventsInv, Types, Budget
<1>3. conn' \in [Conn -> Request]
  BY <1>1 DEF EventsInv, ConnInv
<1>4. \A g \in Conn : conn'[g] = conn[g] /\ clients[q].handler # g
  BY <1>1 DEF Bounds, None
<1> QED BY <1>1, <1>2, <1>3, <1>4, RemovedKeeps

LEMMA CleanupEventQueueKeeps ==
  ASSUME Bounds, EventsInv, NEW q \in DOMAIN clients, CleanupEventQueue(q)
  PROVE  EventsInv'
<1> DEFINE h == clients[q].handler
           a == Answered(conn[h], Events(Contents(clients[q])))
<1>1. /\ up = "up" /\ q # browser.queue /\ clients' = Without(clients, q)
      /\ conn' = IF h = None THEN conn ELSE [conn EXCEPT ![h] = a]
      /\ db' = db /\ fed' = fed /\ up' = up /\ saved' = saved /\ allocated' = allocated
      /\ browser' = browser /\ budget' = budget
  BY DEF CleanupEventQueue
<1>2. Types'
  BY <1>1 DEF EventsInv, Types
<1>3. conn \in [Conn -> Request] /\ h \in Conn \cup {None} /\ clients[q] \in Descriptor /\ None \notin Conn
  BY DEF EventsInv, ConnInv, QueuesInv, Sound, Descriptor, Bounds, None
<1>4. CASE h = None
  <2>1. conn' \in [Conn -> Request]
    BY <1>1, <1>3, <1>4
  <2>2. \A g \in Conn : conn'[g] = conn[g] /\ clients[q].handler # g
    BY <1>1, <1>3, <1>4
  <2> QED BY <1>1, <1>2, <2>1, <2>2, RemovedKeeps
<1>5. CASE h # None
  <2>1. h \in Conn /\ conn[h].state = "held" /\ conn[h].queue = q
    BY <1>3, <1>5 DEF EventsInv, ConnInv
  <2>3. Events(Contents(clients[q])) \in Answer
    BY <1>3, EventsAnswer DEF Contents, Descriptor
  <2>4. a \in Request /\ a.state \in {"idle", "answering"}
    BY <2>3, AnsweredIs
  <2>5. browser.xhr # h
    BY <1>1, <1>3, <2>1 DEF EventsInv, XhrInv
  <2> HIDE DEF a, h
  <2>6. conn' \in [Conn -> Request] /\ conn'[h] = a /\ \A g \in Conn : g # h => conn'[g] = conn[g]
    BY <1>1, <1>3, <1>5, <2>1, <2>4
  <2>7. \A g \in Conn : \/ conn'[g] = conn[g] /\ clients[q].handler # g
                        \/ browser.xhr # g /\ conn[g].state = "held" /\ conn[g].queue = q
                           /\ conn'[g].state \in {"idle", "answering"}
    BY <2>1, <2>4, <2>5, <2>6 DEF h
  <2> QED BY <1>1, <1>2, <2>6, <2>7, RemovedKeeps
<1> QED BY <1>4, <1>5

\* The process is gone: what is left is what its file holds.
LEMMA LostKeeps ==
  ASSUME Bounds, EventsInv, up' = "down", clients' = NoQueues, ConnectionsLost, Types',
         db' = db, fed' = fed, saved' = saved, allocated' = allocated,
         up = "stopping" \/ DOMAIN saved = {}
  PROVE  EventsInv'
<1> USE DEF EventsInv
<1>1. /\ browser' \in Browser /\ browser'.xhr = None
      /\ browser'.stage = browser.stage /\ browser'.snapshot = browser.snapshot
      /\ browser'.queue = browser.queue /\ browser'.last = browser.last
      /\ browser'.applied = browser.applied
  BY DEF BrowserInv, Browser, ConnectionsLost
<1>2. conn' \in [Conn -> Request] /\ \A h \in Conn : conn'[h] = Idle /\ conn'[h].state = "idle"
  BY DEF ConnectionsLost, Request, Idle
<1>3. DOMAIN clients' = {} /\ clients' = [q \in DOMAIN clients' |-> clients'[q]]
  BY DEF NoQueues
<1>4. QueuesInv'
  BY <1>3 DEF QueuesInv
<1>5. ConnInv'
  BY <1>2, <1>3 DEF ConnInv
<1>6. BrowserInv'
  BY <1>1 DEF BrowserInv, AppliedBy, OnceInOrder
<1>7. XhrInv'
  BY <1>1 DEF XhrInv
<1>8. ContinuesInv'
  <2>1. \A d : Continues(d, browser, fed, db) => Continues(d, browser', fed, db)
    BY <1>1, SameContinues
  <2>2. Kept' = saved /\ (up = "stopping" => Kept = saved)
    BY DEF Kept
  <2> QED BY <1>1, <2>1, <2>2 DEF ContinuesInv
<1> QED BY <1>4, <1>5, <1>6, <1>7, <1>8

LEMMA ExitKeeps ==
  ASSUME Bounds, EventsInv, Exit
  PROVE  EventsInv'
<1>1. Types'
  BY DEF Exit, EventsInv, Types
<1> QED BY <1>1, LostKeeps DEF Exit

LEMMA CrashKeeps ==
  ASSUME Bounds, EventsInv, Crash
  PROVE  EventsInv'
<1>1. Types' /\ DOMAIN saved = {}
  BY DEF Crash, Spend, EventsInv, Types, Budget, QueuesInv
<1> QED BY <1>1, LostKeeps DEF Crash

\* The file gets the queues as they are, without those who wait.
LEMMA StopKeeps ==
  ASSUME Bounds, EventsInv, Stop
  PROVE  EventsInv'
<1> USE DEF EventsInv
<1>1. /\ up = "up" /\ up' = "stopping"
      /\ saved' = [q \in DOMAIN clients |-> [clients[q] EXCEPT !.handler = None]]
      /\ budget' = [budget EXCEPT !.faults = @ + 1]
      /\ db' = db /\ fed' = fed /\ clients' = clients /\ allocated' = allocated
      /\ conn' = conn /\ browser' = browser
  BY DEF Stop, Spend
<1>2. Types'
  BY <1>1 DEF Types, Budget
<1>3. /\ DOMAIN saved' = DOMAIN clients /\ saved' = [q \in DOMAIN saved' |-> saved'[q]]
      /\ \A q \in DOMAIN clients :
           /\ Sound(saved'[q], fed, db) /\ saved'[q].handler = None
           /\ \A b : Continues(clients[q], b, fed, db) => Continues(saved'[q], b, fed, db)
           /\ \A events, b : NextOf(events, clients[q], b) => NextOf(events, saved'[q], b)
  <2>1. DOMAIN saved' = DOMAIN clients /\ saved' = [q \in DOMAIN saved' |-> saved'[q]]
    BY <1>1
  <2>2. ASSUME NEW q \in DOMAIN clients
        PROVE  /\ Sound(saved'[q], fed, db) /\ saved'[q].handler = None
               /\ \A b : Continues(clients[q], b, fed, db) => Continues(saved'[q], b, fed, db)
               /\ \A events, b : NextOf(events, clients[q], b) => NextOf(events, saved'[q], b)
    <3>1. Sound(clients[q], fed, db) /\ saved'[q] = [clients[q] EXCEPT !.handler = None]
      BY <1>1 DEF QueuesInv
    <3> QED BY <3>1, RehandledIsSound
  <2> QED BY <2>1, <2>2
<1>4. QueuesInv'
  BY <1>1, <1>3 DEF QueuesInv
<1>5. Kept = clients /\ Kept' = saved'
  BY <1>1 DEF Kept
<1>6. ConnInv' /\ BrowserInv'
  BY <1>1 DEF ConnInv, BrowserInv
<1>7. XhrInv'
  BY <1>1, <1>3, <1>5 DEF XhrInv
<1>8. ContinuesInv'
  BY <1>1, <1>3, <1>5 DEF ContinuesInv
<1> QED BY <1>2, <1>4, <1>6, <1>7, <1>8

\* Every queue of the file is there again, with one more event.
LEMMA SetupEventQueueKeeps ==
  ASSUME Bounds, EventsInv, SetupEventQueue
  PROVE  EventsInv'
<1> USE DEF EventsInv
<1>1. /\ up = "down" /\ up' = "up" /\ saved' = NoQueues
      /\ clients' = [q \in DOMAIN saved |-> Push(saved[q], "restart", {})]
      /\ db' = db /\ fed' = fed /\ allocated' = allocated
      /\ conn' = conn /\ browser' = browser /\ budget' = budget
  BY DEF SetupEventQueue
<1>2. Types' /\ fed \in Nat /\ (fed + 1)..fed = {} /\ "restart" \in Own
  BY <1>1 DEF Types, Own
<1>3. /\ DOMAIN clients' = DOMAIN saved /\ clients' = [q \in DOMAIN clients' |-> clients'[q]]
      /\ \A q \in DOMAIN saved :
           /\ Sound(clients'[q], fed, db) /\ clients'[q].handler = None
           /\ Continues(saved[q], browser, fed, db) => Continues(clients'[q], browser, fed, db)
  <2>1. DOMAIN clients' = DOMAIN saved /\ clients' = [q \in DOMAIN clients' |-> clients'[q]]
    BY <1>1
  <2>2. ASSUME NEW q \in DOMAIN saved
        PROVE  /\ Sound(clients'[q], fed, db) /\ clients'[q].handler = None
               /\ Continues(saved[q], browser, fed, db) => Continues(clients'[q], browser, fed, db)
    <3>1. Sound(saved[q], fed, db) /\ saved[q].handler = None
          /\ clients'[q] = Push(saved[q], "restart", (fed + 1)..fed)
      BY <1>1, <1>2 DEF QueuesInv
    <3>2. \A i \in (fed + 1)..fed : db[i] \in Compressed
      BY <1>2
    <3>3. \A e \in AppliedBy(browser) : e.of \subseteq 1..fed
      BY DEF BrowserInv
    <3> QED BY <1>2, <3>1, <3>2, <3>3, PushIsSound
  <2> QED BY <2>1, <2>2
<1>4. QueuesInv'
  BY <1>1, <1>3 DEF QueuesInv, NoQueues
<1>5. Kept = saved /\ Kept' = clients'
  BY <1>1 DEF Kept
<1>6. \A h \in Conn : conn[h] = Idle /\ conn[h].state = "idle"
  BY <1>1 DEF ConnInv, Idle
<1>7. ConnInv'
  BY <1>1, <1>3, <1>6 DEF ConnInv
<1>8. BrowserInv'
  BY <1>1 DEF BrowserInv
<1>9. XhrInv'
  BY <1>1 DEF XhrInv
<1>10. ContinuesInv'
  BY <1>1, <1>3, <1>5 DEF ContinuesInv
<1> QED BY <1>2, <1>4, <1>7, <1>8, <1>9, <1>10

----------------------------------------------------------------------------
(* The client registers.                                                    *)
LEMMA AllocateQueueKeeps ==
  ASSUME Bounds, EventsInv, AllocateQueue
  PROVE  EventsInv'
<1> USE DEF EventsInv
<1> DEFINE new == allocated + 1
<1>1. /\ browser.stage = "new" /\ up = "up" /\ allocated' = new
      /\ clients' = [q \in DOMAIN clients \cup {new} |-> IF q = new THEN Fresh ELSE clients[q]]
      /\ browser' = [NewBrowser EXCEPT !.stage = "allocated", !.queue = new]
      /\ db' = db /\ fed' = fed /\ up' = up /\ saved' = saved /\ conn' = conn /\ budget' = budget
  BY DEF AllocateQueue
<1>2. /\ new \in Nat /\ new \notin 1..allocated /\ 1..allocated \subseteq 1..new /\ new \in 1..new
      /\ allocated \in Nat /\ fed \in Nat
  BY DEF Types
<1>3. Types'
  BY <1>1, <1>2 DEF Types
<1>4. /\ browser' \in Browser /\ browser'.stage = "allocated" /\ browser'.queue = new
      /\ browser'.last = -1 /\ browser'.applied = <<>> /\ browser'.xhr = None
  <2>1. NewBrowser \in Browser /\ NewBrowser.last = -1 /\ NewBrowser.applied = <<>> /\ NewBrowser.xhr = None
    BY DEF NewBrowser, Browser
  <2> HIDE DEF NewBrowser, new
  <2> QED BY <1>1, <1>2, <2>1 DEF Browser
<1> HIDE DEF new
<1>5. new \notin DOMAIN clients /\ DOMAIN clients' = DOMAIN clients \cup {new} /\ clients'[new] = Fresh
      /\ clients' = [q \in DOMAIN clients' |-> clients'[q]]
      /\ \A q \in DOMAIN clients : clients'[q] = clients[q]
  BY <1>1, <1>2 DEF QueuesInv
<1>6. Sound(Fresh, fed, db) /\ Fresh.handler = None /\ Contents(Fresh) = {}
  BY <1>2, FreshIsSound
<1>7. QueuesInv'
  BY <1>1, <1>2, <1>5, <1>6 DEF QueuesInv
<1>8. ConnInv'
  BY <1>1, <1>2, <1>4, <1>5, <1>6 DEF ConnInv
<1>9. BrowserInv'
  BY <1>1, <1>2, <1>4 DEF BrowserInv, AppliedBy, OnceInOrder
<1>10. XhrInv'
  BY <1>4 DEF XhrInv
<1>11. ContinuesInv'
  <2>1. Continues(Fresh, browser', fed, db)
    <3>1. AppliedBy(browser') = {}
      BY <1>4 DEF AppliedBy
    <3> QED BY <1>4, <3>1 DEF Continues, Ahead, Fresh
  <2>2. Kept' = clients'
    BY <1>1 DEF Kept
  <2> QED BY <1>1, <1>4, <1>5, <2>1, <2>2 DEF ContinuesInv
<1> QED BY <1>3, <1>7, <1>8, <1>9, <1>10, <1>11

\* One descriptor d moves on to e while the others stay.
LEMMA OneMoves ==
  ASSUME Bounds, EventsInv, NEW q \in DOMAIN clients, NEW e,
         clients' = [clients EXCEPT ![q] = e], db' = db, fed' = fed, saved' = saved,
         allocated' = allocated, up = "up", up' = up, Sound(e, fed, db)
  PROVE  /\ QueuesInv' /\ DOMAIN clients' = DOMAIN clients /\ clients'[q] = e
         /\ \A r \in DOMAIN clients : r # q => clients'[r] = clients[r]
         /\ Kept = clients /\ Kept' = clients'
         /\ Sound(clients[q], fed, db) /\ clients[q] \in Descriptor
         /\ clients[q].handler \in Conn \cup {None}
<1> USE DEF EventsInv
<1>1. /\ DOMAIN clients' = DOMAIN clients /\ clients'[q] = e
      /\ \A r \in DOMAIN clients : r # q => clients'[r] = clients[r]
      /\ clients' = [r \in DOMAIN clients' |-> clients'[r]]
  BY DEF QueuesInv
<1>2. QueuesInv'
  BY <1>1 DEF QueuesInv
<1> QED BY <1>1, <1>2 DEF Kept, QueuesInv, Sound, Descriptor

LEMMA GetUserEventsKeeps ==
  ASSUME Bounds, EventsInv, GetUserEvents
  PROVE  EventsInv'
<1> USE DEF EventsInv
<1> DEFINE q == browser.queue
           d == clients[q]
           e == Prune(d, -1)
           b == Apply(browser, Contents(e))
<1>1. /\ browser.stage = "fetched" /\ up = "up"
      /\ db' = db /\ fed' = fed /\ up' = up /\ saved' = saved /\ allocated' = allocated
      /\ conn' = conn /\ budget' = budget
      /\ IF q \in DOMAIN clients
         THEN clients' = [clients EXCEPT ![q] = Resolved(e)] /\ browser' = [b EXCEPT !.stage = "polling"]
         ELSE clients' = clients /\ browser' = NewBrowser
  BY DEF GetUserEvents
<1>2. Types' /\ fed \in Nat
  BY <1>1 DEF Types
<1>3. CASE q \notin DOMAIN clients
  <2>1. conn' \in [Conn -> Request] /\ browser' = NewBrowser /\ clients' = clients
    BY <1>1, <1>3 DEF ConnInv
  <2> HIDE DEF EventsInv
  <2> QED BY <1>1, <1>2, <2>1, NewBrowserKeeps
<1>4. CASE q \in DOMAIN clients
  <2>1. /\ Sound(d, fed, db) /\ Continues(d, browser, fed, db) /\ d.handler \in Conn \cup {None}
        /\ browser \in Browser /\ browser.last = -1
        /\ OnceInOrder(browser, db) /\ browser.xhr = None
    BY <1>1, <1>4 DEF QueuesInv, ContinuesInv, Kept, BrowserInv, Sound, Descriptor
  <2>2. Ahead(d, -1)
    BY <2>1 DEF Ahead, Sound, Contents, Descriptor, Event
  <2>3. /\ Sound(e, fed, db) /\ e.handler = d.handler
        /\ Contents(e) \subseteq Contents(d)
        /\ Continues(e, browser, fed, db) /\ \A x \in Contents(e) : browser.last < x.id
        /\ \A last : Ahead(d, last) => Ahead(e, last)
    <3> HIDE DEF d, e
    <3>1. LET r == Prune(d, -1) IN
          /\ Sound(r, fed, db) /\ r.handler = d.handler /\ Contents(r) \subseteq Contents(d)
          /\ Continues(r, browser, fed, db) /\ \A x \in Contents(r) : browser.last < x.id
          /\ \A last : Ahead(d, last) => Ahead(r, last)
      BY <2>1, <2>2, PruneIsSound
    <3> QED BY <3>1 DEF e
  <2> HIDE DEF d, e
  <2>4. /\ Sound(Resolved(e), fed, db) /\ Continues(Resolved(e), browser, fed, db)
        /\ Resolved(e).handler = d.handler /\ Contents(Resolved(e)) = Contents(e)
        /\ \A last : Ahead(e, last) => Ahead(Resolved(e), last)
    <3>1. e \in Descriptor /\ e.handler \in Conn \cup {None}
      BY <2>1, <2>3 DEF Sound
    <3> QED BY <2>3, <3>1, ResolvedIsSound, ResolvedIs
  <2>5. MayFollow(Contents(e), browser, fed, db) /\ NextOf(Contents(e), Resolved(e), browser)
        /\ Contents(e) \in SUBSET Event
    BY <2>3, AllIsNext DEF Sound, Contents, Descriptor
  <2>6. /\ Continues(Resolved(e), b, fed, db) /\ browser.last <= b.last
        /\ OnceInOrder(b, db) /\ AppliedBy(b) = AppliedBy(browser) \cup Contents(e)
        /\ b \in Browser /\ b.queue = browser.queue /\ b.xhr = browser.xhr /\ b.stage = browser.stage
    BY <2>1, <2>4, <2>5, ApplyContinues, ApplyInOrder, ApplyIs DEF MayFollow
  <2> HIDE DEF b
  <2>7. /\ browser' \in Browser /\ browser'.stage = "polling" /\ browser'.queue = q
        /\ browser'.xhr = None /\ browser'.last = b.last /\ browser'.applied = b.applied
        /\ browser'.snapshot = b.snapshot /\ b.last \in Int /\ browser.last <= browser'.last
    BY <1>1, <1>4, <2>1, <2>6 DEF Browser
  <2>8. /\ AppliedBy(browser') = AppliedBy(b) /\ OnceInOrder(browser', db)
        /\ Continues(Resolved(e), browser', fed, db)
    BY <1>1, <2>6, <2>7, SameContinues
  <2>9. /\ QueuesInv' /\ DOMAIN clients' = DOMAIN clients /\ clients'[q] = Resolved(e)
        /\ \A r \in DOMAIN clients : r # q => clients'[r] = clients[r]
        /\ Kept = clients /\ Kept' = clients'
    <3> HIDE DEF EventsInv
    <3> QED BY <1>1, <1>4, <2>4, OneMoves
  <2>10. ConnInv'
    <3>1. \A g \in Conn : conn[g].state \in {"sent", "held"} =>
            /\ conn[g].queue = q => conn[g].last <= browser'.last
            /\ conn[g].queue \in DOMAIN clients' => Ahead(clients'[conn[g].queue], conn[g].last)
      <4>1. \A last : Ahead(d, last) => Ahead(Resolved(e), last)
        BY <2>3, <2>4
      <4>2. \A g \in Conn : conn[g].state \in {"sent", "held"} => conn[g].last \in Int
        BY RequestKinds DEF ConnInv, Asking
      <4> QED BY <1>4, <2>1, <2>7, <2>9, <4>1, <4>2 DEF ConnInv, d
    <3>2. \A r \in DOMAIN clients : clients'[r].handler = clients[r].handler
                                    /\ Contents(clients'[r]) \subseteq Contents(clients[r])
      BY <2>3, <2>4, <2>9 DEF d
    <3> QED BY <1>1, <2>7, <2>9, <3>1, <3>2 DEF ConnInv
  <2>11. BrowserInv'
    <3>1. \A x \in AppliedBy(browser') : x.of \subseteq 1..fed
      BY <2>5, <2>6, <2>8 DEF BrowserInv, MayFollow
    <3>2. -1 <= browser'.last
      BY <2>1, <2>7
    <3> QED BY <1>1, <2>7, <2>8, <3>1, <3>2 DEF BrowserInv
  <2>12. XhrInv' /\ ContinuesInv'
    BY <1>1, <2>7, <2>8, <2>9 DEF XhrInv, ContinuesInv
  <2> QED BY <1>2, <2>9, <2>10, <2>11, <2>12
<1> QED BY <1>3, <1>4

----------------------------------------------------------------------------
(* Answers on their way and received.                                       *)

\* The request the client waits for is answered with the next events of its queue.
LEMMA XhrIsAnswered ==
  ASSUME NEW h \in Conn, browser' = browser, browser.xhr = h, up' # "down",
         conn[h].known = TRUE, NEW answer \in Answer,
         conn'[h] = Answered(conn[h], answer), answer.error \in {None, "bad_queue"},
         MayFollow(answer.events, browser, fed', db'),
         browser.queue \in DOMAIN Kept' => NextOf(answer.events, Kept'[browser.queue], browser)
  PROVE  XhrInv'
<1>1. /\ Answered(conn[h], answer).state = "answering" /\ Answered(conn[h], answer).answer = answer
      /\ Answered(conn[h], answer).known = TRUE /\ Answered(conn[h], answer) # Idle
  BY AnsweredIs
<1> QED BY <1>1 DEF XhrInv

LEMMA ReceiveKeeps ==
  ASSUME Bounds, EventsInv, NEW h \in Conn, Receive(h)
  PROVE  EventsInv'
<1> USE DEF EventsInv
<1> DEFINE answer == conn[h].answer
           A == answer.events
           b == Apply(browser, A)
<1>1. /\ conn[h].state = "answering" /\ browser.xhr = h
      /\ conn' = [conn EXCEPT ![h] = Idle]
      /\ db' = db /\ fed' = fed /\ up' = up /\ clients' = clients /\ saved' = saved
      /\ allocated' = allocated /\ budget' = budget
      /\ \/ answer.error = "bad_queue" /\ browser' = NewBrowser
         \/ answer.error \in {"pruned", "not_in_queue"}
         \/ answer.error = None /\ browser' = [b EXCEPT !.xhr = None, !.retrying = FALSE]
  BY DEF Receive, server
<1>2. h # None
  BY DEF Bounds, None
<1>3. /\ answer.error \in {None, "bad_queue"} /\ up # "down"
      /\ MayFollow(A, browser, fed, db)
      /\ browser.queue \in DOMAIN Kept => NextOf(A, Kept[browser.queue], browser)
  BY <1>1, <1>2 DEF XhrInv
<1>4. A \in SUBSET Event
  <2>1. conn[h] \in Told
    BY <1>1, RequestKinds DEF ConnInv
  <2> QED BY <2>1 DEF Told, Answer
<1>5. /\ conn' \in [Conn -> Request] /\ conn'[h] = Idle /\ Idle.state = "idle"
      /\ \A g \in Conn : g # h => conn'[g] = conn[g]
  <2>1. Idle \in Request /\ Idle.state = "idle"
    BY DEF Request, Idle
  <2> HIDE DEF Idle
  <2> QED BY <1>1, <2>1 DEF ConnInv
<1>6. Types' /\ QueuesInv' /\ Kept' = Kept
  BY <1>1 DEF Types, QueuesInv, Kept
<1>7. CASE browser' = NewBrowser
  <2>1. \A g \in Conn : conn'[g] = conn[g] \/ (conn[g].state # "held" /\ conn'[g] = Idle)
    BY <1>1, <1>5
  <2> HIDE DEF EventsInv, answer, A, b
  <2> QED BY <1>1, <1>5, <1>6, <1>7, <2>1, NewBrowserKeeps
<1>8. CASE browser' = [b EXCEPT !.xhr = None, !.retrying = FALSE]
  <2>1. browser \in Browser /\ OnceInOrder(browser, db) /\ browser.stage = "polling"
    BY <1>1, <1>2 DEF BrowserInv
  <2>2. PICK k \in Nat : \A x \in A : x.id < k
    BY <1>3 DEF MayFollow
  <2> HIDE DEF answer, A
  <2>3. /\ b \in Browser /\ b.stage = browser.stage /\ b.queue = browser.queue
        /\ b.snapshot = browser.snapshot
        /\ OnceInOrder(b, db) /\ AppliedBy(b) = AppliedBy(browser) \cup A
    BY <1>3, <1>4, <2>1, <2>2, ApplyInOrder, ApplyIs
  <2>4. browser.last <= b.last
    <3>1. b.last = browser.last \/ \E x \in A : x.id = b.last
      BY <1>4, <2>1, <2>2, ApplyIs
    <3> QED BY <1>3, <2>1, <2>3, <3>1 DEF MayFollow, Browser
  <2>5. browser.queue \in DOMAIN Kept => Continues(Kept[browser.queue], b, fed, db)
    BY <1>3, <1>4, <2>1, ApplyContinues, KeptIsSound DEF ContinuesInv
  <2> HIDE DEF b
  <2>6. /\ browser' \in Browser /\ browser'.stage = "polling" /\ browser'.queue = browser.queue
        /\ browser'.xhr = None /\ browser'.last = b.last /\ browser'.applied = b.applied
        /\ browser'.snapshot = b.snapshot
    BY <1>8, <2>1, <2>3 DEF Browser
  <2>7. /\ AppliedBy(browser') = AppliedBy(b) /\ OnceInOrder(browser', db)
        /\ \A d : Continues(d, b, fed, db) => Continues(d, browser', fed, db)
    BY <2>1, <2>3, <2>6, SameContinues
  <2>8. ConnInv'
    <3>1. \A g \in Conn : conn'[g].state \in {"sent", "held"} => conn'[g] = conn[g]
      BY <1>5
    <3>2. \A g \in Conn : conn[g].state \in {"sent", "held"} =>
            (conn[g].queue = browser.queue => conn[g].last <= b.last)
      <4>1. \A g \in Conn : conn[g].state \in {"sent", "held"} => conn[g].last \in Int
        BY RequestKinds DEF ConnInv, Asking
      <4> QED BY <2>1, <2>3, <2>4, <4>1 DEF ConnInv, Browser
    <3>3. \A q \in DOMAIN clients : clients[q].handler # None =>
            clients[q].handler # h /\ clients[q].handler \in Conn
      BY <1>1 DEF ConnInv, QueuesInv, Sound, Descriptor
    <3>4. \A g \in Conn : conn'[g].state \in {"sent", "held"} =>
          /\ conn'[g].queue \in 1..allocated
          /\ conn'[g].queue = browser.queue => conn'[g].last <= b.last
          /\ conn'[g].queue \in DOMAIN clients => Ahead(clients[conn'[g].queue], conn'[g].last)
      BY <3>1, <3>2 DEF ConnInv
    <3>5. \A q \in DOMAIN clients : clients[q].handler # None =>
       /\ conn'[clients[q].handler].state = "held" /\ conn'[clients[q].handler].queue = q
       /\ Contents(clients[q]) = {}
      BY <1>5, <3>3 DEF ConnInv
    <3>6. /\ \A g \in Conn : conn'[g].state = "held" =>
               conn'[g].queue \in DOMAIN clients /\ clients[conn'[g].queue].handler = g
          /\ up = "down" => \A g \in Conn : conn'[g] = Idle
      BY <1>5, <3>1 DEF ConnInv
    <3> QED BY <1>1, <1>5, <2>6, <3>4, <3>5, <3>6 DEF ConnInv
  <2>9. BrowserInv'
    <3>1. \A x \in AppliedBy(browser') : x.of \subseteq 1..fed
      BY <1>3, <2>3, <2>7 DEF BrowserInv, MayFollow
    <3>2. -1 <= browser'.last
      BY <2>1, <2>3, <2>4, <2>6 DEF BrowserInv, Browser
    <3> QED BY <1>1, <2>1, <2>6, <2>7, <3>1, <3>2 DEF BrowserInv
  <2>10. XhrInv' /\ ContinuesInv'
    BY <1>1, <1>6, <2>5, <2>6, <2>7 DEF XhrInv, ContinuesInv
  <2> QED BY <1>6, <2>8, <2>9, <2>10
<1> QED BY <1>1, <1>3, <1>7, <1>8 DEF None

----------------------------------------------------------------------------
(* Events that reach the queues.                                            *)

\* What one more event does to the queue q of clients.
LEMMA QueuePushed ==
  ASSUME EventsInv, up = "up", NEW q \in DOMAIN clients, NEW m \in Nat, fed <= m, NEW type \in Own,
         type \in Compressed => \A i \in (fed + 1)..m : db[i] \in Compressed,
         NEW r, r = Push(clients[q], type, (fed + 1)..m)
  PROVE  /\ Sound(r, m, db) /\ r \in Descriptor /\ r.handler = clients[q].handler
         /\ r.handler \in Conn \cup {None}
         /\ Contents(r) \in SUBSET Event
         /\ \A h \in Conn : conn[h].state \in {"sent", "held"} /\ conn[h].queue = q => Ahead(r, conn[h].last)
         /\ q = browser.queue => Continues(r, browser, m, db)
         /\ \A events : q = browser.queue /\ NextOf(events, clients[q], browser) => NextOf(events, r, browser)
         /\ q = browser.queue /\ Contents(clients[q]) = {} =>
              /\ MayFollow(Contents(r), browser, m, db)
              /\ NextOf(Contents(r), [Resolved(r) EXCEPT !.handler = None], browser)
<1>1. Sound(clients[q], fed, db) /\ fed \in Nat /\ Kept = clients
  BY DEF EventsInv, QueuesInv, Types, Kept
<1>2. /\ Sound(r, m, db) /\ r.handler = clients[q].handler
      /\ \A b : /\ \A e \in AppliedBy(b) : e.of \subseteq 1..fed
                /\ Continues(clients[q], b, fed, db)
                => Continues(r, b, m, db)
      /\ \A events, b : NextOf(events, clients[q], b) => NextOf(events, r, b)
      /\ \A b : b.last < clients[q].next /\ Contents(clients[q]) = {} => \A e \in Contents(r) : b.last < e.id
      /\ \A last : last \in Int /\ Ahead(clients[q], last) => Ahead(r, last)
  BY <1>1, PushIsSound
<1>3. r \in Descriptor /\ r.handler \in Conn \cup {None} /\ Contents(r) \in SUBSET Event
  BY <1>2 DEF Sound, Descriptor, Contents
<1>4. \A h \in Conn : conn[h].state \in {"sent", "held"} /\ conn[h].queue = q => Ahead(r, conn[h].last)
  <2>1. \A h \in Conn : conn[h].state \in {"sent", "held"} => conn[h].last \in Int
    BY RequestKinds DEF EventsInv, ConnInv, Asking
  <2> QED BY <1>2, <2>1 DEF EventsInv, ConnInv
<1>5. q = browser.queue => Continues(r, browser, m, db) /\ browser.last < clients[q].next
  BY <1>1, <1>2 DEF EventsInv, ContinuesInv, BrowserInv, Continues, Ahead
<1>6. q = browser.queue /\ Contents(clients[q]) = {} =>
        /\ MayFollow(Contents(r), browser, m, db)
        /\ NextOf(Contents(r), [Resolved(r) EXCEPT !.handler = None], browser)
  BY <1>2, <1>5, AllIsNext
<1> QED BY <1>2, <1>3, <1>4, <1>5, <1>6

LEMMA HeartbeatKeeps ==
  ASSUME Bounds, EventsInv, NEW q \in DOMAIN clients, Heartbeat(q)
  PROVE  EventsInv'
<1> USE DEF EventsInv
<1> DEFINE d == clients[q]
           h == d.handler
           r == Push(d, "heartbeat", {})
           e == [Resolved(r) EXCEPT !.handler = None]
           a == Answered(conn[h], Events(Contents(r)))
<1>1. /\ h # None /\ up = "up" /\ budget' = [budget EXCEPT !.beats = @ + 1]
      /\ clients' = [clients EXCEPT ![q] = e] /\ conn' = [conn EXCEPT ![h] = a]
      /\ db' = db /\ fed' = fed /\ up' = up /\ saved' = saved /\ allocated' = allocated
      /\ browser' = browser
  BY DEF Heartbeat
<1>2. Types' /\ fed \in Nat /\ (fed + 1)..fed = {} /\ "heartbeat" \in Own
  BY <1>1 DEF Types, Budget, Own
<1>3. h \in Conn /\ conn[h].state = "held" /\ conn[h].queue = q /\ Contents(d) = {}
  BY <1>1 DEF QueuesInv, Sound, Descriptor, ConnInv
<1>4. /\ Sound(r, fed, db) /\ r \in Descriptor /\ Contents(r) \in SUBSET Event
      /\ \A g \in Conn : conn[g].state \in {"sent", "held"} /\ conn[g].queue = q => Ahead(r, conn[g].last)
      /\ q = browser.queue => /\ Continues(r, browser, fed, db)
                              /\ MayFollow(Contents(r), browser, fed, db)
                              /\ NextOf(Contents(r), e, browser)
  <2>1. \A i \in (fed + 1)..fed : db[i] \in Compressed
    BY <1>2
  <2>2. r = Push(clients[q], "heartbeat", (fed + 1)..fed)
    BY <1>2
  <2> HIDE DEF EventsInv, r
  <2> QED BY <1>1, <1>2, <1>3, <2>1, <2>2, QueuePushed
<1> HIDE DEF r
<1>5. /\ Sound(e, fed, db) /\ e.handler = None
      /\ \A last : Ahead(r, last) => Ahead(e, last)
      /\ q = browser.queue => Continues(e, browser, fed, db)
  BY <1>4, ResolvedIsSound, ResolvedIs
<1>6. Events(Contents(r)) \in Answer /\ Events(Contents(r)).error = None /\ Events(Contents(r)).events = Contents(r)
  BY <1>4, EventsAnswer
<1>7. a \in Request /\ a.state \in {"idle", "answering"}
  BY <1>6, AnsweredIs
<1> HIDE DEF e
<1>8. /\ QueuesInv' /\ DOMAIN clients' = DOMAIN clients /\ clients'[q] = e
      /\ \A p \in DOMAIN clients : p # q => clients'[p] = clients[p]
      /\ Kept = clients /\ Kept' = clients'
  <2> HIDE DEF EventsInv
  <2> QED BY <1>1, <1>5, OneMoves
<1>9. conn' \in [Conn -> Request] /\ conn'[h] = a /\ \A g \in Conn : g # h => conn'[g] = conn[g]
  <2> HIDE DEF a, h
  <2> QED BY <1>1, <1>3, <1>7 DEF ConnInv
<1>10. ConnInv'
  <2>1. \A g \in Conn : conn'[g].state \in {"sent", "held"} => conn'[g] = conn[g] /\ g # h
    BY <1>7, <1>9
  <2>2. \A g \in Conn : conn'[g].state \in {"sent", "held"} =>
          /\ conn'[g].queue \in 1..allocated
          /\ conn'[g].queue = browser.queue => conn'[g].last <= browser.last
          /\ conn'[g].queue \in DOMAIN clients' => Ahead(clients'[conn'[g].queue], conn'[g].last)
    BY <1>4, <1>5, <1>8, <2>1 DEF ConnInv
  <2>3. \A g \in Conn : conn'[g].state = "held" =>
         conn'[g].queue \in DOMAIN clients' /\ clients'[conn'[g].queue].handler = g
    BY <1>8, <2>1 DEF ConnInv
  <2>4. \A p \in DOMAIN clients' : clients'[p].handler # None =>
         /\ conn'[clients'[p].handler].state = "held" /\ conn'[clients'[p].handler].queue = p
         /\ Contents(clients'[p]) = {}
    <3>1. ASSUME NEW p \in DOMAIN clients', clients'[p].handler # None
          PROVE  p # q /\ clients'[p] = clients[p] /\ conn'[clients'[p].handler] = conn[clients'[p].handler]
      <4>1. p # q /\ clients'[p] = clients[p]
        BY <1>5, <1>8, <3>1
      <4>2. clients[p].handler \in Conn /\ conn[clients[p].handler].queue = p
        BY <1>8, <3>1, <4>1 DEF QueuesInv, Sound, Descriptor, ConnInv
      <4> QED BY <1>3, <1>9, <4>1, <4>2
    <3> QED BY <1>8, <3>1 DEF ConnInv
  <2>5. allocated' = allocated /\ browser' = browser /\ up' = "up"
    BY <1>1
  <2> QED BY <1>9, <2>2, <2>3, <2>4, <2>5 DEF ConnInv
<1>11. BrowserInv'
  BY <1>1 DEF BrowserInv
<1>12. XhrInv'
  <2>1. CASE browser.xhr = h
    <3>1. conn[h].known = TRUE /\ q = browser.queue
      BY <1>1, <1>3, <2>1 DEF XhrInv
    <3>2. /\ up' # "down" /\ conn'[h] = Answered(conn[h], Events(Contents(r)))
          /\ MayFollow(Contents(r), browser, fed', db') /\ NextOf(Contents(r), Kept'[browser.queue], browser)
      BY <1>1, <1>4, <1>8, <1>9, <3>1
    <3> HIDE DEF h
    <3> QED BY <1>1, <1>3, <1>6, <2>1, <3>1, <3>2, XhrIsAnswered
  <2>2. CASE browser.xhr \notin {h, None}
    <3>1. browser.xhr \in Conn /\ conn'[browser.xhr] = conn[browser.xhr]
      BY <1>9, <2>2 DEF BrowserInv, Browser
    <3>2. \A events : q = browser.queue /\ NextOf(events, d, browser) => NextOf(events, e, browser)
      <4>1. \A events : NextOf(events, d, browser) => events = {}
        BY <1>3 DEF NextOf, Contents
      <4> QED BY <4>1 DEF NextOf
    <3> QED BY <1>1, <1>8, <2>2, <3>1, <3>2 DEF XhrInv
  <2>3. CASE browser.xhr = None
    BY <1>1, <2>3 DEF XhrInv
  <2> QED BY <2>1, <2>2, <2>3
<1>13. ContinuesInv'
  BY <1>1, <1>5, <1>8 DEF ContinuesInv
<1> QED BY <1>2, <1>8, <1>10, <1>11, <1>12, <1>13

\* Every queue gets the next event, and whoever waited on one is answered.
LEMMA ProcessEventKeeps ==
  ASSUME Bounds, MaxLate = 0, EventsInv, ProcessEvent
  PROVE  EventsInv'
<1> USE DEF EventsInv
<1> DEFINE m == fed + 1
           ds == [q \in DOMAIN clients |-> Push(clients[q], db[m], {m})]
           e(q) == [Resolved(ds[q]) EXCEPT !.handler = None]
           HandlerOf(h) == CHOOSE q \in DOMAIN ds : ds[q].handler = h
<1>1. /\ fed < Len(db) /\ up = "up" /\ budget' = budget /\ fed' = m
      /\ clients' = [q \in DOMAIN ds |-> IF ds[q].handler = None THEN ds[q] ELSE e(q)]
      /\ conn' = [h \in Conn |-> IF \E q \in DOMAIN ds : ds[q].handler = h
                                 THEN Answered(conn[h], Events(Contents(ds[HandlerOf(h)])))
                                 ELSE conn[h]]
      /\ db' = db /\ up' = up /\ saved' = saved /\ allocated' = allocated /\ browser' = browser
  BY DEF ProcessEvent, Runs, Types, Budget, AddEvent, FinishHandlers
<1>2. /\ fed \in Nat /\ m \in Nat /\ fed <= m /\ (fed + 1)..m = {m} /\ m \in 1..Len(db)
      /\ 1..fed \subseteq 1..m
      /\ db[m] \in Own /\ (db[m] \in Compressed => \A i \in (fed + 1)..m : db[i] \in Compressed)
  BY <1>1 DEF Types, Own
<1>3. Types'
  BY <1>1, <1>2 DEF Types
<1>4. DOMAIN ds = DOMAIN clients /\ \A q \in DOMAIN clients : ds[q] = Push(clients[q], db[m], (fed + 1)..m)
  BY <1>2
<1> HIDE DEF ds, m
<1>5. ASSUME NEW q \in DOMAIN clients
      PROVE  /\ Sound(ds[q], m, db) /\ ds[q] \in Descriptor /\ ds[q].handler = clients[q].handler
             /\ ds[q].handler \in Conn \cup {None}
             /\ Contents(ds[q]) \in SUBSET Event
             /\ \A h \in Conn : conn[h].state \in {"sent", "held"} /\ conn[h].queue = q => Ahead(ds[q], conn[h].last)
             /\ q = browser.queue => Continues(ds[q], browser, m, db)
             /\ \A events : q = browser.queue /\ NextOf(events, clients[q], browser) => NextOf(events, ds[q], browser)
             /\ q = browser.queue /\ Contents(clients[q]) = {} =>
                  /\ MayFollow(Contents(ds[q]), browser, m, db)
                  /\ NextOf(Contents(ds[q]), e(q), browser)
  <2>1. ds[q] = Push(clients[q], db[m], (fed + 1)..m)
    BY <1>4, <1>5
  <2> HIDE DEF EventsInv
  <2> QED BY <1>1, <1>2, <1>5, <2>1, QueuePushed
<1>6. ASSUME NEW q \in DOMAIN clients
      PROVE  /\ clients'[q] = IF clients[q].handler = None THEN ds[q] ELSE e(q)
             /\ Sound(clients'[q], m, db) /\ clients'[q].handler = None
             /\ \A last : Ahead(ds[q], last) => Ahead(clients'[q], last)
             /\ q = browser.queue => Continues(clients'[q], browser, m, db)
             /\ \A events : NextOf(events, ds[q], browser) => NextOf(events, clients'[q], browser)
  <2>1. clients'[q] = IF clients[q].handler = None THEN ds[q] ELSE e(q)
    BY <1>1, <1>4, <1>5, <1>6
  <2>2. /\ Sound(e(q), m, db) /\ e(q).handler = None
        /\ \A last : Ahead(ds[q], last) => Ahead(e(q), last)
        /\ \A b : Continues(ds[q], b, m, db) => Continues(e(q), b, m, db)
        /\ \A events, b : NextOf(events, ds[q], b) => NextOf(events, e(q), b)
    <3>1. PICK r : r = ds[q]
      OBVIOUS
    <3>2. Sound(r, m, db) /\ r \in Descriptor
      BY <1>5, <1>6, <3>1
    <3> DEFINE x == [Resolved(r) EXCEPT !.handler = None]
    <3>3. /\ Sound(x, m, db) /\ x.handler = None
          /\ \A last : Ahead(r, last) => Ahead(x, last)
          /\ \A b : Continues(r, b, m, db) => Continues(x, b, m, db)
          /\ \A events, b : NextOf(events, r, b) => NextOf(events, x, b)
      BY <3>2, ResolvedIsSound, ResolvedIs
    <3>4. x = e(q)
      BY <3>1
    <3> HIDE DEF x, e
    <3> QED BY <3>1, <3>3, <3>4
  <2> HIDE DEF e
  <2> QED BY <1>5, <1>6, <2>1, <2>2
<1> HIDE DEF e
<1>7. DOMAIN clients' = DOMAIN clients /\ clients' = [q \in DOMAIN clients' |-> clients'[q]]
  BY <1>1, <1>4
<1>8. QueuesInv'
  <2>1. \A q \in DOMAIN saved : Sound(saved[q], fed', db')
    BY <1>1 DEF QueuesInv
  <2> QED BY <1>1, <1>6, <1>7, <2>1 DEF QueuesInv
\* Who was held is answered; the others are as they were.
<1>9. ASSUME NEW h \in Conn
      PROVE  /\ conn'[h] \in Request
             /\ conn[h].state # "held" => conn'[h] = conn[h]
             /\ conn[h].state = "held" =>
                  /\ conn[h].queue \in DOMAIN clients /\ clients[conn[h].queue].handler = h
                  /\ conn'[h] = Answered(conn[h], Events(Contents(ds[conn[h].queue])))
                  /\ conn'[h].state \in {"idle", "answering"}
  <2>0. h # None /\ conn \in [Conn -> Request]
    BY DEF Bounds, None, ConnInv
  <2>1. \A q \in DOMAIN clients : ds[q].handler = h => conn[h].state = "held" /\ conn[h].queue = q
    BY <1>5, <2>0 DEF ConnInv
  <2>2. CASE conn[h].state # "held"
    BY <1>1, <1>4, <2>0, <2>1, <2>2
  <2>3. CASE conn[h].state = "held"
    <3> DEFINE q == conn[h].queue
    <3>1. q \in DOMAIN clients /\ clients[q].handler = h /\ ds[q].handler = h
      BY <1>5, <2>3 DEF ConnInv
    <3>2. HandlerOf(h) = q
      BY <1>4, <2>1, <3>1
    <3>3. conn'[h] = Answered(conn[h], Events(Contents(ds[q])))
      BY <1>1, <1>4, <3>1, <3>2
    <3>4. Events(Contents(ds[q])) \in Answer
      BY <1>5, <3>1, EventsAnswer
    <3>5. conn'[h] \in Request /\ conn'[h].state \in {"idle", "answering"}
      BY <3>3, <3>4, AnsweredIs
    <3> QED BY <2>3, <3>1, <3>3, <3>5
  <2> QED BY <2>2, <2>3
<1>10. ConnInv'
  <2>1. conn' \in [Conn -> Request]
    BY <1>1, <1>9
  <2>2. \A g \in Conn : conn'[g].state \in {"sent", "held"} => conn'[g] = conn[g] /\ conn[g].state # "held"
    BY <1>9
  <2>3. \A g \in Conn : conn'[g].state \in {"sent", "held"} =>
          /\ conn'[g].queue \in 1..allocated
          /\ conn'[g].queue = browser.queue => conn'[g].last <= browser.last
          /\ conn'[g].queue \in DOMAIN clients' => Ahead(clients'[conn'[g].queue], conn'[g].last)
    BY <1>5, <1>6, <1>7, <2>2 DEF ConnInv
  <2>4. allocated' = allocated /\ browser' = browser /\ up' = "up"
    BY <1>1
  <2> QED BY <1>6, <1>7, <2>1, <2>2, <2>3, <2>4 DEF ConnInv
<1>11. BrowserInv'
  <2>1. \A x \in AppliedBy(browser) : x.of \subseteq 1..m
    BY <1>2 DEF BrowserInv
  <2> QED BY <1>1, <2>1 DEF BrowserInv
<1>12. Kept = clients /\ Kept' = clients'
  BY <1>1 DEF Kept
<1>13. XhrInv'
  <2>1. CASE browser.xhr = None
    BY <1>1, <2>1 DEF XhrInv
  <2> DEFINE h == browser.xhr
  <2>2. CASE h # None /\ conn[h].state = "held"
    <3>1. h \in Conn
      BY <2>2 DEF BrowserInv, Browser
    <3>2. conn[h].known = TRUE /\ conn[h].queue = browser.queue
      BY <2>2 DEF XhrInv
    <3> DEFINE q == browser.queue
    <3>3. /\ q \in DOMAIN clients /\ clients[q].handler = h /\ Contents(clients[q]) = {}
          /\ conn'[h] = Answered(conn[h], Events(Contents(ds[q])))
      BY <1>9, <2>2, <3>1, <3>2 DEF ConnInv
    <3>4. /\ MayFollow(Contents(ds[q]), browser, m, db) /\ NextOf(Contents(ds[q]), clients'[q], browser)
          /\ Contents(ds[q]) \in SUBSET Event
      <4>1. clients'[q] = e(q)
        BY <1>6, <2>2, <3>3
      <4> HIDE DEF EventsInv, h
      <4>2. /\ MayFollow(Contents(ds[q]), browser, m, db) /\ NextOf(Contents(ds[q]), e(q), browser)
            /\ Contents(ds[q]) \in SUBSET Event
        BY <1>5, <3>3
      <4> QED BY <4>1, <4>2
    <3>5. Events(Contents(ds[q])) \in Answer /\ Events(Contents(ds[q])).error = None
          /\ Events(Contents(ds[q])).events = Contents(ds[q])
      BY <3>4, EventsAnswer
    <3>6. /\ up' # "down" /\ MayFollow(Contents(ds[q]), browser, fed', db')
          /\ NextOf(Contents(ds[q]), Kept'[browser.queue], browser) /\ browser' = browser
      <4>1. up' # "down" /\ fed' = m /\ db' = db /\ browser' = browser
        BY <1>1
      <4>2. MayFollow(Contents(ds[q]), browser, fed', db')
        BY <3>4, <4>1
      <4> QED BY <1>12, <3>4, <4>1, <4>2
    <3> QED BY <3>1, <3>2, <3>3, <3>5, <3>6, XhrIsAnswered
  <2>3. CASE h # None /\ conn[h].state # "held"
    <3>1. h \in Conn /\ conn'[h] = conn[h]
      BY <1>9, <2>3 DEF BrowserInv, Browser
    <3>2. \A events : MayFollow(events, browser, fed, db) => MayFollow(events, browser, m, db)
      BY <1>2 DEF MayFollow
    <3>3. \A events : browser.queue \in DOMAIN clients /\ NextOf(events, clients[browser.queue], browser)
                       => NextOf(events, clients'[browser.queue], browser)
      BY <1>5, <1>6
    <3> QED BY <1>1, <1>7, <1>12, <2>3, <3>1, <3>2, <3>3 DEF XhrInv
  <2> QED BY <2>1, <2>2, <2>3
<1>14. ContinuesInv'
  BY <1>1, <1>6, <1>7, <1>12 DEF ContinuesInv
<1> QED BY <1>3, <1>8, <1>10, <1>11, <1>13, <1>14

----------------------------------------------------------------------------
(* The poll.                                                                *)

\* A request that was sent is answered at once; the queues keep who waits on them.
LEMMA AskedAnswered ==
  ASSUME EventsInv, NEW h \in Conn, conn[h].state = "sent",
         NEW answer \in Answer, NEW c, conn' = [conn EXCEPT ![h] = Answered(c, answer)],
         DOMAIN clients' = DOMAIN clients,
         \A q \in DOMAIN clients :
           /\ clients'[q].handler = clients[q].handler
           /\ Contents(clients'[q]) \subseteq Contents(clients[q])
           /\ \A last : Ahead(clients[q], last) => Ahead(clients'[q], last),
         allocated' = allocated, browser' = browser, up' = "up"
  PROVE  /\ ConnInv' /\ conn'[h] = Answered(c, answer)
         /\ \A g \in Conn : g # h => conn'[g] = conn[g]
<1> DEFINE a == Answered(c, answer)
<1>1. a \in Request /\ a.state \in {"idle", "answering"}
  BY AnsweredIs
<1> HIDE DEF a
<1>2. conn' \in [Conn -> Request] /\ conn'[h] = a /\ \A g \in Conn : g # h => conn'[g] = conn[g]
  BY <1>1 DEF EventsInv, ConnInv, a
<1>3. \A g \in Conn : conn'[g].state \in {"sent", "held"} => conn'[g] = conn[g]
  BY <1>1, <1>2
<1>4. \A g \in Conn : conn'[g].state \in {"sent", "held"} =>
          /\ conn'[g].queue \in 1..allocated
          /\ conn'[g].queue = browser.queue => conn'[g].last <= browser.last
          /\ conn'[g].queue \in DOMAIN clients' => Ahead(clients'[conn'[g].queue], conn'[g].last)
  BY <1>3 DEF EventsInv, ConnInv
<1>5. \A g \in Conn : conn'[g].state = "held" =>
         conn'[g].queue \in DOMAIN clients' /\ clients'[conn'[g].queue].handler = g
  BY <1>3 DEF EventsInv, ConnInv
<1>6. \A q \in DOMAIN clients' : clients'[q].handler # None =>
         /\ conn'[clients'[q].handler].state = "held" /\ conn'[clients'[q].handler].queue = q
         /\ Contents(clients'[q]) = {}
  <2>1. \A q \in DOMAIN clients : clients[q].handler # None =>
          clients[q].handler # h /\ clients[q].handler \in Conn
    BY DEF EventsInv, ConnInv, QueuesInv, Sound, Descriptor
  <2> QED BY <1>2, <2>1 DEF EventsInv, ConnInv
<1> QED BY <1>2, <1>4, <1>5, <1>6 DEF ConnInv, a

\* A refusal: of a queue that is gone, or of an id that is not the client's.
LEMMA RefusedKeeps ==
  ASSUME Bounds, EventsInv, NEW h \in Conn, conn[h].state = "sent", up = "up", up' = up,
         NEW code \in {"bad_queue", "pruned", "not_in_queue"},
         conn' = [conn EXCEPT ![h] = Answered(conn[h], Error(code))],
         code = "bad_queue" \/ browser.xhr # h,
         db' = db, fed' = fed, saved' = saved, allocated' = allocated, browser' = browser,
         QueuesInv', Types', DOMAIN clients' = DOMAIN clients,
         \A q \in DOMAIN clients :
           /\ clients'[q].handler = clients[q].handler
           /\ Contents(clients'[q]) \subseteq Contents(clients[q])
           /\ \A last : Ahead(clients[q], last) => Ahead(clients'[q], last)
           /\ q = browser.queue /\ Continues(clients[q], browser, fed, db) => Continues(clients'[q], browser, fed, db)
           /\ \A events : q = browser.queue /\ NextOf(events, clients[q], browser) => NextOf(events, clients'[q], browser)
  PROVE  EventsInv'
<1>1. Error(code) \in Answer /\ Error(code).error = code /\ Error(code).events = {}
  BY ErrorAnswer
<1>2. /\ ConnInv' /\ conn'[h] = Answered(conn[h], Error(code))
      /\ \A g \in Conn : g # h => conn'[g] = conn[g]
  BY <1>1, AskedAnswered
<1>3. BrowserInv'
  BY DEF EventsInv, BrowserInv
<1>4. Kept = clients /\ Kept' = clients'
  BY DEF Kept
<1>5. XhrInv'
  <2>1. CASE browser.xhr = None
    BY <2>1 DEF XhrInv
  <2>2. CASE browser.xhr = h
    <3>1. conn[h].known = TRUE
      BY <2>2 DEF EventsInv, XhrInv, Bounds, None
    <3>2. MayFollow({}, browser, fed, db) /\ \A d : NextOf({}, d, browser)
      BY DEF MayFollow, NextOf, InTurn
    <3> QED BY <1>1, <1>2, <2>2, <3>1, <3>2, XhrIsAnswered
  <2>3. CASE browser.xhr \notin {None, h}
    <3>1. conn'[browser.xhr] = conn[browser.xhr]
      BY <1>2, <2>3 DEF EventsInv, BrowserInv, Browser
    <3> QED BY <1>4, <2>3, <3>1 DEF EventsInv, XhrInv
  <2> QED BY <2>1, <2>2, <2>3
<1>6. ContinuesInv'
  BY <1>4 DEF EventsInv, ContinuesInv
<1> QED BY <1>2, <1>3, <1>5, <1>6 DEF EventsInv

\* What a poll finds: a queue d, and e, what is left of it without what is acknowledged.
Polled(h, d, e) ==
  /\ conn[h].state = "sent" /\ conn[h].queue \in DOMAIN clients
  /\ d = clients[conn[h].queue] /\ e = Prune(d, conn[h].last)

LEMMA PolledQueue ==
  ASSUME Bounds, EventsInv, up = "up", NEW h \in Conn, NEW d, NEW e, Polled(h, d, e)
  PROVE  /\ Sound(d, fed, db) /\ Sound(e, fed, db) /\ e.handler = d.handler
         /\ d.handler \in Conn \cup {None} /\ Contents(e) \subseteq Contents(d)
         /\ Contents(e) \in SUBSET Event
         /\ \A last : Ahead(d, last) => Ahead(e, last)
         /\ conn[h].queue = browser.queue =>
              /\ Continues(d, browser, fed, db) /\ Continues(e, browser, fed, db)
              /\ \A events : NextOf(events, d, browser) => NextOf(events, e, browser)
         /\ browser.xhr = h =>
              /\ conn[h].queue = browser.queue /\ conn[h].last = browser.last
              /\ d.pruned <= conn[h].last /\ e.pruned = conn[h].last
              /\ \A x \in Contents(e) : browser.last < x.id
<1> DEFINE c == conn[h]
<1>1. /\ Sound(d, fed, db) /\ d.handler \in Conn \cup {None} /\ Ahead(d, c.last)
      /\ c.queue = browser.queue => Continues(d, browser, fed, db) /\ c.last <= browser.last
  BY DEF Polled, EventsInv, QueuesInv, Sound, Descriptor, ConnInv, ContinuesInv, Kept
<1>2. c.last \in Int /\ browser.last \in Int
  BY RequestKinds DEF Polled, EventsInv, ConnInv, Asking, BrowserInv, Browser
<1>3. /\ Sound(e, fed, db) /\ e.handler = d.handler /\ e.next = d.next
      /\ Contents(e) \subseteq Contents(d)
      /\ \A b : b.last \in Int /\ c.last <= b.last /\ Continues(d, b, fed, db) => Continues(e, b, fed, db)
      /\ \A events, b : b.last \in Int /\ c.last <= b.last /\ NextOf(events, d, b) => NextOf(events, e, b)
      /\ \A b : c.last = b.last /\ Continues(d, b, fed, db) =>
           e.pruned = b.last /\ \A x \in Contents(e) : b.last < x.id
      /\ \A last : Ahead(d, last) => Ahead(e, last)
  <2> HIDE DEF c
  <2>1. e = Prune(d, c.last)
    BY DEF c, Polled
  <2> QED BY <1>1, <1>2, <2>1, PruneIsSound
<1>5. Contents(e) \in SUBSET Event
  BY <1>3 DEF Sound, Descriptor, Contents
<1>6. browser.xhr = h => c.queue = browser.queue /\ c.last = browser.last
  BY DEF Polled, EventsInv, XhrInv, Bounds, None
<1> QED BY <1>1, <1>2, <1>3, <1>5, <1>6 DEF Continues

\* The poll is good: it takes over the queue, and waits or has its answer.
Accepts(h, e, waits) ==
  /\ clients' = [clients EXCEPT ![conn[h].queue] =
                   [Resolved(e) EXCEPT !.handler = IF waits THEN h ELSE None]]
  /\ conn' = [g \in Conn |->
                IF g = h THEN IF waits THEN [conn[h] EXCEPT !.state = "held"]
                              ELSE Answered(conn[h], Events(Contents(e)))
                ELSE IF g = e.handler THEN Answered(conn[g], Events(Contents(e))) ELSE conn[g]]

LEMMA PollAcceptedKeeps ==
  ASSUME Bounds, EventsInv, up = "up", up' = up,
         NEW h \in Conn, NEW d, NEW e, Polled(h, d, e),
         NEW waits \in BOOLEAN, waits => Contents(e) = {}, Accepts(h, e, waits),
         db' = db, fed' = fed, saved' = saved, allocated' = allocated, browser' = browser, Types'
  PROVE  EventsInv'
<1> USE DEF EventsInv
<1> DEFINE q == conn[h].queue
           w == IF waits THEN h ELSE None
           x == [Resolved(e) EXCEPT !.handler = w]
<1>0. conn[h].state = "sent" /\ q \in DOMAIN clients /\ clients[q] = d
  BY DEF Polled
<1>1. /\ Sound(d, fed, db) /\ Sound(e, fed, db) /\ e.handler = d.handler
      /\ d.handler \in Conn \cup {None} /\ Contents(e) \subseteq Contents(d)
      /\ Contents(e) \in SUBSET Event
      /\ \A last : Ahead(d, last) => Ahead(e, last)
      /\ q = browser.queue =>
           /\ Continues(d, browser, fed, db) /\ Continues(e, browser, fed, db)
           /\ \A events : NextOf(events, d, browser) => NextOf(events, e, browser)
      /\ browser.xhr = h =>
           /\ q = browser.queue /\ conn[h].last = browser.last
           /\ \A y \in Contents(e) : browser.last < y.id
  <2> HIDE DEF EventsInv, w, x
  <2> QED BY PolledQueue
<1>2. w \in Conn \cup {None} /\ h # None
  BY DEF Bounds, None
<1>3. /\ Sound(x, fed, db) /\ x.handler = w /\ Contents(x) = Contents(e)
      /\ \A last : Ahead(e, last) => Ahead(x, last)
      /\ \A b : Continues(e, b, fed, db) => Continues(x, b, fed, db)
      /\ \A events, b : NextOf(events, e, b) => NextOf(events, x, b)
  <2> HIDE DEF w
  <2>1. e \in Descriptor
    BY <1>1 DEF Sound
  <2> QED BY <1>1, <1>2, <2>1, ResolvedIsSound, ResolvedIs
<1>4. browser.xhr = h => MayFollow(Contents(e), browser, fed, db) /\ NextOf(Contents(e), x, browser)
  <2> HIDE DEF w
  <2> QED BY <1>1, <1>2, AllIsNext
<1> HIDE DEF x
<1>5. /\ QueuesInv' /\ DOMAIN clients' = DOMAIN clients /\ clients'[q] = x
      /\ \A r \in DOMAIN clients : r # q => clients'[r] = clients[r]
      /\ Kept = clients /\ Kept' = clients'
  <2>1. clients' = [clients EXCEPT ![q] = x] /\ q \in DOMAIN clients
    BY DEF x, Accepts, Polled
  <2> HIDE DEF EventsInv
  <2> QED BY <1>3, <2>1, OneMoves
\* The answers.
<1>6. Events(Contents(e)) \in Answer /\ Events(Contents(e)).error = None
      /\ Events(Contents(e)).events = Contents(e)
  BY <1>1, EventsAnswer
<1>7. /\ conn[h] \in Asking
      /\ waits => /\ conn'[h] \in Request /\ conn'[h].state = "held" /\ conn'[h].queue = q
                  /\ conn'[h].last = conn[h].last /\ conn'[h].known = conn[h].known /\ conn'[h] # Idle
      /\ ~waits => /\ conn'[h] = Answered(conn[h], Events(Contents(e)))
                   /\ conn'[h] \in Request /\ conn'[h].state \in {"idle", "answering"}
  <2>1. conn[h] \in Asking
    BY RequestKinds DEF ConnInv, Polled
  <2>2. ASSUME waits
        PROVE  /\ conn'[h] \in Request /\ conn'[h].state = "held" /\ conn'[h].queue = q
               /\ conn'[h].last = conn[h].last /\ conn'[h].known = conn[h].known /\ conn'[h] # Idle
    <3>1. conn'[h] = [conn[h] EXCEPT !.state = "held"]
      BY <2>2 DEF Accepts
    <3> QED BY <2>1, <3>1 DEF Asking, Request, Idle
  <2>3. ASSUME ~waits
        PROVE  /\ conn'[h] = Answered(conn[h], Events(Contents(e)))
               /\ conn'[h] \in Request /\ conn'[h].state \in {"idle", "answering"}
    <3> HIDE DEF EventsInv, q, w, x
    <3>1. conn'[h] = Answered(conn[h], Events(Contents(e)))
      BY <2>3 DEF Accepts
    <3> QED BY <1>6, <3>1, AnsweredIs
  <2> QED BY <2>1, <2>2, <2>3
<1>8. \A g \in Conn : clients[q].handler = g =>
        /\ g # h /\ conn[g].state = "held" /\ conn[g].queue = q /\ Contents(e) = {}
        /\ conn'[g] = Answered(conn[g], Events(Contents(e)))
        /\ conn'[g] \in Request /\ conn'[g].state \in {"idle", "answering"}
  <2>1. ASSUME NEW g \in Conn, clients[q].handler = g
        PROVE  /\ g # h /\ conn[g].state = "held" /\ conn[g].queue = q /\ Contents(d) = {}
    BY <1>0, <2>1 DEF Bounds, None, ConnInv
  <2>2. ASSUME NEW g \in Conn, clients[q].handler = g
        PROVE  conn'[g] = Answered(conn[g], Events(Contents(e)))
    BY <1>0, <1>1, <2>1, <2>2 DEF Accepts
  <2>3. \A g \in Conn : LET a == Answered(conn[g], Events(Contents(e)))
                        IN  a \in Request /\ a.state \in {"idle", "answering"}
    BY <1>6, AnsweredIs
  <2>4. Contents(d) = {} => Contents(e) = {}
    BY <1>1
  <2> HIDE DEF EventsInv, q, w, x
  <2> QED BY <2>1, <2>2, <2>3, <2>4
<1>9. \A g \in Conn : g # h /\ clients[q].handler # g => conn'[g] = conn[g]
  BY <1>1 DEF Accepts, Polled
<1>10. ConnInv'
  <2>1. conn' \in [Conn -> Request]
    <3>1. \A g \in Conn : conn'[g] \in Request
      BY <1>7, <1>8, <1>9 DEF ConnInv
    <3> QED BY <3>1 DEF Accepts
  <2>2. \A g \in Conn : conn'[g].state \in {"sent", "held"} =>
          /\ g = h => waits
          /\ g # h => conn'[g] = conn[g] /\ clients[q].handler # g
    BY <1>7, <1>8, <1>9
  <2>3. \A last : Ahead(d, last) => Ahead(x, last)
    BY <1>1, <1>3
  <2>4. \A g \in Conn : conn'[g].state \in {"sent", "held"} =>
          /\ conn'[g].queue = conn[g].queue /\ conn'[g].last = conn[g].last
          /\ conn[g].state \in {"sent", "held"}
    BY <1>0, <1>7, <2>2
  <2>5. \A g \in Conn : conn'[g].state \in {"sent", "held"} =>
          /\ conn'[g].queue \in 1..allocated
          /\ conn'[g].queue = browser.queue => conn'[g].last <= browser.last
          /\ conn'[g].queue \in DOMAIN clients' => Ahead(clients'[conn'[g].queue], conn'[g].last)
    BY <1>0, <1>5, <2>3, <2>4 DEF ConnInv
  <2>6. \A g \in Conn : conn'[g].state = "held" =>
         conn'[g].queue \in DOMAIN clients' /\ clients'[conn'[g].queue].handler = g
    BY <1>0, <1>3, <1>5, <1>7, <2>2 DEF ConnInv
  <2>7. \A r \in DOMAIN clients' : clients'[r].handler # None =>
         /\ conn'[clients'[r].handler].state = "held" /\ conn'[clients'[r].handler].queue = r
         /\ Contents(clients'[r]) = {}
    <3>1. CASE waits
      <4>1. clients'[q].handler = h /\ Contents(clients'[q]) = {} /\ conn'[h].state = "held" /\ conn'[h].queue = q
        BY <1>3, <1>5, <1>7, <3>1
      <4>2. ASSUME NEW r \in DOMAIN clients, r # q, clients[r].handler # None
            PROVE  conn'[clients[r].handler] = conn[clients[r].handler]
        <5>1. clients[r].handler \in Conn /\ conn[clients[r].handler].state = "held" /\ conn[clients[r].handler].queue = r
          BY <4>2 DEF QueuesInv, Sound, Descriptor, ConnInv
        <5> QED BY <1>8, <1>9, <4>2, <5>1
      <4> QED BY <1>5, <4>1, <4>2 DEF ConnInv
    <3>2. CASE ~waits
      <4>1. clients'[q].handler = None
        BY <1>3, <1>5, <3>2
      <4>3. \A r \in DOMAIN clients' : clients'[r].handler # None =>
              r # q /\ r \in DOMAIN clients /\ clients'[r] = clients[r]
        <5> HIDE DEF EventsInv, q, w, x
        <5> QED BY <1>5, <4>1
      <4>2. ASSUME NEW r \in DOMAIN clients, r # q, clients[r].handler # None
            PROVE  conn'[clients[r].handler] = conn[clients[r].handler]
        <5>1. clients[r].handler \in Conn /\ conn[clients[r].handler].state = "held" /\ conn[clients[r].handler].queue = r
          BY <4>2 DEF QueuesInv, Sound, Descriptor, ConnInv
        <5> QED BY <1>8, <1>9, <4>2, <5>1
      <4> QED BY <4>3, <4>2 DEF ConnInv
    <3> QED BY <3>1, <3>2
  <2>8. allocated' = allocated /\ browser' = browser /\ up' = "up"
    OBVIOUS
  <2> HIDE DEF EventsInv, q, w, x
  <2> QED BY <2>1, <2>5, <2>6, <2>7, <2>8 DEF ConnInv
<1>11. BrowserInv'
  BY DEF BrowserInv
<1>12. XhrInv'
  <2>1. CASE browser.xhr = None
    BY <2>1 DEF XhrInv
  <2>2. CASE browser.xhr = h
    <3>1. conn[h].known = TRUE
      BY <1>2, <2>2 DEF XhrInv, Polled
    <3>2. CASE waits
      BY <1>1, <1>7, <2>2, <3>1, <3>2 DEF XhrInv
    <3>3. CASE ~waits
      <4>1. NextOf(Contents(e), Kept'[browser.queue], browser) /\ MayFollow(Contents(e), browser, fed', db')
        BY <1>1, <1>4, <1>5, <2>2
      <4>2. conn'[h] = Answered(conn[h], Events(Contents(e))) /\ up' # "down"
        BY <1>7, <3>3
      <4> HIDE DEF EventsInv
      <4> QED BY <1>6, <2>2, <3>1, <4>1, <4>2, XhrIsAnswered
    <3> QED BY <3>2, <3>3
  <2>3. CASE browser.xhr = clients[q].handler /\ browser.xhr # None
    <3>1. /\ browser.xhr \in Conn /\ conn[browser.xhr].known = TRUE /\ Contents(e) = {}
          /\ conn'[browser.xhr] = Answered(conn[browser.xhr], Events(Contents(e)))
      BY <1>8, <2>3 DEF XhrInv, BrowserInv, Browser
    <3>2. MayFollow({}, browser, fed, db) /\ \A r : NextOf({}, r, browser)
      BY DEF MayFollow, NextOf, InTurn
    <3> HIDE DEF EventsInv
    <3> QED BY <1>6, <3>1, <3>2, XhrIsAnswered
  <2>4. CASE browser.xhr \notin {None, h, clients[q].handler}
    <3>1. browser.xhr \in Conn /\ conn'[browser.xhr] = conn[browser.xhr]
      BY <1>9, <2>4 DEF BrowserInv, Browser
    <3>2. \A events : browser.queue \in DOMAIN clients /\ NextOf(events, clients[browser.queue], browser)
                       => NextOf(events, clients'[browser.queue], browser)
      BY <1>0, <1>1, <1>3, <1>5
    <3> QED BY <1>5, <2>4, <3>1, <3>2 DEF XhrInv
  <2> QED BY <2>1, <2>2, <2>3, <2>4
<1>13. ContinuesInv'
  BY <1>0, <1>1, <1>3, <1>5 DEF ContinuesInv
<1> QED BY <1>5, <1>10, <1>11, <1>12, <1>13

LEMMA FetchEventsKeeps ==
  ASSUME Bounds, MaxLate = 0, EventsInv, NEW h \in Conn, FetchEvents(h)
  PROVE  EventsInv'
<1> DEFINE c == conn[h]
<1>d. PICK d : d = clients[c.queue]
  OBVIOUS
<1>e. PICK e : e = Prune(d, c.last)
  OBVIOUS
<1>1. /\ c.state = "sent" /\ up = "up" /\ budget' = budget
      /\ db' = db /\ fed' = fed /\ up' = up /\ saved' = saved /\ allocated' = allocated
      /\ browser' = browser
  BY DEF FetchEvents, Runs, EventsInv, Types, Budget
<1>2. Types'
  BY <1>1 DEF EventsInv, Types
<1>3. h # None
  BY DEF Bounds, None
<1>4. CASE /\ c.queue \notin DOMAIN clients /\ clients' = clients
           /\ conn' = [conn EXCEPT ![h] = Answered(c, Error("bad_queue"))]
  <2>1. QueuesInv'
    BY <1>1, <1>4 DEF EventsInv, QueuesInv
  <2> QED BY <1>1, <1>2, <1>4, <2>1, RefusedKeeps
<1>p. ASSUME c.queue \in DOMAIN clients
      PROVE  /\ Sound(d, fed, db) /\ Sound(e, fed, db) /\ e.handler = d.handler
             /\ Contents(e) \subseteq Contents(d)
             /\ \A last : Ahead(d, last) => Ahead(e, last)
             /\ c.queue = browser.queue =>
                  /\ Continues(d, browser, fed, db) /\ Continues(e, browser, fed, db)
                  /\ \A events : NextOf(events, d, browser) => NextOf(events, e, browser)
             /\ browser.xhr = h => d.pruned <= c.last /\ e.pruned = c.last
             /\ c.last \in Int /\ d.pruned \in Int
  <2>1. c.last \in Int
    BY <1>1, RequestKinds DEF EventsInv, ConnInv, Asking
  <2>2. Sound(d, fed, db)
    BY <1>d, <1>p DEF EventsInv, QueuesInv
  <2>3. d.pruned \in Int
    BY <2>2 DEF Sound, Descriptor
  <2> QED BY <1>d, <1>e, <1>p, <1>1, <2>1, <2>3, PolledQueue DEF Polled
<1>5. CASE /\ c.queue \in DOMAIN clients /\ clients' = clients /\ c.last < d.pruned
           /\ conn' = [conn EXCEPT ![h] = Answered(c, Error("pruned"))]
  <2>1. QueuesInv'
    BY <1>1, <1>5 DEF EventsInv, QueuesInv
  <2>2. browser.xhr # h
    BY <1>5, <1>p
  <2> QED BY <1>1, <1>2, <1>5, <2>1, <2>2, RefusedKeeps
<1>6. CASE /\ c.queue \in DOMAIN clients /\ clients' = [clients EXCEPT ![c.queue] = e]
           /\ e.pruned # c.last
           /\ conn' = [conn EXCEPT ![h] = Answered(c, Error("not_in_queue"))]
  <2>1. /\ Sound(e, fed, db) /\ e.handler = d.handler /\ Contents(e) \subseteq Contents(d)
        /\ \A last : Ahead(d, last) => Ahead(e, last)
        /\ c.queue = browser.queue =>
              /\ Continues(d, browser, fed, db) /\ Continues(e, browser, fed, db)
              /\ \A events : NextOf(events, d, browser) => NextOf(events, e, browser)
        /\ browser.xhr # h
    BY <1>6, <1>p
  <2>2. /\ QueuesInv' /\ DOMAIN clients' = DOMAIN clients /\ clients'[c.queue] = e
        /\ \A r \in DOMAIN clients : r # c.queue => clients'[r] = clients[r]
    BY <1>1, <1>6, <2>1, OneMoves
  <2>3. \A q \in DOMAIN clients :
           /\ clients'[q].handler = clients[q].handler
           /\ Contents(clients'[q]) \subseteq Contents(clients[q])
           /\ \A last : Ahead(clients[q], last) => Ahead(clients'[q], last)
           /\ q = browser.queue /\ Continues(clients[q], browser, fed, db) => Continues(clients'[q], browser, fed, db)
           /\ \A events : q = browser.queue /\ NextOf(events, clients[q], browser) => NextOf(events, clients'[q], browser)
    BY <1>d, <2>1, <2>2
  <2> QED BY <1>1, <1>2, <1>6, <2>1, <2>2, <2>3, RefusedKeeps
<1> DEFINE waits == Empty(e) /\ c.block
           others == [g \in Conn |-> IF g = e.handler THEN Answered(conn[g], Events(Contents(e))) ELSE conn[g]]
<1>7. CASE /\ c.queue \in DOMAIN clients
           /\ clients' = [clients EXCEPT ![c.queue] = [Resolved(e) EXCEPT !.handler = IF waits THEN h ELSE None]]
           /\ conn' = [others EXCEPT ![h] = IF waits THEN [c EXCEPT !.state = "held"]
                                            ELSE Answered(c, Events(Contents(e)))]
  <2>1. waits \in BOOLEAN /\ (waits => Contents(e) = {})
    BY DEF Empty
  <2>2. Accepts(h, e, waits)
    <3> HIDE DEF waits
    <3> QED BY <1>7 DEF Accepts
  <2>3. Polled(h, d, e)
    BY <1>d, <1>e, <1>1, <1>7 DEF Polled
  <2> HIDE DEF waits, others
  <2> QED BY <1>1, <1>2, <2>1, <2>2, <2>3, PollAcceptedKeeps
<1> QED BY <1>d, <1>e, <1>1, <1>4, <1>5, <1>6, <1>7 DEF FetchEvents

----------------------------------------------------------------------------
LEMMA EventsStutter ==
  ASSUME EventsInv, UNCHANGED vars
  PROVE  EventsInv'
<1> USE DEF EventsInv, vars
<1>1. Types'
  BY DEF Types
<1>2. QueuesInv'
  BY DEF QueuesInv
<1>3. ConnInv'
  BY DEF ConnInv
<1>4. BrowserInv'
  BY DEF BrowserInv
<1>5. Kept' = Kept
  BY DEF Kept
<1>6. XhrInv' /\ ContinuesInv'
  BY <1>5 DEF XhrInv, ContinuesInv
<1> QED BY <1>1, <1>2, <1>3, <1>4, <1>6

LEMMA EventsStep ==
  ASSUME Bounds, MaxLate = 0, EventsInv, [Next]_vars
  PROVE  EventsInv'
<1>1. CASE \E type \in EventTypes : Publish(type)
  BY <1>1, PublishKeeps
<1>2. CASE ProcessEvent
  BY <1>2, ProcessEventKeeps
<1>3. ASSUME NEW q \in DOMAIN clients, Heartbeat(q) \/ GcEventQueue(q) \/ CleanupEventQueue(q)
      PROVE  EventsInv'
  BY <1>3, HeartbeatKeeps, GcEventQueueKeeps, CleanupEventQueueKeeps
<1>4. ASSUME NEW h \in Conn, FetchEvents(h) \/ OnConnectionClose(h) \/ Poll(h) \/ Receive(h)
      PROVE  EventsInv'
  BY <1>4, FetchEventsKeeps, OnConnectionCloseKeeps, PollKeeps, ReceiveKeeps
<1>5. CASE Register
  BY <1>5, AllocateQueueKeeps, FetchInitialStateKeeps, GetUserEventsKeeps DEF Register
<1>6. CASE Stop \/ Crash \/ Restart
  BY <1>6, StopKeeps, CrashKeeps, ExitKeeps, SetupEventQueueKeeps DEF Restart
<1>7. CASE GiveUp \/ Reload
  BY <1>7, GiveUpKeeps, ReloadKeeps
<1>8. CASE UNCHANGED vars
  BY <1>8, EventsStutter
<1> QED BY <1>1, <1>2, <1>3, <1>4, <1>5, <1>6, <1>7, <1>8 DEF Next

(* What the invariant says to who knows only of the queues.                 *)
LEMMA EventsOnce ==
  ASSUME EventsInv
  PROVE  EventsOnceInOrder
<1>1. NothingSkipped
  <2> SUFFICES ASSUME browser.stage \in {"fetched", "polling"}, browser.queue \in DOMAIN Kept
               PROVE  1..fed \subseteq 1..browser.snapshot \cup Carried(Applied)
                                          \cup Carried(Contents(Kept[browser.queue]))
    BY DEF NothingSkipped
  <2>1. Carried(Pending(Kept[browser.queue], browser)) \subseteq Carried(Contents(Kept[browser.queue]))
    BY DEF Carried, Pending
  <2>2. Applied = AppliedBy(browser)
    BY DEF Applied, AppliedBy
  <2> QED BY <2>1, <2>2 DEF EventsInv, ContinuesInv, Continues
<1>2. AppliedOnceInOrder
  BY DEF EventsInv, BrowserInv, OnceInOrder, AppliedOnceInOrder
<1> QED BY <1>1, <1>2 DEF EventsOnceInOrder

LEMMA EventsNotStuck ==
  ASSUME Bounds, EventsInv
  PROVE  NoClientIsStuck
<1>1. NoDeadEnd
  BY DEF NoDeadEnd, EventsInv, XhrInv, Bounds, None
<1>2. HeldIsCurrent
  BY DEF HeldIsCurrent, EventsInv, ConnInv
<1> QED BY <1>1, <1>2 DEF NoClientIsStuck

LEMMA EventsKeepTypes ==
  ASSUME EventsInv
  PROVE  TypeOK
<1>1. ASSUME NEW ds, DOMAIN ds \subseteq 1..allocated, NEW q \in DOMAIN ds, Sound(ds[q], fed, db)
      PROVE  /\ q \in 1..allocated /\ ds[q].handler \in Conn \cup {None}
             /\ \A e, f \in Contents(ds[q]) : e.id = f.id => e = f
             /\ \A e \in Contents(ds[q]) :
                  /\ e.id \in (ds[q].pruned + 1)..(ds[q].next - 1)
                  /\ e.type \in Own /\ e.of \subseteq 1..fed
  <2>1. PICK d : d = ds[q]
    OBVIOUS
  <2>2. /\ d \in Descriptor /\ Contents(d) \in SUBSET Event
    BY <1>1, <2>1 DEF Sound, Descriptor, Contents
  <2>3. \A e \in Contents(d) : e.id \in Nat /\ e.type \in Own
    BY <2>2 DEF Event
  <2>4. d.pruned \in Int /\ d.next \in Nat /\ d.handler \in Conn \cup {None}
    BY <2>2 DEF Descriptor
  <2>5. \A e, f \in Contents(d) : e.id = f.id => e = f
    BY <1>1, <2>1, <2>3 DEF Sound, InTurn
  <2>6. \A e \in Contents(d) : e.id \in (d.pruned + 1)..(d.next - 1) /\ e.of \subseteq 1..fed
    BY <1>1, <2>1, <2>3, <2>4 DEF Sound
  <2> QED BY <1>1, <2>1, <2>3, <2>4, <2>5, <2>6
<1>2. \A ds \in {clients, saved} : DOMAIN ds \subseteq 1..allocated /\ \A q \in DOMAIN ds : Sound(ds[q], fed, db)
  BY DEF EventsInv, QueuesInv
<1>3. browser.stage \in {"new", "allocated", "fetched", "polling"} /\ browser.xhr \in Conn \cup {None}
  BY DEF EventsInv, BrowserInv, Browser
<1> QED BY <1>1, <1>2, <1>3 DEF TypeOK, EventsInv, Types
=============================================================================
