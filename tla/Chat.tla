--------------------------------- MODULE Chat ---------------------------------
(***************************************************************************)
(* The parts of the chat server that deliver: the event queues of Tornado  *)
(* and their clients (EventQueues), the notification of what a queue of a  *)
(* browser or of a phone was not asked for (QueueNotifications), push      *)
(* notifications (MobilePush), mails of missed messages                    *)
(* (MissedMessageEmails) and scheduled messages (ScheduledMessages).  The  *)
(* components share no variables here: a behaviour picks one part in its   *)
(* initial state, moves it, and leaves the others in theirs, so that its   *)
(* states are the states of each part, one after the other.                *)
(***************************************************************************)
EXTENDS Naturals, Sequences

CONSTANTS
  Parts,                                            \* those that move
  EventTypes, Compressed, Conn, MaxEvents, MaxBeats, EventFaults,  \* of EventQueues
  Queue, Deaf, MaxMessages, MaxRestarts,            \* of QueueNotifications
  Pushed, MaxRetries, MaxAdds, MaxMarks, PushFaults, MaxCrashes,  \* of MobilePush
  Owner, MaxReads, MailFaults, MaxStops,            \* of MissedMessageEmails
  MaxRows, Reminders, Broken, Editor, MaxTime, MaxVersion, DeliveryFaults  \* of ScheduledMessages

VARIABLE part

\* Tornado does nothing after it wrote its queues out: see the README for what happens if it does.
VARIABLES db, fed, up, clients, saved, allocated, conn, browser, budget
Events == INSTANCE EventQueuesProofs WITH MaxFaults <- EventFaults, MaxLate <- 0

VARIABLES queues, processed, early, told, seen, restarts
\* The queues of browsers; and those of mobile clients, some of which take no messages.
Web    == INSTANCE QueueNotificationsProofs WITH Mobile <- {}, Deaf <- {}, Leaving <- Queue
Mobile == INSTANCE QueueNotificationsProofs WITH Mobile <- Queue, Leaving <- {}

VARIABLES um, notices, stage, device, sweeping, lost, spent
Push == INSTANCE MobilePush
          WITH Message <- Pushed, MaxFaults <- PushFaults, queue <- notices, budget <- spent

VARIABLES published, mailQueue, main, handler, lock, cv, rows, created, mailer, running, read,
          deleted, mailed, mailHistory, mailBudget
Mails == INSTANCE MissedMessageEmails
           WITH MaxFaults <- MailFaults, queue <- mailQueue, worker <- mailer, up <- running,
                history <- mailHistory, budget <- mailBudget

VARIABLES now, row, worker, edit, used, sent, reopened, version, faults
Scheduled == INSTANCE ScheduledMessages WITH Rows <- MaxRows, MaxFaults <- DeliveryFaults

\* The bounds of every part.
ASSUME BoundsAssumption ==
  /\ Events!Bounds /\ Web!Bounds /\ Mobile!Bounds /\ Push!Bounds /\ Mails!Bounds
  /\ Scheduled!Bounds

eventQueues == <<db, fed, up, clients, saved, allocated, conn, browser, budget>>
notification == <<queues, processed, early, told, seen, restarts>>
push == <<um, notices, stage, device, sweeping, lost, spent>>
mail == <<published, mailQueue, main, handler, lock, cv, rows, created, mailer, running, read,
          deleted, mailed, mailHistory, mailBudget>>
schedule == <<now, row, worker, edit, used, sent, reopened, version, faults>>
vars == <<part, eventQueues, notification, push, mail, schedule>>

Init ==
  /\ part \in Parts
  /\ Events!Init /\ Web!Init /\ Push!Init /\ Mails!Init /\ Scheduled!Init

Next ==
  /\ UNCHANGED part
  /\ \/ /\ part = "events" /\ Events!Next
        /\ UNCHANGED <<notification, push, mail, schedule>>
     \/ /\ \/ part = "web" /\ Web!Next
           \/ part = "mobile" /\ Mobile!Next
        /\ UNCHANGED <<eventQueues, push, mail, schedule>>
     \/ /\ part = "push" /\ Push!Next
        /\ UNCHANGED <<eventQueues, notification, mail, schedule>>
     \/ /\ part = "mails" /\ Mails!Next
        /\ UNCHANGED <<eventQueues, notification, push, schedule>>
     \/ /\ part = "scheduled" /\ Scheduled!Next
        /\ UNCHANGED <<eventQueues, notification, push, mail>>

(* The fairness of the parts, as each module has it.                        *)
EventsFairly ==
  /\ WF_eventQueues(part = "events" /\ Events!ProcessEvent)
  /\ WF_eventQueues(part = "events" /\ Events!Restart)
  /\ WF_eventQueues(part = "events" /\ Events!Register)
  /\ WF_eventQueues(part = "events" /\ \E h \in Conn : Events!Poll(h))
  /\ \A h \in Conn :
       /\ WF_eventQueues(part = "events" /\ Events!FetchEvents(h))
       /\ WF_eventQueues(part = "events" /\ Events!OnConnectionClose(h))
       /\ WF_eventQueues(part = "events" /\ Events!Receive(h))
NotificationFairly ==
  /\ WF_notification(part = "web" /\ Web!Tick)
  /\ WF_notification(part = "web" /\ Web!GcEventQueues)
  /\ WF_notification(part = "mobile" /\ Mobile!Tick)
  /\ WF_notification(part = "mobile" /\ Mobile!GcEventQueues)
PushFairly == WF_push(part = "push" /\ Push!Worker)
MailsFairly ==
  /\ WF_mail(part = "mails" /\ Mails!Main)
  /\ WF_mail(part = "mails" /\ Mails!Worker)
  /\ WF_mail(part = "mails" /\ Mails!SendAndCommit)
  /\ WF_mail(part = "mails" /\ Mails!StopWorker)
  /\ WF_mail(part = "mails" /\ handler # "none" /\ Mails!Kill)
  /\ WF_mail(part = "mails" /\ Mails!Start)
  /\ \A u \in Mails!Users : WF_mail(part = "mails" /\ Mails!TimePasses(u))
ScheduledFairly ==
  /\ WF_schedule(part = "scheduled" /\ Scheduled!TakeDue)
  /\ WF_schedule(part = "scheduled" /\ Scheduled!Settle)
  /\ WF_schedule(part = "scheduled" /\ Scheduled!TimePasses)
  /\ \A e \in Editor : WF_schedule(part = "scheduled" /\ Scheduled!SaveEdit(e))

Spec == Init /\ [][Next]_vars
FairSpec == Spec /\ EventsFairly /\ NotificationFairly /\ PushFairly /\ MailsFairly /\ ScheduledFairly

----------------------------------------------------------------------------
(* The properties of the parts; each is explained in its module.            *)

\* The types of every part.
TypeOK == /\ Events!TypeOK /\ Push!TypeOK /\ Mails!TypeOK /\ Scheduled!TypeOK
          /\ IF part = "mobile" THEN Mobile!TypeOK ELSE Web!TypeOK

\* A client gets every event once and in its turn (EventQueue).
EventsOnceInOrder == Events!EventsOnceInOrder
\* No client is stuck with its queue or its poll (fetch_events).
NoClientIsStuck == Events!NoClientIsStuck
\* A client ends up with everything (get_events_backend, server_events.js).
CatchesUp == part = "events" => Events!CatchesUp

\* What nobody picked up is notified of once (missedmessage_hook).
NotifiedExactlyOnce ==
  IF part = "mobile" THEN Mobile!NotifiedExactlyOnce ELSE Web!NotifiedExactlyOnce
\* A user who stays away is notified (gc_event_queues).  The formula has the same meaning
\* in both instances.
AwayIsNotified == Web!AwayIsNotified

\* A shown notification can be taken back (handle_push_notification).
ShownIsTakenBack == Push!ShownIsTakenBack

\* No notice is lost or mailed twice (MissedMessageWorker).
NoticesAreKept == Mails!NoticesAreKept

\* Delivery and edits follow one another (deliver_scheduled_messages).
DeliveredFaithfully == Scheduled!DeliveredFaithfully
\* No scheduled message stays behind (try_deliver_one_scheduled_message).
EverythingIsSettled == Scheduled!EverythingIsSettled

\* The notification workers get done: the notification of a message that was read is taken
\* back, and every notice of a missed message is handled.
WorkersGetDone == Push!ReadGoesAway /\ Mails!EventuallyHandled
=============================================================================
