------------------------------ MODULE MobilePush ------------------------------
(***************************************************************************)
(* Mobile push notifications of one user: the queue of notices, the worker *)
(* that handles them one by one (zerver/worker/                            *)
(* missedmessage_mobile_notifications.py, handle_push_notification and     *)
(* handle_remove_push_notification of zerver/lib/push_notifications.py),   *)
(* and the requests that change the user's messages meanwhile (those of    *)
(* zerver/actions/message_flags.py, the edit or deletion of a message).    *)
(*                                                                         *)
(* A notification is sent through the push bouncer to the user's device.   *)
(* The bouncer may be out of reach, which is tried again, with or without  *)
(* having passed the notification on; it may refuse it, which the sender   *)
(* logs and returns from as if it had been sent; or anything else fails,   *)
(* and the worker is done with the notice where it is.  The queue keeps a  *)
(* notice until the worker is done with it, so a worker that was killed    *)
(* starts over with it.                                                    *)
(***************************************************************************)
EXTENDS Naturals, Sequences, FiniteSets

CONSTANTS
  Message,
  MaxRetries,   \* MAX_REQUEST_RETRIES
  MaxAdds,      \* notices that ask for a notification
  MaxMarks,     \* requests that mark messages, or edit or delete one
  MaxFaults,    \* failures of the bouncer
  MaxCrashes    \* of the worker

Bounds == {MaxRetries, MaxAdds, MaxMarks, MaxFaults, MaxCrashes} \subseteq Nat

VARIABLES
  um,       \* the user's message rows: [read, active, deleted]; active is the flag
            \* active_mobile_push_notification
  queue,    \* notices: [type, messages, tries]
  stage,    \* what the worker did of the first notice: "waiting", "claiming" (it read the
            \* row of the message), "claimed", "sent"
  device,   \* messages whose notification the device shows
  sweeping, \* a request marks all messages as read, batch by batch
  lost,     \* message -> why nothing takes its notification back: "no" if something does
  budget    \* [adds, marks, faults, crashes] so far

vars == <<um, queue, stage, device, sweeping, lost, budget>>

Notice(type, S) == [type |-> type, messages |-> S, tries |-> 0]
Current == Head(queue)
Working(type) == queue # <<>> /\ Current.type = type
Waits(type, m) == \E i \in 1..Len(queue) : queue[i].type = type /\ m \in queue[i].messages

Spend(what, limit) == budget[what] < limit /\ budget' = [budget EXCEPT ![what] = @ + 1]
Becomes(S, why) == lost' = [m \in Message |-> IF m \in S THEN why ELSE lost[m]]
Marked(S, read) ==
  um' = [m \in Message |-> IF m \in S THEN [um[m] EXCEPT !.read = read] ELSE um[m]]

----------------------------------------------------------------------------
(* The requests.                                                            *)
\* maybe_enqueue_notifications
EnqueueAdd(m) ==
  /\ Spend("adds", MaxAdds)
  /\ ~um[m].deleted
  /\ queue' = Append(queue, Notice("add", {m}))
  /\ UNCHANGED <<um, stage, device, sweeping, lost>>

\* do_clear_mobile_push_notifications_for_ids, committed with the rows.
ClearNotifications(S) ==
  LET active == {m \in S : um[m].active} IN
  /\ queue' = IF active = {} THEN queue ELSE Append(queue, Notice("remove", active))
  /\ Becomes(active, "no")

\* Mutant: the messages are marked as read and their notifications left.
MarkReadOnly(S) ==
  /\ Spend("marks", MaxMarks)
  /\ S # {} /\ \A m \in S : ~um[m].read /\ ~um[m].deleted
  /\ Marked(S, TRUE)
  /\ UNCHANGED <<queue, stage, device, sweeping, lost>>

\* do_update_message_flags, do_mark_stream_messages_as_read and
\* do_mark_muted_user_messages_as_read: one transaction that locks the rows.
MarkRead(S) ==
  /\ Spend("marks", MaxMarks)
  /\ S # {} /\ \A m \in S : ~um[m].read /\ ~um[m].deleted
  /\ Marked(S, TRUE)
  /\ ClearNotifications(S)
  /\ UNCHANGED <<stage, device, sweeping>>

MarkUnread(S) ==
  /\ Spend("marks", MaxMarks)
  /\ S # {} /\ \A m \in S : um[m].read /\ ~um[m].deleted
  /\ Marked(S, FALSE)
  /\ UNCHANGED <<queue, stage, device, sweeping, lost>>

Unread == {m \in Message : ~um[m].read /\ ~um[m].deleted}

\* do_mark_all_as_read takes back what is shown, ...
MarkAll ==
  /\ Spend("marks", MaxMarks)
  /\ ~sweeping /\ sweeping' = TRUE
  /\ ClearNotifications({m \in Message : ~um[m].deleted})
  /\ UNCHANGED <<um, stage, device>>

\* ... and then marks one batch after the other, each in its own transaction, until one is
\* not full.  What was shown since then is overlooked.
MarkBatch(S) ==
  /\ sweeping /\ S \subseteq Unread
  /\ S # {} \/ Unread = {}
  /\ Marked(S, TRUE)
  /\ Becomes({m \in S : um[m].active /\ ~Waits("remove", m)}, "overlooked")
  /\ sweeping' = (S # Unread)
  /\ UNCHANGED <<queue, stage, device, budget>>

\* It runs out of time, or is killed.
MarkAllEnds ==
  /\ sweeping /\ sweeping' = FALSE
  /\ UNCHANGED <<um, queue, stage, device, lost, budget>>

\* The transaction of handle_push_notification locks the message, not the user's row of it.
Locked(m) == stage = "claiming" /\ m \in Current.messages

\* An edit takes the mention of the user out (do_update_mobile_push_notification).
Unmention(m) ==
  /\ Spend("marks", MaxMarks)
  /\ ~um[m].deleted /\ ~Locked(m)
  /\ ClearNotifications({m})
  /\ UNCHANGED <<um, stage, device, sweeping>>

DeleteMessage(m) ==
  /\ Spend("marks", MaxMarks)
  /\ ~um[m].deleted /\ ~Locked(m)
  /\ ClearNotifications({m})
  /\ um' = [um EXCEPT ![m].deleted = TRUE]
  /\ UNCHANGED <<stage, device, sweeping>>

----------------------------------------------------------------------------
(* The worker.                                                              *)
Done == queue' = Tail(queue) /\ stage' = "waiting"

\* handle_push_notification reads the row of the message; a message that is gone, was read
\* or has a notification ends it.
ReadRow ==
  /\ Working("add") /\ stage = "waiting"
  /\ IF \E m \in Current.messages : um[m].deleted \/ um[m].read \/ um[m].active
     THEN Done
     ELSE stage' = "claiming" /\ UNCHANGED queue
  /\ UNCHANGED <<um, device, sweeping, lost, budget>>

\* Mutant: the flag of the notification is not set.
SaveUnflagged ==
  /\ Working("add") /\ stage = "claiming"
  /\ stage' = "claimed"
  /\ UNCHANGED <<um, queue, device, sweeping, lost, budget>>

\* It saves all the flags of the row, the new one and the others as it read them.
SaveRow ==
  /\ Working("add") /\ stage = "claiming"
  /\ stage' = "claimed"
  /\ um' = [m \in Message |->
       IF m \in Current.messages THEN [um[m] EXCEPT !.read = FALSE, !.active = TRUE] ELSE um[m]]
  /\ Becomes(Current.messages, "no")
  /\ UNCHANGED <<queue, device, sweeping, budget>>

\* Notices to remove notifications are sent without looking at the messages.
Sending == \/ Working("add") /\ stage = "claimed"
           \/ Working("remove") /\ stage = "waiting"

Delivered ==
  device' = IF Current.type = "add" THEN device \cup Current.messages
            ELSE device \ Current.messages

\* The handler goes on after it sent the notice.
Sent == IF Current.type = "add" THEN Done ELSE stage' = "sent" /\ UNCHANGED queue

Send ==
  /\ Sending /\ Delivered /\ Sent
  /\ UNCHANGED <<um, sweeping, lost, budget>>

\* A notice is not followed up.
Lose(why) == Becomes(IF Current.type = "add" THEN {} ELSE Current.messages, why)

\* Mutant: a notice that could not be sent is dropped.
RetryEventNever ==
  /\ stage' = "waiting"
  /\ queue' = Tail(queue)
  /\ UNCHANGED lost

\* Mutant: the tries are compared before this one is counted.
RetryEventOnceMore ==
  /\ stage' = "waiting"
  /\ IF Current.tries > MaxRetries
     THEN queue' = Tail(queue) /\ Lose("given up")
     ELSE queue' = Append(Tail(queue), [Current EXCEPT !.tries = @ + 1]) /\ UNCHANGED lost

\* PushNotificationBouncerRetryLaterError and retry_event
RetryEvent ==
  /\ stage' = "waiting"
  /\ IF Current.tries + 1 > MaxRetries
     THEN queue' = Tail(queue) /\ Lose("given up")
     ELSE queue' = Append(Tail(queue), [Current EXCEPT !.tries = @ + 1]) /\ UNCHANGED lost

BouncerUnreachable ==
  /\ Sending
  /\ Spend("faults", MaxFaults)
  /\ UNCHANGED device \/ Delivered
  /\ RetryEvent
  /\ UNCHANGED <<um, sweeping>>

\* The sender logs that the bouncer, or FCM or APNs, refused, and returns.
BouncerRefuses ==
  /\ Sending
  /\ Spend("faults", MaxFaults)
  /\ Sent
  /\ Lose("refused")
  /\ UNCHANGED <<um, device, sweeping>>

\* Any other exception: the worker records the notice and is done with it.
SendFails ==
  /\ Sending
  /\ Spend("faults", MaxFaults)
  /\ Done
  /\ Lose("given up")
  /\ UNCHANGED <<um, device, sweeping>>

\* The last transaction of handle_remove_push_notification.
ClearFlag ==
  /\ Working("remove") /\ stage = "sent"
  /\ um' = [m \in Message |->
       IF m \in Current.messages THEN [um[m] EXCEPT !.active = FALSE] ELSE um[m]]
  /\ Done
  /\ UNCHANGED <<device, sweeping, lost, budget>>

Crash ==
  /\ Spend("crashes", MaxCrashes)
  /\ queue # <<>>
  /\ stage' = "waiting"
  /\ UNCHANGED <<um, queue, device, sweeping, lost>>

----------------------------------------------------------------------------
Init ==
  /\ um = [m \in Message |-> [read |-> FALSE, active |-> FALSE, deleted |-> FALSE]]
  /\ queue = <<>> /\ stage = "waiting"
  /\ device = {} /\ sweeping = FALSE /\ lost = [m \in Message |-> "no"]
  /\ budget = [adds |-> 0, marks |-> 0, faults |-> 0, crashes |-> 0]

Request ==
  \/ \E m \in Message : EnqueueAdd(m) \/ Unmention(m) \/ DeleteMessage(m)
  \/ \E S \in SUBSET Message : MarkRead(S) \/ MarkUnread(S) \/ MarkBatch(S)
  \/ MarkAll \/ MarkAllEnds

Worker == ReadRow \/ SaveRow \/ Send \/ ClearFlag

Next ==
  \/ Request
  \/ Worker
  \/ BouncerUnreachable \/ BouncerRefuses \/ SendFails
  \/ Crash

Fairness == WF_vars(Worker)

Spec == Init /\ [][Next]_vars
FairSpec == Spec /\ Fairness

----------------------------------------------------------------------------
TypeOK ==
  /\ um \in [Message -> [read : BOOLEAN, active : BOOLEAN, deleted : BOOLEAN]]
  /\ \A i \in 1..Len(queue) :
       /\ queue[i].type \in {"add", "remove"} /\ queue[i].messages \subseteq Message
       /\ queue[i].tries \in 0..MaxRetries
  /\ stage \in {"claiming", "claimed"} => Working("add")
  /\ stage = "sent" => Working("remove")
  /\ stage \in {"waiting", "claiming", "claimed", "sent"}
  /\ device \subseteq Message
  /\ sweeping \in BOOLEAN
  /\ lost \in [Message -> {"no", "overlooked", "refused", "given up"}]

Abandoned(m) == lost[m] # "no"

\* What the device shows can be taken back: a flag says that there is something to remove, or
\* its removal is on the way, whatever became of the request that showed it.
ShownIsTracked == \A m \in device : um[m].active \/ Waits("remove", m) \/ Abandoned(m)

\* What the device shows of a message that was read or deleted is about to be removed, unless
\* mark-all overlooked it or its removal failed.
ReadIsRevoked ==
  \A m \in device : um[m].read \/ um[m].deleted => Waits("remove", m) \/ Abandoned(m)

\* A notification can be taken back, and is once its message was read or deleted
\* (handle_push_notification, handle_remove_push_notification): whatever races with the
\* worker, only a refusal, an error, the last try or a mark-all that it overtook ends that,
\* and none does for a message that was marked or deleted after.
ShownIsTakenBack == ShownIsTracked /\ ReadIsRevoked

\* A message that was read stays shown no longer than its worker needs.
ReadGoesAway ==
  \A m \in Message : (m \in device /\ um[m].read) ~> (m \notin device \/ ~um[m].read \/ Abandoned(m))

(* Not true of this code: see the README.                                   *)
\* A notice that is tried again is sent, unless it was passed on after all, or the message
\* was read or deleted meanwhile.
RetryIsSent ==
  [][(ReadRow /\ Done /\ Current.tries > 0)
       => \E m \in Current.messages : um[m].read \/ um[m].deleted \/ m \in device]_vars

\* The worker leaves alone what others write to the user's row of a message.
ReadIsKept == [][SaveRow => \A m \in Current.messages : ~um[m].read]_vars

\* What is shown when all messages are marked as read is taken back.
NoneOverlooked == \A m \in Message : lost[m] # "overlooked"
=============================================================================
