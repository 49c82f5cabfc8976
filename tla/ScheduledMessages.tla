--------------------------- MODULE ScheduledMessages ---------------------------
(***************************************************************************)
(* Scheduled messages and reminders (zerver/actions/scheduled_messages.py  *)
(* and reminders.py): the rows of the ScheduledMessage table, the one      *)
(* process that delivers those that are due                                *)
(* (management/commands/deliver_scheduled_messages.py) and the requests    *)
(* that schedule, edit and delete them (views/scheduled_messages.py).      *)
(*                                                                         *)
(* Times are whole numbers: a message is late once LateCutoff has passed   *)
(* since its time.  Every change of a row's text or recipient is a new     *)
(* version of it.  The delivery process holds the lock of the row it       *)
(* works on, which reading does not take and writing waits for; an edit    *)
(* writes the row in the last statement of its transaction.                *)
(***************************************************************************)
EXTENDS Naturals, Sequences, FiniteSets, SequencesExt

CONSTANTS
  Rows,        \* how many rows there can be; a row is its primary key
  Reminders,   \* those of delivery_type REMIND
  Broken,      \* rows whose sending raises inside do_send_messages, every time
  Editor,      \* requests that can be in the middle of an edit
  MaxTime,     \* the last delivery time that is asked for
  MaxVersion,  \* the version of the last edit
  MaxFaults    \* refusals, crashes of the delivery process, failures after sending

Row == 1..Rows
LateCutoff == 1   \* SCHEDULED_MESSAGE_LATE_CUTOFF_MINUTES
LastTime == MaxTime + LateCutoff + 1

Bounds ==
  /\ {Rows, MaxTime, MaxFaults} \subseteq Nat /\ MaxVersion \in Nat \ {0}
  /\ Reminders \subseteq Row /\ Broken \subseteq Row

VARIABLES
  now,
  row,       \* Row -> the committed row, or NoRow
  worker,    \* what try_deliver_one_scheduled_message holds: [row, copy], or Idle
  edit,      \* Editor -> [row, copy, at] of the edit that has read its row, or NoEdit
  used,      \* rows that were created
  sent,      \* Row -> the versions of it that were sent
  reopened,  \* Row -> edits written over a row that was delivered or gone by then
  version, faults

vars == <<now, row, worker, edit, used, sent, reopened, version, faults>>
requests == <<edit, used, version>>

NoRow  == [at |-> 0, version |-> 0, delivered |-> FALSE, failed |-> FALSE]
Idle   == [row |-> 0, copy |-> NoRow]
NoEdit == [row |-> 0, copy |-> NoRow, at |-> 0]

Exists(m) == row[m] # NoRow
\* Mutant: the row that is being delivered is not locked.
LockedNever(m) == FALSE

Locked(m) == worker.row = m
Future == {t \in 1..MaxTime : t > now}
Late(r) == now > r.at + LateCutoff
Undelivered(m) == Exists(m) /\ ~row[m].delivered /\ ~row[m].failed
Due(m) == Undelivered(m) /\ row[m].at <= now

Fault == faults < MaxFaults /\ faults' = faults + 1
Write(m, r) == row' = [row EXCEPT ![m] = r]

----------------------------------------------------------------------------
(* Requests.                                                                *)
\* create_scheduled_message_backend and do_schedule_messages; keys only grow.
Schedule ==
  /\ used < Rows
  /\ used' = used + 1
  /\ \E t \in Future : Write(used', [NoRow EXCEPT !.at = t, !.version = 1])
  /\ UNCHANGED <<now, worker, edit, sent, reopened, version, faults>>

\* edit_scheduled_message as far as its checks: it reads the row without a lock.  `at` is the
\* new delivery time, or 0 when the request has none.
BeginEdit(e, m) ==
  /\ edit[e] = NoEdit
  /\ version + Cardinality({f \in Editor : edit[f] # NoEdit}) < MaxVersion
  /\ Exists(m) /\ m \notin Reminders
  /\ ~row[m].delivered
  /\ \E t \in Future \cup {0} :
       /\ row[m].failed => t # 0
       /\ edit' = [edit EXCEPT ![e] = [row |-> m, copy |-> row[m], at |-> t]]
  /\ UNCHANGED <<now, row, worker, used, sent, reopened, version, faults>>

Edited(e) ==
  LET old == edit[e].copy
  IN [old EXCEPT !.version = version + 1,
                 !.at = IF edit[e].at = 0 THEN @ ELSE edit[e].at,
                 !.failed = FALSE]

Overwritten(m) == ~Exists(m) \/ row[m].delivered

\* Its save() writes every field as the edit read or set it, and inserts the row again when it
\* is gone.
SaveEdit(e) ==
  LET m == edit[e].row IN
  /\ edit[e] # NoEdit
  /\ ~Locked(m)
  /\ Write(m, Edited(e))
  /\ version' = version + 1
  /\ reopened' = [reopened EXCEPT ![m] = @ + (IF Overwritten(m) THEN 1 ELSE 0)]
  /\ edit' = [edit EXCEPT ![e] = NoEdit]
  /\ UNCHANGED <<now, worker, used, sent, faults>>

\* check_message refuses the new text or recipient.
RefuseEdit(e) ==
  /\ edit[e] # NoEdit
  /\ Fault
  /\ edit' = [edit EXCEPT ![e] = NoEdit]
  /\ UNCHANGED <<now, row, worker, used, sent, reopened, version>>

\* delete_scheduled_message and do_delete_reminder, which wait for the lock as an edit does.
Delete(m) ==
  /\ Exists(m) /\ ~Locked(m)
  /\ Write(m, NoRow)
  /\ UNCHANGED <<now, worker, edit, used, sent, reopened, version, faults>>

----------------------------------------------------------------------------
(* The delivery process, one row per transaction.                           *)
\* select_for_update().first(): the due row of the lowest key.
TakeDue ==
  /\ worker = Idle
  /\ \E m \in Row :
       /\ Due(m) /\ \A n \in Row : Due(n) => m <= n
       /\ worker' = [row |-> m, copy |-> row[m]]
  /\ UNCHANGED <<now, row, sent, reopened, faults, requests>>

Sending == worker # Idle
\* Mutant: there is no time after which a message is not sent any more.
TooLateNever == FALSE

TooLate == worker.row \notin Reminders /\ Late(worker.copy)
Sent == sent' = [sent EXCEPT ![worker.row] = Append(@, worker.copy.version)]
\* save(update_fields=...) leaves the other columns as they are.
Mark(delivered, failed) ==
  Write(worker.row, [row[worker.row] EXCEPT !.delivered = delivered, !.failed = failed])
EndTransaction == worker' = Idle

\* send_scheduled_message or send_reminder: the message and the mark commit together.
Deliver ==
  /\ Sending /\ ~TooLate /\ worker.row \notin Broken
  /\ Sent /\ Mark(TRUE, FALSE)
  /\ EndTransaction
  /\ UNCHANGED <<now, reopened, faults, requests>>

\* Something after the send raises, and the row is marked as failed as well.
DeliverThenFail ==
  /\ Sending /\ ~TooLate /\ worker.row \notin Broken
  /\ Fault
  /\ Sent /\ Mark(TRUE, TRUE)
  /\ EndTransaction
  /\ UNCHANGED <<now, reopened, requests>>

\* JsonableError: it is too late, or the sender may not send this any more.
Refuse ==
  /\ Sending
  /\ IF TooLate THEN UNCHANGED faults ELSE Fault
  /\ Mark(FALSE, TRUE)
  /\ EndTransaction
  /\ UNCHANGED <<now, sent, reopened, requests>>

\* Mutant: the message is sent in a transaction of its own.
DeliveryDiesSent ==
  /\ Sending
  /\ \/ worker.row \in Broken /\ ~TooLate /\ UNCHANGED <<sent, faults>>
     \/ Fault /\ Sent
  /\ EndTransaction
  /\ UNCHANGED <<now, row, reopened, requests>>

\* An error in do_send_messages, whose atomic block has no savepoint, leaves a transaction that
\* refuses refresh_from_db too, so it ends the process; a kill does the same.  Supervisor
\* starts it again and the row is as it was.
DeliveryDies ==
  /\ Sending
  /\ \/ worker.row \in Broken /\ ~TooLate /\ UNCHANGED faults
     \/ Fault
  /\ EndTransaction
  /\ UNCHANGED <<now, row, sent, reopened, requests>>

TimePasses ==
  /\ now < LastTime
  /\ now' = now + 1
  /\ UNCHANGED <<row, worker, edit, used, sent, reopened, version, faults>>

----------------------------------------------------------------------------
Init ==
  /\ now = 0
  /\ row = [m \in Row |-> NoRow]
  /\ worker = Idle
  /\ edit = [e \in Editor |-> NoEdit]
  /\ used = 0 /\ version = 1 /\ faults = 0
  /\ sent = [m \in Row |-> <<>>]
  /\ reopened = [m \in Row |-> 0]

Next ==
  \/ Schedule \/ TimePasses
  \/ \E m \in Row : Delete(m) \/ \E e \in Editor : BeginEdit(e, m)
  \/ \E e \in Editor : SaveEdit(e) \/ RefuseEdit(e)
  \/ TakeDue \/ Deliver \/ DeliverThenFail \/ Refuse \/ DeliveryDies

Settle == Deliver \/ Refuse \/ DeliveryDies

Spec == Init /\ [][Next]_vars

\* The delivery process runs under supervisor and its transactions end; requests end; and the
\* clock goes on.
FairSpec ==
  /\ Spec
  /\ WF_vars(TakeDue) /\ WF_vars(Settle) /\ WF_vars(TimePasses)
  /\ \A e \in Editor : WF_vars(SaveEdit(e))

----------------------------------------------------------------------------
RowType == [at : 0..MaxTime, version : 0..MaxVersion, delivered : BOOLEAN, failed : BOOLEAN]

(* The rows, the transactions in progress and the versions are of their types, and only a    *)
(* row that exists is locked.                                                                *)
TypeOK ==
  /\ now \in 0..LastTime
  /\ row \in [Row -> RowType]
  /\ worker \in [row : 0..Rows, copy : RowType]
  /\ Sending => worker.copy = row[worker.row] /\ Exists(worker.row)
  /\ edit \in [Editor -> [row : 0..Rows, copy : RowType, at : 0..MaxTime]]
  /\ used \in 0..Rows /\ version \in 1..MaxVersion /\ faults \in 0..MaxFaults
  /\ \A m \in Row : Range(sent[m]) \subseteq 1..MaxVersion
  /\ reopened \in [Row -> 0..MaxVersion]

(* A message is sent at most once for each time that it becomes undelivered: through crashes *)
(* between the send and the mark, failures after it and edits, only an edit that is written  *)
(* over a row delivered or deleted since the edit read it can have it sent again.            *)
SentOncePerOpening == \A m \in Row : Len(sent[m]) <= 1 + reopened[m]

(* A row that is marked delivered was sent as it now reads: no edit slips between the send   *)
(* and the mark, and no edit is accepted and then neither sent nor refused.                  *)
DeliveredAsItReads ==
  \A m \in Row : Exists(m) /\ row[m].delivered => sent[m] # <<>> /\ Last(sent[m]) = row[m].version

(* Delivery and edits of a row follow one another (try_deliver_one_scheduled_message,        *)
(* edit_scheduled_message).                                                                  *)
DeliveredFaithfully == SentOncePerOpening /\ DeliveredAsItReads

(* Every scheduled message is in the end sent, marked as failed, or deleted, whatever the    *)
(* rows before it do (as long as those are not reminders that cannot be sent).               *)
EverythingIsSettled == \A m \in Row : Undelivered(m) ~> ~Undelivered(m)

(* A scheduled message is sent at most once.                                                 *)
SentOnce == \A m \in Row : Len(sent[m]) <= 1
=============================================================================
