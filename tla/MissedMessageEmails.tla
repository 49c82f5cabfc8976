------------------------- MODULE MissedMessageEmails -------------------------
(***************************************************************************)
(* The worker that mails users the messages they missed                    *)
(* (zerver/worker/missedmessage_emails.py; process_queue.py starts and     *)
(* stops it).  Its main thread takes notices from a queue and makes a row  *)
(* of each in the database; a second thread sleeps until rows are due and  *)
(* mails them, those of one user together.  A condition variable with its  *)
(* lock, and has_timeout under it, tell the second thread of the first row.*)
(*                                                                         *)
(* Signals are handled on the main thread, on top of whatever it was doing.*)
(* What the second thread does under the lock is one step here; its lock   *)
(* is the main thread's or free.  The rows of one user share a timestamp,  *)
(* so that time makes all of them due at once.                             *)
(***************************************************************************)
EXTENDS Naturals, Sequences, FiniteSets, SequencesExt

CONSTANTS
  Owner,       \* the users whom the notices 1, 2, ... are for
  MaxReads,    \* messages read or deleted
  MaxFaults,   \* failures of a user's mail, of the database or of the message queue
  MaxStops     \* signals and kills

Bounds == /\ {MaxReads, MaxFaults, MaxStops} \subseteq Nat
          /\ Owner \in Seq({Owner[n] : n \in DOMAIN Owner})

VARIABLES
  published,  \* notices published so far: 1..published
  queue,      \* those in the message queue, in order
  main,       \* the main thread: [pc, notice, due], due of the timestamp it has chosen
  handler,    \* its signal handler: "none", "stop" or "join"
  lock,       \* of the condition variable: "free" or "main"
  cv,         \* [stopping, has_timeout, notified]
  rows,       \* ScheduledMessageNotificationEmail: [id, notice, due]
  created,    \* ids used
  worker,     \* the second thread: [pc, batch, mails]
  up,         \* whether the process runs
  read,       \* notices whose message was read
  deleted,    \* notices whose message was deleted
  mailed,     \* notice -> mails handed to the senders
  history,    \* [again: notice -> times it went back to the queue, dropped: notices lost to faults]
  budget      \* [reads, faults, stops] so far

vars == <<published, queue, main, handler, lock, cv, rows, created, worker, up, read, deleted,
          mailed, history, budget>>
outside == <<published, read, deleted>>
database == <<rows, created>>

Notices == 1..Len(Owner)
Users == {Owner[n] : n \in Notices}
Nothing == 0

Spend(what, limit) == budget[what] < limit /\ budget' = [budget EXCEPT ![what] = @ + 1]
RowsOf(u) == {r \in rows : Owner[r.notice] = u}

\* notify() wakes who waits; a thread that does not wait hears nothing.
Waiting == worker.pc \in {"asleep", "timed", "backoff"}
Notified == [cv EXCEPT !.notified = @ \/ Waiting]

----------------------------------------------------------------------------
(* The outside.                                                             *)
Publish ==
  /\ published < Len(Owner)
  /\ published' = published + 1
  /\ queue' = Append(queue, published')
  /\ UNCHANGED <<main, handler, lock, cv, rows, created, worker, up, read, deleted, mailed,
                 history, budget>>

MarkRead(n) ==
  /\ n \notin read \cup deleted
  /\ Spend("reads", MaxReads)
  /\ read' = read \cup {n}
  /\ UNCHANGED <<published, deleted, queue, main, handler, lock, cv, database, worker, up, mailed,
                 history>>

\* The rows of the message go with it, once the second thread's transaction lets go of them.
DeleteMessage(n) ==
  /\ n \notin deleted
  /\ Spend("reads", MaxReads)
  /\ \A r \in rows : r.notice = n => r.id \notin worker.batch
  /\ deleted' = deleted \cup {n}
  /\ rows' = {r \in rows : r.notice # n}
  /\ UNCHANGED <<published, read, queue, main, handler, lock, cv, created, worker, up, mailed,
                 history>>

TimePasses(u) ==
  /\ \E r \in RowsOf(u) : ~r.due
  /\ rows' = {[r EXCEPT !.due = @ \/ Owner[r.notice] = u] : r \in rows}
  /\ main' = [main EXCEPT !.due = @ \/ (main.notice # Nothing /\ Owner[main.notice] = u)]
  /\ UNCHANGED <<published, queue, handler, lock, cv, created, worker, up, read, deleted, mailed,
                 history, budget>>

----------------------------------------------------------------------------
(* The main thread: consume.                                                *)
MainRuns(pc) == up /\ handler = "none" /\ main.pc = pc
Idle == [pc |-> "idle", notice |-> Nothing, due |-> FALSE]

\* A pending row of the user gives its timestamp to the new one.
LookForPending ==
  /\ MainRuns("idle") /\ queue # <<>>
  /\ queue' = Tail(queue)
  /\ main' = [pc |-> "looked", notice |-> Head(queue),
              due |-> \E r \in RowsOf(Owner[Head(queue)]) : r.due]
  /\ UNCHANGED <<outside, database, handler, lock, cv, worker, up, mailed, history, budget>>

EnterCv ==
  /\ MainRuns("looked") /\ lock = "free"
  /\ lock' = "main"
  /\ main' = [main EXCEPT !.pc = "locked"]
  /\ UNCHANGED <<outside, database, queue, handler, cv, worker, up, mailed, history, budget>>

\* There is no row for a message that was deleted.
CreateRow ==
  /\ MainRuns("locked")
  /\ main' = [main EXCEPT !.pc = "created"]
  /\ \/ /\ main.notice \in deleted
        /\ UNCHANGED <<database, cv>>
     \/ /\ main.notice \notin deleted
        /\ created' = created + 1
        /\ rows' = rows \cup {[id |-> created', notice |-> main.notice, due |-> main.due]}
        /\ cv' = IF cv.has_timeout THEN cv ELSE Notified
  /\ UNCHANGED <<outside, queue, handler, lock, worker, up, mailed, history, budget>>

LeaveCv ==
  /\ MainRuns("created")
  /\ lock' = "free"
  /\ main' = Idle
  /\ UNCHANGED <<outside, database, queue, handler, cv, worker, up, mailed, history, budget>>

----------------------------------------------------------------------------
(* The second thread.                                                       *)
WorkerRuns(pc) == up /\ worker.pc = pc
Resting(pc) == [pc |-> pc, batch |-> {}, mails |-> {}]

\* Mutant: what was said of the last wait stands.
StartWaitUnsaid ==
  /\ WorkerRuns("check") /\ lock = "free"
  /\ IF cv.stopping THEN worker' = Resting("exited") /\ UNCHANGED cv
     ELSE LET pending == rows # {} IN
          /\ worker' = Resting(IF pending THEN "timed" ELSE "asleep")
          /\ cv' = [cv EXCEPT !.has_timeout = @ \/ pending, !.notified = FALSE]
  /\ UNCHANGED <<outside, database, queue, main, handler, lock, up, mailed, history, budget>>

\* background_loop up to its wait.
StartWait ==
  /\ WorkerRuns("check") /\ lock = "free"
  /\ IF cv.stopping THEN worker' = Resting("exited") /\ UNCHANGED cv
     ELSE LET pending == rows # {} IN
          /\ worker' = Resting(IF pending THEN "timed" ELSE "asleep")
          /\ cv' = [cv EXCEPT !.has_timeout = pending, !.notified = FALSE]
  /\ UNCHANGED <<outside, database, queue, main, handler, lock, up, mailed, history, budget>>

\* wait_condition after a notification without a timeout.
WakeUp ==
  /\ WorkerRuns("asleep") /\ lock = "free" /\ cv.notified
  /\ cv' = [cv EXCEPT !.notified = FALSE]
  /\ worker' = IF cv.stopping \/ rows # {} THEN Resting("check") ELSE worker
  /\ UNCHANGED <<outside, database, queue, main, handler, lock, up, mailed, history, budget>>

\* Mutant: only a notification ends the wait.
WaitEndsNotified ==
  /\ WorkerRuns("timed") /\ lock = "free" /\ cv.notified
  /\ worker' = Resting(IF cv.stopping THEN "check" ELSE "send")
  /\ cv' = [cv EXCEPT !.notified = FALSE]
  /\ UNCHANGED <<outside, database, queue, main, handler, lock, up, mailed, history, budget>>

\* The timeout, or a notification by stop().
WaitEnds ==
  /\ WorkerRuns("timed") /\ lock = "free"
  /\ worker' = Resting(IF cv.stopping THEN "check" ELSE "send")
  /\ cv' = [cv EXCEPT !.notified = FALSE]
  /\ UNCHANGED <<outside, database, queue, main, handler, lock, up, mailed, history, budget>>

\* maybe_send_batched_emails
SelectDue ==
  /\ WorkerRuns("send")
  /\ worker' = [worker EXCEPT !.pc = "selected", !.batch = {r.id : r \in {r \in rows : r.due}}]
  /\ UNCHANGED <<outside, database, queue, main, handler, lock, cv, up, mailed, history, budget>>

Batched == {r.notice : r \in {r \in rows : r.id \in worker.batch}}

\* Mutants: every row of the users who were mailed goes; and no row goes.
SendAndCommitAll ==
  /\ WorkerRuns("selected")
  /\ LET owners == {Owner[n] : n \in Batched} IN
     \E failed \in SUBSET owners :
       LET lost == {n \in Batched : Owner[n] \in failed} IN
       /\ IF failed = {} THEN UNCHANGED budget ELSE Spend("faults", MaxFaults)
       /\ worker' = [pc |-> "publish", batch |-> {}, mails |-> Batched \ (read \cup lost)]
       /\ history' = [history EXCEPT !.dropped = @ \cup lost]
       /\ rows' = {r \in rows : Owner[r.notice] \notin owners}
  /\ UNCHANGED <<outside, created, queue, main, handler, lock, cv, up, mailed>>
SendAndKeep ==
  /\ WorkerRuns("selected")
  /\ worker' = [pc |-> "publish", batch |-> {}, mails |-> Batched \ read]
  /\ UNCHANGED <<outside, database, queue, main, handler, lock, cv, up, mailed, history, budget>>

\* The mails of each user are made, or fail alone; they leave after the commit.
SendAndCommit ==
  /\ WorkerRuns("selected")
  /\ \E failed \in SUBSET {Owner[n] : n \in Batched} :
       LET lost == {n \in Batched : Owner[n] \in failed} IN
       /\ IF failed = {} THEN UNCHANGED budget ELSE Spend("faults", MaxFaults)
       /\ worker' = [pc |-> "publish", batch |-> {}, mails |-> Batched \ (read \cup lost)]
       /\ history' = [history EXCEPT !.dropped = @ \cup lost]
  /\ rows' = {r \in rows : r.id \notin worker.batch}
  /\ UNCHANGED <<outside, created, queue, main, handler, lock, cv, up, mailed>>

PublishMails ==
  /\ WorkerRuns("publish")
  /\ \/ /\ worker.mails = {}
        /\ worker' = Resting("check")
        /\ UNCHANGED mailed
     \/ \E u \in {Owner[n] : n \in worker.mails} :
          LET now == {n \in worker.mails : Owner[n] = u} IN
          /\ worker' = [worker EXCEPT !.mails = @ \ now]
          /\ mailed' = [n \in Notices |-> IF n \in now THEN mailed[n] + 1 ELSE mailed[n]]
  /\ UNCHANGED <<outside, database, queue, main, handler, lock, cv, up, history, budget>>

\* An exception ends the loop's pass; the transaction is rolled back, and mails that were to
\* follow a commit are not published.
LoopFails ==
  /\ up /\ worker.pc \in {"check", "send", "selected", "publish"}
  /\ Spend("faults", MaxFaults)
  /\ worker' = Resting("failed")
  /\ history' = [history EXCEPT !.dropped = @ \cup worker.mails]
  /\ UNCHANGED <<outside, database, queue, main, handler, lock, cv, up, mailed>>

BackOff ==
  /\ WorkerRuns("failed") /\ lock = "free"
  /\ worker' = Resting("backoff")
  /\ cv' = [cv EXCEPT !.has_timeout = TRUE, !.notified = FALSE]
  /\ UNCHANGED <<outside, database, queue, main, handler, lock, up, mailed, history, budget>>

BackOffEnds ==
  /\ WorkerRuns("backoff") /\ lock = "free"
  /\ worker' = Resting("check")
  /\ UNCHANGED <<outside, database, queue, main, handler, lock, cv, up, mailed, history, budget>>

----------------------------------------------------------------------------
(* Stopping, being killed, and starting.                                    *)
Signal ==
  /\ up /\ handler = "none"
  /\ Spend("stops", MaxStops)
  /\ handler' = "stop"
  /\ UNCHANGED <<outside, database, queue, main, lock, cv, worker, up, mailed, history>>

\* The lock may be taken again by the thread that has it.
StopWorker ==
  /\ up /\ handler = "stop" /\ lock \in {"free", "main"}
  /\ cv' = [Notified EXCEPT !.stopping = TRUE]
  /\ handler' = "join"
  /\ UNCHANGED <<outside, database, queue, main, lock, worker, up, mailed, history, budget>>

\* The process ends: its transaction is rolled back and its notice goes back to the queue.
Ends ==
  LET m == main.notice IN
  /\ up' = FALSE
  /\ queue' = IF m = Nothing THEN queue ELSE <<m>> \o queue
  /\ history' = [again |-> [n \in Notices |-> IF n = m THEN history.again[n] + 1
                                              ELSE history.again[n]],
                 dropped |-> history.dropped \cup worker.mails]
  /\ main' = Idle /\ worker' = Resting("check") /\ handler' = "none" /\ lock' = "free"
  /\ cv' = [stopping |-> FALSE, has_timeout |-> FALSE, notified |-> FALSE]
  /\ UNCHANGED <<outside, database, mailed>>

Joined == up /\ handler = "join" /\ worker.pc = "exited" /\ Ends /\ UNCHANGED budget

\* A crash, or the supervisor that waited long enough for a process it signalled.
Kill ==
  /\ up
  /\ IF handler = "none" THEN Spend("stops", MaxStops) ELSE UNCHANGED budget
  /\ Ends

Start ==
  /\ ~up
  /\ up' = TRUE
  /\ UNCHANGED <<outside, database, queue, main, handler, lock, cv, worker, mailed, history, budget>>

----------------------------------------------------------------------------
Init ==
  /\ published = 0 /\ queue = <<>> /\ main = Idle /\ handler = "none" /\ lock = "free"
  /\ cv = [stopping |-> FALSE, has_timeout |-> FALSE, notified |-> FALSE]
  /\ rows = {} /\ created = 0 /\ worker = Resting("check") /\ up = TRUE
  /\ read = {} /\ deleted = {} /\ mailed = [n \in Notices |-> 0]
  /\ history = [again |-> [n \in Notices |-> 0], dropped |-> {}]
  /\ budget = [reads |-> 0, faults |-> 0, stops |-> 0]

Main == LookForPending \/ EnterCv \/ CreateRow \/ LeaveCv
Worker == StartWait \/ WakeUp \/ WaitEnds \/ SelectDue \/ PublishMails \/ BackOff \/ BackOffEnds

Next ==
  \/ Publish \/ \E n \in 1..published : MarkRead(n) \/ DeleteMessage(n)
  \/ \E u \in Users : TimePasses(u)
  \/ Main
  \/ Worker \/ SendAndCommit \/ LoopFails
  \/ Signal \/ StopWorker \/ Joined \/ Kill \/ Start

\* The threads run, time passes, and a process that was signalled ends or is killed.
Fairness ==
  /\ WF_vars(Main) /\ WF_vars(Worker) /\ WF_vars(SendAndCommit)
  /\ WF_vars(StopWorker) /\ WF_vars(handler # "none" /\ Kill) /\ WF_vars(Start)
  /\ \A u \in Users : WF_vars(TimePasses(u))

Spec == Init /\ [][Next]_vars
FairSpec == Spec /\ Fairness

----------------------------------------------------------------------------
TypeOK ==
  /\ published \in 0..Len(Owner) /\ created \in Nat
  /\ \A r \in rows : r.id \in 1..created /\ r.notice \in 1..published /\ r.due \in BOOLEAN
  /\ worker.pc \in {"check", "asleep", "timed", "send", "selected", "publish", "failed", "backoff",
                    "exited"}
  /\ worker.batch \subseteq {r.id : r \in {r \in rows : r.due}} /\ worker.mails \subseteq 1..published
  /\ lock = IF main.pc \in {"locked", "created"} THEN "main" ELSE "free"
  /\ main.notice \in 0..published /\ (main.pc = "idle" <=> main.notice = Nothing)
  /\ handler \in {"none", "stop", "join"} /\ (cv.stopping <=> handler = "join")
  /\ \A u \in Users : Cardinality({r.due : r \in RowsOf(u)}) <= 1

\* The second thread does not sleep on without a timeout while there is something to do: the
\* first row, and the request to stop, wake it.
NoLostWakeUp ==
  up /\ worker.pc = "asleep" /\ ~cv.notified /\ lock = "free" => rows = {} /\ ~cv.stopping

Handled(n) == mailed[n] > 0 \/ n \in read \cup deleted \/ n \in history.dropped

\* A notice is always somewhere -- in the queue, with the main thread, in a row or a mail -- until
\* it was mailed, its message is read or deleted, or a failure took its mail with it.
NothingForgotten ==
  \A n \in 1..published :
    \/ n \in ToSet(queue) \/ n = main.notice
    \/ \E r \in rows : r.notice = n
    \/ n \in worker.mails \/ Handled(n)

\* A notice is mailed once, and again only if it was given back to the queue.
MailedOnce == \A n \in Notices : mailed[n] <= 1 + history.again[n]

\* The two threads lose no notice between them and mail none twice (consume,
\* maybe_send_batched_emails, work).
NoticesAreKept == NoLostWakeUp /\ NothingForgotten /\ MailedOnce

\* Every notice is handled in the end.
EventuallyHandled == \A n \in Notices : (n <= published) ~> Handled(n)

(* Not true of this code: see the README.                                   *)
\* The thread that stop() waits for can take the lock that it needs to end.
JoinCanEnd == handler = "join" => lock # "main"
=============================================================================
