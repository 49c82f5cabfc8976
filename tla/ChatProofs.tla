------------------------------ MODULE ChatProofs ------------------------------
(***************************************************************************)
(* The parts of the chat server that deliver keep their properties, for    *)
(* every number of clients, queues, messages, notices, scheduled messages, *)
(* faults and crashes.  A step of the whole is a step of one part or       *)
(* leaves it alone, so that the inductive invariant of each part is an     *)
(* invariant of the whole.  The event queues and the notifications of      *)
(* their users have proofs of their own; those of scheduled messages, push *)
(* notifications and mails are here.  Nothing is assumed but               *)
(* BoundsAssumption, and fairness plays no part.                           *)
(***************************************************************************)
EXTENDS Chat, FiniteSetTheorems, WellFoundedInduction, TLAPS

\* The parts count as the lemmas about finite sets do.
LEMMA SameSize ==
  \A S : Mails!Cardinality(S) = Cardinality(S) /\ Scheduled!Cardinality(S) = Cardinality(S)
BY DEF Mails!Cardinality, Scheduled!Cardinality, Cardinality

(***************************************************************************)
(* Scheduled messages: the delivery process and the edits of one row       *)
(* exclude each other.                                                     *)
(***************************************************************************)
Content == [at : Nat, version : Nat, delivered : BOOLEAN, failed : BOOLEAN]

(* The types that the proof needs, without the bounds of an instance.       *)
ContentTypes ==
  /\ row \in [Scheduled!Row -> Content]
  /\ worker \in [row : 0..MaxRows, copy : Content]
  /\ edit \in [Editor -> [row : 0..MaxRows, copy : Content, at : Nat]]
  /\ used \in 0..MaxRows
  /\ now \in Nat /\ version \in Nat /\ version > 0
  /\ sent \in [Scheduled!Row -> Seq(Nat)]
  /\ reopened \in [Scheduled!Row -> Nat]

(* The delivery works on an undelivered row that nobody changes meanwhile.  *)
WorkerHoldsItsRow ==
  worker # Scheduled!Idle => /\ worker.row \in Scheduled!Row
                             /\ worker.copy = row[worker.row]
                             /\ Scheduled!Exists(worker.row) /\ ~row[worker.row].delivered

(* An edit writes back a row that was created, and as undelivered.          *)
EditsReopen ==
  \A e \in Editor : edit[e] # Scheduled!NoEdit =>
    edit[e].row \in Scheduled!Row /\ edit[e].row <= used /\ ~edit[e].copy.delivered

(* Nothing is sent of a row before it is created.                           *)
UnusedIsEmpty == \A m \in Scheduled!Row : m > used => sent[m] = <<>> /\ ~Scheduled!Exists(m)

(* One opening allows for one message: it is used up by the time the row is *)
(* delivered or gone, and not before.                                       *)
OpeningsCount ==
  \A m \in Scheduled!Row : /\ Len(sent[m]) <= reopened[m] + 1
                           /\ ~Scheduled!Overwritten(m) => Len(sent[m]) <= reopened[m]

ScheduleInv ==
  /\ ContentTypes /\ WorkerHoldsItsRow /\ EditsReopen /\ UnusedIsEmpty
  /\ OpeningsCount /\ Scheduled!DeliveredAsItReads

LEMMA NoRowIsContent == Scheduled!NoRow \in Content
  BY DEF Scheduled!NoRow, Content

(* A step that leaves the rows and what was sent alone keeps the counts.    *)
LEMMA RowsRest ==
  ASSUME UNCHANGED <<row, sent, reopened>>, OpeningsCount, Scheduled!DeliveredAsItReads
  PROVE  OpeningsCount' /\ Scheduled!DeliveredAsItReads'
  BY DEF OpeningsCount, Scheduled!DeliveredAsItReads, Scheduled!Overwritten, Scheduled!Exists

LEMMA InitSchedule ==
  ASSUME Scheduled!Bounds, Scheduled!Init
  PROVE  ScheduleInv
<1>1. ContentTypes
  BY NoRowIsContent DEF Scheduled!Bounds, Scheduled!Init, ContentTypes, Scheduled!Idle,
     Scheduled!NoEdit
<1>2. WorkerHoldsItsRow /\ EditsReopen /\ UnusedIsEmpty
  BY DEF Scheduled!Init, WorkerHoldsItsRow, EditsReopen, UnusedIsEmpty, Scheduled!Exists
<1>3. OpeningsCount
  BY DEF Scheduled!Init, OpeningsCount, Scheduled!Overwritten, Scheduled!Exists
<1>4. Scheduled!DeliveredAsItReads
  BY DEF Scheduled!Init, Scheduled!DeliveredAsItReads, Scheduled!Exists
<1> QED
  BY <1>1, <1>2, <1>3, <1>4 DEF ScheduleInv

(* The requests.                                                            *)
LEMMA StepSchedule ==
  ASSUME Scheduled!Bounds, ScheduleInv, Scheduled!Schedule
  PROVE  ScheduleInv'
<1> USE DEF ScheduleInv
<1> DEFINE m == used + 1
<1>1. m \in Scheduled!Row /\ used' = m /\ UNCHANGED <<now, worker, edit, sent, reopened, version>>
  BY DEF Scheduled!Schedule, Scheduled!Bounds, ContentTypes, Scheduled!Row
<1>2. PICK t \in Scheduled!Future :
        row' = [row EXCEPT ![m] = [Scheduled!NoRow EXCEPT !.at = t, !.version = 1]]
  BY <1>1 DEF Scheduled!Schedule, Scheduled!Write
<1> DEFINE new == [Scheduled!NoRow EXCEPT !.at = t, !.version = 1]
<1>3. row' = [row EXCEPT ![m] = new] /\ new \in Content /\ new # Scheduled!NoRow /\ ~new.delivered
  <2>1. t \in Nat
    BY <1>2 DEF Scheduled!Future, Scheduled!Bounds
  <2>2. new \in Content /\ new.version = 1 /\ new.delivered = Scheduled!NoRow.delivered
    BY <2>1, NoRowIsContent DEF Content
  <2>3. Scheduled!NoRow.version = 0 /\ ~Scheduled!NoRow.delivered
    BY DEF Scheduled!NoRow
  <2>4. row' = [row EXCEPT ![m] = new]
    BY ONLY <1>2
  <2> HIDE DEF new
  <2> QED
    BY <2>2, <2>3, <2>4
<1> HIDE DEF new
<1>4. ContentTypes'
  BY <1>1, <1>3 DEF ContentTypes, Scheduled!Bounds, Scheduled!Row
<1>5. ~Scheduled!Exists(m) /\ sent[m] = <<>>
  BY <1>1 DEF UnusedIsEmpty, ContentTypes
<1>6. WorkerHoldsItsRow'
  BY <1>1, <1>3, <1>5 DEF WorkerHoldsItsRow, Scheduled!Exists, ContentTypes
<1>7. EditsReopen'
  BY <1>1 DEF EditsReopen, ContentTypes, Scheduled!Row
<1>8. UnusedIsEmpty'
  BY <1>1, <1>3 DEF UnusedIsEmpty, Scheduled!Exists, ContentTypes, Scheduled!Row
<1>9. OpeningsCount'
  BY <1>1, <1>3, <1>5 DEF OpeningsCount, Scheduled!Overwritten, Scheduled!Exists, ContentTypes
<1>10. Scheduled!DeliveredAsItReads'
  BY <1>1, <1>3 DEF Scheduled!DeliveredAsItReads, Scheduled!Exists, ContentTypes
<1> QED
  BY <1>4, <1>6, <1>7, <1>8, <1>9, <1>10

LEMMA StepBeginEdit ==
  ASSUME Scheduled!Bounds, ScheduleInv, NEW m \in Scheduled!Row, NEW e \in Editor,
         Scheduled!BeginEdit(e, m)
  PROVE  ScheduleInv'
<1> USE DEF ScheduleInv
<1>1. UNCHANGED <<now, row, worker, used, sent, reopened, version>>
  BY DEF Scheduled!BeginEdit
<1>2. PICK t \in Scheduled!Future \cup {0} :
        edit' = [edit EXCEPT ![e] = [row |-> m, copy |-> row[m], at |-> t]]
  BY DEF Scheduled!BeginEdit
<1>3. m <= used /\ ~row[m].delivered
  BY DEF Scheduled!BeginEdit, UnusedIsEmpty, ContentTypes, Scheduled!Row
<1>4. t \in Nat
  BY <1>2 DEF Scheduled!Future, Scheduled!Bounds
<1>5. ContentTypes'
  <2> DEFINE begun == [row |-> m, copy |-> row[m], at |-> t]
  <2>1. m \in 0..MaxRows /\ row[m] \in Content
    BY DEF ContentTypes, Scheduled!Row, Scheduled!Bounds
  <2>2. begun \in [row : 0..MaxRows, copy : Content, at : Nat]
    BY <1>4, <2>1
  <2> HIDE DEF begun
  <2>3. edit' \in [Editor -> [row : 0..MaxRows, copy : Content, at : Nat]]
    <3>1. edit' = [edit EXCEPT ![e] = begun]
      BY <1>2 DEF begun
    <3> QED BY <2>2, <3>1 DEF ContentTypes
  <2> QED BY <1>1, <2>3 DEF ContentTypes
<1>6. WorkerHoldsItsRow' /\ UnusedIsEmpty'
  BY <1>1 DEF WorkerHoldsItsRow, UnusedIsEmpty, Scheduled!Exists
<1>7. EditsReopen'
  BY <1>1, <1>2, <1>3 DEF EditsReopen, ContentTypes
<1> QED
  BY <1>1, <1>5, <1>6, <1>7, RowsRest

(* An edit that overwrites a delivered or deleted row opens it again; any   *)
(* other leaves it open.                                                    *)
LEMMA StepSaveEdit ==
  ASSUME Scheduled!Bounds, ScheduleInv, NEW e \in Editor, Scheduled!SaveEdit(e)
  PROVE  ScheduleInv'
<1> USE DEF ScheduleInv
<1> DEFINE m == edit[e].row
           new == Scheduled!Edited(e)
<1>1. /\ m \in Scheduled!Row /\ m <= used /\ ~edit[e].copy.delivered /\ edit[e].copy \in Content
      /\ edit[e].at \in Nat
  BY DEF Scheduled!SaveEdit, EditsReopen, ContentTypes
<1>2. new \in Content /\ ~new.delivered /\ new # Scheduled!NoRow
  <2> DEFINE old == edit[e].copy
             at == IF edit[e].at = 0 THEN old.at ELSE edit[e].at
  <2>1. at \in Nat /\ version + 1 \in Nat /\ version + 1 # 0
    BY <1>1 DEF Content, ContentTypes
  <2>2. new = [old EXCEPT !.version = version + 1, !.at = at, !.failed = FALSE]
    BY DEF Scheduled!Edited
  <2> HIDE DEF new, at
  <2>3. new \in Content /\ new.version = version + 1 /\ new.delivered = old.delivered
    BY <1>1, <2>1, <2>2 DEF Content
  <2>4. Scheduled!NoRow.version = 0
    BY DEF Scheduled!NoRow
  <2> QED
    BY <1>1, <2>1, <2>3, <2>4
<1>3. /\ row' = [row EXCEPT ![m] = new] /\ version' = version + 1
      /\ reopened' = [reopened EXCEPT ![m] = @ + (IF Scheduled!Overwritten(m) THEN 1 ELSE 0)]
      /\ edit' = [edit EXCEPT ![e] = Scheduled!NoEdit]
      /\ UNCHANGED <<now, worker, used, sent>>
      /\ worker.row # m
  BY DEF Scheduled!SaveEdit, Scheduled!Write, Scheduled!Locked
<1> HIDE DEF new
<1>4. ContentTypes'
  BY <1>1, <1>2, <1>3, NoRowIsContent DEF ContentTypes, Scheduled!NoEdit, Scheduled!Bounds
<1>5. WorkerHoldsItsRow'
  BY <1>3 DEF WorkerHoldsItsRow, Scheduled!Exists, ContentTypes
<1>6. EditsReopen'
  BY <1>3 DEF EditsReopen, ContentTypes
<1>7. UnusedIsEmpty'
  BY <1>1, <1>3 DEF UnusedIsEmpty, Scheduled!Exists, ContentTypes, Scheduled!Row
<1>8. OpeningsCount'
  <2> SUFFICES ASSUME NEW n \in Scheduled!Row
               PROVE  /\ Len(sent[n]) <= reopened'[n] + 1
                      /\ ~Scheduled!Overwritten(n)' => Len(sent[n]) <= reopened'[n]
    BY <1>3 DEF OpeningsCount
  <2>0. sent[n] \in Seq(Nat) /\ Len(sent[n]) \in Nat /\ reopened[n] \in Nat
    BY DEF ContentTypes
  <2>1. CASE n # m
    <3>1. reopened'[n] = reopened[n] /\ row'[n] = row[n]
      BY <2>1, <1>3 DEF ContentTypes
    <3> QED
      BY <3>1 DEF OpeningsCount, Scheduled!Overwritten, Scheduled!Exists
  <2>2. CASE n = m /\ Scheduled!Overwritten(m)
    <3>1. reopened'[m] = reopened[m] + 1
      BY <2>2, <1>1, <1>3 DEF ContentTypes
    <3> QED
      BY <2>0, <2>2, <3>1 DEF OpeningsCount
  <2>3. CASE n = m /\ ~Scheduled!Overwritten(m)
    <3>1. reopened'[m] = reopened[m]
      BY <2>3, <1>1, <1>3 DEF ContentTypes
    <3> QED
      BY <2>0, <2>3, <3>1 DEF OpeningsCount
  <2> QED
    BY <2>1, <2>2, <2>3
<1>9. Scheduled!DeliveredAsItReads'
  BY <1>1, <1>2, <1>3 DEF Scheduled!DeliveredAsItReads, Scheduled!Exists, ContentTypes
<1> QED
  BY <1>4, <1>5, <1>6, <1>7, <1>8, <1>9

LEMMA StepRefuseEdit ==
  ASSUME Scheduled!Bounds, ScheduleInv, NEW e \in Editor, Scheduled!RefuseEdit(e)
  PROVE  ScheduleInv'
<1> USE DEF ScheduleInv
<1>1. UNCHANGED <<now, row, worker, used, sent, reopened, version>>
      /\ edit' = [edit EXCEPT ![e] = Scheduled!NoEdit]
  BY DEF Scheduled!RefuseEdit
<1>2. ContentTypes'
  BY <1>1, NoRowIsContent DEF ContentTypes, Scheduled!NoEdit, Scheduled!Bounds
<1>3. WorkerHoldsItsRow' /\ UnusedIsEmpty' /\ EditsReopen'
  BY <1>1 DEF WorkerHoldsItsRow, UnusedIsEmpty, Scheduled!Exists, EditsReopen, ContentTypes
<1> QED
  BY <1>1, <1>2, <1>3, RowsRest

LEMMA StepDelete ==
  ASSUME Scheduled!Bounds, ScheduleInv, NEW m \in Scheduled!Row, Scheduled!Delete(m)
  PROVE  ScheduleInv'
<1> USE DEF ScheduleInv
<1>1. /\ row' = [row EXCEPT ![m] = Scheduled!NoRow] /\ worker.row # m
      /\ UNCHANGED <<now, worker, edit, used, sent, reopened, version>>
  BY DEF Scheduled!Delete, Scheduled!Write, Scheduled!Locked
<1>2. ContentTypes'
  BY <1>1, NoRowIsContent DEF ContentTypes
<1>3. WorkerHoldsItsRow'
  BY <1>1 DEF WorkerHoldsItsRow, Scheduled!Exists, ContentTypes
<1>4. EditsReopen' /\ UnusedIsEmpty'
  BY <1>1 DEF EditsReopen, UnusedIsEmpty, Scheduled!Exists, ContentTypes
<1>5. OpeningsCount'
  BY <1>1 DEF OpeningsCount, Scheduled!Overwritten, Scheduled!Exists, ContentTypes
<1>6. Scheduled!DeliveredAsItReads'
  BY <1>1 DEF Scheduled!DeliveredAsItReads, Scheduled!Exists, ContentTypes
<1> QED
  BY <1>2, <1>3, <1>4, <1>5, <1>6

(* The delivery process.                                                    *)
LEMMA StepTakeDue ==
  ASSUME Scheduled!Bounds, ScheduleInv, Scheduled!TakeDue
  PROVE  ScheduleInv'
<1> USE DEF ScheduleInv
<1>1. UNCHANGED <<now, row, edit, used, sent, reopened, version>>
  BY DEF Scheduled!TakeDue, Scheduled!requests
<1>2. PICK m \in Scheduled!Row : Scheduled!Due(m) /\ worker' = [row |-> m, copy |-> row[m]]
  BY DEF Scheduled!TakeDue
<1>3. ContentTypes'
  BY <1>1, <1>2 DEF ContentTypes, Scheduled!Row, Scheduled!Bounds
<1>4. WorkerHoldsItsRow'
  BY <1>1, <1>2 DEF WorkerHoldsItsRow, Scheduled!Due, Scheduled!Undelivered, Scheduled!Exists
<1>5. UnusedIsEmpty' /\ EditsReopen'
  BY <1>1 DEF UnusedIsEmpty, Scheduled!Exists, EditsReopen
<1> QED
  BY <1>1, <1>3, <1>4, <1>5, RowsRest

(* A delivery uses up the opening of its row.                               *)
LEMMA StepDelivered ==
  ASSUME Scheduled!Bounds, ScheduleInv, Scheduled!Sending, Scheduled!Sent, NEW failed \in BOOLEAN,
         Scheduled!Mark(TRUE, failed),
         Scheduled!EndTransaction, UNCHANGED <<now, reopened, edit, used, version>>
  PROVE  ScheduleInv'
<1> USE DEF ScheduleInv
<1> DEFINE m == worker.row
           new == [row[m] EXCEPT !.delivered = TRUE, !.failed = failed]
<1>1. m \in Scheduled!Row /\ worker.copy = row[m] /\ Scheduled!Exists(m) /\ ~row[m].delivered
        /\ row[m] \in Content
  BY DEF Scheduled!Sending, WorkerHoldsItsRow, ContentTypes
<1>2. /\ row' = [row EXCEPT ![m] = new] /\ worker' = Scheduled!Idle
      /\ sent' = [sent EXCEPT ![m] = Append(@, row[m].version)]
  BY <1>1 DEF Scheduled!Sent, Scheduled!Mark, Scheduled!Write, Scheduled!EndTransaction
<1>3. new \in Content /\ new.delivered /\ new.version = row[m].version
  BY <1>1 DEF Content
<1> HIDE DEF new
<1>4. sent[m] \in Seq(Nat) /\ row[m].version \in Nat
  BY <1>1 DEF ContentTypes, Content
<1>5. Append(sent[m], row[m].version) \in Seq(Nat)
  BY <1>4
<1>6. ContentTypes'
  BY <1>1, <1>2, <1>3, <1>5, NoRowIsContent DEF ContentTypes, Scheduled!Idle, Scheduled!Bounds
<1>7. WorkerHoldsItsRow' /\ EditsReopen'
  BY <1>2 DEF WorkerHoldsItsRow, EditsReopen
<1>8. m <= used
  BY <1>1 DEF UnusedIsEmpty, ContentTypes, Scheduled!Row
<1>9. UnusedIsEmpty'
  BY <1>2, <1>8 DEF UnusedIsEmpty, Scheduled!Exists, ContentTypes, Scheduled!Row
<1>10. OpeningsCount'
  <2> SUFFICES ASSUME NEW n \in Scheduled!Row
               PROVE  /\ Len(sent'[n]) <= reopened[n] + 1
                      /\ ~Scheduled!Overwritten(n)' => Len(sent'[n]) <= reopened[n]
    BY DEF OpeningsCount
  <2>1. CASE n # m
    <3>1. sent'[n] = sent[n] /\ row'[n] = row[n]
      BY <2>1, <1>2 DEF ContentTypes
    <3> QED
      BY <3>1 DEF OpeningsCount, Scheduled!Overwritten, Scheduled!Exists
  <2>2. CASE n = m
    <3>1. ~Scheduled!Overwritten(m)
      BY <1>1 DEF Scheduled!Overwritten
    <3>2. Len(sent[m]) <= reopened[m]
      BY <3>1, <1>1 DEF OpeningsCount
    <3>3. sent'[m] = Append(sent[m], row[m].version) /\ row'[m] = new
      BY <1>1, <1>2 DEF ContentTypes
    <3>4. Len(sent'[m]) = Len(sent[m]) + 1 /\ Len(sent[m]) \in Nat
      BY <3>3, <1>4
    <3>5. Scheduled!Overwritten(n)'
      BY <2>2, <3>3, <1>3 DEF Scheduled!Overwritten
    <3>6. reopened[m] \in Nat
      BY <1>1 DEF ContentTypes
    <3> QED
      BY <2>2, <3>2, <3>4, <3>5, <3>6
  <2> QED
    BY <2>1, <2>2
<1>11. Scheduled!DeliveredAsItReads'
  <2> SUFFICES ASSUME NEW n \in Scheduled!Row, Scheduled!Exists(n)', row'[n].delivered
               PROVE  sent'[n] # <<>> /\ Scheduled!Last(sent'[n]) = row'[n].version
    BY DEF Scheduled!DeliveredAsItReads
  <2>1. CASE n # m
    BY <2>1, <1>2 DEF Scheduled!DeliveredAsItReads, Scheduled!Exists, ContentTypes
  <2>2. CASE n = m
    <3>1. sent'[m] = Append(sent[m], row[m].version) /\ row'[m].version = row[m].version
      BY <1>1, <1>2, <1>3 DEF ContentTypes
    <3> QED
      BY <2>2, <3>1, <1>4 DEF Scheduled!Last
  <2> QED
    BY <2>1, <2>2
<1> QED
  BY <1>6, <1>7, <1>9, <1>10, <1>11

(* A row that is refused stays undelivered.                                 *)
LEMMA StepRefuse ==
  ASSUME Scheduled!Bounds, ScheduleInv, Scheduled!Refuse
  PROVE  ScheduleInv'
<1> USE DEF ScheduleInv
<1> DEFINE m == worker.row
           new == [row[m] EXCEPT !.delivered = FALSE, !.failed = TRUE]
<1>1. m \in Scheduled!Row /\ Scheduled!Exists(m) /\ ~row[m].delivered /\ row[m] \in Content
  BY DEF Scheduled!Refuse, Scheduled!Sending, WorkerHoldsItsRow, ContentTypes
<1>2. /\ row' = [row EXCEPT ![m] = new] /\ worker' = Scheduled!Idle
      /\ UNCHANGED <<now, sent, reopened, edit, used, version>>
  BY DEF Scheduled!Refuse, Scheduled!Mark, Scheduled!Write, Scheduled!EndTransaction,
     Scheduled!requests
<1>3. new \in Content /\ ~new.delivered /\ new # Scheduled!NoRow
  BY <1>1 DEF Content, Scheduled!NoRow
<1> HIDE DEF new
<1>4. ContentTypes'
  BY <1>1, <1>2, <1>3, NoRowIsContent DEF ContentTypes, Scheduled!Idle, Scheduled!Bounds
<1>5. WorkerHoldsItsRow' /\ EditsReopen'
  BY <1>2 DEF WorkerHoldsItsRow, EditsReopen
<1>6. m <= used
  BY <1>1 DEF UnusedIsEmpty, ContentTypes, Scheduled!Row
<1>7. UnusedIsEmpty'
  BY <1>2, <1>6 DEF UnusedIsEmpty, Scheduled!Exists, ContentTypes, Scheduled!Row
<1>8. OpeningsCount'
  BY <1>1, <1>2, <1>3 DEF OpeningsCount, Scheduled!Overwritten, Scheduled!Exists, ContentTypes
<1>9. Scheduled!DeliveredAsItReads'
  BY <1>1, <1>2, <1>3 DEF Scheduled!DeliveredAsItReads, Scheduled!Exists, ContentTypes
<1> QED
  BY <1>4, <1>5, <1>7, <1>8, <1>9

LEMMA StepDeliveryDies ==
  ASSUME Scheduled!Bounds, ScheduleInv, Scheduled!DeliveryDies
  PROVE  ScheduleInv'
<1> USE DEF ScheduleInv
<1>1. worker' = Scheduled!Idle /\ UNCHANGED <<now, row, sent, reopened, edit, used, version>>
  BY DEF Scheduled!DeliveryDies, Scheduled!EndTransaction, Scheduled!requests
<1>2. ContentTypes'
  BY <1>1, NoRowIsContent DEF ContentTypes, Scheduled!Idle, Scheduled!Bounds
<1>3. WorkerHoldsItsRow' /\ UnusedIsEmpty' /\ EditsReopen'
  BY <1>1 DEF WorkerHoldsItsRow, UnusedIsEmpty, Scheduled!Exists, EditsReopen
<1> QED
  BY <1>1, <1>2, <1>3, RowsRest

LEMMA StepTimePasses ==
  ASSUME Scheduled!Bounds, ScheduleInv, Scheduled!TimePasses \/ UNCHANGED Scheduled!vars
  PROVE  ScheduleInv'
<1> USE DEF ScheduleInv
<1>1. UNCHANGED <<row, worker, sent, reopened, edit, used, version>> /\ now' \in Nat
  BY DEF Scheduled!TimePasses, Scheduled!vars, ContentTypes
<1>2. ContentTypes'
  BY <1>1 DEF ContentTypes
<1>3. WorkerHoldsItsRow' /\ UnusedIsEmpty' /\ EditsReopen'
  BY <1>1 DEF WorkerHoldsItsRow, UnusedIsEmpty, Scheduled!Exists, EditsReopen
<1> QED
  BY <1>1, <1>2, <1>3, RowsRest

LEMMA StepScheduleInv ==
  ASSUME Scheduled!Bounds, ScheduleInv, [Scheduled!Next]_Scheduled!vars
  PROVE  ScheduleInv'
<1>1. CASE Scheduled!Schedule
  BY <1>1, StepSchedule
<1>2. CASE Scheduled!TimePasses \/ UNCHANGED Scheduled!vars
  BY <1>2, StepTimePasses
<1>3. CASE \E m \in Scheduled!Row : Scheduled!Delete(m)
             \/ \E e \in Editor : Scheduled!BeginEdit(e, m)
  BY <1>3, StepDelete, StepBeginEdit
<1>4. CASE \E e \in Editor : Scheduled!SaveEdit(e) \/ Scheduled!RefuseEdit(e)
  BY <1>4, StepSaveEdit, StepRefuseEdit
<1>5. CASE Scheduled!TakeDue
  BY <1>5, StepTakeDue
<1>6. CASE Scheduled!Deliver
  BY <1>6, StepDelivered DEF Scheduled!Deliver, Scheduled!requests
<1>7. CASE Scheduled!DeliverThenFail
  BY <1>7, StepDelivered DEF Scheduled!DeliverThenFail, Scheduled!requests
<1>8. CASE Scheduled!Refuse
  BY <1>8, StepRefuse
<1>9. CASE Scheduled!DeliveryDies
  BY <1>9, StepDeliveryDies
<1> QED
  BY <1>1, <1>2, <1>3, <1>4, <1>5, <1>6, <1>7, <1>8, <1>9 DEF Scheduled!Next

LEMMA InvImpliesFaithful ==
  ASSUME ScheduleInv
  PROVE  Scheduled!DeliveredFaithfully
<1>1. Scheduled!SentOncePerOpening
  <2> SUFFICES ASSUME NEW m \in Scheduled!Row PROVE Len(sent[m]) <= 1 + reopened[m]
    BY DEF Scheduled!SentOncePerOpening
  <2>1. sent[m] \in Seq(Nat) /\ Len(sent[m]) \in Nat /\ reopened[m] \in Nat
    BY DEF ScheduleInv, ContentTypes
  <2>2. Len(sent[m]) <= reopened[m] + 1
    BY DEF ScheduleInv, OpeningsCount
  <2> QED
    BY <2>1, <2>2
<1> QED
  BY <1>1 DEF ScheduleInv, Scheduled!DeliveredFaithfully

----------------------------------------------------------------------------
(* The types of the module: an edit that begins reserves a version, so that *)
(* the edits in progress never run out of them.                             *)
EditType == [row : 0..MaxRows, copy : Scheduled!RowType, at : 0..MaxTime]
Pending == {e \in Editor : edit[e] # Scheduled!NoEdit}
VersionsSuffice ==
  /\ IsFiniteSet(Pending) /\ Cardinality(Pending) \in Nat
  /\ version \in Nat \ {0} /\ version + Cardinality(Pending) <= MaxVersion

ScheduleNumbers ==
  /\ VersionsSuffice
  /\ now \in 0..Scheduled!LastTime /\ faults \in 0..DeliveryFaults
  /\ row \in [Scheduled!Row -> Scheduled!RowType]
  /\ worker \in [row : 0..MaxRows, copy : Scheduled!RowType]
  /\ edit \in [Editor -> EditType]
  /\ \A m \in Scheduled!Row : Scheduled!Exists(m) => row[m].version > 0
  /\ sent \in [Scheduled!Row -> Seq(1..MaxVersion)]
  /\ reopened \in [Scheduled!Row -> Nat] /\ \A m \in Scheduled!Row : reopened[m] < version

LEMMA NumbersAreNat ==
  ASSUME Scheduled!Bounds
  PROVE  /\ MaxRows \in Nat /\ MaxTime \in Nat /\ DeliveryFaults \in Nat /\ MaxVersion \in Nat \ {0}
         /\ Scheduled!LastTime \in Nat /\ Scheduled!NoRow \in Scheduled!RowType
         /\ Scheduled!NoEdit \in EditType
         /\ Scheduled!Idle \in [row : 0..MaxRows, copy : Scheduled!RowType]
BY DEF Scheduled!Bounds, Scheduled!LastTime, Scheduled!LateCutoff, Scheduled!NoRow,
   Scheduled!RowType, Scheduled!NoEdit, EditType, Scheduled!Idle

LEMMA InitNumbers ==
  ASSUME Scheduled!Bounds, Scheduled!Init
  PROVE  ScheduleNumbers
<1>1. Pending = {}
  BY DEF Scheduled!Init, Pending
<1>2. VersionsSuffice
  BY <1>1, FS_EmptySet, NumbersAreNat DEF VersionsSuffice, Scheduled!Init
<1>3. sent \in [Scheduled!Row -> Seq(1..MaxVersion)]
  BY DEF Scheduled!Init
<1> QED
  BY <1>2, <1>3, NumbersAreNat DEF Scheduled!Init, ScheduleNumbers, Scheduled!Exists

(* Steps that begin and end no edit.                                        *)
LEMMA NoNewVersion ==
  ASSUME ScheduleNumbers, UNCHANGED <<edit, version, reopened>>,
         now' \in 0..Scheduled!LastTime, faults' \in 0..DeliveryFaults,
           row' \in [Scheduled!Row -> Scheduled!RowType],
         worker' \in [row : 0..MaxRows, copy : Scheduled!RowType],
         \A m \in Scheduled!Row : Scheduled!Exists(m)' => row'[m].version > 0,
         sent' \in [Scheduled!Row -> Seq(1..MaxVersion)]
  PROVE  ScheduleNumbers'
<1>1. Pending' = Pending
  BY DEF Pending
<1>2. VersionsSuffice'
  BY <1>1 DEF VersionsSuffice, ScheduleNumbers
<1> QED
  BY <1>2 DEF ScheduleNumbers

(* One row is written, as another version of it or a new one.               *)
LEMMA RowWritten ==
  ASSUME ScheduleNumbers, NEW m \in Scheduled!Row, NEW r \in Scheduled!RowType,
         r # Scheduled!NoRow => r.version > 0, Scheduled!Write(m, r)
  PROVE  /\ row' \in [Scheduled!Row -> Scheduled!RowType]
         /\ \A n \in Scheduled!Row : Scheduled!Exists(n)' => row'[n].version > 0
<1>1. row \in [Scheduled!Row -> Scheduled!RowType] /\ row' = [row EXCEPT ![m] = r]
  BY DEF ScheduleNumbers, Scheduled!Write
<1>2. \A n \in Scheduled!Row : row'[n] = IF n = m THEN r ELSE row[n]
  BY <1>1
<1>3. \A n \in Scheduled!Row : row[n] # Scheduled!NoRow => row[n].version > 0
  BY DEF ScheduleNumbers, Scheduled!Exists
<1> QED
  BY <1>1, <1>2, <1>3 DEF Scheduled!Exists

LEMMA FirstVersion ==
  ASSUME NEW r \in Scheduled!RowType, NEW t \in 0..MaxTime, 1 \in 0..MaxVersion
  PROVE  /\ [r EXCEPT !.at = t, !.version = 1] \in Scheduled!RowType
         /\ [r EXCEPT !.at = t, !.version = 1].version = 1
BY DEF Scheduled!RowType

LEMMA ScheduleCounts ==
  ASSUME Scheduled!Bounds, ScheduleInv, ScheduleNumbers, Scheduled!Schedule
  PROVE  ScheduleNumbers'
<1>1. PICK t \in Scheduled!Future :
        Scheduled!Write(used', [Scheduled!NoRow EXCEPT !.at = t, !.version = 1])
  BY DEF Scheduled!Schedule
<1>2. used' \in Scheduled!Row
  <2>1. used < MaxRows /\ used' = used + 1 /\ used \in 0..MaxRows
    BY DEF Scheduled!Schedule, ScheduleInv, ContentTypes
  <2> QED
    BY <2>1, NumbersAreNat DEF Scheduled!Row
<1>3. PICK m, r : m = used' /\ r = [Scheduled!NoRow EXCEPT !.at = t, !.version = 1]
  OBVIOUS
<1>4. r \in Scheduled!RowType /\ r.version = 1
  <2>1. t \in 0..MaxTime /\ 1 \in 0..MaxVersion /\ Scheduled!NoRow \in Scheduled!RowType
    BY NumbersAreNat DEF Scheduled!Future
  <2> QED
    BY <1>3, <2>1, FirstVersion
<1>5. /\ row' \in [Scheduled!Row -> Scheduled!RowType]
      /\ \A n \in Scheduled!Row : Scheduled!Exists(n)' => row'[n].version > 0
  <2>1. m \in Scheduled!Row /\ Scheduled!Write(m, r) /\ r.version > 0
    BY <1>1, <1>2, <1>3, <1>4
  <2> QED
    BY <1>4, <2>1, RowWritten
<1> QED
  BY <1>5, NoNewVersion DEF Scheduled!Schedule, ScheduleNumbers

LEMMA BeginEditCounts ==
  ASSUME Scheduled!Bounds, ScheduleInv, ScheduleNumbers, NEW e \in Editor, NEW m \in Scheduled!Row,
         Scheduled!BeginEdit(e, m)
  PROVE  ScheduleNumbers'
<1>1. /\ edit[e] = Scheduled!NoEdit /\ version + Cardinality(Pending) < MaxVersion
      /\ UNCHANGED <<now, row, worker, used, sent, reopened, version, faults>>
  BY SameSize DEF Scheduled!BeginEdit, Pending
<1>2. PICK t \in Scheduled!Future \cup {0} :
        edit' = [edit EXCEPT ![e] = [row |-> m, copy |-> row[m], at |-> t]]
  BY DEF Scheduled!BeginEdit
<1>3. PICK new : new = [row |-> m, copy |-> row[m], at |-> t]
  OBVIOUS
<1>4. new \in EditType /\ new # Scheduled!NoEdit
  BY <1>3, NumbersAreNat DEF EditType, Scheduled!NoEdit, Scheduled!Row, Scheduled!Future,
     ScheduleNumbers
<1>5. edit \in [Editor -> EditType] /\ edit' = [edit EXCEPT ![e] = new]
  BY <1>2, <1>3 DEF ScheduleNumbers
<1>6. edit' \in [Editor -> EditType] /\ \A f \in Editor : edit'[f] = IF f = e THEN new ELSE edit[f]
  BY <1>4, <1>5
<1>7. Pending' = Pending \cup {e} /\ e \notin Pending
  BY <1>1, <1>4, <1>6 DEF Pending
<1>8. VersionsSuffice'
  <2>1. IsFiniteSet(Pending) /\ Cardinality(Pending) \in Nat /\ version \in Nat \ {0}
    BY DEF ScheduleNumbers, VersionsSuffice
  <2>2. IsFiniteSet(Pending') /\ Cardinality(Pending') = Cardinality(Pending) + 1
    BY <1>7, <2>1, FS_AddElement
  <2> QED
    BY <1>1, <2>1, <2>2, NumbersAreNat DEF VersionsSuffice
<1> QED
  BY <1>1, <1>6, <1>8 DEF ScheduleNumbers, Scheduled!Exists

(* An edit in progress ends.                                                *)
LEMMA EditEnds ==
  ASSUME ScheduleNumbers, NEW e \in Editor, edit[e] # Scheduled!NoEdit, Scheduled!Bounds,
         edit' = [edit EXCEPT ![e] = Scheduled!NoEdit]
  PROVE  /\ edit' \in [Editor -> EditType]
         /\ IsFiniteSet(Pending') /\ Cardinality(Pending') \in Nat
         /\ version + Cardinality(Pending') < MaxVersion
<1>1. edit \in [Editor -> EditType] /\ Scheduled!NoEdit \in EditType
  BY NumbersAreNat DEF ScheduleNumbers
<1>2. edit' \in [Editor -> EditType]
        /\ \A f \in Editor : edit'[f] = IF f = e THEN Scheduled!NoEdit ELSE edit[f]
  BY <1>1
<1>3. Pending' = Pending \ {e} /\ e \in Pending
  BY <1>2 DEF Pending
<1>4. /\ IsFiniteSet(Pending) /\ Cardinality(Pending) \in Nat /\ version \in Nat \ {0}
      /\ version + Cardinality(Pending) <= MaxVersion
  BY DEF ScheduleNumbers, VersionsSuffice
<1>5. IsFiniteSet(Pending') /\ Cardinality(Pending') = Cardinality(Pending) - 1
  BY <1>3, <1>4, FS_RemoveElement
<1>6. Cardinality(Pending') \in Nat
  BY <1>5, FS_CardinalityType
<1> QED
  BY <1>2, <1>4, <1>5, <1>6, NumbersAreNat

LEMMA SaveEditCounts ==
  ASSUME Scheduled!Bounds, ScheduleInv, ScheduleNumbers, NEW e \in Editor, Scheduled!SaveEdit(e)
  PROVE  ScheduleNumbers'
<1> DEFINE m == edit[e].row
           r == Scheduled!Edited(e)
<1>1. /\ edit[e] # Scheduled!NoEdit /\ Scheduled!Write(m, r) /\ version' = version + 1
      /\ edit' = [edit EXCEPT ![e] = Scheduled!NoEdit]
      /\ reopened' = [reopened EXCEPT ![m] = @ + (IF Scheduled!Overwritten(m) THEN 1 ELSE 0)]
      /\ UNCHANGED <<now, worker, used, sent, faults>>
  BY DEF Scheduled!SaveEdit
<1>2. m \in Scheduled!Row
  BY <1>1 DEF ScheduleInv, EditsReopen
<1>3. /\ edit' \in [Editor -> EditType]
      /\ IsFiniteSet(Pending') /\ Cardinality(Pending') \in Nat
      /\ version + Cardinality(Pending') < MaxVersion
  BY <1>1, EditEnds
<1>4. version \in Nat \ {0}
  BY DEF ScheduleNumbers, VersionsSuffice
<1>5. VersionsSuffice'
  BY <1>1, <1>3, <1>4, NumbersAreNat DEF VersionsSuffice
<1>6. r \in Scheduled!RowType /\ r.version > 0
  <2>1. PICK old : old = edit[e].copy
    OBVIOUS
  <2>2. PICK t : t = IF edit[e].at = 0 THEN old.at ELSE edit[e].at
    OBVIOUS
  <2>3. edit[e] \in EditType
    BY DEF ScheduleNumbers
  <2>4. old \in Scheduled!RowType /\ edit[e].at \in 0..MaxTime
    BY <2>1, <2>3 DEF EditType
  <2>5. t \in 0..MaxTime /\ version + 1 \in 1..MaxVersion
    BY <1>3, <1>4, <2>2, <2>4, NumbersAreNat DEF Scheduled!RowType
  <2>6. r = [old EXCEPT !.version = version + 1, !.at = t, !.failed = FALSE]
    BY <2>1, <2>2, <2>4 DEF Scheduled!Edited, Scheduled!RowType
  <2> HIDE DEF r
  <2>7. r = [at |-> t, version |-> version + 1, delivered |-> old.delivered, failed |-> FALSE]
    BY <2>4, <2>6 DEF Scheduled!RowType
  <2>8. old.delivered \in BOOLEAN /\ version + 1 \in 0..MaxVersion /\ version + 1 > 0
    BY <1>4, <2>4, <2>5 DEF Scheduled!RowType
  <2>9. r \in Scheduled!RowType
    BY <2>5, <2>7, <2>8 DEF Scheduled!RowType
  <2> QED
    BY <2>7, <2>8, <2>9
<1> HIDE DEF m, r
<1>7. /\ row' \in [Scheduled!Row -> Scheduled!RowType]
      /\ \A n \in Scheduled!Row : Scheduled!Exists(n)' => row'[n].version > 0
  BY <1>1, <1>2, <1>6, RowWritten
<1>8. reopened' \in [Scheduled!Row -> Nat] /\ \A n \in Scheduled!Row : reopened'[n] < version'
  <2>1. reopened \in [Scheduled!Row -> Nat] /\ \A n \in Scheduled!Row : reopened[n] < version
    BY DEF ScheduleNumbers
  <2>2. PICK k \in {0, 1} : reopened' = [reopened EXCEPT ![m] = @ + k]
    BY <1>1, <1>2, <2>1
  <2>3. reopened' \in [Scheduled!Row -> Nat]
          /\ \A n \in Scheduled!Row : reopened'[n] \in {reopened[n], reopened[n] + k}
    BY <1>2, <2>1, <2>2
  <2>4. version' = version + 1 /\ k \in {0, 1}
    BY <1>1
  <2> QED
    BY <1>4, <2>1, <2>3, <2>4
<1> QED
  BY <1>1, <1>3, <1>5, <1>7, <1>8 DEF ScheduleNumbers

LEMMA RefuseEditCounts ==
  ASSUME Scheduled!Bounds, ScheduleInv, ScheduleNumbers, NEW e \in Editor, Scheduled!RefuseEdit(e)
  PROVE  ScheduleNumbers'
<1>1. /\ edit[e] # Scheduled!NoEdit /\ edit' = [edit EXCEPT ![e] = Scheduled!NoEdit]
      /\ faults < DeliveryFaults /\ faults' = faults + 1
      /\ UNCHANGED <<now, row, worker, used, sent, reopened, version>>
  BY DEF Scheduled!RefuseEdit, Scheduled!Fault
<1>2. /\ edit' \in [Editor -> EditType]
      /\ IsFiniteSet(Pending') /\ Cardinality(Pending') \in Nat
      /\ version + Cardinality(Pending') < MaxVersion
  BY <1>1, EditEnds
<1>3. VersionsSuffice'
  BY <1>1, <1>2, NumbersAreNat DEF VersionsSuffice, ScheduleNumbers
<1>4. faults' \in 0..DeliveryFaults
  BY <1>1, NumbersAreNat DEF ScheduleNumbers
<1> QED
  BY <1>1, <1>2, <1>3, <1>4 DEF ScheduleNumbers, Scheduled!Exists

LEMMA DeleteCounts ==
  ASSUME Scheduled!Bounds, ScheduleInv, ScheduleNumbers, NEW m \in Scheduled!Row,
         Scheduled!Delete(m)
  PROVE  ScheduleNumbers'
<1>1. /\ row' \in [Scheduled!Row -> Scheduled!RowType]
      /\ \A n \in Scheduled!Row : Scheduled!Exists(n)' => row'[n].version > 0
  BY RowWritten, NumbersAreNat DEF Scheduled!Delete
<1> QED
  BY <1>1, NoNewVersion DEF Scheduled!Delete, ScheduleNumbers

(* The delivery process marks its row.                                      *)
LEMMA MarkCounts ==
  ASSUME Scheduled!Bounds, ScheduleInv, ScheduleNumbers, Scheduled!Sending,
         NEW delivered \in BOOLEAN, NEW failed \in BOOLEAN, Scheduled!Mark(delivered, failed),
         Scheduled!EndTransaction, UNCHANGED <<now, reopened, Scheduled!requests>>,
         sent' = sent \/ Scheduled!Sent, faults' = faults \/ Scheduled!Fault
  PROVE  ScheduleNumbers'
<1> DEFINE m == worker.row
<1>1. /\ m \in Scheduled!Row /\ worker.copy = row[m] /\ row[m] # Scheduled!NoRow
  BY DEF ScheduleInv, WorkerHoldsItsRow, Scheduled!Sending, Scheduled!Exists
<1>2. row[m] \in Scheduled!RowType /\ row[m].version > 0
  BY <1>1 DEF ScheduleNumbers, Scheduled!Exists
<1>3. PICK r : r = [row[m] EXCEPT !.delivered = delivered, !.failed = failed]
  OBVIOUS
<1>4. r \in Scheduled!RowType /\ r.version = row[m].version
  BY <1>2, <1>3 DEF Scheduled!RowType
<1>5. Scheduled!Write(m, r)
  BY <1>3 DEF Scheduled!Mark
<1> HIDE DEF m
<1>6. /\ row' \in [Scheduled!Row -> Scheduled!RowType]
      /\ \A n \in Scheduled!Row : Scheduled!Exists(n)' => row'[n].version > 0
  BY <1>1, <1>2, <1>4, <1>5, RowWritten
<1>7. sent' \in [Scheduled!Row -> Seq(1..MaxVersion)]
  <2>1. sent \in [Scheduled!Row -> Seq(1..MaxVersion)]
    BY DEF ScheduleNumbers
  <2>2. row[m].version \in 1..MaxVersion
    BY <1>2, NumbersAreNat DEF Scheduled!RowType
  <2>3. CASE Scheduled!Sent
    <3>1. sent' = [sent EXCEPT ![m] = Append(@, row[m].version)]
      BY <1>1, <2>3 DEF Scheduled!Sent, m
    <3>2. Append(sent[m], row[m].version) \in Seq(1..MaxVersion)
      BY <1>1, <2>1, <2>2
    <3> QED
      BY <2>1, <3>1, <3>2
  <2> QED
    BY <2>1, <2>3
<1>8. faults' \in 0..DeliveryFaults
  BY NumbersAreNat DEF Scheduled!Fault, ScheduleNumbers
<1>9. worker' \in [row : 0..MaxRows, copy : Scheduled!RowType]
  BY NumbersAreNat DEF Scheduled!EndTransaction
<1> QED
  BY <1>6, <1>7, <1>8, <1>9, NoNewVersion DEF ScheduleNumbers, Scheduled!requests

LEMMA WorkerCounts ==
  ASSUME Scheduled!Bounds, ScheduleInv, ScheduleNumbers, Scheduled!TakeDue
         \/ Scheduled!DeliveryDies \/ Scheduled!TimePasses \/ UNCHANGED Scheduled!vars
  PROVE  ScheduleNumbers'
<1>1. CASE Scheduled!TakeDue
  <2>1. PICK m \in Scheduled!Row : worker' = [row |-> m, copy |-> row[m]]
    BY <1>1 DEF Scheduled!TakeDue
  <2>2. worker' \in [row : 0..MaxRows, copy : Scheduled!RowType]
    <3>1. m \in 0..MaxRows /\ row[m] \in Scheduled!RowType
      <4>1. m \in 0..MaxRows
        BY NumbersAreNat DEF Scheduled!Row
      <4> QED
        BY <4>1 DEF ScheduleNumbers
    <3> QED
      BY <2>1, <3>1
  <2> QED
    BY <1>1, <2>2, NoNewVersion DEF Scheduled!TakeDue, Scheduled!requests, ScheduleNumbers,
       Scheduled!Exists
<1>2. CASE Scheduled!DeliveryDies
  <2>1. faults' \in 0..DeliveryFaults
    BY <1>2, NumbersAreNat DEF Scheduled!DeliveryDies, Scheduled!Fault, ScheduleNumbers
  <2>2. worker' \in [row : 0..MaxRows, copy : Scheduled!RowType]
    BY <1>2, NumbersAreNat DEF Scheduled!DeliveryDies, Scheduled!EndTransaction
  <2> QED
    BY <1>2, <2>1, <2>2, NoNewVersion DEF Scheduled!DeliveryDies, Scheduled!requests,
       ScheduleNumbers, Scheduled!Exists
<1>3. CASE Scheduled!TimePasses
  <2>1. now' \in 0..Scheduled!LastTime
    BY <1>3, NumbersAreNat DEF Scheduled!TimePasses, ScheduleNumbers
  <2> QED
    BY <1>3, <2>1, NoNewVersion DEF Scheduled!TimePasses, ScheduleNumbers, Scheduled!Exists
<1>4. CASE UNCHANGED Scheduled!vars
  BY <1>4, NoNewVersion DEF Scheduled!vars, ScheduleNumbers, Scheduled!Exists
<1> QED
  BY <1>1, <1>2, <1>3, <1>4

LEMMA ScheduleCounted ==
  ASSUME Scheduled!Bounds, ScheduleInv, ScheduleNumbers, [Scheduled!Next]_Scheduled!vars
  PROVE  ScheduleNumbers'
<1>1. CASE Scheduled!TakeDue \/ Scheduled!DeliveryDies \/ Scheduled!TimePasses
             \/ UNCHANGED Scheduled!vars
  BY <1>1, WorkerCounts
<1>2. CASE Scheduled!Deliver
  BY <1>2, MarkCounts DEF Scheduled!Deliver
<1>3. CASE Scheduled!DeliverThenFail
  BY <1>3, MarkCounts DEF Scheduled!DeliverThenFail
<1>4. CASE Scheduled!Refuse
  BY <1>4, MarkCounts DEF Scheduled!Refuse
<1>5. CASE \E e \in Editor : Scheduled!SaveEdit(e) \/ Scheduled!RefuseEdit(e)
  BY <1>5, SaveEditCounts, RefuseEditCounts
<1>6. CASE Scheduled!Schedule \/ \E m \in Scheduled!Row : Scheduled!Delete(m)
             \/ \E e \in Editor : Scheduled!BeginEdit(e, m)
  BY <1>6, ScheduleCounts, DeleteCounts, BeginEditCounts
<1> QED
  BY <1>1, <1>2, <1>3, <1>4, <1>5, <1>6 DEF Scheduled!Next

\* What a sequence over S holds is in S.
LEMMA ElementsBelong ==
  ASSUME NEW S, NEW q \in Seq(S), NEW i \in 1..Len(q)
  PROVE  q[i] \in S
OBVIOUS

LEMMA ScheduleTypes ==
  ASSUME Scheduled!Bounds, ScheduleInv, ScheduleNumbers
  PROVE  Scheduled!TypeOK
<1>1. Scheduled!Sending => worker.copy = row[worker.row] /\ Scheduled!Exists(worker.row)
  BY DEF ScheduleInv, WorkerHoldsItsRow, Scheduled!Sending
<1>2. version \in 1..MaxVersion
  BY NumbersAreNat DEF ScheduleNumbers, VersionsSuffice
<1>3. reopened \in [Scheduled!Row -> 0..MaxVersion]
  BY <1>2, NumbersAreNat DEF ScheduleNumbers
<1>4. \A m \in Scheduled!Row : Scheduled!Range(sent[m]) \subseteq 1..MaxVersion
  <2> SUFFICES ASSUME NEW m \in Scheduled!Row PROVE Scheduled!Range(sent[m]) \subseteq 1..MaxVersion
    OBVIOUS
  <2>1. sent[m] \in Seq(1..MaxVersion)
    BY DEF ScheduleNumbers
  <2>2. Scheduled!Range(sent[m]) = {sent[m][i] : i \in 1..Len(sent[m])}
    BY <2>1 DEF Scheduled!Range
  <2> QED
    BY <2>1, <2>2, ElementsBelong
<1>5. used \in 0..MaxRows
  BY DEF ScheduleInv, ContentTypes
<1> QED
  BY <1>1, <1>2, <1>3, <1>4, <1>5 DEF Scheduled!TypeOK, ScheduleNumbers, EditType

(***************************************************************************)
(* Push notifications: what is shown of a message that was read or deleted *)
(* is about to be taken back.                                              *)
(***************************************************************************)
Notifications == [type : {"add", "remove"}, messages : SUBSET Pushed, tries : 0..MaxRetries]
MessageRows == [Pushed -> [read : BOOLEAN, active : BOOLEAN, deleted : BOOLEAN]]
Reasons == {"no", "overlooked", "refused", "given up"}

Has(q, type, m) == \E i \in 1..Len(q) : q[i].type = type /\ m \in q[i].messages

(* The types that the proof needs.                                          *)
PushTypes ==
  /\ um \in MessageRows
  /\ notices \in Seq(Notifications)
  /\ device \subseteq Pushed
  /\ sweeping \in BOOLEAN
  /\ lost \in [Pushed -> Reasons]

(* What the worker did of the notice at the head of the queue: a message it *)
(* claims is not deleted, and a removal it sent worked, was lost or is sent *)
(* once more.                                                               *)
StageInv ==
  /\ stage \in {"waiting", "claiming", "claimed", "sent"}
  /\ stage \in {"claiming", "claimed"} => Push!Working("add")
  /\ stage = "claiming" => \A m \in Push!Current.messages : ~um[m].deleted
  /\ stage = "sent" =>
       /\ Push!Working("remove")
       /\ \A m \in Push!Current.messages :
            m \notin device \/ lost[m] # "no" \/ Has(Tail(notices), "remove", m)

(* A notification is shown, or is about to be.                              *)
Shown(m) == m \in device \/ (stage = "claimed" /\ m \in Push!Current.messages)

(* Its removal is on the way, or was lost.                                  *)
Revoked(m) == Has(notices, "remove", m) \/ lost[m] # "no"

Revocable(m) ==
  /\ um[m].active \/ Revoked(m)
  /\ um[m].read \/ um[m].deleted => Revoked(m)

PushInv ==
  /\ PushTypes /\ StageInv
  /\ \A m \in Pushed : Shown(m) => Revocable(m)

----------------------------------------------------------------------------
LEMMA HasAppend ==
  ASSUME NEW q \in Seq(Notifications), NEW e \in Notifications, NEW type, NEW m
  PROVE  /\ Append(q, e) \in Seq(Notifications)
         /\ Has(q, type, m) => Has(Append(q, e), type, m)
         /\ e.type = type /\ m \in e.messages => Has(Append(q, e), type, m)
<1>1. Append(q, e) \in Seq(Notifications) /\ Len(Append(q, e)) = Len(q) + 1
      /\ Append(q, e)[Len(q) + 1] = e /\ \A i \in 1..Len(q) : Append(q, e)[i] = q[i]
  OBVIOUS
<1>2. Has(q, type, m) => Has(Append(q, e), type, m)
  BY <1>1 DEF Has
<1>3. e.type = type /\ m \in e.messages => Has(Append(q, e), type, m)
  BY <1>1 DEF Has
<1> QED BY <1>1, <1>2, <1>3

LEMMA HeadStays ==
  ASSUME NEW q \in Seq(Notifications), NEW e \in Notifications, q # <<>>
  PROVE  /\ Append(q, e) # <<>> /\ Head(Append(q, e)) = Head(q)
         /\ Tail(q) \in Seq(Notifications) /\ Tail(Append(q, e)) = Append(Tail(q), e)
OBVIOUS

LEMMA HasTail ==
  ASSUME NEW q \in Seq(Notifications), q # <<>>, NEW type, NEW m
  PROVE  /\ Tail(q) \in Seq(Notifications) /\ Head(q) \in Notifications
         /\ Has(q, type, m) /\ ~(Head(q).type = type /\ m \in Head(q).messages)
              => Has(Tail(q), type, m)
<1>1. Tail(q) \in Seq(Notifications) /\ Head(q) \in Notifications /\ Head(q) = q[1]
      /\ Len(Tail(q)) = Len(q) - 1 /\ \A i \in 1..Len(q) - 1 : Tail(q)[i] = q[i + 1]
  OBVIOUS
<1>2. ASSUME Has(q, type, m), ~(Head(q).type = type /\ m \in Head(q).messages)
      PROVE  Has(Tail(q), type, m)
  <2>1. PICK i \in 1..Len(q) : q[i].type = type /\ m \in q[i].messages
    BY <1>2 DEF Has
  <2>2. i # 1
    BY <1>1, <1>2, <2>1
  <2>3. i - 1 \in 1..Len(Tail(q)) /\ Tail(q)[i - 1] = q[i]
    BY <1>1, <2>1, <2>2
  <2> QED BY <2>1, <2>3 DEF Has
<1> QED BY <1>1, <1>2

LEMMA NoticeTypes ==
  ASSUME Push!Bounds, NEW S \in SUBSET Pushed, NEW type \in {"add", "remove"}
  PROVE  Push!Notice(type, S) \in Notifications
<1>1. 0 \in 0..MaxRetries
  BY DEF Push!Bounds
<1> QED BY <1>1 DEF Push!Notice, Notifications

LEMMA HeadTypes ==
  ASSUME PushInv, notices # <<>>
  PROVE  Push!Current \in Notifications /\ Push!Current.messages \subseteq Pushed
           /\ Tail(notices) \in Seq(Notifications)
BY HasTail DEF PushInv, PushTypes, Push!Current, Notifications

LEMMA PushInit == ASSUME Push!Init PROVE PushInv
<1>1. um \in MessageRows /\ lost \in [Pushed -> Reasons]
  BY DEF Push!Init, MessageRows, Reasons
<1>2. notices = <<>> /\ device = {} /\ sweeping = FALSE /\ stage = "waiting"
  BY DEF Push!Init
<1>3. notices \in Seq(Notifications)
  BY <1>2
<1>4. PushTypes
  BY <1>1, <1>2, <1>3 DEF PushTypes
<1>5. StageInv
  BY <1>2 DEF StageInv
<1>6. \A m \in Pushed : ~Shown(m)
  BY <1>2 DEF Shown
<1> QED BY <1>4, <1>5, <1>6 DEF PushInv

(* What becomes of the messages of a set, and of the others.                *)
LEMMA BecomesSo ==
  ASSUME PushInv, NEW S, NEW why \in Reasons, Push!Becomes(S, why)
  PROVE  /\ lost' \in [Pushed -> Reasons]
         /\ \A k \in Pushed : lost'[k] = IF k \in S THEN why ELSE lost[k]
BY DEF PushInv, PushTypes, Push!Becomes

(* A notice is put behind the others, or none is.                           *)
LEMMA QueueGrows ==
  ASSUME PushInv, NEW e \in Notifications, notices' = Append(notices, e) \/ notices' = notices
  PROVE  /\ notices' \in Seq(Notifications)
         /\ \A k : Has(notices, "remove", k) => Has(notices', "remove", k)
         /\ notices # <<>> => /\ notices' # <<>> /\ Push!Current' = Push!Current
                              /\ \A k : Has(Tail(notices), "remove", k)
                                          => Has(Tail(notices'), "remove", k)
<1>1. notices \in Seq(Notifications)
  BY DEF PushInv, PushTypes
<1>2. CASE notices' = notices
  BY <1>1, <1>2 DEF Push!Current
<1>3. CASE notices' = Append(notices, e)
  BY <1>1, <1>3, HasAppend, HeadStays DEF Push!Current
<1> QED BY <1>2, <1>3

LEMMA EnqueueAddKeeps ==
  ASSUME Push!Bounds, PushInv, NEW m \in Pushed, Push!EnqueueAdd(m)
  PROVE  PushInv'
<1>1. Push!Notice("add", {m}) \in Notifications
        /\ notices' = Append(notices, Push!Notice("add", {m}))
  BY NoticeTypes DEF Push!EnqueueAdd
<1>2. UNCHANGED <<um, stage, device, sweeping, lost>>
  BY DEF Push!EnqueueAdd
<1>3. /\ notices' \in Seq(Notifications)
      /\ \A k : Has(notices, "remove", k) => Has(notices', "remove", k)
      /\ notices # <<>> => /\ notices' # <<>> /\ Push!Current' = Push!Current
                           /\ \A k : Has(Tail(notices), "remove", k)
                                       => Has(Tail(notices'), "remove", k)
  BY <1>1, QueueGrows
<1>4. StageInv'
  BY <1>2, <1>3 DEF PushInv, StageInv, Push!Working
<1>5. \A k \in Pushed : Shown(k)' => Shown(k)
  BY <1>2, <1>3 DEF Shown, PushInv, StageInv, Push!Working
<1>6. \A k \in Pushed : Revocable(k) => Revocable(k)'
  BY <1>2, <1>3 DEF Revocable, Revoked
<1>7. PushTypes'
  BY <1>2, <1>3 DEF PushInv, PushTypes
<1> QED BY <1>4, <1>5, <1>6, <1>7 DEF PushInv

(* The rows of some messages are read, deleted or neither, and a notice to  *)
(* take their notifications back goes with them.                            *)
LEMMA RowsKeep ==
  ASSUME Push!Bounds, PushInv, NEW S \in SUBSET Pushed,
         Push!ClearNotifications(S), UNCHANGED <<stage, device>>,
         um' \in MessageRows, sweeping' \in BOOLEAN,
         \A k \in Pushed :
           /\ um'[k].active = um[k].active
           /\ k \notin S => um'[k] = um[k]
           /\ um'[k].deleted => um[k].deleted \/ ~Push!Locked(k)
  PROVE  PushInv'
<1> DEFINE active == {k \in S : um[k].active}
           e == Push!Notice("remove", active)
<1>1. e \in Notifications /\ e.type = "remove" /\ e.messages = active
  <2>1. active \in SUBSET Pushed
    OBVIOUS
  <2> HIDE DEF active
  <2> QED BY <2>1, NoticeTypes DEF Push!Notice
<1>2. notices' = Append(notices, e) \/ (notices' = notices /\ active = {})
  BY DEF Push!ClearNotifications
<1>3. Push!Becomes(active, "no")
  BY DEF Push!ClearNotifications
<1> HIDE DEF e
<1>4. /\ notices' \in Seq(Notifications)
      /\ \A k : Has(notices, "remove", k) => Has(notices', "remove", k)
      /\ notices # <<>> => /\ notices' # <<>> /\ Push!Current' = Push!Current
                           /\ \A k : Has(Tail(notices), "remove", k)
                                       => Has(Tail(notices'), "remove", k)
  BY <1>1, <1>2, QueueGrows
<1>5. \A k \in active : Has(notices', "remove", k)
  BY <1>1, <1>2, HasAppend DEF PushInv, PushTypes
<1>6. notices # <<>> => \A k \in active : Has(Tail(notices'), "remove", k)
  <2> SUFFICES ASSUME notices # <<>>, NEW k \in active PROVE Has(Tail(notices'), "remove", k)
    OBVIOUS
  <2>1. notices \in Seq(Notifications) /\ notices' = Append(notices, e)
    BY <1>2 DEF PushInv, PushTypes
  <2>2. Tail(notices) \in Seq(Notifications) /\ Tail(notices') = Append(Tail(notices), e)
    BY <2>1, <1>1, HeadStays
  <2> QED BY <2>2, <1>1, HasAppend
<1>7. /\ lost' \in [Pushed -> Reasons]
      /\ \A k \in Pushed : lost'[k] = IF k \in active THEN "no" ELSE lost[k]
  BY <1>3, BecomesSo DEF Reasons
<1>m. notices # <<>> => Push!Current.messages \subseteq Pushed
  BY HeadTypes
<1>8. StageInv'
  <2>1. stage \in {"claiming", "claimed", "sent"} => notices # <<>>
    BY DEF PushInv, StageInv, Push!Working
  <2>2. stage = "claiming" => \A k \in Push!Current.messages : ~um'[k].deleted
    BY <1>m, <2>1 DEF PushInv, StageInv, Push!Locked
  <2>3. stage = "sent" => \A k \in Push!Current.messages :
          k \notin device \/ lost'[k] # "no" \/ Has(Tail(notices'), "remove", k)
    BY <1>m, <1>4, <1>6, <1>7, <2>1 DEF PushInv, StageInv
  <2> QED BY <1>4, <2>1, <2>2, <2>3 DEF PushInv, StageInv, Push!Working
<1>9. \A k \in Pushed : Shown(k)' => Shown(k)
  BY <1>4 DEF Shown, PushInv, StageInv, Push!Working
<1>10. ASSUME NEW k \in Pushed, Shown(k)' PROVE Revocable(k)'
  <2>1. Revocable(k)
    BY <1>9, <1>10 DEF PushInv
  <2>2. CASE k \in active
    BY <1>5, <2>2 DEF Revocable, Revoked
  <2>3. CASE k \notin active
    <3>1. Revoked(k) => Revoked(k)'
      BY <1>4, <1>7, <2>3 DEF Revoked
    <3>2. um[k].active => um'[k] = um[k]
      BY <2>3
    <3> QED BY <2>1, <3>1, <3>2 DEF Revocable
  <2> QED BY <2>2, <2>3
<1>11. PushTypes'
  BY <1>4, <1>7 DEF PushInv, PushTypes
<1> QED BY <1>8, <1>10, <1>11 DEF PushInv

(* Rows of which only the read mark changed.                                *)
LEMMA MarkedRows ==
  ASSUME PushInv, NEW S \in SUBSET Pushed, NEW asRead \in BOOLEAN, Push!Marked(S, asRead)
  PROVE  /\ um' \in MessageRows
         /\ \A k \in Pushed : /\ um'[k].active = um[k].active /\ um'[k].deleted = um[k].deleted
                              /\ k \notin S => um'[k] = um[k]
                              /\ k \in S => um'[k].read = asRead
BY DEF PushInv, PushTypes, MessageRows, Push!Marked

LEMMA MarkReadKeeps ==
  ASSUME Push!Bounds, PushInv, NEW S \in SUBSET Pushed, Push!MarkRead(S)
  PROVE  PushInv'
<1>1. Push!Marked(S, TRUE) /\ Push!ClearNotifications(S) /\ UNCHANGED <<stage, device, sweeping>>
  BY DEF Push!MarkRead
<1>2. sweeping' \in BOOLEAN
  BY <1>1 DEF PushInv, PushTypes
<1> QED BY <1>1, <1>2, MarkedRows, RowsKeep

LEMMA MarkAllKeeps ==
  ASSUME Push!Bounds, PushInv, Push!MarkAll
  PROVE  PushInv'
<1> DEFINE S == {m \in Pushed : ~um[m].deleted}
<1>1. Push!ClearNotifications(S) /\ UNCHANGED <<um, stage, device>> /\ sweeping' = TRUE
  BY DEF Push!MarkAll
<1>2. S \in SUBSET Pushed /\ um' \in MessageRows
  BY <1>1 DEF PushInv, PushTypes
<1> HIDE DEF S
<1> QED BY <1>1, <1>2, RowsKeep

LEMMA UnmentionKeeps ==
  ASSUME Push!Bounds, PushInv, NEW m \in Pushed, Push!Unmention(m)
  PROVE  PushInv'
<1>1. Push!ClearNotifications({m}) /\ UNCHANGED <<um, stage, device, sweeping>>
  BY DEF Push!Unmention
<1>2. um' \in MessageRows /\ sweeping' \in BOOLEAN
  BY <1>1 DEF PushInv, PushTypes
<1> QED BY <1>1, <1>2, RowsKeep

LEMMA DeleteKeeps ==
  ASSUME Push!Bounds, PushInv, NEW m \in Pushed, Push!DeleteMessage(m)
  PROVE  PushInv'
<1>1. /\ Push!ClearNotifications({m}) /\ UNCHANGED <<stage, device, sweeping>>
      /\ ~Push!Locked(m) /\ um' = [um EXCEPT ![m].deleted = TRUE]
  BY DEF Push!DeleteMessage
<1>2. um' \in MessageRows /\ sweeping' \in BOOLEAN
  BY <1>1 DEF PushInv, PushTypes, MessageRows
<1>3. \A k \in Pushed : /\ um'[k].active = um[k].active
                        /\ k # m => um'[k] = um[k]
  BY <1>1 DEF PushInv, PushTypes, MessageRows
<1>4. \A k \in Pushed : um'[k].deleted => um[k].deleted \/ ~Push!Locked(k)
  BY <1>1, <1>3
<1> QED BY <1>1, <1>2, <1>3, <1>4, RowsKeep

LEMMA MarkUnreadKeeps ==
  ASSUME PushInv, NEW S \in SUBSET Pushed, Push!MarkUnread(S)
  PROVE  PushInv'
<1>1. Push!Marked(S, FALSE) /\ UNCHANGED <<notices, stage, device, sweeping, lost>>
  BY DEF Push!MarkUnread
<1>2. /\ um' \in MessageRows
      /\ \A k \in Pushed : /\ um'[k].active = um[k].active /\ um'[k].deleted = um[k].deleted
                           /\ um'[k].read => um[k].read
  BY <1>1, MarkedRows
<1>3. StageInv'
  <2>1. notices # <<>> => Push!Current.messages \subseteq Pushed
    BY HeadTypes
  <2> QED BY <1>1, <1>2, <2>1 DEF PushInv, StageInv, Push!Working, Push!Current
<1>4. \A k \in Pushed : Shown(k)' => Shown(k)
  BY <1>1 DEF Shown, Push!Current
<1>5. \A k \in Pushed : Revocable(k) => Revocable(k)'
  BY <1>1, <1>2 DEF Revocable, Revoked
<1>6. PushTypes'
  BY <1>1, <1>2 DEF PushInv, PushTypes
<1> QED BY <1>3, <1>4, <1>5, <1>6 DEF PushInv

(* A batch of mark-all overlooks what it does not take back.                *)
LEMMA MarkBatchKeeps ==
  ASSUME PushInv, NEW S \in SUBSET Pushed, Push!MarkBatch(S)
  PROVE  PushInv'
<1> DEFINE O == {m \in S : um[m].active /\ ~Push!Waits("remove", m)}
<1>1. /\ Push!Marked(S, TRUE) /\ Push!Becomes(O, "overlooked")
      /\ UNCHANGED <<notices, stage, device>> /\ sweeping' \in BOOLEAN
  BY DEF Push!MarkBatch
<1>2. /\ um' \in MessageRows
      /\ \A k \in Pushed : /\ um'[k].active = um[k].active /\ um'[k].deleted = um[k].deleted
                           /\ k \notin S => um'[k] = um[k]
  BY <1>1, MarkedRows
<1>3. \A k \in S : um[k].active => k \in O \/ Has(notices, "remove", k)
  BY DEF Push!Waits, Has
<1> HIDE DEF O
<1>4. /\ lost' \in [Pushed -> Reasons]
      /\ \A k \in Pushed : lost'[k] = IF k \in O THEN "overlooked" ELSE lost[k]
  BY <1>1, BecomesSo DEF Reasons
<1>5. StageInv'
  <2>1. notices # <<>> => Push!Current.messages \subseteq Pushed
    BY HeadTypes
  <2> QED BY <1>1, <1>2, <1>4, <2>1 DEF PushInv, StageInv, Push!Working, Push!Current
<1>6. \A k \in Pushed : Shown(k)' => Shown(k)
  BY <1>1 DEF Shown, Push!Current
<1>7. ASSUME NEW k \in Pushed, Shown(k)' PROVE Revocable(k)'
  <2>1. Revocable(k)
    BY <1>6, <1>7 DEF PushInv
  <2>2. Revoked(k) => Revoked(k)'
    BY <1>1, <1>4 DEF Revoked
  <2>3. CASE k \in S /\ um[k].active
    BY <1>1, <1>3, <1>4, <2>3 DEF Revocable, Revoked
  <2>4. CASE ~(k \in S /\ um[k].active)
    BY <1>2, <2>1, <2>2, <2>4 DEF Revocable
  <2> QED BY <2>3, <2>4
<1>8. PushTypes'
  BY <1>1, <1>2, <1>4 DEF PushInv, PushTypes
<1> QED BY <1>5, <1>7, <1>8 DEF PushInv

----------------------------------------------------------------------------
(* The worker is done with the notice, or puts it behind the others: what   *)
(* is left shows no more than before, and takes back all the rest.          *)
LEMMA NoticeDone ==
  ASSUME PushInv, stage' = "waiting", UNCHANGED <<um, sweeping>>,
         notices' \in Seq(Notifications),
         \A k \in Pushed : Revoked(k) => Revoked(k)' \/ k \notin device',
         device' \subseteq Pushed, \A k \in device' : Shown(k),
         lost' \in [Pushed -> Reasons]
  PROVE  PushInv'
<1>1. StageInv'
  BY DEF StageInv
<1>2. PushTypes'
  BY DEF PushInv, PushTypes
<1>3. ASSUME NEW k \in Pushed, Shown(k)' PROVE Revocable(k)'
  <2>1. k \in device' /\ Shown(k)
    BY <1>3 DEF Shown
  <2>2. Revocable(k)
    BY <2>1 DEF PushInv
  <2> QED BY <2>1, <2>2 DEF Revocable
<1> QED BY <1>1, <1>2, <1>3 DEF PushInv

(* A notice to show something takes nothing back with it when it goes.      *)
LEMMA AddGoes ==
  ASSUME PushInv, notices # <<>>, Push!Current.type = "add", notices' = Tail(notices),
         UNCHANGED lost
  PROVE  /\ notices' \in Seq(Notifications) /\ lost' \in [Pushed -> Reasons]
         /\ \A k \in Pushed : Revoked(k) => Revoked(k)'
BY HasTail DEF PushInv, PushTypes, Push!Current, Revoked

LEMMA ReadRowKeeps ==
  ASSUME PushInv, Push!ReadRow
  PROVE  PushInv'
<1>1. /\ notices # <<>> /\ Push!Current.type = "add" /\ stage = "waiting"
      /\ UNCHANGED <<um, device, sweeping, lost>>
  BY DEF Push!ReadRow, Push!Working
<1>2. CASE Push!Done
  <2>1. /\ notices' \in Seq(Notifications) /\ lost' \in [Pushed -> Reasons]
        /\ \A k \in Pushed : Revoked(k) => Revoked(k)'
    BY <1>1, <1>2, AddGoes DEF Push!Done
  <2> QED BY <1>1, <1>2, <2>1, NoticeDone DEF Push!Done, Shown, PushInv, PushTypes
<1>3. CASE /\ stage' = "claiming" /\ UNCHANGED notices
           /\ \A m \in Push!Current.messages : ~um[m].deleted
  BY <1>1, <1>3 DEF PushInv, PushTypes, StageInv, Push!Working, Push!Current, Shown, Revocable,
     Revoked
<1> QED BY <1>2, <1>3 DEF Push!ReadRow

LEMMA SaveRowKeeps ==
  ASSUME PushInv, Push!SaveRow
  PROVE  PushInv'
<1> DEFINE S == Push!Current.messages
<1>1. /\ notices # <<>> /\ Push!Current.type = "add" /\ stage = "claiming" /\ stage' = "claimed"
      /\ UNCHANGED <<notices, device, sweeping>> /\ S \subseteq Pushed
      /\ um' = [m \in Pushed |->
           IF m \in S THEN [um[m] EXCEPT !.read = FALSE, !.active = TRUE] ELSE um[m]]
      /\ Push!Becomes(S, "no") /\ \A m \in S : ~um[m].deleted
  BY HeadTypes DEF Push!SaveRow, Push!Working, PushInv, StageInv
<1>2. /\ lost' \in [Pushed -> Reasons]
      /\ \A k \in Pushed : lost'[k] = IF k \in S THEN "no" ELSE lost[k]
  BY <1>1, BecomesSo DEF Reasons
<1>3. /\ um' \in MessageRows
      /\ \A k \in Pushed : k \notin S => um'[k] = um[k]
      /\ \A k \in S : um'[k].active /\ ~um'[k].read /\ ~um'[k].deleted
  BY <1>1 DEF PushInv, PushTypes, MessageRows
<1>4. Push!Current' = Push!Current
  BY <1>1 DEF Push!Current
<1>5. StageInv'
  BY <1>1, <1>4 DEF StageInv, Push!Working
<1>6. PushTypes'
  BY <1>1, <1>2, <1>3 DEF PushInv, PushTypes
<1>7. ASSUME NEW k \in Pushed, Shown(k)' PROVE Revocable(k)'
  <2>1. CASE k \in S
    BY <1>3, <2>1 DEF Revocable
  <2>2. CASE k \notin S
    <3>1. Shown(k)
      BY <1>1, <1>4, <1>7, <2>2 DEF Shown
    <3>2. Revocable(k)
      BY <3>1 DEF PushInv
    <3> QED BY <1>1, <1>2, <1>3, <2>2, <3>2 DEF Revocable, Revoked
  <2> QED BY <2>1, <2>2
<1> QED BY <1>5, <1>6, <1>7 DEF PushInv

(* The handler sent the notice, or was told that it may not: it goes on.    *)
LEMMA SentKeeps ==
  ASSUME PushInv, Push!Sending, Push!Sent, UNCHANGED <<um, sweeping>>,
         device' \subseteq Pushed, \A k \in device' : Shown(k),
         lost' \in [Pushed -> Reasons],
         \A k \in Pushed : lost[k] # "no" => lost'[k] # "no",
         Push!Current.type = "add" => UNCHANGED lost,
         Push!Current.type # "add" =>
           \A k \in Push!Current.messages : k \notin device' \/ lost'[k] # "no"
  PROVE  PushInv'
<1>1. notices # <<>> /\ Push!Current \in Notifications /\ Push!Current.messages \subseteq Pushed
  BY HeadTypes DEF Push!Sending, Push!Working
<1>2. CASE Push!Current.type = "add"
  <2>1. notices' = Tail(notices) /\ stage' = "waiting"
    BY <1>2 DEF Push!Sent, Push!Done
  <2>2. notices' \in Seq(Notifications) /\ \A k \in Pushed : Revoked(k) => Revoked(k)'
    BY <1>1, <1>2, <2>1, AddGoes
  <2> QED BY <2>1, <2>2, NoticeDone
<1>3. CASE Push!Current.type # "add"
  <2>1. stage' = "sent" /\ UNCHANGED notices /\ Push!Current.type = "remove"
    BY <1>1, <1>3 DEF Push!Sent, Notifications
  <2>2. Push!Current' = Push!Current
    BY <2>1 DEF Push!Current
  <2>3. StageInv'
    BY <1>1, <1>3, <2>1, <2>2 DEF StageInv, Push!Working
  <2>4. PushTypes'
    BY <2>1 DEF PushInv, PushTypes
  <2>5. ASSUME NEW k \in Pushed, Shown(k)' PROVE Revocable(k)'
    <3>1. Shown(k)
      BY <2>1, <2>5 DEF Shown
    <3>2. Revocable(k)
      BY <3>1 DEF PushInv
    <3> QED BY <2>1, <3>2 DEF Revocable, Revoked
  <2> QED BY <2>3, <2>4, <2>5 DEF PushInv
<1> QED BY <1>2, <1>3

(* The device shows nothing but what it did, or was about to.               *)
LEMMA DeliveredIsShown ==
  ASSUME PushInv, Push!Sending, UNCHANGED device \/ Push!Delivered
  PROVE  /\ device' \subseteq Pushed /\ \A k \in device' : Shown(k)
BY HeadTypes DEF PushInv, PushTypes, Push!Sending, Push!Delivered, Shown, Push!Working

(* What is lost of a notice that is not followed up.                        *)
LEMMA LoseSo ==
  ASSUME PushInv, NEW why \in Reasons \ {"no"}, Push!Lose(why)
  PROVE  /\ lost' \in [Pushed -> Reasons]
         /\ \A k \in Pushed : lost[k] # "no" => lost'[k] # "no"
         /\ Push!Current.type = "add" => UNCHANGED lost
         /\ Push!Current.type # "add" =>
              \A k \in Pushed : k \in Push!Current.messages => lost'[k] # "no"
<1> DEFINE S == IF Push!Current.type = "add" THEN {} ELSE Push!Current.messages
<1>1. Push!Becomes(S, why)
  BY DEF Push!Lose
<1>2. /\ lost' \in [Pushed -> Reasons]
      /\ \A k \in Pushed : lost'[k] = IF k \in S THEN why ELSE lost[k]
  <2> HIDE DEF S
  <2> QED BY <1>1, BecomesSo
<1> QED BY <1>2 DEF PushInv, PushTypes

LEMMA SendKeeps ==
  ASSUME PushInv, Push!Send
  PROVE  PushInv'
<1>1. /\ Push!Sending /\ Push!Sent /\ Push!Delivered /\ UNCHANGED <<um, sweeping, lost>>
      /\ lost \in [Pushed -> Reasons]
  BY DEF Push!Send, PushInv, PushTypes
<1>2. device' \subseteq Pushed /\ \A k \in device' : Shown(k)
  BY <1>1, DeliveredIsShown
<1>3. Push!Current.type # "add" => \A k \in Push!Current.messages : k \notin device'
  BY <1>1 DEF Push!Delivered
<1> QED BY <1>1, <1>2, <1>3, SentKeeps

LEMMA RefusalKeeps ==
  ASSUME PushInv, Push!BouncerRefuses
  PROVE  PushInv'
<1>1. /\ Push!Sending /\ Push!Sent /\ UNCHANGED <<um, device, sweeping>>
      /\ Push!Lose("refused")
  BY DEF Push!BouncerRefuses
<1>2. device' \subseteq Pushed /\ \A k \in device' : Shown(k)
  BY <1>1, DeliveredIsShown
<1>3. Push!Current.messages \subseteq Pushed
  BY <1>1, HeadTypes DEF Push!Sending, Push!Working
<1>4. "refused" \in Reasons \ {"no"}
  BY DEF Reasons
<1>5. /\ lost' \in [Pushed -> Reasons]
      /\ \A k \in Pushed : lost[k] # "no" => lost'[k] # "no"
      /\ Push!Current.type = "add" => UNCHANGED lost
      /\ Push!Current.type # "add" => \A k \in Push!Current.messages : lost'[k] # "no"
  BY <1>1, <1>3, <1>4, LoseSo
<1> QED BY <1>1, <1>2, <1>5, SentKeeps

(* The notice leaves the queue unsent.                                      *)
LEMMA LostKeeps ==
  ASSUME PushInv, Push!Sending, UNCHANGED <<um, sweeping>>, stage' = "waiting",
         notices' = Tail(notices), Push!Lose("given up"), UNCHANGED device \/ Push!Delivered
  PROVE  PushInv'
<1>1. /\ notices # <<>> /\ Push!Current \in Notifications
      /\ Push!Current.messages \subseteq Pushed
  BY HeadTypes DEF Push!Sending, Push!Working
<1>2. device' \subseteq Pushed /\ \A k \in device' : Shown(k)
  BY DeliveredIsShown
<1>3. "given up" \in Reasons \ {"no"}
  BY DEF Reasons
<1>4. /\ lost' \in [Pushed -> Reasons]
      /\ \A k \in Pushed : lost[k] # "no" => lost'[k] # "no"
      /\ Push!Current.type = "add" => UNCHANGED lost
      /\ Push!Current.type # "add" =>
           \A k \in Pushed : k \in Push!Current.messages => lost'[k] # "no"
  BY <1>3, LoseSo
<1>5. notices' \in Seq(Notifications) /\ \A k \in Pushed : Revoked(k) => Revoked(k)'
  <2>1. CASE Push!Current.type = "add"
    BY <1>1, <1>4, <2>1, AddGoes
  <2>2. CASE Push!Current.type # "add"
    <3>1. notices' \in Seq(Notifications)
            /\ \A k \in Pushed : k \notin Push!Current.messages /\ Has(notices, "remove", k)
                                   => Has(notices', "remove", k)
      BY <1>1, HasTail DEF Push!Current, PushInv, PushTypes
    <3> QED BY <1>4, <2>2, <3>1 DEF Revoked
  <2> QED BY <2>1, <2>2
<1> QED BY <1>2, <1>4, <1>5, NoticeDone

LEMMA UnreachableKeeps ==
  ASSUME Push!Bounds, PushInv, Push!BouncerUnreachable
  PROVE  PushInv'
<1>1. /\ Push!Sending /\ UNCHANGED <<um, sweeping>> /\ stage' = "waiting"
      /\ UNCHANGED device \/ Push!Delivered
  BY DEF Push!BouncerUnreachable, Push!RetryEvent
<1>2. /\ notices # <<>> /\ Push!Current \in Notifications /\ Tail(notices) \in Seq(Notifications)
      /\ notices \in Seq(Notifications)
  BY <1>1, HeadTypes DEF Push!Sending, Push!Working, PushInv, PushTypes
<1>3. CASE notices' = Tail(notices) /\ Push!Lose("given up")
  BY <1>1, <1>3, LostKeeps
<1>4. CASE /\ notices' = Append(Tail(notices), [Push!Current EXCEPT !.tries = @ + 1])
           /\ ~(Push!Current.tries + 1 > MaxRetries) /\ UNCHANGED lost
  <2> DEFINE again == [Push!Current EXCEPT !.tries = @ + 1]
  <2>0. Push!Current.tries \in 0..MaxRetries /\ MaxRetries \in Nat
    BY <1>2 DEF Notifications, Push!Bounds
  <2>1. /\ again \in Notifications /\ again.type = Push!Current.type
        /\ again.messages = Push!Current.messages
    <3>1. Push!Current.tries + 1 \in 0..MaxRetries
      BY <2>0, <1>4
    <3> QED BY <1>2, <3>1 DEF Notifications
  <2> HIDE DEF again
  <2>2. notices' = Append(Tail(notices), again)
    BY <1>4 DEF again
  <2>3. notices' \in Seq(Notifications)
    BY <1>2, <2>1, <2>2, HasAppend
  <2>4. ASSUME NEW k \in Pushed, Has(notices, "remove", k) PROVE Has(notices', "remove", k)
    <3>1. CASE Push!Current.type = "remove" /\ k \in Push!Current.messages
      BY <1>2, <2>1, <2>2, <3>1, HasAppend
    <3>2. CASE ~(Push!Current.type = "remove" /\ k \in Push!Current.messages)
      <4>1. Has(Tail(notices), "remove", k)
        BY <1>2, <2>4, <3>2, HasTail DEF Push!Current
      <4> QED BY <1>2, <2>1, <2>2, <4>1, HasAppend
    <3> QED BY <3>1, <3>2
  <2>5. \A k \in Pushed : Revoked(k) => Revoked(k)'
    BY <1>4, <2>4 DEF Revoked
  <2>6. device' \subseteq Pushed /\ \A k \in device' : Shown(k)
    BY <1>1, DeliveredIsShown
  <2>7. lost' \in [Pushed -> Reasons]
    BY <1>4 DEF PushInv, PushTypes
  <2> QED BY <1>1, <2>3, <2>5, <2>6, <2>7, NoticeDone
<1> QED BY <1>3, <1>4 DEF Push!BouncerUnreachable, Push!RetryEvent

LEMMA FailureKeeps ==
  ASSUME PushInv, Push!SendFails
  PROVE  PushInv'
BY LostKeeps DEF Push!SendFails, Push!Done

LEMMA ClearFlagKeeps ==
  ASSUME PushInv, Push!ClearFlag
  PROVE  PushInv'
<1> DEFINE S == Push!Current.messages
<1>1. /\ notices # <<>> /\ S \subseteq Pushed /\ notices \in Seq(Notifications)
      /\ stage = "sent" /\ UNCHANGED <<device, sweeping, lost>> /\ device \subseteq Pushed
      /\ \A m \in S : m \notin device \/ lost[m] # "no" \/ Has(Tail(notices), "remove", m)
  BY HeadTypes DEF Push!ClearFlag, Push!Working, PushInv, PushTypes, StageInv
<1>2. /\ notices' = Tail(notices) /\ stage' = "waiting"
      /\ um' = [m \in Pushed |-> IF m \in S THEN [um[m] EXCEPT !.active = FALSE] ELSE um[m]]
  BY DEF Push!ClearFlag, Push!Done
<1>3. /\ um' \in MessageRows /\ \A k \in Pushed : k \notin S => um'[k] = um[k]
  BY <1>1, <1>2 DEF PushInv, PushTypes, MessageRows
<1>4. /\ notices' \in Seq(Notifications)
      /\ \A k \in Pushed : k \notin S /\ Has(notices, "remove", k) => Has(notices', "remove", k)
  BY <1>1, <1>2, HasTail DEF Push!Current
<1>5. StageInv'
  BY <1>2 DEF StageInv
<1>6. PushTypes'
  BY <1>1, <1>3, <1>4 DEF PushInv, PushTypes
<1>7. ASSUME NEW k \in Pushed, Shown(k)' PROVE Revocable(k)'
  <2>1. k \in device /\ Shown(k)
    BY <1>1, <1>2, <1>7 DEF Shown
  <2>2. CASE k \in S
    BY <1>1, <1>2, <2>1, <2>2 DEF Revocable, Revoked
  <2>3. CASE k \notin S
    <3>1. Revocable(k)
      BY <2>1 DEF PushInv
    <3> QED BY <1>1, <1>3, <1>4, <2>3, <3>1 DEF Revocable, Revoked
  <2> QED BY <2>2, <2>3
<1> QED BY <1>5, <1>6, <1>7 DEF PushInv

LEMMA CrashKeeps ==
  ASSUME PushInv, Push!Crash
  PROVE  PushInv'
<1>1. UNCHANGED <<um, notices, device, sweeping, lost>> /\ stage' = "waiting"
  BY DEF Push!Crash
<1> QED BY <1>1, NoticeDone DEF PushInv, PushTypes, Shown, Revoked

LEMMA PushStutters ==
  ASSUME PushInv, UNCHANGED <<um, notices, stage, device, lost>>, sweeping' \in BOOLEAN
  PROVE  PushInv'
BY DEF PushInv, PushTypes, StageInv, Push!Working, Push!Current, Shown, Revocable, Revoked

LEMMA PushStep ==
  ASSUME Push!Bounds, PushInv, [Push!Next]_Push!vars
  PROVE  PushInv'
<1>1. CASE Push!Request
  <2>1. CASE Push!MarkAllEnds
    BY <2>1, PushStutters DEF Push!MarkAllEnds
  <2> QED BY <1>1, <2>1, EnqueueAddKeeps, UnmentionKeeps, DeleteKeeps, MarkReadKeeps,
             MarkUnreadKeeps, MarkBatchKeeps, MarkAllKeeps DEF Push!Request
<1>2. CASE Push!Worker
  BY <1>2, ReadRowKeeps, SaveRowKeeps, SendKeeps, ClearFlagKeeps DEF Push!Worker
<1>3. CASE Push!BouncerUnreachable \/ Push!BouncerRefuses \/ Push!SendFails \/ Push!Crash
  BY <1>3, UnreachableKeeps, RefusalKeeps, FailureKeeps, CrashKeeps
<1>4. CASE UNCHANGED Push!vars
  BY <1>4, PushStutters DEF Push!vars, PushInv, PushTypes
<1> QED BY <1>1, <1>2, <1>3, <1>4 DEF Push!Next

LEMMA PushKeepsTypes ==
  ASSUME PushInv
  PROVE  Push!TypeOK
<1>1. /\ um \in MessageRows /\ device \subseteq Pushed /\ lost \in [Pushed -> Reasons]
      /\ notices \in Seq(Notifications) /\ sweeping \in BOOLEAN
  BY DEF PushInv, PushTypes
<1>2. \A i \in 1..Len(notices) :
        /\ notices[i].type \in {"add", "remove"} /\ notices[i].messages \subseteq Pushed
        /\ notices[i].tries \in 0..MaxRetries
  <2>1. SUFFICES ASSUME NEW i \in 1..Len(notices)
                 PROVE  /\ notices[i].type \in {"add", "remove"}
                        /\ notices[i].messages \subseteq Pushed
                        /\ notices[i].tries \in 0..MaxRetries
    OBVIOUS
  <2>2. notices[i] \in Notifications
    <3> HIDE DEF Notifications
    <3> QED BY <1>1, <2>1, ElementsBelong
  <2> QED BY <2>2 DEF Notifications
<1> QED BY <1>1, <1>2 DEF Push!TypeOK, MessageRows, Reasons, PushInv, StageInv

LEMMA PushTakesBack ==
  ASSUME PushInv
  PROVE  Push!ShownIsTakenBack
BY DEF PushInv, PushTypes, Push!ShownIsTakenBack, Push!ShownIsTracked, Push!ReadIsRevoked, Shown,
   Revocable, Revoked, Push!Waits, Push!Abandoned, Has

(***************************************************************************)
(* Mails of missed messages: a notice is in one place at a time.           *)
(***************************************************************************)
Row == [id : Nat, notice : Nat, due : BOOLEAN]
MainThread == [pc : {"idle", "looked", "locked", "created"}, notice : Nat, due : BOOLEAN]
SecondThread == [pc : {"check", "asleep", "timed", "send", "selected", "publish", "failed",
                       "backoff", "exited"},
                 batch : SUBSET Nat, mails : SUBSET Mails!Notices]
Condition == [stopping : BOOLEAN, has_timeout : BOOLEAN, notified : BOOLEAN]

MailShapes ==
  /\ published \in Nat /\ published <= Len(Owner) /\ created \in Nat
  /\ mailQueue \in Seq(Mails!Notices) /\ main \in MainThread /\ handler \in {"none", "stop", "join"}
  /\ rows \in SUBSET Row /\ cv \in Condition /\ mailer \in SecondThread
  /\ mailed \in [Mails!Notices -> Nat]
  /\ mailHistory \in [again : [Mails!Notices -> Nat], dropped : SUBSET Mails!Notices]

(* Where the notices are, and the lock.                                     *)
MailStates ==
  /\ \A n \in Mails!ToSet(mailQueue) : n <= published
  /\ main.notice <= published
  /\ main.pc = "idle" <=> main.notice = Mails!Nothing
  /\ \A r \in rows : r.id \in 1..created /\ r.notice \in 1..published
  /\ \A n \in mailer.mails : n <= published
  /\ \A n \in Mails!Notices : mailed[n] > 0 => n <= published
  /\ mailer.mails # {} => mailer.pc = "publish"
  /\ \A b \in mailer.batch : \E r \in rows : r.id = b /\ r.due = TRUE
  /\ lock = IF main.pc \in {"locked", "created"} THEN "main" ELSE "free"
  /\ cv.stopping = TRUE <=> handler = "join"

(* The rows of one user become due together.                                *)
DueTogether ==
  /\ \A r, s \in rows : Owner[r.notice] = Owner[s.notice] => r.due = s.due
  /\ main.pc \in {"looked", "locked"} =>
       \A r \in rows : Owner[r.notice] = Owner[main.notice] => r.due = main.due

(* Who sleeps was told of everything, or will be.                           *)
Told ==
  /\ mailer.pc = "asleep" => cv.has_timeout = FALSE
  /\ mailer.pc = "asleep" /\ cv.notified = FALSE => rows = {} /\ cv.stopping = FALSE
  /\ running = FALSE => mailer.pc = "check"

(* A notice that is not yet a row.                                          *)
Waits(n) == n \in Mails!ToSet(mailQueue) \/ (main.notice = n /\ main.pc # "created")

Kept ==
  /\ \A i, j \in 1..Len(mailQueue) : mailQueue[i] = mailQueue[j] => i = j
  /\ main.notice \notin Mails!ToSet(mailQueue)
  /\ \A n \in 1..published :
       Waits(n) \/ (\E r \in rows : r.notice = n) \/ n \in mailer.mails \/ Mails!Handled(n)

(* A notice waits, is a row, is a mail or was mailed, and all but one of    *)
(* these it owes to having been given back.                                 *)
IdsOf(n, table) == {r.id : r \in {r \in table : r.notice = n}}
Copies(n) == (IF Waits(n) THEN 1 ELSE 0) + Cardinality(IdsOf(n, rows))
              + (IF n \in mailer.mails THEN 1 ELSE 0) + mailed[n] <= 1 + mailHistory.again[n]
Counted == \A n \in Mails!Notices : Copies(n)

MailInv == MailShapes /\ MailStates /\ DueTogether /\ Told /\ Kept /\ Counted

----------------------------------------------------------------------------
LEMMA NoticesAreNumbers ==
  ASSUME Mails!Bounds
  PROVE  Len(Owner) \in Nat /\ Mails!Notices \subseteq Nat \ {0}
           /\ Mails!Nothing \notin Mails!Notices
BY DEF Mails!Bounds, Mails!Notices, Mails!Nothing

LEMMA InQueue ==
  ASSUME NEW s \in Seq(Mails!Notices)
  PROVE  /\ Mails!ToSet(s) = {s[i] : i \in 1..Len(s)} /\ Mails!ToSet(s) \subseteq Mails!Notices
         /\ \A m \in Mails!Notices : /\ Append(s, m) \in Seq(Mails!Notices)
                                     /\ Mails!ToSet(Append(s, m)) = Mails!ToSet(s) \cup {m}
                                     /\ <<m>> \o s \in Seq(Mails!Notices)
                                     /\ Mails!ToSet(<<m>> \o s) = Mails!ToSet(s) \cup {m}
         /\ s # <<>> => /\ Head(s) \in Mails!Notices /\ Tail(s) \in Seq(Mails!Notices)
                        /\ Mails!ToSet(s) = Mails!ToSet(Tail(s)) \cup {Head(s)}
<1>0. \A t \in Seq(Mails!Notices) : Mails!ToSet(t) = {t[i] : i \in 1..Len(t)}
  BY DEF Mails!ToSet
<1>1. Mails!ToSet(s) = {s[i] : i \in 1..Len(s)} /\ Mails!ToSet(s) \subseteq Mails!Notices
  BY <1>0
<1>2. ASSUME NEW m \in Mails!Notices
      PROVE  Append(s, m) \in Seq(Mails!Notices)
               /\ Mails!ToSet(Append(s, m)) = Mails!ToSet(s) \cup {m}
  <2> DEFINE t == Append(s, m)
  <2>1. t \in Seq(Mails!Notices) /\ Len(t) = Len(s) + 1 /\ Len(s) \in Nat
        /\ t[Len(s) + 1] = m /\ \A i \in 1..Len(s) : t[i] = s[i]
    OBVIOUS
  <2> HIDE DEF t
  <2>2. 1..Len(t) = 1..Len(s) \cup {Len(s) + 1}
    BY <2>1
  <2>3. Mails!ToSet(t) = {t[i] : i \in 1..Len(t)}
    BY <1>0, <2>1
  <2>4. \A i \in 1..Len(t) : t[i] \in Mails!ToSet(s) \cup {m}
    BY <1>1, <2>1, <2>2
  <2>5. m \in Mails!ToSet(t) /\ \A i \in 1..Len(s) : s[i] \in Mails!ToSet(t)
    BY <2>1, <2>2, <2>3
  <2>6. Mails!ToSet(t) = Mails!ToSet(s) \cup {m}
    BY <1>1, <2>3, <2>4, <2>5
  <2> QED BY <2>1, <2>6 DEF t
<1>3. ASSUME NEW m \in Mails!Notices
      PROVE  <<m>> \o s \in Seq(Mails!Notices) /\ Mails!ToSet(<<m>> \o s) = Mails!ToSet(s) \cup {m}
  <2> DEFINE t == <<m>> \o s
  <2>1. t \in Seq(Mails!Notices) /\ Len(t) = Len(s) + 1 /\ Len(s) \in Nat
        /\ t[1] = m /\ \A i \in 1..Len(s) : t[i + 1] = s[i]
    OBVIOUS
  <2> HIDE DEF t
  <2>2. ASSUME NEW i \in 1..Len(t) PROVE t[i] \in Mails!ToSet(s) \cup {m}
    <3>1. CASE i = 1
      BY <2>1, <3>1
    <3>2. CASE i # 1
      <4>1. i - 1 \in 1..Len(s) /\ i = (i - 1) + 1
        BY <2>1, <2>2, <3>2
      <4>2. t[i] = s[i - 1]
        BY <2>1, <4>1
      <4>3. s[i - 1] \in Mails!ToSet(s)
        BY <1>1, <4>1
      <4> QED BY <4>2, <4>3
    <3> QED BY <3>1, <3>2
  <2>3. ASSUME NEW i \in 1..Len(s) PROVE \E j \in 1..Len(t) : t[j] = s[i]
    <3>1. i + 1 \in 1..Len(t)
      BY <2>1, <2>3
    <3> QED BY <2>1, <3>1
  <2>4. \E j \in 1..Len(t) : t[j] = m
    <3>1. 1 \in 1..Len(t)
      BY <2>1
    <3> QED BY <2>1, <3>1
  <2>5. Mails!ToSet(t) = {t[i] : i \in 1..Len(t)}
    BY <1>0, <2>1
  <2>6. Mails!ToSet(t) = Mails!ToSet(s) \cup {m}
    BY <1>1, <2>2, <2>3, <2>4, <2>5
  <2> QED BY <2>1, <2>6 DEF t
<1>4. ASSUME s # <<>>
      PROVE  Head(s) \in Mails!Notices /\ Tail(s) \in Seq(Mails!Notices)
               /\ Mails!ToSet(s) = Mails!ToSet(Tail(s)) \cup {Head(s)}
  <2> DEFINE t == Tail(s)
  <2>1. t \in Seq(Mails!Notices) /\ Len(s) = Len(t) + 1 /\ Len(t) \in Nat
          /\ Head(s) \in Mails!Notices
        /\ s[1] = Head(s) /\ \A i \in 1..Len(t) : t[i] = s[i + 1]
    BY <1>4
  <2> HIDE DEF t
  <2>2. ASSUME NEW i \in 1..Len(s) PROVE s[i] \in Mails!ToSet(t) \cup {Head(s)}
    <3>1. CASE i = 1
      BY <2>1, <3>1
    <3>2. CASE i # 1
      <4>1. i - 1 \in 1..Len(t) /\ i = (i - 1) + 1
        BY <2>1, <2>2, <3>2
      <4>2. s[i] = t[i - 1]
        BY <2>1, <4>1
      <4>3. t[i - 1] \in Mails!ToSet(t)
        BY <1>0, <2>1, <4>1
      <4> QED BY <4>2, <4>3
    <3> QED BY <3>1, <3>2
  <2>3. ASSUME NEW i \in 1..Len(t) PROVE \E j \in 1..Len(s) : s[j] = t[i]
    <3>1. i + 1 \in 1..Len(s)
      BY <2>1, <2>3
    <3> QED BY <2>1, <3>1
  <2>4. \E j \in 1..Len(s) : s[j] = Head(s)
    <3>1. 1 \in 1..Len(s)
      BY <2>1
    <3> QED BY <2>1, <3>1
  <2>5. Mails!ToSet(t) = {t[i] : i \in 1..Len(t)}
    BY <1>0, <2>1
  <2>6. Mails!ToSet(s) = Mails!ToSet(t) \cup {Head(s)}
    BY <1>1, <2>2, <2>3, <2>4, <2>5
  <2> QED BY <2>1, <2>6 DEF t
<1> QED BY <1>1, <1>2, <1>3, <1>4

\* A queue without repetitions, as it grows and shrinks.
LEMMA StaysDistinct ==
  ASSUME NEW s \in Seq(Mails!Notices), \A i, j \in 1..Len(s) : s[i] = s[j] => i = j
  PROVE  /\ \A m \in Mails!Notices \ Mails!ToSet(s) :
              /\ \A i, j \in 1..Len(Append(s, m)) : Append(s, m)[i] = Append(s, m)[j] => i = j
              /\ \A i, j \in 1..Len(<<m>> \o s) : (<<m>> \o s)[i] = (<<m>> \o s)[j] => i = j
         /\ s # <<>> => /\ \A i, j \in 1..Len(Tail(s)) : Tail(s)[i] = Tail(s)[j] => i = j
                        /\ Head(s) \notin Mails!ToSet(Tail(s))
<1>1. ASSUME NEW m \in Mails!Notices \ Mails!ToSet(s)
      PROVE  \A i, j \in 1..Len(Append(s, m)) : Append(s, m)[i] = Append(s, m)[j] => i = j
  <2> DEFINE t == Append(s, m)
  <2>1. Len(t) = Len(s) + 1 /\ Len(s) \in Nat /\ t[Len(s) + 1] = m
          /\ \A i \in 1..Len(s) : t[i] = s[i]
    OBVIOUS
  <2>2. \A i \in 1..Len(s) : s[i] # m
    BY <1>1, InQueue
  <2> HIDE DEF t
  <2>3. \A i \in 1..Len(t) : i \in 1..Len(s) \/ i = Len(s) + 1
    BY <2>1
  <2>4. \A i, j \in 1..Len(t) : t[i] = t[j] => i = j
    BY <2>1, <2>2, <2>3
  <2> QED BY <2>4 DEF t
<1>2. ASSUME NEW m \in Mails!Notices \ Mails!ToSet(s)
      PROVE  \A i, j \in 1..Len(<<m>> \o s) : (<<m>> \o s)[i] = (<<m>> \o s)[j] => i = j
  <2> DEFINE t == <<m>> \o s
  <2>1. Len(t) = Len(s) + 1 /\ Len(s) \in Nat /\ t[1] = m /\ \A i \in 1..Len(s) : t[i + 1] = s[i]
    OBVIOUS
  <2>2. \A i \in 1..Len(s) : s[i] # m
    BY <1>2, InQueue
  <2> HIDE DEF t
  <2>3. \A i \in 1..Len(t) : i = 1 \/ (i - 1 \in 1..Len(s) /\ t[i] = s[i - 1])
    <3> TAKE i \in 1..Len(t)
    <3>1. CASE i # 1
      <4>1. i - 1 \in 1..Len(s) /\ (i - 1) + 1 = i
        BY <2>1, <3>1
      <4> QED BY <2>1, <4>1
    <3> QED BY <3>1
  <2>4. \A i, j \in 1..Len(t) : t[i] = t[j] => i = j
    <3> TAKE i, j \in 1..Len(t)
    <3> QED BY <2>1, <2>2, <2>3
  <2> QED BY <2>4 DEF t
<1>3. ASSUME s # <<>>
      PROVE  /\ \A i, j \in 1..Len(Tail(s)) : Tail(s)[i] = Tail(s)[j] => i = j
             /\ Head(s) \notin Mails!ToSet(Tail(s))
  <2> DEFINE t == Tail(s)
  <2>1. t \in Seq(Mails!Notices) /\ Len(s) = Len(t) + 1 /\ Len(t) \in Nat
        /\ s[1] = Head(s) /\ \A i \in 1..Len(t) : t[i] = s[i + 1]
    BY <1>3
  <2> HIDE DEF t
  <2>2. \A i \in 1..Len(t) : i + 1 \in 1..Len(s) /\ i + 1 # 1 /\ 1 \in 1..Len(s)
    BY <2>1
  <2>3. \A i, j \in 1..Len(t) : t[i] = t[j] => i = j
    <3> TAKE i, j \in 1..Len(t)
    <3>1. t[i] = t[j] => i + 1 = j + 1
      BY <2>1, <2>2
    <3> QED BY <2>1, <3>1
  <2>4. \A i \in 1..Len(t) : t[i] # Head(s)
    BY <2>1, <2>2
  <2>5. Head(s) \notin Mails!ToSet(t)
    BY <2>1, <2>4, InQueue
  <2> QED BY <2>3, <2>5 DEF t
<1> QED BY <1>1, <1>2, <1>3

\* The rows of a notice, as the table changes.
LEMMA IdsAreCounted ==
  ASSUME NEW m \in Nat, NEW S \in SUBSET (1..m)
  PROVE  /\ IsFiniteSet(S) /\ Cardinality(S) \in Nat
         /\ Cardinality(S \cup {m + 1}) = Cardinality(S) + 1
         /\ \A T \in SUBSET S : /\ Cardinality(T) \in Nat /\ Cardinality(T) <= Cardinality(S)
                                /\ \A x \in S \ T : Cardinality(T) + 1 <= Cardinality(S)
<1>1. IsFiniteSet(1..m)
  BY FS_Interval
<1>2. IsFiniteSet(S)
  BY <1>1, FS_Subset
<1>3. Cardinality(S) \in Nat
  BY <1>2, FS_CardinalityType
<1>4. m + 1 \notin S
  OBVIOUS
<1>5. Cardinality(S \cup {m + 1}) = Cardinality(S) + 1
  BY <1>2, <1>4, FS_AddElement
<1>6. ASSUME NEW T \in SUBSET S
      PROVE  /\ Cardinality(T) \in Nat /\ Cardinality(T) <= Cardinality(S)
             /\ \A x \in S \ T : Cardinality(T) + 1 <= Cardinality(S)
  <2>1. IsFiniteSet(T) /\ Cardinality(T) <= Cardinality(S)
          /\ (Cardinality(S) = Cardinality(T) => S = T)
    BY <1>2, FS_Subset
  <2>2. Cardinality(T) \in Nat
    BY <2>1, FS_CardinalityType
  <2> QED BY <1>3, <2>1, <2>2
<1> QED BY <1>2, <1>3, <1>5, <1>6

LEMMA InitMails ==
  ASSUME Mails!Bounds, Mails!Init
  PROVE  MailInv
<1> USE DEF Mails!Init
<1>1. Len(Owner) \in Nat /\ Mails!Notices \subseteq Nat \ {0}
  BY NoticesAreNumbers
<1>2. MailShapes
  <2>1. main \in MainThread
    BY DEF Mails!Idle, MainThread, Mails!Nothing
  <2>2. cv \in Condition
    BY DEF Condition
  <2>3. mailer \in SecondThread
    BY DEF Mails!Resting, SecondThread
  <2>4. mailed \in [Mails!Notices -> Nat]
          /\ mailHistory \in [again : [Mails!Notices -> Nat], dropped : SUBSET Mails!Notices]
    OBVIOUS
  <2>5. mailQueue \in Seq(Mails!Notices) /\ rows \in SUBSET Row
    OBVIOUS
  <2> QED BY <1>1, <2>1, <2>2, <2>3, <2>4, <2>5 DEF MailShapes
<1>3. mailQueue = <<>> /\ Mails!ToSet(mailQueue) = {} /\ Len(mailQueue) = 0
  BY DEF Mails!ToSet
<1>4. MailStates
  <2>1. main.notice = Mails!Nothing /\ Mails!Nothing = 0 /\ main.pc = "idle" /\ mailer.mails = {}
          /\ mailer.batch = {}
    BY DEF Mails!Idle, Mails!Resting, Mails!Nothing
  <2>2. \A n \in Mails!Notices : mailed[n] = 0
    OBVIOUS
  <2> QED BY <1>3, <2>1, <2>2 DEF MailStates
<1>5. DueTogether /\ Told
  BY DEF DueTogether, Told, Mails!Idle, Mails!Resting
<1>6. Kept
  BY <1>3 DEF Kept
<1>7. Counted
  <2> SUFFICES ASSUME NEW n \in Mails!Notices PROVE Copies(n)
    BY DEF Counted
  <2>1. ~Waits(n)
    BY <1>1, <1>3 DEF Waits, Mails!Idle, Mails!Nothing
  <2>2. IdsOf(n, rows) = {} /\ Cardinality({}) = 0
    BY FS_EmptySet DEF IdsOf
  <2>3. n \notin mailer.mails /\ mailed[n] = 0 /\ mailHistory.again[n] = 0
    BY DEF Mails!Resting
  <2>4. Cardinality(IdsOf(n, rows)) = 0
    BY <2>2
  <2> HIDE DEF Mails!Init
  <2> QED BY <2>1, <2>3, <2>4 DEF Copies
<1> QED BY <1>2, <1>4, <1>5, <1>6, <1>7 DEF MailInv

----------------------------------------------------------------------------
\* What a step that moves no notice keeps.
LEMMA QuietKeeps ==
  ASSUME Mails!Bounds, MailInv, published' = published, mailQueue' = mailQueue, mailed' = mailed,
         mailHistory' = mailHistory,
         mailer'.mails = mailer.mails, read \subseteq read', deleted \subseteq deleted',
         main'.notice \in {main.notice, Mails!Nothing},
         \A n \in Mails!Notices : Waits(n)' <=> Waits(n),
         \A n \in Mails!Notices : IdsOf(n, rows') = IdsOf(n, rows)
  PROVE  Kept' /\ Counted'
<1>1. \A table : \A n : (\E r \in table : r.notice = n) <=> IdsOf(n, table) # {}
  BY DEF IdsOf
<1>2. Kept'
  <2>1. main'.notice \notin Mails!ToSet(mailQueue')
    BY NoticesAreNumbers, InQueue DEF MailInv, MailShapes, Kept
  <2>2. ASSUME NEW n \in 1..published'
        PROVE  (Waits(n) \/ (\E r \in rows : r.notice = n) \/ n \in mailer.mails
                 \/ Mails!Handled(n))'
    <3>1. n \in Mails!Notices /\ n \in 1..published
      BY <2>2, NoticesAreNumbers DEF MailInv, MailShapes, Mails!Notices
    <3>2. Waits(n) \/ IdsOf(n, rows) # {} \/ n \in mailer.mails \/ Mails!Handled(n)
      BY <1>1, <3>1 DEF MailInv, Kept
    <3>3. Mails!Handled(n) => Mails!Handled(n)'
      BY DEF Mails!Handled
    <3> QED BY <1>1, <3>1, <3>2, <3>3
  <2> QED BY <2>1, <2>2 DEF MailInv, Kept
<1>3. Counted'
  BY DEF MailInv, Counted, Copies
<1> QED BY <1>2, <1>3

LEMMA SameRows ==
  ASSUME rows' = rows
  PROVE  \A n : IdsOf(n, rows') = IdsOf(n, rows)
OBVIOUS

LEMMA MarkMailReadKeeps ==
  ASSUME Mails!Bounds, MailInv, NEW n \in 1..published, Mails!MarkRead(n)
  PROVE  MailInv'
<1>1. /\ read' = read \cup {n}
      /\ UNCHANGED <<published, deleted, mailQueue, main, handler, lock, cv, rows, created, mailer,
           running,
                     mailed, mailHistory>>
  BY DEF Mails!MarkRead, Mails!database
<1>2. MailShapes' /\ MailStates' /\ DueTogether' /\ Told'
  BY <1>1 DEF MailInv, MailShapes, MailStates, DueTogether, Told
<1>3. Kept' /\ Counted'
  BY <1>1, QuietKeeps DEF Waits
<1> QED BY <1>2, <1>3 DEF MailInv

LEMMA TimePassesKeeps ==
  ASSUME Mails!Bounds, MailInv, NEW u, Mails!TimePasses(u)
  PROVE  MailInv'
<1> DEFINE later(r) == [r EXCEPT !.due = @ \/ Owner[r.notice] = u]
<1>1. /\ rows' = {later(r) : r \in rows}
      /\ main' = [main EXCEPT !.due = @ \/ (main.notice # Mails!Nothing /\ Owner[main.notice] = u)]
      /\ UNCHANGED <<published, mailQueue, handler, lock, cv, created, mailer, running, read,
           deleted, mailed, mailHistory>>
  BY DEF Mails!TimePasses
<1> DEFINE Follows(x, r) == /\ x \in Row /\ x.id = r.id /\ x.notice = r.notice
                            /\ Owner[r.notice] = u => x.due = TRUE
                            /\ Owner[r.notice] # u => x.due = r.due
<1>2. /\ \A x \in rows' : \E r \in rows : Follows(x, r)
      /\ \A r \in rows : \E x \in rows' : Follows(x, r)
      /\ \A r \in rows : r.due \in BOOLEAN
  <2>1. ASSUME NEW r \in rows PROVE Follows(later(r), r) /\ r.due \in BOOLEAN
    <3>1. r \in Row
      BY <2>1 DEF MailInv, MailShapes
    <3>2. CASE Owner[r.notice] = u
      <4>1. later(r) = [r EXCEPT !.due = r.due \/ TRUE]
        BY <3>2
      <4> QED BY <3>1, <3>2, <4>1 DEF Row
    <3>3. CASE Owner[r.notice] # u
      <4>1. later(r) = [r EXCEPT !.due = r.due \/ FALSE]
        BY <3>3
      <4> QED BY <3>1, <3>3, <4>1 DEF Row
    <3> QED BY <3>2, <3>3
  <2> HIDE DEF later, Follows
  <2> QED BY <1>1, <2>1
<1>3. /\ main' \in MainThread /\ main'.pc = main.pc /\ main'.notice = main.notice
      /\ main.notice # Mails!Nothing /\ Owner[main.notice] = u => main'.due = TRUE
      /\ main.notice # Mails!Nothing /\ Owner[main.notice] # u => main'.due = main.due
  <2>1. main \in MainThread
    BY DEF MailInv, MailShapes
  <2> QED BY <1>1, <2>1 DEF MainThread
<1> HIDE DEF later
<1>4. MailShapes'
  <2>1. rows' \in SUBSET Row
    BY <1>2
  <2> QED BY <1>1, <1>3, <2>1 DEF MailInv, MailShapes
<1>5. MailStates'
  <2>1. \A r \in rows' : r.id \in 1..created /\ r.notice \in 1..published
    BY <1>2 DEF MailInv, MailStates
  <2>2. \A b \in mailer.batch : \E r \in rows' : r.id = b /\ r.due = TRUE
    <3> TAKE b \in mailer.batch
    <3>1. PICK r \in rows : r.id = b /\ r.due = TRUE
      BY DEF MailInv, MailStates
    <3>2. PICK x \in rows' : Follows(x, r)
      BY <1>2
    <3> QED BY <3>1, <3>2
  <2> QED BY <1>1, <1>3, <2>1, <2>2 DEF MailInv, MailStates
<1>6. DueTogether'
  <2>1. \A r, s \in rows' : Owner[r.notice] = Owner[s.notice] => r.due = s.due
    <3> TAKE x, y \in rows'
    <3>1. PICK r \in rows : Follows(x, r)
      BY <1>2
    <3>2. PICK t \in rows : Follows(y, t)
      BY <1>2
    <3>3. Owner[r.notice] = Owner[t.notice] => r.due = t.due
      BY DEF MailInv, DueTogether
    <3> QED BY <3>1, <3>2, <3>3
  <2>2. main.pc \in {"looked", "locked"} =>
          \A r \in rows' : Owner[r.notice] = Owner[main.notice] => r.due = main'.due
    <3> SUFFICES ASSUME main.pc \in {"looked", "locked"}, NEW x \in rows',
                          Owner[x.notice] = Owner[main.notice]
                 PROVE  x.due = main'.due
      OBVIOUS
    <3>1. PICK r \in rows : Follows(x, r)
      BY <1>2
    <3>2. Owner[r.notice] = Owner[main.notice] => r.due = main.due
      BY DEF MailInv, DueTogether
    <3>3. main.notice # Mails!Nothing
      BY DEF MailInv, MailStates
    <3> QED BY <1>3, <3>1, <3>2, <3>3
  <2> QED BY <1>3, <2>1, <2>2 DEF DueTogether
<1>7. Told'
  BY <1>1, <1>2 DEF MailInv, Told
<1>8. Kept' /\ Counted'
  <2>1. \A n : IdsOf(n, rows') = IdsOf(n, rows)
    BY <1>2 DEF IdsOf
  <2>2. \A n : Waits(n)' <=> Waits(n)
    BY <1>1, <1>3 DEF Waits
  <2> QED BY <1>1, <1>3, <2>1, <2>2, QuietKeeps
<1> QED BY <1>4, <1>5, <1>6, <1>7, <1>8 DEF MailInv

\* The steps that move the lock, the threads and the signal handler, and no notice.
LEMMA ThreadsMove ==
  ASSUME Mails!Bounds, MailInv,
         UNCHANGED <<published, mailQueue, rows, created, read, deleted, mailed, mailHistory>>,
         main' \in MainThread, main'.notice \in {main.notice, Mails!Nothing},
         main'.pc = "idle" <=> main'.notice = Mails!Nothing,
         \A n \in Mails!Notices : Waits(n)' <=> Waits(n),
         main'.pc \in {"looked", "locked"} => main.pc \in {"looked", "locked"}
           /\ main'.due = main.due
                                              /\ main'.notice = main.notice,
         lock' = IF main'.pc \in {"locked", "created"} THEN "main" ELSE "free",
         handler' \in {"none", "stop", "join"}, cv' \in Condition,
           cv'.stopping = TRUE <=> handler' = "join",
         mailer' \in SecondThread, mailer'.mails = mailer.mails,
         mailer'.mails # {} => mailer'.pc = "publish",
         \A b \in mailer'.batch : \E r \in rows : r.id = b /\ r.due = TRUE,
         Told'
  PROVE  MailInv'
<1>1. MailShapes'
  BY DEF MailInv, MailShapes
<1>2. MailStates'
  <2>1. main'.notice <= published'
    BY DEF MailInv, MailShapes, MailStates, Mails!Nothing
  <2> QED BY <2>1 DEF MailInv, MailStates
<1>3. DueTogether'
  BY DEF MailInv, DueTogether
<1>4. Kept' /\ Counted'
  BY QuietKeeps, SameRows
<1> QED BY <1>1, <1>2, <1>3, <1>4 DEF MailInv

LEMMA MainKeeps ==
  ASSUME Mails!Bounds, MailInv, Mails!EnterCv \/ Mails!LeaveCv
  PROVE  MailInv'
<1>1. main \in MainThread
  BY DEF MailInv, MailShapes
<1>2. CASE Mails!EnterCv
  <2>1. /\ main.pc = "looked" /\ main' = [main EXCEPT !.pc = "locked"] /\ lock' = "main"
        /\ UNCHANGED <<published, mailQueue, rows, created, read, deleted, mailed, mailHistory,
             handler, cv, mailer, running>>
    BY <1>2 DEF Mails!EnterCv, Mails!MainRuns, Mails!outside, Mails!database
  <2>2. main' \in MainThread /\ main'.pc = "locked" /\ main'.notice = main.notice
          /\ main'.due = main.due
    BY <1>1, <2>1 DEF MainThread
  <2>3. \A n \in Mails!Notices : Waits(n)' <=> Waits(n)
    BY <2>1, <2>2 DEF Waits
  <2>4. main'.pc = "idle" <=> main'.notice = Mails!Nothing
    BY <2>1, <2>2 DEF MailInv, MailStates
  <2>5. handler \in {"none", "stop", "join"} /\ cv \in Condition
          /\ (cv.stopping = TRUE <=> handler = "join")
        /\ mailer \in SecondThread /\ (mailer.mails # {} => mailer.pc = "publish")
        /\ \A b \in mailer.batch : \E r \in rows : r.id = b /\ r.due = TRUE
    BY DEF MailInv, MailShapes, MailStates
  <2>6. Told'
    BY <2>1 DEF MailInv, Told
  <2> QED BY <2>1, <2>2, <2>3, <2>4, <2>5, <2>6, ThreadsMove
<1>3. CASE Mails!LeaveCv
  <2>1. /\ main.pc = "created" /\ main' = Mails!Idle /\ lock' = "free"
        /\ UNCHANGED <<published, mailQueue, rows, created, read, deleted, mailed, mailHistory,
             handler, cv, mailer, running>>
    BY <1>3 DEF Mails!LeaveCv, Mails!MainRuns, Mails!outside, Mails!database
  <2>2. main' \in MainThread /\ main'.pc = "idle" /\ main'.notice = Mails!Nothing
    BY <2>1 DEF MainThread, Mails!Idle, Mails!Nothing
  <2>3. \A n \in Mails!Notices : Waits(n)' <=> Waits(n)
    BY <2>1, <2>2, NoticesAreNumbers DEF Waits
  <2>5. handler \in {"none", "stop", "join"} /\ cv \in Condition
          /\ (cv.stopping = TRUE <=> handler = "join")
        /\ mailer \in SecondThread /\ (mailer.mails # {} => mailer.pc = "publish")
        /\ \A b \in mailer.batch : \E r \in rows : r.id = b /\ r.due = TRUE
    BY DEF MailInv, MailShapes, MailStates
  <2>6. Told'
    BY <2>1 DEF MailInv, Told
  <2> QED BY <2>1, <2>2, <2>3, <2>5, <2>6, ThreadsMove
<1> QED BY <1>2, <1>3

\* The second thread and the signal handler, without the main one.
LEMMA OthersMove ==
  ASSUME Mails!Bounds, MailInv,
         UNCHANGED <<published, mailQueue, main, lock, rows, created, read, deleted, mailed,
           mailHistory>>,
         handler' \in {"none", "stop", "join"}, cv' \in Condition,
           cv'.stopping = TRUE <=> handler' = "join",
         mailer' \in SecondThread, mailer'.mails = mailer.mails,
         mailer'.mails # {} => mailer'.pc = "publish",
         \A b \in mailer'.batch : \E r \in rows : r.id = b /\ r.due = TRUE,
         Told'
  PROVE  MailInv'
<1>1. main \in MainThread /\ (main.pc = "idle" <=> main.notice = Mails!Nothing)
      /\ lock = IF main.pc \in {"locked", "created"} THEN "main" ELSE "free"
  BY DEF MailInv, MailShapes, MailStates
<1>2. \A n \in Mails!Notices : Waits(n)' <=> Waits(n)
  BY DEF Waits
<1> QED BY <1>1, <1>2, ThreadsMove

LEMMA WorkerKeeps ==
  ASSUME Mails!Bounds, MailInv, Mails!StartWait \/ Mails!WakeUp \/ Mails!WaitEnds
         \/ Mails!SelectDue \/ Mails!BackOff \/ Mails!BackOffEnds
  PROVE  MailInv'
<1>1. /\ UNCHANGED <<published, mailQueue, main, lock, rows, created, read, deleted, mailed,
           mailHistory, handler, running>>
      /\ running /\ mailer.pc # "publish"
  BY DEF Mails!StartWait, Mails!WakeUp, Mails!WaitEnds, Mails!SelectDue, Mails!BackOff,
     Mails!BackOffEnds, Mails!WorkerRuns, Mails!outside, Mails!database
<1>2. mailer \in SecondThread /\ cv \in Condition /\ handler \in {"none", "stop", "join"}
      /\ (cv.stopping = TRUE <=> handler = "join") /\ mailer.mails = {} /\ rows \in SUBSET Row
  BY <1>1 DEF MailInv, MailShapes, MailStates
<1>3. \A pc \in {"check", "asleep", "timed", "send", "selected", "publish", "failed", "backoff",
                "exited"} :
        /\ Mails!Resting(pc) \in SecondThread /\ Mails!Resting(pc).pc = pc
        /\ Mails!Resting(pc).mails = {} /\ Mails!Resting(pc).batch = {}
  BY DEF Mails!Resting, SecondThread
<1>4. /\ cv' \in Condition /\ cv'.stopping = cv.stopping
      /\ Mails!StartWait => cv'.notified \in BOOLEAN
  <2>1. CASE Mails!StartWait
    <3>1. CASE cv.stopping
      BY <1>2, <2>1, <3>1 DEF Mails!StartWait, Condition
    <3>2. CASE ~cv.stopping
      <4>1. cv' = [cv EXCEPT !.has_timeout = (rows # {}), !.notified = FALSE]
        BY <2>1, <3>2 DEF Mails!StartWait
      <4> QED BY <1>2, <4>1 DEF Condition
    <3> QED BY <3>1, <3>2
  <2>2. CASE ~Mails!StartWait
    BY <1>2, <2>2 DEF Mails!WakeUp, Mails!WaitEnds, Mails!SelectDue, Mails!BackOff,
       Mails!BackOffEnds, Condition
  <2> QED BY <2>1, <2>2
<1>5. /\ mailer' \in SecondThread /\ mailer'.mails = {}
      /\ \A b \in mailer'.batch : \E r \in rows : r.id = b /\ r.due = TRUE
  <2>1. CASE Mails!SelectDue
    <3>1. mailer' = [mailer EXCEPT !.pc = "selected", !.batch = {r.id : r \in {r \in rows : r.due}}]
      BY <2>1 DEF Mails!SelectDue
    <3>2. {r.id : r \in {r \in rows : r.due}} \in SUBSET Nat
      BY <1>2 DEF Row
    <3>3. \A b \in {r.id : r \in {r \in rows : r.due}} : \E r \in rows : r.id = b /\ r.due = TRUE
      BY <1>2 DEF Row
    <3>4. mailer' \in SecondThread /\ mailer'.mails = mailer.mails
          /\ mailer'.batch = {r.id : r \in {r \in rows : r.due}}
      BY <1>2, <3>1, <3>2 DEF SecondThread
    <3> QED BY <1>2, <3>3, <3>4
  <2>2. CASE Mails!WakeUp /\ mailer' = mailer
    BY <1>2, <2>2 DEF MailInv, MailStates
  <2>3. CASE ~Mails!SelectDue /\ ~(Mails!WakeUp /\ mailer' = mailer)
    <3>1. mailer' \in {Mails!Resting("check"), Mails!Resting("asleep"), Mails!Resting("timed"),
                       Mails!Resting("send"),
                       Mails!Resting("backoff"), Mails!Resting("exited")}
      BY <2>3 DEF Mails!StartWait, Mails!WakeUp, Mails!WaitEnds, Mails!BackOff, Mails!BackOffEnds
    <3> QED BY <1>3, <3>1
  <2> QED BY <2>1, <2>2, <2>3
<1>6. mailer'.pc = "asleep" => cv'.has_timeout = FALSE
        /\ (cv'.notified = FALSE => rows = {} /\ cv'.stopping = FALSE)
  <2>1. CASE Mails!StartWait
    <3>1. CASE cv.stopping
      BY <1>3, <2>1, <3>1 DEF Mails!StartWait
    <3>2. CASE ~cv.stopping
      <4>1. cv' = [cv EXCEPT !.has_timeout = (rows # {}), !.notified = FALSE]
            /\ mailer' = Mails!Resting(IF rows # {} THEN "timed" ELSE "asleep")
        BY <2>1, <3>2 DEF Mails!StartWait
      <4>2. CASE rows = {}
        BY <1>2, <3>2, <4>1, <4>2 DEF Condition
      <4>3. CASE rows # {}
        BY <1>3, <4>1, <4>3
      <4> QED BY <4>2, <4>3
    <3> QED BY <3>1, <3>2
  <2>2. CASE Mails!WakeUp
    <3>1. cv' = [cv EXCEPT !.notified = FALSE] /\ mailer.pc = "asleep"
          /\ mailer' = IF cv.stopping \/ rows # {} THEN Mails!Resting("check") ELSE mailer
      BY <2>2 DEF Mails!WakeUp, Mails!WorkerRuns
    <3>2. CASE cv.stopping \/ rows # {}
      BY <1>3, <3>1, <3>2
    <3>3. CASE ~(cv.stopping \/ rows # {})
      <4>1. cv.has_timeout = FALSE
        BY <3>1 DEF MailInv, Told
      <4> QED BY <1>2, <3>1, <3>3, <4>1 DEF Condition
    <3> QED BY <3>2, <3>3
  <2>3. CASE Mails!WaitEnds \/ Mails!SelectDue \/ Mails!BackOff \/ Mails!BackOffEnds
    <3>1. mailer'.pc # "asleep"
      <4>1. CASE Mails!SelectDue
        BY <1>2, <4>1 DEF Mails!SelectDue, SecondThread
      <4>2. CASE Mails!WaitEnds \/ Mails!BackOff \/ Mails!BackOffEnds
        BY <1>3, <4>2 DEF Mails!WaitEnds, Mails!BackOff, Mails!BackOffEnds
      <4> QED BY <2>3, <4>1, <4>2
    <3> QED BY <3>1
  <2> QED BY <2>1, <2>2, <2>3
<1>7. Told'
  BY <1>1, <1>6 DEF Told
<1> QED BY <1>1, <1>2, <1>4, <1>5, <1>7, OthersMove

LEMMA HandlerKeeps ==
  ASSUME Mails!Bounds, MailInv, Mails!Signal \/ Mails!StopWorker \/ Mails!Start
  PROVE  MailInv'
<1>1. UNCHANGED <<published, mailQueue, main, lock, rows, created, read, deleted, mailed,
        mailHistory, mailer>>
  BY DEF Mails!Signal, Mails!StopWorker, Mails!Start, Mails!outside, Mails!database
<1>2. mailer \in SecondThread /\ cv \in Condition /\ handler \in {"none", "stop", "join"}
      /\ (cv.stopping = TRUE <=> handler = "join") /\ (mailer.mails # {} => mailer.pc = "publish")
      /\ \A b \in mailer.batch : \E r \in rows : r.id = b /\ r.due = TRUE
  BY <1>1 DEF MailInv, MailShapes, MailStates
<1>3. CASE Mails!Signal
  <2>1. running' = running /\ cv' = cv /\ handler' = "stop" /\ handler = "none"
    BY <1>3 DEF Mails!Signal
  <2>2. Told'
    BY <1>1, <2>1 DEF MailInv, Told
  <2> QED BY <1>1, <1>2, <2>1, <2>2, OthersMove
<1>4. CASE Mails!StopWorker
  <2>1. running' = running /\ running /\ handler' = "join"
          /\ cv' = [Mails!Notified EXCEPT !.stopping = TRUE]
    BY <1>4 DEF Mails!StopWorker
  <2>2. CASE Mails!Waiting
    <3>1. cv' = [[cv EXCEPT !.notified = cv.notified \/ TRUE] EXCEPT !.stopping = TRUE]
      BY <2>1, <2>2 DEF Mails!Notified
    <3>2. cv' \in Condition /\ cv'.stopping = TRUE /\ cv'.notified = TRUE
            /\ cv'.has_timeout = cv.has_timeout
      BY <1>2, <3>1 DEF Condition
    <3>3. Told'
      BY <1>1, <2>1, <3>2 DEF MailInv, Told
    <3> QED BY <1>1, <1>2, <2>1, <3>2, <3>3, OthersMove
  <2>3. CASE ~Mails!Waiting
    <3>1. cv' = [[cv EXCEPT !.notified = cv.notified \/ FALSE] EXCEPT !.stopping = TRUE]
      BY <2>1, <2>3 DEF Mails!Notified
    <3>2. cv' \in Condition /\ cv'.stopping = TRUE
      BY <1>2, <3>1 DEF Condition
    <3>3. Told'
      BY <1>1, <2>1, <2>3 DEF MailInv, Told, Mails!Waiting
    <3> QED BY <1>1, <1>2, <2>1, <3>2, <3>3, OthersMove
  <2> QED BY <2>2, <2>3
<1>5. CASE Mails!Start
  <2>1. running' = TRUE /\ cv' = cv /\ handler' = handler
    BY <1>5 DEF Mails!Start
  <2>2. Told'
    BY <1>1, <2>1 DEF MailInv, Told
  <2> QED BY <1>1, <1>2, <2>1, <2>2, OthersMove
<1> QED BY <1>3, <1>4, <1>5

----------------------------------------------------------------------------
(* The steps that move notices.                                             *)

\* The rows of a notice have ids that were given.
LEMMA RowsAreCounted ==
  ASSUME MailInv, NEW n
  PROVE  /\ IdsOf(n, rows) \in SUBSET (1..created) /\ Cardinality(IdsOf(n, rows)) \in Nat
         /\ \A T \in SUBSET IdsOf(n, rows) :
              /\ Cardinality(T) \in Nat /\ Cardinality(T) <= Cardinality(IdsOf(n, rows))
              /\ \A x \in IdsOf(n, rows) \ T : Cardinality(T) + 1 <= Cardinality(IdsOf(n, rows))
<1>1. IdsOf(n, rows) \in SUBSET (1..created) /\ created \in Nat
  BY DEF MailInv, MailShapes, MailStates, IdsOf
<1> QED BY <1>1, IdsAreCounted

\* Copies says this of numbers.
LEMMA CopiesAre ==
  ASSUME MailInv, NEW n \in Mails!Notices
  PROVE  /\ mailed[n] \in Nat /\ mailHistory.again[n] \in Nat
         /\ \E w, k, m \in Nat :
              /\ w = IF Waits(n) THEN 1 ELSE 0
              /\ k = Cardinality(IdsOf(n, rows))
              /\ m = IF n \in mailer.mails THEN 1 ELSE 0
              /\ w + k + m + mailed[n] <= 1 + mailHistory.again[n]
<1>1. mailed[n] \in Nat /\ mailHistory.again[n] \in Nat
  BY DEF MailInv, MailShapes
<1>2. Cardinality(IdsOf(n, rows)) \in Nat
  BY RowsAreCounted
<1>3. Copies(n)
  BY DEF MailInv, Counted
<1> QED BY <1>1, <1>2, <1>3 DEF Copies

LEMMA PublishKeeps ==
  ASSUME Mails!Bounds, MailInv, Mails!Publish
  PROVE  MailInv'
<1> DEFINE p == published + 1
<1>1. /\ published < Len(Owner) /\ published' = p /\ mailQueue' = Append(mailQueue, p)
      /\ UNCHANGED <<main, handler, lock, cv, rows, created, mailer, running, read, deleted, mailed,
           mailHistory>>
  BY DEF Mails!Publish
<1>2. p \in Mails!Notices /\ p \notin Mails!ToSet(mailQueue) /\ published \in Nat /\ p > published
        /\ mailQueue \in Seq(Mails!Notices)
      /\ main.notice # p /\ p \notin mailer.mails /\ mailed[p] = 0 /\ IdsOf(p, rows) = {}
  <2>1. published \in Nat /\ p \in Mails!Notices /\ mailQueue \in Seq(Mails!Notices)
          /\ mailed \in [Mails!Notices -> Nat]
    BY <1>1, NoticesAreNumbers DEF MailInv, MailShapes, Mails!Notices
  <2>2. p \notin Mails!ToSet(mailQueue) /\ main.notice # p /\ p \notin mailer.mails
    BY <2>1, NoticesAreNumbers DEF MailInv, MailStates, MailShapes, MainThread
  <2>3. mailed[p] = 0
    BY <2>1 DEF MailInv, MailStates
  <2>4. IdsOf(p, rows) = {}
    BY <2>1 DEF MailInv, MailStates, IdsOf
  <2> QED BY <2>1, <2>2, <2>3, <2>4
<1>3. mailQueue' \in Seq(Mails!Notices) /\ Mails!ToSet(mailQueue') = Mails!ToSet(mailQueue) \cup {p}
  BY <1>1, <1>2, InQueue
<1> HIDE DEF p
<1>4. p <= Len(Owner) /\ p \in Nat
  BY <1>1, <1>2, NoticesAreNumbers DEF p
<1>5. MailShapes'
  BY <1>1, <1>3, <1>4 DEF MailInv, MailShapes
<1>6. MailStates'
  <2>1. \A n \in Nat : n <= published => n <= p
    BY <1>2, <1>4
  <2>2. \A n \in Mails!ToSet(mailQueue') : n <= p
    <3>1. Mails!ToSet(mailQueue) \subseteq Nat
      BY <1>2, InQueue, NoticesAreNumbers
    <3> QED BY <1>3, <1>4, <2>1, <3>1 DEF MailInv, MailStates
  <2>3. main.notice <= p
    BY <2>1 DEF MailInv, MailStates, MailShapes, MainThread
  <2>4. \A r \in rows : r.id \in 1..created /\ r.notice \in 1..p
    BY <1>2, <1>4 DEF MailInv, MailStates
  <2>5. \A n \in mailer.mails : n <= p
    BY <2>1, NoticesAreNumbers DEF MailInv, MailStates, MailShapes, SecondThread
  <2>6. \A n \in Mails!Notices : mailed[n] > 0 => n <= p
    BY <2>1, NoticesAreNumbers DEF MailInv, MailStates
  <2> QED BY <1>1, <2>2, <2>3, <2>4, <2>5, <2>6 DEF MailInv, MailStates
<1>7. DueTogether' /\ Told'
  BY <1>1 DEF MailInv, DueTogether, Told
<1>8. \A n \in Mails!Notices : n # p => (Waits(n)' <=> Waits(n))
  BY <1>1, <1>3 DEF Waits
<1>9. Kept'
  <2>1. \A i, j \in 1..Len(mailQueue') : mailQueue'[i] = mailQueue'[j] => i = j
    <3>1. \A i, j \in 1..Len(mailQueue) : mailQueue[i] = mailQueue[j] => i = j
      BY DEF MailInv, Kept
    <3>2. mailQueue \in Seq(Mails!Notices) /\ p \in Mails!Notices \ Mails!ToSet(mailQueue)
            /\ mailQueue' = Append(mailQueue, p)
      BY <1>1, <1>2 DEF p
    <3>3. \A i, j \in 1..Len(Append(mailQueue, p)) :
            Append(mailQueue, p)[i] = Append(mailQueue, p)[j] => i = j
      BY <3>1, <3>2, StaysDistinct
    <3> QED BY <3>2, <3>3
  <2>2. main'.notice \notin Mails!ToSet(mailQueue')
    BY <1>1, <1>2, <1>3 DEF MailInv, Kept
  <2>3. ASSUME NEW n \in 1..published'
        PROVE  (Waits(n) \/ (\E r \in rows : r.notice = n) \/ n \in mailer.mails
                 \/ Mails!Handled(n))'
    <3>1. CASE n = p
      BY <1>3, <3>1 DEF Waits
    <3>2. CASE n # p
      <4>1. n \in 1..published /\ n \in Mails!Notices
        BY <1>1, <1>2, <1>4, <2>3, <3>2 DEF p, Mails!Notices
      <4> QED BY <1>1, <1>8, <3>2, <4>1 DEF MailInv, Kept, Mails!Handled
    <3> QED BY <3>1, <3>2
  <2> QED BY <2>1, <2>2, <2>3 DEF Kept
<1>10. Counted'
  <2> SUFFICES ASSUME NEW n \in Mails!Notices PROVE Copies(n)'
    BY DEF Counted
  <2>1. CASE n = p
    <3>1. Cardinality(IdsOf(n, rows')) = 0 /\ n \notin mailer'.mails /\ mailed'[n] = 0
      BY <1>1, <1>2, <2>1, FS_EmptySet
    <3>2. mailHistory'.again[n] \in Nat
      BY <1>1 DEF MailInv, MailShapes
    <3> QED BY <3>1, <3>2 DEF Copies
  <2>2. CASE n # p
    BY <1>1, <1>8, <2>2 DEF MailInv, Counted, Copies
  <2> QED BY <2>1, <2>2
<1> QED BY <1>5, <1>6, <1>7, <1>9, <1>10 DEF MailInv

LEMMA DeleteMessageKeeps ==
  ASSUME Mails!Bounds, MailInv, NEW m \in 1..published, Mails!DeleteMessage(m)
  PROVE  MailInv'
<1>1. /\ \A r \in rows : r.notice = m => r.id \notin mailer.batch
      /\ deleted' = deleted \cup {m} /\ rows' = {r \in rows : r.notice # m}
      /\ UNCHANGED <<published, read, mailQueue, main, handler, lock, cv, created, mailer, running,
           mailed, mailHistory>>
  BY DEF Mails!DeleteMessage
<1>2. MailShapes' /\ DueTogether' /\ Told'
  BY <1>1 DEF MailInv, MailShapes, DueTogether, Told
<1>3. MailStates'
  <2>1. \A b \in mailer.batch : \E r \in rows' : r.id = b /\ r.due = TRUE
    BY <1>1 DEF MailInv, MailStates
  <2>2. \A r \in rows' : r.id \in 1..created /\ r.notice \in 1..published
    BY <1>1 DEF MailInv, MailStates
  <2> QED BY <1>1, <2>1, <2>2 DEF MailInv, MailStates
<1>4. \A n : Waits(n)' <=> Waits(n)
  BY <1>1 DEF Waits
<1>5. Kept'
  <2>1. ASSUME NEW n \in 1..published
        PROVE  (Waits(n) \/ (\E r \in rows : r.notice = n) \/ n \in mailer.mails
                 \/ Mails!Handled(n))'
    <3>1. CASE n = m
      BY <1>1, <3>1 DEF Mails!Handled
    <3>2. CASE n # m
      BY <1>1, <1>4, <2>1, <3>2 DEF MailInv, Kept, Mails!Handled
    <3> QED BY <3>1, <3>2
  <2> QED BY <1>1, <2>1 DEF MailInv, Kept
<1>6. Counted'
  <2> SUFFICES ASSUME NEW n \in Mails!Notices PROVE Copies(n)'
    BY DEF Counted
  <2>1. IdsOf(n, rows') \in SUBSET IdsOf(n, rows)
    BY <1>1 DEF IdsOf
  <2>2. /\ Cardinality(IdsOf(n, rows')) \in Nat /\ Cardinality(IdsOf(n, rows)) \in Nat
        /\ Cardinality(IdsOf(n, rows')) <= Cardinality(IdsOf(n, rows))
    BY <2>1, RowsAreCounted
  <2>3. mailed[n] \in Nat /\ mailHistory.again[n] \in Nat /\ Copies(n)
    BY CopiesAre DEF MailInv, Counted
  <2> QED BY <1>1, <1>4, <2>2, <2>3 DEF Copies
<1> QED BY <1>2, <1>3, <1>5, <1>6 DEF MailInv

LEMMA LookForPendingKeeps ==
  ASSUME Mails!Bounds, MailInv, Mails!LookForPending
  PROVE  MailInv'
<1> DEFINE m == Head(mailQueue)
           owners == Mails!RowsOf(Owner[m])
<1>1. /\ main.pc = "idle" /\ mailQueue # <<>> /\ mailQueue' = Tail(mailQueue)
      /\ main' = [pc |-> "looked", notice |-> m, due |-> \E r \in owners : r.due]
      /\ UNCHANGED <<published, read, deleted, rows, created, handler, lock, cv, mailer, running,
           mailed, mailHistory>>
  BY DEF Mails!LookForPending, Mails!MainRuns, Mails!outside, Mails!database
<1>2. /\ mailQueue \in Seq(Mails!Notices) /\ main.notice = Mails!Nothing
      /\ m \in Mails!Notices /\ mailQueue' \in Seq(Mails!Notices)
      /\ Mails!ToSet(mailQueue) = Mails!ToSet(mailQueue') \cup {m}
      /\ m \notin Mails!ToSet(mailQueue')
      /\ \A i, j \in 1..Len(mailQueue') : mailQueue'[i] = mailQueue'[j] => i = j
  <2>1. mailQueue \in Seq(Mails!Notices) /\ main.notice = Mails!Nothing
        /\ \A i, j \in 1..Len(mailQueue) : mailQueue[i] = mailQueue[j] => i = j
    BY <1>1 DEF MailInv, MailShapes, MailStates, Kept
  <2>2. m \in Mails!Notices /\ mailQueue' \in Seq(Mails!Notices)
          /\ Mails!ToSet(mailQueue) = Mails!ToSet(mailQueue') \cup {m}
    BY <1>1, <2>1, InQueue
  <2>3. m \notin Mails!ToSet(mailQueue')
          /\ \A i, j \in 1..Len(mailQueue') : mailQueue'[i] = mailQueue'[j] => i = j
    BY <1>1, <2>1, StaysDistinct
  <2> QED BY <2>1, <2>2, <2>3
<1> HIDE DEF m, owners
<1>3. /\ main' \in MainThread /\ main'.pc = "looked" /\ main'.notice = m
      /\ \A r \in owners : r.due = main'.due
  <2>1. m \in Nat
    BY <1>2, NoticesAreNumbers
  <2>2. main' \in MainThread /\ main'.pc = "looked" /\ main'.notice = m
          /\ main'.due = (\E r \in owners : r.due)
    BY <1>1, <2>1 DEF MainThread
  <2>3. \A r, s \in owners : r.due \in BOOLEAN /\ r.due = s.due
    BY DEF owners, Mails!RowsOf, MailInv, MailShapes, Row, DueTogether
  <2> QED BY <2>2, <2>3
<1>4. MailShapes'
  BY <1>1, <1>2, <1>3 DEF MailInv, MailShapes
<1>5. MailStates'
  <2>1. m \in Mails!ToSet(mailQueue) /\ m # Mails!Nothing
          /\ Mails!ToSet(mailQueue') \subseteq Mails!ToSet(mailQueue)
    BY <1>2, NoticesAreNumbers
  <2> QED BY <1>1, <1>3, <2>1 DEF MailInv, MailStates
<1>6. DueTogether'
  BY <1>1, <1>3 DEF MailInv, DueTogether, owners, Mails!RowsOf
<1>7. Told'
  BY <1>1 DEF MailInv, Told
<1>8. \A n \in Mails!Notices : Waits(n)' <=> Waits(n)
  BY <1>1, <1>2, <1>3, NoticesAreNumbers DEF Waits
<1>9. Kept'
  <2>1. ASSUME NEW n \in 1..published
        PROVE  (Waits(n) \/ (\E r \in rows : r.notice = n) \/ n \in mailer.mails
                 \/ Mails!Handled(n))'
    <3>1. n \in Mails!Notices
      BY NoticesAreNumbers DEF MailInv, MailShapes, Mails!Notices
    <3> QED BY <1>1, <1>8, <3>1 DEF MailInv, Kept, Mails!Handled
  <2> QED BY <1>1, <1>2, <1>3, <2>1 DEF Kept
<1>10. Counted'
  BY <1>1, <1>8 DEF MailInv, Counted, Copies
<1> QED BY <1>4, <1>5, <1>6, <1>7, <1>9, <1>10 DEF MailInv

\* What becomes of a notice that was taken: a row with the next id, or nothing.
LEMMA CreateRowKeeps ==
  ASSUME Mails!Bounds, MailInv, Mails!CreateRow
  PROVE  MailInv'
<1> DEFINE m == main.notice
<1>1. /\ main.pc = "locked" /\ main' = [main EXCEPT !.pc = "created"]
      /\ UNCHANGED <<published, read, deleted, mailQueue, handler, lock, mailer, running, mailed,
           mailHistory>>
  BY DEF Mails!CreateRow, Mails!MainRuns, Mails!outside
<1>2. /\ m \in Mails!Notices /\ m \in 1..published /\ m \notin Mails!ToSet(mailQueue)
      /\ main' \in MainThread /\ main'.pc = "created" /\ main'.notice = m
      /\ main.due \in BOOLEAN /\ cv \in Condition /\ created \in Nat /\ m \in Nat
      /\ \A r \in rows : Owner[r.notice] = Owner[m] => r.due = main.due
  <2>1. main \in MainThread /\ cv \in Condition /\ created \in Nat /\ m # Mails!Nothing
          /\ m <= published
        /\ published \in Nat /\ published <= Len(Owner) /\ m \notin Mails!ToSet(mailQueue)
    BY <1>1 DEF MailInv, MailShapes, MailStates, Kept
  <2>2. m \in Nat /\ main.due \in BOOLEAN
    BY <2>1 DEF MainThread
  <2>3. m \in 1..published /\ m \in Mails!Notices
    BY <2>1, <2>2, NoticesAreNumbers DEF Mails!Notices, Mails!Nothing
  <2>4. main' \in MainThread /\ main'.pc = "created" /\ main'.notice = m
    BY <1>1, <2>1 DEF MainThread
  <2>5. \A r \in rows : Owner[r.notice] = Owner[m] => r.due = main.due
    BY <1>1 DEF MailInv, DueTogether
  <2> QED BY <2>1, <2>2, <2>3, <2>4, <2>5
<1>3. \A n \in Mails!Notices : /\ n = m => Waits(n) /\ ~Waits(n)'
                               /\ n # m => (Waits(n)' <=> Waits(n))
  BY <1>1, <1>2 DEF Waits
<1> HIDE DEF m
<1>4. m = main.notice
  BY DEF m
<1>5. CASE m \in deleted /\ UNCHANGED <<rows, created, cv>>
  <2>1. MailShapes' /\ Told'
    BY <1>1, <1>2, <1>5 DEF MailInv, MailShapes, Told
  <2>2. MailStates'
    BY <1>1, <1>2, <1>4, <1>5 DEF MailInv, MailStates
  <2>3. DueTogether'
    BY <1>1, <1>2, <1>5 DEF MailInv, DueTogether
  <2>4. Kept'
    <3>1. ASSUME NEW n \in 1..published
          PROVE  (Waits(n) \/ (\E r \in rows : r.notice = n) \/ n \in mailer.mails
                   \/ Mails!Handled(n))'
      <4>1. n \in Mails!Notices
        BY NoticesAreNumbers DEF MailInv, MailShapes, Mails!Notices
      <4> QED BY <1>1, <1>3, <1>5, <4>1 DEF MailInv, Kept, Mails!Handled
    <3> QED BY <1>1, <1>2, <3>1 DEF MailInv, Kept
  <2>5. Counted'
    <3> SUFFICES ASSUME NEW n \in Mails!Notices PROVE Copies(n)'
      BY DEF Counted
    <3>1. Cardinality(IdsOf(n, rows)) \in Nat /\ mailed[n] \in Nat /\ mailHistory.again[n] \in Nat
            /\ Copies(n)
      BY RowsAreCounted, CopiesAre DEF MailInv, Counted
    <3> QED BY <1>1, <1>3, <1>5, <3>1 DEF Copies
  <2> QED BY <2>1, <2>2, <2>3, <2>4, <2>5 DEF MailInv
<1>6. CASE /\ created' = created + 1
           /\ rows' = rows \cup {[id |-> created', notice |-> m, due |-> main.due]}
           /\ cv' = IF cv.has_timeout THEN cv ELSE Mails!Notified
  <2> DEFINE entry == [id |-> created', notice |-> m, due |-> main.due]
  <2>1. entry \in Row /\ entry.id = created + 1 /\ entry.notice = m /\ entry.due = main.due
    BY <1>2, <1>6 DEF Row
  <2>2. rows' = rows \cup {entry}
    BY <1>6
  <2> HIDE DEF entry
  <2>3. /\ cv' \in Condition /\ cv'.stopping = cv.stopping /\ cv'.has_timeout = cv.has_timeout
        /\ cv.has_timeout = FALSE /\ mailer.pc = "asleep" => cv'.notified = TRUE
    <3>1. CASE cv.has_timeout
      BY <1>2, <1>6, <3>1 DEF Condition
    <3>2. CASE ~cv.has_timeout /\ Mails!Waiting
      <4>1. cv' = [cv EXCEPT !.notified = cv.notified \/ TRUE]
        BY <1>6, <3>2 DEF Mails!Notified
      <4> QED BY <1>2, <4>1 DEF Condition
    <3>3. CASE ~cv.has_timeout /\ ~Mails!Waiting
      <4>1. cv' = [cv EXCEPT !.notified = cv.notified \/ FALSE] /\ mailer.pc # "asleep"
        BY <1>6, <3>3 DEF Mails!Notified, Mails!Waiting
      <4> QED BY <1>2, <4>1 DEF Condition
    <3> QED BY <3>1, <3>2, <3>3
  <2>4. MailShapes'
    BY <1>1, <1>2, <1>6, <2>1, <2>2, <2>3 DEF MailInv, MailShapes
  <2>5. MailStates'
    <3>1. \A r \in rows' : r.id \in 1..created' /\ r.notice \in 1..published
      BY <1>2, <1>6, <2>1, <2>2 DEF MailInv, MailStates
    <3> QED BY <1>1, <1>2, <1>4, <2>2, <2>3, <3>1 DEF MailInv, MailStates
  <2>6. DueTogether'
    <3>1. \A r, s \in rows' : Owner[r.notice] = Owner[s.notice] => r.due = s.due
      BY <1>2, <2>1, <2>2 DEF MailInv, DueTogether
    <3> QED BY <1>2, <3>1 DEF DueTogether
  <2>7. Told'
    <3>1. mailer.pc = "asleep" => cv'.has_timeout = FALSE /\ cv'.notified = TRUE
      BY <2>3 DEF MailInv, Told
    <3> QED BY <1>1, <3>1 DEF MailInv, Told
  <2>8. Kept'
    <3>1. ASSUME NEW n \in 1..published
          PROVE  (Waits(n) \/ (\E r \in rows : r.notice = n) \/ n \in mailer.mails
                   \/ Mails!Handled(n))'
      <4>1. n \in Mails!Notices
        BY NoticesAreNumbers DEF MailInv, MailShapes, Mails!Notices
      <4> QED BY <1>1, <1>3, <2>1, <2>2, <4>1 DEF MailInv, Kept, Mails!Handled
    <3> QED BY <1>1, <1>2, <3>1 DEF MailInv, Kept
  <2>9. Counted'
    <3> SUFFICES ASSUME NEW n \in Mails!Notices PROVE Copies(n)'
      BY DEF Counted
    <3>1. Cardinality(IdsOf(n, rows)) \in Nat /\ mailed[n] \in Nat /\ mailHistory.again[n] \in Nat
            /\ Copies(n)
      BY RowsAreCounted, CopiesAre DEF MailInv, Counted
    <3>2. CASE n = m
      <4>1. IdsOf(n, rows') = IdsOf(n, rows) \cup {created + 1}
        BY <2>1, <2>2, <3>2 DEF IdsOf
      <4>2. IdsOf(n, rows) \in SUBSET (1..created)
        BY RowsAreCounted
      <4>3. Cardinality(IdsOf(n, rows')) = Cardinality(IdsOf(n, rows)) + 1
        BY <1>2, <4>1, <4>2, IdsAreCounted
      <4>4. Waits(n) /\ ~Waits(n)'
        BY <1>3, <3>2
      <4>5. mailer' = mailer /\ mailed' = mailed /\ mailHistory' = mailHistory
        BY <1>1
      <4> QED BY <3>1, <4>3, <4>4, <4>5 DEF Copies
    <3>3. CASE n # m
      <4>1. IdsOf(n, rows') = IdsOf(n, rows)
        BY <2>1, <2>2, <3>3 DEF IdsOf
      <4> QED BY <1>1, <1>3, <3>1, <3>3, <4>1 DEF Copies
    <3> QED BY <3>2, <3>3
  <2> QED BY <2>4, <2>5, <2>6, <2>7, <2>8, <2>9 DEF MailInv
<1> QED BY <1>4, <1>5, <1>6 DEF Mails!CreateRow, Mails!database

\* What was selected becomes mails, and its rows go.
LEMMA SendAndCommitKeeps ==
  ASSUME Mails!Bounds, MailInv, Mails!SendAndCommit
  PROVE  MailInv'
<1> DEFINE B == Mails!Batched
<1>1. PICK failed :
        /\ mailer' = [pc |-> "publish", batch |-> {},
                      mails |-> B \ (read \cup {n \in B : Owner[n] \in failed})]
        /\ mailHistory' = [mailHistory EXCEPT !.dropped = @ \cup {n \in B : Owner[n] \in failed}]
  BY DEF Mails!SendAndCommit
<1>2. /\ mailer.pc = "selected" /\ rows' = {r \in rows : r.id \notin mailer.batch}
      /\ UNCHANGED <<published, read, deleted, created, mailQueue, main, handler, lock, cv, running,
           mailed>>
  BY DEF Mails!SendAndCommit, Mails!WorkerRuns, Mails!outside
<1> DEFINE dropped == {n \in B : Owner[n] \in failed}
           mails == B \ (read \cup dropped)
<1>3. /\ mailer.mails = {} /\ B \in SUBSET Mails!Notices
      /\ \A n \in B : n <= published /\ n \in 1..published
      /\ \A n \in B : \E r \in rows : r.notice = n /\ r.id \in mailer.batch
      /\ \A r \in rows : r.id \in mailer.batch => r.notice \in B
  <2>1. \A n \in 1..published : n \in Mails!Notices /\ n <= published
    BY NoticesAreNumbers DEF MailInv, MailShapes, Mails!Notices
  <2> QED BY <1>2, <2>1 DEF MailInv, MailStates, Mails!Batched
<1> HIDE DEF B
<1>4. /\ mailer' \in SecondThread /\ mailer'.pc = "publish" /\ mailer'.batch = {}
      /\ mailer'.mails = mails
      /\ mails \in SUBSET B
  BY <1>1, <1>3 DEF SecondThread
<1>5. /\ mailHistory' \in [again : [Mails!Notices -> Nat], dropped : SUBSET Mails!Notices]
      /\ mailHistory'.again = mailHistory.again
      /\ mailHistory'.dropped = mailHistory.dropped \cup dropped
  <2>1. mailHistory \in [again : [Mails!Notices -> Nat], dropped : SUBSET Mails!Notices]
          /\ dropped \in SUBSET Mails!Notices
    BY <1>3 DEF MailInv, MailShapes
  <2>2. mailHistory' = [mailHistory EXCEPT !.dropped = mailHistory.dropped \cup dropped]
    BY <1>1
  <2> HIDE DEF dropped
  <2> QED BY <2>1, <2>2
<1>6. B \subseteq mails \cup read \cup dropped
  OBVIOUS
<1> HIDE DEF dropped, mails
<1>7. MailShapes' /\ DueTogether' /\ Told'
  BY <1>2, <1>4, <1>5 DEF MailInv, MailShapes, DueTogether, Told
<1>8. MailStates'
  BY <1>2, <1>3, <1>4 DEF MailInv, MailStates
<1>9. \A n : Waits(n)' <=> Waits(n)
  BY <1>2 DEF Waits
<1>10. Kept'
  <2>1. ASSUME NEW n \in 1..published
        PROVE  (Waits(n) \/ (\E r \in rows : r.notice = n) \/ n \in mailer.mails
                 \/ Mails!Handled(n))'
    <3>1. CASE n \in B
      BY <1>2, <1>4, <1>5, <1>6, <3>1 DEF Mails!Handled
    <3>2. CASE n \notin B
      <4>1. Waits(n) \/ (\E r \in rows : r.notice = n) \/ Mails!Handled(n)
        BY <1>3 DEF MailInv, Kept
      <4>2. \A r \in rows : r.notice = n => r \in rows'
        BY <1>2, <1>3, <3>2
      <4>3. Mails!Handled(n) => Mails!Handled(n)'
        BY <1>2, <1>5 DEF Mails!Handled
      <4> QED BY <1>9, <4>1, <4>2, <4>3
    <3> QED BY <3>1, <3>2
  <2> QED BY <1>2, <2>1 DEF MailInv, Kept
<1>11. Counted'
  <2> SUFFICES ASSUME NEW n \in Mails!Notices PROVE Copies(n)'
    BY DEF Counted
  <2>1. IdsOf(n, rows') \in SUBSET IdsOf(n, rows)
    BY <1>2 DEF IdsOf
  <2>2. Cardinality(IdsOf(n, rows)) \in Nat /\ mailed[n] \in Nat /\ mailHistory.again[n] \in Nat
          /\ Copies(n)
    BY RowsAreCounted, CopiesAre DEF MailInv, Counted
  <2>3. CASE n \in mails
    <3>1. PICK r \in rows : r.notice = n /\ r.id \in mailer.batch
      BY <1>3, <1>4, <2>3
    <3>2. r.id \in IdsOf(n, rows) \ IdsOf(n, rows')
      BY <1>2, <3>1 DEF IdsOf
    <3>3. Cardinality(IdsOf(n, rows')) \in Nat
          /\ Cardinality(IdsOf(n, rows')) + 1 <= Cardinality(IdsOf(n, rows))
      BY <2>1, <3>2, RowsAreCounted
    <3> QED BY <1>2, <1>3, <1>4, <1>5, <1>9, <2>2, <2>3, <3>3 DEF Copies
  <2>4. CASE n \notin mails
    <3>1. Cardinality(IdsOf(n, rows')) \in Nat
          /\ Cardinality(IdsOf(n, rows')) <= Cardinality(IdsOf(n, rows))
      BY <2>1, RowsAreCounted
    <3> QED BY <1>2, <1>3, <1>4, <1>5, <1>9, <2>2, <2>4, <3>1 DEF Copies
  <2> QED BY <2>3, <2>4
<1> QED BY <1>7, <1>8, <1>10, <1>11 DEF MailInv

LEMMA PublishMailsKeeps ==
  ASSUME Mails!Bounds, MailInv, Mails!PublishMails
  PROVE  MailInv'
<1>1. /\ mailer.pc = "publish"
      /\ UNCHANGED <<published, read, deleted, rows, created, mailQueue, main, handler, lock, cv,
           running, mailHistory>>
  BY DEF Mails!PublishMails, Mails!WorkerRuns, Mails!outside, Mails!database
<1>2. mailer \in SecondThread /\ mailed \in [Mails!Notices -> Nat] /\ running # FALSE
  BY <1>1 DEF MailInv, MailShapes, Told
<1>3. CASE mailer.mails = {} /\ mailer' = Mails!Resting("check") /\ mailed' = mailed
  <2>1. mailer' \in SecondThread /\ mailer'.pc = "check" /\ mailer'.mails = {} /\ mailer'.batch = {}
    BY <1>3 DEF Mails!Resting, SecondThread
  <2>2. main \in MainThread /\ (main.pc = "idle" <=> main.notice = Mails!Nothing)
        /\ cv \in Condition /\ handler \in {"none", "stop", "join"}
        /\ (cv.stopping = TRUE <=> handler = "join")
    BY DEF MailInv, MailShapes, MailStates
  <2>3. Told'
    BY <1>1, <2>1 DEF MailInv, Told
  <2> QED BY <1>1, <1>3, <2>1, <2>2, <2>3, OthersMove
<1>4. ASSUME NEW posted \in SUBSET mailer.mails,
             mailer' = [mailer EXCEPT !.mails = @ \ posted],
             mailed' = [n \in Mails!Notices |-> IF n \in posted THEN mailed[n] + 1 ELSE mailed[n]]
      PROVE  MailInv'
  <2>1. mailer' \in SecondThread /\ mailer'.pc = "publish" /\ mailer'.batch = mailer.batch
        /\ mailer'.mails = mailer.mails \ posted
    BY <1>1, <1>2, <1>4 DEF SecondThread
  <2>2. mailed' \in [Mails!Notices -> Nat] /\ posted \in SUBSET Mails!Notices
        /\ \A n \in Mails!Notices : mailed'[n] = IF n \in posted THEN mailed[n] + 1 ELSE mailed[n]
    BY <1>2, <1>4 DEF SecondThread
  <2>3. MailShapes' /\ DueTogether'
    BY <1>1, <2>1, <2>2 DEF MailInv, MailShapes, DueTogether
  <2>4. MailStates'
    <3>1. \A n \in Mails!Notices : mailed'[n] > 0 => n <= published
      BY <2>2 DEF MailInv, MailStates
    <3> QED BY <1>1, <2>1, <3>1 DEF MailInv, MailStates
  <2>5. Told'
    BY <1>1, <1>2, <2>1 DEF MailInv, Told
  <2>6. \A n : Waits(n)' <=> Waits(n)
    BY <1>1 DEF Waits
  <2>7. Kept'
    <3>1. ASSUME NEW n \in 1..published
          PROVE  (Waits(n) \/ (\E r \in rows : r.notice = n) \/ n \in mailer.mails
                   \/ Mails!Handled(n))'
      <4>1. n \in Mails!Notices
        BY NoticesAreNumbers DEF MailInv, MailShapes, Mails!Notices
      <4>2. mailed[n] \in Nat /\ (mailed[n] > 0 => mailed'[n] > 0)
              /\ (n \in posted => mailed'[n] > 0)
        BY <1>2, <2>2, <4>1
      <4> QED BY <1>1, <2>1, <2>6, <4>2 DEF MailInv, Kept, Mails!Handled
    <3> QED BY <1>1, <3>1 DEF MailInv, Kept
  <2>8. Counted'
    <3> SUFFICES ASSUME NEW n \in Mails!Notices PROVE Copies(n)'
      BY DEF Counted
    <3>1. Cardinality(IdsOf(n, rows)) \in Nat /\ mailed[n] \in Nat /\ mailHistory.again[n] \in Nat
            /\ Copies(n)
      BY RowsAreCounted, CopiesAre DEF MailInv, Counted
    <3> QED BY <1>1, <2>1, <2>2, <2>6, <3>1 DEF Copies
  <2> QED BY <2>3, <2>4, <2>5, <2>7, <2>8 DEF MailInv
<1> QED BY <1>3, <1>4 DEF Mails!PublishMails

\* The mails that were not handed over are gone, and known to be.
LEMMA LoopFailsKeeps ==
  ASSUME Mails!Bounds, MailInv, Mails!LoopFails
  PROVE  MailInv'
<1>1. /\ mailer' = Mails!Resting("failed") /\ running
      /\ mailHistory' = [mailHistory EXCEPT !.dropped = @ \cup mailer.mails]
      /\ UNCHANGED <<published, read, deleted, rows, created, mailQueue, main, handler, lock, cv,
           running, mailed>>
  BY DEF Mails!LoopFails, Mails!outside, Mails!database
<1>2. mailer' \in SecondThread /\ mailer'.pc = "failed" /\ mailer'.mails = {} /\ mailer'.batch = {}
  BY <1>1 DEF Mails!Resting, SecondThread
<1>3. /\ mailHistory' \in [again : [Mails!Notices -> Nat], dropped : SUBSET Mails!Notices]
      /\ mailHistory'.again = mailHistory.again
      /\ mailHistory'.dropped = mailHistory.dropped \cup mailer.mails
  <2>1. mailHistory \in [again : [Mails!Notices -> Nat], dropped : SUBSET Mails!Notices]
          /\ mailer.mails \in SUBSET Mails!Notices
    BY DEF MailInv, MailShapes, SecondThread
  <2>2. mailHistory' = [mailHistory EXCEPT !.dropped = mailHistory.dropped \cup mailer.mails]
    BY <1>1
  <2> QED BY <2>1, <2>2
<1>4. MailShapes' /\ DueTogether'
  BY <1>1, <1>2, <1>3 DEF MailInv, MailShapes, DueTogether
<1>5. MailStates'
  BY <1>1, <1>2 DEF MailInv, MailStates
<1>6. Told'
  BY <1>1, <1>2 DEF MailInv, Told
<1>7. \A n : Waits(n)' <=> Waits(n)
  BY <1>1 DEF Waits
<1>8. Kept'
  BY <1>1, <1>3, <1>7 DEF MailInv, Kept, Mails!Handled
<1>9. Counted'
  <2> SUFFICES ASSUME NEW n \in Mails!Notices PROVE Copies(n)'
    BY DEF Counted
  <2>1. Cardinality(IdsOf(n, rows)) \in Nat /\ mailed[n] \in Nat /\ mailHistory.again[n] \in Nat
          /\ Copies(n)
    BY RowsAreCounted, CopiesAre DEF MailInv, Counted
  <2> QED BY <1>1, <1>2, <1>3, <1>7, <2>1 DEF Copies
<1> QED BY <1>4, <1>5, <1>6, <1>8, <1>9 DEF MailInv

\* The notice that was being taken goes back, also if it has its row already.
LEMMA EndsKeeps ==
  ASSUME Mails!Bounds, MailInv, Mails!Ends
  PROVE  MailInv'
<1> DEFINE m == main.notice
<1>1. /\ mailQueue' = IF m = Mails!Nothing THEN mailQueue ELSE <<m>> \o mailQueue
      /\ mailHistory' = [again |-> [n \in Mails!Notices |->
                                     IF n = m THEN mailHistory.again[n] + 1 ELSE mailHistory.again[n]],
                     dropped |-> mailHistory.dropped \cup mailer.mails]
      /\ running' = FALSE /\ main' = Mails!Idle /\ mailer' = Mails!Resting("check")
      /\ handler' = "none" /\ lock' = "free"
      /\ cv' = [stopping |-> FALSE, has_timeout |-> FALSE, notified |-> FALSE]
      /\ UNCHANGED <<published, read, deleted, rows, created, mailed>>
  BY DEF Mails!Ends, Mails!outside, Mails!database
<1>2. /\ main' \in MainThread /\ main'.pc = "idle" /\ main'.notice = Mails!Nothing
      /\ mailer' \in SecondThread /\ mailer'.pc = "check" /\ mailer'.mails = {}
      /\ mailer'.batch = {}
      /\ cv' \in Condition /\ cv'.stopping = FALSE
  BY <1>1 DEF Mails!Idle, MainThread, Mails!Nothing, Mails!Resting, SecondThread, Condition
<1>3. /\ mailHistory \in [again : [Mails!Notices -> Nat], dropped : SUBSET Mails!Notices]
      /\ mailer.mails \in SUBSET Mails!Notices
      /\ mailQueue \in Seq(Mails!Notices) /\ published \in Nat /\ published <= Len(Owner)
      /\ m \in Nat /\ m <= published /\ m \notin Mails!ToSet(mailQueue)
      /\ \A i, j \in 1..Len(mailQueue) : mailQueue[i] = mailQueue[j] => i = j
  BY DEF MailInv, MailShapes, MailStates, Kept, MainThread, SecondThread
<1>4. m # Mails!Nothing => m \in Mails!Notices
  BY <1>3, NoticesAreNumbers DEF Mails!Notices, Mails!Nothing
<1>5. /\ mailHistory' \in [again : [Mails!Notices -> Nat], dropped : SUBSET Mails!Notices]
      /\ mailHistory'.dropped = mailHistory.dropped \cup mailer.mails
      /\ \A n \in Mails!Notices :
           mailHistory'.again[n] = IF n = m THEN mailHistory.again[n] + 1 ELSE mailHistory.again[n]
  <2> DEFINE again == [n \in Mails!Notices |->
                        IF n = m THEN mailHistory.again[n] + 1 ELSE mailHistory.again[n]]
  <2>1. again \in [Mails!Notices -> Nat]
        /\ \A n \in Mails!Notices :
             again[n] = IF n = m THEN mailHistory.again[n] + 1 ELSE mailHistory.again[n]
    BY <1>3
  <2>2. mailHistory' = [again |-> again, dropped |-> mailHistory.dropped \cup mailer.mails]
    BY <1>1
  <2> HIDE DEF again
  <2> QED BY <1>3, <2>1, <2>2
<1>6. /\ mailQueue' \in Seq(Mails!Notices)
      /\ Mails!ToSet(mailQueue') = Mails!ToSet(mailQueue) \cup ({m} \ {Mails!Nothing})
      /\ \A i, j \in 1..Len(mailQueue') : mailQueue'[i] = mailQueue'[j] => i = j
  <2>1. CASE m = Mails!Nothing
    BY <1>1, <1>3, <2>1
  <2>2. CASE m # Mails!Nothing
    <3>1. mailQueue' = <<m>> \o mailQueue /\ m \in Mails!Notices \ Mails!ToSet(mailQueue)
      BY <1>1, <1>3, <1>4, <2>2
    <3>2. <<m>> \o mailQueue \in Seq(Mails!Notices)
            /\ Mails!ToSet(<<m>> \o mailQueue) = Mails!ToSet(mailQueue) \cup {m}
      BY <1>3, <3>1, InQueue
    <3>3. \A i, j \in 1..Len(<<m>> \o mailQueue) :
            (<<m>> \o mailQueue)[i] = (<<m>> \o mailQueue)[j] => i = j
      BY <1>3, <3>1, StaysDistinct
    <3> HIDE DEF m
    <3> QED BY <2>2, <3>1, <3>2, <3>3
  <2> QED BY <2>1, <2>2
<1> HIDE DEF m
<1>7. MailShapes' /\ Told' /\ DueTogether'
  BY <1>1, <1>2, <1>5, <1>6 DEF MailInv, MailShapes, Told, DueTogether
<1>8. MailStates'
  <2>1. \A n \in Mails!ToSet(mailQueue') : n <= published
    BY <1>3, <1>6 DEF MailInv, MailStates
  <2>2. Mails!Nothing <= published
    BY <1>3 DEF Mails!Nothing
  <2> QED BY <1>1, <1>2, <2>1, <2>2 DEF MailInv, MailStates
<1>9. \A n \in Mails!Notices : /\ Waits(n) => Waits(n)'
                               /\ n = m => Waits(n)'
                               /\ n # m => (Waits(n)' <=> Waits(n))
  BY <1>1, <1>2, <1>6, NoticesAreNumbers DEF Waits, m
<1>10. Kept'
  <2>1. ASSUME NEW n \in 1..published
        PROVE  (Waits(n) \/ (\E r \in rows : r.notice = n) \/ n \in mailer.mails
                 \/ Mails!Handled(n))'
    <3>1. n \in Mails!Notices
      BY NoticesAreNumbers DEF MailInv, MailShapes, Mails!Notices
    <3>2. Mails!Handled(n) => Mails!Handled(n)'
      BY <1>1, <1>5 DEF Mails!Handled
    <3>3. n \in mailer.mails => Mails!Handled(n)'
      BY <1>5 DEF Mails!Handled
    <3> QED BY <1>1, <1>9, <3>1, <3>2, <3>3 DEF MailInv, Kept
  <2>2. Mails!Nothing \notin Mails!ToSet(mailQueue')
    BY <1>6, InQueue, NoticesAreNumbers
  <2> QED BY <1>1, <1>2, <1>6, <2>1, <2>2 DEF Kept
<1>11. Counted'
  <2> SUFFICES ASSUME NEW n \in Mails!Notices PROVE Copies(n)'
    BY DEF Counted
  <2>1. Cardinality(IdsOf(n, rows)) \in Nat /\ mailed[n] \in Nat /\ mailHistory.again[n] \in Nat
          /\ Copies(n)
    BY RowsAreCounted, CopiesAre DEF MailInv, Counted
  <2>4. rows' = rows /\ mailed' = mailed /\ n \notin mailer'.mails
    BY <1>1, <1>2
  <2>2. CASE n = m
    <3>1. Waits(n)' /\ mailHistory'.again[n] = mailHistory.again[n] + 1
      BY <1>5, <1>9, <2>2
    <3> QED BY <2>1, <2>4, <3>1 DEF Copies
  <2>3. CASE n # m
    <3>1. (Waits(n)' <=> Waits(n)) /\ mailHistory'.again[n] = mailHistory.again[n]
      BY <1>5, <1>9, <2>3
    <3> QED BY <2>1, <2>4, <3>1 DEF Copies
  <2> QED BY <2>2, <2>3
<1> QED BY <1>7, <1>8, <1>10, <1>11 DEF MailInv

----------------------------------------------------------------------------
LEMMA MailStutter ==
  ASSUME MailInv, UNCHANGED Mails!vars
  PROVE  MailInv'
<1> USE DEF MailInv, Mails!vars
<1>1. MailShapes' /\ MailStates' /\ DueTogether' /\ Told'
  BY DEF MailShapes, MailStates, DueTogether, Told
<1>2. \A n : (Waits(n)' <=> Waits(n)) /\ (Mails!Handled(n)' <=> Mails!Handled(n))
  BY DEF Waits, Mails!Handled
<1>3. Kept'
  BY <1>2 DEF Kept
<1>4. Counted'
  BY <1>2 DEF Counted, Copies
<1> QED BY <1>1, <1>3, <1>4

LEMMA MailStep ==
  ASSUME Mails!Bounds, MailInv, [Mails!Next]_Mails!vars
  PROVE  MailInv'
<1>1. CASE Mails!Publish
  BY <1>1, PublishKeeps
<1>2. ASSUME NEW n \in 1..published, Mails!MarkRead(n) \/ Mails!DeleteMessage(n)
      PROVE  MailInv'
  BY <1>2, MarkMailReadKeeps, DeleteMessageKeeps
<1>3. ASSUME NEW u \in Mails!Users, Mails!TimePasses(u) PROVE MailInv'
  BY <1>3, TimePassesKeeps
<1>4. CASE Mails!Main
  BY <1>4, LookForPendingKeeps, MainKeeps, CreateRowKeeps DEF Mails!Main
<1>5. CASE Mails!Worker
  BY <1>5, WorkerKeeps, PublishMailsKeeps DEF Mails!Worker
<1>6. CASE Mails!SendAndCommit \/ Mails!LoopFails
  BY <1>6, SendAndCommitKeeps, LoopFailsKeeps
<1>7. CASE Mails!Signal \/ Mails!StopWorker \/ Mails!Start
  BY <1>7, HandlerKeeps
<1>8. CASE Mails!Joined \/ Mails!Kill
  BY <1>8, EndsKeeps DEF Mails!Joined, Mails!Kill
<1>9. CASE UNCHANGED Mails!vars
  BY <1>9, MailStutter
<1> QED BY <1>1, <1>2, <1>3, <1>4, <1>5, <1>6, <1>7, <1>8, <1>9 DEF Mails!Next

LEMMA MailsAreKept ==
  ASSUME Mails!Bounds, MailInv
  PROVE  Mails!NoticesAreKept
<1>1. Mails!NoLostWakeUp
  BY DEF Mails!NoLostWakeUp, MailInv, Told, MailShapes, Condition
<1>2. Mails!NothingForgotten
  BY DEF Mails!NothingForgotten, MailInv, Kept, Waits
<1>3. Mails!MailedOnce
  <2> SUFFICES ASSUME NEW n \in Mails!Notices PROVE mailed[n] <= 1 + mailHistory.again[n]
    BY DEF Mails!MailedOnce
  <2>1. Cardinality(IdsOf(n, rows)) \in Nat /\ mailed[n] \in Nat /\ mailHistory.again[n] \in Nat
          /\ Copies(n)
    BY RowsAreCounted, CopiesAre DEF MailInv, Counted
  <2> QED BY <2>1 DEF Copies
<1> QED BY <1>1, <1>2, <1>3 DEF Mails!NoticesAreKept

LEMMA MailTypes ==
  ASSUME Mails!Bounds, MailInv
  PROVE  Mails!TypeOK
<1>1. /\ published \in 0..Len(Owner) /\ created \in Nat /\ main.notice \in 0..published
      /\ handler \in {"none", "stop", "join"} /\ (main.pc = "idle" <=> main.notice = Mails!Nothing)
      /\ lock = IF main.pc \in {"locked", "created"} THEN "main" ELSE "free"
  BY NoticesAreNumbers DEF MailInv, MailShapes, MailStates, MainThread
<1>2. \A r \in rows : r.id \in 1..created /\ r.notice \in 1..published /\ r.due \in BOOLEAN
  BY DEF MailInv, MailShapes, MailStates, Row
<1>3. mailer.pc \in {"check", "asleep", "timed", "send", "selected", "publish", "failed", "backoff",
                   "exited"}
  BY DEF MailInv, MailShapes, SecondThread
<1>4. mailer.batch \subseteq {r.id : r \in {r \in rows : r.due}}
  BY DEF MailInv, MailStates
<1>5. mailer.mails \subseteq 1..published
  BY NoticesAreNumbers DEF MailInv, MailShapes, MailStates, SecondThread
<1>6. cv.stopping <=> handler = "join"
  BY DEF MailInv, MailShapes, MailStates, Condition
<1>7. ASSUME NEW u \in Mails!Users PROVE Cardinality({r.due : r \in Mails!RowsOf(u)}) <= 1
  <2> DEFINE S == {r.due : r \in Mails!RowsOf(u)}
  <2>1. S = {} \/ \E x : S = {x}
    <3>1. \A x, y \in S : x = y
      BY DEF Mails!RowsOf, MailInv, DueTogether
    <3> HIDE DEF S
    <3>2. CASE S # {}
      <4>1. PICK x : x \in S
        BY <3>2
      <4>2. S = {x}
        BY <3>1, <4>1
      <4> QED BY <4>2
    <3> QED BY <3>2
  <2> HIDE DEF S
  <2>2. Cardinality(S) = 0 \/ Cardinality(S) = 1
    BY <2>1, FS_EmptySet, FS_Singleton
  <2> QED BY <2>2 DEF S
<1> QED BY <1>1, <1>2, <1>3, <1>4, <1>5, <1>6, <1>7, SameSize DEF Mails!TypeOK

(***************************************************************************)
(* The chat server.                                                        *)
(***************************************************************************)
\* The users of browsers alone; and of mobile clients alone.
LEMMA KindsOfClients == Web!OneKind /\ Mobile!OneKind
BY DEF Web!OneKind, Mobile!OneKind

(* A step of the server moves one part, as its module says, and leaves the  *)
(* others.                                                                  *)
LEMMA PartsMove ==
  ASSUME [Next]_vars
  PROVE  /\ [Events!Next]_Events!vars
         /\ part = "mobile" => [Mobile!Next]_Mobile!vars
         /\ part # "mobile" => [Web!Next]_Web!vars
         /\ [Push!Next]_Push!vars
         /\ [Mails!Next]_Mails!vars
         /\ [Scheduled!Next]_Scheduled!vars
         /\ part' = part
<1>1. [Events!Next]_Events!vars
  BY DEF Next, vars, eventQueues, Events!vars
<1>2. part = "mobile" => [Mobile!Next]_Mobile!vars
  BY DEF Next, vars, notification, Mobile!vars
<1>3. part # "mobile" => [Web!Next]_Web!vars
  BY DEF Next, vars, notification, Web!vars
<1>4. [Push!Next]_Push!vars
  BY DEF Next, vars, push, Push!vars
<1>5. [Mails!Next]_Mails!vars
  BY DEF Next, vars, mail, Mails!vars
<1>6. [Scheduled!Next]_Scheduled!vars
  BY DEF Next, vars, schedule, Scheduled!vars
<1>7. part' = part
  BY DEF Next, vars
<1> QED BY <1>1, <1>2, <1>3, <1>4, <1>5, <1>6, <1>7

(* The inductive invariants of the parts.                                   *)
ChatInv ==
  /\ Events!EventsInv
  /\ part = "mobile" => Mobile!MissedInv
  /\ part # "mobile" => Web!MissedInv
  /\ PushInv /\ MailInv
  /\ ScheduleInv /\ ScheduleNumbers

LEMMA ChatInit ==
  ASSUME Init
  PROVE  ChatInv
<1>1. /\ Events!Init /\ Web!Init /\ Mobile!Init /\ Push!Init /\ Mails!Init /\ Scheduled!Init
      /\ Events!Bounds /\ Web!Bounds /\ Mobile!Bounds /\ Mails!Bounds /\ Scheduled!Bounds
  BY BoundsAssumption DEF Init, Web!Init, Mobile!Init, Web!Message, Mobile!Message
<1>2. Events!EventsInv
  BY <1>1, Events!InitEvents
<1>3. Mobile!MissedInv
  BY <1>1, Mobile!MissedInit
<1>4. Web!MissedInv
  BY <1>1, Web!MissedInit
<1>5. PushInv
  BY <1>1, PushInit
<1>6. MailInv
  BY <1>1, InitMails
<1>7. ScheduleInv /\ ScheduleNumbers
  BY <1>1, InitSchedule, InitNumbers
<1> QED BY <1>2, <1>3, <1>4, <1>5, <1>6, <1>7 DEF ChatInv

LEMMA ChatStep ==
  ASSUME ChatInv, [Next]_vars
  PROVE  ChatInv'
<1>1. /\ Events!Bounds /\ Web!Bounds /\ Mobile!Bounds /\ Push!Bounds /\ Mails!Bounds
      /\ Scheduled!Bounds
  BY BoundsAssumption
<1>2. Events!EventsInv'
  BY <1>1, PartsMove, Events!EventsStep DEF ChatInv
<1>3. part' = "mobile" => Mobile!MissedInv'
  BY <1>1, PartsMove, KindsOfClients, Mobile!MissedStep DEF ChatInv
<1>4. part' # "mobile" => Web!MissedInv'
  BY <1>1, PartsMove, KindsOfClients, Web!MissedStep DEF ChatInv
<1>5. PushInv'
  BY <1>1, PartsMove, PushStep DEF ChatInv
<1>6. MailInv'
  BY <1>1, PartsMove, MailStep DEF ChatInv
<1>7. ScheduleInv' /\ ScheduleNumbers'
  BY <1>1, PartsMove, StepScheduleInv, ScheduleCounted DEF ChatInv
<1> QED BY <1>2, <1>3, <1>4, <1>5, <1>6, <1>7 DEF ChatInv

(* Every state of the server satisfies the invariants of its parts.         *)
LEMMA ChatCorrect == Spec => []ChatInv
<1>1. Init => ChatInv
  BY ChatInit
<1>2. ChatInv /\ [Next]_vars => ChatInv'
  BY ChatStep
<1> QED BY <1>1, <1>2, PTL DEF Spec

(* Queues, notices, rows and what the clients hold keep their types, and    *)
(* counters stay within their bounds, through faults, crashes and restarts. *)
THEOREM ChatTypesKept == Spec => []TypeOK
<1>1. ChatInv => TypeOK
  <2> SUFFICES ASSUME ChatInv PROVE TypeOK
    OBVIOUS
  <2>1. /\ Web!Bounds /\ Mobile!Bounds /\ Mails!Bounds /\ Scheduled!Bounds
    BY BoundsAssumption
  <2>2. Events!TypeOK
    BY Events!EventsKeepTypes DEF ChatInv
  <2>3. IF part = "mobile" THEN Mobile!TypeOK ELSE Web!TypeOK
    <3>1. CASE part = "mobile"
      BY <2>1, <3>1, Mobile!InvTypes DEF ChatInv, Mobile!MissedInv
    <3>2. CASE part # "mobile"
      BY <2>1, <3>2, Web!InvTypes DEF ChatInv, Web!MissedInv
    <3> QED BY <3>1, <3>2
  <2>4. Push!TypeOK
    BY PushKeepsTypes DEF ChatInv
  <2>5. Mails!TypeOK
    BY <2>1, MailTypes DEF ChatInv
  <2>6. Scheduled!TypeOK
    BY <2>1, ScheduleTypes DEF ChatInv
  <2> QED BY <2>2, <2>3, <2>4, <2>5, <2>6 DEF TypeOK
<1> QED BY <1>1, ChatCorrect, PTL

(* A client that registered gets every event once and in its turn, through  *)
(* lost answers, reconnections, restarts and merged events (EventQueue,     *)
(* do_events_register, server_events.js).                                   *)
THEOREM EventsComeInOrder == Spec => []EventsOnceInOrder
<1>1. ChatInv => EventsOnceInOrder
  BY Events!EventsOnce DEF ChatInv, EventsOnceInOrder
<1> QED BY <1>1, ChatCorrect, PTL

(* A client is never left with a queue it cannot go on from or with a poll  *)
(* that nobody answers (fetch_events, ClientDescriptor.connect_handler).    *)
THEOREM ClientsGoOn == Spec => []NoClientIsStuck
<1>1. ChatInv => NoClientIsStuck
  BY BoundsAssumption, Events!EventsNotStuck DEF ChatInv, NoClientIsStuck
<1> QED BY <1>1, ChatCorrect, PTL

(* What nobody picked up is notified of, and on one occasion, for users of  *)
(* browsers and for users of mobile clients (missedmessage_hook,            *)
(* process_message_event, gc_event_queues).                                 *)
THEOREM MissedAreNotified == Spec => []NotifiedExactlyOnce
<1>1. ChatInv => NotifiedExactlyOnce
  BY Mobile!MissedExactly, Web!MissedExactly DEF ChatInv, NotifiedExactlyOnce
<1> QED BY <1>1, ChatCorrect, PTL

(* A notification that a device shows of a message that was read or deleted *)
(* is about to be taken back, unless the bouncer refused for good           *)
(* (handle_push_notification, handle_remove_push_notification).             *)
THEOREM NotificationsAreTakenBack == Spec => []ShownIsTakenBack
<1>1. ChatInv => ShownIsTakenBack
  BY PushTakesBack DEF ChatInv, ShownIsTakenBack
<1> QED BY <1>1, ChatCorrect, PTL

(* The notice of a missed message is neither forgotten nor mailed twice but *)
(* by being given back, and the second thread does not sleep while there is *)
(* something to do (MissedMessageWorker).                                   *)
THEOREM MissedAreMailed == Spec => []NoticesAreKept
<1>1. ChatInv => NoticesAreKept
  BY BoundsAssumption, MailsAreKept DEF ChatInv, NoticesAreKept
<1> QED BY <1>1, ChatCorrect, PTL

(* However deliveries, failures, crashes, edits and deletions interleave, a *)
(* scheduled message is sent once per opening, and a row that is marked     *)
(* delivered was sent as it reads (try_deliver_one_scheduled_message,       *)
(* edit_scheduled_message).                                                 *)
THEOREM ScheduledOnce == Spec => []DeliveredFaithfully
<1>1. ChatInv => DeliveredFaithfully
  BY InvImpliesFaithful DEF ChatInv, DeliveredFaithfully
<1> QED BY <1>1, ChatCorrect, PTL
=============================================================================
