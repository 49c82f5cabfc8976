---------------------------- MODULE RunnerProofs ----------------------------
(***************************************************************************)
(* The runner keeps the properties of each of its parts, for every number  *)
(* of attempts, operations, events, retries, faults and crashes.  A step of*)
(* the runner is a step of one part or leaves it alone, so that the        *)
(* inductive invariant of each part, proved in its own module, is an       *)
(* invariant of the whole; those of team operations and of the connection  *)
(* are proved here.  Nothing is assumed but BoundsAssumption, and fairness *)
(* plays no part.                                                          *)
(***************************************************************************)
EXTENDS Runner, WellFoundedInduction, TLAPS

(***************************************************************************)
(* Team operations.                                                        *)
(***************************************************************************)
Receipts == {"succeeded", "failed"}
Requests == {"none", "out", "in", "busy", "refused", "error", "unknown"} \cup Receipts
Heard == {"nothing", "ended", "error", "unknown"} \cup Receipts
OpRow == [status : {"proposed", "authorized", "started", "outcome_unknown"} \cup Receipts,
          approval : {"none", "pending", "approved", "rejected", "cancelled", "consumed"},
          receipt : Receipts \cup {"none"}]
Tool == [pc : {"waiting", "allowed", "sent"}, tries : Nat, heard : Heard]

(* The types that the proof needs.                                          *)
OperationShapes == op \in OpRow /\ tool \in Tool /\ done \in {0, 1}
            /\ phase \in {"none", "act"} \cup Receipts /\ execute \in Requests

Declined == op.approval \in {"rejected", "cancelled"}

(* Before it is started nothing of an operation has happened, and only an   *)
(* operation that was not started has a decision to wait for.               *)
UnstartedIsUntouched ==
  /\ op.status \in {"authorized", "proposed"} => phase = "none" /\ done = 0 /\ op.receipt = "none"
  /\ op.approval \notin {"none", "consumed"} => op.status = "proposed"

(* The process between the phases knows what happened, and its receipt is   *)
(* the first.                                                               *)
WorkIsKnown ==
  /\ phase # "none" => op.receipt = "none"
  /\ phase = "succeeded" => done = 1
  /\ phase \in {"act", "failed"} => done = 0

ReceiptIsKnown ==
  /\ op.receipt = "succeeded" => done = 1
  /\ op.receipt = "failed" => done = 0
  /\ op.receipt # "none" \/ op.status \in Receipts => op.status = op.receipt
  /\ done = 1 => Team!Listed

(* An answer on its way, and what was heard, is the receipt; a failure may  *)
(* also be a decision that was taken against the operation.                 *)
AnswersAreReceipts ==
  /\ execute \in Receipts => op.receipt = execute
  /\ tool.heard = "succeeded" => op.receipt = "succeeded"
  /\ tool.heard = "failed" => op.receipt = "failed" \/ Declined

TeamInv == OperationShapes /\ UnstartedIsUntouched /\ WorkIsKnown /\ ReceiptIsKnown /\ AnswersAreReceipts

LEMMA InitTeam == Team!Init => TeamInv
  BY DEF Team!Init, TeamInv, OperationShapes, OpRow, Tool, Heard, Requests, Receipts,
     UnstartedIsUntouched,
         WorkIsKnown, ReceiptIsKnown, AnswersAreReceipts, Team!Listed

LEMMA TeamIsTruthful == TeamInv => Team!OutcomeTruthful
  BY DEF TeamInv, OperationShapes, UnstartedIsUntouched, WorkIsKnown, ReceiptIsKnown,
     AnswersAreReceipts,
         Team!OutcomeTruthful, Team!ReplyTruthful, Team!HeardTruthful, Team!StatusFollowsReceipt,
         Declined, Receipts

(* A step that touches neither the operation nor the work on it, and brings *)
(* no answer but the receipt.                                               *)
LEMMA OnlyHeard ==
  ASSUME TeamInv, UNCHANGED <<op, done, phase>>,
         tool' \in Tool, execute' \in Requests,
         execute' \in Receipts => op.receipt = execute',
         tool'.heard = "succeeded" => op.receipt = "succeeded",
         tool'.heard = "failed" => op.receipt = "failed" \/ Declined
  PROVE  TeamInv'
  BY DEF TeamInv, OperationShapes, UnstartedIsUntouched, WorkIsKnown, ReceiptIsKnown,
     AnswersAreReceipts,
         Declined, Team!Listed

(* A cancellation touches only a decision that is still open.               *)
LEMMA CancelledRow ==
  ASSUME NEW row \in OpRow
  PROVE  /\ Team!Cancelled(row) \in OpRow
         /\ Team!Cancelled(row).status = row.status /\ Team!Cancelled(row).receipt = row.receipt
         /\ \/ Team!Cancelled(row).approval = row.approval
            \/ row.approval \in {"pending", "approved"} /\ Team!Cancelled(row).approval = "cancelled"
  BY DEF Team!Cancelled, OpRow

(* A step that only decides on the operation.                               *)
LEMMA OnlyDecided ==
  ASSUME TeamInv, UNCHANGED <<done, phase, execute>>, op' \in OpRow,
         op'.status = op.status, op'.receipt = op.receipt,
         \/ op'.approval = op.approval
         \/ /\ op.approval \in {"pending", "approved"}
            /\ op'.approval \in {"approved", "rejected", "cancelled"},
         tool' = tool
  PROVE  TeamInv'
  BY DEF TeamInv, OperationShapes, UnstartedIsUntouched, WorkIsKnown, ReceiptIsKnown,
     AnswersAreReceipts,
         Declined, Team!Listed

(* The decision on the approval, and the stop of the attempt.               *)
LEMMA StepDecide ==
  ASSUME TeamInv, NEW d \in {"approved", "rejected"}, Team!Decide(d)
  PROVE  TeamInv'
<1>1. /\ UNCHANGED <<done, phase, execute, tool>> /\ op.approval = "pending"
      /\ op' = [op EXCEPT !.approval = d] /\ op \in OpRow
  BY DEF Team!Decide, TeamInv, OperationShapes
<1>2. op' \in OpRow /\ op'.status = op.status /\ op'.receipt = op.receipt /\ op'.approval = d
  BY <1>1 DEF OpRow
<1> QED
  BY <1>1, <1>2, OnlyDecided

LEMMA StepRequestStop ==
  ASSUME TeamInv, Team!RequestStop
  PROVE  TeamInv'
<1>1. UNCHANGED <<done, phase, execute, tool>> /\ op' = Team!Cancelled(op) /\ op \in OpRow
  BY DEF Team!RequestStop, TeamInv, OperationShapes
<1> QED
  BY <1>1, CancelledRow, OnlyDecided

(* The end of the attempt: what was started is unknown, unless its receipt  *)
(* is there.                                                                *)
LEMMA StepAttemptStopped ==
  ASSUME TeamInv, Team!AttemptStopped
  PROVE  TeamInv'
<1> USE DEF TeamInv
<1>1. /\ UNCHANGED <<done, phase>> /\ execute' = "none" /\ op \in OpRow
      /\ op' = IF op.status = "started" THEN [op EXCEPT !.status = "outcome_unknown"]
                                        ELSE Team!Cancelled(op)
      /\ tool' \in Tool
      /\ tool'.heard \in {tool.heard, "ended"}
  BY DEF Team!AttemptStopped, OperationShapes, Tool, Heard
<1>2. /\ op' \in OpRow /\ op'.receipt = op.receipt
      /\ \/ op'.approval = op.approval
         \/ op.approval \in {"pending", "approved"} /\ op'.approval = "cancelled"
      /\ \/ op'.status = op.status
         \/ /\ op.status = "started" /\ op'.status = "outcome_unknown"
            /\ op'.approval = op.approval
  <2>1. CASE op.status = "started"
    BY <1>1, <2>1 DEF OpRow
  <2>2. CASE op.status # "started"
    BY <1>1, <2>2, CancelledRow
  <2> QED
    BY <2>1, <2>2
<1>3. OperationShapes'
  BY <1>1, <1>2 DEF OperationShapes, Requests
<1>4. UnstartedIsUntouched' /\ WorkIsKnown'
  BY <1>1, <1>2 DEF UnstartedIsUntouched, WorkIsKnown
<1>5. ReceiptIsKnown'
  BY <1>1, <1>2 DEF ReceiptIsKnown, Team!Listed, OperationShapes, OpRow, Receipts
<1>6. AnswersAreReceipts'
  BY <1>1, <1>2 DEF AnswersAreReceipts, Declined, Receipts
<1> QED
  BY <1>3, <1>4, <1>5, <1>6

(* Phase 1 starts an operation once.                                        *)
LEMMA StepPhase1 ==
  ASSUME TeamInv, Team!Phase1
  PROVE  TeamInv'
<1> USE DEF TeamInv
<1>0. UNCHANGED <<done, tool>>
  BY DEF Team!Phase1
<1>1. CASE Team!Live /\ op.receipt = "none" /\ op.status # "started" /\ Team!Consumable
  <2>1. Team!Start /\ phase' = "act" /\ (execute' = "in" \/ execute' = execute)
    BY <1>1 DEF Team!Phase1, Team!Reply
  <2>2. /\ op' \in OpRow /\ op'.status = "started" /\ op'.receipt = "none"
        /\ op'.approval \in {"none", "consumed"} \/ op'.approval = op.approval
    BY <1>1, <2>1 DEF Team!Start, OperationShapes, OpRow
  <2>3. op'.approval \in {"none", "consumed"}
    BY <1>1, <2>1 DEF Team!Start, OperationShapes, OpRow
  <2>4. op.status \in {"authorized", "proposed"} /\ ~ Declined
    BY <1>1 DEF Team!Consumable, UnstartedIsUntouched, Declined
  <2>5. done = 0
    BY <2>4 DEF UnstartedIsUntouched
  <2>6. OperationShapes'
    BY <1>0, <2>1, <2>2 DEF OperationShapes, Requests
  <2>7. UnstartedIsUntouched' /\ WorkIsKnown' /\ ReceiptIsKnown'
    BY <1>0, <2>1, <2>2, <2>3, <2>5
       DEF UnstartedIsUntouched, WorkIsKnown, ReceiptIsKnown, Team!Listed, Receipts
  <2>8. AnswersAreReceipts'
    BY <1>0, <1>1, <2>1, <2>2, <2>4 DEF AnswersAreReceipts, Receipts
  <2> QED
    BY <2>6, <2>7, <2>8
<1>2. CASE ~(Team!Live /\ op.receipt = "none" /\ op.status # "started" /\ Team!Consumable)
  <2>1. /\ UNCHANGED <<op, phase>>
        /\ execute' \in {"refused", "unknown", execute} \/ execute' = op.receipt
    BY <1>2 DEF Team!Phase1, Team!Reply
  <2>2. /\ execute' \in Requests
        /\ execute' \in Receipts => op.receipt = execute'
    <3>1. execute' = op.receipt => op.receipt # "none" \/ execute' = "none"
      BY <2>1
    <3> QED
      BY <2>1, <3>1 DEF Requests, Receipts, OperationShapes, OpRow, AnswersAreReceipts
  <2> QED
    BY <1>0, <2>1, <2>2, OnlyHeard DEF OperationShapes, AnswersAreReceipts
<1> QED
  BY <1>1, <1>2

(* Phase 2 performs the action, or finds that it may not.                   *)
LEMMA StepPhase2 ==
  ASSUME TeamInv, Team!Phase2
  PROVE  TeamInv'
<1> USE DEF TeamInv
<1>1. /\ UNCHANGED <<op, execute, tool>> /\ phase = "act" /\ done = 0 /\ op.receipt = "none"
      /\ op.status \notin {"authorized", "proposed"}
      /\ \/ done' = 1 /\ phase' = "succeeded"
         \/ done' = 0 /\ phase' = "failed"
  BY DEF Team!Phase2, WorkIsKnown, UnstartedIsUntouched
<1>2. op.status \in {"started", "outcome_unknown"}
  BY <1>1 DEF OperationShapes, OpRow, Receipts, ReceiptIsKnown
<1> QED
  BY <1>1, <1>2 DEF OperationShapes, Receipts, UnstartedIsUntouched, WorkIsKnown, ReceiptIsKnown,
     Team!Listed,
                    AnswersAreReceipts, Declined

(* Phase 3 records the receipt, also of an operation that is unknown.       *)
LEMMA StepPhase3 ==
  ASSUME TeamInv, Team!Phase3
  PROVE  TeamInv'
<1> USE DEF TeamInv
<1>1. /\ UNCHANGED <<done, tool>> /\ phase \in Receipts /\ op.receipt = "none"
      /\ op.status \notin {"authorized", "proposed"} /\ phase' = "none"
      /\ op' = [op EXCEPT !.receipt = phase, !.status = phase]
      /\ execute' \in {op'.receipt, execute}
  <2>1. phase \in Receipts /\ op.receipt = "none" /\ op.status \notin {"authorized", "proposed"}
    BY DEF Team!Phase3, WorkIsKnown, UnstartedIsUntouched, Receipts
  <2> QED
    BY <2>1 DEF Team!Phase3, Team!Record, Team!Answer
<1>2. /\ op' \in OpRow /\ op'.receipt = phase /\ op'.status = phase
      /\ op'.approval = op.approval
  BY <1>1 DEF OperationShapes, OpRow
<1>3. ~ Declined /\ execute \notin Receipts /\ op.approval \in {"none", "consumed"}
  BY <1>1 DEF Declined, UnstartedIsUntouched, AnswersAreReceipts, Receipts
<1>4. OperationShapes'
  BY <1>1, <1>2 DEF OperationShapes, Requests
<1>5. UnstartedIsUntouched' /\ WorkIsKnown'
  BY <1>1, <1>2, <1>3 DEF UnstartedIsUntouched, WorkIsKnown, Receipts
<1>6. ReceiptIsKnown'
  BY <1>1, <1>2 DEF ReceiptIsKnown, WorkIsKnown, Team!Listed, Receipts
<1>7. AnswersAreReceipts'
  BY <1>1, <1>2, <1>3 DEF AnswersAreReceipts, Receipts
<1> QED
  BY <1>4, <1>5, <1>6, <1>7

(* The work between the phases is lost.                                     *)
LEMMA WorkIsLost ==
  ASSUME TeamInv, UNCHANGED <<op, done, tool>>, phase' = "none",
         execute' \in {execute, "refused", "busy", "error"}
  PROVE  TeamInv'
  BY DEF TeamInv, OperationShapes, Requests, Receipts, UnstartedIsUntouched, WorkIsKnown,
     ReceiptIsKnown,
         Team!Listed, AnswersAreReceipts, Declined

LEMMA StepServerFails ==
  ASSUME TeamInv, Team!Phase2Raises \/ Team!Phase3Busy \/ Team!ServerDies
  PROVE  TeamInv'
<1>1. /\ UNCHANGED <<op, done, tool>> /\ phase' = "none"
      /\ execute' \in {execute, "refused", "busy", "error"}
  BY DEF Team!Phase2Raises, Team!Phase3Busy, Team!ServerDies, Team!Answer
<1> QED
  BY <1>1, WorkIsLost

LEMMA StepPhase1Busy ==
  ASSUME TeamInv, Team!Phase1Busy
  PROVE  TeamInv'
<1>1. UNCHANGED <<op, done, phase, tool>> /\ execute' \in {"busy", execute}
  BY DEF Team!Phase1Busy, Team!Reply
<1> QED
  BY <1>1, OnlyHeard DEF TeamInv, OperationShapes, AnswersAreReceipts, Requests, Receipts

(* The runner: it says what the answer says.                                *)
LEMMA StepRunner ==
  ASSUME TeamInv, Team!Runner
  PROVE  TeamInv'
<1> USE DEF TeamInv, OperationShapes
<1>1. CASE Team!SeeApproval \/ Team!SendExecute \/ Team!Retry
  <2>1. /\ UNCHANGED <<op, done, phase>> /\ tool' \in Tool /\ tool'.heard = tool.heard
        /\ execute' \in {execute, "out"}
    BY <1>1 DEF Team!SeeApproval, Team!SendExecute, Team!Retry, Tool
  <2> QED
    BY <2>1, OnlyHeard DEF AnswersAreReceipts, Requests, Receipts
<1>2. CASE Team!HearDecision
  <2>1. /\ UNCHANGED <<op, done, phase, execute>> /\ tool' \in Tool /\ tool'.heard = "failed"
        /\ Declined
    BY <1>2 DEF Team!HearDecision, Team!Tell, Tool, Heard, Receipts, Declined
  <2> QED
    BY <2>1, OnlyHeard DEF AnswersAreReceipts
<1>3. CASE Team!Hear
  <2>1. /\ UNCHANGED <<op, done, phase>> /\ tool' \in Tool /\ tool'.heard = execute
        /\ execute' = "none"
    BY <1>3 DEF Team!Hear, Team!Tell, Tool, Heard, Receipts
  <2> QED
    BY <2>1, OnlyHeard DEF AnswersAreReceipts, Requests, Receipts
<1>4. CASE Team!HearError
  <2>1. /\ UNCHANGED <<op, done, phase>> /\ tool' \in Tool /\ tool'.heard = "error"
        /\ execute' = "none"
    BY <1>4 DEF Team!HearError, Team!Tell, Tool, Heard
  <2> QED
    BY <2>1, OnlyHeard DEF Requests, Receipts
<1> QED
  BY <1>1, <1>2, <1>3, <1>4 DEF Team!Runner

LEMMA StepTimeout ==
  ASSUME TeamInv, Team!Timeout
  PROVE  TeamInv'
<1>1. /\ UNCHANGED <<op, done, phase>> /\ tool' \in Tool /\ tool'.heard = "error"
      /\ execute' = "none"
  BY DEF TeamInv, OperationShapes, Team!Timeout, Team!Tell, Tool, Heard
<1> QED
  BY <1>1, OnlyHeard DEF Requests, Receipts

LEMMA TeamStutters ==
  ASSUME TeamInv, UNCHANGED Team!vars
  PROVE  TeamInv'
  BY OnlyHeard DEF Team!vars, TeamInv, OperationShapes, AnswersAreReceipts

LEMMA TeamStep ==
  ASSUME TeamInv, [Team!Next]_Team!vars
  PROVE  TeamInv'
  BY StepDecide, StepRequestStop, StepAttemptStopped, StepPhase1, StepPhase2, StepPhase3,
     StepServerFails, StepPhase1Busy, StepRunner, StepTimeout, TeamStutters
     DEF Team!Next, Team!Server

(* The rest of the types: retries and faults are counted.                   *)
TeamCounts ==
  /\ teamAttempt \in {"live", "stopping", "stopped"}
  /\ tool.tries \in 0..MaxRetries /\ teamFaults \in 0..ToolFaults

LEMMA TeamCounted ==
  ASSUME Team!Bounds, TeamInv, TeamCounts, [Team!Next]_Team!vars
  PROVE  TeamCounts'
<1> USE DEF TeamCounts, Team!Fault
<1>0. tool \in Tool /\ MaxRetries \in Nat /\ ToolFaults \in Nat
  BY DEF TeamInv, OperationShapes, Team!Bounds
<1>1. CASE \E d \in {"approved", "rejected"} : Team!Decide(d)
  BY <1>1 DEF Team!Decide
<1>2. CASE Team!RequestStop
  BY <1>2, <1>0 DEF Team!RequestStop, Tool
<1>3. CASE Team!AttemptStopped
  BY <1>3, <1>0 DEF Team!AttemptStopped, Tool
<1>4. CASE Team!Server
  BY <1>4 DEF Team!Server, Team!Phase1, Team!Phase2, Team!Phase3
<1>5. CASE Team!Phase1Busy \/ Team!Phase2Raises \/ Team!Phase3Busy \/ Team!ServerDies
  BY <1>5, <1>0 DEF Team!Phase1Busy, Team!Phase2Raises, Team!Phase3Busy, Team!ServerDies
<1>6. CASE Team!Runner
  BY <1>6, <1>0 DEF Team!Runner, Team!SeeApproval, Team!HearDecision, Team!SendExecute,
     Team!Hear, Team!HearError, Team!Retry, Team!Tell, Tool
<1>7. CASE Team!Timeout
  BY <1>7, <1>0 DEF Team!Timeout, Team!Tell, Tool
<1>8. CASE UNCHANGED Team!vars
  BY <1>8 DEF Team!vars
<1> QED BY <1>1, <1>2, <1>3, <1>4, <1>5, <1>6, <1>7, <1>8 DEF Team!Next

LEMMA TeamTypes == TeamInv /\ TeamCounts => Team!TypeOK
  BY DEF TeamInv, OperationShapes, OpRow, Tool, Receipts, Requests, TeamCounts, Team!TypeOK

(***************************************************************************)
(* The connection.                                                         *)
(***************************************************************************)
State == {"none", "live", "rotated", "revoked"}
PairState == {"none", "pending", "approved", "exchanged", "expired", "rejected"}
FileState == {"none", "pairing_start_uncertain", "pending", "exchange_uncertain",
              "connected", "rotation_uncertain", "re_pair_required"}
File == [state : FileState, pairing : Pairing!Pairing \cup {Pairing!None},
runner : Pairing!Pairing \cup {Pairing!None},
         gen : Nat, orphan : Pairing!Pairing \cup {Pairing!None}]
Replies == PairState \cup {"waiting", "refused", "ok"}
Msg == [kind : {"none", "start", "status", "exchange", "refresh"},
        p : Pairing!Pairing \cup {Pairing!None}, g : Nat, reply : Replies]

(* The types that the proof needs.                                          *)
ConnectionShapes ==
  /\ pairings \in [Pairing!Pairing -> PairState]
  /\ credential \in [Pairing!Pairing -> [Pairing!Generation -> State]]
  /\ file \in File
  /\ ask \in Msg
  /\ lateAsks \subseteq Msg

Live(r, g) == credential[r][g] = "live"

(* A runner has a credential only once its pairing was exchanged, and one   *)
(* at a time that is live.                                                  *)
OneLive ==
  \A r \in Pairing!Pairing :
    /\ pairings[r] # "exchanged" => \A g \in Pairing!Generation : credential[r][g] = "none"
    /\ \A g, h \in Pairing!Generation : Live(r, g) /\ Live(r, h) => g = h

Good(r, g) == r \in Pairing!Pairing /\ g \in Pairing!Generation /\ pairings[r] = "exchanged"
                /\ (Live(r, g) \/ r \in revoked)

(* No renewal of the credential (r, g), or of a later one, is under way.    *)
NoneSince(r, g) == \A m \in lateAsks : m.kind = "refresh" /\ m.p = r => m.g < g

(* What the messages rest on: a pairing at hand, or a runner that exists.   *)
MessagesRest ==
  /\ \A m \in lateAsks \cup {ask} :
       /\ m.kind \in {"exchange", "status"} => m.p \in Pairing!Pairing
       /\ m.kind = "refresh" =>
            m.p \in Pairing!Pairing /\ m.g \in Pairing!Generation /\ pairings[m.p] = "exchanged"
  /\ \A m \in lateAsks : m.kind # "none"
  /\ ask.reply = "waiting" => ask.kind # "none"
  /\ ask.kind = "start" /\ ask.reply \notin {"waiting", "refused"} => ask.p \in Pairing!Pairing
  /\ ask.kind = "status" \/ file.state \in {"pending", "exchange_uncertain"} =>
       file.pairing \in Pairing!Pairing

(* A connected device holds a good credential that nothing on its way can   *)
(* use up; so does an answer that is about to make it connected.            *)
ConnectedIsSafe ==
  file.state = "connected" =>
    Good(file.runner, file.gen) /\ NoneSince(file.runner, file.gen)

ExchangeIsSafe ==
  ask.kind = "exchange" /\ ask.reply \notin {"waiting", "refused"} =>
    Good(ask.p, 1) /\ \A m \in lateAsks : m.kind = "refresh" => m.p # ask.p

RefreshIsSafe ==
  ask.kind = "refresh" =>
    /\ file.state # "connected"
    /\ NoneSince(ask.p, ask.g)
    /\ ask.reply \notin {"waiting", "refused"} => Good(ask.p, ask.g + 1)

PairingInv ==
  /\ ConnectionShapes /\ OneLive /\ MessagesRest
  /\ ConnectedIsSafe /\ ExchangeIsSafe /\ RefreshIsSafe

LEMMA NoneIsNoPairing ==
  ASSUME Pairing!Bounds
  PROVE  Pairing!None \notin Pairing!Pairing /\ 1 \in Pairing!Pairing /\ 1 \in Pairing!Generation /\ Pairing!Generation \subseteq Nat
  BY DEF Pairing!Bounds, Pairing!None, Pairing!Pairing, Pairing!Generation

(* A set of pairings that is not empty has a smallest one.                  *)
LEMMA SmallestPairing ==
  ASSUME NEW S \in SUBSET Nat, S # {}
  PROVE  \E p \in S : \A q \in S : p <= q
<1>1. PICK p \in S : \A q \in S : ~ (<<q, p>> \in OpToRel(<, Nat))
  BY NatLessThanWellFounded, WFMin
<1>2. \A q \in S : ~ (q < p)
  BY <1>1 DEF OpToRel
<1> QED
  BY <1>2

LEMMA StartIsFresh ==
  ASSUME Pairing!Bounds
  PROVE  Pairing!StartPairing = Pairing!None \/ (Pairing!StartPairing \in Pairing!Pairing /\ pairings[Pairing!StartPairing] = "none")
<1> DEFINE free == {p \in Pairing!Pairing : pairings[p] = "none"}
<1>1. CASE free = {}
  BY <1>1 DEF Pairing!StartPairing
<1>2. CASE free # {}
  <2>1. \E p \in free : \A q \in free : p <= q
    <3>1. free \in SUBSET Nat
      BY DEF Pairing!Pairing
    <3> HIDE DEF free
    <3> QED
      BY <1>2, <3>1, SmallestPairing
  <2>2. Pairing!StartPairing = CHOOSE p \in free : \A q \in free : p <= q
    BY <1>2 DEF Pairing!StartPairing
  <2>3. Pairing!StartPairing \in free
    BY <2>1, <2>2
  <2> QED
    BY <2>3
<1> QED
  BY <1>1, <1>2

(* What a request does at the server: it makes no second live credential,   *)
(* and takes only the one it renews.                                        *)
Served(m) ==
  /\ pairings' \in [Pairing!Pairing -> PairState]
  /\ credential' \in [Pairing!Pairing -> [Pairing!Generation -> State]]
  /\ OneLive'
  /\ \A r \in Pairing!Pairing : pairings[r] = "exchanged" => pairings'[r] = "exchanged"
  /\ \A r, g : Good(r, g) /\ ~(m.kind = "refresh" /\ m.p = r /\ m.g = g) => Good(r, g)'

LEMMA StartServed ==
  ASSUME Pairing!Bounds, ConnectionShapes, OneLive, UNCHANGED revoked, NEW m \in Msg,
  m.kind = "start", Pairing!Handle(m)
  PROVE  Served(m)
<1>1. UNCHANGED credential
  BY DEF Pairing!Handle
<1>2. CASE UNCHANGED pairings
  BY <1>1, <1>2 DEF Served, ConnectionShapes, OneLive, Live, Good
<1>3. CASE Pairing!StartPairing # Pairing!None
  <2>1. Pairing!StartPairing \in Pairing!Pairing /\ pairings[Pairing!StartPairing] = "none"
    BY <1>3, StartIsFresh
  <2>2. pairings' = [pairings EXCEPT ![Pairing!StartPairing] = "pending"]
    BY <1>3 DEF Pairing!Handle
  <2> DEFINE p == Pairing!StartPairing
  <2> HIDE DEF p
  <2>3. p \in Pairing!Pairing /\ pairings[p] = "none" /\ pairings' = [pairings EXCEPT ![p] = "pending"]
    BY <2>1, <2>2 DEF p
  <2>4. /\ pairings' \in [Pairing!Pairing -> PairState]
        /\ credential' \in [Pairing!Pairing -> [Pairing!Generation -> State]]
    BY <1>1, <2>3 DEF ConnectionShapes, PairState
  <2>5. \A r \in Pairing!Pairing : pairings[r] = "exchanged" <=> pairings'[r] = "exchanged"
    BY <2>3 DEF ConnectionShapes
  <2>6. OneLive'
    BY <1>1, <2>5 DEF OneLive, Live
  <2>7. \A r, g : Good(r, g) => Good(r, g)'
    BY <1>1, <2>5 DEF Good, Live
  <2> QED
    BY <2>4, <2>5, <2>6, <2>7 DEF Served
<1> QED
  BY <1>2, <1>3 DEF Pairing!Handle

LEMMA ExchangeServed ==
  ASSUME Pairing!Bounds, ConnectionShapes, OneLive, UNCHANGED revoked, NEW m \in Msg,
  m.kind = "exchange",
         m.p \in Pairing!Pairing, Pairing!Handle(m)
  PROVE  /\ Served(m)
         /\ Pairing!Exchangeable(m.p) => Good(m.p, 1)'
<1>0. Pairing!Exchange(m.p)
  BY DEF Pairing!Handle
<1>1. CASE Pairing!Exchangeable(m.p)
  <2> DEFINE p == m.p
  <2>1. /\ p \in Pairing!Pairing /\ pairings[p] = "approved" /\ 1 \in Pairing!Generation
        /\ pairings' = [pairings EXCEPT ![p] = "exchanged"]
        /\ credential' = [credential EXCEPT ![p][1] = "live"]
    BY <1>0, <1>1, NoneIsNoPairing DEF Pairing!Exchange, Pairing!Exchangeable
  <2> HIDE DEF p
  <2>2. /\ pairings' \in [Pairing!Pairing -> PairState]
        /\ credential' \in [Pairing!Pairing -> [Pairing!Generation -> State]]
    <3>1. [credential[p] EXCEPT ![1] = "live"] \in [Pairing!Generation -> State]
      BY <2>1 DEF ConnectionShapes, State
    <3>2. credential' = [credential EXCEPT ![p] = [credential[p] EXCEPT ![1] = "live"]]
      BY <2>1
    <3>3. credential' \in [Pairing!Pairing -> [Pairing!Generation -> State]]
      BY <2>1, <3>1, <3>2 DEF ConnectionShapes
    <3>4. pairings' \in [Pairing!Pairing -> PairState]
      BY <2>1 DEF ConnectionShapes, PairState
    <3> QED
      BY <3>3, <3>4
  <2>3. \A g \in Pairing!Generation : credential[p][g] = "none"
    BY <2>1 DEF OneLive
  <2>4. /\ \A r \in Pairing!Pairing : r # p => credential'[r] = credential[r] /\ pairings'[r] = pairings[r]
        /\ \A g \in Pairing!Generation : Live(p, g)' <=> g = 1
        /\ pairings'[p] = "exchanged"
    BY <2>1, <2>3 DEF ConnectionShapes, Live
  <2>5. OneLive'
    BY <2>4 DEF OneLive, Live
  <2>6. \A r, g : Good(r, g) => Good(r, g)'
    BY <2>1, <2>4 DEF Good, Live
  <2>7. Good(p, 1)'
    BY <2>1, <2>4 DEF Good
  <2> QED
    BY <2>1, <2>2, <2>4, <2>5, <2>6, <2>7 DEF Served, p
<1>2. CASE ~Pairing!Exchangeable(m.p)
  <2>1. UNCHANGED <<pairings, credential>>
    BY <1>0, <1>2 DEF Pairing!Exchange
  <2> QED
    BY <1>2, <2>1 DEF Served, ConnectionShapes, OneLive, Live, Good
<1> QED
  BY <1>1, <1>2

LEMMA RefreshServed ==
  ASSUME Pairing!Bounds, ConnectionShapes, OneLive, UNCHANGED revoked, NEW m \in Msg,
  m.kind = "refresh",
         m.p \in Pairing!Pairing, m.g \in Pairing!Generation, pairings[m.p] = "exchanged",
         Pairing!Handle(m)
  PROVE  /\ Served(m)
         /\ Pairing!Rotatable(m.p, m.g) => Good(m.p, m.g + 1)'
<1>0. Pairing!Rotate(m.p, m.g) /\ UNCHANGED pairings
  BY DEF Pairing!Handle
<1>1. CASE Pairing!Rotatable(m.p, m.g)
  <2> DEFINE p == m.p
             k == m.g
  <2>1. /\ p \in Pairing!Pairing /\ k \in Pairing!Generation /\ k + 1 \in Pairing!Generation /\ k \in Nat
        /\ Live(p, k) /\ p \notin revoked /\ pairings[p] = "exchanged"
        /\ credential' = [credential EXCEPT ![p][k] = "rotated", ![p][k + 1] = "live"]
    BY <1>0, <1>1 DEF Pairing!Rotate, Pairing!Rotatable, Pairing!LiveAt, Live, Pairing!Generation,
       Pairing!Bounds
  <2> HIDE DEF p, k
  <2>2. credential' \in [Pairing!Pairing -> [Pairing!Generation -> State]]
    BY <2>1 DEF ConnectionShapes, State
  <2>3. \A g \in Pairing!Generation : Live(p, g) => g = k
    BY <2>1 DEF OneLive
  <2>4. /\ \A r \in Pairing!Pairing : r # p => credential'[r] = credential[r]
        /\ \A g \in Pairing!Generation : Live(p, g)' <=> g = k + 1
    BY <2>1, <2>3 DEF ConnectionShapes, Live
  <2>5. OneLive'
    <3> SUFFICES ASSUME NEW r \in Pairing!Pairing
                 PROVE  /\ pairings[r] # "exchanged" => \A g \in Pairing!Generation : credential'[r][g] = "none"
                        /\ \A g, h \in Pairing!Generation : Live(r, g)' /\ Live(r, h)' => g = h
      BY <1>0 DEF OneLive
    <3>1. CASE r = p
      BY <2>1, <2>4, <3>1
    <3>2. CASE r # p
      BY <2>4, <3>2 DEF OneLive, Live
    <3> QED
      BY <3>1, <3>2
  <2>6. \A r, g : Good(r, g) /\ ~(p = r /\ k = g) => Good(r, g)'
    BY ZenonT(60), <1>0, <2>1, <2>3, <2>4 DEF Good, Live
  <2>7. Good(p, k + 1)'
    BY <1>0, <2>1, <2>4 DEF Good
  <2> QED
    BY <1>0, <2>2, <2>5, <2>6, <2>7 DEF Served, p, k, ConnectionShapes
<1>2. CASE ~Pairing!Rotatable(m.p, m.g)
  <2>1. UNCHANGED <<pairings, credential>>
    BY <1>0, <1>2 DEF Pairing!Rotate
  <2> QED
    BY <1>2, <2>1 DEF Served, ConnectionShapes, OneLive, Live, Good
<1> QED
  BY <1>1, <1>2

LEMMA AnyServed ==
  ASSUME Pairing!Bounds, ConnectionShapes, OneLive, UNCHANGED revoked, NEW m \in Msg,
  m.kind # "none",
         m.kind = "exchange" => m.p \in Pairing!Pairing,
         m.kind = "refresh" =>
            m.p \in Pairing!Pairing /\ m.g \in Pairing!Generation /\ pairings[m.p] = "exchanged",
         Pairing!Handle(m)
  PROVE  Served(m)
<1>1. CASE m.kind = "start"
  BY <1>1, StartServed
<1>2. CASE m.kind = "status"
  BY <1>2 DEF Pairing!Handle, Served, ConnectionShapes, OneLive, Live, Good
<1>3. CASE m.kind = "exchange"
  BY <1>3, ExchangeServed
<1>4. CASE m.kind = "refresh"
  BY <1>4, RefreshServed
<1> QED
  BY <1>1, <1>2, <1>3, <1>4 DEF Msg

LEMMA InitPairing ==
  ASSUME Pairing!Bounds, Pairing!Init
  PROVE  PairingInv
<1>1. Pairing!NoCall \in Msg
  BY DEF Pairing!NoCall, Msg, Replies, PairState, Pairing!None
<1>2. ConnectionShapes
  BY <1>1 DEF Pairing!Init, ConnectionShapes, File, State, PairState, FileState, Pairing!None
<1> QED
  BY <1>2 DEF Pairing!Init, PairingInv, OneLive, Live, MessagesRest, ConnectedIsSafe,
     ExchangeIsSafe,
              RefreshIsSafe, Pairing!NoCall

(* A step that leaves the server's records alone.                           *)
LEMMA ServerRests ==
  ASSUME UNCHANGED Pairing!serverVars, OneLive
  PROVE  OneLive' /\ \A r, g : Good(r, g)' <=> Good(r, g)
  BY DEF Pairing!serverVars, OneLive, Good, Live

(* The server answers the request the device waits for.                     *)
LEMMA StepReceive ==
  ASSUME Pairing!Bounds, PairingInv, Pairing!Receive
  PROVE  PairingInv'
<1> USE DEF PairingInv
<1>0. PICK m \in Msg : m = ask
  BY DEF ConnectionShapes
<1>1. /\ ask.reply = "waiting" /\ m.kind # "none"
      /\ UNCHANGED <<revoked, file, archive, lateAsks>> /\ Pairing!Handle(m)
      /\ m.kind \in {"exchange", "status"} => m.p \in Pairing!Pairing
      /\ m.kind = "refresh" =>
           m.p \in Pairing!Pairing /\ m.g \in Pairing!Generation /\ pairings[m.p] = "exchanged"
  BY <1>0 DEF Pairing!Receive, MessagesRest
<1>2. Served(m)
  BY <1>1, AnyServed
<1> DEFINE new == ask'
<1>3. /\ new.kind = m.kind /\ new.g = m.g /\ new.reply = Pairing!Reply(m)
      /\ new.p = IF m.kind = "start" THEN Pairing!StartPairing ELSE m.p
  BY <1>0 DEF Pairing!Receive, Msg
<1>4. Pairing!Reply(m) \in Replies \ {"waiting"}
  <2>1. m.kind = "status" => pairings[m.p] \in PairState
    BY <1>1 DEF ConnectionShapes
  <2> QED
    BY <1>1, <2>1 DEF Pairing!Reply, Replies, PairState, Msg
<1>5. new \in Msg
  <2>1. new.p \in Pairing!Pairing \cup {Pairing!None}
    BY <1>3, StartIsFresh DEF Msg
  <2> QED
    BY <1>0, <1>4, <2>1 DEF Pairing!Receive, Msg
<1>6. ConnectionShapes'
  BY <1>1, <1>2, <1>5 DEF Served, ConnectionShapes
<1>7. MessagesRest'
  <2>1. m.kind = "start" /\ Pairing!Reply(m) # "refused" => Pairing!StartPairing \in Pairing!Pairing
    BY StartIsFresh DEF Pairing!Reply
  <2> QED
    BY <1>0, <1>1, <1>2, <1>3, <1>4, <2>1 DEF MessagesRest, Served
<1>8. ConnectedIsSafe'
  BY <1>0, <1>1, <1>2 DEF ConnectedIsSafe, RefreshIsSafe, Served, NoneSince
<1>9. ExchangeIsSafe'
  <2> SUFFICES ASSUME m.kind = "exchange", Pairing!Reply(m) # "refused"
               PROVE  Good(m.p, 1)' /\ \A k \in lateAsks : k.kind = "refresh" => k.p # m.p
    BY <1>1, <1>3 DEF ExchangeIsSafe, Good, Live
  <2>1. Pairing!Exchangeable(m.p)
    BY DEF Pairing!Reply
  <2>2. Good(m.p, 1)'
    BY <1>1, <2>1, ExchangeServed
  <2>3. pairings[m.p] # "exchanged"
    BY <2>1 DEF Pairing!Exchangeable
  <2> QED
    BY <2>2, <2>3 DEF MessagesRest
<1>10. RefreshIsSafe'
  <2> SUFFICES ASSUME m.kind = "refresh"
               PROVE  /\ file.state # "connected" /\ NoneSince(m.p, m.g)
                      /\ Pairing!Reply(m) # "refused" => Good(m.p, m.g + 1)'
    BY <1>1, <1>3 DEF RefreshIsSafe, NoneSince, Good, Live
  <2>1. Pairing!Reply(m) # "refused" => Pairing!Rotatable(m.p, m.g)
    BY DEF Pairing!Reply
  <2> QED
    BY <1>0, <1>1, <2>1, RefreshServed DEF RefreshIsSafe
<1> QED
  BY <1>2, <1>6, <1>7, <1>8, <1>9, <1>10 DEF Served

(* A request that comes late uses up no credential that anyone relies on.   *)
LEMMA StepLateArrival ==
  ASSUME Pairing!Bounds, PairingInv, NEW m \in lateAsks, Pairing!LateArrival(m)
  PROVE  PairingInv'
<1> USE DEF PairingInv
<1>1. /\ m \in Msg /\ m.kind # "none" /\ Pairing!Handle(m)
      /\ lateAsks' = lateAsks \ {m} /\ UNCHANGED <<revoked, file, archive, ask>>
      /\ m.kind \in {"exchange", "status"} => m.p \in Pairing!Pairing
      /\ m.kind = "refresh" =>
           m.p \in Pairing!Pairing /\ m.g \in Pairing!Generation /\ pairings[m.p] = "exchanged"
  BY DEF Pairing!LateArrival, MessagesRest, ConnectionShapes
<1>2. Served(m)
  BY <1>1, AnyServed
<1>3. ConnectionShapes'
  BY <1>1, <1>2 DEF Served, ConnectionShapes
<1>4. MessagesRest'
  BY <1>1, <1>2 DEF MessagesRest, Served
<1>5. ConnectedIsSafe'
  <2> SUFFICES ASSUME file.state = "connected"
               PROVE  Good(file.runner, file.gen)' /\ NoneSince(file.runner, file.gen)'
    BY <1>1 DEF ConnectedIsSafe
  <2>1. PICK r, g : r = file.runner /\ g = file.gen
    OBVIOUS
  <2>2. Good(r, g) /\ NoneSince(r, g) /\ g \in Nat
    BY <2>1 DEF ConnectedIsSafe, ConnectionShapes, File
  <2>3. ~(m.kind = "refresh" /\ m.p = r /\ m.g = g)
    BY <2>2 DEF NoneSince
  <2>4. Good(r, g)' /\ NoneSince(r, g)'
    BY <1>1, <1>2, <2>2, <2>3 DEF Served, NoneSince
  <2>5. r = file'.runner /\ g = file'.gen
    BY <1>1, <2>1
  <2> QED
    BY <2>4, <2>5
<1>6. ExchangeIsSafe'
  <2> SUFFICES ASSUME ask.kind = "exchange" /\ ask.reply \notin {"waiting", "refused"}
               PROVE  Good(ask.p, 1)' /\ \A k \in lateAsks' : k.kind = "refresh" => k.p # ask.p
    BY <1>1 DEF ExchangeIsSafe
  <2>1. PICK r : r = ask.p
    OBVIOUS
  <2>2. Good(r, 1) /\ \A k \in lateAsks : k.kind = "refresh" => k.p # r
    BY <2>1 DEF ExchangeIsSafe
  <2>3. Good(r, 1)'
    BY <1>2, <2>2 DEF Served
  <2>4. r = ask'.p
    BY <1>1, <2>1
  <2> QED
    BY <1>1, <2>1, <2>2, <2>3, <2>4
<1>7. RefreshIsSafe'
  <2> SUFFICES ASSUME ask.kind = "refresh"
               PROVE  /\ file.state # "connected" /\ NoneSince(ask.p, ask.g)'
                      /\ ask.reply \notin {"waiting", "refused"} => Good(ask.p, ask.g + 1)'
    BY <1>1 DEF RefreshIsSafe
  <2>1. PICK r, g : r = ask.p /\ g = ask.g
    OBVIOUS
  <2>2. /\ file.state # "connected" /\ NoneSince(r, g) /\ g \in Nat
        /\ ask.reply \notin {"waiting", "refused"} => Good(r, g + 1)
    BY <2>1 DEF RefreshIsSafe, ConnectionShapes, Msg
  <2>3. NoneSince(r, g)'
    BY <1>1, <2>2 DEF NoneSince
  <2>4. ~(m.kind = "refresh" /\ m.p = r /\ m.g = g + 1)
    BY <2>2 DEF NoneSince
  <2>5. ask.reply \notin {"waiting", "refused"} => Good(r, g + 1)'
    BY <1>2, <2>2, <2>4 DEF Served
  <2>6. r = ask'.p /\ g = ask'.g
    BY <1>1, <2>1
  <2> QED
    BY <1>1, <2>2, <2>3, <2>5, <2>6
<1> QED
  BY <1>2, <1>3, <1>4, <1>5, <1>6, <1>7 DEF Served

(* The owner decides on a pairing, or revokes a runner.                     *)
LEMMA StepApprove ==
  ASSUME PairingInv, NEW p \in Pairing!Pairing, Pairing!Approve(p)
  PROVE  PairingInv'
<1> USE DEF PairingInv
<1>1. PICK s \in {"approved", "expired", "rejected"} :
        /\ pairings[p] = "pending" /\ pairings' = [pairings EXCEPT ![p] = s]
        /\ UNCHANGED <<credential, revoked, file, ask, lateAsks>>
  BY DEF Pairing!Approve
<1>2. \A r \in Pairing!Pairing : pairings'[r] = "exchanged" <=> pairings[r] = "exchanged"
  BY <1>1 DEF ConnectionShapes
<1>3. ConnectionShapes'
  BY <1>1 DEF ConnectionShapes, PairState
<1>4. OneLive' /\ \A r, g : Good(r, g)' <=> Good(r, g)
  BY <1>1, <1>2 DEF OneLive, Live, Good
<1>5. MessagesRest'
  BY <1>1, <1>2 DEF MessagesRest
<1>6. ConnectedIsSafe' /\ ExchangeIsSafe' /\ RefreshIsSafe'
  BY <1>1, <1>2 DEF ConnectedIsSafe, ExchangeIsSafe, RefreshIsSafe, NoneSince, Good, Live
<1> QED
  BY <1>3, <1>4, <1>5, <1>6

LEMMA StepRevoke ==
  ASSUME PairingInv, NEW r \in Pairing!Pairing, Pairing!Revoke(r)
  PROVE  PairingInv'
<1> USE DEF PairingInv
<1>1. /\ revoked' = revoked \cup {r}
      /\ credential' = [credential EXCEPT ![r] =
           [g \in Pairing!Generation |-> IF credential[r][g] = "live" THEN "revoked"
                                 ELSE credential[r][g]]]
      /\ UNCHANGED <<pairings, file, ask, lateAsks>>
  BY DEF Pairing!Revoke
<1>2. ConnectionShapes'
  BY <1>1 DEF ConnectionShapes, State
<1>3. /\ \A p \in Pairing!Pairing \ {r} : credential'[p] = credential[p]
      /\ \A g \in Pairing!Generation : credential'[r][g] # "live"
      /\ \A g \in Pairing!Generation : credential[r][g] = "none" => credential'[r][g] = "none"
  BY <1>1 DEF ConnectionShapes
<1>4. OneLive'
  BY <1>1, <1>3 DEF OneLive, Live
<1>5. \A p, g : Good(p, g) => Good(p, g)'
  BY <1>1, <1>3 DEF Good, Live
<1>6. MessagesRest'
  BY <1>1 DEF MessagesRest
<1>7. ConnectedIsSafe'
  BY <1>1, <1>3 DEF ConnectedIsSafe, NoneSince, Good, Live
<1>8. ExchangeIsSafe'
  BY <1>1, <1>3 DEF ExchangeIsSafe, Good, Live
<1>9. RefreshIsSafe'
  BY <1>1, <1>3 DEF RefreshIsSafe, NoneSince, Good, Live
<1> QED
  BY <1>2, <1>4, <1>6, <1>7, <1>8, <1>9

(* A step of the device: the server's records rest, and so do the           *)
(* requests that may still arrive.                                          *)
LEMMA DeviceRests ==
  ASSUME PairingInv, UNCHANGED <<Pairing!serverVars, lateAsks>>,
         file' \in File,
         ask' \in Msg
  PROVE  ConnectionShapes' /\ OneLive'
  BY DEF PairingInv, Pairing!serverVars, ConnectionShapes, OneLive, Live

LEMMA NoCallIsMsg ==
  Pairing!NoCall \in Msg
  BY DEF Pairing!NoCall, Msg, Replies, PairState, Pairing!None

LEMMA StepConnect ==
  ASSUME Pairing!Bounds, PairingInv, Pairing!Connect
  PROVE  PairingInv'
<1> USE DEF PairingInv
<1>1. /\ UNCHANGED <<Pairing!serverVars, lateAsks>> /\ file'.state = "pairing_start_uncertain"
      /\ ask'.kind = "start" /\ ask'.reply = "waiting"
  BY DEF Pairing!Connect, Pairing!Send
<1>2. file' \in File
  BY DEF Pairing!Connect, ConnectionShapes, File, FileState
<1>3. ask' \in Msg
  BY DEF Pairing!Connect, Pairing!Send, Msg, Replies
<1>4. ConnectionShapes' /\ OneLive'
  BY <1>1, <1>2, <1>3, DeviceRests
<1>5. MessagesRest'
  BY <1>1 DEF MessagesRest, Pairing!serverVars
<1>6. ConnectedIsSafe' /\ ExchangeIsSafe' /\ RefreshIsSafe'
  BY <1>1 DEF ConnectedIsSafe, ExchangeIsSafe, RefreshIsSafe
<1> QED
  BY <1>4, <1>5, <1>6

LEMMA StepStarted ==
  ASSUME Pairing!Bounds, PairingInv, Pairing!Started
  PROVE  PairingInv'
<1> USE DEF PairingInv
<1>1. /\ UNCHANGED <<Pairing!serverVars, lateAsks>> /\ ask' = Pairing!NoCall /\ ask.p \in Pairing!Pairing
      /\ file'.state = "pending" /\ file'.pairing = ask.p
  BY DEF Pairing!Started, Pairing!Waits, MessagesRest, ConnectionShapes
<1>2. file' \in File
  BY <1>1 DEF Pairing!Started, ConnectionShapes, File, FileState
<1>3. ConnectionShapes' /\ OneLive'
  BY <1>1, <1>2, NoCallIsMsg, DeviceRests
<1>4. MessagesRest'
  BY <1>1 DEF MessagesRest, Pairing!serverVars, Pairing!NoCall
<1>5. ConnectedIsSafe' /\ ExchangeIsSafe' /\ RefreshIsSafe'
  BY <1>1 DEF ConnectedIsSafe, ExchangeIsSafe, RefreshIsSafe, Pairing!NoCall
<1> QED
  BY <1>3, <1>4, <1>5

LEMMA StepPoll ==
  ASSUME Pairing!Bounds, PairingInv, Pairing!Poll
  PROVE  PairingInv'
<1> USE DEF PairingInv
<1>1. /\ UNCHANGED <<Pairing!serverVars, lateAsks, file>> /\ ask'.kind = "status"
      /\ ask'.reply = "waiting" /\ ask'.p = file.pairing /\ file.pairing \in Pairing!Pairing
      /\ file.state # "connected" /\ ask'.g = 0
  BY DEF Pairing!Poll, Pairing!Send, MessagesRest
<1>2. ask' \in Msg
  BY <1>1 DEF Pairing!Poll, Pairing!Send, Msg, Replies
<1>3. ConnectionShapes' /\ OneLive'
  BY <1>1, <1>2, DeviceRests DEF ConnectionShapes
<1>4. MessagesRest'
  BY <1>1 DEF MessagesRest, Pairing!serverVars
<1>5. ConnectedIsSafe' /\ ExchangeIsSafe' /\ RefreshIsSafe'
  BY <1>1 DEF ConnectedIsSafe, ExchangeIsSafe, RefreshIsSafe
<1> QED
  BY <1>3, <1>4, <1>5

LEMMA StepPolled ==
  ASSUME Pairing!Bounds, PairingInv, Pairing!Polled
  PROVE  PairingInv'
<1> USE DEF PairingInv
<1>1. /\ UNCHANGED <<Pairing!serverVars, lateAsks>> /\ file.pairing \in Pairing!Pairing /\ file \in File
      /\ ask.kind = "status"
      /\ \/ file' = [file EXCEPT !.state = "re_pair_required", !.orphan = file.pairing]
              /\ ask' = Pairing!NoCall
         \/ file' = [file EXCEPT !.state = "re_pair_required"] /\ ask' = Pairing!NoCall
         \/ file' = [file EXCEPT !.state = "exchange_uncertain"]
              /\ Pairing!Send("exchange", file.pairing, 0)
         \/ file' = file /\ ask' = Pairing!NoCall
  BY DEF Pairing!Polled, Pairing!Waits, MessagesRest, ConnectionShapes
<1>2. \/ ask' = Pairing!NoCall
      \/ /\ ask'.kind = "exchange" /\ ask'.reply = "waiting" /\ ask'.p = file.pairing
         /\ ask' \in Msg /\ file'.state = "exchange_uncertain"
  BY <1>1 DEF Pairing!Send, Msg, Replies, File
<1>3. file' \in File /\ file'.pairing = file.pairing
  BY <1>1 DEF File, FileState
<1>4. file'.state \in {"re_pair_required", "exchange_uncertain"} \/ file' = file
  BY <1>1 DEF File
<1>5. ConnectionShapes' /\ OneLive'
  BY <1>1, <1>2, <1>3, NoCallIsMsg, DeviceRests
<1>6. MessagesRest'
  BY <1>1, <1>2, <1>3, <1>4 DEF MessagesRest, Pairing!serverVars, Pairing!NoCall
<1>7. ConnectedIsSafe'
  BY <1>1, <1>4 DEF ConnectedIsSafe, NoneSince, Pairing!serverVars, Good, Live
<1>8. ExchangeIsSafe' /\ RefreshIsSafe'
  BY <1>2 DEF ExchangeIsSafe, RefreshIsSafe, Pairing!NoCall
<1> QED
  BY <1>5, <1>6, <1>7, <1>8

(* The two answers that make a device connected.                            *)
LEMMA AcceptIsSafe ==
  ASSUME Pairing!Bounds, PairingInv, UNCHANGED <<Pairing!serverVars, lateAsks>>,
         NEW r \in Pairing!Pairing, NEW g \in Pairing!Generation, Pairing!Accept(r, g), Good(r, g),
         NoneSince(r, g)
  PROVE  PairingInv'
<1> USE DEF PairingInv
<1>1. /\ file'.state = "connected" /\ file'.runner = r /\ file'.gen = g /\ ask' = Pairing!NoCall
  BY DEF Pairing!Accept
<1>2. file' \in File
  BY NoneIsNoPairing DEF Pairing!Accept, ConnectionShapes, File, FileState
<1>3. ConnectionShapes' /\ OneLive'
  BY <1>1, <1>2, NoCallIsMsg, DeviceRests
<1>4. MessagesRest'
  BY <1>1 DEF MessagesRest, Pairing!serverVars, Pairing!NoCall
<1>5. Good(r, g)' /\ NoneSince(r, g)'
  BY ServerRests DEF NoneSince
<1>6. ConnectedIsSafe'
  BY <1>1, <1>5 DEF ConnectedIsSafe
<1>7. ExchangeIsSafe' /\ RefreshIsSafe'
  BY <1>1 DEF ExchangeIsSafe, RefreshIsSafe, Pairing!NoCall
<1> QED
  BY <1>3, <1>4, <1>6, <1>7

LEMMA StepExchanged ==
  ASSUME Pairing!Bounds, PairingInv, Pairing!Exchanged
  PROVE  PairingInv'
<1>1. /\ UNCHANGED <<Pairing!serverVars, lateAsks>> /\ Pairing!Accept(ask.p, 1)
      /\ Good(ask.p, 1) /\ \A m \in lateAsks : m.kind = "refresh" => m.p # ask.p
  BY DEF PairingInv, Pairing!Exchanged, Pairing!Waits, ExchangeIsSafe
<1>2. PICK r : r = ask.p
  OBVIOUS
<1>3. r \in Pairing!Pairing /\ 1 \in Pairing!Generation /\ Good(r, 1) /\ NoneSince(r, 1) /\ Pairing!Accept(r, 1)
  BY <1>1, <1>2 DEF Good, NoneSince
<1> QED
  BY <1>1, <1>3, AcceptIsSafe

LEMMA StepRefreshed ==
  ASSUME Pairing!Bounds, PairingInv, Pairing!Refreshed
  PROVE  PairingInv'
<1>1. /\ UNCHANGED <<Pairing!serverVars, lateAsks>> /\ Pairing!Accept(ask.p, ask.g + 1)
      /\ Good(ask.p, ask.g + 1) /\ NoneSince(ask.p, ask.g) /\ ask.g \in Nat
  BY DEF PairingInv, Pairing!Refreshed, Pairing!Waits, RefreshIsSafe, ConnectionShapes, Msg
<1>2. PICK r, g : r = ask.p /\ g = ask.g + 1
  OBVIOUS
<1>3. r \in Pairing!Pairing /\ g \in Pairing!Generation /\ Good(r, g) /\ Pairing!Accept(r, g)
  BY <1>1, <1>2 DEF Good
<1>4. NoneSince(r, g)
  BY <1>1, <1>2 DEF NoneSince, PairingInv, ConnectionShapes, Msg
<1> QED
  BY <1>1, <1>3, <1>4, AcceptIsSafe

LEMMA StepRefresh ==
  ASSUME Pairing!Bounds, PairingInv, Pairing!Refresh
  PROVE  PairingInv'
<1> USE DEF PairingInv
<1>1. /\ UNCHANGED <<Pairing!serverVars, lateAsks>> /\ file.state = "connected"
      /\ file'.state = "rotation_uncertain" /\ ask'.kind = "refresh"
      /\ ask'.reply = "waiting" /\ ask'.p = file.runner /\ ask'.g = file.gen
  BY DEF Pairing!Refresh, Pairing!Send, ConnectionShapes
<1>2. Good(file.runner, file.gen) /\ NoneSince(file.runner, file.gen)
  BY <1>1 DEF ConnectedIsSafe
<1>3. ask' \in Msg
  BY <1>2 DEF Pairing!Refresh, Pairing!Send, Msg, Replies, Good, ConnectionShapes, File
<1>4. file' \in File
  BY DEF Pairing!Refresh, ConnectionShapes, File, FileState
<1>5. ConnectionShapes' /\ OneLive'
  BY <1>1, <1>3, <1>4, DeviceRests
<1>6. MessagesRest'
  BY <1>1, <1>2 DEF MessagesRest, Pairing!serverVars, Good
<1>7. ConnectedIsSafe' /\ ExchangeIsSafe'
  BY <1>1 DEF ConnectedIsSafe, ExchangeIsSafe
<1>8. RefreshIsSafe'
  BY <1>1, <1>2 DEF RefreshIsSafe, NoneSince
<1> QED
  BY <1>5, <1>6, <1>7, <1>8

LEMMA StepRefreshExpired ==
  ASSUME Pairing!Bounds, PairingInv, Pairing!RefreshExpired
  PROVE  PairingInv'
<1> USE DEF PairingInv
<1>1. /\ UNCHANGED <<Pairing!serverVars, lateAsks, ask>> /\ file'.state = "re_pair_required"
      /\ ask.kind = "none" /\ file'.pairing = file.pairing
  BY DEF Pairing!RefreshExpired, Pairing!Free, ConnectionShapes
<1>2. file' \in File
  BY DEF Pairing!RefreshExpired, ConnectionShapes, File, FileState
<1>3. ConnectionShapes' /\ OneLive'
  BY <1>1, <1>2, DeviceRests DEF ConnectionShapes
<1>4. MessagesRest'
  BY <1>1 DEF MessagesRest, Pairing!serverVars
<1>5. ConnectedIsSafe' /\ ExchangeIsSafe' /\ RefreshIsSafe'
  BY <1>1 DEF ConnectedIsSafe, ExchangeIsSafe, RefreshIsSafe
<1> QED
  BY <1>3, <1>4, <1>5

LEMMA StepRefused ==
  ASSUME Pairing!Bounds, PairingInv, Pairing!Refused
  PROVE  PairingInv'
<1> USE DEF PairingInv
<1>1. UNCHANGED <<Pairing!serverVars, lateAsks, file>> /\ ask' = Pairing!NoCall
  BY DEF Pairing!Refused
<1>2. ConnectionShapes' /\ OneLive'
  BY <1>1, NoCallIsMsg, DeviceRests DEF ConnectionShapes
<1>3. MessagesRest'
  BY <1>1 DEF MessagesRest, Pairing!serverVars, Pairing!NoCall
<1>4. ConnectedIsSafe' /\ ExchangeIsSafe' /\ RefreshIsSafe'
  BY <1>1 DEF ConnectedIsSafe, ExchangeIsSafe, RefreshIsSafe, Pairing!NoCall, Pairing!serverVars,
     NoneSince,
              Good, Live
<1> QED
  BY <1>2, <1>3, <1>4

(* A request that is lost on its way may arrive; the file has been changed  *)
(* before, so the device does not take itself for connected.                *)
LEMMA StepLost ==
  ASSUME Pairing!Bounds, PairingInv, Pairing!Lost
  PROVE  PairingInv'
<1> USE DEF PairingInv
<1>1. /\ UNCHANGED <<Pairing!serverVars, file>> /\ ask' = Pairing!NoCall /\ ask.kind # "none"
      /\ lateAsks' = lateAsks \/ lateAsks' = lateAsks \cup {Pairing!Message(ask)}
  BY DEF Pairing!Lost, Pairing!Free
<1>2. /\ Pairing!Message(ask) \in Msg
      /\ Pairing!Message(ask).kind = ask.kind /\ Pairing!Message(ask).p = ask.p
      /\ Pairing!Message(ask).g = ask.g
  BY DEF Pairing!Message, ConnectionShapes, Msg, Replies, PairState
<1>3. ConnectionShapes' /\ OneLive'
  BY <1>1, <1>2, NoCallIsMsg DEF ConnectionShapes, OneLive, Live, Pairing!serverVars
<1>4. MessagesRest'
  BY <1>1, <1>2 DEF MessagesRest, Pairing!serverVars, Pairing!NoCall
<1>5. ConnectedIsSafe'
  <2> SUFFICES ASSUME file.state = "connected"
               PROVE  Good(file.runner, file.gen)' /\ NoneSince(file.runner, file.gen)'
    BY <1>1 DEF ConnectedIsSafe
  <2>1. ask.kind # "refresh" /\ Good(file.runner, file.gen) /\ NoneSince(file.runner, file.gen)
    BY DEF RefreshIsSafe, ConnectedIsSafe
  <2> QED
    BY <1>1, <1>2, <2>1 DEF NoneSince, Good, Live, Pairing!serverVars
<1>6. ExchangeIsSafe' /\ RefreshIsSafe'
  BY <1>1 DEF ExchangeIsSafe, RefreshIsSafe, Pairing!NoCall
<1> QED
  BY <1>3, <1>4, <1>5, <1>6

LEMMA StepStutters ==
  ASSUME PairingInv, UNCHANGED Pairing!vars
  PROVE  PairingInv'
  BY DEF Pairing!vars, PairingInv, ConnectionShapes, OneLive, MessagesRest, ConnectedIsSafe,
     ExchangeIsSafe,
         RefreshIsSafe, NoneSince, Good, Live

LEMMA PairingStep ==
  ASSUME Pairing!Bounds, PairingInv, [Pairing!Next]_Pairing!vars
  PROVE  PairingInv'
  BY StepReceive, StepLateArrival, StepApprove, StepRevoke, StepConnect, StepStarted, StepPoll,
     StepPolled, StepExchanged, StepRefresh, StepRefreshed, StepRefreshExpired, StepRefused,
     StepLost, StepStutters
     DEF Pairing!Next, Pairing!Device

LEMMA SafeIsGood ==
  ASSUME PairingInv
  PROVE  Pairing!CredentialIsTheGoodOne
  BY DEF PairingInv, OneLive, ConnectedIsSafe, Good, Live, Pairing!CredentialIsTheGoodOne,
     Pairing!OneCredential,
         Pairing!ConnectedIsGood, Pairing!LiveAt

(* What the connection file and the history name exists or existed.         *)
ConnectionNames ==
  /\ revoked \subseteq Pairing!Pairing
  /\ archive \subseteq Pairing!Pairing \cup {Pairing!None}
  /\ file.gen \in Pairing!Generation \cup {0}

LEMMA NamesKept ==
  ASSUME Pairing!Bounds, PairingInv, ConnectionNames, [Pairing!Next]_Pairing!vars
  PROVE  ConnectionNames'
<1> USE DEF ConnectionNames
<1>0. file \in File /\ ask \in Msg
  BY DEF PairingInv, ConnectionShapes
<1>1. CASE Pairing!Receive \/ \E m \in lateAsks : Pairing!LateArrival(m)
  BY <1>1 DEF Pairing!Receive, Pairing!LateArrival
<1>2. CASE \E p \in Pairing!Pairing : Pairing!Approve(p) \/ Pairing!Revoke(p)
  BY <1>2 DEF Pairing!Approve, Pairing!Revoke
<1>3. CASE Pairing!Connect
  BY <1>3, <1>0 DEF Pairing!Connect, Pairing!serverVars, File
<1>4. CASE Pairing!Poll \/ Pairing!Refused \/ Pairing!Lost
  BY <1>4 DEF Pairing!Poll, Pairing!Refused, Pairing!Lost, Pairing!serverVars
<1>5. CASE Pairing!Refresh \/ Pairing!RefreshExpired
  BY <1>5, <1>0 DEF Pairing!Refresh, Pairing!RefreshExpired, Pairing!serverVars, File
<1>6. CASE Pairing!Started \/ Pairing!Polled
  BY <1>6, <1>0 DEF Pairing!Started, Pairing!Polled, Pairing!serverVars, File
<1>7. CASE Pairing!Exchanged
  BY <1>7, NoneIsNoPairing DEF Pairing!Exchanged, Pairing!Accept, Pairing!serverVars
<1>8. CASE Pairing!Refreshed
  <2>1. Good(ask.p, ask.g + 1)
    BY <1>8 DEF Pairing!Refreshed, Pairing!Waits, PairingInv, RefreshIsSafe
  <2> QED BY <1>8, <2>1 DEF Pairing!Refreshed, Pairing!Accept, Pairing!serverVars, Good
<1>9. CASE UNCHANGED Pairing!vars
  BY <1>9 DEF Pairing!vars
<1> QED BY <1>1, <1>2, <1>3, <1>4, <1>5, <1>6, <1>7, <1>8, <1>9 DEF Pairing!Next, Pairing!Device

LEMMA ConnectionTypes ==
  ASSUME Pairing!Bounds, PairingInv, ConnectionNames
  PROVE  Pairing!TypeOK
<1>1. /\ file.state \in FileState /\ {file.pairing, file.runner, file.orphan} \subseteq Pairing!Pairing \cup {Pairing!None}
  BY DEF PairingInv, ConnectionShapes, File
<1>2. file.state \in {"pending", "exchange_uncertain"} => file.pairing # Pairing!None
  BY NoneIsNoPairing DEF PairingInv, MessagesRest
<1>3. file.state = "connected" => file.runner # Pairing!None /\ file.gen # 0
  BY NoneIsNoPairing DEF PairingInv, ConnectedIsSafe, Good, Pairing!Generation
<1> QED
  BY <1>1, <1>2, <1>3
     DEF PairingInv, ConnectionShapes, PairState, State, FileState, ConnectionNames, Pairing!TypeOK

-----------------------------------------------------------------------------
(* The composition.                                                         *)

(* A step of the runner is a step of a part or leaves it alone.             *)
LEMMA PartsMove ==
  ASSUME [Next]_vars
  PROVE  /\ [Loop!Next]_Loop!vars
         /\ [Effects!Next]_Effects!vars
         /\ [Team!Next]_Team!vars
         /\ [Channel!Next]_Channel!vars
         /\ [Pairing!Next]_Pairing!vars
<1>1. [Loop!Next]_Loop!vars
  BY DEF Next, vars, coordinator, Loop!vars, Loop!journalVars, Loop!hostVars, Loop!runVars,
         Loop!wireVars
<1>2. [Effects!Next]_Effects!vars
  BY DEF Next, vars, operations, Effects!vars
<1>3. [Team!Next]_Team!vars
  BY DEF Next, vars, teamTool, Team!vars
<1>4. [Channel!Next]_Channel!vars
  BY DEF Next, vars, channel, Channel!vars
<1>5. [Pairing!Next]_Pairing!vars
  BY DEF Next, vars, connection, Pairing!vars
<1> QED BY <1>1, <1>2, <1>3, <1>4, <1>5

(* The inductive invariants of the parts.                                   *)
RunnerInv ==
  /\ Loop!CoordinatorInv
  /\ Effects!OperationsInv /\ Effects!ReceiptInv
  /\ TeamInv /\ TeamCounts
  /\ Channel!ChannelInv
  /\ PairingInv /\ ConnectionNames

LEMMA RunnerInit ==
  ASSUME Init
  PROVE  RunnerInv
<1>1. /\ Loop!Init /\ Effects!Init /\ Team!Init /\ Channel!Init /\ Pairing!Init
      /\ Loop!Bounds /\ Effects!Bounds /\ Team!Bounds /\ Channel!Bounds /\ Pairing!Bounds
  BY BoundsAssumption DEF Init
<1>2. Loop!CoordinatorInv
  BY <1>1, Loop!CoordinatorInit
<1>3. Effects!OperationsInv /\ Effects!ReceiptInv
  BY <1>1, Effects!OperationsInit, Effects!ReceiptInit
<1>4. TeamInv
  BY <1>1, InitTeam
<1>5. TeamCounts
  BY <1>1 DEF Team!Init, Team!Bounds, TeamCounts
<1>6. Channel!ChannelInv
  BY <1>1, Channel!ChannelInit
<1>7. PairingInv
  BY <1>1, InitPairing
<1>8. ConnectionNames
  BY <1>1 DEF Pairing!Init, ConnectionNames
<1> QED BY <1>2, <1>3, <1>4, <1>5, <1>6, <1>7, <1>8 DEF RunnerInv

LEMMA RunnerStep ==
  ASSUME RunnerInv, [Next]_vars
  PROVE  RunnerInv'
<1>1. /\ Loop!Bounds /\ Effects!Bounds /\ Team!Bounds /\ Channel!Bounds /\ Pairing!Bounds
  BY BoundsAssumption
<1>2. Loop!CoordinatorInv'
  BY <1>1, PartsMove, Loop!CoordinatorStep DEF RunnerInv
<1>3. Effects!OperationsInv' /\ Effects!ReceiptInv'
  BY <1>1, PartsMove, Effects!NextKeeps, Effects!ReceiptsCounted DEF RunnerInv
<1>4. TeamInv' /\ TeamCounts'
  BY <1>1, PartsMove, TeamStep, TeamCounted DEF RunnerInv
<1>5. Channel!ChannelInv'
  BY <1>1, PartsMove, Channel!ChannelStep DEF RunnerInv
<1>6. PairingInv' /\ ConnectionNames'
  BY <1>1, PartsMove, PairingStep, NamesKept DEF RunnerInv
<1> QED BY <1>2, <1>3, <1>4, <1>5, <1>6 DEF RunnerInv

(* Every state of the runner satisfies the invariants of its parts.         *)
LEMMA RunnerCorrect == Spec => []RunnerInv
<1>1. Init => RunnerInv
  BY RunnerInit
<1>2. RunnerInv /\ [Next]_vars => RunnerInv'
  BY RunnerStep
<1> QED BY <1>1, <1>2, PTL DEF Spec

(* Rows, journals, messages and files of the device and its server keep     *)
(* their types, and counters stay within their bounds, through faults and   *)
(* crashes.                                                                 *)
THEOREM RunnerTypesKept == Spec => []TypeOK
<1>1. RunnerInv => TypeOK
  <2> SUFFICES ASSUME RunnerInv PROVE TypeOK
    OBVIOUS
  <2>1. /\ Effects!Bounds /\ Channel!Bounds /\ Pairing!Bounds
    BY BoundsAssumption
  <2>2. Loop!TypeOK
    BY DEF RunnerInv, Loop!CoordinatorInv
  <2>3. Effects!TypeOK
    BY <2>1, Effects!ReceiptTypes DEF RunnerInv
  <2>4. Team!TypeOK
    BY TeamTypes DEF RunnerInv
  <2>5. Channel!TypeOK
    BY <2>1, Channel!InvTypes DEF RunnerInv
  <2>6. Pairing!TypeOK
    BY <2>1, ConnectionTypes DEF RunnerInv
  <2> QED BY <2>2, <2>3, <2>4, <2>5, <2>6 DEF TypeOK
<1> QED BY <1>1, RunnerCorrect, PTL

(* The device never runs two attempts at once (Coordinator.claimOnce is     *)
(* reached only when stopSession, contain and the task have ended the last  *)
(* one).                                                                    *)
THEOREM OneAttemptOnTheDevice == Spec => []OneAttemptRuns
<1>1. RunnerInv => OneAttemptRuns
  BY Loop!InvRunsOne DEF RunnerInv, OneAttemptRuns
<1> QED BY <1>1, RunnerCorrect, PTL

(* Whoever reports a stop (stopSession, runtimeTerminated, recover), the    *)
(* attempt has no container on the device when the journal or the server    *)
(* takes it for stopped.                                                    *)
THEOREM StopIsEvidence == Spec => []StoppedIsContained
<1>1. RunnerInv => StoppedIsContained
  BY Loop!InvContained DEF RunnerInv, StoppedIsContained
<1> QED BY <1>1, RunnerCorrect, PTL

(* What a claim relies on stays so, and a claim finds it so.                *)
LEMMA ClaimsGoOn ==
  ASSUME RunnerInv, Loop!ClaimsInv, [Next]_vars
  PROVE  /\ Loop!ClaimsInv'
         /\ [part = "loop" => Loop!NoLiveAttemptAtClaim]_coordinator
<1>1. Loop!Bounds /\ Loop!CoordinatorInv /\ [Loop!Next]_Loop!vars
  BY BoundsAssumption, PartsMove DEF RunnerInv
<1>2. Loop!ClaimsInv'
  BY <1>1, Loop!ClaimsStep
<1>3. Loop!NoLiveAttemptAtClaim
  BY <1>1, Loop!ClaimsFindNoneLive
<1> QED BY <1>2, <1>3

(* The device asks for new work only when every attempt it was given has    *)
(* ended at the server, or its stop was superseded by an event and lost     *)
(* (recover, claimOnce, replayEvents), through refused and lost requests,   *)
(* late ones and crashes.                                                   *)
THEOREM EvidenceGoesFirst == Spec => EvidenceBeforeClaim
<1>1. Init => RunnerInv /\ Loop!ClaimsInv
  BY RunnerInit, Loop!ClaimsInit DEF Init
<1>2. RunnerInv /\ Loop!ClaimsInv /\ [Next]_vars => (RunnerInv /\ Loop!ClaimsInv)'
  BY RunnerStep, ClaimsGoOn
<1>3. RunnerInv /\ Loop!ClaimsInv /\ [Next]_vars
        => [part = "loop" => Loop!NoLiveAttemptAtClaim]_coordinator
  BY ClaimsGoOn
<1> QED BY <1>1, <1>2, <1>3, PTL DEF Spec, EvidenceBeforeClaim

(* An effect begins with a permission of the server, in the journal first,  *)
(* and a pull request after the push it names (beginEffect, publish).       *)
THEOREM EffectsFollowPermission == Spec => []EffectsInOrder
<1>1. RunnerInv => EffectsInOrder
  <2> SUFFICES ASSUME RunnerInv PROVE Effects!EffectsInOrder
    BY DEF EffectsInOrder
  <2>1. Effects!Bounds /\ Effects!PushFirst
    BY BoundsAssumption DEF Effects!PushFirst, Effects!Op
  <2> QED BY <2>1, Effects!InvPermitted, Effects!InvOrdered DEF RunnerInv, Effects!EffectsInOrder
<1> QED BY <1>1, RunnerCorrect, PTL

(* The remote, the journal and the ledger never contradict each other,      *)
(* whatever is lost, late or cut off by a crash (submit, recover,           *)
(* reconcile_operation).                                                    *)
THEOREM RecordsTellTheSame == Spec => []RecordsAgree
<1>1. RunnerInv => RecordsAgree
  BY BoundsAssumption, Effects!InvPermitted DEF RunnerInv, RecordsAgree
<1> QED BY <1>1, RunnerCorrect, PTL

(* What the model, the ledger and the reply say of a team operation is so,  *)
(* with any number of retries, lost answers, server deaths and late         *)
(* requests (execute_operation, teamToolExecutor, team_manage_result_lines).*)
THEOREM TeamIsNeverMisled == Spec => []OutcomeTruthful
<1>1. RunnerInv => OutcomeTruthful
  BY TeamIsTruthful DEF RunnerInv, OutcomeTruthful
<1> QED BY <1>1, RunnerCorrect, PTL

(* Inputs are put to the model once each and in their order, and the server *)
(* records the events of an attempt once each, in the order of its journal, *)
(* whatever is lost, late or repeated (deliverInput, InputQueue.next,       *)
(* enqueue, replayEvents, record_event, reconcile_input).                   *)
THEOREM NothingExchangedTwice == Spec => []ExchangedOnce
<1>1. RunnerInv => ExchangedOnce
  BY BoundsAssumption, Channel!InvExchanged DEF RunnerInv, ExchangedOnce
<1> QED BY <1>1, RunnerCorrect, PTL

(* The credential a connected device holds is the only good one of its      *)
(* runner, unless its owner revoked it, for any number of pairings,         *)
(* renewals, lost answers and late requests (exchange_pairing,              *)
(* rotate_runner_credential, the runner's rotate).                          *)
THEOREM OneGoodCredential == Spec => []CredentialIsTheGoodOne
<1>1. RunnerInv => CredentialIsTheGoodOne
  BY SafeIsGood DEF RunnerInv, CredentialIsTheGoodOne
<1> QED BY <1>1, RunnerCorrect, PTL
=============================================================================
