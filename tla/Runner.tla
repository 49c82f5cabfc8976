------------------------------- MODULE Runner -------------------------------
(***************************************************************************)
(* The runner of a device beside the server it works for: the attempts it  *)
(* executes (RunnerCoordinator), the operations of a task                  *)
(* (RunnerOperations), team operations (TeamOperations), what a task and a *)
(* user exchange (RunnerChannel) and the connection of the device          *)
(* (RunnerPairing).  The components share no variables here: a behaviour   *)
(* picks one part in its initial state, moves it, and leaves the others in *)
(* theirs, so that its states are the states of each part, one after the   *)
(* other.                                                                  *)
(***************************************************************************)
EXTENDS Naturals, Sequences

CONSTANTS
  Parts,                                     \* those that move
  MaxAttempt, MaxEvents, LoopFaults, LoopCrashes,  \* of RunnerCoordinator
  Steps, EffectFaults, EffectCrashes,              \* of RunnerOperations
  MaxRetries, ToolFaults,                          \* of TeamOperations
  MaxInputs, ChannelEvents, MaxAttempts, LinkFaults, \* of RunnerChannel
  MaxPairings, MaxRotations, DeviceFaults          \* of RunnerPairing

VARIABLE part

VARIABLES srv, claims, events, stops, box, task, blocked, session, loop, stopper, call, late,
          budget
Loop    == INSTANCE RunnerCoordinatorProofs
             WITH MaxFaults <- LoopFaults, MaxCrashes <- LoopCrashes

VARIABLES attempt, ledger, log, world, work, run, request, adrift, spent
Effects == INSTANCE RunnerOperationsProofs
             WITH MaxFaults <- EffectFaults, MaxCrashes <- EffectCrashes,
                  task <- work, call <- request, late <- adrift, budget <- spent

VARIABLES teamAttempt, op, done, phase, execute, teamLate, tool, teamFaults
Team    == INSTANCE TeamOperations
             WITH MaxFaults <- ToolFaults, attempt <- teamAttempt, work <- phase,
                  request <- execute, late <- teamLate, faults <- teamFaults

VARIABLES job, holder, reported, taken, turns, chat, lane, runtime, lateEvents, channelFaults
Channel == INSTANCE RunnerChannelProofs
             WITH MaxEvents <- ChannelEvents, MaxFaults <- LinkFaults,
                  attempt <- holder, events <- reported, session <- chat, task <- runtime,
                  late <- lateEvents, faults <- channelFaults

VARIABLES pairings, credential, revoked, file, archive, ask, lateAsks, pairingFaults
Pairing == INSTANCE RunnerPairing
             WITH MaxFaults <- DeviceFaults,
                  call <- ask, late <- lateAsks, faults <- pairingFaults

\* The bounds of every part, and a push before the pull request that names it (publish).
ASSUME BoundsAssumption ==
  /\ Loop!Bounds /\ Effects!Bounds /\ Team!Bounds /\ Channel!Bounds /\ Pairing!Bounds
  /\ \A i, k \in 1..Len(Steps) : Steps[i] = "push" /\ Steps[k] = "pr" => i < k

coordinator == <<srv, claims, events, stops, box, task, blocked, session, loop, stopper, call,
                 late, budget>>
operations == <<attempt, ledger, log, world, work, run, request, adrift, spent>>
teamTool == <<teamAttempt, op, done, phase, execute, teamLate, tool, teamFaults>>
channel == <<job, holder, reported, taken, turns, chat, lane, runtime, lateEvents, channelFaults>>
connection == <<pairings, credential, revoked, file, archive, ask, lateAsks, pairingFaults>>
vars == <<part, coordinator, operations, teamTool, channel, connection>>

Init ==
  /\ part \in Parts
  /\ Loop!Init /\ Effects!Init
  /\ Team!Init /\ Channel!Init /\ Pairing!Init
  /\ part # "team" => op.status = "authorized"   \* one state is enough to rest in

Next ==
  /\ UNCHANGED part
  /\ \/ /\ part = "loop" /\ Loop!Next
        /\ UNCHANGED <<operations, teamTool, channel, connection>>
     \/ /\ part = "effects" /\ Effects!Next
        /\ UNCHANGED <<coordinator, teamTool, channel, connection>>
     \/ /\ part = "team" /\ Team!Next
        /\ UNCHANGED <<coordinator, operations, channel, connection>>
     \/ /\ part = "channel" /\ Channel!Next
        /\ UNCHANGED <<coordinator, operations, teamTool, connection>>
     \/ /\ part = "pairing" /\ Pairing!Next
        /\ UNCHANGED <<coordinator, operations, teamTool, channel>>

(* The fairness of the parts whose liveness is checked, as each module has  *)
(* it.                                                                      *)
LoopFairly ==
  /\ WF_coordinator(part = "loop" /\ Loop!LoopStep)
  /\ WF_coordinator(part = "loop" /\ Loop!StopperStep)
  /\ WF_coordinator(part = "loop" /\ Loop!TaskStep)
  /\ \A p \in Loop!Activity : WF_coordinator(part = "loop" /\ Loop!Receive(p))
EffectsFairly ==
  /\ WF_operations(part = "effects" /\ Effects!RunStep)
  /\ WF_operations(part = "effects" /\ Effects!Receive)
  /\ WF_operations(part = "effects" /\ Effects!RecoveryFailed /\ spent' = spent)
TeamFairly ==
  /\ WF_teamTool(part = "team" /\ Team!Server)
  /\ WF_teamTool(part = "team" /\ Team!Runner)
  /\ WF_teamTool(part = "team" /\ Team!RequestStop)
  /\ WF_teamTool(part = "team" /\ Team!AttemptStopped)
PairingFairly ==
  /\ WF_connection(part = "pairing" /\ Pairing!Receive)
  /\ WF_connection(part = "pairing" /\ Pairing!Device)
  /\ WF_connection(part = "pairing" /\ Pairing!Poll)

Spec == Init /\ [][Next]_vars
FairSpec == Spec /\ LoopFairly /\ EffectsFairly /\ TeamFairly /\ PairingFairly

----------------------------------------------------------------------------
(* The properties of the parts; each is explained in its module.            *)

\* The types of every part.
TypeOK ==
  /\ Loop!TypeOK /\ Effects!TypeOK /\ Team!TypeOK /\ Channel!TypeOK /\ Pairing!TypeOK

\* One attempt at a time has effects, across processes (RunnerSupervisor, RuntimeSupervisor).
OneAttemptRuns == Loop!OneAttemptRuns
\* What counts as stopped has no container left (stop, contain).
StoppedIsContained == Loop!StoppedIsContained
\* When a job is claimed, no attempt is live at the server, but one whose stop was superseded by an
\* event and lost (recover, claimOnce).
EvidenceBeforeClaim == [][part = "loop" => Loop!NoLiveAttemptAtClaim]_coordinator
\* A stop the server asks for is reported, but that of such an attempt (stopped, recover).
StopIsReported == Loop!StopIsReported

\* Permission, journal and push come before effects (consume, beginEffect, publish).
EffectsInOrder == Effects!EffectsInOrder
\* Remote, journal and ledger agree on effects (submit, recover).
RecordsAgree == Effects!RecordsAgree
\* A start comes to poll unless it meets an effect it can neither reproduce nor observe (main).
StartReachesPolling == Effects!StartReachesPolling

\* What is said of a team operation is so (execute_operation).
OutcomeTruthful == Team!OutcomeTruthful

\* Inputs and events go across once and in order (deliverInput, record_event).
ExchangedOnce == Channel!ExchangedOnce

\* A connected device holds the only good credential (rotate, exchange_pairing).
CredentialIsTheGoodOne == Pairing!CredentialIsTheGoodOne

\* No request stays open for ever: a started team operation is resolved, and an exchange
\* whose answer was lost is settled (execute_operation, poll).
OpenEndsAreTied == Team!StartedIsResolved /\ Pairing!ExchangeIsSettled
=============================================================================
