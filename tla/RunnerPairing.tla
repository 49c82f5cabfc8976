---------------------------- MODULE RunnerPairing ----------------------------
(***************************************************************************)
(* How a device gets, renews and replaces its credential: the Connection   *)
(* of the runner with its connection.json, and the server's pairings,      *)
(* runners and credentials (zerver/actions/agents.py).                     *)
(*                                                                         *)
(* The file is written before a request whose answer could be lost.  A     *)
(* request the device has given up may still arrive; the process may die   *)
(* between any two steps, and then only the file is left.                  *)
(***************************************************************************)
EXTENDS Naturals

CONSTANTS MaxPairings,   \* pairings a device starts
          MaxRotations,  \* renewals of one runner's credential
          MaxFaults      \* lost requests and dead processes

Bounds == MaxPairings \in Nat \ {0} /\ {MaxRotations, MaxFaults} \subseteq Nat

Pairing == 1..MaxPairings     \* a runner has the number of its pairing
Generation == 1..(MaxRotations + 1)
None == 0

VARIABLES pairings,    \* AgentPairing.state
          credential,  \* AgentRunnerCredential of each runner, by generation
          revoked,     \* the runners an owner has revoked
          file,        \* connection.json
          archive,     \* the orphans the history files name
          call,        \* the request the process waits for
          late,        \* requests that may still arrive
          faults

vars == <<pairings, credential, revoked, file, archive, call, late, faults>>
serverVars == <<pairings, credential, revoked>>

NoCall == [kind |-> "none", p |-> None, g |-> 0, reply |-> "none"]
Fault == faults < MaxFaults /\ faults' = faults + 1

(***************************************************************************)
(* The server.                                                             *)
(***************************************************************************)
Made(r) == credential[r][1] # "none"
LiveAt(r, g) == credential[r][g] = "live" /\ r \notin revoked

StartPairing ==
  LET free == {p \in Pairing : pairings[p] = "none"}
  IN IF free = {} THEN None ELSE CHOOSE p \in free : \A q \in free : p <= q

Exchangeable(p) == pairings[p] = "approved"

(* exchange_pairing makes the runner and its first credential.              *)
Exchange(p) ==
  IF Exchangeable(p)
    THEN /\ pairings' = [pairings EXCEPT ![p] = "exchanged"]
         /\ credential' = [credential EXCEPT ![p][1] = "live"]
    ELSE UNCHANGED <<pairings, credential>>

Rotatable(r, g) == LiveAt(r, g) /\ g <= MaxRotations

\* Mutant: the credential that is replaced stays valid.
RotateKeeping(r, g) ==
  IF Rotatable(r, g) THEN credential' = [credential EXCEPT ![r][g + 1] = "live"]
                     ELSE UNCHANGED credential

Rotate(r, g) ==
  IF Rotatable(r, g)
    THEN credential' = [credential EXCEPT ![r][g] = "rotated", ![r][g + 1] = "live"]
    ELSE UNCHANGED credential

Handle(m) ==
  CASE m.kind = "start"    -> /\ pairings' = IF StartPairing = None THEN pairings
                                   ELSE [pairings EXCEPT ![StartPairing] = "pending"]
                              /\ UNCHANGED credential
    [] m.kind = "status"   -> UNCHANGED <<pairings, credential>>
    [] m.kind = "exchange" -> Exchange(m.p)
    [] m.kind = "refresh"  -> Rotate(m.p, m.g) /\ UNCHANGED pairings

(* What the answer says: the new pairing, its state, or the credential.     *)
Reply(m) ==
  CASE m.kind = "start"    -> IF StartPairing = None THEN "refused" ELSE "ok"
    [] m.kind = "status"   -> pairings[m.p]
    [] m.kind = "exchange" -> IF Exchangeable(m.p) THEN "ok" ELSE "refused"
    [] m.kind = "refresh"  -> IF Rotatable(m.p, m.g) THEN "ok" ELSE "refused"

Receive ==
  /\ call.reply = "waiting"
  /\ Handle(call)
  /\ call' = [call EXCEPT !.reply = Reply(call),
                          !.p = IF call.kind = "start" THEN StartPairing ELSE @]
  /\ UNCHANGED <<revoked, file, archive, late, faults>>

LateArrival(m) ==
  /\ Handle(m)
  /\ late' = late \ {m}
  /\ UNCHANGED <<revoked, file, archive, call, faults>>

(* The owner enters the code, too late or too often wrong; or revokes.      *)
Approve(p) ==
  /\ pairings[p] = "pending"
  /\ \E s \in {"approved", "expired", "rejected"} : pairings' = [pairings EXCEPT ![p] = s]
  /\ UNCHANGED <<credential, revoked, file, archive, call, late, faults>>

Revoke(r) ==
  /\ Made(r) /\ r \notin revoked
  /\ revoked' = revoked \cup {r}
  /\ credential' = [credential EXCEPT ![r] =
       [g \in Generation |-> IF @[g] = "live" THEN "revoked" ELSE @[g]]]
  /\ UNCHANGED <<pairings, file, archive, call, late, faults>>

(***************************************************************************)
(* The device.                                                             *)
(***************************************************************************)
Send(kind, p, g) == call' = [kind |-> kind, p |-> p, g |-> g, reply |-> "waiting"]
\* Mutant: a refusal is taken for an answer.
WaitsAny(kind) == call.kind = kind /\ call.reply # "waiting"
Waits(kind) == call.kind = kind /\ call.reply \notin {"waiting", "refused"}
Free == call.kind = "none"
Message(m) == [m EXCEPT !.reply = "none"]

(* connect: from nothing, or from any state as an explicit re-pair, which   *)
(* archives the old file.                                                   *)
Connect ==
  /\ Free /\ StartPairing # None
  /\ archive' = archive \cup ({file.runner, file.orphan} \ {None})
  /\ file' = [state |-> "pairing_start_uncertain", pairing |-> None, runner |-> None, gen |-> 0,
              orphan |-> IF file.runner # None THEN file.runner ELSE file.orphan]
  /\ Send("start", None, 0)
  /\ UNCHANGED <<serverVars, late, faults>>

Started ==
  /\ Waits("start")
  /\ file' = [file EXCEPT !.state = "pending", !.pairing = call.p]
  /\ call' = NoCall
  /\ UNCHANGED <<serverVars, archive, late, faults>>

\* Mutant: an uncertain exchange is not looked at again.
PollPending ==
  /\ Free /\ file.state = "pending"
  /\ Send("status", file.pairing, 0)
  /\ UNCHANGED <<serverVars, file, archive, late, faults>>

Poll ==
  /\ Free
  /\ file.state \in {"pending", "exchange_uncertain"}
  /\ Send("status", file.pairing, 0)
  /\ UNCHANGED <<serverVars, file, archive, late, faults>>

(* An exchange that was answered to nobody has made an orphan.              *)
Polled ==
  /\ Waits("status")
  /\ CASE call.reply = "exchanged" ->
            /\ file' = [file EXCEPT !.state = "re_pair_required", !.orphan = file.pairing]
            /\ call' = NoCall
       [] call.reply \in {"expired", "rejected"} ->
            file' = [file EXCEPT !.state = "re_pair_required"] /\ call' = NoCall
       [] call.reply = "approved" ->
            /\ file' = [file EXCEPT !.state = "exchange_uncertain"]
            /\ Send("exchange", file.pairing, 0)
       [] OTHER -> UNCHANGED file /\ call' = NoCall
  /\ UNCHANGED <<serverVars, archive, late, faults>>

Accept(r, g) ==
  /\ file' = [state |-> "connected", pairing |-> None, runner |-> r, gen |-> g,
              orphan |-> file.orphan]
  /\ call' = NoCall

Exchanged ==
  /\ Waits("exchange")
  /\ Accept(call.p, 1)
  /\ UNCHANGED <<serverVars, archive, late, faults>>

\* Mutant: the file is not changed before the answer is there.
RefreshUnmarked ==
  /\ Free /\ file.state = "connected"
  /\ Send("refresh", file.runner, file.gen)
  /\ UNCHANGED <<serverVars, file, archive, late, faults>>

(* rotate: the old token is not used again until the answer is there.       *)
Refresh ==
  /\ Free /\ file.state = "connected"
  /\ file' = [file EXCEPT !.state = "rotation_uncertain"]
  /\ Send("refresh", file.runner, file.gen)
  /\ UNCHANGED <<serverVars, archive, late, faults>>

RefreshExpired ==
  /\ Free /\ file.state = "connected"
  /\ file' = [file EXCEPT !.state = "re_pair_required"]
  /\ UNCHANGED <<serverVars, archive, call, late, faults>>

Refreshed ==
  /\ Waits("refresh")
  /\ Accept(call.p, call.g + 1)
  /\ UNCHANGED <<serverVars, archive, late, faults>>

Refused ==
  /\ call.reply = "refused"
  /\ call' = NoCall
  /\ UNCHANGED <<serverVars, file, archive, late, faults>>

(* No answer, or the process is dead: the request was lost, its answer was  *)
(* lost, or it is still on its way.                                         *)
Lost ==
  /\ ~Free
  /\ Fault
  /\ late' \in {late, IF call.reply = "waiting" THEN late \cup {Message(call)} ELSE late}
  /\ call' = NoCall
  /\ UNCHANGED <<serverVars, file, archive>>

Init ==
  /\ pairings = [p \in Pairing |-> "none"]
  /\ credential = [r \in Pairing |-> [g \in Generation |-> "none"]]
  /\ revoked = {}
  /\ file = [state |-> "none", pairing |-> None, runner |-> None, gen |-> 0, orphan |-> None]
  /\ archive = {}
  /\ call = NoCall
  /\ late = {}
  /\ faults = 0

Device == Started \/ Polled \/ Exchanged \/ Refreshed \/ Refused

Next ==
  \/ Receive \/ \E m \in late : LateArrival(m)
  \/ \E p \in Pairing : Approve(p) \/ Revoke(p)
  \/ Connect \/ Poll \/ Refresh \/ RefreshExpired \/ Device \/ Lost

(* The owner looks at the status from time to time; answers come or not.    *)
Fairness == WF_vars(Receive) /\ WF_vars(Device) /\ WF_vars(Poll)

Spec == Init /\ [][Next]_vars /\ Fairness

(***************************************************************************)
(* Properties.                                                             *)
(***************************************************************************)
(* The variables keep their shapes.                                         *)
TypeOK ==
  /\ pairings \in [Pairing -> {"none", "pending", "approved", "exchanged", "expired", "rejected"}]
  /\ credential \in [Pairing -> [Generation -> {"none", "live", "rotated", "revoked"}]]
  /\ revoked \subseteq Pairing
  /\ file.state \in {"none", "pairing_start_uncertain", "pending", "exchange_uncertain",
                     "connected", "rotation_uncertain", "re_pair_required"}
  /\ {file.pairing, file.runner, file.orphan} \cup archive \subseteq Pairing \cup {None}
  /\ file.gen \in Generation \cup {0}
  /\ file.state \in {"pending", "exchange_uncertain"} => file.pairing # None
  /\ file.state = "connected" => file.runner # None /\ file.gen # 0

(* A runner has one credential that is good, whatever is lost or repeated   *)
(* (rotate_runner_credential, exchange_pairing).                            *)
OneCredential ==
  \A r \in Pairing : \A g, h \in Generation : LiveAt(r, g) /\ LiveAt(r, h) => g = h

(* A device that takes itself for connected holds the good credential of    *)
(* its runner, unless the owner revoked it: a renewal that may have used    *)
(* the token up shows in the file.                                          *)
ConnectedIsGood ==
  file.state = "connected" => \/ LiveAt(file.runner, file.gen)
                              \/ file.runner \in revoked

(* The credential a connected device holds is the only good one of its      *)
(* runner (exchange_pairing, rotate_runner_credential, rotate).             *)
CredentialIsTheGoodOne == OneCredential /\ ConnectedIsGood

(* A runner whose credential the device may hold, or lost, does not go      *)
(* unnoticed by the file: the pairing is still at hand, or it is the runner *)
(* or an orphan of the file or its history.  The pairing_start_uncertain of *)
(* a re-pair from an exchange is what breaks it.                            *)
OrphansReported ==
  \A r \in Pairing : Made(r) /\ r \notin revoked =>
    r \in {file.runner, file.orphan, file.pairing} \cup archive

(* An exchange that is not known to have happened is settled by polling.    *)
ExchangeIsSettled ==
  file.state = "exchange_uncertain" ~> file.state # "exchange_uncertain"
=============================================================================
