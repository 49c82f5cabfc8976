------------------------- MODULE ContainmentPromise -------------------------
(***************************************************************************)
(* What the server promises about a task, whatever its devices, owners and *)
(* publishers do: it is in one pair of hands at a time, each time under a  *)
(* new epoch (AgentAttempt.lease_epoch); its result is published at most   *)
(* once, when nobody holds it, and it is the result of the newest epoch;   *)
(* after that nobody takes it again.                                       *)
(***************************************************************************)
EXTENDS Naturals

CONSTANT Task

VARIABLES
  epoch,      \* how often the task was taken
  holder,     \* the epoch that holds the task, 0 while nobody does
  published   \* the epoch whose result is out, 0 while there is none

promise == <<epoch, holder, published>>

Start == epoch = [t \in Task |-> 0] /\ holder = epoch /\ published = epoch

Take(t) ==
  /\ holder[t] = 0 /\ published[t] = 0
  /\ epoch' = [epoch EXCEPT ![t] = @ + 1]
  /\ holder' = [holder EXCEPT ![t] = epoch'[t]]
  /\ UNCHANGED published

Release(t) ==
  /\ holder[t] # 0
  /\ holder' = [holder EXCEPT ![t] = 0]
  /\ UNCHANGED <<epoch, published>>

HandIn(t) ==
  /\ holder[t] = 0 /\ published[t] = 0 /\ epoch[t] # 0
  /\ published' = [published EXCEPT ![t] = epoch[t]]
  /\ UNCHANGED <<epoch, holder>>

Promise == Start /\ [][\E t \in Task : Take(t) \/ Release(t) \/ HandIn(t)]_promise
=============================================================================
