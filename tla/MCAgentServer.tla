---------------------------- MODULE MCAgentServer ----------------------------
(***************************************************************************)
(* Small instances of AgentServer for TLC: tasks of one kind on one        *)
(* device, and the operations a run needs.                                 *)
(***************************************************************************)
EXTENDS AgentServer, TLC

OneProfile == [j \in Job |-> CHOOSE p \in Profile : TRUE]
OneDevice  == [p \in Profile |-> CHOOSE r \in Runner : TRUE]
CapacityOf1 == [r \in Runner |-> 1]
CapacityOf2 == [r \in Runner |-> 2]

AnswerTasks == [j \in Job |-> "answer"]
CodeTasks   == [j \in Job |-> "code"]
PullRequestTasks == [j \in Job |-> "pull_request"]

Symmetry == Permutations(Tree)

CONSTANTS edit1, edit2, check1, push1, read1
Operations ==
  [k \in Op |-> CASE k \in {edit1, edit2} -> "edit" [] k = check1 -> "check"
                  [] k = push1 -> "remote" [] k = read1 -> "read"]

=============================================================================
