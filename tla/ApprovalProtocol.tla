-------------------------- MODULE ApprovalProtocol --------------------------
(***************************************************************************)
(* What the platform promises about running tasks under human approval,    *)
(* with no requests, versions or store: a task has at most one agent, the  *)
(* agent alternates between thinking and acting, a turn with a gated call  *)
(* is only proposed, and a proposal leaves the waiting state by one human  *)
(* decision.  AgentPlatform is shown to implement this.                    *)
(***************************************************************************)
EXTENDS Naturals

CONSTANTS Task, Subject, Writers, Approvers,
          Call,          \* what an agent may want to do
          Sensitive,     \* the calls that need a human
          SecondPerson,  \* may the requester release the calls of its own task?
          MaxSteps,      \* how often an agent thinks in one run
          Lossy,         \* may agents be lost?
          None

VARIABLES
  status,     \* "absent", or the status everyone sees
  requester,  \* who asked
  agent,      \* what the agent of the task is doing, "none" if it has none
  spent,      \* how often the agent of the current run has thought
  turn,       \* the calls held for a decision, proposed, or being made
  outcome     \* how the agent wants the task to go on, while it reports

vars == <<status, requester, agent, spent, turn, outcome>>

Turns == SUBSET Call \ {{}}

Init ==
  /\ status    = [t \in Task |-> "absent"]
  /\ requester = [t \in Task |-> None]
  /\ agent     = [t \in Task |-> "none"]
  /\ spent     = [t \in Task |-> 0]
  /\ turn      = [t \in Task |-> {}]
  /\ outcome   = [t \in Task |-> "none"]

\* The agent of t goes over to what it does next, or is lost on the way.
Become(t, doing, calls) ==
  \/ /\ agent' = [agent EXCEPT ![t] = doing]
     /\ turn'  = [turn EXCEPT ![t] = calls]
  \/ /\ Lossy
     /\ agent' = [agent EXCEPT ![t] = "none"]
     /\ turn'  = [turn EXCEPT ![t] = {}]

----------------------------------------------------------------------------
(* People.                                                                 *)

Submit(t, subject) ==
  /\ status[t] = "absent"
  /\ subject \in Writers
  /\ status'    = [status EXCEPT ![t] = "pending"]
  /\ requester' = [requester EXCEPT ![t] = subject]
  /\ UNCHANGED <<agent, spent, turn, outcome>>

\* A run starts from nothing, even over one that was waiting for approval.
Start(t) ==
  /\ status[t] \in {"pending", "awaiting_approval"}
  /\ status' = [status EXCEPT ![t] = "running"]
  /\ spent'  = [spent EXCEPT ![t] = 0]
  /\ Become(t, "deciding", {})
  /\ UNCHANGED <<requester, outcome>>

Approve(t, subject) ==
  /\ status[t] = "awaiting_approval"
  /\ subject \in Approvers
  /\ SecondPerson => subject # requester[t]
  /\ status' = [status EXCEPT ![t] = "running"]
  /\ Become(t, "acting", turn[t])
  /\ UNCHANGED <<requester, spent, outcome>>

\* Rejected or cancelled.  What was held is gone; an agent at work finds out.
Withdraw(t) ==
  /\ status[t] \in {"pending", "running", "awaiting_approval"}
  /\ status' = [status EXCEPT ![t] = "cancelled"]
  /\ turn'   = IF status[t] = "awaiting_approval" THEN [turn EXCEPT ![t] = {}] ELSE turn
  /\ UNCHANGED <<requester, agent, spent, outcome>>

----------------------------------------------------------------------------
(* The agent.                                                              *)

\* A first thought is owed to every run; each further one only to a task that
\* is still running.
Think(t) ==
  /\ agent[t] = "deciding"
  /\ spent[t] < MaxSteps
  /\ spent[t] = 0 \/ status[t] = "running"
  /\ agent' = [agent EXCEPT ![t] = "thinking"]
  /\ spent' = [spent EXCEPT ![t] = @ + 1]
  /\ UNCHANGED <<status, requester, turn, outcome>>

Act(t) ==
  /\ agent[t] = "thinking"
  /\ agent' = [agent EXCEPT ![t] = "acting"]
  /\ \E calls \in Turns : /\ calls \cap Sensitive = {}
                          /\ turn' = [turn EXCEPT ![t] = calls]
  /\ UNCHANGED <<status, requester, spent, outcome>>

Acted(t) ==
  /\ agent[t] = "acting"
  /\ agent' = [agent EXCEPT ![t] = "deciding"]
  /\ turn'  = [turn EXCEPT ![t] = {}]
  /\ UNCHANGED <<status, requester, spent, outcome>>

Report(t, result) ==
  /\ agent'   = [agent EXCEPT ![t] = "reporting"]
  /\ outcome' = [outcome EXCEPT ![t] = result]
  /\ UNCHANGED <<status, requester, spent>>

Propose(t) ==
  /\ agent[t] = "thinking"
  /\ \E calls \in Turns : /\ calls \cap Sensitive # {}
                          /\ turn' = [turn EXCEPT ![t] = calls]
  /\ Report(t, "awaiting_approval")

Conclude(t) ==
  /\ \/ agent[t] = "thinking" /\ \E result \in {"completed", "failed"} : Report(t, result)
     \/ agent[t] = "deciding" /\ spent[t] = MaxSteps /\ Report(t, "failed")
  /\ UNCHANGED turn

\* The report takes effect, unless the task was withdrawn meanwhile.
Settle(t) ==
  /\ agent[t] = "reporting"
  /\ status[t] = "running"
  /\ status'  = [status EXCEPT ![t] = outcome[t]]
  /\ agent'   = [agent EXCEPT ![t] = "none"]
  /\ outcome' = [outcome EXCEPT ![t] = "none"]
  /\ UNCHANGED <<requester, spent, turn>>

Drop(t) ==
  /\ agent[t] \in {"deciding", "reporting"}
  /\ status[t] = "cancelled"
  /\ agent'   = [agent EXCEPT ![t] = "none"]
  /\ turn'    = [turn EXCEPT ![t] = {}]
  /\ outcome' = [outcome EXCEPT ![t] = "none"]
  /\ UNCHANGED <<status, requester, spent>>

\* The agents of some tasks are lost, and with them what they were doing.
Lose ==
  /\ Lossy
  /\ \E lost \in SUBSET {t \in Task : agent[t] # "none"} :
       /\ agent'   = [t \in Task |-> IF t \in lost THEN "none" ELSE agent[t]]
       /\ turn'    = [t \in Task |-> IF t \in lost THEN {} ELSE turn[t]]
       /\ outcome' = [t \in Task |-> IF t \in lost THEN "none" ELSE outcome[t]]
  /\ UNCHANGED <<status, requester, spent>>

----------------------------------------------------------------------------
Next ==
  \/ \E t \in Task :
       \/ \E subject \in Subject : Submit(t, subject) \/ Approve(t, subject)
       \/ Start(t) \/ Withdraw(t)
       \/ Think(t) \/ Act(t) \/ Acted(t) \/ Propose(t) \/ Conclude(t)
       \/ Settle(t) \/ Drop(t)
  \/ Lose

Spec == Init /\ [][Next]_vars
=============================================================================
