------------------------ MODULE PlatformRefinement ------------------------
(***************************************************************************)
(* AgentPlatform implements ApprovalProtocol: requests racing on versioned *)
(* reads and writes look, to everyone who only sees the tasks, like one    *)
(* agent per task and one decision per pause.                              *)
(*                                                                         *)
(* The agent of a task is the coroutine that drives it; what it holds or   *)
(* reports is in that coroutine's locals, or, once it has paused, in the   *)
(* checkpoint on the task.                                                 *)
(***************************************************************************)
EXTENDS AgentPlatform

Drivers(t) == {h \in Handler : on[h] = t /\ Driving(h)}
Driver(t)  == CHOOSE h \in Handler : on[h] = t /\ Driving(h)

StatusOf(t) == IF store[t] = None THEN "absent" ELSE store[t].status

RequesterOf(t) == IF store[t] = None THEN None ELSE store[t].requested_by

Doing(label) == CASE label = "loop"  -> "deciding"
                  [] label = "model" -> "thinking"
                  [] label = "tools" -> "acting"
                  [] OTHER           -> "reporting"

AgentOf(t) == IF Drivers(t) = {} THEN "none" ELSE Doing(pc[Driver(t)])

CallsOf(checkpoint) == IF checkpoint = None THEN {} ELSE checkpoint.calls

TurnOf(t) ==
  IF Drivers(t) # {}
    THEN LET h == Driver(t) IN
         IF pc[h] \in {"load", "write"} THEN CallsOf(tx[h].checkpoint) ELSE turn[h]
    ELSE IF store[t] = None THEN {} ELSE CallsOf(store[t].checkpoint)

OutcomeOf(t) == IF AgentOf(t) = "reporting" THEN tx[Driver(t)].target ELSE "none"

Protocol == INSTANCE ApprovalProtocol WITH
  Sensitive <- {call \in Call : NeedsApproval(call)},
  Lossy     <- Faults # {},
  status    <- [t \in Task |-> StatusOf(t)],
  requester <- [t \in Task |-> RequesterOf(t)],
  agent     <- [t \in Task |-> AgentOf(t)],
  turn      <- [t \in Task |-> TurnOf(t)],
  outcome   <- [t \in Task |-> OutcomeOf(t)]

\* Every behaviour of the platform is one the protocol allows.
ImplementsProtocol == Protocol!Spec
=============================================================================
