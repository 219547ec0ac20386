--------------------------- MODULE TaskLifecycle ---------------------------
(***************************************************************************)
(* The lifecycle of one agent task, as the domain model defines it: which  *)
(* status may follow which, what a transition writes, and which status may *)
(* carry the run state of a paused run (tasks/models.py).                  *)
(*                                                                         *)
(* The module has no variables.  A task is a value, a transition maps a    *)
(* task to the task that follows it, and every component that stores or    *)
(* moves tasks is built from these operators.                              *)
(***************************************************************************)
EXTENDS Naturals, Sequences

CONSTANTS Subject,     \* authenticated callers, as requested_by and reasons name them
          Call,        \* the tool calls the model may ask for
          None         \* Python's None

TaskStatus == {"pending", "running", "awaiting_approval",
               "completed", "failed", "cancelled"}

\* -- variant: a running task may be started again
AllowedTransitions_Restart ==
  [pending           |-> {"running", "cancelled"},
   running           |-> {"running", "awaiting_approval", "completed", "failed", "cancelled"},
   awaiting_approval |-> {"running", "cancelled"},
   completed         |-> {},
   failed            |-> {},
   cancelled         |-> {}]

AllowedTransitions ==
  [pending           |-> {"running", "cancelled"},
   running           |-> {"awaiting_approval", "completed", "failed", "cancelled"},
   awaiting_approval |-> {"running", "cancelled"},
   completed         |-> {},
   failed            |-> {},
   cancelled         |-> {}]

(***************************************************************************)
(* What a paused run needs to go on: the tool calls of the turn it paused  *)
(* on, and the counters it had reached.  The conversation itself is        *)
(* opaque: only its last turn is ever read back.                           *)
(***************************************************************************)
RunCheckpoint ==
  [calls : SUBSET Call \ {{}}, steps : Nat \ {0}, tool_calls : Nat]

\* Who or what moved the task; the texts written to the history, by kind.
Reason == {"started", "approved", "rejected", "cancelled", "paused",
           "answered", "unusable", "model_error", "budget"}

StatusTransition ==
  [from_status : TaskStatus, to_status : TaskStatus,
   reason : Reason, by : Subject \cup {None}]

AgentTask ==
  [requested_by : Subject, status : TaskStatus, version : Nat \ {0},
   history : Seq(StatusTransition), checkpoint : RunCheckpoint \cup {None}]

ASSUME NoneIsNoValue ==
  /\ None \notin Subject
  /\ None \notin RunCheckpoint
  /\ None \notin AgentTask

----------------------------------------------------------------------------

\* -- variant: versions count from zero
NewTask_VersionZero(subject) ==
  [requested_by |-> subject, status |-> "pending", version |-> 0,
   history |-> << >>, checkpoint |-> None]

\* AgentTask.create: a pending task at version 1, owned by its requester.
NewTask(subject) ==
  [requested_by |-> subject, status |-> "pending", version |-> 1,
   history |-> << >>, checkpoint |-> None]

CanTransition(task, target) == target \in AllowedTransitions[task.status]

\* -- variant: the status is compared with the wrong one
CheckCheckpoint_WrongStatus(target, checkpoint) ==
  checkpoint # None => target = "running"

\* Only a task waiting on a human carries run state.
CheckCheckpoint(target, checkpoint) ==
  checkpoint # None => target = "awaiting_approval"

\* -- variant: the version stays
TransitionTo_SameVersion(task, target, reason, by, checkpoint) ==
  [task EXCEPT !.status = target,
               !.history = Append(@, [from_status |-> task.status,
                                      to_status |-> target,
                                      reason |-> reason, by |-> by]),
               !.checkpoint = checkpoint]

\* The task after an allowed transition.  A checkpoint that is not handed in
\* is cleared, whatever the task was holding.
TransitionTo(task, target, reason, by, checkpoint) ==
  [task EXCEPT !.status = target,
               !.version = @ + 1,
               !.history = Append(@, [from_status |-> task.status,
                                      to_status |-> target,
                                      reason |-> reason, by |-> by]),
               !.checkpoint = checkpoint]
=============================================================================
