------------------------ MODULE TaskLifecycleProofs ------------------------
(***************************************************************************)
(* Lemmas about tasks as values: what a new task is, and what a transition *)
(* makes of a task.                                                        *)
(***************************************************************************)
EXTENDS TaskLifecycle, TLAPS

\* A new task is a task.
LEMMA NewTaskType ==
  ASSUME NEW s \in Subject
  PROVE  NewTask(s) \in AgentTask /\ NewTask(s) # None
<1>1. << >> \in Seq(StatusTransition)
  OBVIOUS
<1>2. NewTask(s) \in AgentTask
  BY <1>1 DEF NewTask, AgentTask, TaskStatus
<1> QED
  BY <1>2, NoneIsNoValue

\* A transition makes a task of a task.
LEMMA TransitionToType ==
  ASSUME NEW task \in AgentTask, NEW target \in TaskStatus, NEW reason \in Reason,
         NEW by \in Subject \cup {None}, NEW checkpoint \in RunCheckpoint \cup {None}
  PROVE  /\ TransitionTo(task, target, reason, by, checkpoint) \in AgentTask
         /\ TransitionTo(task, target, reason, by, checkpoint) # None
<1> DEFINE entry == [from_status |-> task.status, to_status |-> target,
                     reason |-> reason, by |-> by]
<1>1. /\ task.requested_by \in Subject
      /\ task.status \in TaskStatus
      /\ task.version \in Nat \ {0}
      /\ task.history \in Seq(StatusTransition)
  BY DEF AgentTask
<1>2. entry \in StatusTransition
  BY <1>1 DEF StatusTransition
<1>3. Append(task.history, entry) \in Seq(StatusTransition)
  BY <1>1, <1>2
<1> DEFINE history == Append(task.history, entry)
<1>4. TransitionTo(task, target, reason, by, checkpoint) =
        [task EXCEPT !.status = target, !.version = task.version + 1,
                     !.history = history, !.checkpoint = checkpoint]
  BY DEF TransitionTo
<1>5. TransitionTo(task, target, reason, by, checkpoint) \in AgentTask
  <2>1. history \in Seq(StatusTransition)
    BY <1>3
  <2> HIDE DEF history
  <2>2. task.version + 1 \in Nat \ {0}
    BY <1>1
  <2> QED
    BY <1>4, <2>1, <2>2 DEF AgentTask
<1> QED
  BY <1>5, NoneIsNoValue

\* What it changes, and what it keeps.
LEMMA TransitionToFields ==
  ASSUME NEW task \in AgentTask, NEW target, NEW reason, NEW by, NEW checkpoint
  PROVE  LET next == TransitionTo(task, target, reason, by, checkpoint) IN
         /\ next.requested_by = task.requested_by
         /\ next.status = target
         /\ next.version = task.version + 1
         /\ next.history = Append(task.history, [from_status |-> task.status,
                                                 to_status |-> target,
                                                 reason |-> reason, by |-> by])
BY DEF TransitionTo, AgentTask
=============================================================================
