------------------------ MODULE AgentPlatformProofs ------------------------
(***************************************************************************)
(* Theorems about AgentPlatform, for every number of tasks, requests,      *)
(* subjects, tools, steps and for every combination of faults.             *)
(***************************************************************************)
EXTENDS AgentPlatform, TaskLifecycleProofs, FiniteSetTheorems

----------------------------------------------------------------------------
(* What each label of a handler says about the arguments it carries.       *)

WellFormed ==
  \A h \in Handler :
    /\ pc[h] # "idle" => on[h] \in Task
    /\ pc[h] \in {"write", "loop", "model", "tools", "discard"} => store[on[h]] # None
    /\ Driving(h) => store[on[h]] # None
    /\ pc[h] = "write" => cur[h] # None
    /\ pc[h] = "model" => state[h].steps # 0

TypeInv == TypeOK /\ WellFormed

\* Counting one entry up, whether or not it is in the domain.
LEMMA IncrementType ==
  ASSUME NEW S, NEW f \in [S -> Nat], NEW n
  PROVE  [f EXCEPT ![n] = @ + 1] \in [S -> Nat]
<1>1. CASE n \in S
  BY <1>1
<1>2. CASE n \notin S
  BY <1>2
<1> QED
  BY <1>1, <1>2

LEMMA InitTypeInv == Init => TypeInv
BY NoneIsNoValue DEF Init, TypeInv, TypeOK, WellFormed, NoTransition, Transition, FreshRun, NoTurns,
   NotRun, NotReleased, Label, TransitionArgs, RunState, TaskStatus, Reason, RunCheckpoint, Steps, Driving, Outcome

LEMMA TransitionTypes ==
  ASSUME NEW reason \in Reason, NEW target \in TaskStatus, NEW by \in Subject \cup {None},
         NEW checkpoint \in RunCheckpoint \cup {None}
  PROVE  /\ Transition(target, reason, by, checkpoint) \in TransitionArgs
         /\ Transition(target, reason, by, checkpoint).reason = reason
BY DEF Transition, TransitionArgs

LEMMA ReturnTypes ==
  ASSUME TypeOK, NEW h \in Handler, Return(h)
  PROVE  /\ pc' = [pc EXCEPT ![h] = "idle"]
         /\ pc' \in [Handler -> Label]
         /\ on' = [on EXCEPT ![h] = None]
         /\ on' \in [Handler -> Task \cup {None}]
         /\ tx' \in [Handler -> TransitionArgs]
         /\ \A g \in Handler \ {h} : tx'[g] = tx[g] /\ cur'[g] = cur[g]
                                   /\ state'[g] = state[g] /\ turn'[g] = turn[g]
         /\ cur' \in [Handler -> AgentTask \cup {None}]
         /\ state' \in [Handler -> RunState]
         /\ turn' \in [Handler -> SUBSET Call]
<1>1. NoTransition \in TransitionArgs
  BY DEF NoTransition, Transition, TransitionArgs, TaskStatus, Reason
<1>2. FreshRun \in RunState
  BY DEF FreshRun, RunState
<1> QED
  BY <1>1, <1>2 DEF TypeOK, Return, Goto, Label

\* A request that is answered says nothing any more, and the others say what
\* they said, as long as no row disappears.
LEMMA ReturnWellFormed ==
  ASSUME TypeInv, NEW h \in Handler, Return(h),
         \A t \in Task : store[t] # None => store'[t] # None
  PROVE  WellFormed'
<1>1. pc'[h] = "idle"
  BY ReturnTypes DEF TypeInv, TypeOK
<1>2. \A g \in Handler \ {h} : /\ pc'[g] = pc[g] /\ on'[g] = on[g] /\ tx'[g] = tx[g]
                                /\ cur'[g] = cur[g] /\ state'[g] = state[g]
  BY ReturnTypes DEF TypeInv, TypeOK
<1>3. ASSUME NEW g \in Handler \ {h}, pc[g] # "idle"
      PROVE  on[g] \in Task /\ (store[on[g]] # None => store'[on[g]] # None)
  BY <1>3 DEF TypeInv, WellFormed
<1> QED
  BY <1>1, <1>2, <1>3 DEF TypeInv, WellFormed, Driving

\* Answering a request disturbs nothing else.
LEMMA ReturnTypeInv ==
  ASSUME TypeInv, NEW h \in Handler, Return(h), UNCHANGED <<store, historyVars>>
  PROVE  TypeInv'
<1>1. TypeOK'
  BY ReturnTypes DEF TypeInv, TypeOK, historyVars
<1>2. WellFormed'
  BY ReturnWellFormed
<1> QED
  BY <1>1, <1>2 DEF TypeInv

\* A transition that is refused keeps the row it could not change.
LEMMA RefusedTypeInv ==
  ASSUME TypeInv, NEW h \in Handler, TransitionRefused(h), pc[h] \in {"load", "write"}
  PROVE  TypeInv'
<1>1. CASE tx[h].reason \in Outcome
  <2>1. TypeOK'
    BY <1>1 DEF TypeInv, TypeOK, TransitionRefused, Goto, Label, historyVars
  <2>2. WellFormed'
    BY <1>1 DEF TypeInv, TypeOK, WellFormed, TransitionRefused, Goto, Driving, Outcome
  <2> QED
    BY <2>1, <2>2 DEF TypeInv
<1>2. CASE tx[h].reason \notin Outcome
  BY <1>2, ReturnTypeInv DEF TransitionRefused
<1> QED
  BY <1>1, <1>2

\* What storing a transition leaves behind: a row, and no row less.
LEMMA CommitTypes ==
  ASSUME TypeInv, NEW h \in Handler, pc[h] = "write", Commit(h)
  PROVE  /\ store' \in [Task -> AgentTask \cup {None}]
         /\ \A t \in Task : store[t] # None => store'[t] # None
         /\ runs' \in [Task -> Nat] /\ spent' \in [Task -> Nat]
         /\ asked' \in [Task -> [Steps -> SUBSET Call]]
         /\ ran' \in [Task -> [Steps -> Nat]]
         /\ released' \in [Task -> [Steps -> Subject \cup {None}]]
         /\ late' \in [Task -> Nat]
<1> DEFINE next == TransitionTo(cur[h], tx[h].target, tx[h].reason, tx[h].by, tx[h].checkpoint)
<1>1. /\ on[h] \in Task /\ cur[h] \in AgentTask
      /\ tx[h].target \in TaskStatus /\ tx[h].reason \in Reason
      /\ tx[h].by \in Subject \cup {None}
      /\ tx[h].checkpoint \in RunCheckpoint \cup {None}
  BY DEF TypeInv, TypeOK, WellFormed, TransitionArgs
<1>2. next \in AgentTask /\ next # None
  BY <1>1, TransitionToType
<1>3. store' = [store EXCEPT ![on[h]] = next]
  BY DEF Commit, Update
<1> HIDE DEF next
<1>4. /\ store' \in [Task -> AgentTask \cup {None}]
      /\ \A t \in Task : store[t] # None => store'[t] # None
  BY <1>1, <1>2, <1>3 DEF TypeInv, TypeOK
<1>5. /\ NoTurns \in [Steps -> SUBSET Call] /\ NotRun \in [Steps -> Nat]
      /\ NotReleased \in [Steps -> Subject \cup {None}]
  BY DEF NoTurns, NotRun, NotReleased
<1>6. released' \in [Task -> [Steps -> Subject \cup {None}]]
  BY <1>1, <1>5 DEF Commit, TypeInv, TypeOK
<1>7. /\ runs' \in [Task -> Nat] /\ spent' \in [Task -> Nat]
      /\ asked' \in [Task -> [Steps -> SUBSET Call]]
      /\ ran' \in [Task -> [Steps -> Nat]]
      /\ late' \in [Task -> Nat]
  <2>1. CASE tx[h].reason = "started"
    <3>1. /\ runs'  = [runs EXCEPT ![on[h]] = @ + 1]
          /\ spent' = [spent EXCEPT ![on[h]] = 0]
          /\ asked' = [asked EXCEPT ![on[h]] = NoTurns]
          /\ ran'   = [ran EXCEPT ![on[h]] = NotRun]
          /\ late'  = late
      BY <2>1 DEF Commit
    <3>2. runs' \in [Task -> Nat] /\ spent' \in [Task -> Nat] /\ late' \in [Task -> Nat]
      BY <1>1, <3>1 DEF TypeInv, TypeOK
    <3>3. asked' \in [Task -> [Steps -> SUBSET Call]]
      BY <1>1, <1>5, <3>1 DEF TypeInv, TypeOK
    <3>4. ran' \in [Task -> [Steps -> Nat]]
      BY <1>1, <1>5, <3>1 DEF TypeInv, TypeOK
    <3> QED
      BY <3>2, <3>3, <3>4
  <2>2. CASE tx[h].reason # "started"
    BY <2>2 DEF Commit, TypeInv, TypeOK
  <2> QED
    BY <2>1, <2>2
<1> QED
  BY <1>4, <1>6, <1>7

LEMMA FinishTypes ==
  ASSUME TypeInv, NEW h \in Handler, NEW target \in TaskStatus, NEW reason \in Outcome,
         NEW checkpoint \in RunCheckpoint \cup {None}, Finish(h, target, reason, checkpoint)
  PROVE  /\ pc' \in [Handler -> Label] /\ tx' \in [Handler -> TransitionArgs]
         /\ pc'[h] = "load" /\ tx'[h] = Transition(target, reason, None, checkpoint)
         /\ \A g \in Handler : g # h => pc'[g] = pc[g] /\ tx'[g] = tx[g]
<1>1. Transition(target, reason, None, checkpoint) \in TransitionArgs
  BY TransitionTypes DEF Outcome, Reason
<1> QED
  BY <1>1 DEF Finish, Goto, TypeInv, TypeOK, Label

LEMMA ReplyTypes ==
  ASSUME TypeInv, NEW h \in Handler, Reply(h)
  PROVE  late' \in [Task -> Nat]
<1>1. on[h] \in Task /\ late[on[h]] + 1 \in Nat
  BY DEF Reply, TypeInv, TypeOK, WellFormed
<1> QED
  BY <1>1 DEF Reply, TypeInv, TypeOK

LEMMA CheckpointType ==
  ASSUME TypeInv, NEW h \in Handler, pc[h] = "model", NEW calls \in SUBSET Call \ {{}}
  PROVE  Checkpoint(h, calls) \in RunCheckpoint
BY DEF Checkpoint, RunCheckpoint, RunState, TypeInv, TypeOK, WellFormed

LEMMA NextTypeInv == TypeInv /\ [Next]_vars => TypeInv'
<1> SUFFICES ASSUME TypeInv, [Next]_vars
             PROVE  TypeInv'
  OBVIOUS
<1>1. ASSUME NEW t \in Task, NEW s \in Subject, CreateTask(t, s)
      PROVE  TypeInv'
  BY <1>1, NewTaskType
  DEF TypeInv, TypeOK, WellFormed, Driving, Outcome, CreateTask, requestVars, historyVars
<1>2. ASSUME NEW h \in Handler, NEW t \in Task, NEW label \in {"policy", "require", "load"},
             NEW transition \in TransitionArgs, transition.reason \notin Outcome,
             Arrive(h, t, label, transition)
      PROVE  TypeInv'
  <2>1. TypeOK'
    BY <1>2 DEF TypeInv, TypeOK, Arrive, Goto, Label, historyVars
  <2>2. WellFormed'
    BY <1>2 DEF TypeInv, TypeOK, WellFormed, Driving, Arrive, Goto
  <2> QED
    BY <2>1, <2>2 DEF TypeInv
<1>3. ASSUME NEW h \in Handler, NEW t \in Task, RunTask(h, t)
      PROVE  TypeInv'
  <2>1. /\ Transition("running", "started", None, None) \in TransitionArgs
        /\ Transition("running", "started", None, None).reason \notin Outcome
    BY TransitionTypes DEF TaskStatus, Reason, Outcome
  <2> QED
    BY <1>2, <1>3, <2>1 DEF RunTask
<1>4. ASSUME NEW h \in Handler, NEW t \in Task, NEW s \in Subject, ApproveTask(h, t, s)
      PROVE  TypeInv'
  <2>1. /\ Transition("running", "approved", s, None) \in TransitionArgs
        /\ Transition("running", "approved", s, None).reason \notin Outcome
    BY TransitionTypes DEF TaskStatus, Reason, Outcome
  <2> QED
    BY <1>2, <1>4, <2>1 DEF ApproveTask
<1>5. ASSUME NEW h \in Handler, NEW t \in Task, NEW s \in Subject, RejectTask(h, t, s)
      PROVE  TypeInv'
  <2>1. /\ Transition("cancelled", "rejected", s, None) \in TransitionArgs
        /\ Transition("cancelled", "rejected", s, None).reason \notin Outcome
    BY TransitionTypes DEF TaskStatus, Reason, Outcome
  <2> QED
    BY <1>2, <1>5, <2>1 DEF RejectTask
<1>6. ASSUME NEW h \in Handler, NEW t \in Task, NEW s \in Subject, CancelTask(h, t, s)
      PROVE  TypeInv'
  <2>1. /\ Transition("cancelled", "cancelled", s, None) \in TransitionArgs
        /\ Transition("cancelled", "cancelled", s, None).reason \notin Outcome
    BY TransitionTypes DEF TaskStatus, Reason, Outcome
  <2> QED
    BY <1>2, <1>6, <2>1 DEF CancelTask
<1>7. ASSUME NEW h \in Handler, CheckPolicy(h)
      PROVE  TypeInv'
  <2>1. CASE Return(h)
    BY <1>7, <2>1, ReturnTypeInv DEF CheckPolicy
  <2>2. CASE Goto(h, "require") /\ UNCHANGED <<on, tx, cur, state, turn>>
    BY <1>7, <2>2 DEF CheckPolicy, Goto, Label, TypeInv, TypeOK, WellFormed, Driving, historyVars
  <2> QED
    BY <1>7, <2>1, <2>2 DEF CheckPolicy
<1>8. ASSUME NEW h \in Handler, RequirePaused(h)
      PROVE  TypeInv'
  <2> DEFINE task == store[on[h]]
  <2>1. /\ on[h] \in Task /\ task \in AgentTask
        /\ tx[h].reason = "approved" => task.checkpoint \in RunCheckpoint
        /\ task.version \in Nat
    BY <1>8 DEF RequirePaused, Resumable, TypeInv, TypeOK, WellFormed, AgentTask
  <2>2. [tx[h] EXCEPT !.expected = task.version] \in TransitionArgs
    BY <2>1 DEF TypeInv, TypeOK, TransitionArgs
  <2>3. tx[h].reason = "approved" =>
          /\ Resuming(task.checkpoint) \in RunState
          /\ task.checkpoint.calls \in SUBSET Call
    BY <2>1 DEF Resuming, RunState, RunCheckpoint
  <2>4. tx' = [tx EXCEPT ![h] = [tx[h] EXCEPT !.expected = task.version]]
    BY <1>8 DEF RequirePaused
  <2>5. state' \in [Handler -> RunState] /\ turn' \in [Handler -> SUBSET Call]
    BY <1>8, <2>3 DEF RequirePaused, TypeInv, TypeOK
  <2>6. TypeOK'
    BY <1>8, <2>2, <2>4, <2>5 DEF RequirePaused, Goto, Label, TypeInv, TypeOK, historyVars
  <2>7. tx'[h].reason = tx[h].reason /\ \A g \in Handler : g # h => tx'[g] = tx[g]
    BY <2>4 DEF TypeInv, TypeOK, TransitionArgs
  <2>8. Driving(h)' => store[on[h]] # None
    BY <1>8, <2>1, NoneIsNoValue
  <2>9. WellFormed'
    BY <1>8, <2>1, <2>7, <2>8, NoneIsNoValue
    DEF RequirePaused, Goto, Driving, TypeInv, TypeOK, WellFormed
  <2> QED
    BY <2>6, <2>9 DEF TypeInv
<1>9. ASSUME NEW h \in Handler, NotPaused(h)
      PROVE  TypeInv'
  BY <1>9, ReturnTypeInv DEF NotPaused
<1>10. ASSUME NEW h \in Handler, LoadTask(h)
       PROVE  TypeInv'
  <2>1. CASE TransitionRefused(h)
    BY <1>10, <2>1, RefusedTypeInv DEF LoadTask
  <2>2. CASE /\ Admissible(store[on[h]], tx[h])
             /\ Goto(h, "write")
             /\ cur' = [cur EXCEPT ![h] = store[on[h]]]
             /\ UNCHANGED <<store, on, tx, state, turn, historyVars>>
    <3>1. store[on[h]] \in AgentTask /\ store[on[h]] # None /\ on[h] \in Task
      BY <1>10, <2>2 DEF LoadTask, Admissible, TypeInv, TypeOK, WellFormed
    <3>2. TypeOK'
      BY <2>2, <3>1 DEF Goto, Label, TypeInv, TypeOK, historyVars
    <3>3. WellFormed'
      BY <2>2, <3>1 DEF Goto, Driving, TypeInv, TypeOK, WellFormed
    <3> QED
      BY <3>2, <3>3 DEF TypeInv
  <2> QED
    BY <1>10, <2>1, <2>2 DEF LoadTask
<1>11. ASSUME NEW h \in Handler, StoreTask(h)
       PROVE  TypeInv'
  <2>1. pc[h] = "write" /\ Commit(h)
    BY <1>11 DEF StoreTask
  <2>2. CASE Return(h)
    <3>1. TypeOK'
      BY <2>1, <2>2, CommitTypes, ReturnTypes DEF TypeInv, TypeOK
    <3>2. WellFormed'
      BY <2>1, <2>2, CommitTypes, ReturnWellFormed
    <3> QED
      BY <3>1, <3>2 DEF TypeInv
  <2>3. CASE /\ Goto(h, IF tx[h].reason = "started" THEN "loop" ELSE "tools")
             /\ cur' = [cur EXCEPT ![h] = None]
             /\ UNCHANGED <<on, tx, state, turn>>
    <3>1. TypeOK'
      BY <2>1, <2>3, CommitTypes DEF TypeInv, TypeOK, Goto, Label
    <3>2. WellFormed'
      BY <2>1, <2>3, CommitTypes DEF TypeInv, TypeOK, WellFormed, Driving, Outcome, Goto
    <3> QED
      BY <3>1, <3>2 DEF TypeInv
  <2> QED
    BY <1>11, <2>2, <2>3 DEF StoreTask
<1>12. ASSUME NEW h \in Handler, StaleWrite(h)
       PROVE  TypeInv'
  BY <1>12, RefusedTypeInv DEF StaleWrite
<1>13. ASSUME NEW h \in Handler, BudgetExhausted(h)
       PROVE  TypeInv'
  <2>1. "failed" \in TaskStatus /\ "budget" \in Outcome
    BY DEF TaskStatus, Outcome
  <2>2. TypeOK'
    BY <1>13, <2>1, FinishTypes DEF BudgetExhausted, TypeInv, TypeOK, historyVars
  <2>3. WellFormed'
    BY <1>13, <2>1, FinishTypes DEF BudgetExhausted, Driving, TypeInv, TypeOK, WellFormed
  <2> QED
    BY <2>2, <2>3 DEF TypeInv
<1>14. ASSUME NEW h \in Handler, Abandon(h)
       PROVE  TypeInv'
  BY <1>14 DEF Abandon, Goto, Label, Driving, TypeInv, TypeOK, WellFormed, historyVars
<1>15. ASSUME NEW h \in Handler, AskModel(h)
       PROVE  TypeInv'
  <2>1. [state[h] EXCEPT !.steps = @ + 1] \in RunState /\ state[h].steps + 1 # 0
    BY DEF TypeInv, TypeOK, RunState
  <2>2. state' = [state EXCEPT ![h] = [state[h] EXCEPT !.steps = @ + 1]]
    BY <1>15 DEF AskModel
  <2>3. on[h] \in Task /\ spent[on[h]] + 1 \in Nat
    BY <1>15 DEF AskModel, TypeInv, TypeOK, WellFormed
  <2>4. TypeOK'
    BY <1>15, <2>1, <2>2, <2>3 DEF AskModel, Goto, Label, TypeInv, TypeOK
  <2>5. state'[h].steps # 0 /\ \A g \in Handler : g # h => state'[g] = state[g]
    BY <2>1, <2>2 DEF TypeInv, TypeOK, RunState
  <2>6. WellFormed'
    BY <1>15, <2>5 DEF AskModel, Goto, Driving, TypeInv, TypeOK, WellFormed
  <2> QED
    BY <2>4, <2>6 DEF TypeInv
<1>16. ASSUME NEW h \in Handler, NEW reason \in Outcome, ModelConcludes(h, reason)
       PROVE  TypeInv'
  <2>1. PICK target \in TaskStatus : Finish(h, target, reason, None)
    BY <1>16 DEF ModelConcludes, TaskStatus
  <2>2. TypeOK'
    BY <1>16, <2>1, FinishTypes, ReplyTypes DEF ModelConcludes, Reply, TypeInv, TypeOK
  <2>3. WellFormed'
    BY <1>16, <2>1, FinishTypes DEF ModelConcludes, Reply, Driving, TypeInv, TypeOK, WellFormed
  <2> QED
    BY <2>2, <2>3 DEF TypeInv
<1>17. ASSUME NEW h \in Handler, NEW calls \in SUBSET Call \ {{}}, ModelAsksForTools(h, calls)
       PROVE  TypeInv'
  <2>1. /\ pc[h] = "model" /\ UNCHANGED <<store, on, cur, runs, spent, ran, released, state>>
        /\ asked' = [asked EXCEPT ![on[h]][state[h].steps] = calls]
    BY <1>17 DEF ModelAsksForTools, Reply
  <2>2. asked' \in [Task -> [Steps -> SUBSET Call]] /\ late' \in [Task -> Nat]
    <3>1. late' \in [Task -> Nat]
      BY <1>17, ReplyTypes DEF ModelAsksForTools
    <3>2. on[h] \in Task /\ asked[on[h]] \in [Steps -> SUBSET Call]
      BY <2>1 DEF TypeInv, TypeOK, WellFormed
    <3>3. [asked[on[h]] EXCEPT ![state[h].steps] = calls] \in [Steps -> SUBSET Call]
      BY <3>2
    <3>4. asked' = [asked EXCEPT ![on[h]] = [asked[on[h]] EXCEPT ![state[h].steps] = calls]]
      BY <2>1
    <3>5. asked' \in [Task -> [Steps -> SUBSET Call]]
      BY <3>2, <3>3, <3>4 DEF TypeInv, TypeOK
    <3> QED
      BY <3>1, <3>5
  <2>3. CASE HoldsTurn(calls)
    <3>1. /\ Finish(h, "awaiting_approval", "paused", Checkpoint(h, calls))
          /\ UNCHANGED turn
      BY <1>17, <2>3 DEF ModelAsksForTools
    <3>2. /\ "awaiting_approval" \in TaskStatus /\ "paused" \in Outcome
          /\ Checkpoint(h, calls) \in RunCheckpoint \cup {None}
      BY <2>1, CheckpointType DEF TaskStatus, Outcome
    <3>3. TypeOK'
      BY <2>1, <2>2, <3>1, <3>2, FinishTypes DEF TypeInv, TypeOK
    <3>4. WellFormed'
      BY <2>1, <3>1, <3>2, FinishTypes DEF Driving, TypeInv, TypeOK, WellFormed
    <3> QED
      BY <3>3, <3>4 DEF TypeInv
  <2>4. CASE ~HoldsTurn(calls)
    <3>1. Goto(h, "tools") /\ turn' = [turn EXCEPT ![h] = calls] /\ UNCHANGED tx
      BY <1>17, <2>4 DEF ModelAsksForTools
    <3>2. TypeOK'
      BY <2>1, <2>2, <3>1 DEF Goto, Label, TypeInv, TypeOK
    <3>3. WellFormed'
      BY <2>1, <3>1 DEF Goto, Driving, TypeInv, TypeOK, WellFormed
    <3> QED
      BY <3>2, <3>3 DEF TypeInv
  <2> QED
    BY <2>3, <2>4
<1>18. ASSUME NEW h \in Handler, ExecuteTurn(h)
       PROVE  TypeInv'
  <2>1. Cardinality(turn[h]) \in Nat
    BY DeploymentAssumption, FS_Subset, FS_CardinalityType DEF TypeInv, TypeOK
  <2>2. [state[h] EXCEPT !.tool_calls = @ + Cardinality(turn[h])] \in RunState
    <3>1. state[h].steps \in Nat /\ state[h].tool_calls + Cardinality(turn[h]) \in Nat
      BY <2>1 DEF TypeInv, TypeOK, RunState
    <3>2. [state[h] EXCEPT !.tool_calls = @ + Cardinality(turn[h])] =
            [steps |-> state[h].steps, tool_calls |-> state[h].tool_calls + Cardinality(turn[h])]
      BY DEF TypeInv, TypeOK, RunState
    <3> QED
      BY <3>1, <3>2 DEF RunState
  <2>3. state' = [state EXCEPT ![h] = [state[h] EXCEPT !.tool_calls = @ + Cardinality(turn[h])]]
    BY <1>18 DEF ExecuteTurn
  <2>4. ran' \in [Task -> [Steps -> Nat]]
    <3>1. on[h] \in Task /\ ran[on[h]] \in [Steps -> Nat]
      BY <1>18 DEF ExecuteTurn, TypeInv, TypeOK, WellFormed
    <3>2. [ran[on[h]] EXCEPT ![state[h].steps] = @ + 1] \in [Steps -> Nat]
      BY <3>1, IncrementType
    <3>3. ran' = [ran EXCEPT ![on[h]] = [ran[on[h]] EXCEPT ![state[h].steps] = @ + 1]]
      BY <1>18 DEF ExecuteTurn
    <3> QED
      BY <3>1, <3>2, <3>3 DEF TypeInv, TypeOK
  <2>5. TypeOK'
    BY <1>18, <2>2, <2>3, <2>4 DEF ExecuteTurn, Goto, Label, TypeInv, TypeOK
  <2>6. \A g \in Handler : g # h => state'[g] = state[g]
    BY <2>3 DEF TypeInv, TypeOK
  <2>7. WellFormed'
    BY <1>18, <2>6 DEF ExecuteTurn, Goto, Driving, TypeInv, TypeOK, WellFormed
  <2> QED
    BY <2>5, <2>7 DEF TypeInv
<1>19. ASSUME NEW h \in Handler, Discard(h)
       PROVE  TypeInv'
  BY <1>19, ReturnTypeInv DEF Discard
<1>20. ASSUME NEW p \in Replica, Crash(p)
       PROVE  TypeInv'
  <2>1. NoTransition \in TransitionArgs /\ FreshRun \in RunState
    BY DEF NoTransition, Transition, TransitionArgs, TaskStatus, Reason, FreshRun, RunState
  <2>2. TypeOK'
    BY <1>20, <2>1 DEF Crash, Label, TypeInv, TypeOK, historyVars
  <2>3. \A h \in Handler : \/ pc'[h] = "idle"
                           \/ /\ pc'[h] = pc[h] /\ on'[h] = on[h] /\ tx'[h] = tx[h]
                              /\ cur'[h] = cur[h] /\ state'[h] = state[h]
    BY <1>20 DEF Crash
  <2>4. store' = store
    BY <1>20 DEF Crash
  <2>5. WellFormed'
    BY <2>3, <2>4 DEF Driving, Outcome, TypeInv, WellFormed
  <2> QED
    BY <2>2, <2>5 DEF TypeInv
<1>21. ASSUME NEW h \in Handler, ReadFails(h)
       PROVE  TypeInv'
  BY <1>21, ReturnTypeInv DEF ReadFails
<1>22. ASSUME NEW h \in Handler, WriteFails(h)
       PROVE  TypeInv'
  <2>1. pc[h] = "write" /\ Return(h)
    BY <1>22 DEF WriteFails
  <2>2. CASE UNCHANGED <<store, historyVars>>
    BY <2>1, <2>2, ReturnTypeInv
  <2>3. CASE Commit(h)
    <3>1. TypeOK'
      BY <2>1, <2>3, CommitTypes, ReturnTypes DEF TypeInv, TypeOK
    <3>2. WellFormed'
      BY <2>1, <2>3, CommitTypes, ReturnWellFormed
    <3> QED
      BY <3>1, <3>2 DEF TypeInv
  <2> QED
    BY <1>22, <2>2, <2>3 DEF WriteFails
<1>23. ASSUME NEW h \in Handler, ModelDefect(h)
       PROVE  TypeInv'
  BY <1>23, ReturnTypeInv DEF ModelDefect
<1>24. CASE UNCHANGED vars
  BY <1>24 DEF vars, requestVars, historyVars, TypeInv, TypeOK, WellFormed, Driving
<1> QED
  BY <1>1, <1>3, <1>4, <1>5, <1>6, <1>7, <1>8, <1>9, <1>10, <1>11, <1>12, <1>13, <1>14,
     <1>15, <1>16, <1>17, <1>18, <1>19, <1>20, <1>21, <1>22, <1>23, <1>24
  DEF Next, Requests, Work, Failures

\* Every variable keeps its type, under every fault (the type invariant the runs
\* check).
THEOREM TypeCorrect == Spec => []TypeOK
<1>1. Spec => []TypeInv
  BY InitTypeInv, NextTypeInv, PTL DEF Spec
<1>2. TypeInv => TypeOK
  BY DEF TypeInv
<1> QED
  BY <1>1, <1>2, PTL

----------------------------------------------------------------------------
(* Versions.  Between its read and its write a handler holds a snapshot of *)
(* the task, and with it the right to make one particular transition.      *)

\* The target of a transition follows from its reason.
TargetOf(reason) ==
  CASE reason \in {"started", "approved"}   -> "running"
    [] reason \in {"rejected", "cancelled"} -> "cancelled"
    [] reason = "paused"                    -> "awaiting_approval"
    [] reason = "answered"                  -> "completed"
    [] OTHER                                -> "failed"

Instructed(h) ==
  pc[h] # "idle" =>
    /\ tx[h].target = TargetOf(tx[h].reason)
    /\ pc[h] \in {"policy", "require"} => tx[h].reason \in {"approved", "rejected"}

Snapshot(h) ==
  pc[h] = "write" =>
    /\ cur[h].version <= store[on[h]].version
    /\ cur[h].version = store[on[h]].version => cur[h] = store[on[h]]
    /\ CanTransition(cur[h], tx[h].target)

Active(h) == Driving(h) => store[on[h]].status \in {"running", "cancelled"}

CoreInv ==
  /\ TypeInv
  /\ \A h \in Handler : Instructed(h) /\ Snapshot(h) /\ Active(h)
  /\ OneDriver

LEMMA InitCoreInv == Init => CoreInv
BY InitTypeInv DEF Init, CoreInv, Instructed, Snapshot, Active, OneDriver, Driving

\* Which status a transition leaves behind, by its reason.
LEMMA Moves ==
  ASSUME NEW from \in TaskStatus, NEW reason \in Reason,
         TargetOf(reason) \in AllowedTransitions[from]
  PROVE  /\ reason \in {"started", "approved"} =>
              from \in {"pending", "awaiting_approval"} /\ TargetOf(reason) = "running"
         /\ reason \in Outcome => from = "running"
         /\ reason \in {"rejected", "cancelled"} => TargetOf(reason) = "cancelled"
BY DEF TargetOf, AllowedTransitions, TaskStatus, Reason, Outcome

\* A step of one request that leaves the store alone disturbs nothing, as long
\* as the request knows what it does next and does not begin to drive a run.
LEMMA LocalStep ==
  ASSUME CoreInv, TypeInv', NEW h \in Handler, UNCHANGED store,
         \A g \in Handler \ {h} : /\ pc'[g] = pc[g] /\ on'[g] = on[g]
                                  /\ tx'[g] = tx[g] /\ cur'[g] = cur[g],
         Instructed(h)', Snapshot(h)',
         Driving(h)' => Driving(h) /\ on'[h] = on[h]
  PROVE  CoreInv'
<1>1. ASSUME NEW g \in Handler \ {h}
      PROVE  /\ Instructed(g)' /\ Snapshot(g)' /\ Active(g)'
             /\ Driving(g)' <=> Driving(g)
  BY <1>1 DEF CoreInv, Instructed, Snapshot, Active, Driving
<1>2. Active(h)'
  BY DEF CoreInv, Active
<1>3. OneDriver'
  BY <1>1 DEF CoreInv, OneDriver
<1> QED
  BY <1>1, <1>2, <1>3 DEF CoreInv

\* What a committed transition does to the store.
LEMMA CommitStep ==
  ASSUME CoreInv, NEW h \in Handler, pc[h] = "write", Commit(h)
  PROVE  /\ on[h] \in Task /\ store[on[h]] \in AgentTask /\ cur[h] = store[on[h]]
         /\ store' = [store EXCEPT ![on[h]] =
                        TransitionTo(store[on[h]], tx[h].target, tx[h].reason, tx[h].by,
                                     tx[h].checkpoint)]
         /\ \A t \in Task \ {on[h]} : store'[t] = store[t]
         /\ store'[on[h]].status = tx[h].target
         /\ store'[on[h]].version = store[on[h]].version + 1
         /\ tx[h].target \in AllowedTransitions[store[on[h]].status]
         /\ tx[h].target = TargetOf(tx[h].reason)
         /\ tx[h].reason \in Reason
<1>1. /\ on[h] \in Task /\ store[on[h]] \in AgentTask
      /\ tx[h].reason \in Reason
      /\ store \in [Task -> AgentTask \cup {None}]
  BY DEF CoreInv, TypeInv, TypeOK, WellFormed, TransitionArgs
<1>2. cur[h] = store[on[h]]
  BY DEF Commit, Update, CoreInv, Snapshot
<1> DEFINE next == TransitionTo(store[on[h]], tx[h].target, tx[h].reason, tx[h].by,
                                tx[h].checkpoint)
<1>3. store' = [store EXCEPT ![on[h]] = next]
  BY <1>2 DEF Commit, Update
<1>4. next.status = tx[h].target /\ next.version = store[on[h]].version + 1
  BY <1>1 DEF TransitionTo, AgentTask
<1>5. /\ tx[h].target \in AllowedTransitions[store[on[h]].status]
      /\ tx[h].target = TargetOf(tx[h].reason)
  BY <1>2 DEF CoreInv, Snapshot, Instructed, CanTransition
<1> HIDE DEF next
<1>6. /\ \A t \in Task \ {on[h]} : store'[t] = store[t]
      /\ store'[on[h]] = next
  BY <1>1, <1>3
<1> QED
  BY <1>1, <1>2, <1>3, <1>4, <1>5, <1>6 DEF next

\* A committed transition outdates every other snapshot of its task, gives it a
\* driver only when it has none, and takes it from nobody but the committer.
LEMMA CommitCoreInv ==
  ASSUME CoreInv, TypeInv', NEW h \in Handler, pc[h] = "write", Commit(h),
         \A g \in Handler \ {h} : /\ pc'[g] = pc[g] /\ on'[g] = on[g]
                                  /\ tx'[g] = tx[g] /\ cur'[g] = cur[g],
         \/ pc'[h] = "idle"
         \/ /\ pc'[h] \in {"loop", "tools"} /\ on'[h] = on[h] /\ tx'[h] = tx[h]
            /\ tx[h].reason \in {"started", "approved"}
  PROVE  CoreInv'
<1> DEFINE t == on[h]
           from == store[t].status
<1>1. /\ from \in TaskStatus /\ store[t].version \in Nat
      /\ tx[h].reason \in Reason /\ t \in Task
  BY CommitStep DEF AgentTask
<1>2. /\ tx[h].reason \in {"started", "approved"} =>
           from \in {"pending", "awaiting_approval"} /\ store'[t].status = "running"
      /\ tx[h].reason \in Outcome => from = "running" /\ Driving(h)
      /\ tx[h].reason \in {"rejected", "cancelled"} => store'[t].status = "cancelled"
  BY <1>1, CommitStep, Moves DEF Driving
<1>3. tx[h].reason \in {"started", "approved", "rejected", "cancelled"} \cup Outcome
  BY <1>1 DEF Reason, Outcome
<1>4. ASSUME NEW g \in Handler \ {h}
      PROVE  /\ Instructed(g)' /\ Snapshot(g)' /\ Active(g)'
             /\ Driving(g)' <=> Driving(g)
             /\ Driving(g)' /\ Driving(h)' => on'[g] # on'[h]
  <2>1. Instructed(g)' /\ (Driving(g)' <=> Driving(g))
    BY <1>4 DEF CoreInv, Instructed, Driving
  <2>2. Snapshot(g)'
    <3> SUFFICES ASSUME pc[g] = "write"
                 PROVE  Snapshot(g)'
      BY <1>4 DEF Snapshot
    <3>1. /\ cur[g].version \in Nat /\ on[g] \in Task
          /\ cur[g].version <= store[on[g]].version
          /\ cur[g].version = store[on[g]].version => cur[g] = store[on[g]]
          /\ CanTransition(cur[g], tx[g].target)
      BY <1>4 DEF CoreInv, Snapshot, TypeInv, TypeOK, WellFormed, AgentTask
    <3>2. CASE on[g] = t
      BY <1>1, <1>4, <3>1, <3>2, CommitStep DEF Snapshot, CanTransition
    <3>3. CASE on[g] # t
      BY <1>4, <3>1, <3>3, CommitStep DEF Snapshot, CanTransition
    <3> QED
      BY <3>2, <3>3
  <2>3. ASSUME Driving(g), on[g] = t
        PROVE  tx[h].reason \in {"rejected", "cancelled"}
    <3>1. from \in {"running", "cancelled"}
      BY <1>4, <2>3 DEF CoreInv, Active
    <3>2. tx[h].reason \notin Outcome
      BY <1>2, <1>4, <2>3 DEF CoreInv, OneDriver
    <3> QED
      BY <1>2, <1>3, <3>1, <3>2
  <2>4. Active(g)'
    <3>1. ASSUME Driving(g)
          PROVE  store'[on[g]].status \in {"running", "cancelled"}
      <4>1. CASE on[g] = t
        BY <1>2, <2>3, <3>1, <4>1
      <4>2. CASE on[g] # t
        <5>1. on[g] \in Task
          BY <1>4, <3>1 DEF CoreInv, TypeInv, WellFormed, Driving
        <5> QED
          BY <1>4, <3>1, <4>2, <5>1, CommitStep DEF CoreInv, Active
      <4> QED
        BY <4>1, <4>2
    <3> QED
      BY <1>4, <2>1, <3>1 DEF Active
  <2>5. Driving(g)' /\ Driving(h)' => on'[g] # on'[h]
    <3>1. Driving(h)' => on'[h] = t /\ tx[h].reason \in {"started", "approved"}
      BY DEF Driving
    <3> QED
      BY <1>4, <2>1, <2>3, <3>1
  <2> QED
    BY <2>1, <2>2, <2>4, <2>5
<1>5. Instructed(h)' /\ Snapshot(h)'
  BY DEF CoreInv, Instructed, Snapshot
<1>6. Active(h)'
  BY <1>2 DEF Active, Driving
<1>7. OneDriver'
  BY <1>4 DEF CoreInv, OneDriver
<1> QED
  BY <1>4, <1>5, <1>6, <1>7 DEF CoreInv

\* A request that is over is nobody's snapshot and nobody's driver.
LEMMA ReturnCoreInv ==
  ASSUME CoreInv, TypeInv', NEW h \in Handler, Return(h), UNCHANGED store
  PROVE  CoreInv'
<1>1. /\ pc'[h] = "idle"
      /\ \A g \in Handler \ {h} : /\ pc'[g] = pc[g] /\ on'[g] = on[g]
                                  /\ tx'[g] = tx[g] /\ cur'[g] = cur[g]
  BY ReturnTypes DEF CoreInv, TypeInv, TypeOK
<1>2. Instructed(h)' /\ Snapshot(h)' /\ ~Driving(h)'
  BY <1>1 DEF Instructed, Snapshot, Driving
<1> QED
  BY <1>1, <1>2, LocalStep

LEMMA RefusedCoreInv ==
  ASSUME CoreInv, TypeInv', NEW h \in Handler, TransitionRefused(h), pc[h] \in {"load", "write"}
  PROVE  CoreInv'
<1>1. CASE tx[h].reason \in Outcome
  <2>1. /\ pc'[h] = "discard" /\ tx' = tx /\ on' = on /\ UNCHANGED store
        /\ \A g \in Handler \ {h} : pc'[g] = pc[g] /\ cur'[g] = cur[g]
    BY <1>1 DEF TransitionRefused, Goto, CoreInv, TypeInv, TypeOK
  <2>2. Instructed(h)' /\ Snapshot(h)' /\ ~Driving(h)'
    BY <2>1 DEF CoreInv, Instructed, Snapshot, Driving
  <2> QED
    BY <2>1, <2>2, LocalStep
<1>2. CASE tx[h].reason \notin Outcome
  BY <1>2, ReturnCoreInv DEF TransitionRefused
<1> QED
  BY <1>1, <1>2

\* The driver of a run hands its outcome to transition_task, still driving.
LEMMA FinishCoreInv ==
  ASSUME CoreInv, TypeInv', NEW h \in Handler, pc[h] \in {"loop", "model"},
         NEW target \in TaskStatus, NEW reason \in Outcome, NEW checkpoint \in RunCheckpoint \cup {None},
         target = TargetOf(reason),
         Finish(h, target, reason, checkpoint), UNCHANGED <<store, on, cur>>
  PROVE  CoreInv'
<1>1. /\ pc'[h] = "load" /\ tx'[h] = Transition(target, reason, None, checkpoint)
      /\ \A g \in Handler : g # h => pc'[g] = pc[g] /\ tx'[g] = tx[g]
  BY FinishTypes DEF CoreInv
<1>2. Instructed(h)' /\ Snapshot(h)'
  BY <1>1 DEF Instructed, Snapshot, Transition
<1>3. Driving(h)
  BY DEF Driving
<1> QED
  BY <1>1, <1>2, <1>3, LocalStep

LEMMA ArriveCoreInv ==
  ASSUME CoreInv, TypeInv', NEW h \in Handler, NEW t \in Task,
         NEW label \in {"policy", "require", "load"}, NEW transition,
         transition.reason \in {"started", "approved", "rejected", "cancelled"},
         transition.target = TargetOf(transition.reason),
         label # "load" => transition.reason \in {"approved", "rejected"},
         Arrive(h, t, label, transition)
  PROVE  CoreInv'
<1>1. /\ pc'[h] = label /\ tx'[h] = transition /\ UNCHANGED <<store, cur>>
      /\ \A g \in Handler \ {h} : pc'[g] = pc[g] /\ tx'[g] = tx[g] /\ on'[g] = on[g]
  BY DEF Arrive, Goto, CoreInv, TypeInv, TypeOK
<1>2. Instructed(h)' /\ Snapshot(h)' /\ ~Driving(h)'
  BY <1>1 DEF Instructed, Snapshot, Driving, Outcome
<1> QED
  BY <1>1, <1>2, LocalStep

LEMMA RequestCoreInv ==
  ASSUME CoreInv, TypeInv', Requests
  PROVE  CoreInv'
<1>1. ASSUME NEW t \in Task, NEW s \in Subject, CreateTask(t, s)
      PROVE  CoreInv'
  <2>1. /\ store[t] = None /\ UNCHANGED <<pc, on, tx, cur>>
        /\ \A u \in Task \ {t} : store'[u] = store[u]
    BY <1>1 DEF CreateTask, requestVars, CoreInv, TypeInv, TypeOK
  <2>2. ASSUME NEW h \in Handler
        PROVE  /\ Instructed(h)' /\ Snapshot(h)' /\ Active(h)'
               /\ Driving(h)' <=> Driving(h)
    <3>1. pc[h] = "write" \/ Driving(h) => on[h] \in Task \ {t}
      BY <2>1 DEF CoreInv, TypeInv, WellFormed, Driving
    <3> QED
      BY <2>1, <3>1 DEF CoreInv, Instructed, Snapshot, Active, Driving
  <2> QED
    BY <2>1, <2>2 DEF CoreInv, OneDriver
<1>2. ASSUME NEW h \in Handler, NEW t \in Task, RunTask(h, t)
      PROVE  CoreInv'
  <2> DEFINE transition == Transition("running", "started", None, None)
  <2>1. transition.reason = "started" /\ transition.target = TargetOf("started")
    BY DEF Transition, TargetOf
  <2>2. Arrive(h, t, "load", transition)
    BY <1>2 DEF RunTask
  <2> HIDE DEF transition
  <2> QED
    BY <2>1, <2>2, ArriveCoreInv
<1>3. ASSUME NEW h \in Handler, NEW t \in Task, NEW s \in Subject, ApproveTask(h, t, s)
      PROVE  CoreInv'
  <2> DEFINE transition == Transition("running", "approved", s, None)
  <2>1. transition.reason = "approved" /\ transition.target = TargetOf("approved")
    BY DEF Transition, TargetOf
  <2>2. Arrive(h, t, "policy", transition)
    BY <1>3 DEF ApproveTask
  <2> HIDE DEF transition
  <2> QED
    BY <2>1, <2>2, ArriveCoreInv
<1>4. ASSUME NEW h \in Handler, NEW t \in Task, NEW s \in Subject, RejectTask(h, t, s)
      PROVE  CoreInv'
  <2> DEFINE transition == Transition("cancelled", "rejected", s, None)
  <2>1. transition.reason = "rejected" /\ transition.target = TargetOf("rejected")
    BY DEF Transition, TargetOf
  <2>2. Arrive(h, t, "require", transition)
    BY <1>4 DEF RejectTask
  <2> HIDE DEF transition
  <2> QED
    BY <2>1, <2>2, ArriveCoreInv
<1>5. ASSUME NEW h \in Handler, NEW t \in Task, NEW s \in Subject, CancelTask(h, t, s)
      PROVE  CoreInv'
  <2> DEFINE transition == Transition("cancelled", "cancelled", s, None)
  <2>1. transition.reason = "cancelled" /\ transition.target = TargetOf("cancelled")
    BY DEF Transition, TargetOf
  <2>2. Arrive(h, t, "load", transition)
    BY <1>5 DEF CancelTask
  <2> HIDE DEF transition
  <2> QED
    BY <2>1, <2>2, ArriveCoreInv
<1> QED
  BY <1>1, <1>2, <1>3, <1>4, <1>5 DEF Requests

LEMMA WorkCoreInv ==
  ASSUME CoreInv, TypeInv', NEW h \in Handler, Work(h)
  PROVE  CoreInv'
<1>1. CASE CheckPolicy(h)
  <2>1. CASE Return(h)
    BY <1>1, <2>1, ReturnCoreInv DEF CheckPolicy
  <2>2. CASE Goto(h, "require") /\ UNCHANGED <<on, tx, cur, state, turn>>
    <3>1. /\ pc'[h] = "require" /\ \A g \in Handler \ {h} : pc'[g] = pc[g]
          /\ pc[h] = "policy" /\ UNCHANGED <<store, on, tx, cur>>
      BY <1>1, <2>2 DEF CheckPolicy, Goto, CoreInv, TypeInv, TypeOK
    <3>2. Instructed(h)' /\ Snapshot(h)' /\ ~Driving(h)'
      BY <3>1 DEF CoreInv, Instructed, Snapshot, Driving
    <3> QED
      BY <3>1, <3>2, LocalStep
  <2> QED
    BY <1>1, <2>1, <2>2 DEF CheckPolicy
<1>2. CASE RequirePaused(h)
  <2>1. /\ pc[h] = "require" /\ pc'[h] = "load" /\ UNCHANGED <<store, on, cur>>
        /\ tx'[h].reason = tx[h].reason /\ tx'[h].target = tx[h].target
        /\ \A g \in Handler \ {h} : pc'[g] = pc[g] /\ tx'[g] = tx[g]
    BY <1>2 DEF RequirePaused, Goto, CoreInv, TypeInv, TypeOK, TransitionArgs
  <2>2. Instructed(h)' /\ Snapshot(h)' /\ ~Driving(h)'
    BY <2>1 DEF CoreInv, Instructed, Snapshot, Driving, Outcome
  <2> QED
    BY <2>1, <2>2, LocalStep
<1>3. CASE NotPaused(h) \/ Discard(h)
  BY <1>3, ReturnCoreInv DEF NotPaused, Discard
<1>4. CASE LoadTask(h)
  <2>1. CASE TransitionRefused(h)
    BY <1>4, <2>1, RefusedCoreInv DEF LoadTask
  <2>2. CASE /\ Admissible(store[on[h]], tx[h])
             /\ Goto(h, "write")
             /\ cur' = [cur EXCEPT ![h] = store[on[h]]]
             /\ UNCHANGED <<store, on, tx, state, turn, historyVars>>
    <3>1. /\ pc[h] = "load" /\ pc'[h] = "write" /\ cur'[h] = store[on[h]]
          /\ UNCHANGED <<store, on, tx>>
          /\ \A g \in Handler \ {h} : pc'[g] = pc[g] /\ cur'[g] = cur[g]
      BY <1>4, <2>2 DEF LoadTask, Goto, CoreInv, TypeInv, TypeOK
    <3>2. CanTransition(store[on[h]], tx[h].target) /\ store[on[h]].version \in Nat
      BY <2>2, <3>1 DEF Admissible, CoreInv, TypeInv, TypeOK, WellFormed, AgentTask
    <3>3. Instructed(h)' /\ Snapshot(h)' /\ (Driving(h)' => Driving(h))
      BY <3>1, <3>2 DEF CoreInv, Instructed, Snapshot, Driving, CanTransition
    <3> QED
      BY <3>1, <3>3, LocalStep
  <2> QED
    BY <1>4, <2>1, <2>2 DEF LoadTask
<1>5. CASE StoreTask(h)
  <2>1. pc[h] = "write" /\ Commit(h)
    BY <1>5 DEF StoreTask
  <2>2. CASE Return(h)
    <3>1. /\ pc'[h] = "idle"
          /\ \A g \in Handler \ {h} : /\ pc'[g] = pc[g] /\ on'[g] = on[g]
                                      /\ tx'[g] = tx[g] /\ cur'[g] = cur[g]
      BY <2>2, ReturnTypes DEF CoreInv, TypeInv, TypeOK
    <3> QED
      BY <2>1, <3>1, CommitCoreInv
  <2>3. CASE /\ tx[h].reason \in {"started", "approved"}
             /\ Goto(h, IF tx[h].reason = "started" THEN "loop" ELSE "tools")
             /\ cur' = [cur EXCEPT ![h] = None]
             /\ UNCHANGED <<on, tx, state, turn>>
    <3>1. /\ pc'[h] \in {"loop", "tools"}
          /\ \A g \in Handler \ {h} : pc'[g] = pc[g] /\ cur'[g] = cur[g]
      BY <2>3 DEF Goto, CoreInv, TypeInv, TypeOK
    <3> QED
      BY <2>1, <2>3, <3>1, CommitCoreInv
  <2> QED
    BY <1>5, <2>2, <2>3 DEF StoreTask
<1>6. CASE StaleWrite(h)
  BY <1>6, RefusedCoreInv DEF StaleWrite
<1>7. CASE BudgetExhausted(h)
  <2>1. "failed" \in TaskStatus /\ "budget" \in Outcome /\ "failed" = TargetOf("budget")
    BY DEF TaskStatus, Outcome, TargetOf
  <2> QED
    BY <1>7, <2>1, FinishCoreInv DEF BudgetExhausted
<1>8. CASE Abandon(h)
  <2>1. /\ pc[h] = "loop" /\ pc'[h] = "discard" /\ UNCHANGED <<store, on, tx, cur>>
        /\ \A g \in Handler \ {h} : pc'[g] = pc[g]
    BY <1>8 DEF Abandon, Goto, CoreInv, TypeInv, TypeOK
  <2>2. Instructed(h)' /\ Snapshot(h)' /\ ~Driving(h)'
    BY <2>1 DEF CoreInv, Instructed, Snapshot, Driving
  <2> QED
    BY <2>1, <2>2, LocalStep
<1>9. CASE AskModel(h) \/ ExecuteTurn(h)
  <2>1. /\ pc[h] \in {"loop", "tools"} /\ pc'[h] \in {"loop", "model"}
        /\ UNCHANGED <<store, on, tx, cur>>
        /\ \A g \in Handler \ {h} : pc'[g] = pc[g]
    BY <1>9 DEF AskModel, ExecuteTurn, Goto, CoreInv, TypeInv, TypeOK
  <2>2. Instructed(h)' /\ Snapshot(h)' /\ Driving(h)
    BY <2>1 DEF CoreInv, Instructed, Snapshot, Driving
  <2> QED
    BY <2>1, <2>2, LocalStep
<1>10. ASSUME NEW reason \in Outcome, ModelConcludes(h, reason)
       PROVE  CoreInv'
  <2> DEFINE target == IF reason = "answered" THEN "completed" ELSE "failed"
  <2>1. /\ pc[h] = "model" /\ UNCHANGED <<store, on, cur>>
        /\ Finish(h, target, reason, None)
    BY <1>10 DEF ModelConcludes, Reply
  <2>2. target \in TaskStatus /\ target = TargetOf(reason)
    BY <1>10 DEF ModelConcludes, TaskStatus, TargetOf
  <2> HIDE DEF target
  <2> QED
    BY <2>1, <2>2, FinishCoreInv
<1>11. ASSUME NEW calls \in SUBSET Call \ {{}}, ModelAsksForTools(h, calls)
       PROVE  CoreInv'
  <2>1. pc[h] = "model" /\ UNCHANGED <<store, on, cur>>
    BY <1>11 DEF ModelAsksForTools, Reply
  <2>2. CASE Finish(h, "awaiting_approval", "paused", Checkpoint(h, calls))
    <3>1. /\ "awaiting_approval" \in TaskStatus /\ "paused" \in Outcome
          /\ "awaiting_approval" = TargetOf("paused")
          /\ Checkpoint(h, calls) \in RunCheckpoint
      BY <2>1, CheckpointType DEF CoreInv, TaskStatus, Outcome, TargetOf
    <3> QED
      BY <2>1, <2>2, <3>1, FinishCoreInv
  <2>3. CASE Goto(h, "tools") /\ UNCHANGED tx
    <3>1. pc'[h] = "tools" /\ \A g \in Handler \ {h} : pc'[g] = pc[g]
      BY <2>3 DEF Goto, CoreInv, TypeInv, TypeOK
    <3>2. Instructed(h)' /\ Snapshot(h)' /\ Driving(h)
      BY <2>1, <2>3, <3>1 DEF CoreInv, Instructed, Snapshot, Driving
    <3> QED
      BY <2>1, <2>3, <3>1, <3>2, LocalStep
  <2> QED
    BY <1>11, <2>2, <2>3 DEF ModelAsksForTools
<1> QED
  BY <1>1, <1>2, <1>3, <1>4, <1>5, <1>6, <1>7, <1>8, <1>9, <1>10, <1>11 DEF Work

LEMMA FailureCoreInv ==
  ASSUME CoreInv, TypeInv', Failures
  PROVE  CoreInv'
<1>1. ASSUME NEW p \in Replica, Crash(p)
      PROVE  CoreInv'
  <2>1. /\ UNCHANGED store
        /\ \A h \in Handler : \/ pc'[h] = "idle"
                              \/ /\ pc'[h] = pc[h] /\ on'[h] = on[h]
                                 /\ tx'[h] = tx[h] /\ cur'[h] = cur[h]
    BY <1>1 DEF Crash
  <2>2. ASSUME NEW h \in Handler
        PROVE  /\ Instructed(h)' /\ Snapshot(h)' /\ Active(h)'
               /\ Driving(h)' => Driving(h) /\ on'[h] = on[h]
    BY <2>1 DEF CoreInv, Instructed, Snapshot, Active, Driving
  <2> QED
    BY <2>2 DEF CoreInv, OneDriver
<1>2. ASSUME NEW h \in Handler, ReadFails(h) \/ ModelDefect(h)
      PROVE  CoreInv'
  BY <1>2, ReturnCoreInv DEF ReadFails, ModelDefect
<1>3. ASSUME NEW h \in Handler, WriteFails(h)
      PROVE  CoreInv'
  <2>1. pc[h] = "write" /\ Return(h)
    BY <1>3 DEF WriteFails
  <2>2. CASE UNCHANGED store
    BY <2>1, <2>2, ReturnCoreInv
  <2>3. CASE Commit(h)
    <3>1. /\ pc'[h] = "idle"
          /\ \A g \in Handler \ {h} : /\ pc'[g] = pc[g] /\ on'[g] = on[g]
                                      /\ tx'[g] = tx[g] /\ cur'[g] = cur[g]
      BY <2>1, ReturnTypes DEF CoreInv, TypeInv, TypeOK
    <3> QED
      BY <2>1, <2>3, <3>1, CommitCoreInv
  <2> QED
    BY <1>3, <2>2, <2>3 DEF WriteFails
<1> QED
  BY <1>1, <1>2, <1>3 DEF Failures

LEMMA NextCoreInv == CoreInv /\ [Next]_vars => CoreInv'
<1> SUFFICES ASSUME CoreInv, [Next]_vars
             PROVE  CoreInv'
  OBVIOUS
<1>1. TypeInv'
  BY NextTypeInv DEF CoreInv
<1>2. CASE UNCHANGED vars
  BY <1>1, <1>2 DEF vars, requestVars, CoreInv, Instructed, Snapshot, Active, OneDriver, Driving
<1> QED
  BY <1>1, <1>2, RequestCoreInv, WorkCoreInv, FailureCoreInv DEF Next

LEMMA CoreInvariant == Spec => []CoreInv
BY InitCoreInv, NextCoreInv, PTL DEF Spec

\* No two coroutines ever drive the same task, whichever requests race and
\* whatever fails (router.py: "a second approver racing this one gets 409
\* rather than a second agent").
THEOREM AtMostOneDriver == Spec => []OneDriver
<1>1. CoreInv => OneDriver
  BY DEF CoreInv
<1> QED
  BY <1>1, CoreInvariant, PTL

\* A writer whose version still matches overwrites the task it read: comparing
\* versions is enough to rule out a lost update (service.py, transition_task).
THEOREM VersionsIdentifyTasks == Spec => []VersionIdentifiesTask
<1>1. CoreInv => VersionIdentifiesTask
  BY DEF CoreInv, Snapshot, VersionIdentifiesTask
<1> QED
  BY <1>1, CoreInvariant, PTL

\* A step changes the store by creating a task, or by committing a transition.
LEMMA StoreChanges ==
  ASSUME Next
  PROVE  \/ UNCHANGED store
         \/ \E t \in Task, s \in Subject : CreateTask(t, s)
         \/ \E h \in Handler : pc[h] = "write" /\ Commit(h)
<1>1. ASSUME NEW h \in Handler, NEW t \in Task, NEW label, NEW transition,
             Arrive(h, t, label, transition)
      PROVE  UNCHANGED store
  BY <1>1 DEF Arrive
<1>2. CASE Requests
  BY <1>1, <1>2 DEF Requests, RunTask, ApproveTask, RejectTask, CancelTask
<1>3. ASSUME NEW h \in Handler, Work(h)
      PROVE  UNCHANGED store \/ (pc[h] = "write" /\ Commit(h))
  <2>1. CASE LoadTask(h) \/ StoreTask(h) \/ StaleWrite(h)
    BY <2>1 DEF LoadTask, StoreTask, StaleWrite, TransitionRefused
  <2>2. CASE CheckPolicy(h) \/ RequirePaused(h) \/ NotPaused(h) \/ Discard(h)
    BY <2>2 DEF CheckPolicy, RequirePaused, NotPaused, Discard
  <2>3. CASE BudgetExhausted(h) \/ Abandon(h) \/ AskModel(h) \/ ExecuteTurn(h)
    BY <2>3 DEF BudgetExhausted, Abandon, AskModel, ExecuteTurn
  <2>4. CASE \/ \E reason \in Outcome : ModelConcludes(h, reason)
             \/ \E calls \in SUBSET Call \ {{}} : ModelAsksForTools(h, calls)
    BY <2>4 DEF ModelConcludes, ModelAsksForTools, Reply
  <2> QED
    BY <1>3, <2>1, <2>2, <2>3, <2>4 DEF Work
<1>4. CASE Failures
  BY <1>4 DEF Failures, Crash, ReadFails, WriteFails, ModelDefect
<1> QED
  BY <1>2, <1>3, <1>4 DEF Next

\* What transition_task stores is the task it read, moved by one legal step.
LEMMA CommitIsAudited ==
  ASSUME CoreInv, NEW h \in Handler, pc[h] = "write", Commit(h)
  PROVE  Audited(store[on[h]], store'[on[h]])
<1> DEFINE task  == store[on[h]]
           entry == [from_status |-> task.status, to_status |-> tx[h].target,
                     reason |-> tx[h].reason, by |-> tx[h].by]
<1>1. /\ task \in AgentTask /\ on[h] \in Task
      /\ store'[on[h]] = TransitionTo(task, tx[h].target, tx[h].reason, tx[h].by,
                                      tx[h].checkpoint)
  BY CommitStep DEF CoreInv, TypeInv, TypeOK
<1>2. /\ store'[on[h]].requested_by = task.requested_by
      /\ store'[on[h]].status = tx[h].target
      /\ store'[on[h]].version = task.version + 1
      /\ store'[on[h]].history = Append(task.history, entry)
  BY <1>1 DEF TransitionTo, AgentTask
<1>3. entry \in [from_status : {task.status}, to_status : {store'[on[h]].status},
                 reason : Reason, by : Subject \cup {None}]
  BY <1>2 DEF CoreInv, TypeInv, TypeOK, TransitionArgs
<1>4. store'[on[h]].status \in AllowedTransitions[task.status]
  BY <1>2, CommitStep
<1> HIDE DEF entry
<1> QED
  BY <1>2, <1>3, <1>4 DEF Audited

\* The history of every task is an audit trail: under races, crashes and store
\* failures, a stored task changes only by one legal, recorded transition
\* (models.py, transition_to; service.py, transition_task).
THEOREM HistoryIsAuditTrail == Spec => AuditTrail
<1> DEFINE Step == \A t \in Task :
                     \/ store'[t] = store[t]
                     \/ store[t] = None /\ store'[t].status = "pending"
                     \/ Audited(store[t], store'[t])
<1>1. ASSUME CoreInv, Next
      PROVE  Step
  <2>1. ASSUME NEW t \in Task, NEW s \in Subject, CreateTask(t, s)
        PROVE  Step
    BY <1>1, <2>1 DEF CreateTask, NewTask, CoreInv, TypeInv, TypeOK
  <2>2. ASSUME NEW h \in Handler, pc[h] = "write", Commit(h)
        PROVE  Step
    BY <1>1, <2>2, CommitStep, CommitIsAudited
  <2> QED
    BY <1>1, <2>1, <2>2, StoreChanges
<1>2. CoreInv /\ [Next]_vars => [Step]_store
  BY <1>1 DEF vars
<1> QED
  BY <1>2, CoreInvariant, PTL DEF Spec, AuditTrail
=============================================================================
