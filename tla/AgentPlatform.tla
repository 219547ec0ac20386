--------------------------- MODULE AgentPlatform ---------------------------
(***************************************************************************)
(* The core of the platform: HTTP requests that create, run, approve,      *)
(* reject and cancel agent tasks, all of them racing on one task store     *)
(* (tasks/router.py, tasks/service.py, agent/runner.py).                   *)
(*                                                                         *)
(* A handler is one request in flight.  The code runs it as a coroutine,   *)
(* so it can be interleaved with every other handler at each await; a      *)
(* step here is the code between two awaits that matter: a store read, a   *)
(* store write, a model call, the execution of one turn of tool calls.     *)
(* Reading and writing the store are separate steps, as they are with the  *)
(* PostgreSQL adapter and with several API processes; the in-memory        *)
(* adapter allows a subset of these interleavings.                         *)
(***************************************************************************)
EXTENDS TaskLifecycle, FiniteSets

CONSTANTS Task,            \* the tasks that may be created
          Handler,         \* requests that can be in flight at the same time
          Writers,         \* subjects holding tasks:write
          Approvers,       \* subjects holding tasks:approve
          Risk,            \* Call -> rank of its tool's risk, None if unregistered
          AutoApproveUpTo, \* rank up to which a tool runs without a human
          SecondPerson,    \* ApprovalPolicy.requires_second_person
          MaxSteps,        \* the runner's max_steps
          MaxRuns,         \* bound on the runs requested for one task (not in the code)
          Replica,         \* API processes
          Home,            \* [Handler -> Replica]: where a request is served
          Faults           \* which of the faults below may happen

ASSUME SubjectsAssumption ==
  /\ Writers \subseteq Subject
  /\ Approvers \subseteq Subject

ASSUME RunnerAssumption ==       \* AgentRunner.__init__ refuses max_steps < 1
  /\ MaxSteps \in Nat \ {0}
  /\ MaxRuns \in Nat
  /\ AutoApproveUpTo \in 0..2
  /\ Risk \in [Call -> 0..2 \cup {None}] /\ None \notin 0..2
  /\ SecondPerson \in BOOLEAN

ASSUME DeploymentAssumption ==
  /\ IsFiniteSet(Call)
  /\ Home \in [Handler -> Replica]
  /\ Faults \subseteq {"crash", "store", "model_defect"}

VARIABLES
  store,     \* the task repository: Task -> AgentTask, None where there is no row
  pc,        \* where each handler stands
  on,        \* the task a handler works on
  tx,        \* the arguments of the transition_task call it makes, or will make
  cur,       \* the task as transition_task read it
  state,     \* _RunState of the run it drives
  turn,      \* the tool calls it is about to run
  \* History variables: what happened to each task, and in its latest run.
  runs,      \* runs started
  spent,     \* model calls begun in the latest run
  asked,     \* calls the model asked for on each turn of the latest run
  ran,       \* how often each of these turns was executed
  released,  \* whose approval released each of these turns
  late       \* model replies received for a task no longer running

requestVars == <<pc, on, tx, cur, state, turn>>
historyVars == <<runs, spent, asked, ran, released, late>>
vars == <<store, requestVars, historyVars>>

Steps == 1..MaxSteps

----------------------------------------------------------------------------
(* Local state of a handler.                                               *)

Label == {"idle", "policy", "require", "load", "write",
          "loop", "model", "tools", "discard"}

\* _RunState: the counters of a run, as its driver keeps them.
RunState == [steps : Nat, tool_calls : Nat]

TransitionArgs ==
  [target : TaskStatus, reason : Reason, by : Subject \cup {None},
   checkpoint : RunCheckpoint \cup {None}, expected : Nat]

\* The keyword arguments of transition_task; expected = 0 stands for None.
Transition(target, reason, by, checkpoint) ==
  [target |-> target, reason |-> reason, by |-> by,
   checkpoint |-> checkpoint, expected |-> 0]

NoTransition == Transition("running", "started", None, None)
FreshRun     == [steps |-> 0, tool_calls |-> 0]

\* -- variants: the tool-call counter, or the step counter, starts over
Resuming_CallsLost(checkpoint) == [steps |-> checkpoint.steps, tool_calls |-> 0]
Resuming_BudgetRefilled(checkpoint) ==
  [steps |-> 0, tool_calls |-> checkpoint.tool_calls]

\* _RunState.resuming: the counters of the paused run carry over.
Resuming(checkpoint) ==
  [steps |-> checkpoint.steps, tool_calls |-> checkpoint.tool_calls]

\* The ways the loop itself ends a run, through _finish.
Outcome == {"paused", "answered", "unusable", "model_error", "budget"}

\* Handler h is the coroutine driving a run of its task: inside _drive, or in
\* the _finish that ends it, up to the moment the outcome is stored.
Driving(h) ==
  \/ pc[h] \in {"loop", "model", "tools"}
  \/ pc[h] \in {"load", "write"} /\ tx[h].reason \in Outcome

Goto(h, label) == pc' = [pc EXCEPT ![h] = label]

\* The request is answered, whatever the answer: its locals are gone.
Return(h) ==
  /\ Goto(h, "idle")
  /\ tx'    = [tx EXCEPT ![h] = NoTransition]
  /\ cur'   = [cur EXCEPT ![h] = None]
  /\ state' = [state EXCEPT ![h] = FreshRun]
  /\ turn'  = [turn EXCEPT ![h] = {}]
  /\ on'    = [on EXCEPT ![h] = None]

----------------------------------------------------------------------------
(* Policy decisions.                                                       *)

\* AgentRunner._needs_approval: an unregistered tool cannot be approved into
\* existence, so it never holds a turn back.
NeedsApproval(call) ==
  /\ Risk[call] # None
  /\ Risk[call] > AutoApproveUpTo

\* -- variant: a turn is held only if every call in it needs approval
HoldsTurn_OnlyIfAll(calls) == \A call \in calls : NeedsApproval(call)

HoldsTurn(calls) == \E call \in calls : NeedsApproval(call)

\* ApprovalPolicy.may_approve.
MayApprove(subject, requested_by) == ~(SecondPerson /\ subject = requested_by)

----------------------------------------------------------------------------
\* The history of a run in which the model has not been asked yet.
NoTurns     == [n \in Steps |-> {}]
NotRun      == [n \in Steps |-> 0]
NotReleased == [n \in Steps |-> None]

Init ==
  /\ store = [t \in Task |-> None]
  /\ pc    = [h \in Handler |-> "idle"]
  /\ on    = [h \in Handler |-> None]
  /\ tx    = [h \in Handler |-> NoTransition]
  /\ cur   = [h \in Handler |-> None]
  /\ state = [h \in Handler |-> FreshRun]
  /\ turn  = [h \in Handler |-> {}]
  /\ runs  = [t \in Task |-> 0]
  /\ spent = [t \in Task |-> 0]
  /\ asked = [t \in Task |-> NoTurns]
  /\ ran   = [t \in Task |-> NotRun]
  /\ released = [t \in Task |-> NotReleased]
  /\ late  = [t \in Task |-> 0]

----------------------------------------------------------------------------
(* Requests arriving.  The scope check of each route is in the guard: a    *)
(* caller without the scope is answered before any handler code runs.      *)

\* POST /tasks: one INSERT, on behalf of the caller.
CreateTask(t, subject) ==
  /\ store[t] = None
  /\ subject \in Writers
  /\ store' = [store EXCEPT ![t] = NewTask(subject)]
  /\ UNCHANGED <<requestVars, historyVars>>

Arrive(h, t, label, transition) ==
  /\ pc[h] = "idle"
  /\ Goto(h, label)
  /\ on' = [on EXCEPT ![h] = t]
  /\ tx' = [tx EXCEPT ![h] = transition]
  /\ UNCHANGED <<store, cur, state, turn, historyVars>>

\* Bound: a task is run, or asked to be run, at most MaxRuns times.
RunRequests(t) == {h \in Handler : /\ on[h] = t
                                   /\ pc[h] \in {"load", "write"}
                                   /\ tx[h].reason = "started"}
MayRunAgain(t) == runs[t] + Cardinality(RunRequests(t)) < MaxRuns

\* POST /run: AgentRunner.run starts with transition_task, and leaves it to the
\* lifecycle to say whether the task can be started.
RunTask(h, t) ==
  /\ Writers # {}
  /\ MayRunAgain(t)
  /\ Arrive(h, t, "load", Transition("running", "started", None, None))

\* POST /approve: the policy is consulted before AgentRunner.resume.
ApproveTask(h, t, subject) ==
  /\ subject \in Approvers
  /\ Arrive(h, t, "policy", Transition("running", "approved", subject, None))

\* POST /reject: AgentRunner.reject, with no separation of duties.
RejectTask(h, t, subject) ==
  /\ subject \in Approvers
  /\ Arrive(h, t, "require", Transition("cancelled", "rejected", subject, None))

\* POST /cancel: straight to transition_task, whatever the task is doing.
CancelTask(h, t, subject) ==
  /\ subject \in Writers
  /\ Arrive(h, t, "load", Transition("cancelled", "cancelled", subject, None))

----------------------------------------------------------------------------
(* Approving and rejecting, up to the transition.                          *)

\* approve_task reads the task for its requester only: 404, 403, or resume.
CheckPolicy(h) ==
  LET task == store[on[h]] IN
  /\ pc[h] = "policy"
  /\ IF task # None /\ MayApprove(tx[h].by, task.requested_by)
       THEN /\ Goto(h, "require")
            /\ UNCHANGED <<on, tx, cur, state, turn>>
       ELSE Return(h)
  /\ UNCHANGED <<store, historyVars>>

\* _require_paused, and resume's own check that there is something to resume.
Resumable(task, reason) ==
  /\ task # None
  /\ task.status = "awaiting_approval"
  /\ reason = "approved" => task.checkpoint # None

\* -- variant: the version of this read is not handed to the transition
RequirePaused_Unversioned(h) ==
  LET task == store[on[h]] IN
  /\ pc[h] = "require"
  /\ Resumable(task, tx[h].reason)
  /\ Goto(h, "load")
  /\ UNCHANGED tx
  /\ IF tx[h].reason = "approved"
       THEN /\ state' = [state EXCEPT ![h] = Resuming(task.checkpoint)]
            /\ turn'  = [turn EXCEPT ![h] = task.checkpoint.calls]
       ELSE UNCHANGED <<state, turn>>
  /\ UNCHANGED <<store, on, cur, historyVars>>

\* The second read of the request: its version is the one the transition will
\* insist on, its checkpoint the one the run will continue from.
RequirePaused(h) ==
  LET task == store[on[h]] IN
  /\ pc[h] = "require"
  /\ Resumable(task, tx[h].reason)
  /\ Goto(h, "load")
  /\ tx' = [tx EXCEPT ![h].expected = task.version]
  /\ IF tx[h].reason = "approved"
       THEN /\ state' = [state EXCEPT ![h] = Resuming(task.checkpoint)]
            /\ turn'  = [turn EXCEPT ![h] = task.checkpoint.calls]
       ELSE UNCHANGED <<state, turn>>
  /\ UNCHANGED <<store, on, cur, historyVars>>

\* 404 or 409: missing, not paused, or paused with nothing to resume.
NotPaused(h) ==
  /\ pc[h] = "require"
  /\ ~Resumable(store[on[h]], tx[h].reason)
  /\ Return(h)
  /\ UNCHANGED <<store, historyVars>>

----------------------------------------------------------------------------
(* transition_task: read the task, derive the next one, store it if the    *)
(* version has not moved.                                                  *)

\* A transition that is refused ends a request with 404 or 409.  A run that
\* is refused its outcome goes on to report what became of the task: by then
\* the task exists, and its checkpoint fits the target, so the two errors
\* _finish would let through (not found, bad checkpoint) cannot be the reason.
TransitionRefused(h) ==
  /\ IF tx[h].reason \in Outcome
       THEN /\ Goto(h, "discard")
            /\ cur' = [cur EXCEPT ![h] = None]
            /\ UNCHANGED <<on, tx, state, turn>>
       ELSE Return(h)
  /\ UNCHANGED <<store, historyVars>>

Admissible(task, transition) ==
  /\ task # None
  /\ transition.expected \in {0, task.version}
  /\ CanTransition(task, transition.target)
  /\ CheckCheckpoint(transition.target, transition.checkpoint)

LoadTask(h) ==
  LET task == store[on[h]] IN
  /\ pc[h] = "load"
  /\ IF Admissible(task, tx[h])
       THEN /\ Goto(h, "write")
            /\ cur' = [cur EXCEPT ![h] = task]
            /\ UNCHANGED <<store, on, tx, state, turn, historyVars>>
       ELSE TransitionRefused(h)

\* -- variant: UPDATE without the version in its WHERE clause
Update_Blind(t, task, expected_version) == store' = [store EXCEPT ![t] = task]

\* UPDATE ... WHERE version = expected: what TaskRepository.update writes.
Update(t, task, expected_version) ==
  /\ store[t].version = expected_version
  /\ store' = [store EXCEPT ![t] = task]

\* The transition becomes visible to everyone.
Commit(h) ==
  LET t == on[h]  a == tx[h] IN
  /\ Update(t, TransitionTo(cur[h], a.target, a.reason, a.by, a.checkpoint),
            cur[h].version)
  /\ released' = CASE a.reason = "approved" ->
                          [released EXCEPT ![t][spent[t]] = a.by]
                   [] a.reason = "started"  -> [released EXCEPT ![t] = NotReleased]
                   [] OTHER -> released
  /\ IF a.reason = "started"
       THEN /\ runs'  = [runs EXCEPT ![t] = @ + 1]
            /\ spent' = [spent EXCEPT ![t] = 0]
            /\ asked' = [asked EXCEPT ![t] = NoTurns]
            /\ ran'   = [ran EXCEPT ![t] = NotRun]
       ELSE UNCHANGED <<runs, spent, asked, ran>>
  /\ UNCHANGED late

\* A started run enters the loop, an approved one first runs the held calls,
\* without reading the task again; every other request is done.
StoreTask(h) ==
  /\ pc[h] = "write"
  /\ Commit(h)
  /\ IF tx[h].reason \in {"started", "approved"}
       THEN /\ Goto(h, IF tx[h].reason = "started" THEN "loop" ELSE "tools")
            /\ cur' = [cur EXCEPT ![h] = None]
            /\ UNCHANGED <<on, tx, state, turn>>
       ELSE Return(h)

\* ConcurrentUpdateError: someone else's transition came first.
StaleWrite(h) ==
  /\ pc[h] = "write"
  /\ store[on[h]].version # cur[h].version
  /\ TransitionRefused(h)

----------------------------------------------------------------------------
(* AgentRunner._drive: the loop of one run.                                *)

StillRunning(h) == store[on[h]].status = "running"

\* _finish: hand the outcome to transition_task.
Finish(h, target, reason, checkpoint) ==
  /\ Goto(h, "load")
  /\ tx' = [tx EXCEPT ![h] = Transition(target, reason, None, checkpoint)]

BudgetExhausted(h) ==
  /\ pc[h] = "loop"
  /\ state[h].steps >= MaxSteps
  /\ Finish(h, "failed", "budget", None)
  /\ UNCHANGED <<store, on, cur, state, turn, historyVars>>

\* The status is read before every model call except the first of a run.
Abandon(h) ==
  /\ pc[h] = "loop"
  /\ state[h].steps \in 1..MaxSteps - 1
  /\ ~StillRunning(h)
  /\ Goto(h, "discard")
  /\ UNCHANGED <<store, on, tx, cur, state, turn, historyVars>>

\* -- variant: no look at the status before asking again
MayAsk_Unchecked(h) == state[h].steps < MaxSteps

MayAsk(h) ==
  /\ state[h].steps < MaxSteps
  /\ state[h].steps # 0 => StillRunning(h)

AskModel(h) ==
  /\ pc[h] = "loop"
  /\ MayAsk(h)
  /\ Goto(h, "model")
  /\ state' = [state EXCEPT ![h].steps = @ + 1]
  /\ spent' = [spent EXCEPT ![on[h]] = @ + 1]
  /\ UNCHANGED <<store, on, tx, cur, turn, runs, asked, ran, released, late>>

\* The model call of h ends; a task cancelled meanwhile makes the reply late.
Reply(h) ==
  /\ pc[h] = "model"
  /\ late' = IF StillRunning(h) THEN late ELSE [late EXCEPT ![on[h]] = @ + 1]
  /\ UNCHANGED <<store, on, cur, runs, spent, ran, released>>

\* _conclude, and the LLMError arm of the loop: a reply that asks for nothing
\* more.  "unusable" is a truncated answer or a refusal.
ModelConcludes(h, reason) ==
  /\ reason \in {"answered", "unusable", "model_error"}
  /\ Reply(h)
  /\ Finish(h, IF reason = "answered" THEN "completed" ELSE "failed", reason, None)
  /\ UNCHANGED <<state, turn, asked>>

\* The checkpoint a pause stores: the turn held back, and the run's counters.
Checkpoint(h, calls) ==
  [calls |-> calls, steps |-> state[h].steps, tool_calls |-> state[h].tool_calls]

\* A turn of tool calls: held back whole if any of its calls needs approval,
\* executed at once otherwise.
ModelAsksForTools(h, calls) ==
  /\ Reply(h)
  /\ asked' = [asked EXCEPT ![on[h]][state[h].steps] = calls]
  /\ IF HoldsTurn(calls)
       THEN /\ Finish(h, "awaiting_approval", "paused", Checkpoint(h, calls))
            /\ UNCHANGED turn
       ELSE /\ Goto(h, "tools")
            /\ turn' = [turn EXCEPT ![h] = calls]
            /\ UNCHANGED tx
  /\ UNCHANGED state

\* ToolRegistry.execute_all: every call of the turn gets a result, be it an
\* error result, and counts as made.
ExecuteTurn(h) ==
  /\ pc[h] = "tools"
  /\ Goto(h, "loop")
  /\ state' = [state EXCEPT ![h].tool_calls = @ + Cardinality(turn[h])]
  /\ turn'  = [turn EXCEPT ![h] = {}]
  /\ ran'   = [ran EXCEPT ![on[h]][state[h].steps] = @ + 1]
  /\ UNCHANGED <<store, on, tx, cur, runs, spent, asked, released, late>>

\* _discard: read the task once more for the answer, and change nothing.
Discard(h) ==
  /\ pc[h] = "discard"
  /\ Return(h)
  /\ UNCHANGED <<store, historyVars>>

----------------------------------------------------------------------------
(* What may go wrong around the code.                                      *)

\* An API process stops: its requests are gone, the store is not.
Crash(p) ==
  LET Lost(h) == Home[h] = p IN
  /\ "crash" \in Faults
  /\ \E h \in Handler : Lost(h) /\ pc[h] # "idle"
  /\ pc'    = [h \in Handler |-> IF Lost(h) THEN "idle" ELSE pc[h]]
  /\ on'    = [h \in Handler |-> IF Lost(h) THEN None ELSE on[h]]
  /\ tx'    = [h \in Handler |-> IF Lost(h) THEN NoTransition ELSE tx[h]]
  /\ cur'   = [h \in Handler |-> IF Lost(h) THEN None ELSE cur[h]]
  /\ state' = [h \in Handler |-> IF Lost(h) THEN FreshRun ELSE state[h]]
  /\ turn'  = [h \in Handler |-> IF Lost(h) THEN {} ELSE turn[h]]
  /\ UNCHANGED <<store, historyVars>>

\* A store command times out or loses its connection.  No handler catches
\* that: the request fails, whatever it was in the middle of.
ReadFails(h) ==
  /\ "store" \in Faults
  /\ \/ pc[h] \in {"policy", "require", "load", "discard"}
     \/ pc[h] = "loop" /\ state[h].steps \in 1..MaxSteps - 1
  /\ Return(h)
  /\ UNCHANGED <<store, historyVars>>

\* A write that times out may have been applied before the timeout, or not.
WriteFails(h) ==
  /\ "store" \in Faults
  /\ pc[h] = "write"
  /\ Return(h)
  /\ Commit(h) \/ UNCHANGED <<store, historyVars>>

\* The provider raises something that is not an LLMError.
ModelDefect(h) ==
  /\ "model_defect" \in Faults
  /\ pc[h] = "model"
  /\ Return(h)
  /\ UNCHANGED <<store, historyVars>>

----------------------------------------------------------------------------
\* The steps a request takes by itself, once it has arrived.
Work(h) ==
  \/ CheckPolicy(h) \/ RequirePaused(h) \/ NotPaused(h)
  \/ LoadTask(h) \/ StoreTask(h) \/ StaleWrite(h)
  \/ BudgetExhausted(h) \/ Abandon(h) \/ AskModel(h)
  \/ \E reason \in Outcome : ModelConcludes(h, reason)
  \/ \E calls \in SUBSET Call \ {{}} : ModelAsksForTools(h, calls)
  \/ ExecuteTurn(h) \/ Discard(h)

Requests ==
  \/ \E t \in Task, s \in Subject : CreateTask(t, s)
  \/ \E h \in Handler, t \in Task :
       \/ RunTask(h, t)
       \/ \E s \in Subject : ApproveTask(h, t, s) \/ RejectTask(h, t, s) \/ CancelTask(h, t, s)

Failures ==
  \/ \E p \in Replica : Crash(p)
  \/ \E h \in Handler : ReadFails(h) \/ WriteFails(h) \/ ModelDefect(h)

Next == Requests \/ (\E h \in Handler : Work(h)) \/ Failures

Spec == Init /\ [][Next]_vars

\* A request that has arrived is worked on: the event loop resumes every
\* coroutine whose await is over, and every await here ends, as model calls
\* and tool calls carry a deadline.  Nobody owes the platform a request.
FairSpec == Spec /\ \A h \in Handler : WF_vars(Work(h))

----------------------------------------------------------------------------
(* Invariants.                                                             *)

\* Every variable holds what the code can put there (models.py, runner.py).
TypeOK ==
  /\ store \in [Task -> AgentTask \cup {None}]
  /\ pc \in [Handler -> Label]
  /\ on \in [Handler -> Task \cup {None}]
  /\ tx \in [Handler -> TransitionArgs]
  /\ cur \in [Handler -> AgentTask \cup {None}]
  /\ state \in [Handler -> RunState]
  /\ turn \in [Handler -> SUBSET Call]
  /\ runs \in [Task -> Nat]
  /\ spent \in [Task -> Nat]
  /\ asked \in [Task -> [Steps -> SUBSET Call]]
  /\ ran \in [Task -> [Steps -> Nat]]
  /\ released \in [Task -> [Steps -> Subject \cup {None}]]
  /\ late \in [Task -> Nat]

\* A run is driven by one coroutine: however runs, approvals and cancellations
\* race, no second agent works on a task (router.py: "a second approver racing
\* this one gets 409 rather than a second agent").
OneDriver ==
  \A g, h \in Handler : Driving(g) /\ Driving(h) /\ on[g] = on[h] => g = h

\* The version decides: a writer whose version still matches overwrites the
\* very task it read, so no transition is ever lost (service.py, postgres.py).
VersionIdentifiesTask ==
  \A h \in Handler :
    pc[h] = "write" /\ cur[h].version = store[on[h]].version
      => cur[h] = store[on[h]]

\* max_steps bounds the model calls of a run from its start to its end: pausing
\* and approving it does not refill the budget (runner.py, resume).
BudgetHolds == \A t \in Task : spent[t] <= MaxSteps

\* A turn of tool calls is executed at most once, whichever approvals, retries
\* of approvals and crashes happen around it (models.py, RunCheckpoint).
TurnRunsOnce == \A t \in Task, n \in Steps : ran[t][n] <= 1

\* What a run executes is the turn its model asked for last: an approval that
\* came too late for one pause never releases the calls of another, nor those
\* of a run that is over (service.py, expected_version).
ExecutesTheTurnAsked ==
  \A h \in Handler :
    pc[h] = "tools" => /\ state[h].steps = spent[on[h]]
                       /\ turn[h] = asked[on[h]][spent[on[h]]]

\* A turn holding a call above the threshold runs only after someone entitled
\* to release it has done so, and not its requester where a second person is
\* required (router.py, approve_task; runner.py, _drive).
Gated(call) == Risk[call] \in AutoApproveUpTo + 1 .. 2

GatedTurnsAreReleased ==
  \A t \in Task, n \in Steps :
    ran[t][n] > 0 /\ (\E call \in asked[t][n] : Gated(call))
      => /\ released[t][n] \in Approvers
         /\ SecondPerson => released[t][n] # store[t].requested_by

\* Only a pending task is started: once it has run, or while it waits for an
\* approval, a second POST /run is answered 409 (runner.py, run; docs/API.md).
StartedFromPendingOnly ==
  \A t \in Task : store[t] # None =>
    \A i \in DOMAIN store[t].history :
      store[t].history[i].reason = "started"
        => store[t].history[i].from_status = "pending"

\* Once a paused task has been rejected or cancelled, the turn it was holding
\* has not run and will not (runner.py, reject: "the denied calls cannot be
\* replayed later").
LastTransition(t) == store[t].history[Len(store[t].history)]

DeniedTurnNeverRuns ==
  \A t \in Task :
    /\ store[t] # None
    /\ store[t].status = "cancelled"
    /\ LastTransition(t).from_status = "awaiting_approval"
    => \A n \in Steps : n = spent[t] => ran[t][n] = 0

\* The tool calls of turns that were executed so many times each.
CallsIn(times, turns) ==
  LET upTo[n \in 0..MaxSteps] ==
        IF n = 0 THEN 0 ELSE upTo[n - 1] + times[n] * Cardinality(turns[n])
  IN upTo[MaxSteps]

\* The tool calls the latest run of t has really made.
CallsRun(t) == CallsIn(ran[t], asked[t])

\* A task that is waiting can be decided on: it holds the turn it paused on,
\* not yet executed, with a call that needs the decision, and counters that
\* agree with what the run has really spent (models.py, RunCheckpoint).
PauseIsDecidable ==
  \A t \in Task :
    store[t] # None /\ store[t].status = "awaiting_approval"
      => LET checkpoint == store[t].checkpoint IN
         /\ checkpoint # None
         /\ checkpoint.steps = spent[t]
         /\ checkpoint.calls = asked[t][spent[t]]
         /\ \E call \in checkpoint.calls : Gated(call)
         /\ ran[t][spent[t]] = 0
         /\ checkpoint.tool_calls = CallsRun(t)

\* A cancellation is noticed within one step of the run: at most one model
\* call is answered after its task stopped running (runner.py, _still_running).
OneReplyOutlivesCancel == \A t \in Task : late[t] <= 1

\* A run drops its outcome only because the task was cancelled under it, never
\* because another run, an approval or its own pause got in between (runner.py,
\* _finish: "Someone (a cancellation) moved the task").
OutcomeLostOnlyToCancel ==
  \A h \in Handler : pc[h] = "discard" => store[on[h]].status = "cancelled"

\* A running task has a coroutine driving it (runner.py, module docstring: a
\* model error or an exhausted budget "each ends with the task in failed").
NoStranding ==
  \A t \in Task :
    store[t] # None /\ store[t].status = "running"
      => \E h \in Handler : on[h] = t /\ Driving(h)

\* A run that was approved and then lost to a restart leaves a task that still
\* has the checkpoint it was approved with (README.md, Limitations: "the task
\* and its checkpoint survive").
StrandedRunKeepsCheckpoint ==
  \A t \in Task :
    /\ store[t] # None
    /\ store[t].status = "running"
    /\ LastTransition(t).reason = "approved"
    /\ \A h \in Handler : ~(on[h] = t /\ Driving(h))
    => store[t].checkpoint # None

----------------------------------------------------------------------------
(* Action and liveness properties.                                         *)

\* The history of a task is its audit trail: a stored task changes only by a
\* legal transition, which adds one to the version and one entry, for that
\* change, to the history, and never changes who asked (models.py; postgres.py).
Audited(task, next) ==
  /\ next.requested_by = task.requested_by
  /\ next.version = task.version + 1
  /\ next.status \in AllowedTransitions[task.status]
  /\ \E entry \in [from_status : {task.status}, to_status : {next.status},
                   reason : Reason, by : Subject \cup {None}] :
       next.history = Append(task.history, entry)

AuditTrail ==
  [][\A t \in Task :
       \/ store'[t] = store[t]
       \/ store[t] = None /\ store'[t].status = "pending"
       \/ Audited(store[t], store'[t])]_store

\* A run that has started ends, or stops to ask: the task does not stay
\* "running" for ever (runner.py, _drive).
Running(t) == store[t] # None /\ store[t].status = "running"

RunSettles == \A t \in Task : Running(t) ~> ~Running(t)
=============================================================================
