------------------------- MODULE RefinementProofs -------------------------
(***************************************************************************)
(* AgentPlatform implements ApprovalProtocol, for every value of the       *)
(* constants: every step of the platform is one step of the protocol, or   *)
(* none, under the mapping of PlatformRefinement.                          *)
(***************************************************************************)
EXTENDS PlatformRefinement, AgentRunProofs

----------------------------------------------------------------------------
(* The mapping, for a task with a driver and for a task without.           *)

Reporting(h) == pc[h] \in {"load", "write"}

DrivenBy(h, t) == on[h] = t /\ Driving(h)

MapsDriven ==
  OneDriver => \A t \in Task : \A h \in Handler : DrivenBy(h, t) =>
    /\ AgentOf(t) = Doing(pc[h])
    /\ AgentOf(t) # "none"
    /\ TurnOf(t) = IF Reporting(h) THEN CallsOf(tx[h].checkpoint) ELSE turn[h]
    /\ OutcomeOf(t) = IF Reporting(h) THEN tx[h].target ELSE "none"

MapsUndriven ==
  \A t \in Task : (\A h \in Handler : ~DrivenBy(h, t)) =>
    /\ AgentOf(t) = "none"
    /\ TurnOf(t) = IF store[t] = None THEN {} ELSE CallsOf(store[t].checkpoint)
    /\ OutcomeOf(t) = "none"

LEMMA DrivenMapping == MapsDriven
<1> SUFFICES ASSUME OneDriver, NEW t \in Task, NEW h \in Handler, DrivenBy(h, t)
             PROVE  /\ AgentOf(t) = Doing(pc[h])
                    /\ AgentOf(t) # "none"
                    /\ TurnOf(t) = IF Reporting(h) THEN CallsOf(tx[h].checkpoint) ELSE turn[h]
                    /\ OutcomeOf(t) = IF Reporting(h) THEN tx[h].target ELSE "none"
  BY DEF MapsDriven
<1>1. h \in Drivers(t)
  BY DEF Drivers, DrivenBy
<1>2. Driver(t) = h
  <2>1. Driver(t) \in Handler /\ on[Driver(t)] = t /\ Driving(Driver(t))
    BY DEF Driver, DrivenBy
  <2> QED
    BY <2>1 DEF OneDriver, DrivenBy
<1>3. AgentOf(t) = Doing(pc[h])
  BY <1>1, <1>2 DEF AgentOf
<1>4. /\ pc[h] \in {"loop", "model", "tools", "load", "write"}
      /\ Doing(pc[h]) # "none"
      /\ Doing(pc[h]) = "reporting" <=> Reporting(h)
  BY DEF DrivenBy, Driving, Doing, Reporting
<1>5. TurnOf(t) = IF Reporting(h) THEN CallsOf(tx[h].checkpoint) ELSE turn[h]
  BY <1>1, <1>2 DEF TurnOf, Reporting
<1>6. OutcomeOf(t) = IF Reporting(h) THEN tx[h].target ELSE "none"
  BY <1>2, <1>3, <1>4 DEF OutcomeOf
<1> QED
  BY <1>3, <1>4, <1>5, <1>6

LEMMA UndrivenMapping == MapsUndriven
BY DEF MapsUndriven, DrivenBy, Drivers, AgentOf, TurnOf, OutcomeOf

\* The mapping before and after a step.
LEMMA DrivenMappings == MapsDriven /\ MapsDriven'
BY DrivenMapping, PTL

LEMMA UndrivenMappings == MapsUndriven /\ MapsUndriven'
BY UndrivenMapping, PTL

----------------------------------------------------------------------------
(* What a step changes, as the protocol sees it.                           *)

\* Nobody who sees only the protocol notices anything about t.
Unmoved(t) ==
  /\ StatusOf(t)' = StatusOf(t)
  /\ RequesterOf(t)' = RequesterOf(t)
  /\ AgentOf(t)' = AgentOf(t)
  /\ TurnOf(t)' = TurnOf(t)
  /\ OutcomeOf(t)' = OutcomeOf(t)
  /\ spent'[t] = spent[t]

\* A request keeps to what it was doing: its label may change only between the
\* two reads of one transition.
KeepsTo(h) ==
  /\ on'[h] = on[h] /\ tx'[h] = tx[h] /\ turn'[h] = turn[h]
  /\ pc'[h] = pc[h] \/ (Reporting(h) /\ Reporting(h)')

\* A task is not moved by steps of requests that do not drive it.
LEMMA MappingFrame ==
  ASSUME OneDriver, OneDriver', NEW t \in Task, store'[t] = store[t], spent'[t] = spent[t],
         \A h \in Handler : \/ KeepsTo(h)
                            \/ ~DrivenBy(h, t) /\ ~DrivenBy(h, t)'
  PROVE  Unmoved(t)
<1>1. StatusOf(t)' = StatusOf(t) /\ RequesterOf(t)' = RequesterOf(t)
  BY DEF StatusOf, RequesterOf
<1>2. \A h \in Handler : DrivenBy(h, t)' <=> DrivenBy(h, t)
  BY DEF DrivenBy, Driving, KeepsTo, Reporting
<1>3. CASE \E h \in Handler : DrivenBy(h, t)
  <2>1. PICK h \in Handler : DrivenBy(h, t)
    BY <1>3
  <2>2. DrivenBy(h, t)' /\ KeepsTo(h)
    BY <1>2, <2>1
  <2>3. Reporting(h)' <=> Reporting(h)
    BY <2>2 DEF KeepsTo, Reporting
  <2>4. Doing(pc'[h]) = Doing(pc[h])
    BY <2>2 DEF KeepsTo, Reporting, Doing
  <2>5. /\ AgentOf(t) = Doing(pc[h])
        /\ TurnOf(t) = IF Reporting(h) THEN CallsOf(tx[h].checkpoint) ELSE turn[h]
        /\ OutcomeOf(t) = IF Reporting(h) THEN tx[h].target ELSE "none"
    BY <2>1, DrivenMappings DEF MapsDriven
  <2>6. /\ AgentOf(t)' = Doing(pc'[h])
        /\ TurnOf(t)' = IF Reporting(h)' THEN CallsOf(tx'[h].checkpoint) ELSE turn'[h]
        /\ OutcomeOf(t)' = IF Reporting(h)' THEN tx'[h].target ELSE "none"
    BY <2>2, DrivenMappings DEF MapsDriven, Doing, CallsOf
  <2> QED
    BY <1>1, <2>2, <2>3, <2>4, <2>5, <2>6 DEF Unmoved, KeepsTo
<1>4. CASE \A h \in Handler : ~DrivenBy(h, t)
  <2>1. /\ AgentOf(t) = "none" /\ OutcomeOf(t) = "none"
        /\ TurnOf(t) = IF store[t] = None THEN {} ELSE CallsOf(store[t].checkpoint)
    BY <1>4, UndrivenMappings DEF MapsUndriven
  <2>2. /\ AgentOf(t)' = "none" /\ OutcomeOf(t)' = "none"
        /\ TurnOf(t)' = IF store'[t] = None THEN {} ELSE CallsOf(store'[t].checkpoint)
    BY <1>2, <1>4, UndrivenMappings DEF MapsUndriven, CallsOf
  <2> QED
    BY <1>1, <2>1, <2>2 DEF Unmoved
<1> QED
  BY <1>3, <1>4

\* The variables of the protocol.
MStatus    == [t \in Task |-> StatusOf(t)]
MRequester == [t \in Task |-> RequesterOf(t)]
MAgent     == [t \in Task |-> AgentOf(t)]
MTurn      == [t \in Task |-> TurnOf(t)]
MOutcome   == [t \in Task |-> OutcomeOf(t)]

LEMMA NobodyMoves ==
  ASSUME TypeInv, TypeInv', \A t \in Task : Unmoved(t)
  PROVE  UNCHANGED Protocol!vars
<1>1. spent' = spent
  BY DEF Unmoved, TypeInv, TypeOK
<1>2. /\ MStatus' = MStatus /\ MRequester' = MRequester /\ MAgent' = MAgent
      /\ MTurn' = MTurn /\ MOutcome' = MOutcome
  BY DEF Unmoved, MStatus, MRequester, MAgent, MTurn, MOutcome
<1> QED
  BY <1>1, <1>2 DEF Protocol!vars, MStatus, MRequester, MAgent, MTurn, MOutcome

LEMMA OneMoves ==
  ASSUME TypeInv, TypeInv', NEW t \in Task, \A u \in Task \ {t} : Unmoved(u)
  PROVE  /\ MStatus'    = [MStatus EXCEPT ![t] = StatusOf(t)']
         /\ MRequester' = [MRequester EXCEPT ![t] = RequesterOf(t)']
         /\ MAgent'     = [MAgent EXCEPT ![t] = AgentOf(t)']
         /\ MTurn'      = [MTurn EXCEPT ![t] = TurnOf(t)']
         /\ MOutcome'   = [MOutcome EXCEPT ![t] = OutcomeOf(t)']
         /\ spent'      = [spent EXCEPT ![t] = spent'[t]]
         /\ MStatus[t] = StatusOf(t) /\ MRequester[t] = RequesterOf(t)
         /\ MAgent[t] = AgentOf(t) /\ MTurn[t] = TurnOf(t) /\ MOutcome[t] = OutcomeOf(t)
         /\ StatusOf(t)' = StatusOf(t) => MStatus' = MStatus
         /\ RequesterOf(t)' = RequesterOf(t) => MRequester' = MRequester
         /\ AgentOf(t)' = AgentOf(t) => MAgent' = MAgent
         /\ TurnOf(t)' = TurnOf(t) => MTurn' = MTurn
         /\ OutcomeOf(t)' = OutcomeOf(t) => MOutcome' = MOutcome
         /\ spent'[t] = spent[t] => spent' = spent
<1>1. spent \in [Task -> Nat] /\ spent' \in [Task -> Nat]
  BY DEF TypeInv, TypeOK
<1>2. /\ spent' = [spent EXCEPT ![t] = spent'[t]]
      /\ spent'[t] = spent[t] => spent' = spent
  BY <1>1 DEF Unmoved
<1>3. /\ MStatus'    = [MStatus EXCEPT ![t] = StatusOf(t)']
      /\ MStatus[t] = StatusOf(t)
      /\ StatusOf(t)' = StatusOf(t) => MStatus' = MStatus
  BY DEF Unmoved, MStatus
<1>4. /\ MRequester' = [MRequester EXCEPT ![t] = RequesterOf(t)']
      /\ MRequester[t] = RequesterOf(t)
      /\ RequesterOf(t)' = RequesterOf(t) => MRequester' = MRequester
  BY DEF Unmoved, MRequester
<1>5. /\ MAgent' = [MAgent EXCEPT ![t] = AgentOf(t)']
      /\ MAgent[t] = AgentOf(t)
      /\ AgentOf(t)' = AgentOf(t) => MAgent' = MAgent
  BY DEF Unmoved, MAgent
<1>6. /\ MTurn' = [MTurn EXCEPT ![t] = TurnOf(t)']
      /\ MTurn[t] = TurnOf(t)
      /\ TurnOf(t)' = TurnOf(t) => MTurn' = MTurn
  BY DEF Unmoved, MTurn
<1>7. /\ MOutcome' = [MOutcome EXCEPT ![t] = OutcomeOf(t)']
      /\ MOutcome[t] = OutcomeOf(t)
      /\ OutcomeOf(t)' = OutcomeOf(t) => MOutcome' = MOutcome
  BY DEF Unmoved, MOutcome
<1> QED
  BY <1>2, <1>3, <1>4, <1>5, <1>6, <1>7

\* A driver that goes on: everybody else stands still, so only its task moves.
LEMMA DriverMoves ==
  ASSUME OneDriver, OneDriver', TypeInv, UNCHANGED store, NEW h \in Handler, NEW t \in Task,
         DrivenBy(h, t), \A g \in Handler \ {h} : Standstill(g),
         on'[h] = on[h] \/ ~Driving(h)', \A u \in Task \ {t} : spent'[u] = spent[u]
  PROVE  \A u \in Task \ {t} : Unmoved(u)
<1> SUFFICES ASSUME NEW u \in Task \ {t}
             PROVE  Unmoved(u)
  OBVIOUS
<1>1. \A g \in Handler : KeepsTo(g) \/ (~DrivenBy(g, u) /\ ~DrivenBy(g, u)')
  BY DEF DrivenBy, KeepsTo, Standstill
<1> QED
  BY <1>1, MappingFrame

----------------------------------------------------------------------------
(* The steps of an agent.                                                  *)

\* What the protocol sees of a task and its driver.
LEMMA DriverView ==
  ASSUME CoreInv, RunInv, NEW h \in Handler, NEW t \in Task, DrivenBy(h, t)
  PROVE  /\ StatusOf(t) = store[t].status /\ store[t] # None
         /\ store[t].status \in {"running", "cancelled"}
         /\ AgentOf(t) = Doing(pc[h])
         /\ TurnOf(t) = IF Reporting(h) THEN CallsOf(tx[h].checkpoint) ELSE turn[h]
         /\ OutcomeOf(t) = IF Reporting(h) THEN tx[h].target ELSE "none"
<1>1. store[t] # None /\ store[t].status \in {"running", "cancelled"}
  BY DriverFacts DEF DrivenBy
<1>2. StatusOf(t) = store[t].status
  BY <1>1 DEF StatusOf
<1> QED
  BY <1>1, <1>2, DrivenMappings DEF MapsDriven, CoreInv

\* What the protocol sees of a task that a driver has left.
LEMMA AbandonedView ==
  ASSUME CoreInv, RunInv, OneDriver', UNCHANGED store, NEW h \in Handler, NEW t \in Task,
         DrivenBy(h, t), ~Driving(h)', \A g \in Handler \ {h} : Standstill(g)
  PROVE  /\ StatusOf(t)' = StatusOf(t) /\ RequesterOf(t)' = RequesterOf(t)
         /\ AgentOf(t)' = "none" /\ TurnOf(t)' = {} /\ OutcomeOf(t)' = "none"
<1>1. \A g \in Handler : ~DrivenBy(g, t)'
  BY DEF CoreInv, OneDriver, DrivenBy, Driving, Standstill
<1>2. store[t] # None /\ store[t].checkpoint = None
  BY DriverFacts DEF DrivenBy
<1>3. /\ AgentOf(t)' = "none" /\ OutcomeOf(t)' = "none"
      /\ TurnOf(t)' = CallsOf(store'[t].checkpoint)
  BY <1>1, <1>2, UndrivenMappings DEF MapsUndriven, CallsOf
<1>4. CallsOf(None) = {}
  BY DEF CallsOf
<1> QED
  BY <1>2, <1>3, <1>4 DEF StatusOf, RequesterOf

LEMMA ThinkStep ==
  ASSUME CoreInv, RunInv, CoreInv', NEW h \in Handler, AskModel(h), NEW t \in Task, t = on[h]
  PROVE  Protocol!Think(t)
<1>1. /\ pc[h] = "loop" /\ pc'[h] = "model" /\ MayAsk(h)
      /\ UNCHANGED <<store, on, turn>>
      /\ spent' = [spent EXCEPT ![t] = @ + 1]
      /\ \A g \in Handler \ {h} : Standstill(g)
  BY DEF AskModel, Goto, Standstill, CoreInv, TypeInv, TypeOK
<1>2. DrivenBy(h, t) /\ DrivenBy(h, t)'
  BY <1>1 DEF DrivenBy, Driving
<1>3. /\ spent \in [Task -> Nat] /\ state[h].steps = spent[t] /\ turn[h] = {}
  BY <1>1, <1>2, DriverFacts DEF DrivenBy, RunInv, Request, OnCourse, CoreInv, TypeInv, TypeOK
<1>4. \A u \in Task \ {t} : Unmoved(u)
  BY <1>1, <1>2, <1>3, DriverMoves DEF CoreInv
<1>5. /\ StatusOf(t)' = StatusOf(t) /\ RequesterOf(t)' = RequesterOf(t)
      /\ AgentOf(t) = "deciding" /\ AgentOf(t)' = "thinking"
      /\ TurnOf(t)' = TurnOf(t) /\ OutcomeOf(t)' = OutcomeOf(t)
  <2>1. /\ AgentOf(t) = "deciding" /\ TurnOf(t) = {} /\ OutcomeOf(t) = "none"
    BY <1>1, <1>2, <1>3, DriverView DEF Doing, Reporting
  <2>2. /\ AgentOf(t)' = Doing(pc'[h]) /\ TurnOf(t)' = turn'[h] /\ OutcomeOf(t)' = "none"
    BY <1>1, <1>2, DrivenMappings DEF MapsDriven, Doing, Reporting, CallsOf, CoreInv
  <2> QED
    BY <1>1, <1>3, <2>1, <2>2 DEF StatusOf, RequesterOf, Doing
<1>6. spent[t] < MaxSteps /\ (spent[t] = 0 \/ StatusOf(t) = "running")
  BY <1>1, <1>2, <1>3, DriverView DEF MayAsk, StillRunning
<1> QED
  BY <1>1, <1>4, <1>5, <1>6, OneMoves
  DEF Protocol!Think, MStatus, MRequester, MAgent, MTurn, MOutcome, CoreInv

LEMMA ActedStep ==
  ASSUME CoreInv, RunInv, CoreInv', NEW h \in Handler, ExecuteTurn(h), NEW t \in Task, t = on[h]
  PROVE  Protocol!Acted(t)
<1>1. /\ pc[h] = "tools" /\ pc'[h] = "loop" /\ turn'[h] = {}
      /\ UNCHANGED <<store, on, spent>>
      /\ \A g \in Handler \ {h} : Standstill(g)
  BY DEF ExecuteTurn, Goto, Standstill, CoreInv, TypeInv, TypeOK
<1>2. DrivenBy(h, t) /\ DrivenBy(h, t)'
  BY <1>1 DEF DrivenBy, Driving
<1>3. \A u \in Task \ {t} : Unmoved(u)
  BY <1>1, <1>2, DriverMoves DEF CoreInv
<1>4. AgentOf(t) = "acting" /\ OutcomeOf(t) = "none"
  BY <1>1, <1>2, DriverView DEF Doing, Reporting
<1>5. AgentOf(t)' = "deciding" /\ TurnOf(t)' = {} /\ OutcomeOf(t)' = "none"
  <2>1. /\ AgentOf(t)' = Doing(pc'[h]) /\ TurnOf(t)' = turn'[h] /\ OutcomeOf(t)' = "none"
    BY <1>1, <1>2, DrivenMappings DEF MapsDriven, Doing, Reporting, CallsOf, CoreInv
  <2> QED
    BY <1>1, <2>1 DEF Doing
<1>6. StatusOf(t)' = StatusOf(t) /\ RequesterOf(t)' = RequesterOf(t)
  BY <1>1 DEF StatusOf, RequesterOf
<1> QED
  BY <1>1, <1>3, <1>4, <1>5, <1>6, OneMoves
  DEF Protocol!Acted, MStatus, MRequester, MAgent, MTurn, MOutcome, CoreInv

\* The driver hands an outcome to transition_task.
LEMMA ReportStep ==
  ASSUME CoreInv, RunInv, CoreInv', NEW h \in Handler, NEW t \in Task, DrivenBy(h, t),
         pc[h] \in {"loop", "model"}, NEW target, NEW reason \in Outcome, NEW checkpoint,
         Finish(h, target, reason, checkpoint),
         UNCHANGED <<store, on, cur, state, turn, spent>>
  PROVE  /\ AgentOf(t) = Doing(pc[h])
         /\ Protocol!Report(t, target)
         /\ MTurn' = [MTurn EXCEPT ![t] = CallsOf(checkpoint)]
         /\ checkpoint = None => MTurn' = MTurn
<1>1. /\ pc'[h] = "load" /\ tx'[h] = Transition(target, reason, None, checkpoint)
      /\ \A g \in Handler \ {h} : Standstill(g)
  BY DEF Finish, Goto, Standstill, CoreInv, TypeInv, TypeOK
<1>2. /\ tx'[h].target = target /\ tx'[h].reason = reason /\ tx'[h].checkpoint = checkpoint
  BY <1>1 DEF Transition
<1>3. DrivenBy(h, t)'
  BY <1>1, <1>2 DEF DrivenBy, Driving
<1>4. \A u \in Task \ {t} : Unmoved(u)
  BY <1>1, <1>3, DriverMoves DEF CoreInv
<1>5. turn[h] = {}
  BY DEF DrivenBy, RunInv, Request, OnCourse
<1>6. AgentOf(t) = Doing(pc[h]) /\ TurnOf(t) = {}
  BY <1>5, DriverView DEF Reporting
<1>7. /\ AgentOf(t)' = "reporting" /\ TurnOf(t)' = CallsOf(checkpoint)
      /\ OutcomeOf(t)' = target
  <2>1. /\ AgentOf(t)' = Doing(pc'[h]) /\ TurnOf(t)' = CallsOf(tx'[h].checkpoint)
        /\ OutcomeOf(t)' = tx'[h].target
    BY <1>1, <1>3, DrivenMappings DEF MapsDriven, Doing, Reporting, CallsOf, CoreInv
  <2> QED
    BY <1>1, <1>2, <2>1 DEF Doing
<1>8. StatusOf(t)' = StatusOf(t) /\ RequesterOf(t)' = RequesterOf(t)
  BY DEF StatusOf, RequesterOf
<1>9. checkpoint = None => TurnOf(t)' = TurnOf(t)
  BY <1>6, <1>7 DEF CallsOf
<1> QED
  BY <1>4, <1>6, <1>7, <1>8, <1>9, OneMoves
  DEF Protocol!Report, MStatus, MRequester, MAgent, MTurn, MOutcome, CoreInv

LEMMA ConcludeStep ==
  ASSUME CoreInv, RunInv, CoreInv', NEW h \in Handler,
         BudgetExhausted(h) \/ \E reason \in Outcome : ModelConcludes(h, reason),
         NEW t \in Task, t = on[h]
  PROVE  Protocol!Conclude(t)
<1>1. CASE BudgetExhausted(h)
  <2>1. /\ pc[h] = "loop" /\ state[h].steps >= MaxSteps
        /\ Finish(h, "failed", "budget", None)
        /\ UNCHANGED <<store, on, cur, state, turn, spent>>
    BY <1>1 DEF BudgetExhausted, historyVars
  <2>2. DrivenBy(h, t)
    BY <2>1 DEF DrivenBy, Driving
  <2>3. /\ AgentOf(t) = "deciding" /\ Protocol!Report(t, "failed") /\ MTurn' = MTurn
    BY <2>1, <2>2, ReportStep DEF Doing, Outcome
  <2>4. spent[t] = MaxSteps
    BY <2>1, <2>2, DriverFacts, RunnerAssumption DEF DrivenBy
  <2> QED
    BY <2>3, <2>4 DEF Protocol!Conclude, MAgent, MTurn
<1>2. ASSUME NEW reason \in Outcome, ModelConcludes(h, reason)
      PROVE  Protocol!Conclude(t)
  <2> DEFINE target == IF reason = "answered" THEN "completed" ELSE "failed"
  <2>1. /\ pc[h] = "model" /\ Finish(h, target, reason, None)
        /\ UNCHANGED <<store, on, cur, state, turn, spent>>
    BY <1>2 DEF ModelConcludes, Reply
  <2>2. DrivenBy(h, t)
    BY <2>1 DEF DrivenBy, Driving
  <2>3. /\ AgentOf(t) = "thinking" /\ Protocol!Report(t, target) /\ MTurn' = MTurn
    <3> HIDE DEF target
    <3> QED
      BY <2>1, <2>2, ReportStep DEF Doing
  <2> QED
    BY <2>3 DEF Protocol!Conclude, MAgent, MTurn
<1> QED
  BY <1>1, <1>2

\* A turn that holds no gated call is acted upon, one that does is proposed.
LEMMA TurnStep ==
  ASSUME CoreInv, RunInv, CoreInv', NEW h \in Handler,
         NEW calls \in SUBSET Call \ {{}}, ModelAsksForTools(h, calls),
         NEW t \in Task, t = on[h]
  PROVE  Protocol!Act(t) \/ Protocol!Propose(t)
<1>1. pc[h] = "model" /\ UNCHANGED <<store, on, cur, state, spent>>
  BY DEF ModelAsksForTools, Reply
<1>2. DrivenBy(h, t) /\ calls \in Protocol!Turns
  BY <1>1 DEF DrivenBy, Driving, Protocol!Turns
<1>3. HoldsTurn(calls) <=> calls \cap {call \in Call : NeedsApproval(call)} # {}
  BY DEF HoldsTurn
<1>4. CASE HoldsTurn(calls)
  <2>1. /\ Finish(h, "awaiting_approval", "paused", Checkpoint(h, calls))
        /\ UNCHANGED turn
    BY <1>4 DEF ModelAsksForTools
  <2>2. CallsOf(Checkpoint(h, calls)) = calls
    BY <1>1, CheckpointType, NoneIsNoValue DEF CallsOf, Checkpoint, CoreInv
  <2>3. /\ AgentOf(t) = "thinking" /\ Protocol!Report(t, "awaiting_approval")
        /\ MTurn' = [MTurn EXCEPT ![t] = calls]
    BY <1>1, <1>2, <2>1, <2>2, ReportStep DEF Doing, Outcome
  <2> QED
    BY <1>2, <1>3, <1>4, <2>3 DEF Protocol!Propose, MAgent, MTurn
<1>5. CASE ~HoldsTurn(calls)
  <2>1. /\ pc'[h] = "tools" /\ turn'[h] = calls /\ UNCHANGED tx
        /\ \A g \in Handler \ {h} : Standstill(g)
    BY <1>1, <1>5 DEF ModelAsksForTools, Goto, Standstill, CoreInv, TypeInv, TypeOK
  <2>2. DrivenBy(h, t)'
    BY <1>1, <1>2, <2>1 DEF DrivenBy, Driving
  <2>3. \A u \in Task \ {t} : Unmoved(u)
    BY <1>1, <1>2, <2>1, DriverMoves DEF CoreInv
  <2>4. AgentOf(t) = "thinking" /\ OutcomeOf(t) = "none"
    BY <1>1, <1>2, DriverView DEF Doing, Reporting
  <2>5. AgentOf(t)' = "acting" /\ TurnOf(t)' = calls /\ OutcomeOf(t)' = "none"
    <3>1. /\ AgentOf(t)' = Doing(pc'[h]) /\ TurnOf(t)' = turn'[h] /\ OutcomeOf(t)' = "none"
      BY <2>1, <2>2, DrivenMappings DEF MapsDriven, Doing, Reporting, CallsOf, CoreInv
    <3> QED
      BY <2>1, <3>1 DEF Doing
  <2>6. StatusOf(t)' = StatusOf(t) /\ RequesterOf(t)' = RequesterOf(t)
    BY <1>1 DEF StatusOf, RequesterOf
  <2>7. /\ MAgent[t] = "thinking" /\ MAgent' = [MAgent EXCEPT ![t] = "acting"]
        /\ MTurn' = [MTurn EXCEPT ![t] = calls]
        /\ MStatus' = MStatus /\ MRequester' = MRequester /\ MOutcome' = MOutcome
        /\ spent' = spent
    BY <1>1, <2>3, <2>4, <2>5, <2>6, OneMoves DEF CoreInv
  <2> QED
    BY <1>2, <1>3, <1>5, <2>7
    DEF Protocol!Act, MStatus, MRequester, MAgent, MTurn, MOutcome
<1> QED
  BY <1>4, <1>5

\* A run that learns of its cancellation is dropped.
LEMMA DropStep ==
  ASSUME CoreInv, RunInv, CoreInv', NEW h \in Handler, NEW t \in Task, DrivenBy(h, t),
         pc[h] \in {"loop", "load", "write"}, store[t].status = "cancelled",
         ~Driving(h)', UNCHANGED <<store, spent>>,
         \A g \in Handler \ {h} : Standstill(g)
  PROVE  Protocol!Drop(t)
<1>1. \A u \in Task \ {t} : Unmoved(u)
  BY DriverMoves DEF CoreInv
<1>2. AgentOf(t) \in {"deciding", "reporting"} /\ StatusOf(t) = "cancelled"
  BY DriverView DEF Doing
<1>3. /\ StatusOf(t)' = StatusOf(t) /\ RequesterOf(t)' = RequesterOf(t)
      /\ AgentOf(t)' = "none" /\ TurnOf(t)' = {} /\ OutcomeOf(t)' = "none"
  BY AbandonedView DEF CoreInv
<1> QED
  BY <1>1, <1>2, <1>3, OneMoves
  DEF Protocol!Drop, MStatus, MRequester, MAgent, MTurn, MOutcome, CoreInv

----------------------------------------------------------------------------
(* The steps that store something.                                         *)

LEMMA SubmitStep ==
  ASSUME CoreInv, CoreInv', NEW t \in Task, NEW s \in Subject, CreateTask(t, s)
  PROVE  Protocol!Submit(t, s)
<1>1. /\ store[t] = None /\ store'[t] = NewTask(s) /\ s \in Writers
      /\ UNCHANGED <<requestVars, historyVars>>
      /\ \A u \in Task \ {t} : store'[u] = store[u]
  BY DEF CreateTask, CoreInv, TypeInv, TypeOK
<1>2. \A h \in Handler : Standstill(h) /\ KeepsTo(h)
  BY <1>1 DEF requestVars, Standstill, KeepsTo
<1>3. \A u \in Task \ {t} : Unmoved(u)
  BY <1>1, <1>2, MappingFrame DEF historyVars, CoreInv
<1>4. \A h \in Handler : ~DrivenBy(h, t) /\ ~DrivenBy(h, t)'
  BY <1>1, <1>2 DEF DrivenBy, Driving, Standstill, CoreInv, TypeInv, WellFormed
<1>5. NewTask(s) # None /\ NewTask(s).checkpoint = None
  BY NewTaskType DEF NewTask
<1>6. /\ AgentOf(t) = "none" /\ AgentOf(t)' = "none" /\ TurnOf(t) = {} /\ TurnOf(t)' = {}
      /\ OutcomeOf(t) = "none" /\ OutcomeOf(t)' = "none"
  BY <1>1, <1>4, <1>5, UndrivenMappings DEF MapsUndriven, CallsOf
<1>7. /\ StatusOf(t) = "absent" /\ StatusOf(t)' = "pending" /\ RequesterOf(t)' = s
  BY <1>1, <1>5 DEF StatusOf, RequesterOf, NewTask
<1> QED
  BY <1>1, <1>3, <1>6, <1>7, OneMoves
  DEF Protocol!Submit, MStatus, MRequester, MAgent, MTurn, MOutcome, CoreInv, historyVars

\* What a stored transition moves, whoever stores it.
LEMMA CommitView ==
  ASSUME CoreInv, RunInv, CoreInv', NEW h \in Handler, pc[h] = "write", Commit(h),
         NEW t \in Task, t = on[h], on'[h] = t \/ ~Driving(h)',
         \A g \in Handler \ {h} : Standstill(g)
  PROVE  /\ \A u \in Task \ {t} : Unmoved(u)
         /\ StatusOf(t) = store[t].status /\ StatusOf(t)' = tx[h].target
         /\ RequesterOf(t) = store[t].requested_by /\ RequesterOf(t)' = RequesterOf(t)
         /\ \A g \in Handler \ {h} : /\ DrivenBy(g, t)' <=> DrivenBy(g, t)
                                     /\ DrivenBy(g, t) =>
                                          /\ tx[h].reason \in {"rejected", "cancelled"}
                                          /\ AgentOf(t)' = AgentOf(t)
                                          /\ TurnOf(t)' = TurnOf(t)
                                          /\ OutcomeOf(t)' = OutcomeOf(t)
<1>1. /\ store[t] # None /\ store'[t] # None
      /\ store'[t].status = tx[h].target /\ store'[t].requested_by = store[t].requested_by
      /\ \A u \in Task \ {t} : store'[u] = store[u] /\ spent'[u] = spent[u]
  BY CommitFields
<1>2. ASSUME NEW u \in Task \ {t}
      PROVE  Unmoved(u)
  <2>1. \A g \in Handler : KeepsTo(g) \/ (~DrivenBy(g, u) /\ ~DrivenBy(g, u)')
    BY DEF KeepsTo, Standstill, DrivenBy
  <2> QED
    BY <1>1, <2>1, MappingFrame DEF CoreInv
<1>3. /\ StatusOf(t) = store[t].status /\ StatusOf(t)' = tx[h].target
      /\ RequesterOf(t) = store[t].requested_by /\ RequesterOf(t)' = RequesterOf(t)
  BY <1>1 DEF StatusOf, RequesterOf
<1>4. ASSUME NEW g \in Handler \ {h}
      PROVE  /\ DrivenBy(g, t)' <=> DrivenBy(g, t)
             /\ DrivenBy(g, t) => /\ tx[h].reason \in {"rejected", "cancelled"}
                                  /\ AgentOf(t)' = AgentOf(t)
                                  /\ TurnOf(t)' = TurnOf(t)
                                  /\ OutcomeOf(t)' = OutcomeOf(t)
  <2>1. Standstill(g) /\ (DrivenBy(g, t)' <=> DrivenBy(g, t))
    BY <1>4 DEF DrivenBy, Driving, Standstill
  <2>2. ASSUME DrivenBy(g, t)
        PROVE  /\ tx[h].reason \in {"rejected", "cancelled"}
               /\ AgentOf(t)' = AgentOf(t)
               /\ TurnOf(t)' = TurnOf(t)
               /\ OutcomeOf(t)' = OutcomeOf(t)
    <3>1. tx[h].reason \in {"rejected", "cancelled"}
      BY <1>4, <2>2, CommitReasons DEF DrivenBy
    <3>2. /\ AgentOf(t) = Doing(pc[g])
          /\ TurnOf(t) = IF Reporting(g) THEN CallsOf(tx[g].checkpoint) ELSE turn[g]
          /\ OutcomeOf(t) = IF Reporting(g) THEN tx[g].target ELSE "none"
      BY <2>2, DrivenMappings DEF MapsDriven, CoreInv
    <3>3. /\ AgentOf(t)' = Doing(pc'[g])
          /\ TurnOf(t)' = IF Reporting(g)' THEN CallsOf(tx'[g].checkpoint) ELSE turn'[g]
          /\ OutcomeOf(t)' = IF Reporting(g)' THEN tx'[g].target ELSE "none"
      BY <2>1, <2>2, DrivenMappings DEF MapsDriven, Doing, CallsOf, CoreInv
    <3>4. pc'[g] = pc[g] /\ tx'[g] = tx[g] /\ turn'[g] = turn[g] /\ (Reporting(g)' <=> Reporting(g))
      BY <2>1 DEF Standstill, Reporting
    <3> QED
      BY <3>1, <3>2, <3>3, <3>4
  <2> QED
    BY <2>1, <2>2
<1> QED
  BY <1>2, <1>3, <1>4

\* A human withdraws the task: what it held is gone, its agent finds out later.
LEMMA WithdrawStep ==
  ASSUME CoreInv, RunInv, CoreInv', NEW h \in Handler, pc[h] = "write", Commit(h),
         NEW t \in Task, t = on[h], tx[h].reason \in {"rejected", "cancelled"},
         ~Driving(h)', \A g \in Handler \ {h} : Standstill(g)
  PROVE  Protocol!Withdraw(t)
<1>1. /\ \A u \in Task \ {t} : Unmoved(u)
      /\ StatusOf(t) = store[t].status /\ StatusOf(t)' = "cancelled"
      /\ RequesterOf(t)' = RequesterOf(t)
  BY CommitView, CommitReasons
<1>2. store[t].status \in {"pending", "running", "awaiting_approval"}
  <2>1. /\ store[t].status \in TaskStatus
        /\ tx[h].target \in AllowedTransitions[store[t].status]
    BY CommitStep DEF AgentTask
  <2> QED
    BY <2>1 DEF TaskStatus, AllowedTransitions
<1>3. ~Driving(h) /\ spent' = spent
  BY CommitHistory DEF Driving, Outcome
<1>4. CASE \E g \in Handler : DrivenBy(g, t)
  <2>1. PICK g \in Handler \ {h} : DrivenBy(g, t)
    BY <1>3, <1>4 DEF DrivenBy
  <2>2. /\ AgentOf(t)' = AgentOf(t) /\ TurnOf(t)' = TurnOf(t) /\ OutcomeOf(t)' = OutcomeOf(t)
    BY <2>1, CommitView
  <2>3. StatusOf(t) # "awaiting_approval"
    BY <2>1, DriverView
  <2> QED
    BY <1>1, <1>2, <1>3, <2>2, <2>3, OneMoves
    DEF Protocol!Withdraw, MStatus, MRequester, MAgent, MTurn, MOutcome, CoreInv
<1>5. CASE \A g \in Handler : ~DrivenBy(g, t)
  <2>1. \A g \in Handler : ~DrivenBy(g, t)'
    BY <1>5, CommitView DEF DrivenBy
  <2>2. /\ store[t] # None /\ store'[t] # None /\ store'[t].checkpoint = None
        /\ store[t].status # "awaiting_approval" => store[t].checkpoint = None
    <3>1. tx[h].checkpoint = None /\ WaitsWithCheckpoint(t)
      BY DEF RunInv, Request, Arguments, Run
    <3> QED
      BY <3>1, CommitFields DEF WaitsWithCheckpoint
  <2>3. /\ AgentOf(t) = "none" /\ OutcomeOf(t) = "none"
        /\ AgentOf(t)' = "none" /\ OutcomeOf(t)' = "none" /\ TurnOf(t)' = {}
        /\ store[t].status # "awaiting_approval" => TurnOf(t) = {}
    BY <1>5, <2>1, <2>2, UndrivenMappings DEF MapsUndriven, CallsOf
  <2> QED
    BY <1>1, <1>2, <1>3, <2>3, OneMoves, ZenonT(30)
    DEF Protocol!Withdraw, MStatus, MRequester, MAgent, MTurn, MOutcome, CoreInv
<1> QED
  BY <1>4, <1>5

\* The outcome of a run takes effect.
LEMMA SettleStep ==
  ASSUME CoreInv, RunInv, CoreInv', NEW h \in Handler, pc[h] = "write", Commit(h),
         NEW t \in Task, t = on[h], tx[h].reason \in Outcome,
         ~Driving(h)', \A g \in Handler \ {h} : Standstill(g)
  PROVE  Protocol!Settle(t)
<1>1. DrivenBy(h, t) /\ store[t].status = "running" /\ spent' = spent
  BY CommitReasons, CommitHistory DEF DrivenBy, Outcome
<1>2. /\ \A u \in Task \ {t} : Unmoved(u)
      /\ StatusOf(t) = "running" /\ StatusOf(t)' = tx[h].target
      /\ RequesterOf(t)' = RequesterOf(t)
  BY <1>1, CommitView
<1>3. AgentOf(t) = "reporting" /\ TurnOf(t) = CallsOf(tx[h].checkpoint) /\ OutcomeOf(t) = tx[h].target
  BY <1>1, DriverView DEF Reporting, Doing
<1>4. \A g \in Handler : ~DrivenBy(g, t)'
  <2>1. \A g \in Handler \ {h} : ~DrivenBy(g, t)
    BY <1>1 DEF CoreInv, OneDriver, DrivenBy
  <2> QED
    BY <2>1, CommitView DEF DrivenBy
<1>5. store'[t] # None /\ store'[t].checkpoint = tx[h].checkpoint
  BY CommitFields
<1>6. AgentOf(t)' = "none" /\ OutcomeOf(t)' = "none" /\ TurnOf(t)' = TurnOf(t)
  BY <1>3, <1>4, <1>5, UndrivenMappings DEF MapsUndriven, CallsOf
<1> QED
  BY <1>1, <1>2, <1>3, <1>6, OneMoves, ZenonT(30)
  DEF Protocol!Settle, MStatus, MRequester, MAgent, MTurn, MOutcome, CoreInv

\* A run begins, or goes on: the request that stored the transition drives it,
\* unless it is lost with the answer to its write.
LEMMA BeginView ==
  ASSUME CoreInv, RunInv, CoreInv', NEW h \in Handler, pc[h] = "write", Commit(h),
         NEW t \in Task, t = on[h], tx[h].reason \in {"started", "approved"},
         \A g \in Handler \ {h} : Standstill(g),
         \/ pc'[h] = "idle"
         \/ /\ pc'[h] = IF tx[h].reason = "started" THEN "loop" ELSE "tools"
            /\ UNCHANGED <<on, tx, state, turn>>
  PROVE  /\ \A u \in Task \ {t} : Unmoved(u)
         /\ StatusOf(t) = store[t].status /\ StatusOf(t)' = "running"
         /\ store[t].status \in {"pending", "awaiting_approval"}
         /\ RequesterOf(t) = store[t].requested_by /\ RequesterOf(t)' = RequesterOf(t)
         /\ TurnOf(t) = CallsOf(store[t].checkpoint)
         /\ OutcomeOf(t) = "none" /\ OutcomeOf(t)' = "none"
         /\ IF pc'[h] = "idle"
              THEN AgentOf(t)' = "none" /\ TurnOf(t)' = {}
              ELSE AgentOf(t)' = Doing(pc'[h]) /\ TurnOf(t)' = turn[h]
<1>1. ~Driving(h) /\ store[t].status \in {"pending", "awaiting_approval"}
  BY CommitReasons DEF Driving, Outcome
<1>2. /\ \A u \in Task \ {t} : Unmoved(u)
      /\ StatusOf(t) = store[t].status /\ StatusOf(t)' = "running"
      /\ RequesterOf(t) = store[t].requested_by /\ RequesterOf(t)' = RequesterOf(t)
      /\ \A g \in Handler \ {h} : ~DrivenBy(g, t) /\ ~DrivenBy(g, t)'
  <2>1. on'[h] = t \/ ~Driving(h)'
    BY DEF Driving
  <2> QED
    BY <2>1, CommitView, CommitReasons
<1>3. /\ store[t] # None /\ store'[t] # None /\ store'[t].checkpoint = None
  BY CommitFields DEF RunInv, Request, Arguments
<1>4. TurnOf(t) = CallsOf(store[t].checkpoint) /\ OutcomeOf(t) = "none"
  BY <1>1, <1>2, <1>3, UndrivenMappings DEF MapsUndriven, DrivenBy
<1>5. CASE pc'[h] = "idle"
  <2>1. \A g \in Handler : ~DrivenBy(g, t)'
    BY <1>2, <1>5 DEF DrivenBy, Driving
  <2>2. AgentOf(t)' = "none" /\ TurnOf(t)' = {} /\ OutcomeOf(t)' = "none"
    BY <1>3, <2>1, UndrivenMappings DEF MapsUndriven, CallsOf
  <2> QED
    BY <1>1, <1>2, <1>4, <1>5, <2>2
<1>6. CASE /\ pc'[h] = IF tx[h].reason = "started" THEN "loop" ELSE "tools"
           /\ UNCHANGED <<on, tx, state, turn>>
  <2>1. DrivenBy(h, t)' /\ ~Reporting(h)' /\ pc'[h] # "idle"
    BY <1>6 DEF DrivenBy, Driving, Reporting
  <2>2. AgentOf(t)' = Doing(pc'[h]) /\ TurnOf(t)' = turn[h] /\ OutcomeOf(t)' = "none"
    BY <1>6, <2>1, DrivenMappings DEF MapsDriven, Doing, CoreInv
  <2> QED
    BY <1>1, <1>2, <1>4, <2>1, <2>2
<1> QED
  BY <1>5, <1>6

LEMMA BeginStep ==
  ASSUME CoreInv, RunInv, CoreInv', NEW h \in Handler, pc[h] = "write", Commit(h),
         NEW t \in Task, t = on[h], tx[h].reason \in {"started", "approved"},
         \A g \in Handler \ {h} : Standstill(g),
         \/ pc'[h] = "idle" /\ Faults # {}
         \/ /\ pc'[h] = IF tx[h].reason = "started" THEN "loop" ELSE "tools"
            /\ UNCHANGED <<on, tx, state, turn>>
  PROVE  Protocol!Start(t) \/ \E s \in Subject : Protocol!Approve(t, s)
<1>1. CASE tx[h].reason = "started"
  <2>1. turn[h] = {} /\ spent' = [spent EXCEPT ![t] = 0]
    BY <1>1 DEF RunInv, Request, Unburdened, Commit
  <2>2. /\ MAgent' = [MAgent EXCEPT ![t] = AgentOf(t)']
        /\ MTurn'  = [MTurn EXCEPT ![t] = TurnOf(t)']
        /\ \/ AgentOf(t)' = "deciding" /\ TurnOf(t)' = {}
           \/ Faults # {} /\ AgentOf(t)' = "none" /\ TurnOf(t)' = {}
    BY <1>1, <2>1, BeginView, OneMoves DEF Doing, CoreInv
  <2>3. Protocol!Become(t, "deciding", {})
    BY <2>2 DEF Protocol!Become, MAgent, MTurn
  <2>4. /\ MStatus[t] \in {"pending", "awaiting_approval"}
        /\ MStatus' = [MStatus EXCEPT ![t] = "running"]
        /\ MRequester' = MRequester /\ MOutcome' = MOutcome
    BY BeginView, OneMoves DEF CoreInv
  <2> QED
    BY <2>1, <2>3, <2>4 DEF Protocol!Start, MStatus, MRequester, MOutcome
<1>2. CASE tx[h].reason = "approved"
  <2> DEFINE s == tx[h].by
  <2>1. /\ HoldsLastTurn(t, store[t].checkpoint) /\ turn[h] = asked[t][spent[t]]
        /\ s \in Approvers /\ (SecondPerson => s # store[t].requested_by)
        /\ UNCHANGED spent
    BY <1>2, ApprovalFits, CommitHistory
  <2>2. s \in Subject
    BY <2>1, SubjectsAssumption
  <2>3. store[t].status = "awaiting_approval"
    BY <2>1, CommitFields DEF RunInv, Run, WaitsWithCheckpoint, HoldsLastTurn
  <2>4. turn[h] = TurnOf(t)
    BY <2>1, BeginView DEF HoldsLastTurn, CallsOf
  <2>5. /\ MAgent' = [MAgent EXCEPT ![t] = AgentOf(t)']
        /\ MTurn'  = [MTurn EXCEPT ![t] = TurnOf(t)'] /\ MTurn[t] = TurnOf(t)
        /\ \/ AgentOf(t)' = "acting" /\ TurnOf(t)' = TurnOf(t)
           \/ Faults # {} /\ AgentOf(t)' = "none" /\ TurnOf(t)' = {}
    BY <1>2, <2>4, BeginView, OneMoves DEF Doing, CoreInv
  <2>6. Protocol!Become(t, "acting", MTurn[t])
    BY <2>5 DEF Protocol!Become, MAgent, MTurn
  <2>7. /\ MStatus[t] = "awaiting_approval" /\ MRequester[t] = store[t].requested_by
        /\ MStatus' = [MStatus EXCEPT ![t] = "running"]
        /\ MRequester' = MRequester /\ MOutcome' = MOutcome
    BY <2>3, BeginView, OneMoves DEF CoreInv
  <2>8. Protocol!Approve(t, s)
    BY <2>1, <2>6, <2>7 DEF Protocol!Approve, MStatus, MRequester, MTurn, MOutcome
  <2> QED
    BY <2>2, <2>8
<1> QED
  BY <1>1, <1>2

----------------------------------------------------------------------------
(* Requests that end, and requests that do nothing the protocol sees.      *)

\* Requests are gone, and with them the runs they were driving.
LEMMA LoseStep ==
  ASSUME CoreInv, RunInv, CoreInv', Faults # {}, UNCHANGED <<store, historyVars>>,
         \A g \in Handler : Standstill(g) \/ pc'[g] = "idle"
  PROVE  Protocol!Lose
<1> DEFINE lost == {t \in Task : \E g \in Handler : DrivenBy(g, t) /\ pc'[g] = "idle"}
<1>1. lost \in SUBSET {t \in Task : MAgent[t] # "none"}
  BY DrivenMappings DEF MapsDriven, MAgent, CoreInv
<1>2. ASSUME NEW t \in Task \ lost
      PROVE  Unmoved(t)
  <2>1. \A g \in Handler : KeepsTo(g) \/ (~DrivenBy(g, t) /\ ~DrivenBy(g, t)')
    BY <1>2 DEF KeepsTo, Standstill, DrivenBy, Driving
  <2> QED
    BY <2>1, MappingFrame DEF CoreInv, historyVars
<1>3. ASSUME NEW t \in lost
      PROVE  /\ StatusOf(t)' = StatusOf(t) /\ RequesterOf(t)' = RequesterOf(t)
             /\ AgentOf(t)' = "none" /\ TurnOf(t)' = {} /\ OutcomeOf(t)' = "none"
  <2>1. PICK h \in Handler : DrivenBy(h, t) /\ pc'[h] = "idle"
    BY <1>3
  <2>2. \A g \in Handler : ~DrivenBy(g, t)'
    BY <2>1 DEF CoreInv, OneDriver, DrivenBy, Driving, Standstill
  <2>3. store[t] # None /\ store[t].checkpoint = None
    BY <2>1, DriverFacts DEF DrivenBy
  <2>4. /\ AgentOf(t)' = "none" /\ OutcomeOf(t)' = "none" /\ TurnOf(t)' = {}
    BY <2>2, <2>3, UndrivenMappings DEF MapsUndriven, CallsOf
  <2> QED
    BY <2>4 DEF StatusOf, RequesterOf
<1> HIDE DEF lost
<1>4. lost \subseteq Task
  BY DEF lost
<1>5. /\ MAgent'   = [t \in Task |-> IF t \in lost THEN "none" ELSE MAgent[t]]
      /\ MTurn'    = [t \in Task |-> IF t \in lost THEN {} ELSE MTurn[t]]
      /\ MOutcome' = [t \in Task |-> IF t \in lost THEN "none" ELSE MOutcome[t]]
  BY <1>2, <1>3 DEF MAgent, MTurn, MOutcome, Unmoved
<1>6. MStatus' = MStatus /\ MRequester' = MRequester /\ spent' = spent
  BY <1>2, <1>3 DEF MStatus, MRequester, Unmoved, historyVars
<1> QED
  BY <1>1, <1>5, <1>6 DEF Protocol!Lose, MStatus, MRequester, MAgent, MTurn, MOutcome

\* A request that drives nothing goes about its business.
LEMMA SilentStep ==
  ASSUME CoreInv, CoreInv', UNCHANGED <<store, spent>>, NEW h \in Handler,
         KeepsTo(h) \/ (~Driving(h) /\ ~Driving(h)'),
         \A g \in Handler \ {h} : Standstill(g)
  PROVE  UNCHANGED Protocol!vars
<1>1. ASSUME NEW t \in Task
      PROVE  Unmoved(t)
  <2>1. \A g \in Handler : KeepsTo(g) \/ (~DrivenBy(g, t) /\ ~DrivenBy(g, t)')
    BY DEF KeepsTo, Standstill, DrivenBy
  <2> QED
    BY <2>1, MappingFrame DEF CoreInv
<1> QED
  BY <1>1, NobodyMoves DEF CoreInv

\* A request that is answered while it drives nothing.
LEMMA AnsweredStep ==
  ASSUME CoreInv, CoreInv', NEW h \in Handler, ~Driving(h), Return(h),
         UNCHANGED <<store, historyVars>>
  PROVE  UNCHANGED Protocol!vars
<1>1. pc'[h] = "idle" /\ \A g \in Handler \ {h} : Standstill(g)
  BY ReturnLocals DEF CoreInv, TypeInv
<1> QED
  BY <1>1, SilentStep DEF Driving, historyVars

\* A transition that is refused: the run behind it, if any, is dropped.
LEMMA RefusedStep ==
  ASSUME CoreInv, RunInv, CoreInv', RunInv', NEW h \in Handler, TransitionRefused(h),
         pc[h] \in {"load", "write"}
  PROVE  UNCHANGED Protocol!vars \/ \E t \in Task : Protocol!Drop(t)
<1>1. CASE tx[h].reason \in Outcome
  <2>1. /\ pc'[h] = "discard" /\ UNCHANGED <<store, on, historyVars>>
        /\ \A g \in Handler \ {h} : Standstill(g)
    BY <1>1 DEF TransitionRefused, Goto, Standstill, CoreInv, TypeInv, TypeOK
  <2>2. Driving(h) /\ ~Driving(h)'
    BY <1>1, <2>1 DEF Driving
  <2>3. PICK t \in Task : t = on[h]
    BY <2>2, DriverFacts
  <2>4. Overtaken(h)'
    BY DEF RunInv, Request
  <2>5. store[t].status = "cancelled"
    BY <2>1, <2>3, <2>4 DEF Overtaken
  <2>6. Protocol!Drop(t)
    BY <2>1, <2>2, <2>3, <2>5, DropStep DEF DrivenBy, historyVars
  <2> QED
    BY <2>6
<1>2. CASE tx[h].reason \notin Outcome
  BY <1>2, AnsweredStep DEF TransitionRefused, Driving
<1> QED
  BY <1>1, <1>2

\* A stored transition, by a request that survives it or is lost with its answer.
LEMMA StoredStep ==
  ASSUME CoreInv, RunInv, CoreInv', NEW h \in Handler, pc[h] = "write", Commit(h),
         \A g \in Handler \ {h} : Standstill(g),
         \/ pc'[h] = "idle" /\ (Faults # {} \/ tx[h].reason \notin {"started", "approved"})
         \/ /\ tx[h].reason \in {"started", "approved"}
            /\ pc'[h] = IF tx[h].reason = "started" THEN "loop" ELSE "tools"
            /\ UNCHANGED <<on, tx, state, turn>>
  PROVE  \E t \in Task : \/ Protocol!Start(t) \/ Protocol!Withdraw(t) \/ Protocol!Settle(t)
                         \/ \E s \in Subject : Protocol!Approve(t, s)
<1>1. PICK t \in Task : t = on[h]
  BY CommitStep
<1>2. CASE tx[h].reason \in {"started", "approved"}
  BY <1>1, <1>2, BeginStep
<1>3. CASE tx[h].reason \notin {"started", "approved"}
  <2>1. ~Driving(h)'
    BY <1>3 DEF Driving
  <2>2. tx[h].reason \in {"rejected", "cancelled"} \cup Outcome
    BY <1>1, <1>3, CommitReasons
  <2> QED
    BY <1>1, <2>1, <2>2, WithdrawStep, SettleStep
<1> QED
  BY <1>2, <1>3

----------------------------------------------------------------------------
(* Every step.                                                             *)

\* What one step of the platform may be in the protocol.
Maps == [Protocol!Next]_(Protocol!vars)

LEMMA RequestsMap ==
  ASSUME CoreInv, RunInv, CoreInv', Requests
  PROVE  Maps
<1>1. ASSUME NEW t \in Task, NEW s \in Subject, CreateTask(t, s)
      PROVE  Maps
  <2>1. Protocol!Submit(t, s)
    BY <1>1, SubmitStep
  <2> QED
    BY <2>1 DEF Maps, Protocol!Next
<1>2. ASSUME NEW h \in Handler, NEW t \in Task, NEW label \in {"policy", "require", "load"},
             NEW transition, transition.reason \notin Outcome,
             Arrive(h, t, label, transition)
      PROVE  Maps
  <2>1. /\ pc[h] = "idle" /\ pc'[h] = label /\ tx'[h] = transition
        /\ UNCHANGED <<store, historyVars>>
        /\ \A g \in Handler \ {h} : Standstill(g)
    BY <1>2 DEF Arrive, Goto, Standstill, CoreInv, TypeInv, TypeOK
  <2>2. ~Driving(h) /\ ~Driving(h)'
    BY <1>2, <2>1 DEF Driving
  <2>3. UNCHANGED Protocol!vars
    BY <2>1, <2>2, SilentStep DEF historyVars
  <2> QED
    BY <2>3 DEF Maps
<1>3. ASSUME NEW h \in Handler, NEW t \in Task, NEW s \in Subject,
             ApproveTask(h, t, s) \/ RejectTask(h, t, s) \/ CancelTask(h, t, s)
      PROVE  Maps
  <2>1. PICK label \in {"policy", "require", "load"},
             reason \in {"approved", "rejected", "cancelled"} :
          \E target, by : Arrive(h, t, label, Transition(target, reason, by, None))
    BY <1>3 DEF ApproveTask, RejectTask, CancelTask
  <2>2. PICK target, by : Arrive(h, t, label, Transition(target, reason, by, None))
    BY <2>1
  <2> DEFINE transition == Transition(target, reason, by, None)
  <2>3. transition.reason \notin Outcome
    BY DEF Transition, Outcome
  <2>4. Arrive(h, t, label, transition)
    BY <2>2
  <2> HIDE DEF transition
  <2> QED
    BY <1>2, <2>3, <2>4
<1>4. ASSUME NEW h \in Handler, NEW t \in Task, RunTask(h, t)
      PROVE  Maps
  <2> DEFINE transition == Transition("running", "started", None, None)
  <2>1. transition.reason \notin Outcome /\ Arrive(h, t, "load", transition)
    BY <1>4 DEF RunTask, Transition, Outcome
  <2> HIDE DEF transition
  <2> QED
    BY <1>2, <2>1
<1> QED
  BY <1>1, <1>3, <1>4 DEF Requests

LEMMA DecisionMaps ==
  ASSUME CoreInv, CoreInv', NEW h \in Handler,
         CheckPolicy(h) \/ RequirePaused(h) \/ NotPaused(h) \/ Discard(h)
  PROVE  Maps
<1>1. pc[h] \in {"policy", "require", "discard"} /\ ~Driving(h)
  BY DEF CheckPolicy, RequirePaused, NotPaused, Discard, Driving
<1>2. CASE Return(h) /\ UNCHANGED <<store, historyVars>>
  BY <1>1, <1>2, AnsweredStep DEF Maps
<1>3. CASE CheckPolicy(h) /\ ~Return(h)
  <2>1. /\ pc'[h] = "require" /\ UNCHANGED <<store, historyVars>>
        /\ \A g \in Handler \ {h} : Standstill(g)
    BY <1>3 DEF CheckPolicy, Goto, Standstill, CoreInv, TypeInv, TypeOK
  <2> QED
    BY <1>1, <2>1, SilentStep DEF Driving, Maps, historyVars
<1>4. CASE RequirePaused(h)
  <2>1. /\ pc[h] = "require" /\ pc'[h] = "load" /\ tx'[h].reason = tx[h].reason
        /\ UNCHANGED <<store, historyVars>>
        /\ \A g \in Handler \ {h} : Standstill(g)
    BY <1>4 DEF RequirePaused, Goto, Standstill, CoreInv, TypeInv, TypeOK, TransitionArgs
  <2>2. ~Driving(h)'
    BY <2>1 DEF Driving, Outcome, CoreInv, Instructed
  <2> QED
    BY <1>1, <2>1, <2>2, SilentStep DEF Maps, historyVars
<1> QED
  BY <1>2, <1>3, <1>4 DEF CheckPolicy, NotPaused, Discard

LEMMA TransitionMaps ==
  ASSUME CoreInv, RunInv, CoreInv', RunInv', NEW h \in Handler,
         LoadTask(h) \/ StoreTask(h) \/ StaleWrite(h)
  PROVE  Maps
<1>1. CASE TransitionRefused(h) /\ pc[h] \in {"load", "write"}
  BY <1>1, RefusedStep DEF Maps, Protocol!Next
<1>2. CASE LoadTask(h) /\ ~TransitionRefused(h)
  <2>1. /\ pc[h] = "load" /\ pc'[h] = "write" /\ UNCHANGED <<on, tx, turn, store, historyVars>>
        /\ \A g \in Handler \ {h} : Standstill(g)
    BY <1>2 DEF LoadTask, Goto, Standstill, CoreInv, TypeInv, TypeOK
  <2>2. KeepsTo(h)
    BY <2>1 DEF KeepsTo, Reporting
  <2> QED
    BY <2>1, <2>2, SilentStep DEF Maps, historyVars
<1>3. CASE StoreTask(h)
  <2>1. /\ pc[h] = "write" /\ Commit(h)
        /\ \A g \in Handler \ {h} : Standstill(g)
        /\ \/ pc'[h] = "idle" /\ tx[h].reason \notin {"started", "approved"}
           \/ /\ tx[h].reason \in {"started", "approved"}
              /\ pc'[h] = IF tx[h].reason = "started" THEN "loop" ELSE "tools"
              /\ UNCHANGED <<on, tx, state, turn>>
    <3>1. CASE tx[h].reason \in {"started", "approved"}
      BY <1>3, <3>1 DEF StoreTask, Goto, Standstill, CoreInv, TypeInv, TypeOK
    <3>2. CASE tx[h].reason \notin {"started", "approved"}
      BY <1>3, <3>2, ReturnLocals DEF StoreTask, CoreInv, TypeInv
    <3> QED
      BY <3>1, <3>2
  <2> QED
    BY <2>1, StoredStep DEF Maps, Protocol!Next
<1> QED
  BY <1>1, <1>2, <1>3 DEF LoadTask, StaleWrite

\* What an agent does.
LEMMA AgentMaps ==
  ASSUME CoreInv, RunInv, CoreInv', RunInv', NEW h \in Handler,
         \/ BudgetExhausted(h) \/ Abandon(h) \/ AskModel(h)
         \/ \E reason \in Outcome : ModelConcludes(h, reason)
         \/ \E calls \in SUBSET Call \ {{}} : ModelAsksForTools(h, calls)
         \/ ExecuteTurn(h)
  PROVE  Maps
<1>1. pc[h] \in {"loop", "model", "tools"} /\ Driving(h)
  BY DEF BudgetExhausted, Abandon, AskModel, ModelConcludes, ModelAsksForTools, Reply,
         ExecuteTurn, Driving
<1>2. PICK t \in Task : t = on[h]
  BY <1>1, DriverFacts
<1>3. CASE AskModel(h)
  BY <1>2, <1>3, ThinkStep DEF Maps, Protocol!Next
<1>4. CASE BudgetExhausted(h) \/ \E reason \in Outcome : ModelConcludes(h, reason)
  BY <1>2, <1>4, ConcludeStep DEF Maps, Protocol!Next
<1>5. CASE \E calls \in SUBSET Call \ {{}} : ModelAsksForTools(h, calls)
  BY <1>2, <1>5, TurnStep DEF Maps, Protocol!Next
<1>6. CASE ExecuteTurn(h)
  BY <1>2, <1>6, ActedStep DEF Maps, Protocol!Next
<1>7. CASE Abandon(h)
  <2>1. /\ pc[h] = "loop" /\ pc'[h] = "discard" /\ UNCHANGED <<store, on, historyVars>>
        /\ \A g \in Handler \ {h} : Standstill(g)
    BY <1>7 DEF Abandon, Goto, Standstill, CoreInv, TypeInv, TypeOK
  <2>2. Overtaken(h)'
    BY DEF RunInv, Request
  <2>3. store[t].status = "cancelled" /\ ~Driving(h)'
    BY <1>2, <2>1, <2>2 DEF Overtaken, Driving
  <2>4. Protocol!Drop(t)
    BY <1>1, <1>2, <2>1, <2>3, DropStep DEF DrivenBy, historyVars
  <2> QED
    BY <2>4 DEF Maps, Protocol!Next
<1> QED
  BY <1>3, <1>4, <1>5, <1>6, <1>7

LEMMA FailuresMap ==
  ASSUME CoreInv, RunInv, CoreInv', Failures
  PROVE  Maps
<1>1. ASSUME NEW p \in Replica, Crash(p)
      PROVE  Maps
  <2>1. /\ Faults # {} /\ UNCHANGED <<store, historyVars>>
        /\ \A g \in Handler : Standstill(g) \/ pc'[g] = "idle"
    BY <1>1 DEF Crash, Standstill
  <2> QED
    BY <2>1, LoseStep DEF Maps, Protocol!Next
<1>2. ASSUME NEW h \in Handler, Faults # {}, Return(h), UNCHANGED <<store, historyVars>>
      PROVE  Maps
  <2>1. \A g \in Handler : Standstill(g) \/ pc'[g] = "idle"
    BY <1>2, ReturnLocals DEF CoreInv, TypeInv
  <2> QED
    BY <1>2, <2>1, LoseStep DEF Maps, Protocol!Next
<1>3. ASSUME NEW h \in Handler, Faults # {}, pc[h] = "write", Return(h), Commit(h)
      PROVE  Maps
  <2>1. pc'[h] = "idle" /\ \A g \in Handler \ {h} : Standstill(g)
    BY <1>3, ReturnLocals DEF CoreInv, TypeInv
  <2> QED
    BY <1>3, <2>1, StoredStep DEF Maps, Protocol!Next
<1> QED
  BY <1>1, <1>2, <1>3 DEF Failures, ReadFails, WriteFails, ModelDefect

LEMMA NextMaps == CoreInv /\ RunInv /\ CoreInv' /\ RunInv' /\ [Next]_vars => Maps
<1> SUFFICES ASSUME CoreInv, RunInv, CoreInv', RunInv', [Next]_vars
             PROVE  Maps
  OBVIOUS
<1>1. CASE UNCHANGED vars
  <2>1. \A g \in Handler : Standstill(g) /\ KeepsTo(g)
    BY <1>1 DEF vars, requestVars, Standstill, KeepsTo
  <2>2. \A t \in Task : Unmoved(t)
    BY <1>1, <2>1, MappingFrame DEF CoreInv, vars, historyVars
  <2> QED
    BY <2>2, NobodyMoves DEF CoreInv, Maps
<1>2. ASSUME NEW h \in Handler, Work(h)
      PROVE  Maps
  BY <1>2, DecisionMaps, TransitionMaps, AgentMaps DEF Work
<1> QED
  BY <1>1, <1>2, RequestsMap, FailuresMap DEF Next

LEMMA InitMaps == Init => Protocol!Init
<1> SUFFICES ASSUME Init
             PROVE  Protocol!Init
  OBVIOUS
<1>1. ASSUME NEW t \in Task
      PROVE  /\ StatusOf(t) = "absent" /\ RequesterOf(t) = None /\ AgentOf(t) = "none"
             /\ TurnOf(t) = {} /\ OutcomeOf(t) = "none"
  <2>1. \A h \in Handler : ~DrivenBy(h, t)
    BY DEF Init, DrivenBy, Driving
  <2> QED
    BY <2>1, UndrivenMapping DEF MapsUndriven, Init, StatusOf, RequesterOf
<1> QED
  BY <1>1 DEF Init, Protocol!Init

----------------------------------------------------------------------------
\* The platform keeps the promises of ApprovalProtocol: racing on versioned
\* reads and writes, with requests lost or timing out anywhere, it does nothing
\* that one agent per task and one decision per pause would not do (runner.py,
\* "Only one run per task" and "Cancellation is cooperative"; router.py,
\* approve_task; service.py, transition_task).
THEOREM PlatformImplementsProtocol == Spec => ImplementsProtocol
<1>1. Init => Protocol!Init
  BY InitMaps
<1>2. CoreInv /\ RunInv /\ CoreInv' /\ RunInv' /\ [Next]_vars
        => [Protocol!Next]_(Protocol!vars)
  BY NextMaps DEF Maps
<1> QED
  BY <1>1, <1>2, RunInvariant, PTL DEF Spec, ImplementsProtocol, Protocol!Spec
=============================================================================
