-------------------------- MODULE AgentRunProofs --------------------------
(***************************************************************************)
(* Theorems about the runs of AgentPlatform: what may be executed, how     *)
(* often, on whose word, and what becomes of a run whose task is cancelled *)
(* or paused.  They rest on one invariant, RunInv, over CoreInv: what      *)
(* every request knows about the run it is about to touch, and what the    *)
(* history of every task says about its latest run.                        *)
(***************************************************************************)
EXTENDS AgentPlatformProofs, WellFoundedInduction

----------------------------------------------------------------------------
(* Sums over the turns of a run.                                           *)

\* A set of natural numbers has a least element.
LEMMA LeastNumber ==
  ASSUME NEW T, T \subseteq Nat, T # {}
  PROVE  \E x \in T : \A y \in T : x <= y
<1> DEFINE Less == OpToRel(<, Nat)
<1>1. IsWellFoundedOn(Less, Nat)
  BY NatLessThanWellFounded
<1>2. \A x, y \in Nat : y < x => <<y, x>> \in Less
  BY DEF OpToRel
<1> HIDE DEF Less
<1>3. PICK x \in T : \A y \in T : <<y, x>> \notin Less
  BY <1>1, WFMin
<1>4. \A y \in T : ~ (y < x)
  BY <1>2, <1>3
<1> QED
  BY <1>3, <1>4

\* g holds the sums of the parts up to each turn, as far as turn m.
Adds(g, part, m) ==
  /\ g = [n \in 0..m |-> g[n]]
  /\ g[0] = 0
  /\ \A n \in 0..m : g[n] \in Nat /\ (n # 0 => g[n] = g[n - 1] + part[n])

LEMMA SumsExist ==
  ASSUME NEW part \in [Steps -> Nat]
  PROVE  \E g : Adds(g, part, MaxSteps)
<1> DEFINE Bad == {m \in 0..MaxSteps : ~ \E g : Adds(g, part, m)}
<1> SUFFICES ASSUME Bad # {} PROVE FALSE
  BY RunnerAssumption
<1>1. PICK m \in Bad : \A k \in Bad : m <= k
  <2>1. Bad \subseteq Nat
    BY RunnerAssumption
  <2> HIDE DEF Bad
  <2> QED
    BY <2>1, LeastNumber
<1>2. m \in 0..MaxSteps /\ ~ \E g : Adds(g, part, m)
  OBVIOUS
<1>3. CASE m = 0
  <2> DEFINE g == [n \in 0..0 |-> 0]
  <2>1. Adds(g, part, 0)
    BY DEF Adds
  <2> QED
    BY <1>2, <1>3, <2>1
<1>4. CASE m # 0
  <2>1. m - 1 \in 0..MaxSteps /\ m - 1 \notin Bad
    BY <1>1, <1>2, <1>4, RunnerAssumption
  <2>2. PICK g : Adds(g, part, m - 1)
    BY <2>1
  <2> HIDE DEF Bad
  <2>3. m \in Steps /\ part[m] \in Nat /\ g[m - 1] \in Nat /\ m \in Nat
    <3>1. m \in Nat /\ m \in Steps
      BY <1>2, <1>4, RunnerAssumption DEF Steps
    <3>2. m - 1 \in 0..(m - 1)
      BY <1>4, <3>1
    <3> QED
      BY <2>2, <3>1, <3>2 DEF Adds
  <2> DEFINE more == [n \in 0..m |-> IF n = m THEN g[m - 1] + part[m] ELSE g[n]]
  <2>4. \A n \in 0..m : n # m => n \in 0..(m - 1) /\ more[n] = g[n]
    BY <2>3
  <2>5. more[m] = g[m - 1] + part[m]
    BY <2>3
  <2>6. more = [n \in 0..m |-> more[n]]
    OBVIOUS
  <2> HIDE DEF more
  <2>7. m - 1 \in 0..m /\ m - 1 # m /\ more[m - 1] = g[m - 1]
    BY <2>3, <2>4, <1>4
  <2>8. ASSUME NEW n \in 0..m
        PROVE  more[n] \in Nat /\ (n # 0 => more[n] = more[n - 1] + part[n])
    <3>1. CASE n = m
      BY <3>1, <2>3, <2>5, <2>7
    <3>2. CASE n # m
      <4>1. n \in 0..(m - 1) /\ more[n] = g[n] /\ (n # 0 => n - 1 \in 0..m /\ n - 1 # m)
        BY <3>2, <2>3, <2>4
      <4> QED
        BY <2>2, <2>4, <4>1 DEF Adds
    <3> QED
      BY <3>1, <3>2
  <2>9. more[0] = 0
    <3>1. 0 \in 0..m /\ 0 # m
      BY <1>4, <2>3
    <3> QED
      BY <2>2, <2>4, <3>1 DEF Adds
  <2>10. Adds(more, part, m)
    BY <2>6, <2>8, <2>9 DEF Adds
  <2> QED
    BY <1>2, <2>10
<1> QED
  BY <1>3, <1>4

\* The calls of each turn, as often as it was executed.
Parts(times, turns) == [n \in Steps |-> times[n] * Cardinality(turns[n])]

LEMMA PartsType ==
  ASSUME NEW times \in [Steps -> Nat], NEW turns \in [Steps -> SUBSET Call]
  PROVE  /\ Parts(times, turns) \in [Steps -> Nat]
         /\ \A n \in Steps : Cardinality(turns[n]) \in Nat
<1>1. ASSUME NEW n \in Steps
      PROVE  times[n] * Cardinality(turns[n]) \in Nat /\ Cardinality(turns[n]) \in Nat
  <2>1. IsFiniteSet(turns[n])
    BY DeploymentAssumption, FS_Subset
  <2>2. Cardinality(turns[n]) \in Nat /\ times[n] \in Nat
    BY <2>1, FS_CardinalityType
  <2> QED
    BY <2>2
<1> QED
  BY <1>1 DEF Parts

\* What CallsIn adds up.
LEMMA CallsInAdds ==
  ASSUME NEW times \in [Steps -> Nat], NEW turns \in [Steps -> SUBSET Call],
         NEW part, part = Parts(times, turns)
  PROVE  \E g : Adds(g, part, MaxSteps) /\ CallsIn(times, turns) = g[MaxSteps]
<1> DEFINE IsSum(g) == g = [n \in 0..MaxSteps |->
                              IF n = 0 THEN 0 ELSE g[n - 1] + times[n] * Cardinality(turns[n])]
<1>1. part \in [Steps -> Nat] /\ MaxSteps \in Nat
  BY PartsType, RunnerAssumption
<1>2. \A n \in 0..MaxSteps : n # 0 => n \in Steps /\ part[n] = times[n] * Cardinality(turns[n])
  BY <1>1 DEF Steps, Parts
<1>3. PICK g : Adds(g, part, MaxSteps)
  BY <1>1, SumsExist
<1>4. IsSum(g)
  BY <1>2, <1>3 DEF Adds
<1>5. PICK f : f = CHOOSE sums : IsSum(sums)
  OBVIOUS
<1>6. CallsIn(times, turns) = f[MaxSteps]
  BY <1>5 DEF CallsIn
<1>7. IsSum(f)
  BY <1>4, <1>5
<1> DEFINE Bad == {n \in 0..MaxSteps : f[n] \notin Nat}
<1>8. \A n \in 0..MaxSteps : f[n] = IF n = 0 THEN 0 ELSE f[n - 1] + part[n]
  BY <1>2, <1>7
<1>9. f = [n \in 0..MaxSteps |-> f[n]]
  BY <1>7
<1> HIDE DEF IsSum
<1>10. ASSUME Bad # {}
       PROVE  FALSE
  <2>1. Bad \subseteq Nat
    BY <1>1
  <2> HIDE DEF Bad
  <2>2. PICK m \in Bad : \A k \in Bad : m <= k
    BY <1>10, <2>1, LeastNumber
  <2> USE DEF Bad
  <2>3. m \in 0..MaxSteps /\ f[m] \notin Nat /\ m \in Nat
    BY <1>1
  <2>4. m # 0
    BY <1>8, <2>3
  <2>5. m - 1 \in 0..MaxSteps /\ ~(m <= m - 1)
    BY <1>1, <2>3, <2>4
  <2>6. f[m - 1] \in Nat
    BY <2>2, <2>5
  <2>7. f[m] = f[m - 1] + part[m] /\ part[m] \in Nat
    BY <1>1, <1>2, <1>8, <2>3, <2>4
  <2> QED
    BY <2>3, <2>6, <2>7
<1>11. Adds(f, part, MaxSteps)
  <2>1. f[0] = 0
    BY <1>1, <1>8
  <2>2. \A n \in 0..MaxSteps : f[n] \in Nat
    BY <1>10
  <2> QED
    BY <1>8, <1>9, <2>1, <2>2 DEF Adds
<1> QED
  BY <1>6, <1>11

\* Sums of parts that differ in one place differ by as much.
LEMMA SumMoves ==
  ASSUME NEW part \in [Steps -> Nat], NEW other \in [Steps -> Nat],
         NEW k \in Steps, NEW more \in Nat, other[k] = part[k] + more,
         \A n \in Steps : n # k => other[n] = part[n],
         NEW g, Adds(g, part, MaxSteps), NEW h, Adds(h, other, MaxSteps)
  PROVE  h[MaxSteps] = g[MaxSteps] + more
<1> DEFINE Apart(n) == h[n] # g[n] + (IF n < k THEN 0 ELSE more)
           Bad == {n \in 0..MaxSteps : Apart(n)}
<1>1. k \in Nat /\ k > 0 /\ k <= MaxSteps /\ MaxSteps \in Nat
  BY RunnerAssumption DEF Steps
<1>2. ASSUME Bad # {}
      PROVE  FALSE
  <2>1. Bad \subseteq Nat
    BY <1>1
  <2>2. PICK m \in Bad : \A n \in Bad : m <= n
    <3> HIDE DEF Bad
    <3> QED
      BY <1>2, <2>1, LeastNumber
  <2>3. m \in 0..MaxSteps /\ Apart(m) /\ m \in Nat
    BY <2>1, <2>2
  <2>4. \A n \in 0..MaxSteps : n < m => ~Apart(n)
    BY <2>2, <2>3
  <2> HIDE DEF Bad
  <2>5. m # 0
    BY <1>1, <2>3 DEF Adds
  <2>6. /\ m - 1 \in 0..MaxSteps /\ m \in Steps
        /\ h[m - 1] = g[m - 1] + (IF m - 1 < k THEN 0 ELSE more)
    BY <1>1, <2>3, <2>4, <2>5 DEF Steps
  <2>7. /\ h[m] = h[m - 1] + other[m] /\ g[m] = g[m - 1] + part[m]
        /\ g[m - 1] \in Nat /\ part[m] \in Nat
    BY <2>3, <2>5, <2>6 DEF Adds
  <2> QED
    BY <1>1, <2>3, <2>6, <2>7
<1>3. ~Apart(MaxSteps)
  BY <1>1, <1>2
<1> QED
  BY <1>1, <1>3

\* A run that has begun has made no calls.
LEMMA NoCallsYet ==
  ASSUME NEW turns \in [Steps -> SUBSET Call]
  PROVE  CallsIn(NotRun, turns) = 0
<1>1. NotRun \in [Steps -> Nat] /\ \A n \in Steps : NotRun[n] = 0
  BY DEF NotRun
<1>2. PICK part : part = Parts(NotRun, turns)
  OBVIOUS
<1>3. part \in [Steps -> Nat] /\ \A n \in Steps : part[n] = 0
  <2>1. \A n \in Steps : Cardinality(turns[n]) \in Nat /\ part[n] = NotRun[n] * Cardinality(turns[n])
    BY <1>1, <1>2, PartsType DEF Parts
  <2>2. part \in [Steps -> Nat]
    BY <1>1, <1>2, PartsType
  <2>3. \A n \in Steps : part[n] = 0
    BY <1>1, <2>1
  <2> QED
    BY <2>2, <2>3
<1>4. PICK g : Adds(g, part, MaxSteps) /\ CallsIn(NotRun, turns) = g[MaxSteps]
  BY <1>1, <1>2, CallsInAdds
<1> DEFINE Bad == {n \in 0..MaxSteps : g[n] # 0}
<1>5. MaxSteps \in Nat
  BY RunnerAssumption
<1>6. ASSUME Bad # {}
      PROVE  FALSE
  <2>1. Bad \subseteq Nat
    BY <1>5
  <2>2. PICK m \in Bad : \A n \in Bad : m <= n
    <3> HIDE DEF Bad
    <3> QED
      BY <1>6, <2>1, LeastNumber
  <2>3. m \in 0..MaxSteps /\ g[m] # 0 /\ m \in Nat
    BY <2>1, <2>2
  <2>4. m # 0
    BY <1>4, <2>3 DEF Adds
  <2>5. m - 1 \in 0..MaxSteps /\ m \in Steps /\ ~(m <= m - 1)
    BY <1>5, <2>3, <2>4 DEF Steps
  <2>6. g[m - 1] = 0
    BY <2>2, <2>5
  <2>7. g[m] = g[m - 1] + part[m]
    BY <1>4, <2>3, <2>4 DEF Adds
  <2> QED
    BY <1>3, <2>3, <2>5, <2>6, <2>7
<1>7. g[MaxSteps] = 0
  BY <1>5, <1>6
<1> QED
  BY <1>4, <1>7

\* A turn that is executed for the first time adds its calls.
LEMMA TurnAddsCalls ==
  ASSUME NEW times \in [Steps -> Nat], NEW turns \in [Steps -> SUBSET Call],
         NEW k \in Steps, times[k] = 0
  PROVE  CallsIn([times EXCEPT ![k] = @ + 1], turns) = CallsIn(times, turns) + Cardinality(turns[k])
<1>1. PICK again : again = [times EXCEPT ![k] = @ + 1]
  OBVIOUS
<1>2. again \in [Steps -> Nat] /\ again[k] = 1 /\ \A n \in Steps : n # k => again[n] = times[n]
  BY <1>1
<1>3. PICK part, other : part = Parts(times, turns) /\ other = Parts(again, turns)
  OBVIOUS
<1>4. /\ part \in [Steps -> Nat] /\ other \in [Steps -> Nat]
      /\ Cardinality(turns[k]) \in Nat
  BY <1>2, <1>3, PartsType
<1>5. /\ part[k] = times[k] * Cardinality(turns[k])
      /\ other[k] = again[k] * Cardinality(turns[k])
      /\ \A n \in Steps : n # k => other[n] = part[n]
  BY <1>2, <1>3 DEF Parts
<1>6. other[k] = part[k] + Cardinality(turns[k])
  BY <1>2, <1>4, <1>5
<1>7. PICK g : Adds(g, part, MaxSteps) /\ CallsIn(times, turns) = g[MaxSteps]
  BY <1>3, CallsInAdds
<1>8. PICK h : Adds(h, other, MaxSteps) /\ CallsIn(again, turns) = h[MaxSteps]
  BY <1>2, <1>3, CallsInAdds
<1>9. PICK more \in Nat : more = Cardinality(turns[k])
  BY <1>4
<1>10. h[MaxSteps] = g[MaxSteps] + more
  <2>1. other[k] = part[k] + more
    BY <1>6, <1>9
  <2>2. \A n \in Steps : n # k => other[n] = part[n]
    BY <1>5
  <2>3. Adds(g, part, MaxSteps) /\ Adds(h, other, MaxSteps)
    BY <1>7, <1>8
  <2>4. part \in [Steps -> Nat] /\ other \in [Steps -> Nat] /\ more \in Nat /\ k \in Steps
    BY <1>4, <1>9
  <2> QED
    BY ONLY <2>1, <2>2, <2>3, <2>4, SumMoves
<1> QED
  BY <1>1, <1>7, <1>8, <1>9, <1>10

\* A turn that is asked for adds none.
LEMMA AskingAddsNoCalls ==
  ASSUME NEW times \in [Steps -> Nat], NEW turns \in [Steps -> SUBSET Call],
         NEW k \in Steps, times[k] = 0, NEW calls \in SUBSET Call
  PROVE  CallsIn(times, [turns EXCEPT ![k] = calls]) = CallsIn(times, turns)
<1>1. PICK others : others = [turns EXCEPT ![k] = calls]
  OBVIOUS
<1>2. others \in [Steps -> SUBSET Call] /\ \A n \in Steps : n # k => others[n] = turns[n]
  BY <1>1
<1>3. PICK part, other : part = Parts(times, turns) /\ other = Parts(times, others)
  OBVIOUS
<1>4. part \in [Steps -> Nat] /\ other \in [Steps -> Nat]
  BY <1>2, <1>3, PartsType
<1>5. other[k] = part[k] + 0
  <2>1. Cardinality(turns[k]) \in Nat /\ Cardinality(others[k]) \in Nat
    BY <1>2, PartsType
  <2>2. /\ part[k] = times[k] * Cardinality(turns[k])
        /\ other[k] = times[k] * Cardinality(others[k])
    BY <1>3 DEF Parts
  <2> QED
    BY <2>1, <2>2
<1>6. \A n \in Steps : n # k => other[n] = part[n]
  BY <1>2, <1>3 DEF Parts
<1>7. PICK g : Adds(g, part, MaxSteps) /\ CallsIn(times, turns) = g[MaxSteps]
  BY <1>3, CallsInAdds
<1>8. PICK h : Adds(h, other, MaxSteps) /\ CallsIn(times, others) = h[MaxSteps]
  BY <1>2, <1>3, CallsInAdds
<1>9. h[MaxSteps] = g[MaxSteps] + 0
  BY <1>4, <1>5, <1>6, <1>7, <1>8, SumMoves
<1>10. g[MaxSteps] \in Nat
  BY <1>7, RunnerAssumption DEF Adds
<1> QED
  BY <1>1, <1>7, <1>8, <1>9, <1>10

----------------------------------------------------------------------------
(* Turns.                                                                  *)

\* Whoever released turn n of t was entitled to, if the turn had to be released.
Cleared(t, n) ==
  (\E call \in asked[t][n] : Gated(call)) =>
    /\ released[t][n] \in Approvers
    /\ SecondPerson => released[t][n] # store[t].requested_by

\* The turn asked for last is there, and has not been run.
TurnIsOpen(t) == spent[t] \in Steps /\ ran[t][spent[t]] = 0

\* The checkpoint is that of the turn asked for last, which needs a decision.
HoldsLastTurn(t, checkpoint) ==
  /\ checkpoint # None
  /\ TurnIsOpen(t)
  /\ checkpoint.steps = spent[t]
  /\ checkpoint.tool_calls = CallsRun(t)
  /\ checkpoint.calls = asked[t][spent[t]]
  /\ HoldsTurn(checkpoint.calls)

\* A request that has not begun to drive a run has nothing of one.
Unburdened(h) ==
  /\ \/ pc[h] = "idle"
     \/ pc[h] \in {"load", "write"} /\ tx[h].reason = "started"
  => state[h] = FreshRun /\ turn[h] = {}

\* Only a pause hands over a checkpoint, only a decision an expected version.
Arguments(h) ==
  pc[h] # "idle" =>
    /\ tx[h].checkpoint # None => tx[h].reason = "paused"
    /\ tx[h].reason \in Outcome => tx[h].expected = 0

\* From its second read on, an approval is bound to one version of the task, the
\* one it took the run state from.
Approving(h) ==
  pc[h] \in {"policy", "require", "load", "write"} /\ tx[h].reason = "approved" =>
    /\ tx[h].by \in Approvers
    /\ pc[h] # "policy" =>
         /\ store[on[h]] # None
         /\ MayApprove(tx[h].by, store[on[h]].requested_by)
    /\ pc[h] \in {"load", "write"} =>
         /\ tx[h].expected \in 1 .. store[on[h]].version
         /\ tx[h].expected = store[on[h]].version =>
              /\ store[on[h]].status = "awaiting_approval"
              /\ state[h] = Resuming(store[on[h]].checkpoint)
              /\ turn[h] = store[on[h]].checkpoint.calls
    /\ pc[h] = "write" => cur[h].version = tx[h].expected

\* The driver of a run knows where the run stands.
OnCourse(h) ==
  Driving(h) =>
    /\ state[h].steps = spent[on[h]]
    /\ state[h].tool_calls = CallsRun(on[h])
    /\ pc[h] \in {"loop", "model"} => turn[h] = {}
    /\ pc[h] \in {"model", "tools"} => TurnIsOpen(on[h])
    /\ pc[h] = "tools" => /\ turn[h] = asked[on[h]][spent[on[h]]]
                          /\ Cleared(on[h], spent[on[h]])
    /\ pc[h] \in {"load", "write"} /\ tx[h].reason = "paused" =>
         HoldsLastTurn(on[h], tx[h].checkpoint)
    /\ pc[h] = "write" /\ cur[h].version # store[on[h]].version =>
         store[on[h]].status = "cancelled"

Overtaken(h) == pc[h] = "discard" => store[on[h]].status = "cancelled"

Request(h) ==
  Unburdened(h) /\ Arguments(h) /\ Approving(h) /\ OnCourse(h) /\ Overtaken(h)

\* Turns run once, in order, and only when cleared.
TurnsInOrder(t) ==
  /\ spent[t] <= MaxSteps
  /\ store[t] = None => spent[t] = 0
  /\ \A n \in Steps : /\ ran[t][n] <= 1
                      /\ n > spent[t] => ran[t][n] = 0
                      /\ ran[t][n] > 0 => Cleared(t, n)

WaitsWithCheckpoint(t) ==
  store[t] # None =>
    IF store[t].status = "awaiting_approval"
      THEN HoldsLastTurn(t, store[t].checkpoint)
      ELSE store[t].checkpoint = None

\* The one late reply has been received: no further model call will be made.
NoMoreReplies(t) ==
  /\ late[t] <= 1
  /\ late[t] = 1 =>
       /\ store[t] # None /\ store[t].status = "cancelled"
       /\ \A h \in Handler : on[h] = t /\ Driving(h) =>
            pc[h] # "model" /\ (pc[h] = "loop" => state[h].steps # 0)

StaysDenied(t) ==
  /\ store[t] # None
  /\ store[t].status = "cancelled"
  /\ LastTransition(t).from_status = "awaiting_approval"
  => /\ spent[t] \in Steps => ran[t][spent[t]] = 0
     /\ \A h \in Handler : on[h] = t => ~Driving(h)

Run(t) == TurnsInOrder(t) /\ WaitsWithCheckpoint(t) /\ NoMoreReplies(t) /\ StaysDenied(t)

RunInv == /\ \A h \in Handler : Request(h)
          /\ \A t \in Task : Run(t)

LEMMA InitRunInv == Init => RunInv
<1> SUFFICES ASSUME Init
             PROVE  RunInv
  OBVIOUS
<1>1. ASSUME NEW h \in Handler
      PROVE  Request(h)
  BY <1>1 DEF Init, Request, Unburdened, Arguments, Approving, OnCourse, Overtaken, Driving
<1>2. ASSUME NEW t \in Task
      PROVE  Run(t)
  BY <1>2, RunnerAssumption
  DEF Init, Run, TurnsInOrder, WaitsWithCheckpoint, NoMoreReplies, StaysDenied, NotRun, Steps
<1> QED
  BY <1>1, <1>2 DEF RunInv

----------------------------------------------------------------------------
(* What a step leaves alone.                                               *)

\* A request that stands still keeps what it knows while the store does, and
\* while the run it drives is left to it.
LEMMA RequestFrame ==
  ASSUME NEW g \in Handler, Request(g), UNCHANGED store,
         pc'[g] = pc[g], on'[g] = on[g], tx'[g] = tx[g], cur'[g] = cur[g],
         state'[g] = state[g], turn'[g] = turn[g],
         Driving(g) => /\ spent'[on[g]] = spent[on[g]] /\ asked'[on[g]] = asked[on[g]]
                       /\ ran'[on[g]] = ran[on[g]] /\ released'[on[g]] = released[on[g]]
  PROVE  Request(g)'
<1>1. Unburdened(g)' /\ Arguments(g)' /\ Overtaken(g)'
  BY DEF Request, Unburdened, Arguments, Overtaken
<1>2. Approving(g)'
  BY DEF Request, Approving
<1>3. Driving(g)' <=> Driving(g)
  BY DEF Driving
<1>4. OnCourse(g)'
  BY <1>3 DEF CallsRun, Request, OnCourse, TurnIsOpen, Cleared, HoldsLastTurn
<1> QED
  BY <1>1, <1>2, <1>4 DEF Request

\* A task that nothing happens to keeps what its history says, as long as its
\* driver, if it has one, does not go back in its run.
LEMMA RunFrame ==
  ASSUME NEW t \in Task, Run(t),
         store'[t] = store[t], spent'[t] = spent[t], asked'[t] = asked[t],
         ran'[t] = ran[t], released'[t] = released[t], late'[t] = late[t],
         \A g \in Handler : on'[g] = t /\ Driving(g)' =>
           /\ on[g] = t /\ Driving(g)
           /\ pc'[g] = "model" => pc[g] = "model"
           /\ pc'[g] = "loop" => pc[g] = "loop" /\ state'[g].steps = state[g].steps
  PROVE  Run(t)'
<1>1. TurnsInOrder(t)'
  BY DEF Run, TurnsInOrder, Cleared
<1>2. WaitsWithCheckpoint(t)'
  BY DEF CallsRun, Run, WaitsWithCheckpoint, HoldsLastTurn, TurnIsOpen
<1>3. NoMoreReplies(t)'
  BY DEF Run, NoMoreReplies
<1>4. StaysDenied(t)'
  BY DEF Run, StaysDenied, LastTransition
<1> QED
  BY <1>1, <1>2, <1>3, <1>4 DEF Run

Standstill(g) ==
  /\ pc'[g] = pc[g] /\ on'[g] = on[g] /\ tx'[g] = tx[g] /\ cur'[g] = cur[g]
  /\ state'[g] = state[g] /\ turn'[g] = turn[g]

\* A step of one request that neither stores nor runs anything.
LEMMA QuietStep ==
  ASSUME RunInv, NEW h \in Handler, UNCHANGED <<store, historyVars>>,
         \A g \in Handler \ {h} : Standstill(g),
         Request(h)',
         Driving(h)' => /\ on'[h] = on[h] /\ Driving(h)
                        /\ pc'[h] = "model" => pc[h] = "model"
                        /\ pc'[h] = "loop" => pc[h] = "loop" /\ state'[h].steps = state[h].steps
  PROVE  RunInv'
<1>1. ASSUME NEW g \in Handler \ {h}
      PROVE  Request(g)'
  BY <1>1, RequestFrame DEF RunInv, Standstill, historyVars
<1>2. ASSUME NEW t \in Task
      PROVE  Run(t)'
  <2>1. ASSUME NEW g \in Handler, on'[g] = t, Driving(g)'
        PROVE  /\ on[g] = t /\ Driving(g)
               /\ pc'[g] = "model" => pc[g] = "model"
               /\ pc'[g] = "loop" => pc[g] = "loop" /\ state'[g].steps = state[g].steps
    BY <2>1 DEF Standstill, Driving
  <2> QED
    BY <2>1, RunFrame DEF RunInv, historyVars
<1> QED
  BY <1>1, <1>2 DEF RunInv

\* What is known of a task that is being driven.
LEMMA DriverFacts ==
  ASSUME CoreInv, RunInv, NEW h \in Handler, Driving(h)
  PROVE  /\ on[h] \in Task /\ store[on[h]] # None
         /\ store[on[h]].status \in {"running", "cancelled"}
         /\ store[on[h]].checkpoint = None
         /\ ~ (/\ store[on[h]].status = "cancelled"
               /\ LastTransition(on[h]).from_status = "awaiting_approval")
         /\ state[h].steps = spent[on[h]] /\ spent[on[h]] \in Nat /\ spent[on[h]] <= MaxSteps
         /\ late[on[h]] \in Nat /\ late[on[h]] <= 1
<1>1. on[h] \in Task /\ store[on[h]] # None
  BY DEF Driving, CoreInv, TypeInv, WellFormed
<1>2. store[on[h]].status \in {"running", "cancelled"}
  BY DEF CoreInv, Active
<1>3. Run(on[h]) /\ OnCourse(h)
  BY <1>1 DEF RunInv, Request
<1> QED
  BY <1>1, <1>2, <1>3
  DEF Run, WaitsWithCheckpoint, StaysDenied, TurnsInOrder, NoMoreReplies, OnCourse,
      CoreInv, TypeInv, TypeOK

\* A step of the driver of a run: the history grows, for its task only.
LEMMA DriverStep ==
  ASSUME CoreInv, RunInv, NEW h \in Handler, Driving(h), UNCHANGED store,
         \A g \in Handler \ {h} : Standstill(g),
         \A t \in Task \ {on[h]} :
           /\ spent'[t] = spent[t] /\ asked'[t] = asked[t] /\ ran'[t] = ran[t]
           /\ released'[t] = released[t] /\ late'[t] = late[t],
         on'[h] = on[h], Request(h)', TurnsInOrder(on[h])',
         late'[on[h]] <= 1,
         late'[on[h]] = 1 =>
           /\ store[on[h]].status = "cancelled"
           /\ pc'[h] # "model"
           /\ pc'[h] = "loop" => state'[h].steps # 0
  PROVE  RunInv'
<1> DEFINE t == on[h]
<1>1. \A g \in Handler \ {h} : /\ Driving(g) => on[g] \in Task \ {t}
                               /\ Driving(g)' <=> Driving(g)
  BY DEF CoreInv, OneDriver, TypeInv, WellFormed, Driving, Standstill
<1>2. ASSUME NEW g \in Handler \ {h}
      PROVE  Request(g)'
  BY <1>1, <1>2, RequestFrame DEF RunInv, Standstill
<1>3. ASSUME NEW u \in Task \ {t}
      PROVE  Run(u)'
  <2>1. ASSUME NEW g \in Handler, on'[g] = u, Driving(g)'
        PROVE  /\ on[g] = u /\ Driving(g)
               /\ pc'[g] = "model" => pc[g] = "model"
               /\ pc'[g] = "loop" => pc[g] = "loop" /\ state'[g].steps = state[g].steps
    BY <1>1, <1>3, <2>1 DEF Standstill
  <2> QED
    BY <1>3, <2>1, RunFrame DEF RunInv
<1>4. Run(t)'
  <2>1. WaitsWithCheckpoint(t)'
    BY DriverFacts DEF WaitsWithCheckpoint
  <2>2. StaysDenied(t)'
    BY DriverFacts DEF StaysDenied, LastTransition
  <2>3. NoMoreReplies(t)'
    <3>1. ASSUME NEW g \in Handler, on'[g] = t, Driving(g)'
          PROVE  g = h
      BY <1>1, <3>1 DEF Standstill
    <3> QED
      BY <3>1, DriverFacts DEF NoMoreReplies
  <2> QED
    BY <2>1, <2>2, <2>3 DEF Run
<1> QED
  BY <1>2, <1>3, <1>4 DEF RunInv

\* What the fields of a stored transition are.
LEMMA CommitFields ==
  ASSUME CoreInv, RunInv, NEW h \in Handler, pc[h] = "write", Commit(h),
         NEW t \in Task, t = on[h]
  PROVE  /\ store[t] \in AgentTask
         /\ store[t] # None /\ store'[t] # None
         /\ store'[t].status = tx[h].target
         /\ store'[t].version = store[t].version + 1
         /\ store'[t].requested_by = store[t].requested_by
         /\ store'[t].checkpoint = tx[h].checkpoint
         /\ LastTransition(t)'.from_status = store[t].status
         /\ \A u \in Task \ {t} :
              /\ store'[u] = store[u] /\ spent'[u] = spent[u] /\ asked'[u] = asked[u]
              /\ ran'[u] = ran[u] /\ released'[u] = released[u] /\ late'[u] = late[u]
<1> DEFINE task  == store[t]
           entry == [from_status |-> task.status, to_status |-> tx[h].target,
                     reason |-> tx[h].reason, by |-> tx[h].by]
<1>1. /\ task \in AgentTask /\ cur[h] = task
      /\ store'[t] = TransitionTo(task, tx[h].target, tx[h].reason, tx[h].by,
                                      tx[h].checkpoint)
      /\ \A u \in Task \ {t} : store'[u] = store[u]
  BY CommitStep DEF CoreInv, TypeInv, TypeOK
<1>2. /\ store'[t].requested_by = task.requested_by
      /\ store'[t].status = tx[h].target
      /\ store'[t].version = task.version + 1
      /\ store'[t].checkpoint = tx[h].checkpoint
      /\ store'[t].history = Append(task.history, entry)
  BY <1>1 DEF TransitionTo, AgentTask
<1>3. task # None /\ store'[t] # None
  <2>1. /\ tx[h].target \in TaskStatus /\ tx[h].reason \in Reason
        /\ tx[h].by \in Subject \cup {None}
        /\ tx[h].checkpoint \in RunCheckpoint \cup {None}
    BY DEF CoreInv, TypeInv, TypeOK, TransitionArgs
  <2> QED
    BY <1>1, <2>1, TransitionToType, NoneIsNoValue
<1>4. LastTransition(t)'.from_status = task.status
  <2> HIDE DEF entry
  <2>1. task.history \in Seq(StatusTransition)
    BY <1>1 DEF AgentTask
  <2>2. /\ Len(Append(task.history, entry)) = Len(task.history) + 1
        /\ Append(task.history, entry)[Len(task.history) + 1] = entry
    BY <2>1
  <2>3. entry.from_status = task.status
    BY DEF entry
  <2> QED
    BY <1>2, <2>2, <2>3 DEF LastTransition
<1>5. \A u \in Task \ {t} :
        /\ spent'[u] = spent[u] /\ asked'[u] = asked[u] /\ ran'[u] = ran[u]
        /\ released'[u] = released[u] /\ late'[u] = late[u]
  BY <1>1 DEF Commit, CoreInv, TypeInv, TypeOK
<1> QED
  BY <1>1, <1>2, <1>3, <1>4, <1>5

\* What the reason of a stored transition says about the task it was made from.
LEMMA CommitReasons ==
  ASSUME CoreInv, RunInv, NEW h \in Handler, pc[h] = "write", Commit(h),
         NEW t \in Task, t = on[h]
  PROVE  /\ tx[h].reason \in {"started", "approved", "rejected", "cancelled"} \cup Outcome
         /\ store[t].status # "cancelled"
         /\ tx[h].reason \in {"started", "approved"} =>
              /\ store[t].status \in {"pending", "awaiting_approval"}
              /\ tx[h].target = "running"
         /\ tx[h].reason \in {"rejected", "cancelled"} => tx[h].target = "cancelled"
         /\ tx[h].reason \in Outcome =>
              /\ store[t].status = "running" /\ Driving(h)
              /\ tx[h].target \in {"awaiting_approval", "completed", "failed"}
         /\ tx[h].reason = "paused" <=> tx[h].target = "awaiting_approval"
         /\ \A g \in Handler \ {h} :
              Driving(g) /\ on[g] = t => tx[h].reason \in {"rejected", "cancelled"}
<1>1. /\ store[t].status \in TaskStatus /\ tx[h].reason \in Reason
      /\ tx[h].target = TargetOf(tx[h].reason)
      /\ tx[h].target \in AllowedTransitions[store[t].status]
  BY CommitStep DEF AgentTask
<1>2. tx[h].reason \in {"started", "approved", "rejected", "cancelled"} \cup Outcome
  BY <1>1 DEF Reason, Outcome
<1>3. store[t].status # "cancelled"
  BY <1>1 DEF AllowedTransitions
<1>4. tx[h].reason = "paused" <=> tx[h].target = "awaiting_approval"
  BY <1>1 DEF TargetOf
<1>5. /\ tx[h].reason \in Outcome =>
           /\ store[t].status = "running" /\ Driving(h)
           /\ tx[h].target \in {"awaiting_approval", "completed", "failed"}
      /\ tx[h].reason \in {"rejected", "cancelled"} => tx[h].target = "cancelled"
      /\ tx[h].reason \in {"started", "approved"} =>
           /\ store[t].status \in {"pending", "awaiting_approval"}
           /\ tx[h].target = "running"
  BY <1>1, Moves DEF Driving, TargetOf, Outcome
<1>6. ASSUME NEW g \in Handler \ {h}, Driving(g), on[g] = t
      PROVE  tx[h].reason \in {"rejected", "cancelled"}
  <2>1. store[t].status \in {"running", "cancelled"}
    BY <1>6 DEF CoreInv, Active
  <2>2. ~Driving(h)
    BY <1>6 DEF CoreInv, OneDriver
  <2> QED
    BY <1>2, <1>3, <1>5, <2>1, <2>2
<1> QED
  BY <1>2, <1>3, <1>4, <1>5, <1>6

\* A transition stored by one request leaves every other what it knew: the
\* snapshots it took are out of date, and a run it drives has been cancelled.
LEMMA CommitOthers ==
  ASSUME CoreInv, RunInv, NEW h \in Handler, pc[h] = "write", Commit(h),
         NEW g \in Handler \ {h}, Standstill(g)
  PROVE  Request(g)'
<1> DEFINE t == on[h]
<1>1. Request(g) /\ t \in Task /\ (Driving(g)' <=> Driving(g))
  BY CommitStep DEF RunInv, Driving, Standstill
<1>2. Unburdened(g)' /\ Arguments(g)'
  BY <1>1 DEF Request, Unburdened, Arguments, Standstill
<1>3. CASE pc[g] = "idle"
  BY <1>1, <1>2, <1>3 DEF Request, Approving, OnCourse, Overtaken, Driving, Standstill
<1>4. CASE pc[g] # "idle" /\ on[g] # t
  <2>1. /\ on[g] \in Task \ {t}
        /\ store'[on[g]] = store[on[g]] /\ spent'[on[g]] = spent[on[g]]
        /\ asked'[on[g]] = asked[on[g]] /\ ran'[on[g]] = ran[on[g]]
        /\ released'[on[g]] = released[on[g]]
    BY <1>1, <1>4, CommitFields DEF CoreInv, TypeInv, WellFormed
  <2>2. Approving(g)' /\ Overtaken(g)'
    BY <1>1, <2>1 DEF Request, Approving, Overtaken, Standstill
  <2>3. OnCourse(g)'
    BY <1>1, <2>1 DEF CallsRun, Request, OnCourse, TurnIsOpen, Cleared, HoldsLastTurn, Standstill
  <2> QED
    BY <1>2, <2>2, <2>3 DEF Request
<1>5. CASE on[g] = t
  <2>1. /\ store[t] # None /\ store'[t] # None /\ store[t].status # "cancelled"
        /\ store'[t].version = store[t].version + 1 /\ store[t].version \in Nat
        /\ store'[t].requested_by = store[t].requested_by
        /\ store'[t].status = tx[h].target
    BY <1>1, CommitFields, CommitReasons DEF AgentTask
  <2>2. Overtaken(g)'
    BY <1>1, <1>5, <2>1 DEF Request, Overtaken, Standstill
  <2>3. Approving(g)'
    <3>1. tx[g].expected \in Nat
      BY DEF CoreInv, TypeInv, TypeOK, TransitionArgs
    <3> QED
      BY <1>1, <1>5, <2>1, <3>1 DEF Request, Approving, Standstill
  <2>4. OnCourse(g)'
    <3> SUFFICES ASSUME Driving(g)
                 PROVE  OnCourse(g)'
      BY <1>1 DEF OnCourse
    <3>1. tx[h].reason \in {"rejected", "cancelled"} /\ tx[h].target = "cancelled"
      BY <1>1, <1>5, CommitReasons
    <3>2. UNCHANGED <<spent, asked, ran, released>>
      BY <3>1 DEF Commit
    <3> QED
      BY <1>1, <1>5, <2>1, <3>1, <3>2
      DEF CallsRun, Request, OnCourse, TurnIsOpen, Cleared, HoldsLastTurn, Standstill
  <2> QED
    BY <1>2, <2>2, <2>3, <2>4 DEF Request
<1> QED
  BY <1>3, <1>4, <1>5

\* What a stored transition does to the history of the latest run.
LEMMA CommitHistory ==
  ASSUME CoreInv, NEW h \in Handler, Commit(h), NEW t \in Task, t = on[h]
  PROVE  /\ UNCHANGED late
         /\ tx[h].reason = "started" =>
              /\ spent'[t] = 0 /\ asked'[t] = NoTurns /\ ran'[t] = NotRun
         /\ tx[h].reason # "started" => UNCHANGED <<spent, asked, ran>>
         /\ tx[h].reason = "approved" =>
              released'[t] = [released[t] EXCEPT ![spent[t]] = tx[h].by]
         /\ tx[h].reason \notin {"started", "approved"} => UNCHANGED released
BY DEF Commit, CoreInv, TypeInv, TypeOK

\* What an approval finds when it is stored: the very pause it was given for.
LEMMA ApprovalFits ==
  ASSUME CoreInv, RunInv, NEW h \in Handler, pc[h] = "write", Commit(h),
         tx[h].reason = "approved", NEW t \in Task, t = on[h]
  PROVE  /\ HoldsLastTurn(t, store[t].checkpoint)
         /\ state[h].steps = spent[t] /\ turn[h] = asked[t][spent[t]]
         /\ state[h].tool_calls = CallsRun(t)
         /\ tx[h].by \in Approvers
         /\ SecondPerson => tx[h].by # store[t].requested_by
<1>1. Approving(h) /\ WaitsWithCheckpoint(t) /\ store[t] # None
  BY CommitFields DEF RunInv, Request, Run
<1>2. cur[h] = store[t]
  BY CommitStep
<1>3. /\ store[t].status = "awaiting_approval"
      /\ state[h] = Resuming(store[t].checkpoint)
      /\ turn[h] = store[t].checkpoint.calls
      /\ tx[h].by \in Approvers /\ MayApprove(tx[h].by, store[t].requested_by)
  BY <1>1, <1>2 DEF Approving
<1>4. HoldsLastTurn(t, store[t].checkpoint)
  BY <1>1, <1>3 DEF WaitsWithCheckpoint
<1> QED
  BY <1>3, <1>4 DEF HoldsLastTurn, Resuming, MayApprove

\* A stored transition leaves a history that still says what it must: a start
\* begins it anew, an approval releases the open turn, a pause keeps it open, a
\* rejection leaves it unrun for good.
LEMMA CommitRun ==
  ASSUME CoreInv, RunInv, NEW h \in Handler, pc[h] = "write", Commit(h),
         NEW t \in Task, t = on[h],
         \A g \in Handler \ {h} : Standstill(g),
         tx[h].reason \notin {"started", "approved"} => pc'[h] = "idle",
         pc'[h] \in {"idle", "loop", "tools"}
  PROVE  Run(t)'
<1>1. Run(t) /\ Request(h)
  BY DEF RunInv
<1>2. /\ spent[t] \in Nat /\ late[t] \in Nat /\ released[t] \in [Steps -> Subject \cup {None}]
      /\ store[t] # None /\ store'[t] # None
      /\ store'[t].status = tx[h].target /\ store'[t].checkpoint = tx[h].checkpoint
      /\ store'[t].requested_by = store[t].requested_by
  BY CommitFields DEF CoreInv, TypeInv, TypeOK
<1>7. late'[t] = 0
  <2>1. store[t].status # "cancelled" /\ late' = late
    BY CommitReasons, CommitHistory
  <2> QED
    BY <1>1, <1>2, <2>1 DEF Run, NoMoreReplies
<1>3. TurnsInOrder(t)'
  <2>1. CASE tx[h].reason = "started"
    <3>1. spent'[t] = 0 /\ ran'[t] = NotRun
      BY <2>1, CommitHistory
    <3>2. \A n \in Steps : ran'[t][n] = 0
      BY <3>1 DEF NotRun
    <3> QED
      BY <1>2, <3>1, <3>2, RunnerAssumption DEF TurnsInOrder
  <2>2. CASE tx[h].reason = "approved"
    <3>1. ran[t][spent[t]] = 0
      BY <2>2, ApprovalFits DEF HoldsLastTurn, TurnIsOpen
    <3>2. \A n \in Steps : ran[t][n] > 0 => released'[t][n] = released[t][n]
      <4>1. released'[t] = [released[t] EXCEPT ![spent[t]] = tx[h].by]
        BY <2>2, CommitHistory
      <4>2. \A n \in Steps : ran[t][n] > 0 => n # spent[t]
        BY <3>1
      <4> QED
        BY <1>2, <4>1, <4>2
    <3>3. UNCHANGED <<spent, asked, ran>>
      BY <2>2, CommitHistory
    <3> QED
      BY <1>1, <1>2, <3>2, <3>3 DEF Run, TurnsInOrder, Cleared
  <2>3. CASE tx[h].reason \notin {"started", "approved"}
    <3>1. UNCHANGED <<spent, asked, ran, released>>
      BY <2>3, CommitHistory
    <3> QED
      BY <1>1, <1>2, <3>1 DEF Run, TurnsInOrder, Cleared
  <2> QED
    BY <2>1, <2>2, <2>3
<1>4. WaitsWithCheckpoint(t)'
  <2>1. CASE tx[h].reason = "paused"
    <3>1. UNCHANGED <<spent, asked, ran>> /\ HoldsLastTurn(t, tx[h].checkpoint)
      BY <1>1, <2>1, CommitHistory DEF Request, OnCourse, Driving, Outcome
    <3>2. HoldsLastTurn(t, store[t].checkpoint)'
      BY <1>2, <3>1 DEF CallsRun, HoldsLastTurn, TurnIsOpen
    <3> QED
      BY <1>2, <2>1, <3>2, CommitReasons DEF WaitsWithCheckpoint
  <2>2. CASE tx[h].reason # "paused"
    BY <1>1, <1>2, <2>2, CommitReasons DEF Request, Arguments, WaitsWithCheckpoint
  <2> QED
    BY <2>1, <2>2
<1>5. NoMoreReplies(t)'
  BY <1>7 DEF NoMoreReplies
<1>6. StaysDenied(t)'
  <2> SUFFICES ASSUME store'[t].status = "cancelled",
                      LastTransition(t)'.from_status = "awaiting_approval"
               PROVE  /\ spent'[t] \in Steps => ran'[t][spent'[t]] = 0
                      /\ \A g \in Handler : on'[g] = t => ~Driving(g)'
    BY DEF StaysDenied
  <2>1. /\ store[t].status = "awaiting_approval"
        /\ tx[h].reason \in {"rejected", "cancelled"}
    BY <1>2, CommitFields, CommitReasons
  <2>2. UNCHANGED <<spent, asked, ran>> /\ pc'[h] = "idle"
    BY <2>1, CommitHistory
  <2>3. ran[t][spent[t]] = 0
    BY <1>1, <1>2, <2>1 DEF Run, WaitsWithCheckpoint, HoldsLastTurn, TurnIsOpen
  <2>4. \A g \in Handler : on[g] = t => ~Driving(g)
    BY <2>1 DEF CoreInv, Active
  <2>5. ASSUME NEW g \in Handler, on'[g] = t
        PROVE  ~Driving(g)'
    BY <2>2, <2>4, <2>5 DEF Standstill, Driving
  <2> QED
    BY <2>2, <2>3, <2>5
<1> QED
  BY <1>3, <1>4, <1>5, <1>6 DEF Run

\* Storing a transition: the request is over, or begins to drive the run.
LEMMA CommitRunInv ==
  ASSUME CoreInv, RunInv, NEW h \in Handler, pc[h] = "write", Commit(h),
         \A g \in Handler \ {h} : Standstill(g),
         \/ pc'[h] = "idle" /\ state'[h] = FreshRun /\ turn'[h] = {}
         \/ /\ tx[h].reason \in {"started", "approved"}
            /\ pc'[h] = IF tx[h].reason = "started" THEN "loop" ELSE "tools"
            /\ UNCHANGED <<on, tx, state, turn>>
  PROVE  RunInv'
<1>1. PICK t \in Task : t = on[h]
  BY CommitStep
<1>2. ASSUME NEW u \in Task
      PROVE  Run(u)'
  <2>1. CASE u = t
    BY <1>1, <2>1, CommitRun
  <2>2. CASE u # t
    <3>1. /\ store'[u] = store[u] /\ spent'[u] = spent[u] /\ asked'[u] = asked[u]
          /\ ran'[u] = ran[u] /\ released'[u] = released[u] /\ late'[u] = late[u]
      BY <1>1, <2>2, CommitFields
    <3>2. ASSUME NEW g \in Handler, on'[g] = u, Driving(g)'
          PROVE  /\ on[g] = u /\ Driving(g)
                 /\ pc'[g] = "model" => pc[g] = "model"
                 /\ pc'[g] = "loop" => pc[g] = "loop" /\ state'[g].steps = state[g].steps
      BY <1>1, <2>2, <3>2 DEF Standstill, Driving
    <3> QED
      BY <3>1, <3>2, RunFrame DEF RunInv
  <2> QED
    BY <2>1, <2>2
<1>3. Request(h)'
  <2>1. CASE pc'[h] = "idle" /\ state'[h] = FreshRun /\ turn'[h] = {}
    BY <2>1 DEF Request, Unburdened, Arguments, Approving, OnCourse, Overtaken, Driving
  <2>2. CASE /\ tx[h].reason = "started" /\ pc'[h] = "loop"
             /\ UNCHANGED <<on, tx, state, turn>>
    <3>1. spent'[t] = 0
      BY <1>1, <2>2, CommitHistory
    <3>2. Unburdened(h) /\ Arguments(h)
      BY DEF RunInv, Request
    <3>3. /\ state[h].steps = 0 /\ state[h].tool_calls = 0
          /\ turn[h] = {} /\ tx[h].checkpoint = None
      BY <2>2, <3>2 DEF Unburdened, Arguments, FreshRun
    <3>4. CallsRun(t)' = 0
      <4>1. asked'[t] = NoTurns /\ ran'[t] = NotRun
        BY <1>1, <2>2, CommitHistory
      <4>2. NoTurns \in [Steps -> SUBSET Call]
        BY DEF NoTurns
      <4> QED
        BY <4>1, <4>2, NoCallsYet DEF CallsRun
    <3>5. OnCourse(h)'
      BY <1>1, <2>2, <3>1, <3>3, <3>4 DEF OnCourse
    <3> QED
      BY <2>2, <3>3, <3>5 DEF Request, Unburdened, Arguments, Approving, Overtaken, Outcome
  <2>3. CASE /\ tx[h].reason = "approved" /\ pc'[h] = "tools"
             /\ UNCHANGED <<on, tx, state, turn>>
    <3>1. /\ HoldsLastTurn(t, store[t].checkpoint)
          /\ state[h].steps = spent[t] /\ turn[h] = asked[t][spent[t]]
          /\ state[h].tool_calls = CallsRun(t)
          /\ tx[h].by \in Approvers
          /\ SecondPerson => tx[h].by # store[t].requested_by
      BY <1>1, <2>3, ApprovalFits
    <3>2. /\ UNCHANGED <<spent, asked, ran>>
          /\ released'[t] = [released[t] EXCEPT ![spent[t]] = tx[h].by]
      BY <1>1, <2>3, CommitHistory
    <3>3. /\ store'[t].requested_by = store[t].requested_by
          /\ released[t] \in [Steps -> Subject \cup {None}]
      BY <1>1, CommitFields DEF CoreInv, TypeInv, TypeOK
    <3>4. TurnIsOpen(t)' /\ spent[t] \in Steps
      BY <3>1, <3>2 DEF HoldsLastTurn, TurnIsOpen
    <3>5. released'[t][spent[t]] = tx[h].by
      BY <3>2, <3>3, <3>4
    <3>6. Cleared(t, spent[t])'
      BY <3>1, <3>2, <3>3, <3>5 DEF Cleared
    <3>7. OnCourse(h)'
      BY <1>1, <2>3, <3>1, <3>2, <3>4, <3>6 DEF OnCourse, CallsRun
    <3>8. Arguments(h)'
      BY <2>3 DEF RunInv, Request, Arguments
    <3> QED
      BY <2>3, <3>7, <3>8 DEF Request, Unburdened, Approving, Overtaken
  <2> QED
    BY <2>1, <2>2, <2>3
<1>4. \A g \in Handler \ {h} : Request(g)'
  BY CommitOthers
<1> QED
  BY <1>2, <1>3, <1>4 DEF RunInv

\* The locals of a request that is answered.
LEMMA ReturnLocals ==
  ASSUME TypeOK, NEW h \in Handler, Return(h)
  PROVE  /\ pc'[h] = "idle" /\ state'[h] = FreshRun /\ turn'[h] = {}
         /\ \A g \in Handler \ {h} : Standstill(g)
BY DEF TypeOK, Return, Goto, Standstill

LEMMA ReturnRunInv ==
  ASSUME CoreInv, RunInv, NEW h \in Handler, Return(h), UNCHANGED <<store, historyVars>>
  PROVE  RunInv'
<1>1. /\ pc'[h] = "idle" /\ state'[h] = FreshRun /\ turn'[h] = {}
      /\ \A g \in Handler \ {h} : Standstill(g)
  BY ReturnLocals DEF CoreInv, TypeInv
<1>2. Request(h)' /\ ~Driving(h)'
  BY <1>1 DEF Request, Unburdened, Arguments, Approving, OnCourse, Overtaken, Driving
<1> QED
  BY <1>1, <1>2, QuietStep

\* A transition that is refused to the driver of a run tells it of the cancellation.
LEMMA RefusedRunInv ==
  ASSUME CoreInv, RunInv, NEW h \in Handler, TransitionRefused(h), pc[h] \in {"load", "write"},
         tx[h].reason \in Outcome => store[on[h]].status = "cancelled"
  PROVE  RunInv'
<1>1. CASE tx[h].reason \in Outcome
  <2>1. /\ pc'[h] = "discard" /\ UNCHANGED <<store, on, tx, state, turn, historyVars>>
        /\ \A g \in Handler \ {h} : Standstill(g)
    BY <1>1 DEF TransitionRefused, Goto, Standstill, CoreInv, TypeInv, TypeOK
  <2>2. Request(h)' /\ ~Driving(h)'
    BY <1>1, <2>1
    DEF RunInv, Request, Unburdened, Arguments, Approving, OnCourse, Overtaken, Driving
  <2> QED
    BY <2>1, <2>2, QuietStep
<1>2. CASE tx[h].reason \notin Outcome
  BY <1>2, ReturnRunInv DEF TransitionRefused
<1> QED
  BY <1>1, <1>2

LEMMA ArriveRunInv ==
  ASSUME CoreInv, RunInv, NEW h \in Handler, NEW t \in Task,
         NEW label \in {"policy", "require", "load"}, NEW transition,
         transition.reason \in {"started", "approved", "rejected", "cancelled"},
         transition.checkpoint = None,
         transition.reason = "approved" => label = "policy" /\ transition.by \in Approvers,
         Arrive(h, t, label, transition)
  PROVE  RunInv'
<1>1. /\ pc'[h] = label /\ on'[h] = t /\ tx'[h] = transition /\ pc[h] = "idle"
      /\ UNCHANGED <<store, state, turn, historyVars>>
      /\ \A g \in Handler \ {h} : Standstill(g)
  BY DEF Arrive, Goto, Standstill, CoreInv, TypeInv, TypeOK
<1>2. ~Driving(h)'
  BY <1>1 DEF Driving, Outcome
<1>3. Unburdened(h)' /\ Arguments(h)' /\ Approving(h)' /\ Overtaken(h)' /\ OnCourse(h)'
  BY <1>1, <1>2 DEF RunInv, Request, Unburdened, Arguments, Approving, OnCourse, Overtaken,
                    Outcome
<1> QED
  BY <1>1, <1>2, <1>3, QuietStep DEF Request

LEMMA RequestRunInv ==
  ASSUME CoreInv, RunInv, Requests
  PROVE  RunInv'
<1>1. ASSUME NEW t \in Task, NEW s \in Subject, CreateTask(t, s)
      PROVE  RunInv'
  <2>1. /\ store[t] = None /\ UNCHANGED <<requestVars, historyVars>>
        /\ store'[t] = NewTask(s) /\ \A u \in Task \ {t} : store'[u] = store[u]
    BY <1>1 DEF CreateTask, CoreInv, TypeInv, TypeOK
  <2>2. \A g \in Handler : Standstill(g)
    BY <2>1 DEF requestVars, Standstill
  <2>3. ASSUME NEW g \in Handler
        PROVE  Request(g)'
    <3>1. Request(g)
      BY DEF RunInv
    <3>2. /\ pc[g] \in {"write", "loop", "model", "tools", "discard"} => on[g] \in Task \ {t}
          /\ Driving(g) => on[g] \in Task \ {t}
          /\ pc[g] \in {"require", "load"} /\ tx[g].reason = "approved" =>
               on[g] \in Task \ {t}
      BY <2>1, <3>1 DEF Request, Approving, Driving, CoreInv, TypeInv, WellFormed
    <3>3. Unburdened(g)' /\ Arguments(g)' /\ Overtaken(g)'
      BY <2>1, <2>2, <3>1, <3>2 DEF Request, Unburdened, Arguments, Overtaken, Standstill
    <3>4. Approving(g)'
      BY <2>1, <2>2, <3>1, <3>2 DEF Request, Approving, Standstill
    <3>5. OnCourse(g)'
      <4> SUFFICES ASSUME Driving(g)
                   PROVE  OnCourse(g)'
        BY <2>2 DEF OnCourse, Driving, Standstill
      <4>1. store'[on[g]] = store[on[g]]
        BY <2>1, <3>2
      <4> QED
        BY <2>1, <2>2, <3>1, <4>1
        DEF CallsRun, Request, OnCourse, TurnIsOpen, Cleared, HoldsLastTurn, Standstill, historyVars
    <3> QED
      BY <3>3, <3>4, <3>5 DEF Request
  <2>4. ASSUME NEW g \in Handler
        PROVE  Driving(g)' <=> Driving(g)
    BY <2>2 DEF Driving, Standstill
  <2>5. ASSUME NEW u \in Task \ {t}
        PROVE  Run(u)'
    BY <2>1, <2>2, <2>4, RunFrame DEF RunInv, Standstill, historyVars
  <2>6. Run(t)'
    <3>1. Run(t) /\ spent[t] \in Nat /\ late[t] \in Nat
      BY DEF RunInv, CoreInv, TypeInv, TypeOK
    <3>2. /\ spent'[t] = 0 /\ late'[t] = 0 /\ \A n \in Steps : ran'[t][n] = 0
      BY <2>1, <3>1 DEF Run, TurnsInOrder, NoMoreReplies, Steps, historyVars
    <3>3. TurnsInOrder(t)'
      BY <2>1, <3>2, NewTaskType, RunnerAssumption DEF TurnsInOrder
    <3>4. WaitsWithCheckpoint(t)' /\ StaysDenied(t)'
      BY <2>1 DEF WaitsWithCheckpoint, StaysDenied, NewTask
    <3>5. NoMoreReplies(t)'
      BY <3>2 DEF NoMoreReplies
    <3> QED
      BY <3>3, <3>4, <3>5 DEF Run
  <2> QED
    BY <2>3, <2>5, <2>6 DEF RunInv
<1>2. ASSUME NEW h \in Handler, NEW t \in Task, RunTask(h, t)
      PROVE  RunInv'
  <2> DEFINE transition == Transition("running", "started", None, None)
  <2>1. transition.reason = "started" /\ transition.checkpoint = None
    BY DEF Transition
  <2>2. Arrive(h, t, "load", transition)
    BY <1>2 DEF RunTask
  <2> HIDE DEF transition
  <2> QED
    BY <2>1, <2>2, ArriveRunInv
<1>3. ASSUME NEW h \in Handler, NEW t \in Task, NEW s \in Subject, ApproveTask(h, t, s)
      PROVE  RunInv'
  <2> DEFINE transition == Transition("running", "approved", s, None)
  <2>1. transition.reason = "approved" /\ transition.checkpoint = None /\ transition.by = s
    BY DEF Transition
  <2>2. Arrive(h, t, "policy", transition) /\ s \in Approvers
    BY <1>3 DEF ApproveTask
  <2> HIDE DEF transition
  <2> QED
    BY <2>1, <2>2, ArriveRunInv
<1>4. ASSUME NEW h \in Handler, NEW t \in Task, NEW s \in Subject, RejectTask(h, t, s)
      PROVE  RunInv'
  <2> DEFINE transition == Transition("cancelled", "rejected", s, None)
  <2>1. transition.reason = "rejected" /\ transition.checkpoint = None
    BY DEF Transition
  <2>2. Arrive(h, t, "require", transition)
    BY <1>4 DEF RejectTask
  <2> HIDE DEF transition
  <2> QED
    BY <2>1, <2>2, ArriveRunInv
<1>5. ASSUME NEW h \in Handler, NEW t \in Task, NEW s \in Subject, CancelTask(h, t, s)
      PROVE  RunInv'
  <2> DEFINE transition == Transition("cancelled", "cancelled", s, None)
  <2>1. transition.reason = "cancelled" /\ transition.checkpoint = None
    BY DEF Transition
  <2>2. Arrive(h, t, "load", transition)
    BY <1>5 DEF CancelTask
  <2> HIDE DEF transition
  <2> QED
    BY <2>1, <2>2, ArriveRunInv
<1> QED
  BY <1>1, <1>2, <1>3, <1>4, <1>5 DEF Requests

LEMMA DecisionRunInv ==
  ASSUME CoreInv, RunInv, NEW h \in Handler,
         CheckPolicy(h) \/ RequirePaused(h) \/ NotPaused(h)
  PROVE  RunInv'
<1>1. CASE CheckPolicy(h)
  <2>1. CASE Return(h)
    BY <1>1, <2>1, ReturnRunInv DEF CheckPolicy
  <2>2. CASE /\ store[on[h]] # None /\ MayApprove(tx[h].by, store[on[h]].requested_by)
             /\ Goto(h, "require")
             /\ UNCHANGED <<on, tx, cur, state, turn>>
    <3>1. /\ pc[h] = "policy" /\ pc'[h] = "require"
          /\ UNCHANGED <<store, on, tx, cur, state, turn, historyVars>>
          /\ \A g \in Handler \ {h} : Standstill(g)
      BY <1>1, <2>2 DEF CheckPolicy, Goto, Standstill, CoreInv, TypeInv, TypeOK
    <3>2. Request(h)' /\ ~Driving(h)'
      BY <2>2, <3>1
      DEF RunInv, Request, Unburdened, Arguments, Approving, OnCourse, Overtaken, Driving
    <3> QED
      BY <3>1, <3>2, QuietStep
  <2> QED
    BY <1>1, <2>1, <2>2 DEF CheckPolicy
<1>2. CASE RequirePaused(h)
  <2> DEFINE task == store[on[h]]
  <2>1. /\ pc[h] = "require" /\ pc'[h] = "load" /\ task # None
        /\ task.status = "awaiting_approval"
        /\ UNCHANGED <<store, on, cur, historyVars>>
        /\ tx'[h] = [tx[h] EXCEPT !.expected = task.version]
        /\ tx[h].reason = "approved" => /\ state'[h] = Resuming(task.checkpoint)
                                        /\ turn'[h] = task.checkpoint.calls
        /\ \A g \in Handler \ {h} : Standstill(g)
    BY <1>2 DEF RequirePaused, Resumable, Goto, Standstill, CoreInv, TypeInv, TypeOK
  <2>2. /\ tx'[h].reason = tx[h].reason /\ tx'[h].by = tx[h].by
        /\ tx'[h].checkpoint = tx[h].checkpoint /\ tx'[h].expected = task.version
    BY <2>1 DEF CoreInv, TypeInv, TypeOK, TransitionArgs
  <2>3. tx[h].reason \in {"approved", "rejected"}
    BY <2>1 DEF CoreInv, Instructed
  <2>4. task.version \in Nat \ {0}
    BY <2>1 DEF CoreInv, TypeInv, TypeOK, WellFormed, AgentTask
  <2>5. Request(h)' /\ ~Driving(h)'
    BY <2>1, <2>2, <2>3, <2>4
    DEF RunInv, Request, Unburdened, Arguments, Approving, OnCourse, Overtaken, Driving, Outcome
  <2> QED
    BY <2>1, <2>5, QuietStep
<1>3. CASE NotPaused(h)
  BY <1>3, ReturnRunInv DEF NotPaused
<1> QED
  BY <1>1, <1>2, <1>3

LEMMA TransitionRunInv ==
  ASSUME CoreInv, RunInv, NEW h \in Handler, LoadTask(h) \/ StoreTask(h) \/ StaleWrite(h)
  PROVE  RunInv'
<1>1. CASE LoadTask(h)
  <2> DEFINE task == store[on[h]]
  <2>1. CASE ~Admissible(task, tx[h]) /\ TransitionRefused(h)
    <3>1. ASSUME tx[h].reason \in Outcome
          PROVE  task.status = "cancelled"
      <4>1. Driving(h) /\ pc[h] = "load"
        BY <1>1, <3>1 DEF LoadTask, Driving
      <4>2. /\ task # None /\ task.status \in {"running", "cancelled"}
            /\ tx[h].target = TargetOf(tx[h].reason) /\ tx[h].expected = 0
            /\ tx[h].checkpoint # None => tx[h].reason = "paused"
        BY <3>1, <4>1, DriverFacts DEF CoreInv, Instructed, RunInv, Request, Arguments
      <4>3. ~CanTransition(task, tx[h].target)
        BY <2>1, <3>1, <4>2 DEF Admissible, CheckCheckpoint, TargetOf
      <4>4. TargetOf(tx[h].reason) \in AllowedTransitions["running"]
        BY <3>1 DEF Outcome, TargetOf, AllowedTransitions
      <4> QED
        BY <4>2, <4>3, <4>4 DEF CanTransition
    <3> QED
      BY <1>1, <2>1, <3>1, RefusedRunInv DEF LoadTask
  <2>2. CASE /\ Admissible(task, tx[h])
             /\ Goto(h, "write")
             /\ cur' = [cur EXCEPT ![h] = task]
             /\ UNCHANGED <<store, on, tx, state, turn, historyVars>>
    <3>1. /\ pc[h] = "load" /\ pc'[h] = "write" /\ cur'[h] = task
          /\ UNCHANGED <<store, on, tx, state, turn, historyVars>>
          /\ \A g \in Handler \ {h} : Standstill(g)
      BY <1>1, <2>2 DEF LoadTask, Goto, Standstill, CoreInv, TypeInv, TypeOK
    <3>2. Request(h) /\ (Driving(h)' <=> Driving(h))
      BY <3>1 DEF RunInv, Driving
    <3>3. Unburdened(h)' /\ Arguments(h)' /\ Overtaken(h)'
      BY <3>1, <3>2 DEF Request, Unburdened, Arguments, Overtaken
    <3>4. Approving(h)'
      <4>1. tx[h].expected \in {0, task.version} /\ tx[h].expected \in Nat
        BY <2>2 DEF Admissible, CoreInv, TypeInv, TypeOK, TransitionArgs
      <4> QED
        BY <3>1, <3>2, <4>1 DEF Request, Approving
    <3>5. OnCourse(h)'
      BY <3>1, <3>2 DEF CallsRun, Request, OnCourse, HoldsLastTurn, TurnIsOpen, historyVars
    <3> QED
      BY <3>1, <3>2, <3>3, <3>4, <3>5, QuietStep DEF Request
  <2> QED
    BY <1>1, <2>1, <2>2 DEF LoadTask
<1>2. CASE StoreTask(h)
  <2>1. pc[h] = "write" /\ Commit(h)
    BY <1>2 DEF StoreTask
  <2>2. CASE Return(h)
    BY <2>1, <2>2, ReturnLocals, CommitRunInv DEF CoreInv, TypeInv
  <2>3. CASE /\ tx[h].reason \in {"started", "approved"}
             /\ Goto(h, IF tx[h].reason = "started" THEN "loop" ELSE "tools")
             /\ cur' = [cur EXCEPT ![h] = None]
             /\ UNCHANGED <<on, tx, state, turn>>
    <3>1. /\ pc'[h] = IF tx[h].reason = "started" THEN "loop" ELSE "tools"
          /\ \A g \in Handler \ {h} : Standstill(g)
      BY <2>3 DEF Goto, Standstill, CoreInv, TypeInv, TypeOK
    <3> QED
      BY <2>1, <2>3, <3>1, CommitRunInv
  <2> QED
    BY <1>2, <2>2, <2>3 DEF StoreTask
<1>3. CASE StaleWrite(h)
  <2>1. /\ pc[h] = "write" /\ store[on[h]].version # cur[h].version /\ TransitionRefused(h)
    BY <1>3 DEF StaleWrite
  <2>2. tx[h].reason \in Outcome => store[on[h]].status = "cancelled"
    BY <2>1 DEF RunInv, Request, OnCourse, Driving
  <2> QED
    BY <2>1, <2>2, RefusedRunInv
<1> QED
  BY <1>1, <1>2, <1>3

\* A call is gated by its rank exactly if the runner holds its turn back.
LEMMA GatedCalls ==
  ASSUME NEW calls \in SUBSET Call
  PROVE  HoldsTurn(calls) <=> \E call \in calls : Gated(call)
<1>1. ASSUME NEW call \in Call
      PROVE  NeedsApproval(call) <=> Gated(call)
  BY <1>1, RunnerAssumption DEF NeedsApproval, Gated
<1> QED
  BY <1>1 DEF HoldsTurn

\* The reply of the model, and whether it comes late.
LEMMA ReplyRun ==
  ASSUME CoreInv, RunInv, NEW h \in Handler, Reply(h)
  PROVE  /\ pc[h] = "model" /\ Driving(h) /\ UNCHANGED <<store, on, spent, ran, released>>
         /\ late'[on[h]] <= 1
         /\ late'[on[h]] = 1 => store[on[h]].status = "cancelled"
         /\ \A t \in Task \ {on[h]} : late'[t] = late[t]
<1>1. pc[h] = "model" /\ Driving(h) /\ UNCHANGED <<store, on, spent, ran, released>>
  BY DEF Reply, Driving
<1>2. /\ on[h] \in Task /\ store[on[h]].status \in {"running", "cancelled"}
      /\ late \in [Task -> Nat] /\ late[on[h]] <= 1
  BY <1>1, DriverFacts DEF CoreInv, TypeInv, TypeOK
<1>3. late[on[h]] = 0
  BY <1>1, <1>2 DEF RunInv, Run, NoMoreReplies
<1>4. late' = IF StillRunning(h) THEN late ELSE [late EXCEPT ![on[h]] = @ + 1]
  BY DEF Reply
<1> QED
  BY <1>1, <1>2, <1>3, <1>4 DEF StillRunning

LEMMA LoopRunInv ==
  ASSUME CoreInv, RunInv, NEW h \in Handler, BudgetExhausted(h) \/ Abandon(h) \/ AskModel(h)
  PROVE  RunInv'
<1> DEFINE t == on[h]
<1>1. pc[h] = "loop" /\ Driving(h) /\ Request(h) /\ UNCHANGED <<store, on>>
  BY DEF BudgetExhausted, Abandon, AskModel, Driving, RunInv
<1>2. CASE BudgetExhausted(h)
  <2>1. /\ pc'[h] = "load" /\ tx'[h] = Transition("failed", "budget", None, None)
        /\ UNCHANGED <<store, on, cur, state, turn, historyVars>>
        /\ \A g \in Handler \ {h} : Standstill(g)
    BY <1>2 DEF BudgetExhausted, Finish, Goto, Standstill, CoreInv, TypeInv, TypeOK
  <2>2. /\ tx'[h].reason = "budget" /\ tx'[h].checkpoint = None /\ tx'[h].expected = 0
    BY <2>1 DEF Transition
  <2>3. Request(h)'
    BY <1>1, <2>1, <2>2
    DEF Request, Unburdened, Arguments, Approving, OnCourse, Overtaken, Driving, CallsRun,
        historyVars
  <2> QED
    BY <1>1, <2>1, <2>3, QuietStep
<1>3. CASE Abandon(h)
  <2>1. /\ pc'[h] = "discard" /\ ~StillRunning(h)
        /\ UNCHANGED <<store, on, tx, cur, state, turn, historyVars>>
        /\ \A g \in Handler \ {h} : Standstill(g)
    BY <1>3 DEF Abandon, Goto, Standstill, CoreInv, TypeInv, TypeOK
  <2>2. store[t].status = "cancelled"
    BY <1>1, <2>1, DriverFacts DEF StillRunning
  <2>3. Request(h)' /\ ~Driving(h)'
    BY <1>1, <2>1, <2>2
    DEF Request, Unburdened, Arguments, Approving, OnCourse, Overtaken, Driving
  <2> QED
    BY <2>1, <2>3, QuietStep
<1>4. CASE AskModel(h)
  <2>1. /\ pc'[h] = "model" /\ MayAsk(h) /\ spent' = [spent EXCEPT ![t] = @ + 1]
        /\ state' = [state EXCEPT ![h] = [state[h] EXCEPT !.steps = @ + 1]]
        /\ UNCHANGED <<store, on, tx, cur, turn, runs, asked, ran, released, late>>
        /\ \A g \in Handler \ {h} : Standstill(g)
    BY <1>4 DEF AskModel, Goto, Standstill, CoreInv, TypeInv, TypeOK
  <2>2. /\ t \in Task /\ store[t] # None /\ spent \in [Task -> Nat]
        /\ state[h].steps = spent[t] /\ late[t] \in Nat
        /\ store[t].status \in {"running", "cancelled"} /\ late[t] <= 1
    BY <1>1, DriverFacts DEF CoreInv, TypeInv, TypeOK
  <2>3. /\ spent'[t] = spent[t] + 1 /\ spent[t] < MaxSteps
        /\ state'[h].steps = spent'[t] /\ state'[h].tool_calls = state[h].tool_calls
        /\ \A u \in Task \ {t} : spent'[u] = spent[u]
    BY <2>1, <2>2 DEF MayAsk, CoreInv, TypeInv, TypeOK, RunState
  <2>4. Run(t)
    BY <2>2 DEF RunInv
  <2>5. TurnsInOrder(t)'
    <3>1. spent'[t] <= MaxSteps /\ \A n \in Steps : n > spent'[t] => n > spent[t]
      BY <2>2, <2>3, RunnerAssumption DEF Steps
    <3> QED
      BY <2>1, <2>2, <2>4, <3>1 DEF Run, TurnsInOrder, Cleared
  <2>6. TurnIsOpen(t)'
    <3>1. spent'[t] \in Steps /\ spent'[t] > spent[t]
      BY <2>2, <2>3, RunnerAssumption DEF Steps
    <3> QED
      BY <2>1, <2>4, <3>1 DEF Run, TurnsInOrder, TurnIsOpen
  <2>7. Request(h)'
    BY <1>1, <2>1, <2>3, <2>6
    DEF Request, Unburdened, Arguments, Approving, OnCourse, Overtaken, Driving, CallsRun
  <2>8. late[t] # 1
    BY <1>1, <2>1, <2>4 DEF Run, NoMoreReplies, MayAsk, StillRunning
  <2> QED
    BY <1>1, <2>1, <2>2, <2>3, <2>5, <2>7, <2>8, DriverStep
<1> QED
  BY <1>2, <1>3, <1>4

LEMMA ModelRunInv ==
  ASSUME CoreInv, RunInv, NEW h \in Handler,
         \/ \E reason \in Outcome : ModelConcludes(h, reason)
         \/ \E calls \in SUBSET Call \ {{}} : ModelAsksForTools(h, calls)
  PROVE  RunInv'
<1> DEFINE t == on[h]
<1>1. /\ Reply(h)
      /\ pc[h] = "model" /\ Driving(h) /\ UNCHANGED <<store, on, cur, spent, ran, released>>
      /\ late'[t] <= 1 /\ (late'[t] = 1 => store[t].status = "cancelled")
      /\ \A u \in Task \ {t} : late'[u] = late[u]
  BY ReplyRun DEF ModelConcludes, ModelAsksForTools, Reply
<1>2. /\ t \in Task /\ store[t] # None /\ Run(t) /\ Request(h)
      /\ state[h].steps = spent[t] /\ TurnIsOpen(t) /\ turn[h] = {}
  BY <1>1, DriverFacts DEF RunInv, Request, OnCourse
<1>3. ASSUME NEW reason \in Outcome, ModelConcludes(h, reason)
      PROVE  RunInv'
  <2> DEFINE target == IF reason = "answered" THEN "completed" ELSE "failed"
  <2>1. /\ pc'[h] = "load" /\ tx'[h] = Transition(target, reason, None, None)
        /\ UNCHANGED <<state, turn, asked>> /\ reason # "paused"
        /\ \A g \in Handler \ {h} : Standstill(g)
    BY <1>1, <1>3 DEF ModelConcludes, Finish, Goto, Standstill, CoreInv, TypeInv, TypeOK
  <2>2. tx'[h].reason = reason /\ tx'[h].checkpoint = None /\ tx'[h].expected = 0
    BY <2>1 DEF Transition
  <2>3. TurnsInOrder(t)'
    BY <1>1, <1>2, <2>1 DEF Run, TurnsInOrder, Cleared
  <2>4. Request(h)'
    BY <1>1, <1>2, <2>1, <2>2
    DEF Request, Unburdened, Arguments, Approving, OnCourse, Overtaken, Driving, Outcome,
        CallsRun
  <2> QED
    BY <1>1, <2>1, <2>3, <2>4, DriverStep
<1>4. ASSUME NEW calls \in SUBSET Call \ {{}}, ModelAsksForTools(h, calls)
      PROVE  RunInv'
  <2>1. /\ asked'[t] = [asked[t] EXCEPT ![spent[t]] = calls]
        /\ \A u \in Task \ {t} : asked'[u] = asked[u]
        /\ asked'[t][spent[t]] = calls
        /\ \A n \in Steps \ {spent[t]} : asked'[t][n] = asked[t][n]
    <3>1. asked' = [asked EXCEPT ![t] = [asked[t] EXCEPT ![spent[t]] = calls]]
      BY <1>2, <1>4 DEF ModelAsksForTools
    <3>2. asked \in [Task -> [Steps -> SUBSET Call]] /\ spent[t] \in Steps
      BY <1>2 DEF TurnIsOpen, CoreInv, TypeInv, TypeOK
    <3> QED
      BY <1>2, <3>1, <3>2
  <2>2. TurnsInOrder(t)'
    <3>1. \A n \in Steps : ran[t][n] > 0 => n # spent[t]
      BY <1>2 DEF TurnIsOpen
    <3> QED
      BY <1>1, <1>2, <2>1, <3>1 DEF Run, TurnsInOrder, Cleared
  <2>3. TurnIsOpen(t)'
    BY <1>1, <1>2 DEF TurnIsOpen
  <2>4. CallsRun(t)' = CallsRun(t)
    <3>1. /\ spent[t] \in Steps /\ ran[t][spent[t]] = 0 /\ ran'[t] = ran[t]
          /\ ran[t] \in [Steps -> Nat] /\ asked[t] \in [Steps -> SUBSET Call]
      BY <1>1, <1>2 DEF TurnIsOpen, CoreInv, TypeInv, TypeOK
    <3>2. calls \in SUBSET Call
      BY <1>4
    <3>3. CallsIn(ran[t], [asked[t] EXCEPT ![spent[t]] = calls]) = CallsIn(ran[t], asked[t])
      BY ONLY <3>1, <3>2, AskingAddsNoCalls
    <3> QED
      BY <1>1, <2>1, <3>1, <3>3 DEF CallsRun
  <2>5. state[h].tool_calls = CallsRun(t)
    BY <1>1, <1>2 DEF Request, OnCourse
  <2>6. CASE HoldsTurn(calls)
    <3>1. /\ Finish(h, "awaiting_approval", "paused", Checkpoint(h, calls))
          /\ UNCHANGED <<state, turn>>
      BY <1>4, <2>6 DEF ModelAsksForTools
    <3>2. /\ pc'[h] = "load"
          /\ tx'[h] = Transition("awaiting_approval", "paused", None, Checkpoint(h, calls))
          /\ \A g \in Handler \ {h} : Standstill(g)
      BY <1>1, <3>1 DEF Finish, Goto, Standstill, CoreInv, TypeInv, TypeOK
    <3>3. /\ tx'[h].reason = "paused" /\ tx'[h].checkpoint = Checkpoint(h, calls)
          /\ tx'[h].expected = 0
      BY <3>2 DEF Transition
    <3>4. Checkpoint(h, calls) # None
      BY <1>1, CheckpointType, NoneIsNoValue DEF CoreInv
    <3>5. HoldsLastTurn(on[h], tx[h].checkpoint)'
      BY <1>1, <1>2, <2>1, <2>3, <2>4, <2>5, <2>6, <3>3, <3>4 DEF HoldsLastTurn, Checkpoint
    <3>6. Request(h)'
      BY <1>1, <1>2, <2>4, <2>5, <3>1, <3>2, <3>3, <3>5
      DEF Request, Unburdened, Arguments, Approving, OnCourse, Overtaken, Driving
    <3> QED
      BY <1>1, <2>1, <2>2, <3>2, <3>6, DriverStep
  <2>7. CASE ~HoldsTurn(calls)
    <3>1. /\ pc'[h] = "tools" /\ turn'[h] = calls /\ UNCHANGED <<state, tx>>
          /\ \A g \in Handler \ {h} : Standstill(g)
      BY <1>1, <1>4, <2>7 DEF ModelAsksForTools, Goto, Standstill, CoreInv, TypeInv, TypeOK
    <3>2. Cleared(t, spent[t])'
      BY <1>1, <2>1, <2>7, GatedCalls DEF Cleared
    <3>3. Request(h)'
      BY <1>1, <1>2, <2>1, <2>3, <2>4, <2>5, <3>1, <3>2
      DEF Request, Unburdened, Arguments, Approving, OnCourse, Overtaken, Driving
    <3> QED
      BY <1>1, <2>1, <2>2, <3>1, <3>3, DriverStep
  <2> QED
    BY <2>6, <2>7
<1> QED
  BY <1>3, <1>4

LEMMA TurnRunInv ==
  ASSUME CoreInv, RunInv, NEW h \in Handler, ExecuteTurn(h)
  PROVE  RunInv'
<1> DEFINE t == on[h]
<1>1. /\ pc[h] = "tools" /\ pc'[h] = "loop" /\ Driving(h) /\ turn'[h] = {}
      /\ UNCHANGED <<store, on, tx, cur, runs, spent, asked, released, late>>
      /\ \A g \in Handler \ {h} : Standstill(g)
  BY DEF ExecuteTurn, Goto, Driving, Standstill, CoreInv, TypeInv, TypeOK
<1>2. /\ t \in Task /\ store[t] # None /\ Run(t) /\ Request(h)
      /\ state[h].steps = spent[t] /\ TurnIsOpen(t) /\ Cleared(t, spent[t])
      /\ late[t] <= 1 /\ spent[t] # 0
  BY <1>1, DriverFacts DEF RunInv, Request, OnCourse, TurnIsOpen, Steps
<1>3. state'[h].steps = state[h].steps
  BY DEF ExecuteTurn, CoreInv, TypeInv, TypeOK, RunState
<1>4. /\ ran'[t] = [ran[t] EXCEPT ![spent[t]] = @ + 1]
      /\ \A u \in Task \ {t} : ran'[u] = ran[u]
      /\ ran'[t][spent[t]] = 1
      /\ \A n \in Steps \ {spent[t]} : ran'[t][n] = ran[t][n]
  <2>1. ran' = [ran EXCEPT ![t] = [ran[t] EXCEPT ![spent[t]] = @ + 1]]
    BY <1>2 DEF ExecuteTurn
  <2>2. ran \in [Task -> [Steps -> Nat]] /\ spent[t] \in Steps /\ ran[t][spent[t]] = 0
    BY <1>2 DEF TurnIsOpen, CoreInv, TypeInv, TypeOK
  <2> QED
    BY <1>2, <2>1, <2>2
<1>5. TurnsInOrder(t)'
  <2>1. \A n \in Steps : n > spent[t] => n # spent[t]
    BY <1>2 DEF TurnIsOpen, Steps
  <2> QED
    BY <1>1, <1>2, <1>4, <2>1 DEF Run, TurnsInOrder, Cleared
<1>6. state'[h].tool_calls = CallsRun(t)'
  <2>1. /\ state[h].tool_calls = CallsRun(t) /\ turn[h] = asked[t][spent[t]]
        /\ spent[t] \in Steps /\ ran[t][spent[t]] = 0
    BY <1>1, <1>2 DEF Request, OnCourse, TurnIsOpen
  <2>2. /\ ran[t] \in [Steps -> Nat] /\ asked[t] \in [Steps -> SUBSET Call]
        /\ state'[h].tool_calls = state[h].tool_calls + Cardinality(turn[h])
    BY <1>2 DEF ExecuteTurn, CoreInv, TypeInv, TypeOK, RunState
  <2>3. CallsRun(t)' = CallsRun(t) + Cardinality(asked[t][spent[t]])
    BY <1>1, <1>4, <2>1, <2>2, TurnAddsCalls DEF CallsRun
  <2> QED
    BY <2>1, <2>2, <2>3
<1>7. Request(h)'
  BY <1>1, <1>2, <1>3, <1>6
  DEF Request, Unburdened, Arguments, Approving, OnCourse, Overtaken, Driving
<1>8. late[t] = 1 => store[t].status = "cancelled"
  BY <1>2 DEF Run, NoMoreReplies
<1> QED
  BY <1>1, <1>2, <1>3, <1>4, <1>5, <1>7, <1>8, DriverStep

LEMMA FailureRunInv ==
  ASSUME CoreInv, RunInv, Failures
  PROVE  RunInv'
<1>1. ASSUME NEW p \in Replica, Crash(p)
      PROVE  RunInv'
  <2>1. /\ UNCHANGED <<store, historyVars>>
        /\ \A g \in Handler : \/ Standstill(g)
                              \/ pc'[g] = "idle" /\ state'[g] = FreshRun /\ turn'[g] = {}
    BY <1>1 DEF Crash, Standstill
  <2>2. ASSUME NEW g \in Handler
        PROVE  Request(g)'
    <3>1. CASE Standstill(g)
      BY <2>1, <3>1, RequestFrame DEF RunInv, Standstill, historyVars
    <3>2. CASE pc'[g] = "idle" /\ state'[g] = FreshRun /\ turn'[g] = {}
      BY <3>2 DEF Request, Unburdened, Arguments, Approving, OnCourse, Overtaken, Driving
    <3> QED
      BY <2>1, <3>1, <3>2
  <2>3. ASSUME NEW g \in Handler, Driving(g)'
        PROVE  Standstill(g) /\ Driving(g)
    BY <2>1, <2>3 DEF Standstill, Driving
  <2>4. ASSUME NEW t \in Task
        PROVE  Run(t)'
    BY <2>1, <2>3, RunFrame DEF RunInv, Standstill, historyVars
  <2> QED
    BY <2>2, <2>4 DEF RunInv
<1>2. ASSUME NEW h \in Handler, ReadFails(h) \/ ModelDefect(h)
      PROVE  RunInv'
  BY <1>2, ReturnRunInv DEF ReadFails, ModelDefect
<1>3. ASSUME NEW h \in Handler, WriteFails(h)
      PROVE  RunInv'
  <2>1. pc[h] = "write" /\ Return(h)
    BY <1>3 DEF WriteFails
  <2>2. CASE UNCHANGED <<store, historyVars>>
    BY <2>1, <2>2, ReturnRunInv
  <2>3. CASE Commit(h)
    BY <2>1, <2>3, ReturnLocals, CommitRunInv DEF CoreInv, TypeInv
  <2> QED
    BY <1>3, <2>2, <2>3 DEF WriteFails
<1> QED
  BY <1>1, <1>2, <1>3 DEF Failures

LEMMA NextRunInv == CoreInv /\ RunInv /\ [Next]_vars => RunInv'
<1> SUFFICES ASSUME CoreInv, RunInv, [Next]_vars
             PROVE  RunInv'
  OBVIOUS
<1>1. CASE UNCHANGED vars
  <2>1. UNCHANGED <<store, historyVars>> /\ \A g \in Handler : Standstill(g)
    BY <1>1 DEF vars, requestVars, Standstill
  <2>2. \A g \in Handler : Request(g)'
    BY <2>1, RequestFrame DEF RunInv, Standstill, historyVars
  <2>3. \A g \in Handler : Driving(g)' <=> Driving(g)
    BY <2>1 DEF Standstill, Driving
  <2>4. \A t \in Task : Run(t)'
    BY <2>1, <2>3, RunFrame DEF RunInv, Standstill, historyVars
  <2> QED
    BY <2>2, <2>4 DEF RunInv
<1>2. ASSUME NEW h \in Handler, Work(h)
      PROVE  RunInv'
  <2>1. CASE Discard(h)
    BY <2>1, ReturnRunInv DEF Discard
  <2> QED
    BY <1>2, <2>1, DecisionRunInv, TransitionRunInv, LoopRunInv, ModelRunInv, TurnRunInv DEF Work
<1> QED
  BY <1>1, <1>2, RequestRunInv, FailureRunInv DEF Next

LEMMA RunInvariant == Spec => [](CoreInv /\ RunInv)
<1>1. Init => CoreInv /\ RunInv
  BY InitCoreInv, InitRunInv
<1>2. CoreInv /\ RunInv /\ [Next]_vars => (CoreInv /\ RunInv)'
  BY NextCoreInv, NextRunInv
<1> QED
  BY <1>1, <1>2, PTL DEF Spec

----------------------------------------------------------------------------
(* The theorems.                                                           *)

\* A run never asks the model more than max_steps times, however often it was
\* paused and approved on the way (runner.py, resume).
THEOREM StepBudgetHolds == Spec => []BudgetHolds
<1>1. RunInv => BudgetHolds
  BY DEF RunInv, Run, TurnsInOrder, BudgetHolds
<1> QED
  BY <1>1, RunInvariant, PTL

\* No turn of tool calls is executed twice, whichever approvals race, are
\* retried after a crash, or come for another pause (models.py, RunCheckpoint).
THEOREM NoTurnRunsTwice == Spec => []TurnRunsOnce
<1>1. RunInv => TurnRunsOnce
  BY DEF RunInv, Run, TurnsInOrder, TurnRunsOnce
<1> QED
  BY <1>1, RunInvariant, PTL

\* What is executed is what the model asked for last in this very run, though
\* an approval took the calls from a read that may be long ago (service.py,
\* expected_version; runner.py, resume).
THEOREM AskedTurnIsExecuted == Spec => []ExecutesTheTurnAsked
<1>1. RunInv => ExecutesTheTurnAsked
  BY DEF RunInv, Request, OnCourse, Driving, ExecutesTheTurnAsked
<1> QED
  BY <1>1, RunInvariant, PTL

\* A turn with a gated call has been executed only if someone entitled to has
\* released it, and never its requester under the second-person rule
\* (router.py, approve_task; runner.py, _drive).
THEOREM GatedTurnsWait == Spec => []GatedTurnsAreReleased
<1>1. RunInv => GatedTurnsAreReleased
  BY DEF RunInv, Run, TurnsInOrder, Cleared, GatedTurnsAreReleased
<1> QED
  BY <1>1, RunInvariant, PTL

\* The turn a rejected or cancelled task was holding is never executed
\* (runner.py, reject).
THEOREM DenialIsFinal == Spec => []DeniedTurnNeverRuns
<1>1. RunInv => DeniedTurnNeverRuns
  BY DEF RunInv, Run, StaysDenied, DeniedTurnNeverRuns
<1> QED
  BY <1>1, RunInvariant, PTL

\* A paused task can be decided on: its checkpoint holds the turn the model asked
\* for last, unexecuted and gated, and counts the model calls and the tool calls
\* of the whole run, the parts before earlier pauses included (models.py,
\* RunCheckpoint; runner.py, _RunState.resuming and checkpoint).
THEOREM PausesCanBeDecided == Spec => []PauseIsDecidable
<1>1. CoreInv /\ RunInv => PauseIsDecidable
  <2> SUFFICES ASSUME CoreInv, RunInv, NEW t \in Task, store[t] # None,
                      store[t].status = "awaiting_approval"
               PROVE  /\ HoldsLastTurn(t, store[t].checkpoint)
                      /\ \E call \in store[t].checkpoint.calls : Gated(call)
    BY DEF PauseIsDecidable, HoldsLastTurn, TurnIsOpen
  <2>1. HoldsLastTurn(t, store[t].checkpoint)
    BY DEF RunInv, Run, WaitsWithCheckpoint
  <2>2. asked[t][spent[t]] \in SUBSET Call
    BY <2>1 DEF HoldsLastTurn, TurnIsOpen, CoreInv, TypeInv, TypeOK
  <2>3. \E call \in store[t].checkpoint.calls : Gated(call)
    BY <2>1, <2>2, GatedCalls DEF HoldsLastTurn
  <2> QED
    BY <2>1, <2>3
<1> QED
  BY <1>1, RunInvariant, PTL

\* After its task was cancelled, a run hears from the model at most once more
\* (runner.py, _still_running).
THEOREM CancellationIsNoticed == Spec => []OneReplyOutlivesCancel
<1>1. RunInv => OneReplyOutlivesCancel
  BY DEF RunInv, Run, NoMoreReplies, OneReplyOutlivesCancel
<1> QED
  BY <1>1, RunInvariant, PTL

\* A run that cannot store its outcome has been cancelled: no race with another
\* run, an approval or its own pause costs an outcome (runner.py, _finish).
THEOREM OutcomesAreKept == Spec => []OutcomeLostOnlyToCancel
<1>1. RunInv => OutcomeLostOnlyToCancel
  BY DEF RunInv, Request, Overtaken, OutcomeLostOnlyToCancel
<1> QED
  BY <1>1, RunInvariant, PTL
=============================================================================
