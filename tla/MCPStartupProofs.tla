-------------------------- MODULE MCPStartupProofs --------------------------
(***************************************************************************)
(* Theorems about MCPStartup, for any list of servers and whatever they    *)
(* publish: what the application serves, at which risk, and what it leaves *)
(* behind when it goes.                                                    *)
(***************************************************************************)
EXTENDS MCPStartup, TLAPS

----------------------------------------------------------------------------
(* The inductive invariant.                                                *)

\* Server number j has been started.
Started(j) == j < at \/ (j = at /\ step # "start")

\* The tools of a server are registered, each under its name.
Registered(s) ==
  /\ Len(found[s]) <= MaxTools
  /\ \A k \in Offered(s) : /\ OfferedAs(s, k) \in DOMAIN registry
                           /\ registry[OfferedAs(s, k)].server = s
                           /\ registry[OfferedAs(s, k)].remote = found[s][k].name

\* The registry holds the tools it started with, as they were, and else tools of
\* servers that are connected.
NothingElse ==
  /\ \A name \in FirstParty : name \in DOMAIN registry /\ registry[name] = Local(name)
  /\ \A name \in DOMAIN registry \ FirstParty :
       \E j \in DOMAIN Order : j < at /\ \E k \in Offered(Order[j]) : name = OfferedAs(Order[j], k)

\* What startup has done so far, until something fails.
Underway ==
  phase \in {"boot", "connecting", "serving"} =>
    /\ closing = << >> /\ llm = "open"
    /\ \A j \in DOMAIN Order : child[Order[j]] = "running" <=> Started(j)
    /\ at = Len(Order) + 1 => step = "start"
    /\ step \in {"start", "initialize", "notify"} => pages = 0
    /\ step = "list" => pages < MaxPages
    /\ \A j \in DOMAIN Order : j < at => Registered(Order[j])
    /\ \A j \in DOMAIN Order : j >= at => Len(found[Order[j]]) <= MaxTools
    /\ NothingElse

\* What each phase has reached, and what it has yet to close.
Stages ==
  /\ phase = "boot" => at = 1 /\ step = "start"
  /\ phase \in {"connecting", "serving"} => store # "unopened"
  /\ phase = "serving" => at = Len(Order) + 1
  /\ phase \in {"failing", "stopping"} => Left \subseteq Range(closing)
  /\ phase = "stopping" => llm = "closed"

StartupInv == TypeOK /\ Underway /\ Stages /\ GatedAsConfigured /\ NothingLeftRunning

----------------------------------------------------------------------------
(* Servers in their order.                                                 *)

LEMMA OrderFacts ==
  /\ Len(Order) \in Nat /\ DOMAIN Order = 1..Len(Order)
  /\ \A j \in DOMAIN Order : Order[j] \in Server
  /\ \A s \in Server : \E j \in DOMAIN Order : Order[j] = s
  /\ \A i, j \in DOMAIN Order : Order[i] = Order[j] => i = j
<1>1. Order \in Seq(Server) /\ IsInjective(Order) /\ Range(Order) = Server
  BY StartupAssumption
<1>2. \A s \in Server : \E j \in DOMAIN Order : Order[j] = s
  BY <1>1 DEF Range
<1>3. \A i, j \in DOMAIN Order : Order[i] = Order[j] => i = j
  BY <1>1 DEF IsInjective
<1> QED
  BY <1>1, <1>2, <1>3

\* The servers connected so far, as a sequence.
LEMMA ConnectedFacts ==
  ASSUME at \in 1..(Len(Order) + 1)
  PROVE  /\ Connected \in Seq(Server) /\ Len(Connected) = at - 1
         /\ \A j \in 1..(at - 1) : Connected[j] = Order[j]
<1>1. Order \in Seq(Server) /\ Len(Order) \in Nat
  BY StartupAssumption
<1> QED
  BY <1>1 DEF Connected

\* Every server that runs is closed when startup fails.
LEMMA FailCloses ==
  ASSUME TypeOK, Underway, phase = "connecting", at <= Len(Order), Fail
  PROVE  closing' \in Seq(Server) /\ phase' = "failing" /\ Left \subseteq Range(closing')
<1>1. at \in 1..Len(Order) /\ Len(Order) \in Nat /\ at \in 1..(Len(Order) + 1)
  BY OrderFacts DEF TypeOK
<1>2. /\ Connected \in Seq(Server) /\ Len(Connected) = at - 1
      /\ \A j \in 1..(at - 1) : Connected[j] = Order[j]
  BY <1>1, ConnectedFacts
<1>3. Current \in Server /\ Current = Order[at]
  BY <1>1, OrderFacts DEF Current
<1>4. ASSUME NEW s \in Left
      PROVE  \E j \in DOMAIN Order : Order[j] = s /\ Started(j)
  BY <1>4, OrderFacts DEF Left, Underway
<1>5. CASE step = "start"
  <2>1. closing' = Connected
    <3>1. closing' = << >> \o Connected
      BY <1>5 DEF Fail
    <3> QED
      BY <1>2, <3>1
  <2>2. \A s \in Left : s \in Range(closing')
    BY <1>1, <1>2, <1>4, <1>5, <2>1, OrderFacts DEF Range, Started
  <2> QED
    BY <1>2, <2>1, <2>2 DEF Fail
<1>6. CASE step # "start"
  <2>1. closing' = <<Current>> \o Connected
    BY <1>6 DEF Fail
  <2>2. /\ closing' \in Seq(Server) /\ Len(closing') = at /\ closing'[1] = Order[at]
        /\ \A j \in 1..(at - 1) : closing'[j + 1] = Order[j]
    <3>1. <<Current>> \in Seq(Server) /\ Len(<<Current>>) = 1
      BY <1>3
    <3> QED
      BY <1>1, <1>2, <1>3, <2>1, <3>1
  <2>3. DOMAIN closing' = 1..at
    BY <2>2
  <2>4. ASSUME NEW s \in Left
        PROVE  s \in Range(closing')
    <3>1. PICK j \in DOMAIN Order : Order[j] = s /\ Started(j)
      BY <1>4
    <3>2. CASE j = at
      BY <1>1, <2>2, <2>3, <3>1, <3>2 DEF Range
    <3>3. CASE j < at
      <4>1. j \in 1..(at - 1) /\ j + 1 \in 1..at
        BY <1>1, <3>3, OrderFacts
      <4>2. closing'[j + 1] = s
        BY <2>2, <3>1, <4>1
      <4> QED
        BY <2>3, <4>1, <4>2 DEF Range
    <3> QED
      BY <3>1, <3>2, <3>3 DEF Started
  <2> QED
    BY <2>2, <2>4 DEF Fail
<1> QED
  BY <1>5, <1>6

\* What fails at one server is on its way to being closed.
LEMMA FailKeeps ==
  ASSUME StartupInv, phase = "connecting", at <= Len(Order), Fail,
         UNCHANGED <<store, llm, child, at, step, cancelled>>,
         found' \in [Server -> Seq(Declaration)], pages' \in 0..MaxPages, GatedAsConfigured'
  PROVE  StartupInv'
<1>1. closing' \in Seq(Server) /\ phase' = "failing" /\ Left \subseteq Range(closing')
  BY FailCloses DEF StartupInv
<1>2. TypeOK'
  BY <1>1 DEF StartupInv, TypeOK, Phase
<1>3. Underway' /\ NothingLeftRunning'
  BY <1>1 DEF Underway, NothingLeftRunning
<1>4. Left' = Left
  BY DEF Left
<1>5. Stages'
  BY <1>1, <1>4 DEF Stages
<1> QED
  BY <1>2, <1>3, <1>5 DEF StartupInv

LEMMA SameRegistry ==
  ASSUME GatedAsConfigured, UNCHANGED registry
  PROVE  GatedAsConfigured'
BY DEF GatedAsConfigured

\* Registered tools stay registered while nothing is found or registered.
LEMMA SameTools ==
  ASSUME UNCHANGED <<found, registry>>, NEW s, Registered(s)
  PROVE  Registered(s)'
BY DEF Registered, Offered, OfferedAs

\* Nor does the registry gain anything then, whatever the server at hand sends.
LEMMA SameHoldings ==
  ASSUME UNCHANGED <<registry, at>>, NothingElse,
         \A j \in DOMAIN Order : j < at => found'[Order[j]] = found[Order[j]]
  PROVE  NothingElse'
BY DEF NothingElse, Offered, OfferedAs

----------------------------------------------------------------------------
(* Startup, step by step.                                                  *)

\* OpenStore reaches the servers, or ends before any of them.
LEMMA OpenStoreKeeps ==
  ASSUME StartupInv, OpenStore
  PROVE  StartupInv'
<1> USE DEF StartupInv
<1>1. /\ phase = "boot" /\ at = 1 /\ step = "start"
      /\ UNCHANGED <<llm, child, at, step, found, pages, registry, closing, cancelled>>
  BY DEF OpenStore, Stages
<1>2. phase' \in {"connecting", "failed"} /\ (phase' = "connecting" => store' # "unopened")
  BY DEF OpenStore
<1>3. Left = {}
  BY <1>1, OrderFacts DEF Underway, Started, Left
<1>4. TypeOK'
  BY <1>1, <1>2 DEF TypeOK, Phase, Underway, OpenStore
<1>5. Underway'
  <2>1. \A j \in DOMAIN Order : j < at => Registered(Order[j])'
    BY <1>1, OrderFacts
  <2> QED
    BY <1>1, <1>2, <2>1, SameHoldings DEF Underway, Started
<1>6. Stages' /\ NothingLeftRunning'
  BY <1>1, <1>2, <1>3 DEF Stages, NothingLeftRunning, Left
<1> QED
  BY <1>1, <1>4, <1>5, <1>6, SameRegistry

\* What every step of connecting a server starts from.
LEMMA WhileConnecting ==
  ASSUME StartupInv, phase = "connecting", at <= Len(Order)
  PROVE  /\ at \in 1..Len(Order) /\ at \in DOMAIN Order /\ Current = Order[at]
         /\ Current \in Server /\ closing = << >> /\ llm = "open"
         /\ store # "unopened"
         /\ \A j \in DOMAIN Order : Order[j] = Current <=> j = at
<1> QED
  BY OrderFacts DEF StartupInv, TypeOK, Underway, Stages, Current

\* The next step of one server, while it goes well and nothing is registered.
LEMMA StepKeeps ==
  ASSUME StartupInv, phase = "connecting", at <= Len(Order),
         UNCHANGED <<phase, store, llm, at, registry, closing, cancelled>>,
         step' \in {"initialize", "notify", "list", "register"},
         child' = [child EXCEPT ![Current] = "running"],
         found' \in [Server -> Seq(Declaration)],
         \A s \in Server : s # Current => found'[s] = found[s],
         Len(found'[Current]) <= MaxTools,
         pages' \in 0..MaxPages,
         step' \in {"initialize", "notify"} => pages' = 0,
         step' = "list" => pages' < MaxPages
  PROVE  StartupInv'
<1> USE DEF StartupInv
<1>1. /\ at \in 1..Len(Order) /\ at \in DOMAIN Order /\ Current = Order[at]
      /\ Current \in Server /\ closing = << >> /\ llm = "open" /\ store # "unopened"
      /\ \A j \in DOMAIN Order : Order[j] = Current <=> j = at
  BY WhileConnecting
<1>2. child' \in [Server -> {"none", "running", "closed", "close_failed"}]
  BY DEF TypeOK
<1>3. TypeOK'
  BY <1>1, <1>2 DEF TypeOK
<1>4. ASSUME NEW j \in DOMAIN Order
      PROVE  (child[Order[j]] = "running" <=> Started(j))'
  <2>1. Order[j] \in Server /\ j \in 1..Len(Order)
    BY OrderFacts
  <2>2. CASE j = at
    BY <1>1, <2>1, <2>2 DEF TypeOK, Started
  <2>3. CASE j # at
    <3>1. child'[Order[j]] = child[Order[j]]
      BY <1>1, <2>1, <2>3 DEF TypeOK
    <3> QED
      BY <1>1, <2>1, <2>3, <3>1 DEF Underway, Started
  <2> QED
    BY <2>2, <2>3
<1>6. ASSUME NEW j \in DOMAIN Order, j < at
      PROVE  Registered(Order[j])'
  <2>1. PICK s : s = Order[j]
    OBVIOUS
  <2>2. Registered(s) /\ found'[s] = found[s] /\ j # at
    BY <1>1, <1>6, <2>1, OrderFacts DEF Underway
  <2>3. Registered(s)'
    BY <2>2 DEF Registered, Offered, OfferedAs
  <2> QED
    BY <2>1, <2>3
<1>7. ASSUME NEW j \in DOMAIN Order, j >= at
      PROVE  Len(found'[Order[j]]) <= MaxTools
  <2>1. CASE j = at
    BY <1>1, <2>1
  <2>2. CASE j # at
    BY <1>1, <1>7, <2>2, OrderFacts DEF Underway
  <2> QED
    BY <2>1, <2>2
<1>8. Underway'
  <2>1. at' # Len(Order) + 1
    BY <1>1, OrderFacts
  <2>2. NothingElse'
    <3>1. \A j \in DOMAIN Order : j < at => found'[Order[j]] = found[Order[j]]
      BY <1>1, OrderFacts
    <3> QED
      BY <3>1, SameHoldings DEF Underway
  <2> QED
    BY <1>1, <1>4, <1>6, <1>7, <2>1, <2>2 DEF Underway
<1>9. Stages' /\ NothingLeftRunning'
  BY <1>1 DEF Stages, NothingLeftRunning
<1> QED
  BY <1>3, <1>8, <1>9, SameRegistry

\* StartServer has a process to close from here on.
LEMMA StartServerKeeps ==
  ASSUME StartupInv, StartServer
  PROVE  StartupInv'
<1>1. /\ phase = "connecting" /\ at <= Len(Order) /\ step = "start"
      /\ UNCHANGED <<store, llm, at, found, pages, registry, cancelled>>
  BY DEF StartServer, Connecting
<1>2. Current \in Server /\ at \in DOMAIN Order /\ Current = Order[at]
  BY <1>1, WhileConnecting
<1>3. Len(found[Current]) <= MaxTools /\ pages = 0
  BY <1>1, <1>2, OrderFacts DEF StartupInv, Underway, TypeOK
<1>4. CASE /\ child' = [child EXCEPT ![Current] = "running"]
           /\ step' = "initialize"
           /\ UNCHANGED <<phase, closing>>
  BY <1>1, <1>2, <1>3, <1>4, StepKeeps DEF StartupInv, TypeOK
<1>5. CASE Fail /\ UNCHANGED <<child, step>>
  BY <1>1, <1>5, FailKeeps, SameRegistry DEF StartupInv, TypeOK
<1> QED
  BY <1>4, <1>5 DEF StartServer

\* Initialize and Initialized only move on, or fail.
LEMMA HandshakeKeeps ==
  ASSUME StartupInv, Initialize \/ Initialized
  PROVE  StartupInv'
<1>1. /\ phase = "connecting" /\ at <= Len(Order) /\ step \in {"initialize", "notify"}
      /\ UNCHANGED <<store, llm, child, at, found, pages, registry, cancelled>>
  BY DEF Initialize, Initialized, Connecting
<1>2. Current \in Server /\ at \in DOMAIN Order /\ Current = Order[at]
  BY <1>1, WhileConnecting
<1>3. Len(found[Current]) <= MaxTools /\ pages = 0 /\ 0 < MaxPages
  BY <1>1, <1>2, OrderFacts, StartupAssumption DEF StartupInv, Underway, TypeOK
<1>4. child' = [child EXCEPT ![Current] = "running"]
  <2>1. child[Current] = "running"
    BY <1>1, <1>2 DEF StartupInv, Underway, Started
  <2> QED
    BY <1>1, <1>2, <2>1 DEF StartupInv, TypeOK
<1>5. CASE step' \in {"notify", "list"} /\ UNCHANGED <<phase, closing>>
  BY <1>1, <1>2, <1>3, <1>4, <1>5, StepKeeps DEF StartupInv, TypeOK
<1>6. CASE Fail /\ UNCHANGED step
  BY <1>1, <1>6, FailKeeps, SameRegistry DEF StartupInv, TypeOK
<1> QED
  BY <1>5, <1>6 DEF Initialize, Initialized

\* ListTools keeps no more than MAX_TOOLS_PER_SERVER of them, in no more than
\* MAX_LIST_PAGES.
LEMMA ListToolsKeeps ==
  ASSUME StartupInv, ListTools
  PROVE  StartupInv'
<1>1. /\ phase = "connecting" /\ at <= Len(Order) /\ step = "list"
      /\ UNCHANGED <<store, llm, child, at, registry, cancelled>>
  BY DEF ListTools, Connecting
<1>2. Current \in Server /\ at \in DOMAIN Order /\ Current = Order[at]
  BY <1>1, WhileConnecting
<1>3. pages < MaxPages /\ pages \in Nat /\ MaxPages \in Nat /\ MaxTools \in Nat
  BY <1>1, StartupAssumption DEF StartupInv, Underway, TypeOK
<1>4. child' = [child EXCEPT ![Current] = "running"]
  <2>1. child[Current] = "running"
    BY <1>1, <1>2 DEF StartupInv, Underway, Started
  <2> QED
    BY <1>1, <1>2, <2>1 DEF StartupInv, TypeOK
<1>5. ASSUME NEW page \in Page, NEW all, all = found[Current] \o page.tools,
             found' = [found EXCEPT ![Current] = all], pages' = pages + 1,
             IF TooMany(all) \/ Endless(page)
               THEN Fail /\ UNCHANGED step
               ELSE /\ step' = IF page.more THEN "list" ELSE "register"
                    /\ UNCHANGED <<phase, closing>>
      PROVE  StartupInv'
  <2>1. all \in Seq(Declaration)
    BY <1>2, <1>5, StartupAssumption DEF StartupInv, TypeOK
  <2>2. found' \in [Server -> Seq(Declaration)] /\ pages' \in 0..MaxPages
    BY <1>2, <1>3, <1>5, <2>1 DEF StartupInv, TypeOK
  <2>3. CASE TooMany(all) \/ Endless(page)
    BY <1>1, <1>5, <2>2, <2>3, FailKeeps, SameRegistry DEF StartupInv
  <2>4. CASE ~(TooMany(all) \/ Endless(page))
    <3>1. Len(all) <= MaxTools
      BY <1>3, <2>1, <2>4 DEF TooMany
    <3>2. step' = "list" => pages' < MaxPages
      BY <1>3, <1>5, <2>4 DEF Endless
    <3>3. found'[Current] = all /\ \A s \in Server : s # Current => found'[s] = found[s]
      BY <1>2, <1>5 DEF StartupInv, TypeOK
    <3>4. /\ step' \in {"list", "register"} /\ UNCHANGED <<phase, closing>>
      BY <1>5, <2>4
    <3> QED
      BY <1>1, <1>4, <2>2, <3>1, <3>2, <3>3, <3>4, StepKeeps
  <2> QED
    BY <2>3, <2>4
<1>6. CASE Fail /\ UNCHANGED <<step, found, pages>>
  BY <1>1, <1>6, FailKeeps, SameRegistry DEF StartupInv, TypeOK
<1> QED
  BY <1>5, <1>6 DEF ListTools

LEMMA TimeoutKeeps ==
  ASSUME StartupInv, StartupTimesOut
  PROVE  StartupInv'
BY FailKeeps, SameRegistry DEF StartupTimesOut, StartupInv, TypeOK

\* What RegisterTools makes of a tool is gated as configured.
LEMMA BuildToolFacts ==
  ASSUME NEW s \in Server, NEW remote \in RemoteName
  PROVE  /\ BuildTool(s, remote).server = s
         /\ BuildTool(s, remote).remote = remote
         /\ remote \in DOMAIN ToolRisk[s] =>
              BuildTool(s, remote).risk = ToolRisk[s][remote]
         /\ BuildTool(s, remote).risk # DefaultRisk[s] => remote \in DOMAIN ToolRisk[s]
BY DEF BuildTool, RiskFor

\* RegisterTools: what is kept of the offers comes under a name of its own, and
\* takes nothing from what was there.
LEMMA RegisterToolsKeeps ==
  ASSUME StartupInv, RegisterTools
  PROVE  StartupInv'
<1> DEFINE kept == {k \in Offered(Current) :
                      \A j \in Offered(Current) : j <= k => ~Rejected(Current, j)}
           New(name) == BuildTool(Current,
             found[Current][CHOOSE k \in kept : OfferedAs(Current, k) = name].name)
<1>1. /\ phase = "connecting" /\ at <= Len(Order) /\ step = "register"
      /\ UNCHANGED <<store, llm, child, found, cancelled>>
      /\ registry' = [name \in DOMAIN registry \cup {OfferedAs(Current, k) : k \in kept} |->
                        IF \E k \in kept : OfferedAs(Current, k) = name THEN New(name)
                        ELSE registry[name]]
      /\ IF kept = Offered(Current)
           THEN at' = at + 1 /\ step' = "start" /\ pages' = 0 /\ UNCHANGED <<phase, closing>>
           ELSE Fail /\ UNCHANGED <<at, step, pages>>
  BY DEF RegisterTools, Connecting
<1>2. /\ at \in 1..Len(Order) /\ at \in DOMAIN Order /\ Current = Order[at]
      /\ Current \in Server /\ closing = << >> /\ llm = "open" /\ store # "unopened"
      /\ \A j \in DOMAIN Order : Order[j] = Current <=> j = at
  BY <1>1, WhileConnecting
<1>3. found[Current] \in Seq(Declaration) /\ Len(found[Current]) <= MaxTools
  BY <1>1, <1>2, OrderFacts DEF StartupInv, TypeOK, Underway
<1>4. \A k \in Offered(Current) : k \in 1..Len(found[Current]) /\ found[Current][k].name \in RemoteName
  <2>1. ASSUME NEW k \in 1..Len(found[Current])
        PROVE  found[Current][k].name \in RemoteName
    <3>1. found[Current][k] \in Declaration
      BY <1>3
    <3> QED
      BY <3>1 DEF Declaration
  <2>2. DOMAIN found[Current] = 1..Len(found[Current])
    BY <1>3
  <2> QED
    BY <2>1, <2>2 DEF Offered
<1>5. kept \subseteq Offered(Current)
  OBVIOUS
<1>6. \A k \in kept : /\ ~Rejected(Current, k)
                      /\ OfferedAs(Current, k) \notin DOMAIN registry
  BY <1>4 DEF Rejected
<1>7. \A j, k \in kept : OfferedAs(Current, j) = OfferedAs(Current, k) => j = k
  BY <1>4, <1>5, <1>6 DEF Rejected
<1>8. ASSUME NEW k \in kept
      PROVE  /\ OfferedAs(Current, k) \in DOMAIN registry'
             /\ registry'[OfferedAs(Current, k)] = BuildTool(Current, found[Current][k].name)
  <2>1. (CHOOSE i \in kept : OfferedAs(Current, i) = OfferedAs(Current, k)) = k
    BY <1>7
  <2>2. New(OfferedAs(Current, k)) = BuildTool(Current, found[Current][k].name)
    BY <2>1
  <2> HIDE DEF kept, New
  <2> QED
    BY <1>1, <2>2
<1> HIDE DEF New
<1>9. ASSUME NEW name \in DOMAIN registry
      PROVE  name \in DOMAIN registry' /\ registry'[name] = registry[name]
  <2>1. ~\E k \in kept : OfferedAs(Current, k) = name
    BY <1>6
  <2> HIDE DEF kept
  <2> QED
    BY <1>1, <2>1
<1>10. \A name \in DOMAIN registry' :
         name \in DOMAIN registry \/ \E k \in kept : OfferedAs(Current, k) = name
  <2> HIDE DEF kept
  <2> QED
    BY <1>1
<1> HIDE DEF kept
<1>11. GatedAsConfigured'
  <2>1. ASSUME NEW name \in DOMAIN registry'
        PROVE  registry'[name].server \in Server =>
                 /\ LocalName[<<registry'[name].server, registry'[name].remote>>] = name
                 /\ registry'[name].remote \in DOMAIN ToolRisk[registry'[name].server] =>
                      registry'[name].risk = ToolRisk[registry'[name].server][registry'[name].remote]
                 /\ registry'[name].risk # DefaultRisk[registry'[name].server] =>
                      registry'[name].remote \in DOMAIN ToolRisk[registry'[name].server]
    <3>1. CASE name \in DOMAIN registry
      BY <1>9, <3>1 DEF StartupInv, GatedAsConfigured
    <3>2. ASSUME NEW k \in kept, OfferedAs(Current, k) = name
          PROVE  /\ registry'[name].server = Current
                 /\ LocalName[<<Current, registry'[name].remote>>] = name
                 /\ registry'[name].remote \in DOMAIN ToolRisk[Current] =>
                      registry'[name].risk = ToolRisk[Current][registry'[name].remote]
                 /\ registry'[name].risk # DefaultRisk[Current] =>
                      registry'[name].remote \in DOMAIN ToolRisk[Current]
      <4>1. PICK remote \in RemoteName : remote = found[Current][k].name
        BY <1>4, <1>5
      <4>2. registry'[name] = BuildTool(Current, remote)
        BY <1>8, <3>2, <4>1
      <4>3. LocalName[<<Current, remote>>] = name
        BY <3>2, <4>1 DEF OfferedAs
      <4> QED
        BY <1>2, <4>2, <4>3, BuildToolFacts
    <3> QED
      BY <1>10, <3>1, <3>2
  <2> QED
    BY <2>1 DEF GatedAsConfigured
<1>12. CASE kept # Offered(Current)
  BY <1>1, <1>11, <1>12, FailKeeps DEF StartupInv, TypeOK
<1>13. CASE kept = Offered(Current)
  <2>1. at' = at + 1 /\ step' = "start" /\ pages' = 0 /\ UNCHANGED <<phase, closing>>
    BY <1>1, <1>13
  <2>2. TypeOK'
    BY <1>1, <1>2, <2>1, OrderFacts, StartupAssumption DEF StartupInv, TypeOK
  <2>3. \A s : s = Current => Registered(s)'
    <3>1. SUFFICES ASSUME NEW s, s = Current PROVE Registered(s)'
      OBVIOUS
    <3>2. \A k \in Offered(s) : /\ OfferedAs(s, k) \in DOMAIN registry'
                                /\ registry'[OfferedAs(s, k)].server = s
                                /\ registry'[OfferedAs(s, k)].remote = found[s][k].name
      BY <1>2, <1>4, <1>8, <1>13, <3>1, BuildToolFacts
    <3>3. Len(found[s]) <= MaxTools /\ UNCHANGED found
      BY <1>1, <1>3, <3>1
    <3>4. Registered(s)'
      BY <3>2, <3>3 DEF Registered, Offered, OfferedAs
    <3> QED
      BY <3>4
  <2>4. ASSUME NEW j \in DOMAIN Order, j < at'
        PROVE  Registered(Order[j])'
    <3>1. PICK s : s = Order[j]
      OBVIOUS
    <3>2. CASE j = at
      BY <1>2, <2>3, <3>1, <3>2
    <3>3. CASE j # at
      <4>1. Registered(s)
        BY <1>1, <1>2, <2>1, <2>4, <3>1, <3>3, OrderFacts DEF StartupInv, Underway
      <4>2. Registered(s)'
        BY <1>1, <1>9, <4>1, ZenonT(30) DEF Registered, Offered, OfferedAs
      <4> QED
        BY <3>1, <4>2
    <3> QED
      BY <3>2, <3>3
  <2>5. ASSUME NEW j \in DOMAIN Order
        PROVE  (child[Order[j]] = "running" <=> Started(j))'
    BY <1>1, <1>2, <2>1, OrderFacts DEF StartupInv, Underway, Started
  <2>6. ASSUME NEW j \in DOMAIN Order, j >= at'
        PROVE  Len(found'[Order[j]]) <= MaxTools
    BY <1>1, <1>2, <2>1, <2>6, OrderFacts DEF StartupInv, Underway
  <2>7. NothingElse'
    <3>1. NothingElse
      BY <1>1 DEF StartupInv, Underway
    <3>2. ASSUME NEW name \in DOMAIN registry' \ FirstParty
          PROVE  \E j \in DOMAIN Order : j < at' /\ \E k \in Offered(Order[j]) :
                   name = OfferedAs(Order[j], k)
      <4>1. CASE name \in DOMAIN registry
        <5>1. PICK j \in DOMAIN Order : j < at /\ \E k \in Offered(Order[j]) :
                name = OfferedAs(Order[j], k)
          BY <3>1, <3>2, <4>1 DEF NothingElse
        <5>2. j < at'
          BY <1>2, <2>1, <5>1, OrderFacts
        <5> QED
          BY <5>1, <5>2
      <4>2. ASSUME NEW k \in kept, OfferedAs(Current, k) = name
            PROVE  \E i \in Offered(Order[at]) : name = OfferedAs(Order[at], i)
        BY <1>2, <1>5, <4>2
      <4>3. at < at'
        BY <1>2, <2>1
      <4> QED
        BY <1>2, <1>10, <3>2, <4>1, <4>2, <4>3
    <3>3. \A name \in FirstParty : name \in DOMAIN registry' /\ registry'[name] = Local(name)
      BY <1>9, <3>1 DEF NothingElse
    <3>4. \A s : Offered(s)' = Offered(s) /\ \A k : OfferedAs(s, k)' = OfferedAs(s, k)
      BY <1>1 DEF Offered, OfferedAs
    <3> QED
      BY <3>2, <3>3, <3>4 DEF NothingElse
  <2>8. Underway'
    BY <1>1, <1>2, <2>1, <2>4, <2>5, <2>6, <2>7 DEF Underway
  <2>9. Stages' /\ NothingLeftRunning'
    BY <1>1, <1>2, <2>1 DEF Stages, NothingLeftRunning
  <2> QED
    BY <1>11, <2>2, <2>8, <2>9 DEF StartupInv
<1> QED
  BY <1>12, <1>13

----------------------------------------------------------------------------
(* Serving and closing.                                                    *)

LEMMA ServeKeeps ==
  ASSUME StartupInv, Serve
  PROVE  StartupInv'
<1>1. /\ phase = "connecting" /\ phase' = "serving" /\ at > Len(Order)
      /\ UNCHANGED <<store, llm, child, at, step, found, pages, registry, closing, cancelled>>
  BY DEF Serve
<1>2. at = Len(Order) + 1
  BY <1>1, OrderFacts DEF StartupInv, TypeOK
<1>3. TypeOK'
  BY <1>1 DEF StartupInv, TypeOK, Phase
<1>4. ASSUME NEW j \in DOMAIN Order, j < at
      PROVE  Registered(Order[j])'
  <2>1. Registered(Order[j])
    BY <1>1, <1>4 DEF StartupInv, Underway
  <2> QED
    BY <1>1, <2>1, SameTools
<1>5. Underway'
  BY <1>1, <1>4, SameHoldings DEF StartupInv, Underway, Started
<1>6. Stages' /\ NothingLeftRunning'
  BY <1>1, <1>2 DEF StartupInv, Stages, NothingLeftRunning
<1> QED
  BY <1>1, <1>3, <1>5, <1>6, SameRegistry DEF StartupInv

\* Shutdown has every server to close, unless the model backend keeps it from that.
LEMMA ShutdownKeeps ==
  ASSUME StartupInv, Shutdown
  PROVE  StartupInv'
<1>1. /\ phase = "serving" /\ phase' \in {"stopping", "stopped"}
      /\ UNCHANGED <<store, child, at, step, found, pages, registry, cancelled>>
  BY DEF Shutdown
<1>2. at = Len(Order) + 1 /\ at \in 1..(Len(Order) + 1) /\ closing = << >>
  BY <1>1, OrderFacts DEF StartupInv, TypeOK, Stages, Underway
<1>3. /\ Connected \in Seq(Server) /\ Len(Connected) = Len(Order)
      /\ \A j \in DOMAIN Order : Connected[j] = Order[j]
  BY <1>2, ConnectedFacts, OrderFacts
<1>4. Server \subseteq Range(Connected)
  BY <1>3, OrderFacts DEF Range
<1>5. /\ phase' = "stopping" => llm' = "closed" /\ closing' = Connected
      /\ phase' = "stopped" => llm' = "close_failed" /\ closing' = << >>
  BY <1>2 DEF Shutdown
<1>6. TypeOK'
  <2>1. closing' \in Seq(Server) /\ (phase' = "stopped" => closing' = << >>)
    <3>1. closing \in Seq(Server)
      BY DEF StartupInv, TypeOK
    <3>2. closing' = Connected \/ closing' = closing
      BY <1>1, <1>2, <1>5
    <3> QED
      BY <1>3, <1>5, <3>1, <3>2
  <2>2. llm' \in {"open", "closed", "close_failed"} /\ phase' \in Phase
    BY <1>1, <1>5 DEF Phase
  <2>3. phase' # "failed"
    BY <1>1
  <2> QED
    BY <1>1, <2>1, <2>2, <2>3 DEF StartupInv, TypeOK
<1>7. Underway' /\ NothingLeftRunning'
  BY <1>1, <1>5 DEF Underway, NothingLeftRunning
<1>8. Stages'
  <2>1. phase' = "stopping" => Left' \subseteq Range(closing')
    BY <1>4, <1>5 DEF Left
  <2> QED
    BY <1>1, <1>5, <2>1 DEF Stages
<1> QED
  BY <1>1, <1>6, <1>7, <1>8, SameRegistry DEF StartupInv

\* CloseServer: the rest is still to be closed, whatever became of this one.
LEMMA CloseServerKeeps ==
  ASSUME StartupInv, CloseServer
  PROVE  StartupInv'
<1>1. /\ phase \in {"failing", "stopping"} /\ closing # << >>
      /\ closing' = Tail(closing)
      /\ UNCHANGED <<phase, store, llm, at, step, found, pages, registry, cancelled>>
  BY DEF CloseServer
<1>2. PICK end \in {"closed", "close_failed"} : child' = [child EXCEPT ![Head(closing)] = end]
  BY DEF CloseServer
<1>3. /\ closing \in Seq(Server) /\ Head(closing) \in Server /\ closing' \in Seq(Server)
      /\ Head(closing) = closing[1]
      /\ Len(closing) \in Nat /\ Len(closing') = Len(closing) - 1
      /\ \A k \in 1..Len(closing') : closing'[k] = closing[k + 1]
  BY <1>1 DEF StartupInv, TypeOK
<1>4. TypeOK'
  BY <1>1, <1>2, <1>3 DEF StartupInv, TypeOK
<1>5. ASSUME NEW s \in Left'
      PROVE  s \in Range(closing')
  <2>1. s \in Left /\ s # Head(closing)
    BY <1>2, <1>3, <1>5 DEF Left, StartupInv, TypeOK
  <2>2. PICK k \in 1..Len(closing) : closing[k] = s
    BY <1>1, <1>3, <2>1 DEF StartupInv, Stages, Range
  <2>3. k # 1
    BY <1>3, <2>1, <2>2
  <2>4. PICK i \in 1..Len(closing') : i + 1 = k
    <3>1. k - 1 \in 1..Len(closing') /\ (k - 1) + 1 = k
      BY <1>3, <2>2, <2>3
    <3> QED
      BY <3>1
  <2>5. closing'[i] = s
    BY <1>3, <2>2, <2>4
  <2> QED
    BY <1>3, <2>4, <2>5 DEF Range
<1>6. Stages'
  BY <1>1, <1>5 DEF StartupInv, Stages
<1>7. Underway' /\ NothingLeftRunning'
  BY <1>1 DEF Underway, NothingLeftRunning
<1> QED
  BY <1>1, <1>4, <1>6, <1>7, SameRegistry DEF StartupInv

\* StartupFails and CloseStore come once there is nothing left to close.
LEMMA EndingKeeps ==
  ASSUME StartupInv, StartupFails \/ CloseStore
  PROVE  StartupInv'
<1>1. /\ phase \in {"failing", "stopping"} /\ closing = << >>
      /\ UNCHANGED <<llm, child, at, step, found, pages, registry, closing, cancelled>>
  BY DEF StartupFails, CloseStore
<1>2. /\ phase' \in {"failed", "stopped"}
      /\ phase' = "stopped" => store' \in {"none", "unopened", "closed"}
      /\ store' \in {"none", "unopened", "open", "closed"}
  BY DEF StartupFails, CloseStore, StartupInv, TypeOK
<1>3. Left = {}
  <2>1. Range(closing) = {}
    BY <1>1 DEF Range
  <2> QED
    BY <1>1, <2>1 DEF StartupInv, Stages
<1>4. TypeOK'
  BY <1>1, <1>2 DEF StartupInv, TypeOK, Phase
<1>5. Left' = {}
  BY <1>1, <1>3 DEF Left
<1>6. Underway' /\ Stages' /\ NothingLeftRunning'
  BY <1>2, <1>5 DEF Underway, Stages, NothingLeftRunning
<1> QED
  BY <1>1, <1>4, <1>6, SameRegistry DEF StartupInv

LEMMA CancelKeeps ==
  ASSUME StartupInv, Cancel
  PROVE  StartupInv'
<1>1. /\ phase' \in {"failed", "stopped"} /\ cancelled'
      /\ UNCHANGED <<store, llm, child, at, step, found, pages, registry, closing>>
  BY DEF Cancel
<1>2. TypeOK'
  BY <1>1 DEF StartupInv, TypeOK, Phase
<1>3. Underway' /\ Stages' /\ NothingLeftRunning'
  BY <1>1 DEF Underway, Stages, NothingLeftRunning
<1> QED
  BY <1>1, <1>2, <1>3, SameRegistry DEF StartupInv

LEMMA StutterKeeps ==
  ASSUME StartupInv, UNCHANGED vars
  PROVE  StartupInv'
<1> USE DEF vars
<1>1. TypeOK' /\ Stages' /\ NothingLeftRunning'
  BY DEF StartupInv, TypeOK, Stages, NothingLeftRunning, Left
<1>2. ASSUME NEW j \in DOMAIN Order, phase \in {"boot", "connecting", "serving"}, j < at
      PROVE  Registered(Order[j])'
  BY <1>2, SameTools DEF StartupInv, Underway
<1>3. Underway'
  BY <1>2, SameHoldings DEF StartupInv, Underway, Started
<1> QED
  BY <1>1, <1>3, SameRegistry DEF StartupInv

----------------------------------------------------------------------------
(* The theorems.                                                           *)

LEMMA InitStartup ==
  ASSUME Init
  PROVE  StartupInv
<1>1. /\ at = 1 /\ step = "start" /\ phase = "boot" /\ closing = << >> /\ llm = "open"
      /\ pages = 0 /\ found = [s \in Server |-> << >>] /\ child = [s \in Server |-> "none"]
  BY DEF Init
<1>2. << >> \in Seq(Declaration) /\ Len(<< >>) = 0
  OBVIOUS
<1>3. TypeOK
  BY <1>1, <1>2, OrderFacts, StartupAssumption DEF Init, TypeOK, Phase
<1>4. Underway
  <2>1. NothingElse
    BY DEF Init, NothingElse
  <2> QED
    BY <1>1, <1>2, <2>1, OrderFacts, StartupAssumption DEF Underway, Started
<1>5. Stages /\ NothingLeftRunning
  BY <1>1 DEF Stages, NothingLeftRunning
<1>6. GatedAsConfigured
  <2>1. \A name \in DOMAIN registry : registry[name].server = "platform"
    BY DEF Init, Local
  <2> QED
    BY <2>1, StartupAssumption DEF GatedAsConfigured
<1> QED
  BY <1>3, <1>4, <1>5, <1>6 DEF StartupInv

LEMMA NextStartup ==
  ASSUME StartupInv, [Next]_vars
  PROVE  StartupInv'
<1>1. CASE Progress
  BY <1>1, OpenStoreKeeps, StartServerKeeps, TimeoutKeeps, RegisterToolsKeeps, ServeKeeps,
     CloseServerKeeps, EndingKeeps DEF Progress
<1> QED
  BY <1>1, HandshakeKeeps, ListToolsKeeps, ShutdownKeeps, CancelKeeps, StutterKeeps DEF Next

\* Whatever the servers send and wherever startup fails or is cancelled, what runs
\* is known, in order, and so is what is left to close (main.py, lifespan;
\* mcp/factory.py, connect_mcp_servers).
THEOREM StartupInvariant == Spec => []StartupInv
<1>1. Init => StartupInv
  BY InitStartup
<1>2. StartupInv /\ [Next]_vars => StartupInv'
  BY NextStartup
<1> QED
  BY <1>1, <1>2, PTL DEF Spec

\* Every variable of the lifespan keeps its type, for any servers, pages and limits.
THEOREM StartupTypes == Spec => []TypeOK
<1>1. StartupInv => TypeOK
  BY DEF StartupInv
<1> QED
  BY <1>1, StartupInvariant, PTL

\* An application that serves has every server it was configured with, every usable
\* tool of each under its own name, no more of them than the limit, the tools it
\* started with as they were, and nothing besides
\* (main.py, lifespan; mcp/tools.py, register_mcp_tools; mcp/client.py, list_tools;
\* mcp/policy.py, local_name).
THEOREM ServesTheConfiguration == Spec => []ServesWhatIsConfigured
<1>1. ASSUME StartupInv, phase = "serving"
      PROVE  /\ store # "unopened" /\ Left = Server
             /\ \A s \in Server : Registered(s)
             /\ NothingElse
  <2>1. at = Len(Order) + 1 /\ step = "start" /\ store # "unopened"
    BY <1>1 DEF StartupInv, Stages, Underway
  <2>2. \A j \in DOMAIN Order : j < at
    BY <2>1, OrderFacts
  <2>3. \A j \in DOMAIN Order : child[Order[j]] = "running" /\ Registered(Order[j])
    BY <1>1, <2>2 DEF StartupInv, Underway, Started
  <2>4. NothingElse
    BY <1>1 DEF StartupInv, Underway
  <2> QED
    BY <2>1, <2>3, <2>4, OrderFacts DEF Left
<1>2. ASSUME StartupInv, phase = "serving", NEW name \in DOMAIN registry \ FirstParty
      PROVE  \E s \in Server : \E k \in DOMAIN found[s] :
               IsRegistrable(s, found[s][k].name) /\ name = LocalName[<<s, found[s][k].name>>]
  <2>1. PICK j \in DOMAIN Order : \E k \in Offered(Order[j]) : name = OfferedAs(Order[j], k)
    BY <1>1, <1>2 DEF NothingElse
  <2> QED
    BY <2>1, OrderFacts DEF Offered, OfferedAs
<1>3. StartupInv => ServesWhatIsConfigured
  <2> SUFFICES ASSUME StartupInv, phase = "serving" PROVE ServesWhatIsConfigured
    BY DEF ServesWhatIsConfigured
  <2>1. store # "unopened" /\ Left = Server /\ NothingElse
    BY <1>1
  <2>2. ASSUME NEW s \in Server, NEW k \in DOMAIN found[s],
               LocalName[<<s, found[s][k].name>>] \in Registrable
        PROVE  LET name == LocalName[<<s, found[s][k].name>>] IN
               /\ name \in DOMAIN registry
               /\ registry[name].server = s /\ registry[name].remote = found[s][k].name
    BY <1>1, <2>2 DEF Registered, Offered, OfferedAs, IsRegistrable
  <2>3. \A s \in Server : Len(found[s]) <= MaxTools
    BY <1>1 DEF Registered
  <2> QED
    BY <1>2, <2>1, <2>2, <2>3 DEF ServesWhatIsConfigured, NothingElse
<1> QED
  BY <1>3, StartupInvariant, PTL

\* The risk of an MCP tool is the deployment's, and its name leads to the server it
\* was found on, also after a registration that failed half-way
\* (mcp/policy.py, risk_for; mcp/tools.py, register_mcp_tools).
THEOREM RiskIsTheDeployments == Spec => []GatedAsConfigured
<1>1. StartupInv => GatedAsConfigured
  BY DEF StartupInv
<1> QED
  BY <1>1, StartupInvariant, PTL

\* No server process outlives a startup that failed or a shutdown, and the pool does
\* not outlive the shutdown, unless the lifespan was cancelled or closing the model
\* backend raised (mcp/factory.py, MCPConnections.aclose; main.py, lifespan).
THEOREM NothingIsLeftRunning == Spec => []NothingLeftRunning
<1>1. StartupInv => NothingLeftRunning
  BY DEF StartupInv
<1> QED
  BY <1>1, StartupInvariant, PTL
=============================================================================
