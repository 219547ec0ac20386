----------------------------- MODULE MCPStartup -----------------------------
(***************************************************************************)
(* The life of the application around its requests (main.py, lifespan):    *)
(* the store's pool is opened, the configured MCP servers are started one  *)
(* after the other and their tools registered (mcp/factory.py, client.py,  *)
(* tools.py, policy.py), the application serves, and what was opened is    *)
(* closed.  Every await may fail, and the task may be cancelled there.     *)
(*                                                                         *)
(* What a server says is its own choice.  The calls it gets are those of   *)
(* MCPTransport, each under a deadline.                                    *)
(***************************************************************************)
EXTENDS Naturals, Sequences, FiniteSets, SequencesExt, Functions

CONSTANTS
  Server,        \* the configured MCP servers
  Order,         \* EAP_MCP_SERVERS: the same, in the order of the setting
  RemoteName,    \* names that servers give their tools
  LocalName,     \* server and remote name, to the namespaced name
  Registrable,   \* the namespaced names that every provider accepts
  DefaultRisk,   \* default_risk of each server
  ToolRisk,      \* tool_risk of each server, by remote name
  FirstParty,    \* the tools the registry starts with; none, unless asked for
  MaxTools,      \* MAX_TOOLS_PER_SERVER
  MaxPages,      \* MAX_LIST_PAGES
  Page           \* bound: the pages of tools that servers send

\* What MCPToolDeclaration keeps of a tool, and whether a model can be derived
\* from its schema.  The hints of a server about its own tool are dropped.
Declaration == [name : RemoteName, schema : {"usable", "unusable"}]

ASSUME StartupAssumption ==
  /\ IsFiniteSet(Server)
  /\ Order \in Seq(Server) /\ IsInjective(Order) /\ Range(Order) = Server
  /\ DOMAIN LocalName = Server \X RemoteName
  /\ DefaultRisk \in [Server -> 0..2]
  /\ \A s \in Server : DOMAIN ToolRisk[s] \subseteq RemoteName
  /\ MaxTools \in Nat /\ MaxPages \in Nat \ {0}
  /\ \A page \in Page : page.tools \in Seq(Declaration) /\ page.more \in BOOLEAN
  /\ "platform" \notin Server

VARIABLES
  phase,       \* how far the lifespan has come
  store,       \* the pool of the task store, if the store has one
  llm,         \* the connections of the model backend
  child,       \* the process of each server
  at,          \* which server is being connected
  step,        \* what _connect awaits
  found,       \* the declarations each server has sent
  pages,       \* the pages of them
  registry,    \* the tools, by the name they are registered under
  closing,     \* servers that are still to be closed, in order
  cancelled    \* the lifespan's task has been cancelled

vars == <<phase, store, llm, child, at, step, found, pages, registry, closing, cancelled>>

\* A tool of this repository, which runs on no server.
Local(name) == [server |-> "platform", remote |-> name, risk |-> 0]

Phase == {"boot", "connecting", "failing", "serving", "stopping", "failed", "stopped"}

\* create_app: an in-memory store has no pool; the registry holds the tools it was
\* given, the demo's or the caller's.
Init ==
  /\ phase = "boot"
  /\ store \in {"none", "unopened"}
  /\ llm = "open"
  /\ child = [s \in Server |-> "none"]
  /\ at = 1
  /\ step = "start"
  /\ found = [s \in Server |-> << >>]
  /\ pages = 0
  /\ registry = [name \in FirstParty |-> Local(name)]
  /\ closing = << >>
  /\ cancelled = FALSE

----------------------------------------------------------------------------
(* Risk and names: from the deployment's configuration alone.              *)

\* -- variant: the override is looked up under the namespaced name
RiskFor_ByLocalName(s, remote) ==
  IF LocalName[<<s, remote>>] \in DOMAIN ToolRisk[s] THEN ToolRisk[s][LocalName[<<s, remote>>]]
  ELSE DefaultRisk[s]

RiskFor(s, remote) ==
  IF remote \in DOMAIN ToolRisk[s] THEN ToolRisk[s][remote] ELSE DefaultRisk[s]

IsRegistrable(s, remote) == LocalName[<<s, remote>>] \in Registrable

BuildTool(s, remote) == [server |-> s, remote |-> remote, risk |-> RiskFor(s, remote)]

----------------------------------------------------------------------------
(* Failing and being cancelled.                                            *)

Current == Order[at]

\* MCPConnections: the servers connected so far.
Connected == SubSeq(Order, 1, at - 1)

\* -- variant: only the servers connected before are closed
Fail_LeavesCurrent ==
  /\ phase' = "failing"
  /\ closing' = Connected

\* An exception under _connect closes the server at hand, if it was started, and
\* then the ones before it.
Fail ==
  /\ phase' = "failing"
  /\ closing' = (IF step = "start" THEN << >> ELSE <<Current>>) \o Connected

\* A CancelledError is no Exception: none of the handlers closes anything.
Cancel ==
  /\ ~cancelled
  /\ phase \in {"boot", "connecting", "failing", "stopping"}
  /\ cancelled' = TRUE
  /\ phase' = IF phase = "stopping" THEN "stopped" ELSE "failed"
  /\ UNCHANGED <<store, llm, child, at, step, found, pages, registry, closing>>

----------------------------------------------------------------------------
(* Startup.                                                                *)

OpenStore ==
  /\ phase = "boot"
  /\ \/ /\ phase' = "connecting"
        /\ store' = IF store = "none" THEN "none" ELSE "open"
     \/ /\ store # "none"                    \* unreachable: the pool is not made
        /\ phase' = "failed"
        /\ UNCHANGED store
  /\ UNCHANGED <<llm, child, at, step, found, pages, registry, closing, cancelled>>

Connecting(await) == phase = "connecting" /\ at <= Len(Order) /\ step = await

StartServer ==
  /\ Connecting("start")
  /\ \/ /\ child' = [child EXCEPT ![Current] = "running"]
        /\ step' = "initialize"
        /\ UNCHANGED <<phase, closing>>
     \/ Fail /\ UNCHANGED <<child, step>>
  /\ UNCHANGED <<store, llm, at, found, pages, registry, cancelled>>

\* The reply names a protocol version and capabilities this client can use.
Initialize ==
  /\ Connecting("initialize")
  /\ \/ step' = "notify" /\ UNCHANGED <<phase, closing>>
     \/ Fail /\ UNCHANGED step
  /\ UNCHANGED <<store, llm, child, at, found, pages, registry, cancelled>>

Initialized ==
  /\ Connecting("notify")
  /\ \/ step' = "list" /\ UNCHANGED <<phase, closing>>
     \/ Fail /\ UNCHANGED step
  /\ UNCHANGED <<store, llm, child, at, found, pages, registry, cancelled>>

\* All pages together, and not each.
TooMany(all) == Len(all) > MaxTools

\* -- variant: one page too many
Endless_OffByOne(page) == page.more /\ pages + 1 > MaxPages

\* The last page that may be fetched promises another.
Endless(page) == page.more /\ pages + 1 >= MaxPages

\* list_tools: the loop is driven by the server, which chooses whether there is
\* another page.
ListTools ==
  /\ Connecting("list")
  /\ \/ \E page \in Page :
          LET all == found[Current] \o page.tools IN
          /\ found' = [found EXCEPT ![Current] = all]
          /\ pages' = pages + 1
          /\ IF TooMany(all) \/ Endless(page)
               THEN Fail /\ UNCHANGED step
               ELSE /\ step' = IF page.more THEN "list" ELSE "register"
                    /\ UNCHANGED <<phase, closing>>
     \/ Fail /\ UNCHANGED <<step, found, pages>>
  /\ UNCHANGED <<store, llm, child, at, registry, cancelled>>

\* -- variant: the deadlines of the requests are thought to be enough
UnderDeadline_RequestsOnly == step \in {"initialize", "list"}

\* One deadline over the handshake and the discovery.
UnderDeadline == step \in {"initialize", "notify", "list"}

StartupTimesOut ==
  /\ phase = "connecting" /\ at <= Len(Order) /\ UnderDeadline
  /\ Fail
  /\ UNCHANGED <<store, llm, child, at, step, found, pages, registry, cancelled>>

\* The declarations with a usable name, by position; the others are skipped.
Offered(s) == {k \in DOMAIN found[s] : IsRegistrable(s, found[s][k].name)}

OfferedAs(s, k) == LocalName[<<s, found[s][k].name>>]

\* No argument model can be made of the schema.
Unbuildable(s, k) == found[s][k].schema = "unusable"

\* -- variant: a name that is taken is taken over
Rejected_NeverTaken(s, k) == Unbuildable(s, k)

\* ToolRegistry.register refuses a name that is taken.
Rejected(s, k) ==
  \/ Unbuildable(s, k)
  \/ OfferedAs(s, k) \in DOMAIN registry
  \/ \E j \in Offered(s) : j < k /\ OfferedAs(s, j) = OfferedAs(s, k)

\* register_mcp_tools stops at the first tool that is refused, and takes nothing
\* back.
RegisterTools ==
  /\ Connecting("register")
  /\ LET s    == Current
         kept == {k \in Offered(s) : \A j \in Offered(s) : j <= k => ~Rejected(s, j)}
         New(name) == BuildTool(s, found[s][CHOOSE k \in kept : OfferedAs(s, k) = name].name)
     IN /\ registry' = [name \in DOMAIN registry \cup {OfferedAs(s, k) : k \in kept} |->
                          IF \E k \in kept : OfferedAs(s, k) = name THEN New(name)
                          ELSE registry[name]]
        /\ IF kept = Offered(s)
             THEN at' = at + 1 /\ step' = "start" /\ pages' = 0 /\ UNCHANGED <<phase, closing>>
             ELSE Fail /\ UNCHANGED <<at, step, pages>>
  /\ UNCHANGED <<store, llm, child, found, cancelled>>

Serve ==
  /\ phase = "connecting"
  /\ at > Len(Order)
  /\ phase' = "serving"
  /\ UNCHANGED <<store, llm, child, at, step, found, pages, registry, closing, cancelled>>

----------------------------------------------------------------------------
(* Closing.                                                                *)

\* Shutdown closes the model backend first; what that raises ends the chain.
Shutdown ==
  /\ phase = "serving"
  /\ \/ /\ phase' = "stopping"
        /\ llm' = "closed"
        /\ closing' = Connected
     \/ /\ phase' = "stopped"
        /\ llm' = "close_failed"
        /\ UNCHANGED closing
  /\ UNCHANGED <<store, child, at, step, found, pages, registry, cancelled>>

\* MCPConnections.aclose goes on to the next server whatever happened to this one.
CloseServer ==
  /\ phase \in {"failing", "stopping"}
  /\ closing # << >>
  /\ \E end \in {"closed", "close_failed"} : child' = [child EXCEPT ![Head(closing)] = end]
  /\ closing' = Tail(closing)
  /\ UNCHANGED <<phase, store, llm, at, step, found, pages, registry, cancelled>>

\* The startup error propagates; the pool is left as it is.
StartupFails ==
  /\ phase = "failing"
  /\ closing = << >>
  /\ phase' = "failed"
  /\ UNCHANGED <<store, llm, child, at, step, found, pages, registry, closing, cancelled>>

CloseStore ==
  /\ phase = "stopping"
  /\ closing = << >>
  /\ store' = IF store = "open" THEN "closed" ELSE store
  /\ phase' = "stopped"
  /\ UNCHANGED <<llm, child, at, step, found, pages, registry, closing, cancelled>>

----------------------------------------------------------------------------
\* What needs nobody but this process, and the deadlines.
Progress == \/ OpenStore \/ StartServer \/ StartupTimesOut \/ RegisterTools \/ Serve
            \/ CloseServer \/ StartupFails \/ CloseStore

Next == Progress \/ Initialize \/ Initialized \/ ListTools \/ Shutdown \/ Cancel

Spec == Init /\ [][Next]_vars

\* Connecting to the database, starting a process and closing one end by
\* themselves (MCPTransport, CloseEnds), and so do deadlines.  A server owes
\* nothing, and nobody has to stop the application.
FairSpec == Spec /\ WF_vars(Progress)

----------------------------------------------------------------------------
(* Properties.                                                             *)
Left == {s \in Server : child[s] = "running"}

\* Every variable holds what the code can put there (main.py, mcp/factory.py).
TypeOK ==
  /\ phase \in Phase
  /\ store \in {"none", "unopened", "open", "closed"}
  /\ llm \in {"open", "closed", "close_failed"}
  /\ child \in [Server -> {"none", "running", "closed", "close_failed"}]
  /\ at \in 1..(Len(Order) + 1)
  /\ step \in {"start", "initialize", "notify", "list", "register"}
  /\ found \in [Server -> Seq(Declaration)]
  /\ pages \in 0..MaxPages
  /\ closing \in Seq(Server)
  /\ (phase \in {"failed", "stopped"} /\ ~cancelled) => closing = << >>

\* An application that serves has what it was configured with and no more: its
\* store, every server connected, the tools it started with, which no server has
\* shadowed, and every usable tool a server published, under a name that is its own
\* even where two namespaced names agree, in a number that is not up to the server;
\* and no tool besides
\* (main.py, lifespan; mcp/tools.py, register_mcp_tools; mcp/client.py, list_tools;
\* mcp/policy.py, local_name).
ServesWhatIsConfigured ==
  phase = "serving" =>
    /\ store # "unopened"
    /\ Left = Server
    /\ \A s \in Server :
         /\ Len(found[s]) <= MaxTools
         /\ \A k \in DOMAIN found[s] :
              LET name == LocalName[<<s, found[s][k].name>>] IN
              name \in Registrable =>
                /\ name \in DOMAIN registry
                /\ registry[name].server = s /\ registry[name].remote = found[s][k].name
    /\ \A name \in FirstParty : name \in DOMAIN registry /\ registry[name] = Local(name)
    /\ \A name \in DOMAIN registry \ FirstParty :
         \E s \in Server : \E k \in DOMAIN found[s] :
           IsRegistrable(s, found[s][k].name) /\ name = LocalName[<<s, found[s][k].name>>]

\* The name a model calls a tool by leads to the server it runs on, and to the
\* risk the deployment gave that server's tool: as it is listed, and else the
\* default, whatever the server calls it (mcp/policy.py, risk_for).
GatedAsConfigured ==
  \A name \in DOMAIN registry :
    LET tool == registry[name] IN
    tool.server \in Server =>
      /\ LocalName[<<tool.server, tool.remote>>] = name
      /\ tool.remote \in DOMAIN ToolRisk[tool.server] =>
           tool.risk = ToolRisk[tool.server][tool.remote]
      /\ tool.risk # DefaultRisk[tool.server] => tool.remote \in DOMAIN ToolRisk[tool.server]

\* An application that has gone leaves nothing running: a failed startup no server
\* process, a shutdown neither that nor the pool; unless it was cancelled, closing
\* the model backend raised, or a process could not be closed, which does not
\* keep the others from being closed (mcp/factory.py, connect_mcp_servers and
\* MCPConnections.aclose; main.py, lifespan).
NothingLeftRunning ==
  ~cancelled =>
    /\ phase = "failed" => Left = {}
    /\ phase = "stopped" /\ llm = "closed" => Left = {} /\ store # "open"

\* Startup and shutdown come to an end, even if a server accepts the connection
\* and says nothing (mcp/factory.py, _connect).
LifespanSettles == []<>(phase \in {"serving", "failed", "stopped"})
=============================================================================
