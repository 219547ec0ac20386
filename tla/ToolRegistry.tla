---------------------------- MODULE ToolRegistry ----------------------------
(***************************************************************************)
(* Running the tool calls of a turn (tools/registry.py), over the demo     *)
(* tools and one tool that an MCP server publishes (mcp/tools.py).         *)
(*                                                                         *)
(* The calls of a turn run concurrently.  A call of a local tool is one    *)
(* step; a remote one is sent, and then the server's effect, its answer,   *)
(* the client's deadline and the registry's race.  Whatever happens, the   *)
(* model gets a result.  What a server answers is its own affair: nothing  *)
(* ties it to what the server does.                                        *)
(***************************************************************************)
EXTENDS DemoLedger, Sequences

CONSTANTS Run,         \* the runs that call tools
          MaxTurns,    \* bound on the turns of a run
          Width,       \* bound on the calls of a turn
          Room,        \* max_result_chars, in notes
          RemoteRisk   \* the risk configured for the remote tool

ASSUME RegistryAssumption ==
  /\ MaxTurns \in Nat /\ Width \in Nat /\ Room \in Nat
  /\ RemoteRisk \in 0..2

VARIABLES
  work,        \* each call: what the model asked for and what it got back
  ledger,      \* the demo ledger
  server,      \* calls the MCP server has received and not acted on
  performed    \* calls that have had an effect, here or there

registryVars == <<work, ledger, server, performed>>

CallId == Run \X (1..MaxTurns) \X (1..Width)

RunOf(c)  == c[1]
TurnOf(c) == c[2]

\* Arguments either pass the tool's validation or are malformed.
Args == [invoice : Invoice \cup {Nobody}, amount : Nat] \cup {None}
Ask  == [tool : Tool \cup {"remote", "unknown"}, args : Args]

\* How a call ends, and what the ledger keeps of a payment.
Ending  == {"ok", "tool_error", "timeout", "error", "unknown_tool", "invalid_arguments"}
Payment == [by : CallId, amount : Nat]

\* None stands for none of these.
ASSUME NoneIsNoCall ==
  None \notin Ask /\ None \notin Ending /\ None \notin Payment

Registered == Tool \cup {"remote"}

RiskOf(tool) == IF tool = "remote" THEN RemoteRisk ELSE Risk[tool]

Unused == [ask |-> None, state |-> "none", outcome |-> None, content |-> None]

InitRegistry ==
  /\ work      = [c \in CallId |-> Unused]
  /\ ledger    = NewLedger
  /\ server    = {}
  /\ performed = {}

----------------------------------------------------------------------------
(* The end of a call.                                                      *)

\* _truncate: a text that is cut is no JSON any more.
Truncate(text) == IF text.size <= Room THEN text ELSE Text("cut", None, None, Room)

\* What the model is told: a value and the text of a ToolExecutionError as they
\* are, an expired deadline, and of anything else only that it failed.
Outcome(raised) ==
  CASE raised = "nothing"            -> "ok"
    [] raised = "ToolExecutionError" -> "tool_error"
    [] raised = "TimeoutError"       -> "timeout"
    [] OTHER                         -> "error"

Result(raised, text) ==
  CASE raised \in {"nothing", "ToolExecutionError"} -> Truncate(text)
    [] raised = "TimeoutError"                      -> Note("deadline")
    [] OTHER                                        -> Note("generic")

Answer(c, outcome, content) ==
  work' = [work EXCEPT ![c] = [ask |-> @.ask, state |-> "answered",
                               outcome |-> outcome, content |-> content]]

IsError(c) == work[c].outcome # "ok"

----------------------------------------------------------------------------
(* ToolRegistry.execute.                                                   *)

UnknownTool(c) ==
  /\ work[c].state = "called"
  /\ work[c].ask.tool \notin Registered
  /\ Answer(c, "unknown_tool", Note("tools"))
  /\ UNCHANGED <<ledger, server, performed>>

InvalidArguments(c) ==
  /\ work[c].state = "called"
  /\ work[c].ask.tool \in Registered
  /\ work[c].ask.args = None
  /\ Answer(c, "invalid_arguments", Note("arguments"))
  /\ UNCHANGED <<ledger, server, performed>>

LocalCall(c) ==
  /\ work[c].state = "called"
  /\ work[c].ask.tool \in Tool
  /\ work[c].ask.args # None
  /\ LET end == Handle(ledger, work[c].ask, c) IN
     /\ Answer(c, Outcome(end.raises), Result(end.raises, end.text))
     /\ ledger' = end.ledger
     /\ performed' = IF end.ledger # ledger THEN performed \cup {c} ELSE performed
  /\ UNCHANGED server

RemoteCall(c) ==
  /\ work[c].state = "called"
  /\ work[c].ask.tool = "remote"
  /\ work[c].ask.args # None
  /\ work' = [work EXCEPT ![c].state = "sent"]
  /\ server' = server \cup {c}
  /\ UNCHANGED <<ledger, performed>>

\* The server does what it was asked to, if it does, however long that takes,
\* whoever is still waiting and whatever it has answered.
ServerActs(c) ==
  /\ c \in server
  /\ server' = server \ {c}
  /\ performed' = performed \cup {c}
  /\ UNCHANGED <<work, ledger>>

\* -- variant: a failing channel is described to the model
Handler_ShowsDefects(reply) ==
  CASE reply = "result"   -> [raises |-> "nothing", text |-> Note("remote")]
    [] reply = "is_error" -> [raises |-> "ToolExecutionError", text |-> Note("remote")]
    [] OTHER              -> [raises |-> "ToolExecutionError", text |-> Note("internal")]

\* The handler build_tool makes: a result, a failure the server reports, or an
\* MCPError, whose text may name hosts and commands.
Handler(reply) ==
  CASE reply = "result"   -> [raises |-> "nothing", text |-> Note("remote")]
    [] reply = "is_error" -> [raises |-> "ToolExecutionError", text |-> Note("remote")]
    [] OTHER              -> [raises |-> "MCPError", text |-> Note("internal")]

\* The server reports a result or a failure, and may be wrong about either; or the
\* channel or the client's deadline fails the call, whatever became of it.
RemoteReply(c) ==
  /\ work[c].state = "sent"
  /\ \E reply \in {"result", "is_error", "MCPError"} :
       Answer(c, Outcome(Handler(reply).raises), Result(Handler(reply).raises, Handler(reply).text))
  /\ UNCHANGED <<ledger, server, performed>>

\* -- variant: no deadline around a handler
Deadline_None(c) == FALSE /\ UNCHANGED registryVars

Deadline(c) ==
  /\ work[c].state = "sent"
  /\ Answer(c, Outcome("TimeoutError"), Result("TimeoutError", None))
  /\ UNCHANGED <<ledger, server, performed>>

Execute(c) == \/ UnknownTool(c) \/ InvalidArguments(c) \/ LocalCall(c) \/ RemoteCall(c)
              \/ Deadline(c)
=============================================================================
