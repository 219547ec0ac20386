# Specifications of the enterprise agent platform

TLA+ modules, model-checking configurations and machine-checked proofs for the
platform under `src/`: a service that runs LLM agents on tasks, holds risky
tool calls back until a human has approved them, and records every step on a
versioned task. Paths below are relative to
`src/src/enterprise_agent_platform/` unless they start with `src/`.

    tlasany M.tla                      parse a module
    tlc -config X.cfg M                run a check ("Runs" names M and X)
    tlapm M.tla                        check the proofs of M, a *Proofs module

## 1. The system

| part | state it keeps | operations | talks to |
|---|---|---|---|
| Task lifecycle `tasks/models.py` | an immutable task: status, version, history, checkpoint | `create`, `transition_to` | everything that moves a task |
| Task transitions `tasks/service.py` | none | `transition_task`: read, derive, write if the version still matches | store |
| Task store `tasks/repository.py`, `tasks/postgres.py` | the tasks; for PostgreSQL a connection pool | `add`, `get`, `update`, `list_tasks`, `connect`, `aclose` | PostgreSQL |
| Task routes `tasks/router.py` | none; one coroutine per request | create, list, get, run, view approval, approve, reject, cancel | runner, store, policy |
| Agent runner `agent/runner.py` | per run: step and tool-call counters, the conversation | `run`, `resume`, `reject`, the loop `_drive` | store, LLM client, tool registry |
| Auth `auth/` | the configured clients; the principal of a request | authenticate, `requires(scope)`, `may_approve` | routes |
| Tool registry `tools/` | name -> tool | `register`, `execute`, `execute_all` | tools, MCP client |
| LLM client `llm/` | none | `complete`, `complete_structured` under a deadline | provider |
| MCP transport `mcp/transport.py` | child process, pending requests, reader task, closed flag | `start`, `request`, `notify`, `aclose`, the reader | an MCP server process |
| MCP client, tools, startup `mcp/client.py`, `mcp/tools.py`, `mcp/policy.py`, `mcp/factory.py` | server info; the registered tools | handshake, discovery, registration, `call_tool` | transport, registry |
| Lifespan `main.py` | what the application has opened | startup, shutdown | all of the above |
| Request context `request_context.py` | a context variable | bind, unbind | runner, logging |
| Demo tools `demo/` | an in-memory ledger | pay, email, look up | registry |
| Configuration, logging | settings | | |

**How they interact.** A request authenticates, is checked for a scope and runs
as one coroutine. `POST /run` moves the task to `running` with
`transition_task` and then *drives* it: a model call, the tool calls it asked
for, the next model call, up to `max_steps`. If a turn contains a call whose
risk exceeds the threshold, the whole turn is put into a checkpoint, the task
becomes `awaiting_approval` and the request returns. `POST /approve` reads the
task for the separation-of-duties check, reads it again for the checkpoint,
moves it to `running` insisting on the version of that second read, runs the
held calls and drives on. `POST /reject` and `POST /cancel` move the task to
`cancelled`; a driver finds out before its next model call, or when it tries to
store its outcome. All of this meets only in the store, where an update takes
effect if and only if the version has not moved.

**What is hard about it.** Every `await` is a point where another request, or
another API process, may change the task: reads are stale when used. A process
may stop with runs in flight; an `UPDATE` may time out and have been applied.
Humans decide on what they saw earlier. Counters live in a coroutine, pass
through a stored checkpoint, and continue in another coroutine. Below the
tools, one reader multiplexes replies over a pipe to a process that may answer
late, twice, or never, or die. `PROJECT.json` lists each hazard at its line.

## 2. Modules

| module | what it is |
|---|---|
| `TaskLifecycle` | the domain model as operators: status graph, new task, transition, checkpoint rule. No variables. |
| `AgentPlatform` | the core: requests racing on the store, and the runs they drive, with faults |
| `ApprovalProtocol` | the abstract specification of what that core promises: no requests, versions or store |
| `PlatformRefinement` | the refinement mapping from `AgentPlatform` to `ApprovalProtocol` |
| `ApprovalConsole` | `AgentPlatform` with approvers who look at `GET /approval` before they post |
| `MCPTransport` | the channel to one MCP server: calls, deadlines, reader, shutdown, and the server as an environment |
| `MCPStartup` | the lifespan of the application: what startup opens, MCP discovery and registration, what failure and shutdown close |
| `DemoLedger` | the demo's ledger and tools as operators. No variables. |
| `ToolRegistry` | the calls of a turn: every outcome of `execute`, the deadline, a remote server that acts late |
| `ToolTurns` | runs over `ToolRegistry`: what the model sees, asks for and claims, and where the money goes |
| `TaskStore` | the abstract specification of what a task store promises to those who write |
| `PostgresStore` | the pool, the statements and what `PostgresTaskRepository` makes of their answers |
| `ApiRequests` | credentials, routes and status codes over `PostgresStore`; refines `TaskStore` |
| `TaskLifecycleProofs` | lemmas on `TaskLifecycle`: the types of tasks and what a transition keeps |
| `AgentPlatformProofs` | theorems about `AgentPlatform`: who writes and who drives |
| `AgentRunProofs` | theorems about `AgentPlatform`: what a run executes, spends and stores |
| `RefinementProofs` | `AgentPlatform` implements `ApprovalProtocol` |
| `MCPTransportProofs`, `MCPStartupProofs`, `ToolTurnsProofs`, `ApiRequestsProofs` | theorems about these modules; the last one that the store keeps its contract |
| `MCAgentPlatform`, `MCApprovalConsole`, `MCToolTurns`, `MCStartup`, `MCApiRequests` | the instances TLC checks; `MCPTransport` needs none |

How they compose. `AgentPlatform` uses the store through its contract: a
versioned write that takes effect or does not. `ApiRequests` shows that the
Postgres store keeps that contract, with the pool, the statements and the
network between. `AgentPlatform` executes a turn in one step and lets the model
ask for anything; `ToolTurns` opens both, and leaves the store out.
`MCPStartup` makes the registry that `ToolRegistry` calls, over channels that
`MCPTransport` describes.

### AgentPlatform

A *handler* is one request in flight; `Home` says which API process serves it.
A step is the code between two awaits that matter.

| variable | in the code |
|---|---|
| `store` | the rows of the task repository |
| `pc`, `on` | where a request's coroutine stands, and on which task |
| `tx` | the arguments of the `transition_task` call it makes |
| `cur` | `current` in `transition_task`: the task as it was read |
| `state` | `_RunState` of the run it drives |
| `turn` | the tool calls it is about to execute |
| `runs, spent, asked, ran, released, late` | history variables, for the properties only |

| label | the coroutine is about to | actions |
|---|---|---|
| `policy` | read the task for `may_approve` | `CheckPolicy` |
| `require` | read it in `_require_paused` | `RequirePaused`, `NotPaused` |
| `load`, `write` | read, and update, in `transition_task` | `LoadTask`, `StoreTask`, `StaleWrite` |
| `loop` | start another iteration of `_drive` | `BudgetExhausted`, `Abandon`, `AskModel` |
| `model` | get the model's answer | `ModelConcludes`, `ModelAsksForTools`, `ModelDefect` |
| `tools` | execute a turn | `ExecuteTurn` |
| `discard` | read the task for the answer | `Discard` |

The arrivals are `CreateTask`, `RunTask`, `ApproveTask`, `RejectTask` and
`CancelTask`; the faults, each enabled by the constant `Faults`, are `Crash` of
an API process, `ReadFails` and `WriteFails` of the store (a failed write may
have been applied), and `ModelDefect`, an exception outside `LLMError`.

Abstractions. The conversation is its last turn, a set of calls. Reason texts
are their kind, with the subject they name. Creating a task is one step, as
nobody else knows its id. The read of `_still_running` and the beginning of the
model call that follows it are one step; the call itself, which is where the
time passes, ends in another, and a reply that finds its task no longer running
is counted in `late`. All the tool calls of a turn are one step here. The
in-memory store, which never yields, allows a subset of the interleavings.

### ApprovalProtocol and the mapping

The abstract machine knows, for each task, its visible status, the requester
and at most one agent, which is deciding, thinking, acting or reporting, and
the turn being held, proposed or made. `Approve` is one step of an entitled
person on a waiting task. The mapping reads the agent off the coroutine that
drives the task and the held turn off that coroutine's locals or, after a
pause, off the checkpoint in the store. That a task has *at most one* agent,
that a decision is *one* step and that nothing held is lost or replaced are
then consequences of the version check, and the refinement says so.

### MCPTransport

A *call* is one use of the channel, a request or (in `Notices`) a notification;
`pc` says where its coroutine stands.

| label | the coroutine waits for | actions |
|---|---|---|
| `idle` | (not made yet) | `Request`, `Notify` |
| `queued` | `_write_lock` | `Write` |
| `draining` | `stdin.drain()`, holding the lock | `Drained`, `DrainFails` |
| `waiting` | its future | `Take` |
| any of the last three | its caller's deadline | `TimesOut` |
| `abandoned` | being run once more, cancelled | `Abandon` |

`pending` is `_pending` with the call each future belongs to, `future` the
futures (a deadline cancels the one its call waits for, and the coroutine retires
the id only when it runs next), `lock` the holder of the write lock, `reader` the reader task
(`ReadLine`, `ReadEnd`; `Breaks` is what ends it in the middle of a line: an
oversize frame, or `InvalidStateError` from a future that is done), `closer` the coroutine in `aclose` (`Close`,
`Terminate`, `Kill`, `FinishClose`). The server is external: it answers any
request it has received at any time, again if it likes, well or malformed,
writes anything else, closes its output, or exits. It answers under the id it
was asked under; a server that makes up ids can of course mislead its clients.

Abstractions. A line is its id, what it answers and which branch of `_dispatch`
it takes. `id` keeps counting as in the code; the number of calls bounds it.
The write lock goes to any waiter, which allows more orders than asyncio's
queue does. That the child has exited and that it was asked to are not told
apart from the pipe's side: a drain may fail at any time.

### MCPStartup

One coroutine, the lifespan of `main.py`. `phase` says how far it has come,
`at` and `step` which server `_connect` is at and what it awaits, `closing`
which servers are still to be closed. `child`, `store` and `llm` are what it
has opened, `registry` what `ToolRegistry` holds, with for each name the server
and the remote name behind it and the risk it was given.

| action | in the code |
|---|---|
| `OpenStore` | `connect` of the repository, `main.py` |
| `StartServer`, `Initialize`, `Initialized`, `ListTools` | `start`, the handshake's request and notification, one page of `list_tools` |
| `StartupTimesOut` | the deadline around handshake and discovery, `mcp/factory.py` |
| `RegisterTools` | `register_mcp_tools`, with what it registered before it failed |
| `Shutdown`, `CloseServer`, `CloseStore`, `StartupFails` | the closing chain, and the handlers of `connect_mcp_servers` |
| `Cancel` | a `CancelledError` at any await |

Each await may fail instead. A server's page of declarations is any member of
`Page`. Names are not spelled out: `LocalName` says which namespaced name
belongs to which tool, and may send two tools to the same one, as the code's
`server__tool` does when names contain the separator. `FirstParty` are the tools
the registry starts with, which `create_app` was given or which the demo brings.

### ToolRegistry and ToolTurns

`work[c]` is the call `c` of a run, turn and position: what was asked, how far
it is, and the outcome and text the model got back. A text is what it says
(an invoice, a listing, a generic failure, an exception's internals), what it is
about and its size; a text beyond `Room` is cut and cannot be read any more.
`UnknownTool`, `InvalidArguments`, `LocalCall`, `RemoteCall`, `Deadline` are the
paths through `execute`; the demo's handlers contain no await, so `LocalCall` is
one step, while a remote call is sent and then waits for `RemoteReply` or
`Deadline`, with `ServerActs`, the effect at the server, at any time. What the
server replies is tied to nothing: it may report a result without having done
anything, or a failure (`isError`) of what it has done or will still do.

`ToolTurns` adds the loop of a run (`stage`, `steps`) and its two models.
`DemoModel` is `demo/provider.py`: its next step is computed from the results in
the conversation, its last message is a summary. `AdapterAnswers` and
`ModelFails` are what can come out of `llm/anthropic_provider.py`: every stop
reason, with calls or without (but `tool_use` has some), and the two classes of
failure. `Conclusion` is `_conclude`: cut short or refused is failed, anything
else an answer. `Approve` and
`Reject` are the approver. `demo/data.py` is `DemoLedger`.

### PostgresStore, TaskStore and ApiRequests

`op[c]` is the store operation request `c` has under way: `queued` for a
connection, `sent`, `executed` (the database has done it and the answer is on
its way), `asking` (the second read of a refused update), `returned`. An
operation holds a connection in the middle three. `StatementFails` is
`command_timeout` or a lost connection, before or after the statement took
effect. After a lost connection the write may stay in the database, waiting for
a row lock: it is in `orphans` and ends later, applied or not (`OrphanEnds`).
`rows` are the table's rows, each with whether `_to_task` accepts it.

`ApiRequests` adds what each request is for, as whom, and its status code:
`Arrive` (authentication, scope, first operation), `TransitionTask` (the
versioned write of `transition_task`) and `Answer`.

`TaskStore` knows none of this: callers, what each asked to be written over
which version, what it was told (`ok`, `refused`, `unknown`), and who has
`landed`. A write lands at most once and only on its version; `ok` is told only
of one that landed, `refused` only of one that has not, whose version is gone,
and which never will; of `unknown` nothing is promised. `Contract` in
`ApiRequests` is the mapping: a row is its task, an operation that failed is
`unknown`.

External and assumed: asyncpg's pool serves its queue in order; a statement ends
by `command_timeout` on the client's side, and a timed-out statement that the
server has cancelled does not land. What the database does with a statement
whose connection is gone is left open.

## 3. Runs

Every instance of the core has subjects `ann` (writer and approver) and `bob`
(approver).

| run | configuration | instance | question |
|---|---|---|---|
| races | `MCRaces.cfg` | 1 task, 3 requests, 2 steps, 2 runs | who drives, what is executed, what is overwritten or lost under every race of three requests; the refinement |
| long_run | `MCLongRun.cfg` | 1 task, 2 requests, 3 steps, 1 run, an unregistered tool, a threshold above READ, no second-person rule | the counters across pause, approval, action and another pause; liveness |
| failures | `MCFailures.cfg` | 1 task, 3 requests on 2 API processes, 2 steps, all faults | no turn twice, and the refinement, under crashes, store failures and provider defects |
| transport | `MCTransport.cfg` | 2 requests, 1 notification, a pipe of 1 line | the transport under every order of replies, deadlines, shutdown and server misbehaviour; its liveness |
| tool_turns | `MCToolTurns.cfg` | 2 runs, 2 invoices, 2 turns of up to 2 calls, no room for a note | what tools report, what the model makes of it, and the money |
| startup | `MCStartup.cfg` | 2 servers whose namespaced names can agree, at most 2 tools and 2 pages | what a startup that fails, hangs or is cancelled leaves; names, risks and bounds of discovery |
| api_store | `MCApiRequests.cfg` | 3 requests, pool of 2, 1 task on record, readable or not | status codes against what really happened; the store's contract; its liveness |
| find_dead_channel | `FindDeadChannel.cfg` | 1 request | finding 5 |
| find_* (others) | `Find*.cfg` | 1 task, 2 requests | findings 1 to 4: TLC finds each violation |

Bounds. Three requests are the fewest with which one can drive a run while two
others race on the same version. Two steps are the fewest with a pause after an
executed turn; three let a run pause twice with an executed turn between the
pauses. Two runs per task (`MaxRuns`, a bound of the models, enforced in
`MayRunAgain`) are needed where requests race, because a waiting task can be
started again; the counters that `long_run` is about belong to one run.
One task suffices: no guard and no step relates two tasks, except that a request
is on one of them. Under faults one run per task keeps the instance small.
Handlers of one process are interchangeable, which gives the symmetry; liveness
is checked without it. The refinement under faults also rules out that a gated
turn runs unreleased or after a denial, so `failures` does not repeat those.

For the transport, two requests are the fewest between which a reply can go to
the wrong one, and the notification adds a user of the lock without an id.
`Backlog`, the length of the server's output pipe, is a bound of the model: with
one line the reader's lag behind the server, and a duplicate after the first
reply was read, occur. Two lines were checked too and add nothing but states.

In `tool_turns` two runs meet in the ledger, over two invoices, so that paying
the wrong one is possible; two turns let one be computed from the results of the
other, two calls per turn let one fail next to another. `Room` is 0 notes: an
invoice with a note is already cut. The model behind the adapter chooses its
turns from `Turn`: a payment, a wrong payment with a remote call, and a
malformed call with one of an unregistered tool. `startup` has two servers with
names that collide (`a__b__find` is tool `b__find` of `a` and tool `find` of
`a__b`) and a registry that starts with a tool `find`, as they call theirs, and
with one that has the namespaced name of one of theirs already; and
its bounds of two tools and two pages are exceeded by pages of up to two tools.
`api_store` has a writer, a reader and a caller without credentials; two
connections for three requests make one of them wait; what each request may ask
for is chosen so that two transitions, a creation, a read of what is created, a
listing, and calls that lack a scope or a credential all meet.

The runs of these modules do not check deadlock: a closed transport, a stopped
application, runs that have ended and requests that are answered are the end.

Fairness. In `MCPTransport` it is asked of each call, which is resumed when its
future is set and cancelled at its deadline (`client.py`, and `factory.py` for
the handshake), and of `aclose`, whose waits have grace periods; nothing is
asked of the server. In `AgentPlatform`, `FairSpec` asks weak fairness of `Work(h)`: the event loop resumes
every coroutine whose await is over, and every await ends, since model calls
(`llm/client.py`, `asyncio.timeout`), tool calls (`tools/registry.py`) and
statements (`command_timeout`) carry deadlines. Nothing is asked of clients, of
approvers or of faults: a paused task may wait for ever. In `ToolTurns` it is asked
of a run's own steps, the deadlines among them, not of approvers and not of the
MCP server. In `MCPStartup` it is asked of what this process does alone
(`Progress`), with the startup deadline and the bounded close of a process; a
server owes no answer. In `ApiRequests` it is asked of the pool, of
`command_timeout` and of each coroutine; the database owes no answer.

What the properties say is in the comment above each; those worth arguing about:

- `OneDriver`, `TurnRunsOnce`, `ExecutesTheTurnAsked`: whichever requests race,
  one agent works on a task, and what it executes is the turn its model asked
  for last, once. Without `expected_version` in `resume` these fail.
- `GatedTurnsAreReleased`, `DeniedTurnNeverRuns`: a gated turn runs only after
  an entitled person's approval, and never after a denial.
- `BudgetHolds`, `PauseIsDecidable`: the budget and the counters survive being
  stored and resumed. `BudgetHolds` is about one run; see finding 1.
- `OneReplyOutlivesCancel`, `OutcomeLostOnlyToCancel`: a cancellation costs at
  most one model call, and nothing else makes a run drop its outcome.
- `OnlyItsOwnReply`, `StrayRepliesAreHarmless`: ids are never used twice and
  retired with their callers, so late and duplicate replies reach nobody. In the
  time between a deadline and the end of its call the id is still registered; a
  reply read then must not be set, or the reader would end and fail everyone.
- `EndIsAnnounced`, `ClosedMeansSettled`, `CallsEnd`, `CloseEnds`: nobody waits
  for a reply that cannot come, and neither a mute server nor one that ignores
  the request to exit holds anything up for longer than a deadline.
- `AnswersAreTrue`, `KeepsContract`: a status code says what happened to the
  write, now and later. They rest on `update` explaining an empty result by a
  second read over the same connection, and on a timeout becoming a 500 and
  not a 409: a write that was given up may land afterwards. However late it
  does, it lands on its own version or not at all.
- `RecordNamesItsAuthors`, `UnreadableIsLeftAlone`: what is on record names the
  credential that asked for it, and a row the domain model rejects is never
  acted on.
- `ResultsAreTrue`: success of a tool of this program means the effect took
  place, a refusal by it or by the registry that it never will, here or at a
  server. What a server says of its own tools is passed on as it is, and may be
  wrong; a deadline and a defect promise nothing, and what a defect was about
  stays in the process.
- `PaidAsApproved`, `SummaryIsTrue`: money moves only for a released call (where
  payments need a release), that invoice and that amount, and of two runs that pay the same invoice exactly one
  claims to have done so. `PaysWhatLookupReported`: a result that was cut, or a
  lookup that failed, leads to no payment at all.
- `HalfWrittenNeverRuns`: the calls of a turn that was cut short, or stopped for
  anything else than to use tools, are neither executed nor shown to an approver.
- `ServesWhatIsConfigured`, `GatedAsConfigured`: registration stops half way and
  takes nothing back, so the application must not serve after that; no server
  shadows a tool that was there; a tool's risk
  comes from the deployment under the server's own name for it, while the model
  calls it by another.
- `NothingLeftRunning`, `LifespanSettles`: a failed startup or a shutdown leaves
  no server process, one that cannot be closed does not keep the others from it,
  and no server can hold startup up.

## 4. Findings

1. **A waiting task can be started again** (`find_rerun`). `run()` relies on the
   status graph, and the graph's edge from `awaiting_approval` to `running`,
   there for approvals, also admits `POST /run`. The held turn and its
   checkpoint are dropped and the agent starts over with a full budget; so the
   model calls of a *task* are not bounded by `max_steps`, only those of a run.
   The documentation promises 409 (`src/docs/API.md:64`, `src/README.md:172`).
2. **An error outside `LLMError` strands the task** (`find_model_defect`): it
   escapes `_drive` after the task was moved to `running`.
3. **A restart can lose the checkpoint** (`find_lost_checkpoint`): approving
   clears it, so an approved run that is lost leaves nothing to resume.
   `src/README.md:219-221` says task and checkpoint survive.
4. **An approval may take effect on a pause its approver never saw**
   (`find_unseen_pause`): the version that is re-checked is the one the POST
   handler reads, not the one shown by `GET /approval`, as
   `src/docs/ARCHITECTURE.md:289-292` has it.
5. **A channel whose reader has failed still accepts requests**
   (`find_dead_channel`). Only the requests pending when the output ends, or an
   oversize frame arrives, are failed; later ones wait for their whole
   deadline, where `mcp/transport.py:50-52` promises an error.

## 5. Proofs

Every invariant and every action property of the passing runs, and both
refinements, are theorems: they hold for every number of tasks, requests,
processes, servers, tools, invoices and steps, and under every combination of
faults. The runs check the same properties on small instances, and each
inductive invariant was checked by TLC on those instances before it was proved.

### The core: `AgentPlatformProofs` and `AgentRunProofs`

| theorem | says |
|---|---|
| `TypeCorrect` | `Spec => []TypeOK` |
| `AtMostOneDriver` | `Spec => []OneDriver` |
| `VersionsIdentifyTasks` | `Spec => []VersionIdentifiesTask` |
| `HistoryIsAuditTrail` | `Spec => AuditTrail` |
| `StepBudgetHolds` | `Spec => []BudgetHolds` |
| `NoTurnRunsTwice` | `Spec => []TurnRunsOnce` |
| `AskedTurnIsExecuted` | `Spec => []ExecutesTheTurnAsked` |
| `GatedTurnsWait` | `Spec => []GatedTurnsAreReleased` |
| `DenialIsFinal` | `Spec => []DeniedTurnNeverRuns` |
| `PausesCanBeDecided` | `Spec => []PauseIsDecidable` |
| `CancellationIsNoticed` | `Spec => []OneReplyOutlivesCancel` |
| `OutcomesAreKept` | `Spec => []OutcomeLostOnlyToCancel` |

Assumptions: those named in `TaskLifecycle` and `AgentPlatform` (None is no
subject, checkpoint, task or risk; scopes are held by subjects; the runner's
parameters; the calls form a finite set, for their number to be a number).

`TypeOK` is not inductive: that a handler's arguments stay typed needs to know
that a handler at work is on a task, that the task exists from the moment it was
read, and that a driver has spent a step before it pauses. `TypeInv` adds this as
`WellFormed`. `OneDriver` needs more: two requests may both be about to start a
run. What saves it is that only one of their writes can succeed, so `CoreInv`
adds

- `Snapshot`: what a handler is about to overwrite is never newer than the row,
  and *is* the row if the versions agree; and it allows the transition;
- `Instructed`: the target of a transition follows from its reason;
- `Active`: a task with a driver is running or cancelled.

A transition to `running` leaves from `pending` or `awaiting_approval`, hence,
by `Active`, from a task without a driver; a transition of a driver leaves from
`running` and takes that driver away. `LocalStep` says once and for all that a
step of one handler that leaves the store alone keeps `CoreInv`, `CommitStep`
and `CommitCoreInv` what a committed transition does; every action is one of
the two.

What a run may execute is said by `RunInv`, over `CoreInv`. Of each request:

- `Approving`: from its second read on, an approval is bound to one version of
  the task and carries the counters and the turn of *that* version's checkpoint,
  so that if its write succeeds they are still the task's;
- `OnCourse`: a driver's counters agree with what the run has spent and executed,
  the turn it is about to execute is the one asked for last, unexecuted and
  cleared, and a version that has moved under it means a cancellation;
- `Unburdened`, `Arguments`, `Overtaken`: who has nothing of a run, who hands
  over a checkpoint, who discards.

And of each task: `TurnsInOrder` (turns are executed at most once, none beyond the
last one asked for, each only when cleared), `WaitsWithCheckpoint` (a waiting task
holds its last turn, open, and no other task holds one), `NoMoreReplies` (after
the one late reply the driver will not ask again), `StaysDenied` (a turn that was
denied is unexecuted and has no driver). `CommitRun` and `CommitOthers` say what a
committed transition does to its own task and to everybody else's knowledge,
`DriverStep` what a step of a driver does, `QuietStep` that the rest does nothing.

The tool calls of a run are a sum over its turns (`CallsIn`), written as a
recursive function. That the function exists, and that executing a turn adds its
calls while asking for one adds none (`TurnAddsCalls`, `AskingAddsNoCalls`), is
proved by looking at the least turn at which two such sums differ
(`LeastNumber`), which needs no induction rule.

### The refinement: `RefinementProofs`

`PlatformImplementsProtocol` is `Spec => ImplementsProtocol`: under the mapping of
`PlatformRefinement`, every step of the platform is a step of `ApprovalProtocol`
or none. The visible part of a task's mapping depends on its driver, if it has
one, and on its row otherwise (`DrivenMapping`, `UndrivenMapping`, with `OneDriver`
saying which driver); `MappingFrame` says that a step of one task leaves the
others' images alone. Then there is one lemma for each step of the protocol:
which actions of the platform map to it, and to nothing else. `RunInv` supplies
that an approval's turn is the one held, and that a lost outcome is a
cancellation's.

### The transport: `MCPTransportProofs`

| theorem | says |
|---|---|
| `TransportTypeCorrect` | `Spec => []TypeOK` |
| `RepliesAreMatched` | `Spec => []OnlyItsOwnReply` |
| `PendingIsExact` | `Spec => []PendingIsInFlight` |
| `CloseSettles` | `Spec => []ClosedMeansSettled` |
| `StrayRepliesDoNoHarm` | `Spec => StrayRepliesAreHarmless` |
| `EndReachesEveryone` | `Spec => EndIsAnnounced` |

`TransportInv` carries a reply's ownership along its way: ids are given once
(`OwnIds`), what the server has read carries its caller's id (`TaggedSent`), so
does what it answers (`TaggedStdout`), the table pairs each caller with its own
id (`PendingIsInFlight`), and so a future is set to the reply of its call
(`OwnFuture`). `CloseSettles` needs in addition that a transport that is
closing refuses new calls (`Opened`). `StrayRepliesDoNoHarm`
rests on `TaggedStdout`, `OwnIds` and the table: a reply has at most one addressee, the call
it answers, which is in flight, and `_dispatch` passes over it once its future is
done. `EndKeepsInv`, `MoveKeepsInv` and
`OutsideStep` cover most actions. It assumes that None is neither a call nor an
outcome.

### The store and the routes: `ApiRequestsProofs`

| theorem | says |
|---|---|
| `ApiTypes` | `Spec => []TypeOK` |
| `ClientsAreToldTheTruth` | `Spec => []AnswersAreTrue` |
| `EveryEntryHasAnAuthor` | `Spec => []RecordNamesItsAuthors` |
| `UnreadableRowsStay` | `Spec => UnreadableIsLeftAlone` |
| `StoreImplementsContract` | `Spec => KeepsContract` |

`ApiInv` says of each request how it began (`Entered`), where its operation stands
between its statement and its answer (`Settled`: a write that has not landed is
queued, sent, orphaned or void for good), what its result has told it
(`Informed`) and what it answered (`Answered`); and of each row that every entry
on it, and the task itself, was written by a request with that credential
(`Recorded`, `Signed`). The step that makes it true is that a version never comes
back: once a write's version is gone, the write can only be refused. The
refinement of `TaskStore` maps an operation at a time (`OperationMaps`), a
statement that takes effect to `Land` (`LandMaps`) and the rest to telling a
caller or to nothing. Assumptions: those of the core's `TaskLifecycle`;
`StoreAssumption`, `NoneIsNoRow` and `ApiAssumption`, which say that None is no
row, operation, result, task id, route or status code, that the pool has a
connection, and what a request may ask for.

### Startup and shutdown: `MCPStartupProofs`

| theorem | says |
|---|---|
| `StartupTypes` | `Spec => []TypeOK` |
| `ServesTheConfiguration` | `Spec => []ServesWhatIsConfigured` |
| `RiskIsTheDeployments` | `Spec => []GatedAsConfigured` |
| `NothingIsLeftRunning` | `Spec => []NothingLeftRunning` |

`StartupInv` says how far the lifespan has come: `Underway` describes the server
being connected and the pages read so far, `Stages`, for each phase, which servers
are connected, registered in full, running, and still to be closed, `NothingElse`
that the registry holds the tools it started with and else only those of connected
servers: once startup has
failed or shutdown has begun, whatever is `Left` running is on the list. `StartupAssumption` says that the order lists the configured
servers once each, that risks are given for remote names, that at least one page
may be read, and what a page is.

### Tools, models and money: `ToolTurnsProofs`

| theorem | says |
|---|---|
| `TurnTypes` | `Spec => []TypeOK` |
| `MoneyMovesAsApproved` | `Spec => []PaidAsApproved` |
| `ResultsTellTheTruth` | `Spec => []ResultsAreTrue` |
| `HalfWrittenCallsStay` | `Spec => []HalfWrittenNeverRuns` |
| `PaymentsAreLookedUp` | `Spec => []PaysWhatLookupReported` |
| `SummaryTellsTheTruth` | `Spec => []SummaryIsTrue` |

`TurnInv` says where a call can be (`InTurn`, `Placed`: in a turn that ended in
`tool_use`, at work only in the latest one, released if it needed to be and is no
longer held), how its result relates to the world (`Told`: what a local tool did, it reports; what was refused has had no effect and
is not at the server, which only remote calls ever are), that a payment
on record is the effect of a call that was answered so (`Accounted`), and that a
summary lists the run's calls, each with its result (`Concluded`). `SummaryIsTrue`
then follows from both directions: a payment of this run has a call that succeeded
and is listed, and a listed success is the one payment the ledger accepted.
`Worst`, the largest overdue invoice, exists by the same least-element argument as
above. Assumptions: `LedgerAssumption` (the amounts and dates of a finite set of
invoices), `RegistryAssumption`, `NoneIsNoCall` and `RunAssumption`: the model's
bounds on turns and calls leave room for the two turns of one call that the demo
takes.

### Only model-checked

The liveness properties `RunSettles`, `RunsSettle`, `CallsEnd`, `CloseEnds`,
`LifespanSettles` and `RequestsAnswered`: temporal reasoning with ENABLED is out of
the prover's reach. The findings are counterexamples, which TLC produces.

## 6. Not modelled

- Configuration and logging: declarative validation of settings, formatting.
- The request context: the request id bound to a coroutine's own context meets
  no other request's; only the 500 of its middleware is modelled.
- Credentials: a credential is its principal. Digests, lengths and the
  comparison of tokens are left out.
- The LLM client: structured output, which no route uses, token usage, and the
  encoding of requests and of content blocks, which have no state.
- `FakeLLMProvider`, the walkthrough and the demo's constants: test doubles and
  examples of use.
- SQL: the schema, its checks, the order and the limit of a listing.
- A second startup of the same application object.
- Durations and wording, except for what a text tells the model.
- In `AgentPlatform`, a write that lands after its request has failed is the write
  of a handler that stays at `write` until then, as no property there looks at
  when a client is answered; `ApiRequests` has the two apart.

Seen while modelling, and not findings because no document says otherwise: the
pool and the model backend stay open when startup fails; a startup that is
cancelled leaves the servers it had connected, and a model backend whose close
raises leaves them and the pool; one row that does not validate fails every
listing it is in; a remote call that was cut off by its deadline may have had its
effect, nothing records that it was made, and the model may make it again.

## 7. Plan

1. Theorems about `ApprovalProtocol` itself (that nobody but an entitled person
   releases a gated turn, and that a denied one stays denied), so that they reach
   the platform through the refinement as well; the same for `TaskStore`: a write
   lands at most once, and an `ok` is never taken back.
2. The steps towards the liveness properties that are safety: that a run which has
   not settled has made progress measured by its steps and its label.
3. For `ApprovalConsole`: that an approval releases the turn its approver saw
   whenever nobody else moved the task in between, which is what remains of
   finding 4.
