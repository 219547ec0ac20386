---------------------------- MODULE ApiRequests ----------------------------
(***************************************************************************)
(* Requests to the task API over the Postgres store: who may make them     *)
(* (auth/dependencies.py), what they do with the store (tasks/router.py,   *)
(* tasks/service.py) and what the client is told (request_context.py).     *)
(*                                                                         *)
(* The routes here are those that end with the store.  What a run or an    *)
(* approval goes on to do is in AgentPlatform; "start" is the transition   *)
(* POST /run begins with.                                                  *)
(***************************************************************************)
EXTENDS PostgresStore

CONSTANTS
  Known,       \* tasks that are on record at startup
  Scopes,      \* the scopes of each subject's credential
  Ask          \* bound: what each may ask for, of which task and as whom

Route == {"create", "get", "list", "start", "cancel"}

ASSUME ApiAssumption ==
  /\ TaskId = Known \cup Request
  /\ DOMAIN Scopes = Subject
  /\ \A c \in Request : \A ask \in Ask[c] :
       /\ ask \in [route : Route, by : Subject \cup {None}, id : TaskId \cup {None}]
       /\ ask.route \in {"get", "start", "cancel"} => ask.id \in TaskId   \* it is in the path
  /\ None \notin Route /\ None \notin {200, 201, 401, 403, 404, 409, 500}

VARIABLE req       \* the requests

vars == <<storeVars, req>>

\* -- variant: any scope will do
Accepted_Any(route) == {"tasks:read", "tasks:write"}

\* ReaderDep and WriterDep.
Accepted(route) == IF route \in {"get", "list"} THEN {"tasks:read"} ELSE {"tasks:write"}

Permitted(ask) == Scopes[ask.by] \cap Accepted(ask.route) # {}

Writer == {s \in Subject : "tasks:write" \in Scopes[s]}

Target == [start |-> "running", cancel |-> "cancelled"]
Reasons == [start |-> "started", cancel |-> "cancelled"]

\* A cancellation names the caller in the history; a start does not.
Names(route, by) == IF route = "cancel" THEN by ELSE None

Init ==
  /\ InitStore
  /\ rows \in [TaskId -> {None} \cup {[task |-> NewTask(s), readable |-> fine] : s \in Writer, fine \in BOOLEAN}]
  /\ \A id \in TaskId : (id \in Known) = (rows[id] # None)
  /\ req = [c \in Request |-> [route |-> None, by |-> None, id |-> None, status |-> None]]

----------------------------------------------------------------------------

Told(c, status) == req' = [req EXCEPT ![c].status = status]

\* create_task, list_tasks; get_task and transition_task read first.
FirstOperation(route, by, id) ==
  CASE route = "create" -> Insert(id, NewTask(by))
    [] route = "list"   -> List
    [] OTHER            -> Select(id)

\* current_principal and requires, and then the route up to its first await.  A
\* new task gets an id of its own, which here is the request.
Arrive(c) ==
  /\ req[c].route = None
  /\ \E ask \in Ask[c] :
       LET id == IF ask.route = "create" THEN c ELSE ask.id
           Answered(status) ==
             req' = [req EXCEPT ![c] = [route |-> ask.route, by |-> ask.by, id |-> id,
                                        status |-> status]]
       IN \/ /\ ask.by = None
             /\ Answered(401) /\ UNCHANGED storeVars
          \/ /\ ask.by # None /\ ~Permitted(ask)
             /\ Answered(403) /\ UNCHANGED storeVars
          \/ /\ ask.by # None /\ Permitted(ask)
             /\ Answered(None) /\ Begin(c, FirstOperation(ask.route, ask.by, id))

\* -- variant: whatever the store raises is a conflict
StatusOf_AllConflicts(route, result) ==
  CASE result = "ok"        -> IF route = "create" THEN 201 ELSE 200
    [] result = "not_found" -> 404
    [] OTHER                -> 409

\* What a route makes of the store's result; RequestContextMiddleware answers 500
\* to what no route catches.
StatusOf(route, result) ==
  CASE result = "ok"        -> IF route = "create" THEN 201 ELSE 200
    [] result = "not_found" -> 404
    [] result = "conflict"  -> 409
    [] OTHER                -> 500

Working(c) == req[c].route # None /\ req[c].status = None /\ op[c].state = "returned"

Transitions(c) ==
  /\ Working(c)
  /\ op[c].ask.kind = "select" /\ op[c].result = "ok"
  /\ req[c].route \in DOMAIN Target

\* transition_task: the status graph decides on the task that was read, and the
\* write names its version.
TransitionTask(c) ==
  /\ Transitions(c)
  /\ LET task  == op[c].reply.task
         route == req[c].route
         next  == TransitionTo(task, Target[route], Reasons[route],
                               Names(route, req[c].by), None)
     IN IF CanTransition(task, Target[route])
          THEN Begin(c, Update(req[c].id, next, task.version)) /\ UNCHANGED req
          ELSE Told(c, 409) /\ UNCHANGED storeVars

Answer(c) ==
  /\ Working(c) /\ ~Transitions(c)
  /\ Told(c, StatusOf(req[c].route, op[c].result))
  /\ UNCHANGED storeVars

Next ==
  \/ \E c \in Request : Arrive(c) \/ TransitionTask(c) \/ Answer(c)
  \/ StoreNext /\ UNCHANGED req

Spec == Init /\ [][Next]_vars

\* A coroutine that can go on does, a connection that is free goes to who waits
\* for it, and every statement ends by command_timeout (tasks/postgres.py).
\* Nothing is asked of the database.
FairSpec ==
  /\ Spec
  /\ WF_vars(StoreProgress /\ UNCHANGED req)
  /\ \A c \in Request : WF_vars(TransitionTask(c) \/ Answer(c))

----------------------------------------------------------------------------
(* Properties.                                                             *)

\* Every variable holds what the code can put there (tasks/postgres.py, router.py).
TypeOK ==
  /\ pool \in {"open", "closing", "closed"}
  /\ Range(queue) = {c \in Request : op[c].state = "queued"} /\ IsInjective(queue)
  /\ Cardinality(Holding) <= PoolSize
  /\ orphans \subseteq Request /\ landed \subseteq Request
  /\ \A id \in TaskId : rows[id] # None => rows[id].task \in AgentTask
  /\ \A c \in Request :
       /\ op[c].state \in {"idle", "queued", "sent", "executed", "asking", "returned"}
       /\ (op[c].state = "returned") = (op[c].result # None)
       /\ req[c].status \in {None, 200, 201, 401, 403, 404, 409, 500}

\* Clients are told the truth.  On a no - refused, not found, a conflict - the
\* write has not taken effect and never will, not even if it is still in the
\* database; on a yes it has, and what was written is there to be read
\* (tasks/postgres.py, add and update: "this write did not land").
AnswersAreTrue ==
  \A c \in Request :
    /\ req[c].status \in {401, 403, 404, 409} => c \notin landed \cup orphans
    /\ req[c].status \in {200, 201} /\ req[c].route \notin {"get", "list"} =>
         /\ c \in landed
         /\ rows[req[c].id] # None /\ rows[req[c].id].task.version >= op[c].ask.task.version

\* A row that the domain model does not accept is never acted on
\* (tasks/postgres.py, _to_task).
UnreadableIsLeftAlone ==
  [][\A id \in TaskId :
       rows[id] # None /\ ~rows[id].readable => rows'[id] = rows[id]]_vars

\* What is on record was put there by a caller who may write, and names the one
\* whose credential asked for it (auth/dependencies.py, requires; tasks/router.py,
\* create_task).
RecordNamesItsAuthors ==
  /\ \A c \in landed : req[c].by \in Subject /\ "tasks:write" \in Scopes[req[c].by]
  /\ \A id \in TaskId \ Known : rows[id] # None =>
       rows[id].task.requested_by = req[id].by /\ req[id].route = "create"
  /\ \A id \in TaskId : rows[id] # None =>
       \A n \in DOMAIN rows[id].task.history :
         LET entry == rows[id].task.history[n] IN
         \E c \in landed : req[c].id = id /\ entry.by = Names(req[c].route, req[c].by)

\* The store keeps its promise to those who write, over a pool that is too small,
\* statements that are given up and connections that are lost: of two writes over
\* the same version one lands at most, however late, and the version a conflict
\* reports is news to the client (tasks/repository.py, TaskRepository).
Contract == INSTANCE TaskStore WITH
  Caller  <- Request,
  NoTask  <- None,
  NoWrite <- None,
  tasks   <- [id \in TaskId |-> IF rows[id] = None THEN None ELSE rows[id].task],
  write   <- [c \in Request |-> IF op[c].ask # None /\ op[c].ask.kind \in Writes
                                  THEN [id |-> op[c].ask.id, task |-> op[c].ask.task,
                                        expected |-> op[c].ask.expected]
                                  ELSE None],
  verdict <- [c \in Request |->
                IF op[c].ask = None \/ op[c].ask.kind \notin Writes THEN "none"
                ELSE IF op[c].state # "returned" THEN "open"
                ELSE IF op[c].result = "ok" THEN "ok"
                ELSE IF op[c].result = "error" THEN "unknown"
                ELSE "refused"],
  landed  <- landed

KeepsContract == Contract!Spec

\* Every request is answered, though nothing limits how long it may queue for a
\* connection, and though the store is closed meanwhile (tasks/postgres.py,
\* _acquire and aclose).
RequestsAnswered ==
  \A c \in Request : req[c].route # None ~> req[c].status # None
=============================================================================
