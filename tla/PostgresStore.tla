--------------------------- MODULE PostgresStore ---------------------------
(***************************************************************************)
(* The Postgres store (tasks/postgres.py): operations that wait for a      *)
(* connection of the pool, send one statement or two over it, and make a   *)
(* result of what the database answers.                                    *)
(*                                                                         *)
(* A statement takes effect in the database at one point.  It may be given *)
(* up before or after that, by command_timeout or because its connection   *)
(* is lost, and one whose connection is lost may still be waiting for a    *)
(* lock in the database and take effect much later.                        *)
(***************************************************************************)
EXTENDS TaskLifecycle, FiniteSets, SequencesExt

CONSTANTS
  TaskId,
  Request,     \* the requests that use the store
  PoolSize     \* max_size

ASSUME StoreAssumption ==
  /\ PoolSize \in Nat \ {0}
  /\ IsFiniteSet(Request)
  /\ None \notin TaskId

\* None is no row, no operation and no result.
ASSUME NoneIsNoRow ==
  /\ None \notin [task : AgentTask, readable : BOOLEAN]
  /\ None \notin [kind : {"insert", "select", "list", "update"}, id : TaskId \cup {None},
                 task : AgentTask \cup {None}, expected : Nat]
  /\ None \notin {"ok", "not_found", "conflict", "error"}

VARIABLES
  rows,        \* agent_tasks
  pool,        \* "open"; "closing" once aclose has taken it; "closed"
  queue,       \* operations that wait for a connection, oldest first
  op,          \* the operation each request has under way, or the last one
  orphans,     \* writes given up by their operation and still in the database
  landed       \* requests whose write has taken effect

storeVars == <<rows, pool, queue, op, orphans, landed>>

\* A row is what was stored, and whether the domain model accepts it: one written
\* by an older version, or edited by hand, may not be.
Row(task) == [task |-> task, readable |-> TRUE]

Insert(id, task)           == [kind |-> "insert", id |-> id, task |-> task, expected |-> 0]
Select(id)                 == [kind |-> "select", id |-> id, task |-> None, expected |-> 0]
List                       == [kind |-> "list", id |-> None, task |-> None, expected |-> 0]
Update(id, task, expected) == [kind |-> "update", id |-> id, task |-> task, expected |-> expected]

Writes == {"insert", "update"}

NoOp == [ask |-> None, state |-> "idle", reply |-> None, result |-> None]

InitStore ==
  /\ pool    = "open"
  /\ queue   = << >>
  /\ op      = [c \in Request |-> NoOp]
  /\ orphans = {}
  /\ landed  = {}

----------------------------------------------------------------------------
(* The pool.                                                               *)

\* -- variant: a connection whose statement failed is not given back
Holding_Leak ==
  {c \in Request : op[c].state \in {"sent", "executed", "asking"} \/ op[c].result = "error"}

Holding == {c \in Request : op[c].state \in {"sent", "executed", "asking"}}

Begun(ask)         == [NoOp EXCEPT !.ask = ask, !.state = "queued"]
Ended(c, result)   == [op[c] EXCEPT !.state = "returned", !.result = result]
EndsWith(c, result) == op' = [op EXCEPT ![c] = Ended(c, result)]

\* _acquire raises when the repository is not connected; else the operation
\* queues for a connection, for as long as it takes.
Begin(c, ask) ==
  /\ IF pool = "open"
       THEN op' = [op EXCEPT ![c] = Begun(ask)] /\ queue' = Append(queue, c)
       ELSE /\ op' = [op EXCEPT ![c] = [Begun(ask) EXCEPT !.state = "returned", !.result = "error"]]
            /\ UNCHANGED queue
  /\ UNCHANGED <<rows, pool, orphans, landed>>

Grant ==
  /\ queue # << >>
  /\ Cardinality(Holding) < PoolSize
  /\ pool # "closed"
  /\ op' = [op EXCEPT ![Head(queue)].state = "sent"]
  /\ queue' = Tail(queue)
  /\ UNCHANGED <<rows, pool, orphans, landed>>

\* What waits when the pool starts to close gets a connection or an error.
TurnedAway ==
  /\ queue # << >>
  /\ pool # "open"
  /\ EndsWith(Head(queue), "error")
  /\ queue' = Tail(queue)
  /\ UNCHANGED <<rows, pool, orphans, landed>>

Close ==
  /\ pool = "open"
  /\ pool' = "closing"
  /\ UNCHANGED <<rows, queue, op, orphans, landed>>

\* The pool closes when every connection has been given back.
Closed ==
  /\ pool = "closing"
  /\ Holding = {} /\ queue = << >>
  /\ pool' = "closed"
  /\ UNCHANGED <<rows, queue, op, orphans, landed>>

----------------------------------------------------------------------------
(* The database.                                                           *)

\* -- variant: an update without the version
Matches_Any(ask) == rows[ask.id] # None

\* _UPDATE_IF_VERSION_MATCHES
Matches(ask) == rows[ask.id] # None /\ rows[ask.id].task.version = ask.expected

Applies(ask) ==
  CASE ask.kind = "insert" -> rows[ask.id] = None
    [] ask.kind = "update" -> Matches(ask)
    [] OTHER               -> FALSE

\* A write lands or leaves the table as it is.
Land(c) ==
  IF Applies(op[c].ask)
    THEN /\ rows' = [rows EXCEPT ![op[c].ask.id] = Row(op[c].ask.task)]
         /\ landed' = landed \cup {c}
    ELSE UNCHANGED <<rows, landed>>

\* What the statement answers: rows, or whether it applied.
Reply(ask) ==
  CASE ask.kind = "select" -> rows[ask.id]
    [] ask.kind = "list"   -> {rows[id] : id \in TaskId} \ {None}
    [] OTHER               -> Applies(ask)

Execute(c) ==
  /\ op[c].state = "sent"
  /\ Land(c)
  /\ op' = [op EXCEPT ![c].state = "executed", ![c].reply = Reply(op[c].ask)]
  /\ UNCHANGED <<pool, queue, orphans>>

\* command_timeout, or the end of the connection: a write that has not taken
\* effect is cancelled, or stays behind.
StatementFails(c) ==
  /\ c \in Holding
  /\ EndsWith(c, "error")
  /\ \/ UNCHANGED orphans
     \/ op[c].state = "sent" /\ op[c].ask.kind \in Writes /\ orphans' = orphans \cup {c}
  /\ UNCHANGED <<rows, pool, queue, landed>>

OrphanEnds(c) ==
  /\ c \in orphans
  /\ orphans' = orphans \ {c}
  /\ Land(c) \/ UNCHANGED <<rows, landed>>
  /\ UNCHANGED <<pool, queue, op>>

----------------------------------------------------------------------------
(* What an operation makes of the answer.                                  *)

\* -- variant: rows are trusted
ToTask_Trusted(found) == "ok"

\* _to_task validates every row; one that fails fails the whole operation.
ToTask(found) == IF \A row \in found : row.readable THEN "ok" ELSE "error"

\* add and get, and a listing.
Outcome(ask, reply) ==
  CASE ask.kind = "insert" -> IF reply THEN "ok" ELSE "error"
    [] ask.kind = "select" -> IF reply = None THEN "not_found" ELSE ToTask({reply})
    [] ask.kind = "list"   -> ToTask(reply)

\* An update that returned no row is explained by a second read, over the same
\* connection.
Receive(c) ==
  /\ op[c].state = "executed"
  /\ op' = [op EXCEPT ![c] =
       IF op[c].ask.kind # "update" THEN Ended(c, Outcome(op[c].ask, op[c].reply))
       ELSE IF op[c].reply THEN Ended(c, "ok")
       ELSE [op[c] EXCEPT !.state = "asking"]]
  /\ UNCHANGED <<rows, pool, queue, orphans, landed>>

\* The row may have moved again meanwhile: the version is a diagnosis.
Diagnose(c) ==
  /\ op[c].state = "asking"
  /\ LET row == rows[op[c].ask.id] IN
     op' = [op EXCEPT ![c] =
       IF row = None THEN Ended(c, "not_found")
       ELSE [Ended(c, "conflict") EXCEPT !.reply = row.task.version]]
  /\ UNCHANGED <<rows, pool, queue, orphans, landed>>

\* command_timeout bounds every statement; nothing is asked of the database.
StoreProgress == Grant \/ TurnedAway \/ Closed \/ \E c \in Request : StatementFails(c)

StoreNext ==
  \/ Grant \/ TurnedAway \/ Close \/ Closed
  \/ \E c \in Request :
       Execute(c) \/ StatementFails(c) \/ OrphanEnds(c) \/ Receive(c) \/ Diagnose(c)
=============================================================================
