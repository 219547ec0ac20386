------------------------- MODULE ApiRequestsProofs -------------------------
(***************************************************************************)
(* Theorems about ApiRequests, for any number of requests, of tasks and of *)
(* connections: what a client is told is true, what is on record names its *)
(* authors, and the Postgres store implements TaskStore.                   *)
(***************************************************************************)
EXTENDS ApiRequests, TaskLifecycleProofs, FiniteSetTheorems

----------------------------------------------------------------------------
(* The inductive invariant.                                                *)

Rows == [task : AgentTask, readable : BOOLEAN]

IsOperation(o) ==
  /\ o = [ask |-> o.ask, state |-> o.state, reply |-> o.reply, result |-> o.result]
  /\ o.result \in {None, "ok", "not_found", "conflict", "error"}

IsStatus(status) == status \in {None, 200, 201, 401, 403, 404, 409, 500}

IsRequest(r) == r = [route |-> r.route, by |-> r.by, id |-> r.id, status |-> r.status]

\* The shape of the variables TypeOK says nothing about.
Shape ==
  /\ rows \in [TaskId -> Rows \cup {None}]
  /\ op = [c \in Request |-> op[c]] /\ req = [c \in Request |-> req[c]]
  /\ \A c \in Request : IsOperation(op[c]) /\ IsRequest(req[c])
  /\ queue \in Seq(Request)

\* Every entry of a history was written by a request that took effect.
Signed(id, history) ==
  \A n \in DOMAIN history :
    \E d \in landed : req[d].id = id /\ history[n].by = Names(req[d].route, req[d].by)

\* A task that was read from row id, now or earlier.
ReadFrom(id, task) ==
  /\ id \in TaskId /\ rows[id] # None /\ rows[id].readable
  /\ task \in AgentTask
  /\ task.requested_by = rows[id].task.requested_by
  /\ task.version <= rows[id].task.version
  /\ Signed(id, task.history)

\* The write transition_task makes of the task it read.
TransitionOf(c, task) ==
  Update(req[c].id, TransitionTo(task, Target[req[c].route], Reasons[req[c].route],
                                 Names(req[c].route, req[c].by), None),
         task.version)

Follows(c) == \E task \in AgentTask :
  /\ CanTransition(task, Target[req[c].route])
  /\ ReadFrom(req[c].id, task)
  /\ op[c].ask = TransitionOf(c, task)

\* What the store is asked by a request that was let through.
Admitted(c) ==
  /\ req[c].route \in Route /\ req[c].by \in Subject
  /\ Scopes[req[c].by] \cap Accepted(req[c].route) # {}
  /\ req[c].status \notin {401, 403}
  /\ \/ req[c].route = "create" /\ req[c].id = c /\ op[c].ask = Insert(c, NewTask(req[c].by))
     \/ req[c].route = "list" /\ op[c].ask = List
     \/ /\ req[c].route \in {"get", "start", "cancel"} /\ req[c].id \in TaskId
        /\ op[c].ask = Select(req[c].id)
     \/ req[c].route \in {"start", "cancel"} /\ Follows(c)

Entered(c) ==
  \/ req[c].route = None /\ req[c].status = None /\ op[c] = NoOp
  \/ req[c].route \in Route /\ req[c].status \in {401, 403} /\ op[c] = NoOp
  \/ Admitted(c)

\* Its operation is a write.
Writing(c) == op[c].ask # None /\ op[c].ask.kind \in Writes

\* What it was going to overwrite is gone.
Overwritten(c) ==
  /\ Writing(c) /\ op[c].ask.kind = "update" /\ c \notin landed
  /\ rows[op[c].ask.id] # None
  /\ rows[op[c].ask.id].task.version > op[c].ask.expected

\* What the state of a request's operation says about its write.
Settled(c) ==
  /\ c \in landed \cup orphans => Writing(c)
  /\ c \in orphans => c \notin landed /\ op[c].state = "returned" /\ op[c].result = "error"
  /\ c \in landed => /\ op[c].state \in {"executed", "returned"}
                     /\ op[c].result \in {None, "ok", "error"}
                     /\ rows[op[c].ask.id] # None
                     /\ rows[op[c].ask.id].task.version >= op[c].ask.task.version
  /\ Writing(c) /\ op[c].state = "executed" => op[c].reply = (c \in landed)
  /\ Writing(c) /\ op[c].result = "ok" => c \in landed
  /\ \/ op[c].state = "asking" \/ op[c].result = "conflict"
     \/ /\ op[c].state = "executed" /\ Writing(c) /\ op[c].ask.kind = "update"
        /\ c \notin landed
     => Overwritten(c)
  /\ op[c].result = "not_found" => ~Writing(c)

\* What it says about the row a request has read.
Informed(c) ==
  op[c].ask # None /\ op[c].ask.kind = "select" =>
    /\ op[c].state = "executed" =>
         \/ op[c].reply = None
         \/ op[c].reply \in Rows /\ (op[c].reply.readable => ReadFrom(op[c].ask.id, op[c].reply.task))
    /\ op[c].state = "returned" /\ op[c].result = "ok" =>
         ReadFrom(op[c].ask.id, op[c].reply.task)

\* What the client has been told is what the store said.
Answered(c) ==
  req[c].status \notin {None, 401, 403} =>
    /\ op[c].state = "returned"
    /\ req[c].status \in {200, 201} =>
         op[c].result = "ok" /\ (Writing(c) \/ req[c].route \in {"get", "list"})
    /\ req[c].status \in {404, 409} => ~Writing(c) \/ op[c].result = "conflict"

RequestInv(c) == Entered(c) /\ Settled(c) /\ Informed(c) /\ Answered(c)

Recorded(id) ==
  rows[id] # None =>
    /\ Signed(id, rows[id].task.history)
    /\ id \notin Known => /\ rows[id].task.requested_by = req[id].by
                          /\ req[id].route = "create"

ApiInv ==
  /\ TypeOK
  /\ Shape
  /\ \A c \in Request : RequestInv(c)
  /\ \A id \in TaskId : Recorded(id)

----------------------------------------------------------------------------
(* Operations and queues.                                                  *)

\* No operation is None, and each has the fields it was given.
LEMMA Operations ==
  ASSUME NEW id \in TaskId, NEW task \in AgentTask, NEW expected \in Nat
  PROVE  /\ Insert(id, task) # None /\ Select(id) # None /\ List # None
         /\ Update(id, task, expected) # None
         /\ Insert(id, task).kind = "insert" /\ Select(id).kind = "select"
         /\ List.kind = "list" /\ Update(id, task, expected).kind = "update"
BY NoneIsNoRow DEF Insert, Select, List, Update

\* What is known of a request whose operation has begun.
LEMMA OperationFacts ==
  ASSUME ApiInv, NEW c \in Request, op[c].ask # None
  PROVE  /\ Admitted(c)
         /\ op[c].ask.kind \in {"insert", "select", "list", "update"}
         /\ op[c].ask.kind = "select" => op[c].ask = Select(req[c].id) /\ req[c].id \in TaskId
         /\ op[c].ask.kind = "list" <=> req[c].route = "list"
         /\ op[c].ask.kind = "insert" =>
              op[c].ask = Insert(c, NewTask(req[c].by)) /\ req[c].id = c /\ req[c].route = "create"
         /\ op[c].ask.kind = "update" => req[c].route \in {"start", "cancel"} /\ Follows(c)
         /\ Writing(c) =>
              /\ op[c].ask.id = req[c].id /\ req[c].id \in TaskId
              /\ op[c].ask.task \in AgentTask
              /\ op[c].ask.expected \in Nat /\ op[c].ask.task.version = op[c].ask.expected + 1
              /\ req[c].by \in Subject /\ "tasks:write" \in Scopes[req[c].by]
<1>1. Admitted(c)
  BY DEF ApiInv, RequestInv, Entered, NoOp
<1>2. CASE req[c].route = "create" /\ req[c].id = c /\ op[c].ask = Insert(c, NewTask(req[c].by))
  <2>1. NewTask(req[c].by) \in AgentTask /\ NewTask(req[c].by).version = 1 /\ c \in TaskId
    BY <1>1, NewTaskType, ApiAssumption DEF Admitted, NewTask
  <2>2. /\ op[c].ask.kind = "insert" /\ op[c].ask.id = c /\ op[c].ask.expected = 0
        /\ op[c].ask.task = NewTask(req[c].by)
    BY <1>2 DEF Insert
  <2> QED
    BY <1>1, <1>2, <2>1, <2>2 DEF Admitted, Accepted
<1>3. CASE req[c].route = "list" /\ op[c].ask = List
  BY <1>1, <1>3 DEF List, Writing, Writes
<1>4. CASE /\ req[c].route \in {"get", "start", "cancel"} /\ req[c].id \in TaskId
           /\ op[c].ask = Select(req[c].id)
  BY <1>1, <1>4 DEF Select, Writing, Writes
<1>5. CASE req[c].route \in {"start", "cancel"} /\ Follows(c)
  <2>1. PICK task \in AgentTask : /\ ReadFrom(req[c].id, task)
                                  /\ op[c].ask = TransitionOf(c, task)
    BY <1>5 DEF Follows
  <2> DEFINE next == TransitionTo(task, Target[req[c].route], Reasons[req[c].route],
                                  Names(req[c].route, req[c].by), None)
  <2>2. next \in AgentTask /\ next.version = task.version + 1
    <3>1. /\ Target[req[c].route] \in TaskStatus /\ Reasons[req[c].route] \in Reason
          /\ Names(req[c].route, req[c].by) \in Subject \cup {None}
      BY <1>1, <1>5 DEF Target, Reasons, TaskStatus, Reason, Names, Admitted
    <3>2. next \in AgentTask
      BY <3>1, TransitionToType
    <3>3. next.version = task.version + 1
      BY DEF TransitionTo, AgentTask
    <3> QED
      BY <3>2, <3>3
  <2>3. task.version \in Nat
    BY DEF AgentTask
  <2>4. /\ op[c].ask.kind = "update" /\ op[c].ask.id = req[c].id
        /\ op[c].ask.expected = task.version /\ op[c].ask.task = next
    BY <2>1 DEF TransitionOf, Update
  <2> HIDE DEF next
  <2> QED
    BY <1>1, <1>5, <2>1, <2>2, <2>3, <2>4 DEF Admitted, Accepted, ReadFrom
<1> QED
  BY <1>1, <1>2, <1>3, <1>4, <1>5 DEF Admitted

\* The queue loses its head.
LEMMA QueueTail ==
  ASSUME NEW q \in Seq(Request), q # << >>, IsInjective(q)
  PROVE  /\ Head(q) \in Range(q) /\ Head(q) \in Request
         /\ Tail(q) \in Seq(Request) /\ IsInjective(Tail(q))
         /\ Range(Tail(q)) = Range(q) \ {Head(q)}
<1>1. /\ Tail(q) \in Seq(Request) /\ Len(Tail(q)) = Len(q) - 1
      /\ \A i \in 1..Len(Tail(q)) : Tail(q)[i] = q[i + 1]
      /\ Head(q) = q[1] /\ Len(q) \in Nat \ {0}
  OBVIOUS
<1>2. /\ DOMAIN q = 1..Len(q) /\ DOMAIN Tail(q) = 1..Len(Tail(q))
  BY <1>1
<1>3. Head(q) \in Range(q) /\ Head(q) \in Request
  BY <1>1, <1>2 DEF Range
<1>4. IsInjective(Tail(q))
  BY <1>1, <1>2 DEF IsInjective
<1>5. Range(Tail(q)) = Range(q) \ {Head(q)}
  <2>1. \A x \in Range(Tail(q)) : x \in Range(q) /\ x # Head(q)
    BY <1>1, <1>2 DEF Range, IsInjective
  <2>2. ASSUME NEW x \in Range(q), x # Head(q)
        PROVE  x \in Range(Tail(q))
    <3>1. PICK i \in 1..Len(q) : q[i] = x
      BY <1>2, <2>2 DEF Range
    <3>2. i - 1 \in 1..Len(Tail(q)) /\ Tail(q)[i - 1] = q[i]
      BY <1>1, <2>2, <3>1
    <3> QED
      BY <1>2, <3>1, <3>2 DEF Range
  <2> QED
    BY <2>1, <2>2
<1> QED
  BY <1>1, <1>3, <1>4, <1>5

\* The queue gains one that was not in it.
LEMMA QueueAppend ==
  ASSUME NEW q \in Seq(Request), IsInjective(q), NEW c \in Request, c \notin Range(q)
  PROVE  /\ Append(q, c) \in Seq(Request) /\ IsInjective(Append(q, c))
         /\ Range(Append(q, c)) = Range(q) \cup {c}
<1>1. /\ Append(q, c) \in Seq(Request) /\ Len(Append(q, c)) = Len(q) + 1
      /\ \A i \in 1..Len(q) : Append(q, c)[i] = q[i]
      /\ Append(q, c)[Len(q) + 1] = c /\ Len(q) \in Nat
  OBVIOUS
<1>2. /\ DOMAIN q = 1..Len(q) /\ DOMAIN Append(q, c) = 1..Len(q) + 1
  BY <1>1
<1>3. IsInjective(Append(q, c))
  <2>1. ASSUME NEW i \in 1..Len(q) + 1, NEW j \in 1..Len(q) + 1, Append(q, c)[i] = Append(q, c)[j]
        PROVE  i = j
    <3>1. \A n \in 1..Len(q) : q[n] # c
      BY <1>2 DEF Range
    <3>2. CASE i \in 1..Len(q) /\ j \in 1..Len(q)
      BY <1>1, <1>2, <2>1, <3>2 DEF IsInjective
    <3>3. CASE i = Len(q) + 1 \/ j = Len(q) + 1
      BY <1>1, <2>1, <3>1, <3>3
    <3> QED
      BY <1>1, <3>2, <3>3
  <2> QED
    BY <1>2, <2>1 DEF IsInjective
<1>4. Range(Append(q, c)) = Range(q) \cup {c}
  <2>1. \A x \in Range(Append(q, c)) : x \in Range(q) \cup {c}
    BY <1>1, <1>2 DEF Range
  <2>2. c \in Range(Append(q, c))
    BY <1>1, <1>2 DEF Range
  <2>3. \A x \in Range(q) : x \in Range(Append(q, c))
    BY <1>1, <1>2 DEF Range
  <2> QED
    BY <2>1, <2>2, <2>3
<1> QED
  BY <1>1, <1>3, <1>4

\* Who waits and who holds a connection, as TypeOK has it.
Queueing ==
  /\ queue \in Seq(Request) /\ IsInjective(queue)
  /\ Range(queue) = {c \in Request : op[c].state = "queued"}
  /\ Cardinality(Holding) <= PoolSize

LEMMA FewerHold ==
  ASSUME Holding' \subseteq Holding, Cardinality(Holding) <= PoolSize
  PROVE  Cardinality(Holding') <= PoolSize
<1>1. IsFiniteSet(Holding)
  BY StoreAssumption, FS_Subset DEF Holding
<1>2. IsFiniteSet(Holding') /\ Cardinality(Holding') <= Cardinality(Holding)
  BY <1>1, FS_Subset
<1> QED
  BY <1>1, <1>2, FS_CardinalityType, StoreAssumption

----------------------------------------------------------------------------
(* What a step leaves alone.                                               *)

\* What a request has asked for stays what it was.
SameAuthors ==
  \A d \in Request : req[d].route # None =>
    req'[d].route = req[d].route /\ req'[d].by = req[d].by /\ req'[d].id = req[d].id

\* The record only grows.
Grows ==
  /\ landed \subseteq landed'
  /\ \A id \in TaskId : rows[id] # None =>
       /\ rows'[id] # None
       /\ rows'[id].task.version >= rows[id].task.version
       /\ rows'[id].task.requested_by = rows[id].task.requested_by
       /\ rows[id].readable => rows'[id].readable

LEMMA VersionTypes ==
  ASSUME Shape, NEW id \in TaskId, rows[id] # None
  PROVE  rows[id].task \in AgentTask /\ rows[id].task.version \in Nat /\ rows[id].readable \in BOOLEAN
BY DEF Shape, Rows, AgentTask

\* A request that took effect has asked for something.
LEMMA LandedFacts ==
  ASSUME ApiInv, NEW d \in landed \cup orphans
  PROVE  /\ d \in Request /\ Writing(d) /\ req[d].route # None
<1>1. d \in Request /\ Writing(d)
  BY DEF ApiInv, RequestInv, Settled, TypeOK
<1>2. Admitted(d)
  BY <1>1, OperationFacts DEF Writing
<1> QED
  BY <1>1, <1>2, ApiAssumption DEF Admitted

LEMMA AuthorsStay ==
  ASSUME ApiInv, SameAuthors, landed \subseteq landed'
  PROVE  \A d \in landed : /\ d \in landed' /\ req'[d].id = req[d].id
                           /\ req'[d].route = req[d].route /\ req'[d].by = req[d].by
BY LandedFacts DEF SameAuthors

LEMMA ReadFromGrows ==
  ASSUME ApiInv, SameAuthors, Grows, rows' \in [TaskId -> Rows \cup {None}],
         NEW id, NEW task, ReadFrom(id, task)
  PROVE  ReadFrom(id, task)'
<1>1. Signed(id, task.history)'
  BY AuthorsStay DEF ReadFrom, Signed, Grows, Names
<1>2. rows[id].task.version \in Nat /\ rows'[id].task.version \in Nat /\ task.version \in Nat
  BY VersionTypes DEF ReadFrom, Grows, ApiInv, Shape, Rows, AgentTask
<1> QED
  BY <1>1, <1>2 DEF ReadFrom, Grows

\* A request that asks for what it asked for asks for something it may.
LEMMA StillEntered ==
  ASSUME ApiInv, SameAuthors, Grows, rows' \in [TaskId -> Rows \cup {None}],
         NEW d \in Request, req'[d] = req[d],
         op'[d] = op[d] \/ (op[d].ask # None /\ op'[d].ask = op[d].ask)
  PROVE  Entered(d)'
<1>1. Entered(d) /\ op'[d].ask = op[d].ask /\ (op'[d] = op[d] \/ op[d] # NoOp)
  BY DEF ApiInv, RequestInv, NoOp
<1>2. Follows(d) => Follows(d)'
  <2> SUFFICES ASSUME NEW task \in AgentTask, CanTransition(task, Target[req[d].route]),
                      ReadFrom(req[d].id, task), op[d].ask = TransitionOf(d, task)
               PROVE  Follows(d)'
    BY DEF Follows
  <2>1. ReadFrom(req[d].id, task)'
    <3>1. \A id : id = req[d].id => ReadFrom(id, task)'
      BY ReadFromGrows
    <3> QED
      BY <3>1 DEF ReadFrom, Signed
  <2> QED
    BY <1>1, <2>1 DEF Follows, TransitionOf
<1> QED
  BY <1>1, <1>2 DEF Entered, Admitted

\* A request that nothing happens to stays as it was.
LEMMA RequestFrame ==
  ASSUME ApiInv, SameAuthors, Grows, rows' \in [TaskId -> Rows \cup {None}],
         NEW d \in Request, op'[d] = op[d], req'[d] = req[d],
         d \in landed' <=> d \in landed, d \in orphans' <=> d \in orphans
  PROVE  RequestInv(d)'
<1>1. RequestInv(d)
  BY DEF ApiInv
<1>2. Writing(d)' <=> Writing(d)
  BY DEF Writing
<1>4. Entered(d)'
  BY StillEntered DEF RequestInv
<1>5. Settled(d)'
  <2>1. ASSUME Writing(d)
        PROVE  /\ op[d].ask.id \in TaskId /\ op[d].ask.task.version \in Nat
               /\ op[d].ask.expected \in Nat
    BY <2>1, OperationFacts DEF Writing, AgentTask
  <2>2. ASSUME Writing(d), rows[op[d].ask.id] # None
        PROVE  /\ rows'[op[d].ask.id] # None
               /\ rows[op[d].ask.id].task.version \in Nat
               /\ rows'[op[d].ask.id].task.version \in Nat
               /\ rows'[op[d].ask.id].task.version >= rows[op[d].ask.id].task.version
    BY <2>1, <2>2, VersionTypes DEF Grows, ApiInv, Shape, Rows, AgentTask
  <2>3. Overwritten(d) => Overwritten(d)'
    BY <1>2, <2>1, <2>2 DEF Overwritten
  <2> QED
    BY <1>1, <1>2, <2>1, <2>2, <2>3 DEF RequestInv, Settled
<1>6. Informed(d)'
  <2>1. ASSUME ReadFrom(op[d].ask.id, op[d].reply.task)
        PROVE  ReadFrom(op[d].ask.id, op[d].reply.task)'
    <3>1. \A id, task : ReadFrom(id, task) => ReadFrom(id, task)'
      BY ReadFromGrows
    <3>2. \A id, task : id = op[d].ask.id /\ task = op[d].reply.task => ReadFrom(id, task)'
      BY <2>1, <3>1
    <3> QED
      BY <3>2 DEF ReadFrom, Signed
  <2> QED
    BY <1>1, <2>1 DEF RequestInv, Informed
<1>7. Answered(d)'
  BY <1>1, <1>2 DEF RequestInv, Answered
<1> QED
  BY <1>4, <1>5, <1>6, <1>7 DEF RequestInv

\* Nothing is written: the record says what it said.
LEMMA RecordFrame ==
  ASSUME ApiInv, SameAuthors, UNCHANGED <<rows, landed>>
  PROVE  Grows /\ \A id \in TaskId : Recorded(id)'
<1>1. Grows
  BY VersionTypes DEF Grows, ApiInv
<1>2. ASSUME NEW id \in TaskId, rows[id] # None
      PROVE  Recorded(id)'
  <2>1. Recorded(id)
    BY DEF ApiInv
  <2>2. Signed(id, rows[id].task.history)'
    BY <1>2, <2>1, AuthorsStay DEF Recorded, Signed, Names
  <2>3. id \notin Known => id \in Request /\ req[id].route # None
    BY <1>2, <2>1, ApiAssumption DEF Recorded, Route
  <2> QED
    BY <2>1, <2>2, <2>3, <1>2 DEF Recorded, SameAuthors
<1> QED
  BY <1>1, <1>2 DEF Recorded

----------------------------------------------------------------------------
(* One request at a time.                                                  *)

\* What a step must see to when it moves the operation of request c.
LEMMA OneRequestMoves ==
  ASSUME ApiInv, NEW c \in Request, NEW operation, NEW request,
         op' = [op EXCEPT ![c] = operation], req' = [req EXCEPT ![c] = request],
         IsOperation(operation), IsRequest(request),
         operation.state \in {"idle", "queued", "sent", "executed", "asking", "returned"},
         operation.state = "returned" <=> operation.result # None,
         IsStatus(request.status),
         rows' \in [TaskId -> Rows \cup {None}], pool' \in {"open", "closing", "closed"},
         SameAuthors, Grows, \A id \in TaskId : Recorded(id)',
         landed' \ {c} = landed \ {c}, orphans' \ {c} = orphans \ {c},
         Queueing', RequestInv(c)'
  PROVE  ApiInv'
<1>1. /\ op'[c] = operation /\ req'[c] = request
      /\ \A d \in Request \ {c} : op'[d] = op[d] /\ req'[d] = req[d]
  BY DEF ApiInv, Shape
<1>2. Shape'
  <2>1. op' = [d \in Request |-> op'[d]] /\ req' = [d \in Request |-> req'[d]]
    <3>1. op = [d \in Request |-> op[d]] /\ req = [d \in Request |-> req[d]]
      BY DEF ApiInv, Shape
    <3>2. op' = [d \in Request |-> op'[d]]
      BY <3>1
    <3>3. req' = [d \in Request |-> req'[d]]
      BY <3>1
    <3> QED
      BY <3>2, <3>3
  <2>2. \A d \in Request : IsOperation(op'[d]) /\ IsRequest(req'[d])
    BY <1>1 DEF ApiInv, Shape
  <2> QED
    BY <2>1, <2>2 DEF Shape, Queueing, IsOperation, IsRequest
<1>3. TypeOK'
  <2>1. landed' \subseteq Request /\ orphans' \subseteq Request
    BY DEF ApiInv, TypeOK
  <2>2. \A id \in TaskId : rows'[id] # None => rows'[id].task \in AgentTask
    BY DEF Rows
  <2> QED
    BY <1>1, <2>1, <2>2 DEF ApiInv, TypeOK, Queueing, IsStatus
<1>4. \A d \in Request \ {c} : RequestInv(d)'
  BY <1>1, <1>2, RequestFrame
<1> QED
  BY <1>2, <1>3, <1>4 DEF ApiInv

\* A write that reaches the database lands on what it was made from, or finds
\* that gone.
LEMMA LandFacts ==
  ASSUME ApiInv, NEW c \in Request, Writing(c), c \notin landed, Land(c), UNCHANGED req
  PROVE  /\ rows' \in [TaskId -> Rows \cup {None}]
         /\ Grows
         /\ \A id \in TaskId : Recorded(id)'
         /\ landed' = IF Applies(op[c].ask) THEN landed \cup {c} ELSE landed
         /\ Applies(op[c].ask) => /\ rows'[op[c].ask.id] # None
                                  /\ rows'[op[c].ask.id].task = op[c].ask.task
         /\ ~Applies(op[c].ask) /\ op[c].ask.kind = "update" => Overwritten(c)
<1> DEFINE ask == op[c].ask
           id  == req[c].id
<1>1. SameAuthors
  BY DEF SameAuthors
<1>2. /\ ask.id = id /\ id \in TaskId /\ ask.task \in AgentTask /\ ask.kind \in {"insert", "update"}
      /\ ask.expected \in Nat /\ ask.task.version = ask.expected + 1
      /\ req[c].by \in Subject /\ req[c].route # None
  BY OperationFacts, ApiAssumption DEF Writing, Writes, Admitted
<1>3. Applies(ask) <=> IF ask.kind = "insert" THEN rows[id] = None ELSE Matches(ask)
  BY <1>2 DEF Applies
<1>4. CASE ~Applies(ask)
  <2>1. UNCHANGED <<rows, landed>>
    BY <1>4 DEF Land
  <2>2. ask.kind = "update" => Overwritten(c)
    <3> SUFFICES ASSUME ask.kind = "update"
                 PROVE  Overwritten(c)
      OBVIOUS
    <3>1. PICK task \in AgentTask : ReadFrom(id, task) /\ ask = TransitionOf(c, task)
      BY OperationFacts DEF Writing, Follows
    <3>2. ask.expected = task.version /\ rows[id] # None /\ task.version <= rows[id].task.version
      BY <3>1 DEF TransitionOf, Update, ReadFrom
    <3>3. rows[id].task.version # ask.expected
      BY <1>2, <1>3, <1>4, <3>2 DEF Matches
    <3>4. rows[id].task.version \in Nat
      BY <1>2, <3>2, VersionTypes DEF ApiInv
    <3> QED
      BY <1>2, <3>2, <3>3, <3>4 DEF Overwritten
  <2> QED
    BY <1>1, <1>3, <1>4, <2>1, <2>2, RecordFrame DEF ApiInv, Shape
<1>5. CASE Applies(ask)
  <2>1. rows' = [rows EXCEPT ![id] = Row(ask.task)] /\ landed' = landed \cup {c}
    BY <1>2, <1>5 DEF Land
  <2>2. Row(ask.task) \in Rows /\ Row(ask.task) # None
    <3>1. Row(ask.task) \in Rows
      BY <1>2 DEF Row, Rows
    <3> QED
      BY <3>1, NoneIsNoRow DEF Rows
  <2>3. /\ rows' \in [TaskId -> Rows \cup {None}] /\ rows'[id] = Row(ask.task)
        /\ \A other \in TaskId \ {id} : rows'[other] = rows[other]
    BY <1>2, <2>1, <2>2 DEF ApiInv, Shape
  <2>4. rows'[id].task = ask.task /\ rows'[id].readable /\ rows'[id] # None
    BY <2>2, <2>3 DEF Row
  <2>5. CASE ask.kind = "insert"
    <3>1. /\ rows[id] = None /\ id = c /\ ask.task = NewTask(req[c].by) /\ req[c].route = "create"
      <4>1. ask = Insert(c, NewTask(req[c].by)) /\ id = c /\ req[c].route = "create"
        BY <2>5, OperationFacts DEF Writing
      <4>2. ask.task = NewTask(req[c].by)
        BY <4>1 DEF Insert
      <4> QED
        BY <1>3, <1>5, <2>5, <4>1, <4>2
    <3>2. Grows
      BY <2>1, <2>3, <3>1, VersionTypes DEF Grows, ApiInv
    <3>3. ASSUME NEW other \in TaskId
          PROVE  Recorded(other)'
      <4>1. CASE other = id
        BY <2>4, <3>1, <4>1 DEF Recorded, Signed, NewTask
      <4>2. CASE other # id
        <5>1. Recorded(other) /\ rows'[other] = rows[other]
          BY <2>3, <4>2 DEF ApiInv
        <5> QED
          BY <2>1, <5>1 DEF Recorded, Signed
      <4> QED
        BY <4>1, <4>2
    <3> QED
      BY <1>2, <1>5, <2>1, <2>3, <2>4, <3>2, <3>3
  <2>6. CASE ask.kind = "update"
    <3>1. PICK task \in AgentTask : ReadFrom(id, task) /\ ask = TransitionOf(c, task)
      BY <2>6, OperationFacts DEF Writing, Follows
    <3>2. /\ rows[id] # None /\ rows[id].task.version = ask.expected
          /\ task.requested_by = rows[id].task.requested_by /\ Signed(id, task.history)
      BY <1>2, <1>3, <1>5, <2>6, <3>1 DEF Matches, ReadFrom
    <3> DEFINE entry == [from_status |-> task.status, to_status |-> Target[req[c].route],
                         reason |-> Reasons[req[c].route],
                         by |-> Names(req[c].route, req[c].by)]
    <3>3. /\ ask.task.requested_by = task.requested_by
          /\ ask.task.history = Append(task.history, entry)
      <4>1. ask.task = TransitionTo(task, Target[req[c].route], Reasons[req[c].route],
                                    Names(req[c].route, req[c].by), None)
        BY <3>1 DEF TransitionOf, Update
      <4> QED
        BY <4>1 DEF TransitionTo, AgentTask
    <3>4. Grows
      <4>1. rows'[id].task.version >= rows[id].task.version
        BY <1>2, <2>4, <3>2
      <4>2. rows'[id].task.requested_by = rows[id].task.requested_by
        BY <2>4, <3>2, <3>3
      <4>3. ASSUME NEW other \in TaskId, rows[other] # None, other # id
            PROVE  /\ rows'[other] = rows[other]
                   /\ rows'[other].task.version >= rows[other].task.version
        BY <2>3, <4>3, VersionTypes DEF ApiInv
      <4> QED
        BY <2>1, <2>4, <4>1, <4>2, <4>3 DEF Grows
    <3>5. \A n \in DOMAIN ask.task.history :
             \E d \in landed' : /\ req'[d].id = id
                               /\ ask.task.history[n].by = Names(req'[d].route, req'[d].by)
      <4>1. /\ task.history \in Seq(StatusTransition)
            /\ DOMAIN Append(task.history, entry) = 1..Len(task.history) + 1
            /\ DOMAIN task.history = 1..Len(task.history) /\ Len(task.history) \in Nat
            /\ \A n \in 1..Len(task.history) : Append(task.history, entry)[n] = task.history[n]
            /\ Append(task.history, entry)[Len(task.history) + 1] = entry
        <5> HIDE DEF entry
        <5>1. task.history \in Seq(StatusTransition)
          BY DEF AgentTask
        <5> QED
          BY <5>1
      <4>2. entry.by = Names(req[c].route, req[c].by)
        OBVIOUS
      <4> HIDE DEF entry
      <4>3. ASSUME NEW n \in 1..Len(task.history) + 1
            PROVE  \E d \in landed' : /\ req'[d].id = id
                                      /\ Append(task.history, entry)[n].by
                                           = Names(req'[d].route, req'[d].by)
        <5>1. CASE n = Len(task.history) + 1
          BY <2>1, <4>1, <4>2, <5>1
        <5>2. CASE n \in 1..Len(task.history)
          BY <2>1, <3>2, <4>1, <5>2 DEF Signed
        <5> QED
          BY <4>1, <5>1, <5>2
      <4> QED
        BY <3>3, <4>1, <4>3
    <3>6. ASSUME NEW other \in TaskId
          PROVE  Recorded(other)'
      <4>1. CASE other = id
        <5>1. Recorded(other) /\ rows[other] # None
          BY <3>2, <4>1 DEF ApiInv
        <5>2. /\ rows'[other].task.history = ask.task.history
              /\ rows'[other].task.requested_by = rows[other].task.requested_by
          BY <2>4, <3>2, <3>3, <4>1
        <5>3. Signed(other, rows[other].task.history)'
          BY <3>5, <4>1, <5>2 DEF Signed
        <5> QED
          BY <5>1, <5>2, <5>3 DEF Recorded
      <4>2. CASE other # id
        <5>1. Recorded(other) /\ rows'[other] = rows[other]
          BY <2>3, <4>2 DEF ApiInv
        <5> QED
          BY <2>1, <5>1 DEF Recorded, Signed
      <4> QED
        BY <4>1, <4>2
    <3> QED
      BY <1>2, <1>5, <2>1, <2>3, <2>4, <3>4, <3>6
  <2> QED
    BY <1>2, <2>5, <2>6
<1> QED
  BY <1>4, <1>5

----------------------------------------------------------------------------
(* The steps of the store.                                                 *)

\* An operation goes on to its next state, or returns.
LEMMA OperationGoesOn ==
  ASSUME ApiInv, NEW c \in Request, op[c].ask # None, op[c].state # "returned", NEW operation,
         op' = [op EXCEPT ![c] = operation], operation.ask = op[c].ask,
         IsOperation(operation), operation.state \in {"sent", "executed", "asking", "returned"},
         operation.state = "returned" <=> operation.result # None,
         UNCHANGED <<pool, req>>, rows' \in [TaskId -> Rows \cup {None}],
         Grows, \A id \in TaskId : Recorded(id)',
         landed' \ {c} = landed \ {c}, orphans' \ {c} = orphans \ {c},
         Queueing', Settled(c)', Informed(c)'
  PROVE  ApiInv'
<1>1. SameAuthors
  BY DEF SameAuthors
<1>2. op'[c] = operation
  BY DEF ApiInv, Shape
<1>3. Entered(c)'
  BY <1>1, <1>2, StillEntered
<1>4. req[c].status = None
  BY OperationFacts DEF ApiInv, RequestInv, Answered, Admitted, TypeOK
<1>5. Answered(c)'
  BY <1>4 DEF Answered
<1>6. req' = [req EXCEPT ![c] = req[c]] /\ IsRequest(req[c])
  BY DEF ApiInv, Shape
<1>7. RequestInv(c)'
  BY <1>3, <1>5 DEF RequestInv
<1>8. IsStatus(req[c].status) /\ pool' \in {"open", "closing", "closed"}
  BY DEF ApiInv, TypeOK, IsStatus
<1> QED
  BY <1>1, <1>6, <1>7, <1>8, OneRequestMoves

\* What TypeOK says of the queue, and of the states of operations.
LEMMA StateFacts ==
  ASSUME ApiInv, NEW c \in Request
  PROVE  /\ Queueing
         /\ op[c].state = "returned" <=> op[c].result # None
         /\ op[c].state # "idle" => op[c].ask # None
         /\ op[c].state \in {"queued", "sent"} => c \notin landed \cup orphans
         /\ c \in orphans => op[c].state = "returned"
         /\ IsOperation(op[c])
<1>1. Queueing
  BY DEF ApiInv, TypeOK, Shape, Queueing
<1>2. op[c].state # "idle" => op[c].ask # None
  <2>1. op[c] = NoOp => op[c].state = "idle"
    BY DEF NoOp
  <2>2. Admitted(c) => op[c].ask # None
    <3>1. Follows(c) /\ req[c].route \in {"start", "cancel"} /\ req[c].by \in Subject => op[c].ask # None
      <4> SUFFICES ASSUME NEW task \in AgentTask, ReadFrom(req[c].id, task),
                          op[c].ask = TransitionOf(c, task),
                          req[c].route \in {"start", "cancel"}, req[c].by \in Subject
                   PROVE  op[c].ask # None
        BY DEF Follows
      <4> DEFINE next == TransitionTo(task, Target[req[c].route], Reasons[req[c].route],
                                      Names(req[c].route, req[c].by), None)
      <4>1. /\ Target[req[c].route] \in TaskStatus /\ Reasons[req[c].route] \in Reason
            /\ Names(req[c].route, req[c].by) \in Subject \cup {None}
        BY DEF Target, Reasons, TaskStatus, Reason, Names
      <4>2. next \in AgentTask
        BY <4>1, TransitionToType
      <4>3. op[c].ask = Update(req[c].id, next, task.version) /\ task.version \in Nat
        BY DEF TransitionOf, AgentTask
      <4> HIDE DEF next
      <4> QED
        BY <4>2, <4>3, Operations DEF ReadFrom
    <3>2. Insert(c, NewTask(req[c].by)) # None \/ req[c].by \notin Subject
      BY NewTaskType, Operations, ApiAssumption
    <3>3. List # None
      BY NoneIsNoRow DEF List
    <3>4. req[c].id \in TaskId => Select(req[c].id) # None
      BY NoneIsNoRow DEF Select
    <3> QED
      BY <3>1, <3>2, <3>3, <3>4 DEF Admitted
  <2> QED
    BY <2>1, <2>2 DEF ApiInv, RequestInv, Entered
<1> QED
  BY <1>1, <1>2 DEF ApiInv, TypeOK, Shape, RequestInv, Settled

\* Who is first in line waits for a connection.
LEMMA FirstInLine ==
  ASSUME ApiInv, queue # << >>, NEW c, c = Head(queue)
  PROVE  /\ c \in Request /\ op[c].state = "queued"
         /\ c \in Range(queue) /\ Tail(queue) \in Seq(Request) /\ IsInjective(Tail(queue))
         /\ Range(Tail(queue)) = Range(queue) \ {c}
         /\ Range(queue) = {d \in Request : op[d].state = "queued"}
<1>1. /\ queue \in Seq(Request) /\ IsInjective(queue)
      /\ Range(queue) = {d \in Request : op[d].state = "queued"}
  BY DEF ApiInv, Shape, TypeOK
<1>2. /\ c \in Range(queue) /\ Tail(queue) \in Seq(Request) /\ IsInjective(Tail(queue))
      /\ Range(Tail(queue)) = Range(queue) \ {c}
  BY <1>1, QueueTail
<1> QED
  BY <1>1, <1>2

\* The one at the head of the queue leaves it.
LEMMA LeavesTheQueue ==
  ASSUME ApiInv, NEW c \in Request, queue # << >>, c = Head(queue), queue' = Tail(queue),
         NEW operation, op' = [op EXCEPT ![c] = operation], operation.state # "queued",
         operation.state = "sent" => Cardinality(Holding) < PoolSize,
         operation.state \in {"sent", "returned"}
  PROVE  Queueing'
<1>1. /\ c \in Range(queue) /\ Tail(queue) \in Seq(Request) /\ IsInjective(Tail(queue))
      /\ Range(Tail(queue)) = Range(queue) \ {c} /\ Range(queue) = {d \in Request : op[d].state = "queued"}
  BY FirstInLine
<1>2. op'[c] = operation /\ \A d \in Request \ {c} : op'[d] = op[d]
  BY DEF ApiInv, Shape
<1>3. Range(queue') = {d \in Request : op'[d].state = "queued"}
  BY <1>1, <1>2
<1>4. IsFiniteSet(Holding) /\ c \notin Holding
  BY <1>1, StoreAssumption, FS_Subset DEF Holding
<1>5. Holding' \subseteq Holding \cup {c} /\ (operation.state # "sent" => Holding' \subseteq Holding)
  BY <1>2 DEF Holding
<1>6. Cardinality(Holding') <= PoolSize
  <2>1. CASE operation.state = "sent"
    <3>1. Holding' = Holding \cup {c}
      BY <1>2, <2>1 DEF Holding
    <3>2. Cardinality(Holding') = Cardinality(Holding) + 1 /\ Cardinality(Holding) \in Nat
      BY <1>4, <3>1, FS_AddElement, FS_CardinalityType
    <3> QED
      BY <2>1, <3>2, StoreAssumption
  <2>2. CASE operation.state # "sent"
    BY <1>5, <2>2, FewerHold DEF ApiInv, TypeOK
  <2> QED
    BY <2>1, <2>2
<1> QED
  BY <1>1, <1>3, <1>6 DEF Queueing

\* A step that writes nothing moves one operation.
LEMMA QuietStep ==
  ASSUME ApiInv, NEW c \in Request, op[c].ask # None, op[c].state # "returned", NEW operation,
         op' = [op EXCEPT ![c] = operation], operation.ask = op[c].ask,
         IsOperation(operation), operation.state \in {"sent", "executed", "asking", "returned"},
         operation.state = "returned" <=> operation.result # None,
         UNCHANGED <<rows, landed, pool, req>>, orphans' \ {c} = orphans \ {c},
         Queueing', Settled(c)', Informed(c)'
  PROVE  ApiInv'
<1>1. SameAuthors
  BY DEF SameAuthors
<1>2. Grows /\ \A id \in TaskId : Recorded(id)'
  BY <1>1, RecordFrame
<1>3. rows' \in [TaskId -> Rows \cup {None}]
  BY DEF ApiInv, Shape
<1> QED
  BY <1>2, <1>3, OperationGoesOn

LEMMA GrantInv ==
  ASSUME ApiInv, Grant, UNCHANGED req, NEW c, c = Head(queue)
  PROVE  ApiInv'
<1> DEFINE operation == [op[c] EXCEPT !.state = "sent"]
<1>1. c \in Request /\ op[c].state = "queued"
  BY FirstInLine DEF Grant
<1>2. /\ op[c].ask # None /\ c \notin landed \cup orphans /\ op[c].result = None
      /\ IsOperation(op[c])
  BY <1>1, StateFacts
<1>3. /\ queue # << >> /\ queue' = Tail(queue) /\ op' = [op EXCEPT ![c] = operation]
      /\ UNCHANGED <<rows, pool, orphans, landed>>
      /\ Cardinality(Holding) < PoolSize
  BY DEF Grant
<1>4. /\ operation.ask = op[c].ask /\ operation.state = "sent" /\ operation.result = None
      /\ IsOperation(operation)
  BY <1>2 DEF IsOperation
<1> HIDE DEF operation
<1>5. op'[c] = operation
  BY <1>1, <1>3 DEF ApiInv, Shape
<1>6. Queueing'
  BY <1>1, <1>3, <1>4, LeavesTheQueue
<1>7. None \notin {"ok", "not_found", "conflict", "error"}
  BY NoneIsNoRow
<1>8. Settled(c)'
  BY <1>2, <1>3, <1>4, <1>5, <1>7 DEF Settled
<1>9. Informed(c)'
  BY <1>4, <1>5, <1>7 DEF Informed
<1> QED
  BY <1>1, <1>2, <1>3, <1>4, <1>6, <1>8, <1>9, QuietStep

\* What an operation that ends is left with.
IsRecord(o) == o = [ask |-> o.ask, state |-> o.state, reply |-> o.reply, result |-> o.result]

LEMMA StateSet ==
  ASSUME NEW o, NEW state, IsRecord(o)
  PROVE  [o EXCEPT !.state = state]
           = [ask |-> o.ask, state |-> state, reply |-> o.reply, result |-> o.result]
BY DEF IsRecord

LEMMA ResultSet ==
  ASSUME NEW o, NEW result, IsRecord(o)
  PROVE  [o EXCEPT !.result = result]
           = [ask |-> o.ask, state |-> o.state, reply |-> o.reply, result |-> result]
BY DEF IsRecord

LEMMA ReplySet ==
  ASSUME NEW o, NEW reply, IsRecord(o)
  PROVE  [o EXCEPT !.reply = reply]
           = [ask |-> o.ask, state |-> o.state, reply |-> reply, result |-> o.result]
BY DEF IsRecord

LEMMA EndedRecord ==
  ASSUME NEW o, NEW c, o = op[c], NEW result, IsRecord(o)
  PROVE  Ended(c, result)
           = [ask |-> o.ask, state |-> "returned", reply |-> o.reply, result |-> result]
<1> DEFINE back == [o EXCEPT !.state = "returned"]
<1>1. back = [ask |-> o.ask, state |-> "returned", reply |-> o.reply, result |-> o.result]
  BY StateSet
<1>2. [o EXCEPT !.state = "returned", !.result = result] = [back EXCEPT !.result = result]
  OBVIOUS
<1>3. IsRecord(back)
  BY <1>1 DEF IsRecord
<1> HIDE DEF back
<1>4. [back EXCEPT !.result = result]
        = [ask |-> back.ask, state |-> back.state, reply |-> back.reply, result |-> result]
  BY <1>3, ResultSet
<1> QED
  BY <1>1, <1>2, <1>4 DEF Ended

LEMMA EndedFields ==
  ASSUME NEW c, IsOperation(op[c]), NEW result \in {"ok", "not_found", "conflict", "error"}
  PROVE  /\ Ended(c, result).ask = op[c].ask /\ Ended(c, result).state = "returned"
         /\ Ended(c, result).result = result /\ Ended(c, result).reply = op[c].reply
         /\ IsOperation(Ended(c, result))
<1>1. IsRecord(op[c])
  BY DEF IsOperation, IsRecord
<1>2. Ended(c, result) = [ask |-> op[c].ask, state |-> "returned",
                          reply |-> op[c].reply, result |-> result]
  BY <1>1, EndedRecord
<1> QED
  BY <1>2 DEF IsOperation

LEMMA TurnedAwayInv ==
  ASSUME ApiInv, TurnedAway, UNCHANGED req, NEW c, c = Head(queue)
  PROVE  ApiInv'
<1> DEFINE operation == Ended(c, "error")
<1>1. c \in Request /\ op[c].state = "queued"
  BY FirstInLine DEF TurnedAway
<1>2. /\ op[c].ask # None /\ c \notin landed \cup orphans /\ op[c].result = None
      /\ IsOperation(op[c])
  BY <1>1, StateFacts
<1>3. /\ queue # << >> /\ queue' = Tail(queue) /\ op' = [op EXCEPT ![c] = operation]
      /\ UNCHANGED <<rows, pool, orphans, landed>>
  BY DEF TurnedAway, EndsWith
<1>4. /\ operation.ask = op[c].ask /\ operation.state = "returned" /\ operation.result = "error"
      /\ IsOperation(operation)
  BY <1>2, EndedFields
<1> HIDE DEF operation
<1>5. op'[c] = operation
  BY <1>1, <1>3 DEF ApiInv, Shape
<1>6. Queueing'
  BY <1>1, <1>3, <1>4, LeavesTheQueue
<1>7. None \notin {"ok", "not_found", "conflict", "error"}
  BY NoneIsNoRow
<1>8. Settled(c)'
  BY <1>2, <1>3, <1>4, <1>5, <1>7 DEF Settled
<1>9. Informed(c)'
  BY <1>4, <1>5, <1>7 DEF Informed
<1> QED
  BY <1>1, <1>2, <1>3, <1>4, <1>6, <1>7, <1>8, <1>9, QuietStep

LEMMA CloseInv ==
  ASSUME ApiInv, Close \/ Closed, UNCHANGED req
  PROVE  ApiInv'
<1>1. UNCHANGED <<rows, queue, op, orphans, landed, req>> /\ pool' \in {"open", "closing", "closed"}
  BY DEF Close, Closed
<1>2. SameAuthors
  BY <1>1 DEF SameAuthors
<1>3. Grows /\ \A id \in TaskId : Recorded(id)'
  BY <1>1, <1>2, RecordFrame
<1>4. Shape' /\ TypeOK'
  <2>1. Shape'
    BY <1>1 DEF ApiInv, Shape, IsOperation, IsRequest
  <2>2. Holding' = Holding
    BY <1>1 DEF Holding
  <2> QED
    BY <1>1, <2>1, <2>2 DEF ApiInv, TypeOK
<1>5. ASSUME NEW d \in Request
      PROVE  RequestInv(d)'
  BY <1>1, <1>2, <1>3, <1>4, RequestFrame DEF Shape
<1> QED
  BY <1>3, <1>4, <1>5 DEF ApiInv

----------------------------------------------------------------------------
(* Statements.                                                             *)

\* Who holds a connection keeps it, or gives it back.
LEMMA KeepsTheQueue ==
  ASSUME ApiInv, NEW c \in Request, c \in Holding, UNCHANGED queue,
         NEW operation, op' = [op EXCEPT ![c] = operation],
         operation.state \in {"executed", "asking", "returned"}
  PROVE  Queueing'
<1>1. op'[c] = operation /\ \A d \in Request \ {c} : op'[d] = op[d]
  BY DEF ApiInv, Shape
<1>2. Queueing /\ op[c].state # "queued"
  BY StateFacts DEF Holding
<1>3. Range(queue') = {d \in Request : op'[d].state = "queued"}
  BY <1>1, <1>2 DEF Queueing
<1>4. Holding' \subseteq Holding
  BY <1>1 DEF Holding
<1>5. Cardinality(Holding') <= PoolSize
  BY <1>2, <1>4, FewerHold DEF Queueing
<1> QED
  BY <1>2, <1>3, <1>5 DEF Queueing

\* What is known of an operation that holds a connection.
LEMMA HoldingFacts ==
  ASSUME ApiInv, NEW c \in Request, c \in Holding
  PROVE  /\ op[c].ask # None /\ op[c].state # "returned" /\ op[c].result = None
         /\ c \notin orphans /\ IsOperation(op[c]) /\ Settled(c) /\ Informed(c)
<1>1. op[c].state \in {"sent", "executed", "asking"}
  BY DEF Holding
<1> QED
  BY <1>1, StateFacts DEF ApiInv, RequestInv

\* A row that is read and readable is one that was read.
LEMMA ReadsTheRow ==
  ASSUME ApiInv, NEW id \in TaskId, rows[id] # None, rows[id].readable
  PROVE  ReadFrom(id, rows[id].task)
BY VersionTypes DEF ApiInv, ReadFrom, Recorded

LEMMA StatementFailsInv ==
  ASSUME ApiInv, NEW c \in Request, StatementFails(c), UNCHANGED req
  PROVE  ApiInv'
<1> DEFINE operation == Ended(c, "error")
<1>1. /\ c \in Holding /\ op' = [op EXCEPT ![c] = operation]
      /\ UNCHANGED <<rows, pool, queue, landed>>
      /\ \/ UNCHANGED orphans
         \/ op[c].state = "sent" /\ op[c].ask.kind \in Writes /\ orphans' = orphans \cup {c}
  BY DEF StatementFails, EndsWith
<1>2. /\ op[c].ask # None /\ op[c].state # "returned" /\ op[c].result = None
      /\ c \notin orphans /\ IsOperation(op[c]) /\ Settled(c)
  BY <1>1, HoldingFacts
<1>3. /\ operation.ask = op[c].ask /\ operation.state = "returned" /\ operation.result = "error"
      /\ IsOperation(operation)
  BY <1>2, EndedFields
<1> HIDE DEF operation
<1>4. op'[c] = operation
  BY <1>1 DEF ApiInv, Shape
<1>5. Queueing'
  BY <1>1, <1>3, KeepsTheQueue
<1>6. None \notin {"ok", "not_found", "conflict", "error"}
  BY NoneIsNoRow
<1>7. op[c].state = "sent" => c \notin landed
  BY StateFacts
<1>8. Settled(c)'
  BY <1>1, <1>2, <1>3, <1>4, <1>6, <1>7 DEF Settled, Writing
<1>9. Informed(c)'
  BY <1>3, <1>4 DEF Informed
<1>10. orphans' \ {c} = orphans \ {c}
  BY <1>1
<1> QED
  BY <1>1, <1>2, <1>3, <1>5, <1>6, <1>8, <1>9, <1>10, QuietStep

LEMMA OrphanEndsInv ==
  ASSUME ApiInv, NEW c \in Request, OrphanEnds(c), UNCHANGED req
  PROVE  ApiInv'
<1>1. /\ c \in orphans /\ orphans' = orphans \ {c} /\ UNCHANGED <<pool, queue, op>>
      /\ Land(c) \/ UNCHANGED <<rows, landed>>
  BY DEF OrphanEnds
<1>2. /\ RequestInv(c) /\ Writing(c) /\ c \notin landed
      /\ op[c].state = "returned" /\ op[c].result = "error"
  BY <1>1 DEF ApiInv, RequestInv, Settled
<1>3. SameAuthors
  BY DEF SameAuthors
<1>4. /\ rows' \in [TaskId -> Rows \cup {None}]
      /\ Grows /\ \A id \in TaskId : Recorded(id)'
      /\ landed' = landed \/ (/\ landed' = landed \cup {c} /\ rows'[op[c].ask.id] # None
                              /\ rows'[op[c].ask.id].task = op[c].ask.task)
  <2>1. CASE Land(c)
    BY <1>2, <2>1, LandFacts
  <2>2. CASE UNCHANGED <<rows, landed>>
    BY <1>3, <2>2, RecordFrame DEF ApiInv, Shape
  <2> QED
    BY <1>1, <2>1, <2>2
<1>5. op[c].ask.task.version \in Nat
  BY <1>2, OperationFacts DEF Writing, AgentTask
<1>6. Settled(c)'
  BY <1>1, <1>2, <1>4, <1>5 DEF Settled, Writing
<1>7. Informed(c)'
  BY <1>1, <1>2 DEF Informed, Writing, Writes
<1>8. Answered(c)'
  BY <1>1, <1>2 DEF Answered, RequestInv, Writing
<1>9. Entered(c)'
  BY <1>1, <1>3, <1>4, StillEntered
<1>10. Queueing /\ IsOperation(op[c]) /\ IsRequest(req[c])
  BY StateFacts DEF ApiInv, Shape
<1>11. Queueing'
  <2>1. Holding' = Holding
    BY <1>1 DEF Holding
  <2> QED
    BY <1>1, <1>10, <2>1 DEF Queueing
<1>12. /\ op' = [op EXCEPT ![c] = op[c]] /\ req' = [req EXCEPT ![c] = req[c]]
       /\ pool' \in {"open", "closing", "closed"}
       /\ IsStatus(req[c].status)
       /\ op[c].state \in {"idle", "queued", "sent", "executed", "asking", "returned"}
       /\ op[c].state = "returned" <=> op[c].result # None
  <2>1. op' = [op EXCEPT ![c] = op[c]]
    BY <1>1 DEF ApiInv, Shape
  <2>2. req' = [req EXCEPT ![c] = req[c]]
    BY DEF ApiInv, Shape
  <2>3. pool' \in {"open", "closing", "closed"}
    BY <1>1 DEF ApiInv, TypeOK
  <2>4. op[c].state = "returned" <=> op[c].result # None
    BY StateFacts
  <2>5. /\ IsStatus(req[c].status)
        /\ op[c].state \in {"idle", "queued", "sent", "executed", "asking", "returned"}
    BY DEF ApiInv, TypeOK, IsStatus
  <2> QED
    BY <2>1, <2>2, <2>3, <2>4, <2>5
<1>13. landed' \ {c} = landed \ {c} /\ orphans' \ {c} = orphans \ {c}
  BY <1>1, <1>4
<1> QED
  BY <1>3, <1>4, <1>6, <1>7, <1>8, <1>9, <1>10, <1>11, <1>12, <1>13, OneRequestMoves DEF RequestInv

\* A statement that has been executed, and what it has answered.
LEMMA ExecutedFields ==
  ASSUME NEW c \in Request, IsOperation(op[c]), op[c].result = None, NEW reply
  PROVE  LET operation == [op[c] EXCEPT !.state = "executed", !.reply = reply] IN
         /\ operation.ask = op[c].ask /\ operation.state = "executed"
         /\ operation.result = None /\ operation.reply = reply
         /\ IsOperation(operation)
<1>1. PICK o : o = op[c] /\ IsRecord(o)
  BY DEF IsOperation, IsRecord
<1> DEFINE done == [o EXCEPT !.state = "executed"]
<1>2. done = [ask |-> o.ask, state |-> "executed", reply |-> o.reply, result |-> o.result]
  BY <1>1, StateSet
<1>3. [o EXCEPT !.state = "executed", !.reply = reply] = [done EXCEPT !.reply = reply]
  OBVIOUS
<1>4. IsRecord(done)
  BY <1>2 DEF IsRecord
<1> HIDE DEF done
<1>5. [done EXCEPT !.reply = reply]
        = [ask |-> done.ask, state |-> done.state, reply |-> reply, result |-> done.result]
  BY <1>4, ReplySet
<1>6. [o EXCEPT !.state = "executed", !.reply = reply]
        = [ask |-> o.ask, state |-> "executed", reply |-> reply, result |-> o.result]
  BY <1>2, <1>3, <1>5
<1> QED
  BY <1>1, <1>6 DEF IsOperation

LEMMA ExecuteInv ==
  ASSUME ApiInv, NEW c \in Request, Execute(c), UNCHANGED req
  PROVE  ApiInv'
<1> DEFINE operation == [op[c] EXCEPT !.state = "executed", !.reply = Reply(op[c].ask)]
           ask == op[c].ask
<1>1. /\ op[c].state = "sent" /\ Land(c) /\ op' = [op EXCEPT ![c] = operation]
      /\ UNCHANGED <<pool, queue, orphans>>
  BY DEF Execute
<1>2. c \in Holding
  BY <1>1 DEF Holding
<1>3. /\ ask # None /\ op[c].state # "returned" /\ op[c].result = None
      /\ c \notin orphans \cup landed /\ IsOperation(op[c])
  BY <1>1, <1>2, HoldingFacts, StateFacts
<1>4. /\ operation.ask = ask /\ operation.state = "executed" /\ operation.result = None
      /\ operation.reply = Reply(ask) /\ IsOperation(operation)
  BY <1>3, ExecutedFields
<1> HIDE DEF operation
<1>5. op'[c] = operation
  BY <1>1 DEF ApiInv, Shape
<1>6. Queueing'
  BY <1>1, <1>2, <1>4, KeepsTheQueue
<1>7. None \notin {"ok", "not_found", "conflict", "error"}
  BY NoneIsNoRow
<1>8. SameAuthors
  BY DEF SameAuthors
<1>9. orphans' \ {c} = orphans \ {c}
  BY <1>1
<1>10. CASE Writing(c)
  <2>1. /\ rows' \in [TaskId -> Rows \cup {None}] /\ Grows /\ \A id \in TaskId : Recorded(id)'
        /\ landed' = IF Applies(ask) THEN landed \cup {c} ELSE landed
        /\ Applies(ask) => rows'[ask.id] # None /\ rows'[ask.id].task = ask.task
        /\ ~Applies(ask) /\ ask.kind = "update" => Overwritten(c)
    BY <1>1, <1>3, <1>10, LandFacts
  <2>2. ask.task.version \in Nat /\ ask.kind \in {"insert", "update"}
    BY <1>10, OperationFacts DEF Writing, AgentTask, Writes
  <2>3. operation.reply = (c \in landed')
    <3>1. CASE ask.kind = "insert"
      <4>1. Reply(ask) = (rows[ask.id] = None) /\ (Applies(ask) <=> rows[ask.id] = None)
        BY <3>1 DEF Reply, Applies
      <4> QED
        BY <1>3, <1>4, <2>1, <4>1
    <3>2. CASE ask.kind = "update"
      <4>1. /\ Reply(ask) = (rows[ask.id] # None /\ rows[ask.id].task.version = ask.expected)
            /\ Applies(ask) <=> (rows[ask.id] # None /\ rows[ask.id].task.version = ask.expected)
        BY <3>2 DEF Reply, Applies, Matches
      <4> QED
        BY <1>3, <1>4, <2>1, <4>1
    <3> QED
      BY <2>2, <3>1, <3>2
  <2>4. c \notin landed' /\ ask.kind = "update" => Overwritten(c)'
    <3>1. c \notin landed' => ~Applies(ask) /\ UNCHANGED rows
      BY <1>1, <2>1 DEF Land
    <3> QED
      BY <1>4, <1>5, <2>1, <3>1 DEF Overwritten, Writing
  <2>5. Settled(c)'
    BY <1>1, <1>3, <1>4, <1>5, <1>7, <1>10, <2>1, <2>2, <2>3, <2>4 DEF Settled, Writing
  <2>6. Informed(c)'
    BY <1>4, <1>5, <2>2 DEF Informed
  <2>7. landed' \ {c} = landed \ {c}
    BY <2>1
  <2> QED
    BY <1>1, <1>3, <1>4, <1>6, <1>9, <2>1, <2>5, <2>6, <2>7, OperationGoesOn
<1>11. CASE ~Writing(c)
  <2>1. ask.kind \in {"select", "list"}
    BY <1>3, <1>11, OperationFacts DEF Writing, Writes
  <2>2. UNCHANGED <<rows, landed>>
    BY <1>1, <2>1 DEF Land, Applies
  <2>3. Settled(c)'
    BY <1>1, <1>3, <1>4, <1>5, <1>7, <1>11, <2>2 DEF Settled, Writing
  <2>4. Informed(c)'
    <3> SUFFICES ASSUME ask.kind = "select"
                 PROVE  Informed(c)'
      BY <1>4, <1>5 DEF Informed
    <3>1. /\ operation.reply = rows[ask.id] /\ ask.id \in TaskId
          /\ rows[ask.id] \in Rows \cup {None}
      <4>1. ask.id \in TaskId
        <5>1. ask = Select(req[c].id) /\ req[c].id \in TaskId
          BY <1>3, OperationFacts
        <5> QED
          BY <5>1 DEF Select
      <4> QED
        BY <1>4, <4>1 DEF Reply, ApiInv, Shape
    <3>2. rows[ask.id] # None /\ rows[ask.id].readable => ReadFrom(ask.id, rows[ask.id].task)
      BY <3>1, ReadsTheRow
    <3>3. Grows
      BY <1>8, <2>2, RecordFrame
    <3>4. \A id, task : ReadFrom(id, task) => ReadFrom(id, task)'
      BY <1>8, <2>2, <3>3, ReadFromGrows DEF ApiInv, Shape
    <3>5. rows[ask.id] # None /\ rows[ask.id].readable => ReadFrom(op[c].ask.id, op[c].reply.task)'
      <4>1. PICK id, task : id = ask.id /\ task = rows[ask.id].task
        OBVIOUS
      <4>2. rows[ask.id] # None /\ rows[ask.id].readable => ReadFrom(id, task)'
        BY <3>2, <3>4, <4>1
      <4>3. op'[c].ask.id = id /\ op'[c].reply.task = task
        BY <1>4, <1>5, <3>1, <4>1
      <4> QED
        BY <4>2, <4>3 DEF ReadFrom, Signed
    <3> QED
      BY <1>4, <1>5, <3>1, <3>5 DEF Informed
  <2> QED
    BY <1>1, <1>3, <1>4, <1>6, <1>9, <2>2, <2>3, <2>4, QuietStep
<1> QED
  BY <1>10, <1>11

\* What was read stays read while nothing is written.
LEMMA ReadingStays ==
  ASSUME ApiInv, NEW c \in Request, UNCHANGED <<rows, landed, req>>,
         NEW id, NEW task, ReadFrom(id, task), op'[c].ask.id = id, op'[c].reply.task = task
  PROVE  ReadFrom(op[c].ask.id, op[c].reply.task)'
<1>1. SameAuthors
  BY DEF SameAuthors
<1>2. Grows
  BY <1>1, RecordFrame
<1>3. ReadFrom(id, task)'
  BY <1>1, <1>2, ReadFromGrows DEF ApiInv, Shape
<1> QED
  BY <1>3 DEF ReadFrom, Signed

LEMMA ReceiveInv ==
  ASSUME ApiInv, NEW c \in Request, Receive(c), UNCHANGED req
  PROVE  ApiInv'
<1> DEFINE ask    == op[c].ask
           result == Outcome(ask, op[c].reply)
<1>1. /\ op[c].state = "executed" /\ UNCHANGED <<rows, pool, queue, orphans, landed>>
      /\ op' = [op EXCEPT ![c] =
                  IF ask.kind # "update" THEN Ended(c, result)
                  ELSE IF op[c].reply THEN Ended(c, "ok")
                  ELSE [op[c] EXCEPT !.state = "asking"]]
  BY DEF Receive
<1>2. c \in Holding
  BY <1>1 DEF Holding
<1>3. /\ ask # None /\ op[c].state # "returned" /\ op[c].result = None
      /\ c \notin orphans /\ IsOperation(op[c]) /\ Settled(c) /\ Informed(c)
  BY <1>2, HoldingFacts
<1>4. None \notin {"ok", "not_found", "conflict", "error"}
  BY NoneIsNoRow
<1>5. ask.kind \in {"insert", "select", "list", "update"}
  BY <1>3, OperationFacts
<1>6. Writing(c) => op[c].reply = (c \in landed)
  BY <1>1, <1>3 DEF Settled
<1>7. c \in landed => Writing(c)
  BY <1>3 DEF Settled
<1>8. CASE ask.kind # "update"
  <2> DEFINE operation == Ended(c, result)
  <2>1. /\ result \in {"ok", "not_found", "conflict", "error"}
        /\ ask.kind = "insert" => (result = "ok" <=> c \in landed)
                                  /\ (result = "error" <=> c \notin landed)
        /\ result # "conflict"
        /\ ask.kind = "select" /\ result = "ok" => op[c].reply # None /\ op[c].reply.readable
    <3>1. CASE ask.kind = "insert"
      BY <1>3, <1>6, <3>1 DEF Outcome, Writing, Writes
    <3>2. CASE ask.kind = "select"
      BY <3>2 DEF Outcome, ToTask
    <3>3. CASE ask.kind = "list"
      BY <3>3 DEF Outcome, ToTask
    <3> QED
      BY <1>5, <1>8, <3>1, <3>2, <3>3
  <2> HIDE DEF result
  <2>2. /\ operation.ask = ask /\ operation.state = "returned" /\ operation.result = result
        /\ operation.reply = op[c].reply /\ IsOperation(operation)
    BY <1>3, <2>1, EndedFields
  <2>3. op' = [op EXCEPT ![c] = operation]
    BY <1>1, <1>8
  <2> HIDE DEF operation
  <2>4. op'[c] = operation
    BY <2>3 DEF ApiInv, Shape
  <2>5. Queueing'
    BY <1>1, <1>2, <2>2, <2>3, KeepsTheQueue
  <2>6. Writing(c) => ask.kind = "insert"
    BY <1>8 DEF Writing, Writes
  <2>7. Settled(c)'
    BY <1>1, <1>3, <1>7, <2>1, <2>2, <2>4, <2>6 DEF Settled, Writing
  <2>8. Informed(c)'
    <3> SUFFICES ASSUME ask.kind = "select", result = "ok"
                 PROVE  ReadFrom(op[c].ask.id, op[c].reply.task)'
      BY <2>2, <2>4 DEF Informed
    <3>1. ReadFrom(ask.id, op[c].reply.task)
      BY <1>1, <1>3, <2>1 DEF Informed
    <3>2. op'[c].ask.id = ask.id /\ op'[c].reply.task = op[c].reply.task
      BY <2>2, <2>4
    <3> QED
      BY <1>1, <3>1, <3>2, ReadingStays
  <2> QED
    BY <1>1, <1>3, <1>4, <2>1, <2>2, <2>3, <2>5, <2>7, <2>8, QuietStep
<1>9. CASE ask.kind = "update" /\ op[c].reply
  <2> DEFINE operation == Ended(c, "ok")
  <2>1. c \in landed
    BY <1>3, <1>6, <1>9 DEF Writing, Writes
  <2>2. /\ operation.ask = ask /\ operation.state = "returned" /\ operation.result = "ok"
        /\ IsOperation(operation)
    BY <1>3, EndedFields
  <2>3. op' = [op EXCEPT ![c] = operation]
    BY <1>1, <1>9
  <2> HIDE DEF operation
  <2>4. op'[c] = operation
    BY <2>3 DEF ApiInv, Shape
  <2>5. Queueing'
    BY <1>1, <1>2, <2>2, <2>3, KeepsTheQueue
  <2>6. Settled(c)'
    BY <1>1, <1>3, <2>1, <2>2, <2>4 DEF Settled, Writing
  <2>7. Informed(c)'
    BY <1>9, <2>2, <2>4 DEF Informed
  <2> QED
    BY <1>1, <1>3, <1>4, <2>2, <2>3, <2>5, <2>6, <2>7, QuietStep
<1>10. CASE ask.kind = "update" /\ ~op[c].reply
  <2> DEFINE operation == [op[c] EXCEPT !.state = "asking"]
  <2>1. c \notin landed /\ Writing(c) /\ Overwritten(c)
    BY <1>1, <1>3, <1>6, <1>10 DEF Writing, Writes, Settled
  <2>2. /\ operation.ask = ask /\ operation.state = "asking" /\ operation.result = None
        /\ IsOperation(operation)
    BY <1>3 DEF IsOperation
  <2>3. op' = [op EXCEPT ![c] = operation]
    BY <1>1, <1>10
  <2> HIDE DEF operation
  <2>4. op'[c] = operation
    BY <2>3 DEF ApiInv, Shape
  <2>5. Queueing'
    BY <1>1, <1>2, <2>2, <2>3, KeepsTheQueue
  <2>6. Settled(c)'
    BY <1>1, <1>3, <1>4, <2>1, <2>2, <2>4 DEF Settled, Writing, Overwritten
  <2>7. Informed(c)'
    BY <1>10, <2>2, <2>4 DEF Informed
  <2> QED
    BY <1>1, <1>3, <2>2, <2>3, <2>5, <2>6, <2>7, QuietStep
<1> QED
  BY <1>8, <1>9, <1>10

LEMMA DiagnoseInv ==
  ASSUME ApiInv, NEW c \in Request, Diagnose(c), UNCHANGED req
  PROVE  ApiInv'
<1> DEFINE row == rows[op[c].ask.id]
           back == Ended(c, "conflict")
           operation == [back EXCEPT !.reply = row.task.version]
<1>1. op[c].state = "asking" /\ UNCHANGED <<rows, pool, queue, orphans, landed>>
  BY DEF Diagnose
<1>2. c \in Holding
  BY <1>1 DEF Holding
<1>3. /\ op[c].ask # None /\ op[c].state # "returned" /\ op[c].result = None
      /\ c \notin orphans /\ IsOperation(op[c]) /\ Settled(c)
  BY <1>2, HoldingFacts
<1>4. Overwritten(c) /\ Writing(c) /\ row # None
  BY <1>1, <1>3 DEF Settled, Overwritten
<1>5. op' = [op EXCEPT ![c] = operation]
  BY <1>4 DEF Diagnose
<1>6. /\ back.ask = op[c].ask /\ back.state = "returned" /\ back.result = "conflict"
      /\ IsOperation(back)
  BY <1>3, EndedFields
<1> HIDE DEF back
<1>7. /\ operation.ask = op[c].ask /\ operation.state = "returned" /\ operation.result = "conflict"
      /\ IsOperation(operation)
  <2>1. operation = [ask |-> back.ask, state |-> back.state, reply |-> row.task.version,
                     result |-> back.result]
    BY <1>6, ReplySet DEF IsOperation, IsRecord
  <2> QED
    BY <1>6, <2>1 DEF IsOperation
<1> HIDE DEF operation
<1>8. op'[c] = operation
  BY <1>5 DEF ApiInv, Shape
<1>9. Queueing'
  BY <1>1, <1>2, <1>5, <1>7, KeepsTheQueue
<1>10. None \notin {"ok", "not_found", "conflict", "error"}
  BY NoneIsNoRow
<1>11. Settled(c)'
  BY <1>1, <1>3, <1>4, <1>7, <1>8 DEF Settled, Writing, Overwritten
<1>12. Informed(c)'
  BY <1>4, <1>7, <1>8 DEF Informed, Overwritten
<1> QED
  BY <1>1, <1>3, <1>5, <1>7, <1>9, <1>10, <1>11, <1>12, QuietStep

LEMMA StoreNextInv ==
  ASSUME ApiInv, StoreNext, UNCHANGED req
  PROVE  ApiInv'
BY GrantInv, TurnedAwayInv, CloseInv, ExecuteInv, StatementFailsInv, OrphanEndsInv, ReceiveInv,
   DiagnoseInv DEF StoreNext

----------------------------------------------------------------------------
(* The steps of requests.                                                  *)

\* What a request may do it may still do when its status is set.
LEMMA StillAdmitted ==
  ASSUME ApiInv, SameAuthors, Grows, rows' \in [TaskId -> Rows \cup {None}],
         NEW d \in Request, Admitted(d), op'[d].ask = op[d].ask,
         req'[d].status \notin {401, 403}
  PROVE  Admitted(d)'
<1>1. /\ req'[d].route = req[d].route /\ req'[d].by = req[d].by /\ req'[d].id = req[d].id
  BY ApiAssumption DEF Admitted, SameAuthors
<1>2. Follows(d) => Follows(d)'
  <2> SUFFICES ASSUME NEW task \in AgentTask, CanTransition(task, Target[req[d].route]),
                      ReadFrom(req[d].id, task), op[d].ask = TransitionOf(d, task)
               PROVE  Follows(d)'
    BY DEF Follows
  <2>1. ReadFrom(req[d].id, task)'
    <3>1. \A id : id = req[d].id => ReadFrom(id, task)'
      BY ReadFromGrows
    <3> QED
      BY <1>1, <3>1 DEF ReadFrom, Signed
  <2> QED
    BY <1>1, <2>1 DEF Follows, TransitionOf
<1> QED
  BY <1>1, <1>2 DEF Admitted

\* A request that gets to the store queues for a connection, or fails.
LEMMA BeginFacts ==
  ASSUME ApiInv, NEW c \in Request, NEW ask, Begin(c, ask)
  PROVE  /\ op' = [op EXCEPT ![c] = op'[c]] /\ IsOperation(op'[c])
         /\ op'[c].ask = ask
         /\ \/ /\ op'[c].state = "queued" /\ op'[c].result = None /\ queue' = Append(queue, c)
            \/ /\ op'[c].state = "returned" /\ op'[c].result = "error" /\ queue' = queue
<1>1. Begun(ask) = [ask |-> ask, state |-> "queued", reply |-> None, result |-> None]
  <2> DEFINE asked == [NoOp EXCEPT !.ask = ask]
  <2>1. asked = [ask |-> ask, state |-> "idle", reply |-> None, result |-> None]
    BY DEF NoOp
  <2>2. Begun(ask) = [asked EXCEPT !.state = "queued"]
    BY DEF Begun
  <2> HIDE DEF asked
  <2>3. [asked EXCEPT !.state = "queued"]
          = [ask |-> ask, state |-> "queued", reply |-> None, result |-> None]
    BY <2>1
  <2> QED
    BY <2>2, <2>3
<1>2. [Begun(ask) EXCEPT !.state = "returned", !.result = "error"]
        = [ask |-> ask, state |-> "returned", reply |-> None, result |-> "error"]
  <2>1. PICK begun : begun = Begun(ask)
    OBVIOUS
  <2> DEFINE back == [begun EXCEPT !.state = "returned"]
  <2>2. back = [ask |-> ask, state |-> "returned", reply |-> None, result |-> None]
    BY <1>1, <2>1
  <2>3. [begun EXCEPT !.state = "returned", !.result = "error"] = [back EXCEPT !.result = "error"]
    OBVIOUS
  <2> HIDE DEF back
  <2>4. [back EXCEPT !.result = "error"]
          = [ask |-> ask, state |-> "returned", reply |-> None, result |-> "error"]
    BY <2>2
  <2> QED
    BY <2>1, <2>3, <2>4
<1>3. CASE pool = "open"
  <2>1. op' = [op EXCEPT ![c] = Begun(ask)] /\ queue' = Append(queue, c)
    BY <1>3 DEF Begin
  <2>2. op'[c] = Begun(ask)
    BY <2>1 DEF ApiInv, Shape
  <2>3. op'[c] = [ask |-> ask, state |-> "queued", reply |-> None, result |-> None]
    BY <1>1, <2>2
  <2>4. IsOperation(op'[c])
    BY <2>3 DEF IsOperation
  <2>5. op' = [op EXCEPT ![c] = op'[c]]
    BY <2>1, <2>2
  <2>6. op'[c].ask = ask /\ op'[c].state = "queued" /\ op'[c].result = None
    BY <2>3
  <2> QED
    BY <2>1, <2>4, <2>5, <2>6
<1>4. CASE pool # "open"
  <2>1. /\ op' = [op EXCEPT ![c] = [Begun(ask) EXCEPT !.state = "returned", !.result = "error"]]
        /\ queue' = queue
    BY <1>4 DEF Begin
  <2>2. op'[c] = [Begun(ask) EXCEPT !.state = "returned", !.result = "error"]
    BY <2>1 DEF ApiInv, Shape
  <2> QED
    BY <1>2, <2>1, <2>2 DEF IsOperation
<1> QED
  BY <1>3, <1>4

LEMMA BeginMoves ==
  ASSUME ApiInv, NEW c \in Request, NEW ask, Begin(c, ask), op[c].state \in {"idle", "returned"},
         c \notin landed \cup orphans,
         NEW request, req' = [req EXCEPT ![c] = request], IsRequest(request),
         request.status = None, SameAuthors, Entered(c)'
  PROVE  ApiInv'
<1>1. UNCHANGED <<rows, pool, orphans, landed>>
  BY DEF Begin
<1>2. /\ op' = [op EXCEPT ![c] = op'[c]] /\ IsOperation(op'[c])
      /\ op'[c].ask = ask
      /\ \/ /\ op'[c].state = "queued" /\ op'[c].result = None /\ queue' = Append(queue, c)
         \/ /\ op'[c].state = "returned" /\ op'[c].result = "error" /\ queue' = queue
  BY BeginFacts
<1>3. Grows /\ \A id \in TaskId : Recorded(id)'
  BY <1>1, RecordFrame
<1>4. rows' \in [TaskId -> Rows \cup {None}] /\ pool' \in {"open", "closing", "closed"}
  BY <1>1 DEF ApiInv, Shape, TypeOK
<1>5. \A d \in Request \ {c} : op'[d] = op[d]
  BY <1>2 DEF ApiInv, Shape
<1>6. req'[c] = request
  BY DEF ApiInv, Shape
<1>7. None \notin {"ok", "not_found", "conflict", "error"}
  BY NoneIsNoRow
<1>8. Queueing'
  <2>1. Queueing /\ c \notin Range(queue)
    BY StateFacts DEF Queueing
  <2>2. /\ queue' \in Seq(Request) /\ IsInjective(queue')
        /\ Range(queue') = {d \in Request : op'[d].state = "queued"}
    <3>1. CASE op'[c].state = "queued" /\ queue' = Append(queue, c)
      <4>1. /\ Append(queue, c) \in Seq(Request) /\ IsInjective(Append(queue, c))
            /\ Range(Append(queue, c)) = Range(queue) \cup {c}
        BY <2>1, QueueAppend DEF Queueing
      <4> QED
        BY <1>5, <2>1, <3>1, <4>1 DEF Queueing
    <3>2. CASE op'[c].state = "returned" /\ queue' = queue
      BY <1>5, <2>1, <3>2 DEF Queueing
    <3> QED
      BY <1>2, <3>1, <3>2
  <2>3. Holding' \subseteq Holding
    BY <1>2, <1>5 DEF Holding
  <2>4. Cardinality(Holding') <= PoolSize
    BY <2>1, <2>3, FewerHold DEF Queueing
  <2> QED
    BY <2>2, <2>4 DEF Queueing
<1>9. Settled(c)'
  BY <1>1, <1>2, <1>7 DEF Settled
<1>10. Informed(c)'
  BY <1>2, <1>7 DEF Informed
<1>11. Answered(c)'
  BY <1>6 DEF Answered
<1>12. RequestInv(c)'
  BY <1>9, <1>10, <1>11 DEF RequestInv
<1>13. landed' \ {c} = landed \ {c} /\ orphans' \ {c} = orphans \ {c}
  BY <1>1
<1>14. /\ op'[c].state \in {"idle", "queued", "sent", "executed", "asking", "returned"}
       /\ op'[c].state = "returned" <=> op'[c].result # None
       /\ IsStatus(request.status)
  BY <1>2, <1>7 DEF IsStatus
<1> QED
  BY <1>2, <1>3, <1>4, <1>8, <1>12, <1>13, <1>14, OneRequestMoves

\* A request is answered.
LEMMA StatusSet ==
  ASSUME ApiInv, NEW c \in Request, UNCHANGED storeVars,
         NEW request, req' = [req EXCEPT ![c] = request], IsRequest(request),
         IsStatus(request.status),
         SameAuthors, Entered(c)', Answered(c)'
  PROVE  ApiInv'
<1>1. UNCHANGED <<rows, pool, queue, op, orphans, landed>>
  BY DEF storeVars
<1>2. Grows /\ \A id \in TaskId : Recorded(id)'
  BY <1>1, RecordFrame
<1>3. rows' \in [TaskId -> Rows \cup {None}] /\ pool' \in {"open", "closing", "closed"}
  BY <1>1 DEF ApiInv, Shape, TypeOK
<1>4. Queueing'
  <2>1. Holding' = Holding
    BY <1>1 DEF Holding
  <2> QED
    BY <1>1, <2>1, StateFacts DEF Queueing
<1>5. Settled(c)'
  BY <1>1 DEF ApiInv, RequestInv, Settled, Writing, Overwritten
<1>6. Informed(c)'
  <2>1. Informed(c)
    BY DEF ApiInv, RequestInv
  <2>2. \A id, task : id = op[c].ask.id /\ task = op[c].reply.task /\ ReadFrom(id, task) =>
          ReadFrom(id, task)'
    BY <1>2, <1>3, ReadFromGrows
  <2>3. ReadFrom(op[c].ask.id, op[c].reply.task) => ReadFrom(op[c].ask.id, op[c].reply.task)'
    BY <1>1, <2>2 DEF ReadFrom, Signed
  <2> QED
    BY <1>1, <2>1, <2>3 DEF Informed
<1>7. RequestInv(c)'
  BY <1>5, <1>6 DEF RequestInv
<1>8. op' = [op EXCEPT ![c] = op'[c]] /\ IsOperation(op'[c])
  <2>1. op' = [op EXCEPT ![c] = op'[c]]
    BY <1>1 DEF ApiInv, Shape
  <2> QED
    BY <1>1, <2>1, StateFacts DEF IsOperation
<1>9. /\ op'[c].state \in {"idle", "queued", "sent", "executed", "asking", "returned"}
      /\ op'[c].state = "returned" <=> op'[c].result # None
  BY <1>1, StateFacts DEF ApiInv, TypeOK
<1>10. landed' \ {c} = landed \ {c} /\ orphans' \ {c} = orphans \ {c}
  BY <1>1
<1> QED
  BY <1>2, <1>3, <1>4, <1>7, <1>8, <1>9, <1>10, OneRequestMoves

\* A request that has not arrived has done nothing.
LEMMA NotArrived ==
  ASSUME ApiInv, NEW c \in Request, req[c].route = None
  PROVE  op[c] = NoOp /\ req[c].status = None /\ c \notin landed \cup orphans
<1>1. Entered(c) /\ None \notin Route
  BY ApiAssumption DEF ApiInv, RequestInv
<1>2. c \notin landed \cup orphans
  BY LandedFacts
<1> QED
  BY <1>1, <1>2 DEF Entered, Admitted

\* What a request may ask for.
LEMMA AskFacts ==
  ASSUME NEW c \in Request, NEW ask \in Ask[c]
  PROVE  /\ ask.route \in Route /\ ask.by \in Subject \cup {None} /\ ask.route # None
         /\ ask.route \in {"get", "start", "cancel"} => ask.id \in TaskId
BY ApiAssumption

\* The record of a request that arrives.
Arrived(c, ask, status) ==
  [route |-> ask.route, by |-> ask.by, id |-> IF ask.route = "create" THEN c ELSE ask.id,
   status |-> status]

LEMMA ArriveInv ==
  ASSUME ApiInv, NEW c \in Request, Arrive(c)
  PROVE  ApiInv'
<1>1. PICK ask \in Ask[c] :
        \/ /\ ask.by = None \/ ~Permitted(ask)
           /\ \E status \in {401, 403} : req' = [req EXCEPT ![c] = Arrived(c, ask, status)]
           /\ UNCHANGED storeVars
        \/ /\ ask.by # None /\ Permitted(ask)
           /\ req' = [req EXCEPT ![c] = Arrived(c, ask, None)]
           /\ Begin(c, FirstOperation(ask.route, ask.by, Arrived(c, ask, None).id))
  BY DEF Arrive, Arrived
<1>2. op[c] = NoOp /\ req[c].status = None /\ c \notin landed \cup orphans /\ req[c].route = None
  BY NotArrived DEF Arrive
<1>3. /\ ask.route \in Route /\ ask.by \in Subject \cup {None} /\ ask.route # None
      /\ ask.route \in {"get", "start", "cancel"} => ask.id \in TaskId
  BY AskFacts
<1>4. ASSUME NEW status
      PROVE  /\ Arrived(c, ask, status).route = ask.route /\ Arrived(c, ask, status).by = ask.by
             /\ Arrived(c, ask, status).id = IF ask.route = "create" THEN c ELSE ask.id
             /\ Arrived(c, ask, status).status = status /\ IsRequest(Arrived(c, ask, status))
  BY DEF Arrived, IsRequest
<1>5. CASE /\ \E status \in {401, 403} : req' = [req EXCEPT ![c] = Arrived(c, ask, status)]
           /\ UNCHANGED storeVars
  <2>1. PICK status \in {401, 403} : req' = [req EXCEPT ![c] = Arrived(c, ask, status)]
    BY <1>5
  <2>2. /\ req'[c] = Arrived(c, ask, status)
        /\ \A d \in Request \ {c} : req'[d] = req[d]
    BY <2>1 DEF ApiInv, Shape
  <2>3. op'[c] = NoOp
    BY <1>2, <1>5 DEF storeVars
  <2>4. SameAuthors
    BY <1>2, <2>2 DEF SameAuthors
  <2>5. Entered(c)'
    BY <1>3, <1>4, <2>2, <2>3 DEF Entered, NoOp
  <2>6. Answered(c)'
    BY <1>4, <2>2 DEF Answered
  <2>7. IsStatus(Arrived(c, ask, status).status)
    BY <1>4 DEF IsStatus
  <2>8. PICK request : request = Arrived(c, ask, status)
    OBVIOUS
  <2>9. req' = [req EXCEPT ![c] = request] /\ IsRequest(request) /\ IsStatus(request.status)
    BY <1>4, <2>1, <2>7, <2>8
  <2> QED
    BY <1>5, <2>4, <2>5, <2>6, <2>9, StatusSet
<1>6. CASE /\ ask.by # None /\ Permitted(ask)
           /\ req' = [req EXCEPT ![c] = Arrived(c, ask, None)]
           /\ Begin(c, FirstOperation(ask.route, ask.by, Arrived(c, ask, None).id))
  <2> DEFINE id        == Arrived(c, ask, None).id
             operation == FirstOperation(ask.route, ask.by, id)
  <2>1. /\ req'[c] = Arrived(c, ask, None)
        /\ \A d \in Request \ {c} : req'[d] = req[d]
    BY <1>6 DEF ApiInv, Shape
  <2>2. SameAuthors
    BY <1>2, <2>1 DEF SameAuthors
  <2>3. op'[c].ask = operation
    BY <1>6, BeginFacts
  <2>4. /\ req'[c].route = ask.route /\ req'[c].by = ask.by /\ req'[c].status = None
        /\ req'[c].id = IF ask.route = "create" THEN c ELSE ask.id
        /\ id = req'[c].id
    BY <1>4, <2>1
  <2> HIDE DEF id
  <2>5. \/ ask.route = "create" /\ operation = Insert(c, NewTask(ask.by))
        \/ ask.route = "list" /\ operation = List
        \/ ask.route \in {"get", "start", "cancel"} /\ operation = Select(id)
    BY <1>3, <2>4 DEF FirstOperation, Route
  <2> HIDE DEF operation
  <2>6. None \notin {401, 403}
    BY ApiAssumption
  <2>7. Admitted(c)'
    BY <1>3, <1>6, <2>3, <2>4, <2>5, <2>6 DEF Admitted, Permitted
  <2>8. Entered(c)'
    BY <2>7 DEF Entered
  <2>9. Begin(c, operation)
    BY <1>6 DEF operation, id
  <2>10. op[c].state \in {"idle", "returned"}
    BY <1>2 DEF NoOp
  <2> QED
    BY <1>2, <1>4, <1>6, <2>2, <2>8, <2>9, <2>10, BeginMoves
<1> QED
  BY <1>1, <1>5, <1>6

\* A request whose operation has returned, and its answer.
LEMMA ToldRequest ==
  ASSUME ApiInv, NEW c \in Request, NEW status
  PROVE  LET request == [req[c] EXCEPT !.status = status] IN
         /\ [req EXCEPT ![c].status = status] = [req EXCEPT ![c] = request]
         /\ request.route = req[c].route /\ request.by = req[c].by /\ request.id = req[c].id
         /\ request.status = status /\ IsRequest(request)
<1>1. IsRequest(req[c])
  BY DEF ApiInv, Shape
<1> QED
  BY <1>1 DEF IsRequest

LEMMA ToldInv ==
  ASSUME ApiInv, NEW c \in Request, Working(c), NEW status \in {200, 201, 404, 409, 500},
         Told(c, status), UNCHANGED storeVars,
         status \in {200, 201} =>
           op[c].result = "ok" /\ (Writing(c) \/ req[c].route \in {"get", "list"}),
         status \in {404, 409} => ~Writing(c) \/ op[c].result = "conflict"
  PROVE  ApiInv'
<1> DEFINE request == [req[c] EXCEPT !.status = status]
<1>1. /\ req' = [req EXCEPT ![c] = request]
      /\ request.route = req[c].route /\ request.by = req[c].by /\ request.id = req[c].id
      /\ request.status = status /\ IsRequest(request)
  BY ToldRequest DEF Told
<1> HIDE DEF request
<1>2. /\ req'[c] = request
      /\ \A d \in Request \ {c} : req'[d] = req[d]
  BY <1>1 DEF ApiInv, Shape
<1>3. SameAuthors
  BY <1>1, <1>2 DEF SameAuthors
<1>4. op' = op /\ UNCHANGED <<rows, landed>>
  BY DEF storeVars
<1>5. Grows
  BY <1>3, <1>4, RecordFrame
<1>6. Admitted(c)
  <2>1. op[c].state = "returned"
    BY DEF Working
  <2> QED
    BY <2>1, StateFacts, OperationFacts
<1>7. status \notin {401, 403}
  OBVIOUS
<1>8. Admitted(c)'
  BY <1>1, <1>2, <1>3, <1>4, <1>5, <1>6, <1>7, StillAdmitted DEF ApiInv, Shape
<1>9. Entered(c)'
  BY <1>8 DEF Entered
<1>10. Answered(c)'
  BY <1>1, <1>2, <1>4 DEF Answered, Working, Writing
<1>11. IsStatus(request.status)
  BY <1>1 DEF IsStatus
<1> QED
  BY <1>1, <1>3, <1>9, <1>10, <1>11, StatusSet

\* What is known of an operation that has returned to its request.
LEMMA WorkingFacts ==
  ASSUME ApiInv, NEW c \in Request, Working(c)
  PROVE  /\ Admitted(c) /\ Settled(c) /\ op[c].ask # None
         /\ op[c].result \in {"ok", "not_found", "conflict", "error"}
         /\ op[c].ask.kind \in {"insert", "select", "list", "update"}
         /\ op[c].ask.kind = "select" => req[c].route \in {"get", "start", "cancel"}
         /\ op[c].ask.kind = "list" => req[c].route = "list"
         /\ Transitions(c) => /\ req[c].route \in {"start", "cancel"} /\ req[c].id \in TaskId
                              /\ ReadFrom(req[c].id, op[c].reply.task)
<1>1. op[c].state = "returned" /\ op[c].result # None
  BY DEF Working, ApiInv, TypeOK
<1>2. op[c].ask # None /\ IsOperation(op[c])
  BY <1>1, StateFacts
<1>3. op[c].result \in {"ok", "not_found", "conflict", "error"}
  BY <1>1, <1>2 DEF IsOperation
<1>4. /\ Admitted(c) /\ op[c].ask.kind \in {"insert", "select", "list", "update"}
      /\ op[c].ask.kind = "select" => op[c].ask = Select(req[c].id) /\ req[c].id \in TaskId
      /\ op[c].ask.kind = "list" => req[c].route = "list"
  BY <1>2, OperationFacts
<1>5. op[c].ask.kind = "select" => req[c].route \in {"get", "start", "cancel"}
  <2> SUFFICES ASSUME op[c].ask.kind = "select"
               PROVE  req[c].route \in {"get", "start", "cancel"}
    OBVIOUS
  <2>1. req[c].route # "create" \/ op[c].ask # Insert(c, NewTask(req[c].by))
    BY DEF Insert
  <2>2. op[c].ask # List
    BY DEF List
  <2> QED
    BY <1>4, <2>1, <2>2 DEF Admitted
<1>6. Settled(c) /\ Informed(c)
  BY DEF ApiInv, RequestInv
<1>7. Transitions(c) => /\ req[c].route \in {"start", "cancel"} /\ req[c].id \in TaskId
                        /\ ReadFrom(req[c].id, op[c].reply.task)
  <2> SUFFICES ASSUME Transitions(c)
               PROVE  /\ req[c].route \in {"start", "cancel"} /\ req[c].id \in TaskId
                      /\ ReadFrom(req[c].id, op[c].reply.task)
    OBVIOUS
  <2>1. op[c].ask.kind = "select" /\ op[c].result = "ok" /\ req[c].route \in {"start", "cancel"}
    BY DEF Transitions, Target
  <2>2. op[c].ask.id = req[c].id /\ req[c].id \in TaskId
    BY <1>4, <2>1 DEF Select
  <2>3. ReadFrom(op[c].ask.id, op[c].reply.task)
    BY <1>1, <1>2, <1>6, <2>1 DEF Informed
  <2> QED
    BY <2>1, <2>2, <2>3
<1> QED
  BY <1>2, <1>3, <1>4, <1>5, <1>6, <1>7

LEMMA TransitionTaskInv ==
  ASSUME ApiInv, NEW c \in Request, TransitionTask(c)
  PROVE  ApiInv'
<1>1. Transitions(c) /\ Working(c) /\ op[c].ask.kind = "select" /\ op[c].result = "ok"
  BY DEF TransitionTask, Transitions
<1>2. /\ Admitted(c) /\ Settled(c) /\ req[c].route \in {"start", "cancel"}
      /\ ReadFrom(req[c].id, op[c].reply.task)
  BY <1>1, WorkingFacts
<1>3. ~Writing(c) /\ c \notin landed \cup orphans /\ op[c].state = "returned"
  BY <1>1, <1>2 DEF Writing, Writes, Settled, Working
<1>4. PICK task \in AgentTask : task = op[c].reply.task /\ ReadFrom(req[c].id, task)
  BY <1>2 DEF ReadFrom
<1>5. CASE CanTransition(task, Target[req[c].route])
  <2>1. Begin(c, TransitionOf(c, task)) /\ UNCHANGED req
    BY <1>4, <1>5 DEF TransitionTask, TransitionOf
  <2>2. op'[c].ask = TransitionOf(c, task)
    BY <2>1, BeginFacts
  <2>3. SameAuthors /\ UNCHANGED <<rows, landed>>
    BY <2>1 DEF SameAuthors, Begin
  <2>4. Grows
    BY <2>3, RecordFrame
  <2>5. ReadFrom(req[c].id, task)'
    <3>1. \A id : id = req[c].id => ReadFrom(id, task)'
      BY <1>4, <2>3, <2>4, ReadFromGrows DEF ApiInv, Shape
    <3> QED
      BY <2>1, <3>1 DEF ReadFrom, Signed
  <2>6. Follows(c)'
    BY <1>5, <2>1, <2>2, <2>5 DEF Follows, TransitionOf
  <2>7. Admitted(c)'
    BY <1>2, <2>1, <2>6 DEF Admitted
  <2>8. Entered(c)'
    BY <2>7 DEF Entered
  <2>9. req' = [req EXCEPT ![c] = req[c]] /\ IsRequest(req[c]) /\ req[c].status = None
    <3>1. req = [d \in Request |-> req[d]]
      BY DEF ApiInv, Shape
    <3> QED
      BY <1>1, <2>1, <3>1 DEF ApiInv, Shape, Working
  <2>10. PICK request : request = req[c]
    OBVIOUS
  <2>11. req' = [req EXCEPT ![c] = request] /\ IsRequest(request) /\ request.status = None
    BY <2>9, <2>10
  <2> QED
    BY <1>3, <2>1, <2>3, <2>8, <2>11, BeginMoves
<1>6. CASE ~CanTransition(task, Target[req[c].route])
  <2>1. Told(c, 409) /\ UNCHANGED storeVars
    BY <1>4, <1>6 DEF TransitionTask
  <2> QED
    BY <1>1, <1>3, <2>1, ToldInv
<1> QED
  BY <1>5, <1>6

LEMMA AnswerInv ==
  ASSUME ApiInv, NEW c \in Request, Answer(c)
  PROVE  ApiInv'
<1> DEFINE status == StatusOf(req[c].route, op[c].result)
<1>1. Working(c) /\ ~Transitions(c) /\ Told(c, status) /\ UNCHANGED storeVars
  BY DEF Answer
<1>2. /\ Admitted(c) /\ Settled(c) /\ op[c].ask # None
      /\ op[c].result \in {"ok", "not_found", "conflict", "error"}
      /\ op[c].ask.kind \in {"insert", "select", "list", "update"}
      /\ op[c].ask.kind = "select" => req[c].route \in {"get", "start", "cancel"}
      /\ op[c].ask.kind = "list" => req[c].route = "list"
  BY <1>1, WorkingFacts
<1>3. /\ status \in {200, 201, 404, 409, 500}
      /\ status \in {200, 201} => op[c].result = "ok"
      /\ status = 404 => op[c].result = "not_found"
      /\ status = 409 => op[c].result = "conflict"
  BY <1>2 DEF StatusOf
<1> HIDE DEF status
<1>4. status \in {200, 201} =>
        op[c].result = "ok" /\ (Writing(c) \/ req[c].route \in {"get", "list"})
  <2> SUFFICES ASSUME status \in {200, 201}, ~Writing(c)
               PROVE  req[c].route \in {"get", "list"}
    BY <1>3
  <2>1. op[c].ask.kind \in {"select", "list"}
    BY <1>2 DEF Writing, Writes
  <2>2. op[c].ask.kind = "select" => req[c].route \notin {"start", "cancel"}
    BY <1>1, <1>3 DEF Transitions, Target
  <2> QED
    BY <1>2, <2>1, <2>2
<1>5. status \in {404, 409} => ~Writing(c) \/ op[c].result = "conflict"
  BY <1>2, <1>3 DEF Settled
<1> QED
  BY <1>1, <1>3, <1>4, <1>5, ToldInv

----------------------------------------------------------------------------
(* Invariance.                                                             *)

LEMMA NextApiInv ==
  ASSUME ApiInv, [Next]_vars
  PROVE  ApiInv'
<1>1. CASE UNCHANGED vars
  <2>1. UNCHANGED <<rows, pool, queue, op, orphans, landed, req>>
    BY <1>1 DEF vars, storeVars
  <2>2. SameAuthors
    BY <2>1 DEF SameAuthors
  <2>3. Grows /\ \A id \in TaskId : Recorded(id)'
    BY <2>1, <2>2, RecordFrame
  <2>4. Shape'
    BY <2>1 DEF ApiInv, Shape, IsOperation, IsRequest
  <2>5. TypeOK'
    <3>1. Holding' = Holding
      BY <2>1 DEF Holding
    <3> QED
      BY <2>1, <3>1 DEF ApiInv, TypeOK
  <2>6. \A c \in Request : RequestInv(c)'
    BY <2>1, <2>2, <2>3, <2>4, RequestFrame DEF Shape
  <2> QED
    BY <2>3, <2>4, <2>5, <2>6 DEF ApiInv
<1>2. CASE \E c \in Request : Arrive(c) \/ TransitionTask(c) \/ Answer(c)
  BY <1>2, ArriveInv, TransitionTaskInv, AnswerInv
<1>3. CASE StoreNext /\ UNCHANGED req
  BY <1>3, StoreNextInv
<1> QED
  BY <1>1, <1>2, <1>3 DEF Next

LEMMA InitApi ==
  ASSUME Init
  PROVE  ApiInv
<1>1. /\ queue = << >> /\ orphans = {} /\ landed = {} /\ pool = "open"
      /\ \A c \in Request : op[c] = NoOp
      /\ op = [c \in Request |-> NoOp]
  BY DEF Init, InitStore
<1>2. /\ req = [c \in Request |-> [route |-> None, by |-> None, id |-> None, status |-> None]]
      /\ \A c \in Request : req[c] = [route |-> None, by |-> None, id |-> None, status |-> None]
  BY DEF Init
<1>3. ASSUME NEW id \in TaskId, rows[id] # None
      PROVE  /\ rows[id] \in Rows /\ rows[id].task.history = << >> /\ id \in Known
  <2>1. PICK s \in Writer, fine \in BOOLEAN : rows[id] = [task |-> NewTask(s), readable |-> fine]
    BY <1>3 DEF Init
  <2>2. s \in Subject
    BY <2>1 DEF Writer
  <2>3. NewTask(s) \in AgentTask /\ NewTask(s).history = << >>
    BY <2>2, NewTaskType DEF NewTask
  <2>4. id \in Known
    BY <1>3 DEF Init
  <2> QED
    BY <2>1, <2>3, <2>4 DEF Rows
<1>4. rows \in [TaskId -> Rows \cup {None}]
  <2>1. rows = [id \in TaskId |-> rows[id]]
    BY DEF Init
  <2> QED
    BY <1>3, <2>1
<1>5. Shape
  <2>1. IsOperation(NoOp)
    BY DEF IsOperation, NoOp
  <2>2. \A c \in Request : IsRequest(req[c])
    BY <1>2 DEF IsRequest
  <2>3. op = [c \in Request |-> op[c]] /\ req = [c \in Request |-> req[c]]
    BY <1>1, <1>2
  <2> QED
    BY <1>1, <1>4, <2>1, <2>2, <2>3 DEF Shape
<1>6. TypeOK
  <2>1. Holding = {}
    BY <1>1 DEF Holding, NoOp
  <2>2. Cardinality(Holding) <= PoolSize
    BY <2>1, FS_EmptySet, StoreAssumption
  <2>3. Range(queue) = {c \in Request : op[c].state = "queued"} /\ IsInjective(queue)
    BY <1>1 DEF Range, IsInjective, NoOp
  <2>4. \A id \in TaskId : rows[id] # None => rows[id].task \in AgentTask
    BY <1>3 DEF Rows
  <2>5. ASSUME NEW c \in Request
        PROVE  /\ op[c].state \in {"idle", "queued", "sent", "executed", "asking", "returned"}
               /\ (op[c].state = "returned") = (op[c].result # None)
               /\ req[c].status \in {None, 200, 201, 401, 403, 404, 409, 500}
    BY <1>1, <1>2 DEF NoOp
  <2> QED
    BY <1>1, <2>2, <2>3, <2>4, <2>5 DEF TypeOK
<1>7. ASSUME NEW c \in Request
      PROVE  RequestInv(c)
  <2>1. Entered(c)
    BY <1>1, <1>2 DEF Entered
  <2>2. op[c].ask = None /\ op[c].state = "idle" /\ op[c].result = None
    BY <1>1 DEF NoOp
  <2>3. Settled(c)
    BY <1>1, <2>2, NoneIsNoRow DEF Settled, Writing
  <2>4. Informed(c) /\ Answered(c)
    BY <1>2, <2>2 DEF Informed, Answered
  <2> QED
    BY <2>1, <2>3, <2>4 DEF RequestInv
<1>8. \A id \in TaskId : Recorded(id)
  BY <1>3 DEF Recorded, Signed
<1> QED
  BY <1>5, <1>6, <1>7, <1>8 DEF ApiInv

\* What a request asks of the store is its own, and what the store says of it is
\* what is so: an invariant of the API.
THEOREM ApiInvariant == Spec => []ApiInv
<1>1. Init => ApiInv
  BY InitApi
<1>2. ApiInv /\ [Next]_vars => ApiInv'
  BY NextApiInv
<1> QED
  BY <1>1, <1>2, PTL DEF Spec

\* Requests, connections and rows are always what the code can make of them, and no
\* more connections are out than the pool has.
THEOREM ApiTypes == Spec => []TypeOK
<1>1. ApiInv => TypeOK
  BY DEF ApiInv
<1> QED
  BY <1>1, ApiInvariant, PTL

\* A yes means that the write is on record, a no that it is not and never will be.
THEOREM ClientsAreToldTheTruth == Spec => []AnswersAreTrue
<1>1. ASSUME ApiInv, NEW c \in Request
      PROVE  /\ req[c].status \in {401, 403, 404, 409} => c \notin landed \cup orphans
             /\ req[c].status \in {200, 201} /\ req[c].route \notin {"get", "list"} =>
                  /\ c \in landed
                  /\ rows[req[c].id] # None
                  /\ rows[req[c].id].task.version >= op[c].ask.task.version
  <2>1. RequestInv(c) /\ None \notin {200, 201, 401, 403, 404, 409, 500}
    BY <1>1, ApiAssumption DEF ApiInv
  <2>2. CASE req[c].status \in {401, 403}
    <3>1. op[c] = NoOp
      BY <2>1, <2>2 DEF RequestInv, Entered, Admitted
    <3>2. ~Writing(c)
      BY <3>1 DEF Writing, NoOp
    <3> QED
      BY <2>1, <2>2, <3>2 DEF RequestInv, Settled
  <2>3. CASE req[c].status \in {404, 409}
    <3>1. ~Writing(c) \/ op[c].result = "conflict"
      BY <2>1, <2>3 DEF RequestInv, Answered
    <3>2. op[c].result = "conflict" => c \notin landed \cup orphans
      BY <2>1 DEF RequestInv, Settled, Overwritten
    <3> QED
      BY <2>1, <2>3, <3>1, <3>2 DEF RequestInv, Settled
  <2>4. CASE req[c].status \in {200, 201} /\ req[c].route \notin {"get", "list"}
    <3>1. op[c].result = "ok" /\ Writing(c)
      BY <2>1, <2>4 DEF RequestInv, Answered
    <3>2. c \in landed
      BY <2>1, <3>1 DEF RequestInv, Settled
    <3>3. op[c].ask.id = req[c].id
      BY <1>1, <3>1, OperationFacts DEF Writing
    <3> QED
      BY <2>1, <2>4, <3>2, <3>3 DEF RequestInv, Settled
  <2> QED
    BY <2>2, <2>3, <2>4
<1>2. ApiInv => AnswersAreTrue
  BY <1>1 DEF AnswersAreTrue
<1> QED
  BY <1>2, ApiInvariant, PTL

\* What is on record was put there by requests that were let through, for callers who
\* may write, and names them.
THEOREM EveryEntryHasAnAuthor == Spec => []RecordNamesItsAuthors
<1>1. ASSUME ApiInv, NEW c \in landed
      PROVE  req[c].by \in Subject /\ "tasks:write" \in Scopes[req[c].by]
  <2>1. c \in Request /\ Writing(c)
    BY <1>1, LandedFacts
  <2> QED
    BY <1>1, <2>1, OperationFacts DEF Writing
<1>2. ASSUME ApiInv, NEW id \in TaskId, rows[id] # None
      PROVE  Recorded(id)
  BY <1>2 DEF ApiInv
<1>3. ApiInv => RecordNamesItsAuthors
  BY <1>1, <1>2 DEF RecordNamesItsAuthors, Recorded, Signed
<1> QED
  BY <1>3, ApiInvariant, PTL

----------------------------------------------------------------------------
(* Rows that cannot be read.                                               *)

\* A write lands where there is no row, or on one that was readable, and on the
\* version it was made from.
LEMMA Landing ==
  ASSUME ApiInv, NEW c \in Request, Writing(c), Land(c)
  PROVE  \/ UNCHANGED <<rows, landed>>
         \/ /\ op[c].ask.id \in TaskId /\ op[c].ask.task \in AgentTask
            /\ rows' = [rows EXCEPT ![op[c].ask.id] = Row(op[c].ask.task)]
            /\ landed' = landed \cup {c}
            /\ IF rows[op[c].ask.id] = None THEN op[c].ask.expected = 0
               ELSE /\ rows[op[c].ask.id].readable
                    /\ rows[op[c].ask.id].task.version = op[c].ask.expected
<1> DEFINE ask == op[c].ask
<1>1. /\ ask.kind \in {"insert", "update"} /\ ask.id = req[c].id
      /\ ask.id \in TaskId /\ ask.task \in AgentTask
      /\ ask.kind = "insert" => ask = Insert(c, NewTask(req[c].by))
      /\ ask.kind = "update" => Follows(c)
  BY OperationFacts DEF Writing, Writes
<1>2. CASE ~Applies(ask)
  BY <1>2 DEF Land
<1>3. CASE Applies(ask)
  <2>1. rows' = [rows EXCEPT ![ask.id] = Row(ask.task)] /\ landed' = landed \cup {c}
    BY <1>3 DEF Land
  <2>2. CASE ask.kind = "insert"
    <3>1. rows[ask.id] = None
      BY <1>3, <2>2 DEF Applies
    <3>2. ask.expected = 0
      BY <1>1, <2>2 DEF Insert
    <3> QED
      BY <1>1, <2>1, <3>1, <3>2
  <2>3. CASE ask.kind = "update"
    <3>1. rows[ask.id] # None /\ rows[ask.id].task.version = ask.expected
      BY <1>3, <2>3 DEF Applies, Matches
    <3>2. rows[ask.id].readable
      BY <1>1, <2>3 DEF Follows, ReadFrom
    <3> QED
      BY <1>1, <2>1, <3>1, <3>2
  <2> QED
    BY <1>1, <2>2, <2>3
<1> QED
  BY <1>2, <1>3

\* What a step of the store makes of the rows is what a write makes of them.
LEMMA OnlyWritesChangeRows ==
  ASSUME ApiInv, [Next]_vars
  PROVE  UNCHANGED rows \/ \E c \in Request : Writing(c) /\ c \notin landed /\ Land(c)
<1>1. ASSUME NEW c \in Request, Execute(c)
      PROVE  UNCHANGED rows \/ (Writing(c) /\ c \notin landed /\ Land(c))
  <2>1. Land(c) /\ op[c].state = "sent"
    BY <1>1 DEF Execute
  <2>2. op[c].ask # None /\ c \notin landed
    BY <2>1, StateFacts
  <2>3. ~Writing(c) => ~Applies(op[c].ask)
    BY <2>2, OperationFacts DEF Writing, Writes, Applies
  <2> QED
    BY <2>1, <2>2, <2>3 DEF Land
<1>2. ASSUME NEW c \in Request, OrphanEnds(c)
      PROVE  UNCHANGED rows \/ (Writing(c) /\ c \notin landed /\ Land(c))
  <2>1. c \in orphans /\ (Land(c) \/ UNCHANGED <<rows, landed>>)
    BY <1>2 DEF OrphanEnds
  <2>2. Writing(c) /\ c \notin landed
    BY <2>1 DEF ApiInv, RequestInv, Settled
  <2> QED
    BY <2>1, <2>2
<1>3. ASSUME NEW c \in Request, Arrive(c) \/ TransitionTask(c) \/ Answer(c)
      PROVE  UNCHANGED rows
  BY <1>3 DEF Arrive, TransitionTask, Answer, Begin, storeVars
<1>4. ASSUME NEW c \in Request, StatementFails(c) \/ Receive(c) \/ Diagnose(c)
      PROVE  UNCHANGED rows
  BY <1>4 DEF StatementFails, Receive, Diagnose
<1>5. CASE Grant \/ TurnedAway \/ Close \/ Closed
  BY <1>5 DEF Grant, TurnedAway, Close, Closed
<1>6. CASE UNCHANGED vars
  BY <1>6 DEF vars, storeVars
<1> QED
  BY <1>1, <1>2, <1>3, <1>4, <1>5, <1>6 DEF Next, StoreNext

\* A row the domain model does not accept is never acted on: whoever would write over
\* it must have read it.
THEOREM UnreadableRowsStay == Spec => UnreadableIsLeftAlone
<1>1. ASSUME ApiInv, [Next]_vars, NEW id \in TaskId, rows[id] # None, ~rows[id].readable
      PROVE  rows'[id] = rows[id]
  <2>1. CASE UNCHANGED rows
    BY <2>1
  <2>2. CASE \E c \in Request : Writing(c) /\ c \notin landed /\ Land(c)
    <3>1. PICK c \in Request : Writing(c) /\ Land(c)
      BY <2>2
    <3> QED
      BY <1>1, <3>1, Landing DEF ApiInv, Shape
  <2> QED
    BY <1>1, <2>1, <2>2, OnlyWritesChangeRows
<1> DEFINE Kept == \A id \in TaskId :
                     rows[id] # None /\ ~rows[id].readable => rows'[id] = rows[id]
<1>2. ApiInv /\ [Next]_vars => Kept
  BY <1>1
<1> QED
  BY <1>2, ApiInvariant, PTL DEF Spec, UnreadableIsLeftAlone

----------------------------------------------------------------------------
(* The store implements TaskStore.                                         *)

\* The mapping of KeepsContract, one row and one operation at a time.
TaskAt(row) == IF row = None THEN None ELSE row.task

VersionAt(row) == IF TaskAt(row) = None THEN 0 ELSE TaskAt(row).version

WriteAt(o) ==
  IF o.ask # None /\ o.ask.kind \in Writes
    THEN [id |-> o.ask.id, task |-> o.ask.task, expected |-> o.ask.expected]
    ELSE None

VerdictAt(o) ==
  IF o.ask = None \/ o.ask.kind \notin Writes THEN "none"
  ELSE IF o.state # "returned" THEN "open"
  ELSE IF o.result = "ok" THEN "ok"
  ELSE IF o.result = "error" THEN "unknown"
  ELSE "refused"

\* What each step is to be.
Maps == Contract!Next \/ UNCHANGED Contract!vars

LEMMA Stutters ==
  ASSUME UNCHANGED <<rows, landed>>,
         \A d \in Request : WriteAt(op'[d]) = WriteAt(op[d]) /\ VerdictAt(op'[d]) = VerdictAt(op[d])
  PROVE  Maps
<1>1. UNCHANGED Contract!vars
  BY DEF Contract!vars, WriteAt, VerdictAt
<1> QED
  BY <1>1 DEF Maps

\* An operation that writes begins.
LEMMA Submits ==
  ASSUME UNCHANGED <<rows, landed>>, NEW c \in Request,
         \A d \in Request \ {c} : op'[d] = op[d],
         VerdictAt(op[c]) = "none", VerdictAt(op'[c]) \in {"open", "unknown"},
         NEW id \in TaskId, NEW task, NEW expected,
         WriteAt(op'[c]) = [id |-> id, task |-> task, expected |-> expected],
         expected <= VersionAt(rows[id]), task.version = expected + 1
  PROVE  Maps
<1> DEFINE tasks == [i \in TaskId |-> TaskAt(rows[i])]
           write == [d \in Request |-> WriteAt(op[d])]
           verdict == [d \in Request |-> VerdictAt(op[d])]
<1>1. /\ verdict[c] = "none"
      /\ verdict' = [verdict EXCEPT ![c] = VerdictAt(op'[c])]
      /\ \A other \in Request \ {c} : write'[other] = write[other]
      /\ write'[c] = [id |-> id, task |-> task, expected |-> expected]
      /\ UNCHANGED <<tasks, landed>>
      /\ tasks[id] = TaskAt(rows[id])
  BY ZenonT(30) DEF WriteAt, VerdictAt
<1>2. \E told \in {"open", "unknown"} : verdict' = [verdict EXCEPT ![c] = told]
  BY <1>1
<1>3. /\ write'[c].expected <= (IF tasks[write'[c].id] = None THEN 0 ELSE tasks[write'[c].id].version)
      /\ write'[c].task.version = write'[c].expected + 1
  BY <1>1 DEF VersionAt
<1>4. Contract!Submit(c)
  BY <1>1, <1>2, <1>3 DEF Contract!Submit, Contract!VersionOf, TaskAt, WriteAt, VerdictAt
<1> QED
  BY <1>4 DEF Maps, Contract!Next

\* A write takes effect.
LEMMA Lands ==
  ASSUME Shape, NEW c \in Request, c \notin landed, landed' = landed \cup {c},
         \A d \in Request : WriteAt(op'[d]) = WriteAt(op[d]) /\ VerdictAt(op'[d]) = VerdictAt(op[d]),
         VerdictAt(op[c]) \in {"open", "unknown"},
         NEW id \in TaskId, NEW task \in AgentTask, NEW expected,
         WriteAt(op[c]) = [id |-> id, task |-> task, expected |-> expected],
         rows' = [rows EXCEPT ![id] = Row(task)],
         VersionAt(rows[id]) = expected
  PROVE  Maps
<1> DEFINE tasks == [i \in TaskId |-> TaskAt(rows[i])]
           write == [d \in Request |-> WriteAt(op[d])]
           verdict == [d \in Request |-> VerdictAt(op[d])]
<1>1. TaskAt(Row(task)) = task
  <2>1. Row(task) \in [task : AgentTask, readable : BOOLEAN] /\ Row(task).task = task
    BY DEF Row
  <2> QED
    BY <2>1, NoneIsNoRow DEF TaskAt
<1>2. tasks' = [tasks EXCEPT ![id] = task]
  <2>1. rows'[id] = Row(task) /\ \A i \in TaskId \ {id} : rows'[i] = rows[i]
    BY DEF Shape
  <2>2. \A i \in TaskId : TaskAt(rows'[i]) = IF i = id THEN task ELSE TaskAt(rows[i])
    BY <1>1, <2>1 DEF TaskAt
  <2>3. tasks' = [i \in TaskId |-> IF i = id THEN task ELSE TaskAt(rows[i])]
    BY <2>2
  <2>4. [tasks EXCEPT ![id] = task] = [i \in TaskId |-> IF i = id THEN task ELSE TaskAt(rows[i])]
    OBVIOUS
  <2> QED
    BY <2>3, <2>4
<1>3. /\ verdict[c] \in {"open", "unknown"} /\ UNCHANGED <<write, verdict>>
      /\ write[c] = [id |-> id, task |-> task, expected |-> expected]
      /\ tasks[id] = TaskAt(rows[id])
  OBVIOUS
<1>4. (IF tasks[write[c].id] = None THEN 0 ELSE tasks[write[c].id].version) = write[c].expected
  BY <1>3 DEF VersionAt
<1>5. tasks' = [tasks EXCEPT ![write[c].id] = write[c].task]
  <2>1. write[c].id = id /\ write[c].task = task
    BY <1>3
  <2> HIDE DEF tasks, write
  <2> QED
    BY <1>2, <2>1
<1>6. Contract!Land(c)
  BY <1>3, <1>4, <1>5 DEF Contract!Land, Contract!VersionOf, TaskAt, WriteAt, VerdictAt
<1> QED
  BY <1>6 DEF Maps, Contract!Next

\* What became of a write is told, or not known.
LEMMA Concludes ==
  ASSUME UNCHANGED <<rows, landed>>, NEW c \in Request,
         \A d \in Request \ {c} : op'[d] = op[d],
         WriteAt(op'[c]) = WriteAt(op[c]), VerdictAt(op[c]) = "open",
         \/ VerdictAt(op'[c]) = "ok" /\ c \in landed
         \/ VerdictAt(op'[c]) = "unknown"
         \/ /\ VerdictAt(op'[c]) = "refused" /\ c \notin landed
            /\ WriteAt(op[c]).id \in TaskId
            /\ VersionAt(rows[WriteAt(op[c]).id]) > WriteAt(op[c]).expected
  PROVE  Maps
<1> DEFINE tasks == [i \in TaskId |-> TaskAt(rows[i])]
           write == [d \in Request |-> WriteAt(op[d])]
           verdict == [d \in Request |-> VerdictAt(op[d])]
<1>1. /\ verdict[c] = "open"
      /\ verdict' = [verdict EXCEPT ![c] = VerdictAt(op'[c])]
      /\ UNCHANGED <<tasks, write, landed>>
      /\ write[c] = WriteAt(op[c])
  <2>1. \A d \in Request : WriteAt(op'[d]) = WriteAt(op[d])
    BY DEF WriteAt
  <2>2. \A d \in Request \ {c} : VerdictAt(op'[d]) = VerdictAt(op[d])
    BY DEF VerdictAt
  <2>3. write' = write
    BY <2>1
  <2>4. verdict' = [d \in Request |-> VerdictAt(op'[d])]
    OBVIOUS
  <2>5. verdict' = [verdict EXCEPT ![c] = VerdictAt(op'[c])]
    BY <2>2, <2>4
  <2> QED
    BY <2>3, <2>5
<1>2. VerdictAt(op'[c]) = "refused" =>
        (IF tasks[write[c].id] = None THEN 0 ELSE tasks[write[c].id].version) > write[c].expected
  BY <1>1 DEF VersionAt
<1>3. \/ verdict' = [verdict EXCEPT ![c] = "ok"] /\ c \in landed
      \/ /\ verdict' = [verdict EXCEPT ![c] = "refused"]
         /\ c \notin landed
         /\ (IF tasks[write[c].id] = None THEN 0 ELSE tasks[write[c].id].version)
              > write[c].expected
      \/ verdict' = [verdict EXCEPT ![c] = "unknown"]
  BY <1>1, <1>2
<1>4. Contract!Conclude(c)
  BY <1>1, <1>3 DEF Contract!Conclude, Contract!VersionOf, TaskAt, WriteAt, VerdictAt
<1> QED
  BY <1>4 DEF Maps, Contract!Next

\* The version on a row.
LEMMA VersionOnRow ==
  ASSUME Shape, NEW id \in TaskId
  PROVE  VersionAt(rows[id]) = IF rows[id] = None THEN 0 ELSE rows[id].task.version
BY VersionTypes, NoneIsNoValue DEF VersionAt, TaskAt

\* What a request asks to be written, as the mapping has it.
LEMMA WriteOfRequest ==
  ASSUME ApiInv, NEW c \in Request, Writing(c)
  PROVE  /\ op[c].ask.id \in TaskId /\ op[c].ask.task \in AgentTask /\ op[c].ask.expected \in Nat
         /\ WriteAt(op[c]) = [id |-> op[c].ask.id, task |-> op[c].ask.task,
                              expected |-> op[c].ask.expected]
         /\ op[c].state # "returned" => VerdictAt(op[c]) = "open"
         /\ op[c].state = "returned" /\ op[c].result = "error" => VerdictAt(op[c]) = "unknown"
BY OperationFacts DEF Writing, WriteAt, VerdictAt

\* A write that reaches the database lands there, or is as if it had not.
LEMMA LandMaps ==
  ASSUME ApiInv, NEW c \in Request, Writing(c), c \notin landed, Land(c),
         VerdictAt(op[c]) \in {"open", "unknown"},
         \A d \in Request : WriteAt(op'[d]) = WriteAt(op[d]) /\ VerdictAt(op'[d]) = VerdictAt(op[d])
  PROVE  Maps
<1>1. CASE UNCHANGED <<rows, landed>>
  BY <1>1, Stutters
<1>2. CASE ~UNCHANGED <<rows, landed>>
  <2> DEFINE ask == op[c].ask
  <2>1. /\ rows' = [rows EXCEPT ![ask.id] = Row(ask.task)] /\ landed' = landed \cup {c}
        /\ IF rows[ask.id] = None THEN ask.expected = 0
           ELSE rows[ask.id].task.version = ask.expected
    BY <1>2, Landing
  <2>2. /\ ask.id \in TaskId /\ ask.task \in AgentTask
        /\ WriteAt(op[c]) = [id |-> ask.id, task |-> ask.task, expected |-> ask.expected]
    BY WriteOfRequest
  <2>3. VersionAt(rows[ask.id]) = ask.expected
    BY <2>1, <2>2, VersionOnRow DEF ApiInv
  <2>4. Shape
    BY DEF ApiInv
  <2>5. PICK id, task, expected : id = ask.id /\ task = ask.task /\ expected = ask.expected
    OBVIOUS
  <2> QED
    BY <2>1, <2>2, <2>3, <2>4, <2>5, Lands
<1> QED
  BY <1>1, <1>2

\* An operation that goes on or returns is nothing, or a conclusion.
LEMMA OperationMaps ==
  ASSUME ApiInv, UNCHANGED <<rows, landed>>, NEW c \in Request, op[c].ask # None,
         op[c].state # "returned", NEW operation, op' = [op EXCEPT ![c] = operation],
         operation.ask = op[c].ask,
         \/ operation.state # "returned"
         \/ ~Writing(c)
         \/ operation.result = "ok" /\ c \in landed
         \/ operation.result = "error"
         \/ operation.result = "conflict" /\ Overwritten(c)
  PROVE  Maps
<1>1. op'[c] = operation /\ \A d \in Request \ {c} : op'[d] = op[d]
  BY DEF ApiInv, Shape
<1>2. WriteAt(op'[c]) = WriteAt(op[c])
  BY <1>1 DEF WriteAt
<1>3. CASE ~Writing(c) \/ operation.state # "returned"
  <2>1. VerdictAt(op'[c]) = VerdictAt(op[c])
    BY <1>1, <1>3 DEF VerdictAt, Writing
  <2> QED
    BY <1>1, <1>2, <2>1, Stutters
<1>4. CASE Writing(c) /\ operation.state = "returned"
  <2>1. VerdictAt(op[c]) = "open"
    BY <1>4, WriteOfRequest
  <2>2. VerdictAt(op'[c]) = IF operation.result = "ok" THEN "ok"
                            ELSE IF operation.result = "error" THEN "unknown" ELSE "refused"
    BY <1>1, <1>4 DEF VerdictAt, Writing
  <2>3. CASE operation.result = "ok" /\ c \in landed
    BY <1>1, <1>2, <2>1, <2>2, <2>3, Concludes
  <2>4. CASE operation.result = "error"
    BY <1>1, <1>2, <2>1, <2>2, <2>4, Concludes
  <2>5. CASE operation.result = "conflict" /\ Overwritten(c)
    <3>1. /\ WriteAt(op[c]).id = op[c].ask.id /\ op[c].ask.id \in TaskId
          /\ WriteAt(op[c]).expected = op[c].ask.expected
      <4>1. /\ op[c].ask.id \in TaskId
            /\ WriteAt(op[c]) = [id |-> op[c].ask.id, task |-> op[c].ask.task,
                                 expected |-> op[c].ask.expected]
        BY <1>4, WriteOfRequest
      <4> QED
        BY <4>1
    <3>2. /\ c \notin landed
          /\ VersionAt(rows[op[c].ask.id]) > op[c].ask.expected
      BY <2>5, <3>1, VersionOnRow DEF Overwritten, ApiInv
    <3> QED
      BY <1>1, <1>2, <2>1, <2>2, <2>5, <3>1, <3>2, Concludes
  <2> QED
    BY <1>4, <2>3, <2>4, <2>5
<1> QED
  BY <1>3, <1>4

LEMMA PoolMaps ==
  ASSUME ApiInv, Grant \/ TurnedAway \/ Close \/ Closed
  PROVE  Maps
<1>1. CASE Grant
  <2>1. PICK c : c = Head(queue)
    OBVIOUS
  <2>2. c \in Request /\ op[c].state = "queued"
    BY <1>1, <2>1, FirstInLine DEF Grant
  <2>3. op[c].ask # None /\ IsOperation(op[c])
    BY <2>2, StateFacts
  <2>4. PICK operation : operation = [op[c] EXCEPT !.state = "sent"]
    OBVIOUS
  <2>5. operation.ask = op[c].ask /\ operation.state = "sent"
    BY <2>3, <2>4 DEF IsOperation
  <2>6. op' = [op EXCEPT ![c] = operation] /\ UNCHANGED <<rows, landed>>
    BY <1>1, <2>1, <2>4 DEF Grant
  <2> QED
    BY <2>2, <2>3, <2>5, <2>6, OperationMaps
<1>2. CASE TurnedAway
  <2>1. PICK c : c = Head(queue)
    OBVIOUS
  <2>2. c \in Request /\ op[c].state = "queued"
    BY <1>2, <2>1, FirstInLine DEF TurnedAway
  <2>3. op[c].ask # None /\ IsOperation(op[c])
    BY <2>2, StateFacts
  <2>4. Ended(c, "error").ask = op[c].ask /\ Ended(c, "error").result = "error"
    BY <2>3, EndedFields
  <2>5. op' = [op EXCEPT ![c] = Ended(c, "error")] /\ UNCHANGED <<rows, landed>>
    BY <1>2, <2>1 DEF TurnedAway, EndsWith
  <2> QED
    BY <2>2, <2>3, <2>4, <2>5, OperationMaps
<1>3. CASE Close \/ Closed
  BY <1>3, Stutters DEF Close, Closed
<1> QED
  BY <1>1, <1>2, <1>3

LEMMA StatementMaps ==
  ASSUME ApiInv, NEW c \in Request,
         Execute(c) \/ StatementFails(c) \/ OrphanEnds(c) \/ Receive(c) \/ Diagnose(c)
  PROVE  Maps
<1>1. CASE Execute(c)
  <2>1. /\ op[c].state = "sent" /\ Land(c)
        /\ op' = [op EXCEPT ![c] = [op[c] EXCEPT !.state = "executed", !.reply = Reply(op[c].ask)]]
    BY <1>1 DEF Execute
  <2>2. op[c].ask # None /\ c \notin landed /\ IsOperation(op[c]) /\ op[c].result = None
    BY <2>1, StateFacts
  <2>3. PICK operation : operation = [op[c] EXCEPT !.state = "executed", !.reply = Reply(op[c].ask)]
    OBVIOUS
  <2>4. operation.ask = op[c].ask /\ operation.state = "executed"
    BY <2>2, <2>3, ExecutedFields
  <2>5. op' = [op EXCEPT ![c] = operation]
    BY <2>1, <2>3
  <2>6. op'[c] = operation /\ \A d \in Request \ {c} : op'[d] = op[d]
    BY <2>5 DEF ApiInv, Shape
  <2>7. CASE Writing(c)
    <3>1. VerdictAt(op[c]) = "open"
      BY <2>1, <2>7, WriteOfRequest
    <3>2. \A d \in Request : WriteAt(op'[d]) = WriteAt(op[d]) /\ VerdictAt(op'[d]) = VerdictAt(op[d])
      BY <2>1, <2>4, <2>6 DEF WriteAt, VerdictAt
    <3> QED
      BY <2>1, <2>2, <2>7, <3>1, <3>2, LandMaps
  <2>8. CASE ~Writing(c)
    <3>1. ~Applies(op[c].ask)
      BY <2>2, <2>8, OperationFacts DEF Writing, Writes, Applies
    <3>2. UNCHANGED <<rows, landed>>
      BY <2>1, <3>1 DEF Land
    <3> QED
      BY <2>1, <2>2, <2>4, <2>5, <3>2, OperationMaps
  <2> QED
    BY <2>7, <2>8
<1>2. CASE StatementFails(c)
  <2>1. op[c].ask # None /\ op[c].state # "returned" /\ IsOperation(op[c])
    BY <1>2, HoldingFacts DEF StatementFails
  <2>2. Ended(c, "error").ask = op[c].ask /\ Ended(c, "error").result = "error"
    BY <2>1, EndedFields
  <2>3. op' = [op EXCEPT ![c] = Ended(c, "error")] /\ UNCHANGED <<rows, landed>>
    BY <1>2 DEF StatementFails, EndsWith
  <2> QED
    BY <2>1, <2>2, <2>3, OperationMaps
<1>3. CASE OrphanEnds(c)
  <2>1. c \in orphans /\ op' = op /\ (Land(c) \/ UNCHANGED <<rows, landed>>)
    BY <1>3 DEF OrphanEnds
  <2>2. Writing(c) /\ c \notin landed /\ op[c].state = "returned" /\ op[c].result = "error"
    BY <2>1 DEF ApiInv, RequestInv, Settled
  <2>3. VerdictAt(op[c]) = "unknown"
    BY <2>2, WriteOfRequest
  <2>4. \A d \in Request : WriteAt(op'[d]) = WriteAt(op[d]) /\ VerdictAt(op'[d]) = VerdictAt(op[d])
    BY <2>1
  <2>5. CASE Land(c)
    BY <2>2, <2>3, <2>4, <2>5, LandMaps
  <2>6. CASE UNCHANGED <<rows, landed>>
    BY <2>4, <2>6, Stutters
  <2> QED
    BY <2>1, <2>5, <2>6
<1>4. CASE Receive(c)
  <2> DEFINE ask == op[c].ask
             result == Outcome(ask, op[c].reply)
  <2>1. /\ op[c].state = "executed" /\ UNCHANGED <<rows, landed>>
        /\ op' = [op EXCEPT ![c] =
                    IF ask.kind # "update" THEN Ended(c, result)
                    ELSE IF op[c].reply THEN Ended(c, "ok")
                    ELSE [op[c] EXCEPT !.state = "asking"]]
    BY <1>4 DEF Receive
  <2>2. c \in Holding
    BY <2>1 DEF Holding
  <2>3. /\ ask # None /\ op[c].state # "returned" /\ IsOperation(op[c])
        /\ Writing(c) => op[c].reply = (c \in landed)
    BY <2>1, <2>2, HoldingFacts DEF Settled
  <2>4. ask.kind \in {"insert", "select", "list", "update"}
    BY <2>3, OperationFacts
  <2>5. CASE ask.kind # "update"
    <3>1. result \in {"ok", "not_found", "conflict", "error"}
      BY <2>4, <2>5 DEF Outcome, ToTask
    <3>2. ask.kind = "insert" => (result = "ok" /\ c \in landed) \/ result = "error"
      BY <2>3 DEF Outcome, Writing, Writes
    <3>3. Writing(c) => ask.kind = "insert"
      BY <2>5 DEF Writing, Writes
    <3> HIDE DEF result
    <3>4. Ended(c, result).ask = ask /\ Ended(c, result).result = result
      BY <2>3, <3>1, EndedFields
    <3>5. op' = [op EXCEPT ![c] = Ended(c, result)]
      BY <2>1, <2>5
    <3>6. CASE Writing(c)
      <4>1. PICK operation : operation = Ended(c, result)
        OBVIOUS
      <4>2. operation.ask = op[c].ask /\ operation.result = result
        BY <3>4, <4>1
      <4>3. op' = [op EXCEPT ![c] = operation]
        BY <3>5, <4>1
      <4>4. (operation.result = "ok" /\ c \in landed) \/ operation.result = "error"
        BY <3>2, <3>3, <3>6, <4>2
      <4>5. UNCHANGED <<rows, landed>> /\ op[c].ask # None /\ op[c].state # "returned"
        BY <2>1, <2>3
      <4>6. operation.ask = op[c].ask
        BY <4>2
      <4>7. CASE operation.result = "error"
        BY <4>3, <4>5, <4>6, <4>7, OperationMaps
      <4>8. CASE operation.result = "ok" /\ c \in landed
        BY <4>3, <4>5, <4>6, <4>8, OperationMaps
      <4> QED
        BY <4>4, <4>7, <4>8
    <3>7. CASE ~Writing(c)
      BY <2>1, <2>3, <3>4, <3>5, <3>7, OperationMaps
    <3> QED
      BY <3>6, <3>7
  <2>6. CASE ask.kind = "update" /\ op[c].reply
    <3>1. c \in landed
      BY <2>3, <2>6 DEF Writing, Writes
    <3>2. Ended(c, "ok").ask = ask /\ Ended(c, "ok").result = "ok"
      BY <2>3, EndedFields
    <3>3. op' = [op EXCEPT ![c] = Ended(c, "ok")]
      BY <2>1, <2>6
    <3> QED
      BY <2>1, <2>3, <3>1, <3>2, <3>3, OperationMaps
  <2>7. CASE ask.kind = "update" /\ ~op[c].reply
    <3>1. PICK operation : operation = [op[c] EXCEPT !.state = "asking"]
      OBVIOUS
    <3>2. operation.ask = ask /\ operation.state = "asking"
      BY <2>3, <3>1 DEF IsOperation
    <3>3. op' = [op EXCEPT ![c] = operation]
      BY <2>1, <2>7, <3>1
    <3> QED
      BY <2>1, <2>3, <3>2, <3>3, OperationMaps
  <2> QED
    BY <2>5, <2>6, <2>7
<1>5. CASE Diagnose(c)
  <2> DEFINE row == rows[op[c].ask.id]
             back == Ended(c, "conflict")
             operation == [back EXCEPT !.reply = row.task.version]
  <2>1. op[c].state = "asking" /\ UNCHANGED <<rows, landed>>
    BY <1>5 DEF Diagnose
  <2>2. c \in Holding
    BY <2>1 DEF Holding
  <2>3. op[c].ask # None /\ op[c].state # "returned" /\ IsOperation(op[c]) /\ Overwritten(c)
    BY <2>1, <2>2, HoldingFacts DEF Settled
  <2>4. op' = [op EXCEPT ![c] = operation]
    BY <1>5, <2>3 DEF Diagnose, Overwritten
  <2>5. back.ask = op[c].ask /\ back.result = "conflict" /\ IsOperation(back)
    BY <2>3, EndedFields
  <2> HIDE DEF back
  <2>6. operation.ask = op[c].ask /\ operation.result = "conflict"
    <3>1. operation = [ask |-> back.ask, state |-> back.state, reply |-> row.task.version,
                       result |-> back.result]
      BY <2>5, ReplySet DEF IsOperation, IsRecord
    <3> QED
      BY <2>5, <3>1
  <2> HIDE DEF operation
  <2> QED
    BY <2>1, <2>3, <2>4, <2>6, OperationMaps
<1> QED
  BY <1>1, <1>2, <1>3, <1>4, <1>5

\* An operation that begins is a submission, or nothing.
LEMMA BeginMaps ==
  ASSUME ApiInv, NEW c \in Request, NEW ask, Begin(c, ask), VerdictAt(op[c]) = "none",
         \/ ask = List
         \/ \E id : ask = Select(id)
         \/ /\ ask # None /\ ask.kind \in Writes /\ ask.id \in TaskId
            /\ ask.expected <= VersionAt(rows[ask.id])
            /\ ask.task.version = ask.expected + 1
  PROVE  Maps
<1>1. UNCHANGED <<rows, landed>>
  BY DEF Begin
<1>2. /\ op' = [op EXCEPT ![c] = op'[c]] /\ op'[c].ask = ask
      /\ op'[c].state = "queued" \/ (op'[c].state = "returned" /\ op'[c].result = "error")
  BY BeginFacts
<1>3. \A d \in Request \ {c} : op'[d] = op[d]
  BY <1>2 DEF ApiInv, Shape
<1>4. WriteAt(op[c]) = None
  BY DEF WriteAt, VerdictAt
<1>5. CASE ask = List \/ \E id : ask = Select(id)
  <2>1. ask.kind \notin Writes
    BY <1>5 DEF List, Select, Writes
  <2>2. WriteAt(op'[c]) = None /\ VerdictAt(op'[c]) = "none"
    BY <1>2, <2>1 DEF WriteAt, VerdictAt
  <2> QED
    BY <1>1, <1>3, <1>4, <2>2, Stutters
<1>6. CASE /\ ask # None /\ ask.kind \in Writes /\ ask.id \in TaskId
           /\ ask.expected <= VersionAt(rows[ask.id])
           /\ ask.task.version = ask.expected + 1
  <2>1. VerdictAt(op'[c]) \in {"open", "unknown"}
    BY <1>2, <1>6 DEF VerdictAt
  <2>2. WriteAt(op'[c]) = [id |-> ask.id, task |-> ask.task, expected |-> ask.expected]
    BY <1>2, <1>6 DEF WriteAt
  <2>3. PICK id, task, expected : id = ask.id /\ task = ask.task /\ expected = ask.expected
    OBVIOUS
  <2> QED
    BY <1>1, <1>3, <1>6, <2>1, <2>2, <2>3, Submits
<1> QED
  BY <1>5, <1>6

LEMMA RequestMaps ==
  ASSUME ApiInv, NEW c \in Request, Arrive(c) \/ TransitionTask(c) \/ Answer(c)
  PROVE  Maps
<1>1. CASE UNCHANGED storeVars
  BY <1>1, Stutters DEF storeVars
<1>2. CASE Arrive(c)
  <2>1. PICK ask \in Ask[c] :
          \/ UNCHANGED storeVars
          \/ Begin(c, FirstOperation(ask.route, ask.by, IF ask.route = "create" THEN c ELSE ask.id))
             /\ ask.by # None
    BY <1>2 DEF Arrive
  <2>2. op[c] = NoOp
    BY <1>2, NotArrived DEF Arrive
  <2>3. ask.route \in Route /\ ask.by \in Subject \cup {None}
    BY AskFacts
  <2>4. VerdictAt(op[c]) = "none"
    BY <2>2 DEF VerdictAt, NoOp
  <2>5. CASE UNCHANGED storeVars
    BY <1>1, <2>5
  <2>6. CASE /\ Begin(c, FirstOperation(ask.route, ask.by,
                                        IF ask.route = "create" THEN c ELSE ask.id))
             /\ ask.by # None
    <3>1. CASE ask.route = "create"
      <4> DEFINE asked == Insert(c, NewTask(ask.by))
      <4>1. Begin(c, asked)
        BY <2>6, <3>1 DEF FirstOperation
      <4>2. c \in TaskId /\ NewTask(ask.by) \in AgentTask /\ NewTask(ask.by).version = 1
        BY <2>3, <2>6, ApiAssumption, NewTaskType DEF NewTask
      <4>3. /\ asked # None /\ asked.kind \in Writes /\ asked.id = c /\ asked.expected = 0
            /\ asked.task = NewTask(ask.by)
        BY <4>2, Operations DEF Insert, Writes
      <4>4. 0 <= VersionAt(rows[c])
        BY <4>2, VersionOnRow, VersionTypes DEF ApiInv
      <4>5. asked.expected <= VersionAt(rows[asked.id]) /\ asked.task.version = asked.expected + 1
        BY <4>2, <4>3, <4>4
      <4> HIDE DEF asked
      <4> QED
        BY <2>4, <4>1, <4>2, <4>3, <4>5, BeginMaps
    <3>2. CASE ask.route = "list"
      <4>1. Begin(c, List)
        BY <2>6, <3>2 DEF FirstOperation
      <4> QED
        BY <2>4, <4>1, BeginMaps
    <3>3. CASE ask.route \in {"get", "start", "cancel"}
      <4>1. Begin(c, Select(ask.id))
        BY <2>6, <3>3 DEF FirstOperation
      <4> QED
        BY <2>4, <4>1, BeginMaps
    <3> QED
      BY <2>3, <3>1, <3>2, <3>3 DEF Route
  <2> QED
    BY <2>1, <2>5, <2>6
<1>3. CASE TransitionTask(c) /\ ~UNCHANGED storeVars
  <2>1. Transitions(c) /\ Working(c) /\ op[c].ask.kind = "select"
    BY <1>3 DEF TransitionTask, Transitions
  <2>2. /\ req[c].route \in {"start", "cancel"} /\ req[c].id \in TaskId
        /\ ReadFrom(req[c].id, op[c].reply.task) /\ Admitted(c)
    BY <2>1, WorkingFacts
  <2>3. PICK task \in AgentTask : task = op[c].reply.task /\ ReadFrom(req[c].id, task)
    BY <2>2 DEF ReadFrom
  <2>4. Begin(c, TransitionOf(c, task))
    BY <1>3, <2>3 DEF TransitionTask, TransitionOf
  <2>5. VerdictAt(op[c]) = "none"
    BY <2>1 DEF VerdictAt, Writes
  <2> DEFINE next == TransitionTo(task, Target[req[c].route], Reasons[req[c].route],
                                  Names(req[c].route, req[c].by), None)
  <2>6. next \in AgentTask /\ next.version = task.version + 1
    <3>1. /\ Target[req[c].route] \in TaskStatus /\ Reasons[req[c].route] \in Reason
          /\ Names(req[c].route, req[c].by) \in Subject \cup {None}
      BY <2>2 DEF Target, Reasons, TaskStatus, Reason, Names, Admitted
    <3>2. next \in AgentTask
      BY <3>1, TransitionToType
    <3>3. next.version = task.version + 1
      BY DEF TransitionTo, AgentTask
    <3> QED
      BY <3>2, <3>3
  <2> DEFINE asked == TransitionOf(c, task)
  <2>7. asked = Update(req[c].id, next, task.version) /\ task.version \in Nat
    BY DEF TransitionOf, AgentTask
  <2> HIDE DEF next, asked
  <2>8. /\ asked # None /\ asked.kind \in Writes /\ asked.id = req[c].id
        /\ asked.expected = task.version /\ asked.task = next
    BY <2>2, <2>6, <2>7, Operations DEF Update, Writes
  <2>9. asked.expected <= VersionAt(rows[asked.id])
    <3>1. rows[req[c].id] # None /\ task.version <= rows[req[c].id].task.version
      BY <2>3 DEF ReadFrom
    <3> QED
      BY <2>2, <2>8, <3>1, VersionOnRow DEF ApiInv
  <2>10. asked.id \in TaskId /\ asked.task.version = asked.expected + 1
    BY <2>2, <2>6, <2>8
  <2>11. Begin(c, asked)
    BY <2>4 DEF asked
  <2> QED
    BY <2>5, <2>8, <2>9, <2>10, <2>11, BeginMaps
<1>4. CASE Answer(c)
  BY <1>1, <1>4 DEF Answer
<1> QED
  BY <1>1, <1>2, <1>3, <1>4

LEMMA NextMaps ==
  ASSUME ApiInv, [Next]_vars
  PROVE  Maps
<1>1. CASE UNCHANGED vars
  BY <1>1, Stutters DEF vars, storeVars
<1> QED
  BY <1>1, RequestMaps, PoolMaps, StatementMaps DEF Next, StoreNext

LEMMA InitMaps ==
  ASSUME Init
  PROVE  Contract!Init
<1>1. landed = {} /\ \A c \in Request : op[c] = NoOp
  BY DEF Init, InitStore
<1>2. \A c \in Request : WriteAt(op[c]) = None /\ VerdictAt(op[c]) = "none"
  BY <1>1 DEF WriteAt, VerdictAt, NoOp
<1> QED
  BY <1>1, <1>2 DEF Contract!Init, WriteAt, VerdictAt

\* The Postgres store is a task store: over a pool that is too small, statements given
\* up and connections lost, of two writes over one version at most one lands, and a
\* conflict is reported to none but the loser (tasks/repository.py, TaskRepository;
\* tasks/postgres.py, add and update).
THEOREM StoreImplementsContract == Spec => KeepsContract
<1>1. Init => Contract!Init
  BY InitMaps
<1>2. ApiInv /\ [Next]_vars => [Contract!Next]_(Contract!vars)
  BY NextMaps DEF Maps
<1> QED
  BY <1>1, <1>2, ApiInvariant, PTL DEF Spec, KeepsContract, Contract!Spec
=============================================================================
