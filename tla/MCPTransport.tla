---------------------------- MODULE MCPTransport ----------------------------
(***************************************************************************)
(* The stdio channel to one MCP server (mcp/transport.py, StdioTransport), *)
(* with the deadline MCPClient puts around each request (mcp/client.py).   *)
(*                                                                         *)
(* Any number of coroutines multiplex their requests over one pipe.  Each  *)
(* registers a future under a fresh id, writes a line under a lock and     *)
(* waits; a single reader hands each reply to the future of its id.  The   *)
(* server is an external process: it may answer in any order, late, twice  *)
(* or never, send something else, stop talking, or exit.  Meanwhile        *)
(* deadlines expire and the transport is closed.                           *)
(*                                                                         *)
(* A step is the code between two awaits.  The lock is granted to any of   *)
(* those waiting for it, not only to the first.                            *)
(***************************************************************************)
EXTENDS Naturals, Sequences, FiniteSets

CONSTANTS Call,       \* the uses of the channel, one request or notification each
          Notices,    \* those that are notifications
          Backlog,    \* bound on the lines in the server's output pipe
          None

ASSUME CallAssumption ==
  /\ Notices \subseteq Call
  /\ None \notin Call
  /\ Backlog \in Nat

VARIABLES
  next_id,   \* _next_id
  pending,   \* _pending: the entries id -> call waiting for a reply
  future,    \* the future of each call, None until it is set
  pc,        \* where each call stands
  id,        \* the id each call was given, 0 for a notification
  outcome,   \* how each call ended
  lock,      \* _write_lock: its holder
  closed,    \* _closed
  closer,    \* where aclose stands
  reader,    \* the reader task
  process,   \* the child process
  sent,      \* the requests that have reached the server
  stdout     \* the lines it has written and nobody has read

callVars    == <<next_id, pending, future, pc, id, outcome, lock>>
closingVars == <<closed, closer>>
serverVars  == <<process, sent, stdout>>
vars == <<callVars, closingVars, reader, serverVars>>

Message == [id : Nat, call : Call]

\* What a line says.  "noise" is anything _dispatch ignores: no JSON, no
\* object, no id.  "oversize" is a line longer than MAX_FRAME_BYTES.
Line == [id : Nat, call : Call, kind : {"result", "error", "malformed"}]
        \cup [id : {0}, call : {None}, kind : {"noise", "oversize"}]

\* How a call ends: "result" and the like as the future was set, "timeout" at
\* its deadline, "sent" for a notification.  "of" is the call that was answered.
Outcome ==
  [kind : {"result", "remote_error", "protocol_error"}, of : Call]
  \cup [kind : {"transport_error", "timeout", "sent"}, of : {None}]

ASSUME NoneIsNoOutcome == None \notin Outcome

TransportError == [kind |-> "transport_error", of |-> None]
TimedOut       == [kind |-> "timeout", of |-> None]

\* A call whose deadline has expired holds on to its entry, and to the lock if it
\* has it, until its coroutine has run.
InFlight(c) == pc[c] \in {"queued", "draining", "waiting", "abandoned"}

\* process.stdin can be written to, as far as the transport can tell.
StdinOpen == process \in {"alive", "mute"} /\ closer = "open"

Init ==
  /\ next_id = 0
  /\ pending = {}
  /\ future  = [c \in Call |-> None]
  /\ pc      = [c \in Call |-> "idle"]
  /\ id      = [c \in Call |-> 0]
  /\ outcome = [c \in Call |-> None]
  /\ lock    = None
  /\ closed  = FALSE
  /\ closer  = "open"
  /\ reader  = "none"
  /\ process = "none"
  /\ sent    = {}
  /\ stdout  = << >>

----------------------------------------------------------------------------
\* start: the child runs, and so does the reader.  If it cannot be started
\* nothing changes.  start does not look at the closed flag: a transport that is
\* closed while it starts leaves a child behind.
Start ==
  /\ process = "none"
  /\ process' = "alive"
  /\ reader'  = "reading"
  /\ UNCHANGED <<callVars, closingVars, sent, stdout>>

----------------------------------------------------------------------------
(* The life of a call.                                                     *)

Connected == ~closed /\ process # "none"

\* -- variant: a deadline that leaves the entry behind
Retire_Leak(c) == pending' = pending

\* The finally of request: whatever happens, the id is retired.
Retire(c) == pending' = {entry \in pending : entry.id # id[c]}

End(c, result) ==
  /\ pc'      = [pc EXCEPT ![c] = "done"]
  /\ outcome' = [outcome EXCEPT ![c] = result]
  /\ Retire(c)
  /\ lock'    = IF lock = c THEN None ELSE lock

\* -- variant: a request is numbered by how many are in flight
NewId_Reused == Cardinality(pending) + 1

NewId == next_id + 1

\* -- variant: a closed channel is not refused
Refused_Late == FALSE

\* _write refuses a channel that is closed or was never opened.
Refused == ~Connected

\* request, up to the write lock: the future is registered before anything is
\* written.
Request(c) ==
  /\ pc[c] = "idle"
  /\ c \notin Notices
  /\ next_id' = NewId
  /\ id' = [id EXCEPT ![c] = NewId]
  /\ IF Refused
       THEN /\ pc' = [pc EXCEPT ![c] = "done"]
            /\ outcome' = [outcome EXCEPT ![c] = TransportError]
            /\ UNCHANGED pending
       ELSE /\ pc' = [pc EXCEPT ![c] = "queued"]
            /\ pending' = {entry \in pending : entry.id # NewId}
                            \cup {[id |-> NewId, call |-> c]}
            /\ UNCHANGED outcome
  /\ UNCHANGED <<future, lock, closingVars, reader, serverVars>>

\* A request has been answered: the only notification follows the reply to
\* initialize (client.py).
Answered == \E c \in Call : outcome[c] # None /\ outcome[c].kind = "result"

Notify(c) ==
  /\ pc[c] = "idle"
  /\ c \in Notices
  /\ Answered
  /\ IF Refused
       THEN /\ pc' = [pc EXCEPT ![c] = "done"]
            /\ outcome' = [outcome EXCEPT ![c] = TransportError]
       ELSE /\ pc' = [pc EXCEPT ![c] = "queued"]
            /\ UNCHANGED outcome
  /\ UNCHANGED <<next_id, pending, future, id, lock, closingVars, reader, serverVars>>

\* The line is buffered whole; what is written to a closed pipe is dropped.
Write(c) ==
  /\ pc[c] = "queued"
  /\ lock = None
  /\ lock' = c
  /\ pc'   = [pc EXCEPT ![c] = "draining"]
  /\ sent' = IF StdinOpen /\ c \notin Notices
               THEN sent \cup {[id |-> id[c], call |-> c]}
               ELSE sent
  /\ UNCHANGED <<next_id, pending, future, id, outcome, closingVars, reader,
                 process, stdout>>

\* drain returns: the pipe has room, or a closed pipe did not say so.
Drained(c) ==
  /\ pc[c] = "draining"
  /\ IF c \in Notices
       THEN End(c, [kind |-> "sent", of |-> None])
       ELSE /\ pc' = [pc EXCEPT ![c] = "waiting"]
            /\ lock' = None
            /\ UNCHANGED <<pending, outcome>>
  /\ UNCHANGED <<next_id, future, id, closingVars, reader, serverVars>>

\* drain raises BrokenPipeError or ConnectionResetError: the server has closed
\* its input, before or after it read the line.
DrainFails(c) ==
  /\ pc[c] = "draining"
  /\ End(c, TransportError)
  /\ UNCHANGED <<next_id, future, id, closingVars, reader, serverVars>>

Take(c) ==
  /\ pc[c] = "waiting"
  /\ future[c] # None
  /\ End(c, future[c])
  /\ UNCHANGED <<next_id, future, id, closingVars, reader, serverVars>>

\* -- variant: the deadline covers only the wait for the reply
UnderDeadline_WaitOnly(c) == pc[c] = "waiting"

\* Each request has a deadline (client.py), and so has the handshake, which
\* sends the one notification (factory.py).
UnderDeadline(c) == pc[c] \in {"queued", "draining", "waiting"}

\* The caller's deadline cancels the call wherever it is, even if its future
\* has been set in the meantime.  If the call waits for the future, that is
\* cancelled at once: it is done, and still registered.
TimesOut(c) ==
  /\ UnderDeadline(c)
  /\ pc' = [pc EXCEPT ![c] = "abandoned"]
  /\ future' = IF pc[c] = "waiting" /\ future[c] = None
                 THEN [future EXCEPT ![c] = TimedOut] ELSE future
  /\ UNCHANGED <<next_id, pending, id, outcome, lock, closingVars, reader, serverVars>>

\* The cancelled coroutine runs, and so does its finally.
Abandon(c) ==
  /\ pc[c] = "abandoned"
  /\ End(c, TimedOut)
  /\ UNCHANGED <<next_id, future, id, closingVars, reader, serverVars>>

----------------------------------------------------------------------------
(* The reader task.                                                        *)

\* Futures that are done are left alone (_fail_pending).
Settle(calls, result) ==
  future' = [c \in Call |-> IF c \in calls /\ future[c] = None THEN result ELSE future[c]]

Registered == {c \in Call : \E entry \in pending : entry.call = c}

Addressee(line) ==
  {c \in Call : \E entry \in pending : entry.call = c /\ entry.id = line.id}

Reply(line) ==
  [kind |-> CASE line.kind = "result" -> "result"
              [] line.kind = "error"  -> "remote_error"
              [] OTHER                -> "protocol_error",
   of |-> line.call]

\* -- variant: _dispatch only looks whether the id is known
Waiting_Registered(c) == TRUE

\* _dispatch drops the reply to a future that is done already: set by an earlier
\* reply, failed, or cancelled with its caller.
Waiting(c) == future[c] = None

Recipients(line) == {c \in Addressee(line) : Waiting(c)}

\* What ends the reader: an oversize frame; and setting a future that is done
\* raises InvalidStateError, which the last handler of _read_stdout takes for a
\* failure of the channel.
Breaks(line) == line.kind = "oversize" \/ \E c \in Recipients(line) : future[c] # None

\* One line is read and dispatched.  A reply nobody waits for any more is dropped,
\* and so is noise.
ReadLine ==
  /\ reader = "reading"
  /\ stdout # << >>
  /\ stdout' = Tail(stdout)
  /\ LET line == Head(stdout) IN
     IF Breaks(line)
       THEN /\ reader' = "ended"
            /\ Settle(Registered, TransportError)
       ELSE /\ UNCHANGED reader
            /\ IF line.kind = "noise"
                 THEN UNCHANGED future
                 ELSE Settle(Recipients(line), Reply(line))
  /\ UNCHANGED <<next_id, pending, pc, id, outcome, lock, closingVars, process, sent>>

\* -- variant: end of file just ends the reader
ReadEnd_Silent ==
  /\ reader = "reading"
  /\ stdout = << >>
  /\ process \in {"mute", "exited"}
  /\ reader' = "ended"
  /\ UNCHANGED <<callVars, closingVars, serverVars>>

\* End of file: every call still waiting is told.
ReadEnd ==
  /\ reader = "reading"
  /\ stdout = << >>
  /\ process \in {"mute", "exited"}
  /\ reader' = "ended"
  /\ Settle(Registered, TransportError)
  /\ UNCHANGED <<next_id, pending, pc, id, outcome, lock, closingVars, serverVars>>

----------------------------------------------------------------------------
(* aclose.                                                                 *)

\* The flag, the cancelled reader, and either nothing to wait for or the
\* request to exit.
Close ==
  /\ ~closed
  /\ closed' = TRUE
  /\ reader' = IF reader = "reading" THEN "ended" ELSE reader
  /\ closer' = CASE process = "none" -> "done"
                 [] OTHER            -> "waiting"
  /\ UNCHANGED <<callVars, serverVars>>

\* Two grace periods, ending in terminate and kill.
Terminate ==
  /\ closer = "waiting"
  /\ process # "exited"
  /\ closer' = "terminating"
  /\ UNCHANGED <<callVars, closed, reader, serverVars>>

\* -- variant: no escalation beyond terminate
Kill_Never ==
  /\ closer = "terminating"
  /\ process = "exited"
  /\ UNCHANGED vars

Kill ==
  /\ closer = "terminating"
  /\ process # "exited"
  /\ process' = "exited"
  /\ UNCHANGED <<callVars, closingVars, reader, sent, stdout>>

\* The process is gone: whoever still waits is told.
FinishClose ==
  /\ closer \in {"waiting", "terminating"}
  /\ process = "exited"
  /\ closer' = "done"
  /\ Settle(Registered, TransportError)
  /\ UNCHANGED <<next_id, pending, pc, id, outcome, lock, closed, reader, serverVars>>

----------------------------------------------------------------------------
(* The server.                                                             *)

ServerWrites(line) ==
  /\ process = "alive"
  /\ Len(stdout) < Backlog
  /\ stdout' = Append(stdout, line)
  /\ UNCHANGED <<callVars, closingVars, reader, process, sent>>

\* It answers any request it has, again if it likes, under that request's id.
ServerAnswers ==
  \E message \in sent, kind \in {"result", "error", "malformed"} :
    ServerWrites([id |-> message.id, call |-> message.call, kind |-> kind])

ServerBabbles ==
  \E kind \in {"noise", "oversize"} : ServerWrites([id |-> 0, call |-> None, kind |-> kind])

\* It closes its output, or exits.
ServerStops(how) ==
  /\ how \in {"mute", "exited"}
  /\ process \in {"alive", "mute"} \ {how}
  /\ process' = how
  /\ UNCHANGED <<callVars, closingVars, reader, sent, stdout>>

----------------------------------------------------------------------------
Next ==
  \/ Start \/ Close \/ Terminate \/ Kill \/ FinishClose
  \/ ReadLine \/ ReadEnd
  \/ \E c \in Call : \/ Request(c) \/ Notify(c) \/ Write(c) \/ Drained(c)
                     \/ DrainFails(c) \/ Take(c) \/ TimesOut(c) \/ Abandon(c)
  \/ ServerAnswers \/ ServerBabbles
  \/ \E how \in {"mute", "exited"} : ServerStops(how)

Spec == Init /\ [][Next]_vars

\* Deadlines expire, what they cancel runs, and aclose is driven on.  Nothing is
\* owed by the server: it may neither read, nor answer, nor exit when asked to.
FairSpec ==
  /\ Spec
  /\ \A c \in Call : WF_vars(Take(c) \/ TimesOut(c) \/ Abandon(c))
  /\ WF_vars(Terminate \/ Kill \/ FinishClose)

----------------------------------------------------------------------------
(* Properties.                                                             *)

\* Every variable holds what the code can put there (transport.py).
TypeOK ==
  /\ next_id \in Nat
  /\ pending \in SUBSET Message
  /\ future \in [Call -> Outcome \cup {None}]
  /\ pc \in [Call -> {"idle", "queued", "draining", "waiting", "abandoned", "done"}]
  /\ id \in [Call -> Nat]
  /\ outcome \in [Call -> Outcome \cup {None}]
  /\ lock \in Call \cup {None}
  /\ closed \in BOOLEAN
  /\ closer \in {"open", "waiting", "terminating", "done"}
  /\ reader \in {"none", "reading", "ended"}
  /\ process \in {"none", "alive", "mute", "exited"}
  /\ sent \in SUBSET Message
  /\ stdout \in Seq(Line)

\* A call is never given the reply to another one, however late, early or often
\* the server answers (test_mcp_stdio.py: "concurrent calls are matched to their
\* own replies").
OnlyItsOwnReply ==
  \A c \in Call :
    outcome[c] # None /\ outcome[c].of # None => outcome[c].of = c

\* The table of pending requests is exactly the requests in flight: an abandoned
\* one is retired with its caller, so the table cannot grow (transport.py,
\* request).
PendingIsInFlight ==
  pending = {[id |-> id[c], call |-> c] : c \in {d \in Call \ Notices : InFlight(d)}}

\* Once aclose has returned, no call is left waiting for a reply that cannot
\* come, not even one that was queued for the write lock (transport.py, aclose).
ClosedMeansSettled ==
  closer = "done" => \A c \in Call \ Notices : InFlight(c) => future[c] # None

\* When the server's output ends, whoever waits for a reply at that moment is
\* told (transport.py, _read_stdout).
EndIsAnnounced ==
  [][reader = "reading" /\ reader' = "ended" /\ closed' = closed
       => \A c \in Call \ Notices : InFlight(c) => future'[c] # None]_vars

\* A request on a channel whose reader has failed fails: it does not wait for a
\* reply nobody will read (transport.py, MCPTransport.request: "MCPTransportError:
\* the channel failed or the server went away").
NoWaitOnDeadChannel ==
  reader = "ended" /\ ~closed =>
    \A c \in Call \ Notices : pc[c] = "waiting" => future[c] # None

\* A reply that comes late, twice, or to a call that is just being cancelled hurts
\* nobody: the reader goes on reading, and of the calls in flight only the one it
\* answers learns of it, if it still waits (transport.py, _dispatch: a future that
\* is done must not be set; _read_stdout would fail every request for it).
StrayRepliesAreHarmless ==
  [][stdout # << >> /\ stdout' = Tail(stdout) /\ Head(stdout).kind # "oversize"
       => /\ reader' = reader
          /\ \A c \in Call : future'[c] # future[c]
               => InFlight(c) /\ future[c] = None /\ future'[c].of = c]_vars

\* Every call ends, whatever the server does with its pipes (client.py,
\* _request: "costs one timeout instead of an agent run that never ends").
CallsEnd == \A c \in Call : InFlight(c) ~> pc[c] = "done"

\* Closing ends, even if the server ignores the request to exit (transport.py,
\* aclose: "a shutdown cannot hang on a misbehaving child").
CloseEnds == closed ~> closer = "done"
=============================================================================
