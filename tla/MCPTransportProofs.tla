------------------------- MODULE MCPTransportProofs -------------------------
(***************************************************************************)
(* Theorems about MCPTransport, for any number of calls and any server.    *)
(***************************************************************************)
EXTENDS MCPTransport, TLAPS

----------------------------------------------------------------------------
(* The inductive invariant.                                                *)

\* A request has an id of its own, a notification has none.
OwnIds ==
  /\ \A c \in Call : id[c] <= next_id
  /\ \A c, d \in Call : id[c] = id[d] /\ id[c] # 0 => c = d
  /\ \A c \in Call : InFlight(c) /\ c \notin Notices => id[c] # 0
  /\ \A c \in Call : pc[c] = "idle" => id[c] = 0

\* What the server has read, and what it writes about it, carries that id.
Tagged(message) == message.id # 0 /\ message.id = id[message.call]

TaggedSent == \A message \in sent : Tagged(message)

TaggedStdout ==
  \A i \in 1..Len(stdout) :
    stdout[i].kind \in {"result", "error", "malformed"} => Tagged(stdout[i])

\* A future never holds the reply to another call.
OwnFuture ==
  \A c \in Call : future[c] # None /\ future[c].of # None => future[c].of = c

\* Nothing is in flight before the channel is open, nor is it closing unless
\* it is closed.
Opened ==
  /\ process = "none" => \A c \in Call : ~InFlight(c)
  /\ closer # "open" => closed

TransportInv ==
  /\ TypeOK
  /\ OwnIds
  /\ TaggedSent
  /\ TaggedStdout
  /\ OwnFuture
  /\ Opened
  /\ OnlyItsOwnReply
  /\ PendingIsInFlight
  /\ ClosedMeansSettled

LEMMA FailureTypes ==
  /\ TransportError \in Outcome /\ TransportError.of = None
  /\ TimedOut \in Outcome /\ TimedOut.of = None
BY DEF TransportError, TimedOut, Outcome

LEMMA InitInv == Init => TransportInv
<1> SUFFICES ASSUME Init PROVE TransportInv
  OBVIOUS
<1> USE DEF Init
<1>1. TypeOK
  <2>1. << >> \in Seq(Line)
    OBVIOUS
  <2>2. pending \in SUBSET Message /\ sent \in SUBSET Message
    OBVIOUS
  <2> QED
    BY <2>1, <2>2 DEF TypeOK
<1>2. OwnIds /\ TaggedSent /\ OwnFuture /\ Opened /\ OnlyItsOwnReply
  BY DEF OwnIds, TaggedSent, OwnFuture, Opened, OnlyItsOwnReply, InFlight
<1>3. TaggedStdout
  BY DEF TaggedStdout
<1>4. PendingIsInFlight /\ ClosedMeansSettled
  BY DEF PendingIsInFlight, ClosedMeansSettled, InFlight
<1> QED
  BY <1>1, <1>2, <1>3, <1>4 DEF TransportInv

----------------------------------------------------------------------------
(* The two things steps do: end a call, and set futures.                   *)

\* Retiring a call removes its own entry and no other.
LEMMA EndKeepsInv ==
  ASSUME TransportInv, NEW c \in Call, InFlight(c),
         NEW result \in Outcome, result.of # None => result.of = c,
         End(c, result),
         UNCHANGED <<next_id, future, id, closingVars, reader, serverVars>>
  PROVE  TransportInv'
<1> USE DEF TransportInv, closingVars, serverVars
<1> USE DEF End, Retire
<1>1. TypeOK'
  BY DEF TypeOK
<1>2. \A d \in Call : d # c => InFlight(d)' = InFlight(d)
  BY DEF TypeOK, InFlight
<1>3. ~InFlight(c)' /\ pc'[c] # "idle"
  BY DEF TypeOK, InFlight
<1>4. OwnIds' /\ Opened'
  BY <1>2, <1>3 DEF OwnIds, Opened, TypeOK
<1>5. TaggedSent' /\ TaggedStdout' /\ OwnFuture'
  BY DEF TaggedSent, TaggedStdout, Tagged, OwnFuture
<1>6. OnlyItsOwnReply'
  BY DEF OnlyItsOwnReply, TypeOK
<1>7. PendingIsInFlight'
  <2> DEFINE entry(d) == [id |-> id[d], call |-> d]
  <2>1. pending = {entry(d) : d \in {e \in Call \ Notices : InFlight(e)}}
    BY DEF PendingIsInFlight
  <2>2. pending' = {m \in pending : m.id # id[c]}
    OBVIOUS
  <2>3. \A d \in Call \ Notices : InFlight(d) /\ d # c => id[d] # id[c]
    BY DEF OwnIds
  <2>4. \A d \in Call \ Notices : InFlight(d)' <=> InFlight(d) /\ d # c
    BY <1>2, <1>3
  <2>5. \A m : m \in pending' <=> \E d \in Call \ Notices : InFlight(d)' /\ m = entry(d)
    BY <2>1, <2>2, <2>3, <2>4
  <2> QED
    BY <2>5 DEF PendingIsInFlight
<1>8. ClosedMeansSettled'
  BY <1>2, <1>3 DEF ClosedMeansSettled
<1> QED
  BY <1>1, <1>4, <1>5, <1>6, <1>7, <1>8

\* Futures are set once, to something that is no reply to another call.
LEMMA SettleFutures ==
  ASSUME TypeOK, OwnFuture, NEW calls \in SUBSET Call, NEW result \in Outcome,
         \A c \in calls : result.of # None => result.of = c,
         Settle(calls, result)
  PROVE  /\ future' \in [Call -> Outcome \cup {None}]
         /\ OwnFuture'
         /\ \A c \in Call : future[c] # None => future'[c] = future[c]
         /\ \A c \in calls : future'[c] # None
BY NoneIsNoOutcome DEF TypeOK, OwnFuture, Settle

\* A step that only sets futures, reads or writes a line, or moves the reader,
\* the closer or the process.
LEMMA OutsideStep ==
  ASSUME TransportInv,
         UNCHANGED <<next_id, pending, pc, id, outcome, lock, sent>>,
         future' \in [Call -> Outcome \cup {None}], OwnFuture',
         \A c \in Call : future[c] # None => future'[c] # None,
         closed' \in BOOLEAN, closed => closed',
         closer' \in {"open", "waiting", "terminating", "done"},
         closer' # "open" => closed',
         reader' \in {"none", "reading", "ended"},
         process' \in {"none", "alive", "mute", "exited"},
         process' = "none" => process = "none",
         stdout' \in Seq(Line), TaggedStdout',
         closer' = "done" => closer = "done" \/ process = "none"
                               \/ \A c \in Registered : future'[c] # None
  PROVE  TransportInv'
<1> USE DEF TransportInv
<1>1. TypeOK'
  BY DEF TypeOK
<1>2. \A c \in Call : InFlight(c)' = InFlight(c)
  BY DEF InFlight
<1>3. OwnIds' /\ Opened'
  BY <1>2 DEF OwnIds, Opened
<1>4. TaggedSent' /\ OnlyItsOwnReply' /\ PendingIsInFlight'
  BY <1>2 DEF TaggedSent, Tagged, OnlyItsOwnReply, PendingIsInFlight
<1>5. ClosedMeansSettled'
  <2>1. \A c \in Call \ Notices : InFlight(c) => c \in Registered
    <3> SUFFICES ASSUME NEW c \in Call \ Notices, InFlight(c)
                 PROVE  \E entry \in pending : entry.call = c
      BY DEF Registered
    <3>1. [id |-> id[c], call |-> c] \in pending
      BY DEF PendingIsInFlight
    <3> QED
      BY <3>1
  <2> QED
    BY <1>2, <2>1 DEF ClosedMeansSettled, Opened
<1> QED
  BY <1>1, <1>3, <1>4, <1>5

----------------------------------------------------------------------------
(* The steps of a call.                                                    *)

\* The new id is larger than any in use, so it names nobody else.
LEMMA RequestKeepsInv ==
  ASSUME TransportInv, NEW c \in Call, Request(c)
  PROVE  TransportInv'
<1> USE DEF TransportInv, Request, closingVars, serverVars
<1>1. /\ next_id \in Nat
      /\ NewId \in Nat /\ NewId > next_id /\ NewId # 0
      /\ next_id' = NewId
      /\ id' = [id EXCEPT ![c] = NewId]
      /\ id \in [Call -> Nat]
      /\ \A d \in Call : id[d] \in Nat /\ id[d] <= next_id
      /\ id[c] = 0
  BY DEF TypeOK, NewId, OwnIds
<1>2. \A d \in Call : d # c => id'[d] = id[d] /\ id'[d] # NewId /\ InFlight(d)' = InFlight(d)
  BY <1>1 DEF TypeOK, InFlight
<1>3. id'[c] = NewId /\ ~InFlight(c) /\ pc'[c] # "idle"
  BY <1>1 DEF TypeOK, InFlight
<1>4. InFlight(c)' <=> ~Refused
  BY DEF TypeOK, InFlight
<1>5. TypeOK'
  <2>1. [id |-> NewId, call |-> c] \in Message
    BY <1>1 DEF Message
  <2>2. pending' \in SUBSET Message
    BY <2>1 DEF TypeOK
  <2>3. pc' \in [Call -> {"idle", "queued", "draining", "waiting", "abandoned", "done"}]
        /\ outcome' \in [Call -> Outcome \cup {None}]
    BY FailureTypes DEF TypeOK
  <2> QED
    BY <1>1, <2>2, <2>3 DEF TypeOK
<1>6. OwnIds'
  <2>1. \A d \in Call : id'[d] <= next_id'
    BY <1>1, <1>2, <1>3
  <2>2. \A d, e \in Call : id'[d] = id'[e] /\ id'[d] # 0 => d = e
    BY <1>2, <1>3 DEF OwnIds
  <2>3. \A d \in Call : InFlight(d)' /\ d \notin Notices => id'[d] # 0
    BY <1>1, <1>2, <1>3 DEF OwnIds
  <2>4. \A d \in Call : pc'[d] = "idle" => id'[d] = 0
    BY <1>2, <1>3 DEF OwnIds, TypeOK
  <2> QED
    BY <2>1, <2>2, <2>3, <2>4 DEF OwnIds
<1>7. \A message : message.call \in Call /\ Tagged(message) => Tagged(message)'
  BY <1>1, <1>2 DEF Tagged
<1>8. TaggedSent'
  BY <1>7 DEF TaggedSent, TypeOK, Message
<1>9. TaggedStdout'
  <2>1. \A i \in 1..Len(stdout) :
          stdout[i].kind \in {"result", "error", "malformed"} => stdout[i].call \in Call
    BY DEF TypeOK, Line
  <2> QED
    BY <1>7, <2>1 DEF TaggedStdout
<1>10. OwnFuture' /\ Opened'
  BY <1>2, <1>4 DEF OwnFuture, Opened, Refused, Connected
<1>11. OnlyItsOwnReply'
  BY SMTT(30) DEF OnlyItsOwnReply, TypeOK, TransportError
<1>12. PendingIsInFlight'
  <2> DEFINE entry(d) == [id |-> id[d], call |-> d]
  <2>1. \A m : m \in pending <=> \E d \in Call \ Notices : InFlight(d) /\ m = entry(d)
    BY DEF PendingIsInFlight
  <2>2. \A m \in pending : m.id # NewId
    BY <1>1, <2>1
  <2>3. pending' = IF Refused THEN pending ELSE pending \cup {[id |-> NewId, call |-> c]}
    BY <2>2
  <2>4. \A d \in Call : d # c => entry(d)' = entry(d)
    BY <1>2
  <2>5. entry(c)' = [id |-> NewId, call |-> c]
    BY <1>3
  <2>6. \A m : m \in pending' <=>
               \E d \in Call \ Notices : InFlight(d)' /\ m = entry(d)'
    BY <1>2, <1>3, <1>4, <2>1, <2>3, <2>4, <2>5
  <2> QED
    BY <2>6 DEF PendingIsInFlight
<1>13. ClosedMeansSettled'
  BY <1>2, <1>4 DEF ClosedMeansSettled, Refused, Connected, Opened
<1> QED
  BY <1>5, <1>6, <1>8, <1>9, <1>10, <1>11, <1>12, <1>13

LEMMA NotifyKeepsInv ==
  ASSUME TransportInv, NEW c \in Call, Notify(c)
  PROVE  TransportInv'
<1> USE DEF TransportInv, Notify, closingVars, serverVars
<1>1. \A d \in Call : d # c => InFlight(d)' = InFlight(d)
  BY DEF TypeOK, InFlight
<1>2. InFlight(c)' => ~Refused
  BY DEF TypeOK, InFlight
<1>3. TypeOK'
  BY FailureTypes DEF TypeOK
<1>4. OwnIds'
  BY <1>1 DEF OwnIds, TypeOK
<1>5. TaggedSent' /\ TaggedStdout' /\ OwnFuture'
  BY DEF TaggedSent, TaggedStdout, Tagged, OwnFuture
<1>6. Opened'
  BY <1>1, <1>2 DEF Opened, Refused, Connected
<1>7. OnlyItsOwnReply'
  BY SMTT(30) DEF OnlyItsOwnReply, TypeOK, TransportError
<1>8. PendingIsInFlight'
  BY <1>1 DEF PendingIsInFlight
<1>9. ClosedMeansSettled'
  BY <1>1 DEF ClosedMeansSettled
<1> QED
  BY <1>3, <1>4, <1>5, <1>6, <1>7, <1>8, <1>9

\* Moving on while in flight; a call that is cancelled may lose its future.
LEMMA MoveKeepsInv ==
  ASSUME TransportInv, NEW c \in Call, InFlight(c),
         NEW where \in {"draining", "waiting", "abandoned"},
         pc' = [pc EXCEPT ![c] = where],
         future' \in [Call -> Outcome \cup {None}], OwnFuture',
         \A d \in Call : future[d] # None => future'[d] # None,
         lock' \in Call \cup {None},
         sent' \in SUBSET Message, TaggedSent',
         UNCHANGED <<next_id, pending, id, outcome, closingVars, reader,
                     process, stdout>>
  PROVE  TransportInv'
<1> USE DEF TransportInv, closingVars
<1>1. \A d \in Call : InFlight(d)' = InFlight(d)
  BY DEF TypeOK, InFlight
<1>2. TypeOK'
  BY DEF TypeOK
<1>3. OwnIds' /\ Opened'
  BY <1>1 DEF OwnIds, Opened, TypeOK
<1>4. TaggedStdout' /\ OnlyItsOwnReply'
  BY DEF TaggedStdout, Tagged, OnlyItsOwnReply
<1>5. PendingIsInFlight' /\ ClosedMeansSettled'
  BY <1>1 DEF PendingIsInFlight, ClosedMeansSettled
<1> QED
  BY <1>2, <1>3, <1>4, <1>5

LEMMA WriteKeepsInv ==
  ASSUME TransportInv, NEW c \in Call, Write(c)
  PROVE  TransportInv'
<1> USE DEF Write
<1>1. InFlight(c)
  BY DEF InFlight
<1>2. c \notin Notices => id[c] # 0 /\ id[c] \in Nat
  BY <1>1 DEF TransportInv, OwnIds, TypeOK
<1>3. sent' \in SUBSET Message
  BY <1>2 DEF TransportInv, TypeOK, Message
<1>4. TaggedSent'
  BY <1>2 DEF TransportInv, TaggedSent, Tagged
<1>5. OwnFuture' /\ future \in [Call -> Outcome \cup {None}]
  BY DEF TransportInv, TypeOK, OwnFuture
<1> QED
  BY <1>1, <1>3, <1>4, <1>5, MoveKeepsInv

LEMMA DrainedKeepsInv ==
  ASSUME TransportInv, NEW c \in Call, Drained(c)
  PROVE  TransportInv'
<1> USE DEF Drained
<1>1. InFlight(c)
  BY DEF InFlight
<1>2. CASE c \in Notices
  <2>1. [kind |-> "sent", of |-> None] \in Outcome
    BY DEF Outcome
  <2> QED
    BY <1>1, <1>2, <2>1, EndKeepsInv
<1>3. CASE c \notin Notices
  <2>1. TaggedSent' /\ sent' \in SUBSET Message
    BY <1>3 DEF serverVars, TransportInv, TaggedSent, Tagged, TypeOK
  <2>2. OwnFuture' /\ future \in [Call -> Outcome \cup {None}]
    BY <1>3 DEF TransportInv, TypeOK, OwnFuture
  <2> QED
    BY <1>1, <1>3, <2>1, <2>2, MoveKeepsInv DEF serverVars
<1> QED
  BY <1>2, <1>3

LEMMA EndingKeepsInv ==
  ASSUME TransportInv, NEW c \in Call, DrainFails(c) \/ Take(c) \/ Abandon(c)
  PROVE  TransportInv'
<1>1. CASE DrainFails(c)
  BY <1>1, FailureTypes, EndKeepsInv DEF DrainFails, InFlight
<1>2. CASE Take(c)
  <2>1. future[c] \in Outcome /\ (future[c].of # None => future[c].of = c)
    BY <1>2 DEF Take, TransportInv, TypeOK, OwnFuture
  <2> QED
    BY <1>2, <2>1, EndKeepsInv DEF Take, InFlight
<1>3. CASE Abandon(c)
  BY <1>3, FailureTypes, EndKeepsInv DEF Abandon, InFlight
<1> QED
  BY <1>1, <1>2, <1>3

\* The deadline leaves the call in flight, with a future that is done.
LEMMA TimesOutKeepsInv ==
  ASSUME TransportInv, NEW c \in Call, TimesOut(c)
  PROVE  TransportInv'
<1> USE DEF TimesOut, serverVars
<1>1. InFlight(c)
  BY DEF UnderDeadline, InFlight
<1>2. /\ future' \in [Call -> Outcome \cup {None}] /\ OwnFuture'
      /\ \A d \in Call : future[d] # None => future'[d] # None
  BY FailureTypes, NoneIsNoOutcome DEF TransportInv, TypeOK, OwnFuture
<1>3. TaggedSent' /\ sent' \in SUBSET Message /\ lock' \in Call \cup {None}
  BY DEF TransportInv, TypeOK, TaggedSent, Tagged
<1> QED
  BY <1>1, <1>2, <1>3, MoveKeepsInv

----------------------------------------------------------------------------
(* The steps of the reader, of aclose and of the server.                   *)

LEMMA StartKeepsInv == TransportInv /\ Start => TransportInv'
<1> SUFFICES ASSUME TransportInv, Start PROVE TransportInv'
  OBVIOUS
<1> USE DEF Start, callVars, closingVars
<1>1. OwnFuture' /\ TaggedStdout'
  BY DEF TransportInv, OwnFuture, TaggedStdout, Tagged
<1> QED
  BY <1>1, OutsideStep DEF TransportInv, TypeOK, Opened

\* Whoever is registered under the id of a reply is the call it answers, and in
\* flight.
LEMMA AddresseeIsCall ==
  ASSUME TransportInv, NEW line \in Line, NEW i \in 1..Len(stdout), line = stdout[i],
         line.kind \in {"result", "error", "malformed"}
  PROVE  \A c \in Addressee(line) : c = line.call /\ InFlight(c)
<1>1. line.id # 0 /\ line.id = id[line.call] /\ line.call \in Call
  BY DEF TransportInv, TaggedStdout, Tagged, Line
<1>2. SUFFICES ASSUME NEW c \in Call, NEW entry \in pending,
                      entry.call = c, entry.id = line.id
               PROVE  c = line.call /\ InFlight(c)
  BY DEF Addressee
<1>3. entry.id = id[c] /\ InFlight(c)
  BY <1>2 DEF TransportInv, PendingIsInFlight
<1> QED
  BY <1>1, <1>2, <1>3 DEF TransportInv, OwnIds

\* The reader hands a reply to whoever waits under its id, which by the ids is
\* the call it answers.
LEMMA ReadLineKeepsInv == TransportInv /\ ReadLine => TransportInv'
<1> SUFFICES ASSUME TransportInv, ReadLine PROVE TransportInv'
  OBVIOUS
<1> USE DEF ReadLine, closingVars
<1> DEFINE line == Head(stdout)
<1>1. /\ stdout \in Seq(Line) /\ stdout # << >> /\ TypeOK /\ OwnFuture
  BY DEF TransportInv, TypeOK
<1>2. line \in Line /\ line = stdout[1] /\ 1 \in 1..Len(stdout)
  BY <1>1
<1>3. stdout' \in Seq(Line) /\ Len(stdout') = Len(stdout) - 1
      /\ \A i \in 1..Len(stdout') : i + 1 \in 1..Len(stdout) /\ stdout'[i] = stdout[i + 1]
  BY <1>1
<1>4. TaggedStdout'
  BY <1>3 DEF TransportInv, TaggedStdout, Tagged
<1>5. /\ future' \in [Call -> Outcome \cup {None}]
      /\ OwnFuture'
      /\ \A c \in Call : future[c] # None => future'[c] # None
  <2>1. CASE Breaks(line)
    <3>1. Settle(Registered, TransportError) /\ Registered \in SUBSET Call
      BY <2>1 DEF Registered
    <3> QED
      BY <1>1, <3>1, FailureTypes, SettleFutures
  <2>2. CASE ~Breaks(line) /\ line.kind = "noise"
    BY <1>1, <2>2 DEF TypeOK, OwnFuture
  <2>3. CASE ~Breaks(line) /\ line.kind # "noise"
    <3>1. line.kind \in {"result", "error", "malformed"} /\ line.call \in Call
      BY <1>2, <2>3 DEF Line, Breaks
    <3>2. Reply(line) \in Outcome /\ Reply(line).of = line.call
      BY <3>1 DEF Reply, Outcome
    <3>3. \A c \in Recipients(line) : c = line.call
      BY <1>2, <3>1, AddresseeIsCall DEF Recipients
    <3>4. Settle(Recipients(line), Reply(line)) /\ Recipients(line) \in SUBSET Call
      BY <2>3 DEF Recipients, Addressee
    <3> QED
      BY <1>1, <3>2, <3>3, <3>4, SettleFutures
  <2> QED
    BY <2>1, <2>2, <2>3
<1>6. reader' \in {"none", "reading", "ended"}
  BY DEF TransportInv, TypeOK
<1> HIDE DEF line
<1>7. UNCHANGED <<next_id, pending, pc, id, outcome, lock, sent, closed, closer, process>>
  OBVIOUS
<1> QED
  BY <1>3, <1>4, <1>5, <1>6, <1>7, OutsideStep DEF TransportInv, TypeOK, Opened

LEMMA ReadEndKeepsInv == TransportInv /\ ReadEnd => TransportInv'
<1> SUFFICES ASSUME TransportInv, ReadEnd PROVE TransportInv'
  OBVIOUS
<1> USE DEF ReadEnd, closingVars, serverVars
<1>1. /\ future' \in [Call -> Outcome \cup {None}]
      /\ OwnFuture'
      /\ \A c \in Call : future[c] # None => future'[c] # None
  BY FailureTypes, SettleFutures DEF TransportInv, Registered
<1>2. TaggedStdout'
  BY DEF TransportInv, TaggedStdout, Tagged
<1> QED
  BY <1>1, <1>2, OutsideStep DEF TransportInv, TypeOK, Opened

LEMMA ClosingKeepsInv ==
  ASSUME TransportInv, Close \/ Terminate \/ Kill
  PROVE  TransportInv'
<1>1. UNCHANGED <<next_id, pending, future, pc, id, outcome, lock, sent, stdout>>
  BY DEF Close, Terminate, Kill, callVars, serverVars, closingVars
<1>2. OwnFuture' /\ TaggedStdout'
  BY <1>1 DEF TransportInv, OwnFuture, TaggedStdout, Tagged
<1>3. CASE Close
  BY <1>1, <1>2, <1>3, OutsideStep DEF Close, TransportInv, TypeOK, Opened, serverVars
<1>4. CASE Terminate
  BY <1>1, <1>2, <1>4, OutsideStep DEF Terminate, TransportInv, TypeOK, Opened, serverVars
<1>5. CASE Kill
  BY <1>1, <1>2, <1>5, OutsideStep DEF Kill, TransportInv, TypeOK, Opened, closingVars
<1> QED
  BY <1>3, <1>4, <1>5

\* aclose tells everybody before it is done.
LEMMA FinishCloseKeepsInv == TransportInv /\ FinishClose => TransportInv'
<1> SUFFICES ASSUME TransportInv, FinishClose PROVE TransportInv'
  OBVIOUS
<1> USE DEF FinishClose, serverVars
<1>1. /\ future' \in [Call -> Outcome \cup {None}]
      /\ OwnFuture'
      /\ \A c \in Call : future[c] # None => future'[c] # None
      /\ \A c \in Registered : future'[c] # None
  <2>1. Registered \in SUBSET Call
    BY DEF Registered
  <2> QED
    BY <2>1, FailureTypes, SettleFutures DEF TransportInv
<1>2. TaggedStdout'
  BY DEF TransportInv, TaggedStdout, Tagged
<1> QED
  BY <1>1, <1>2, OutsideStep DEF TransportInv, TypeOK, Opened

\* The server answers under the id it was asked under.
LEMMA ServerKeepsInv ==
  ASSUME TransportInv,
         ServerAnswers \/ ServerBabbles \/ \E how \in {"mute", "exited"} : ServerStops(how)
  PROVE  TransportInv'
<1>1. ASSUME NEW line \in Line, ServerWrites(line),
             line.kind \in {"result", "error", "malformed"} => Tagged(line)
      PROVE  TransportInv'
  <2> USE <1>1 DEF ServerWrites, callVars, closingVars
  <2>1. stdout \in Seq(Line)
    BY DEF TransportInv, TypeOK
  <2>2. /\ stdout' \in Seq(Line) /\ Len(stdout') = Len(stdout) + 1
        /\ \A i \in 1..Len(stdout') :
             stdout'[i] = line \/ (i \in 1..Len(stdout) /\ stdout'[i] = stdout[i])
    BY <2>1
  <2>3. TaggedStdout'
    BY <2>2 DEF TransportInv, TaggedStdout, Tagged
  <2>4. OwnFuture'
    BY DEF TransportInv, OwnFuture
  <2> QED
    BY <2>2, <2>3, <2>4, OutsideStep DEF TransportInv, TypeOK, Opened
<1>2. CASE ServerAnswers
  <2>1. PICK message \in sent, kind \in {"result", "error", "malformed"} :
          ServerWrites([id |-> message.id, call |-> message.call, kind |-> kind])
    BY <1>2 DEF ServerAnswers
  <2> DEFINE line == [id |-> message.id, call |-> message.call, kind |-> kind]
  <2>2. line \in Line
    BY DEF TransportInv, TypeOK, Message, Line
  <2>3. Tagged(line)
    BY DEF TransportInv, TaggedSent, Tagged
  <2> QED
    BY <1>1, <2>1, <2>2, <2>3
<1>3. CASE ServerBabbles
  <2>1. PICK kind \in {"noise", "oversize"} :
          ServerWrites([id |-> 0, call |-> None, kind |-> kind])
    BY <1>3 DEF ServerBabbles
  <2> DEFINE line == [id |-> 0, call |-> None, kind |-> kind]
  <2>2. line \in Line /\ line.kind \notin {"result", "error", "malformed"}
    BY DEF Line
  <2> QED
    BY <1>1, <2>1, <2>2
<1>4. ASSUME NEW how \in {"mute", "exited"}, ServerStops(how) PROVE TransportInv'
  <2> USE <1>4 DEF ServerStops, callVars, closingVars
  <2>1. OwnFuture' /\ TaggedStdout'
    BY DEF TransportInv, OwnFuture, TaggedStdout, Tagged
  <2> QED
    BY <2>1, OutsideStep DEF TransportInv, TypeOK, Opened
<1> QED
  BY <1>2, <1>3, <1>4

----------------------------------------------------------------------------
(* The theorems.                                                           *)

LEMMA StutterKeepsInv == TransportInv /\ UNCHANGED vars => TransportInv'
BY DEF vars, callVars, closingVars, serverVars, TransportInv, TypeOK, OwnIds, TaggedSent,
   TaggedStdout, Tagged, OwnFuture, Opened, OnlyItsOwnReply, PendingIsInFlight,
   ClosedMeansSettled, InFlight

LEMMA StepKeepsInv == TransportInv /\ [Next]_vars => TransportInv'
<1> SUFFICES ASSUME TransportInv, [Next]_vars PROVE TransportInv'
  OBVIOUS
<1>1. CASE Start
  BY <1>1, StartKeepsInv
<1>2. CASE Close \/ Terminate \/ Kill
  BY <1>2, ClosingKeepsInv
<1>3. CASE FinishClose
  BY <1>3, FinishCloseKeepsInv
<1>4. CASE ReadLine \/ ReadEnd
  BY <1>4, ReadLineKeepsInv, ReadEndKeepsInv
<1>5. ASSUME NEW c \in Call, Request(c) PROVE TransportInv'
  BY <1>5, RequestKeepsInv
<1>6. ASSUME NEW c \in Call, Notify(c) PROVE TransportInv'
  BY <1>6, NotifyKeepsInv
<1>7. ASSUME NEW c \in Call, Write(c) PROVE TransportInv'
  BY <1>7, WriteKeepsInv
<1>8. ASSUME NEW c \in Call, Drained(c) PROVE TransportInv'
  BY <1>8, DrainedKeepsInv
<1>9. ASSUME NEW c \in Call, DrainFails(c) \/ Take(c) \/ TimesOut(c) \/ Abandon(c)
      PROVE  TransportInv'
  BY <1>9, EndingKeepsInv, TimesOutKeepsInv
<1>10. CASE ServerAnswers \/ ServerBabbles \/ \E how \in {"mute", "exited"} : ServerStops(how)
  BY <1>10, ServerKeepsInv
<1>11. CASE UNCHANGED vars
  BY <1>11, StutterKeepsInv
<1> QED
  BY <1>1, <1>2, <1>3, <1>4, <1>5, <1>6, <1>7, <1>8, <1>9, <1>10, <1>11 DEF Next

LEMMA AlwaysInv == Spec => []TransportInv
<1>1. TransportInv /\ [Next]_vars => TransportInv'
  BY StepKeepsInv
<1> QED
  BY InitInv, <1>1, PTL DEF Spec

\* However late, early or often the server answers, a caller gets the reply to
\* its own request or none (transport.py, request and _dispatch).
THEOREM RepliesAreMatched == Spec => []OnlyItsOwnReply
<1>1. TransportInv => OnlyItsOwnReply
  BY DEF TransportInv
<1> QED
  BY <1>1, AlwaysInv, PTL

\* The table of pending requests holds those in flight and nothing else, on
\* every path out of a request (transport.py, request).
THEOREM PendingIsExact == Spec => []PendingIsInFlight
<1>1. TransportInv => PendingIsInFlight
  BY DEF TransportInv
<1> QED
  BY <1>1, AlwaysInv, PTL

\* When aclose has returned nobody waits in vain (transport.py, aclose).
THEOREM CloseSettles == Spec => []ClosedMeansSettled
<1>1. TransportInv => ClosedMeansSettled
  BY DEF TransportInv
<1> QED
  BY <1>1, AlwaysInv, PTL

\* Every variable of the transport keeps its type.
THEOREM TransportTypeCorrect == Spec => []TypeOK
<1>1. TransportInv => TypeOK
  BY DEF TransportInv
<1> QED
  BY <1>1, AlwaysInv, PTL

\* No reply that comes late, twice, or between the deadline of its call and the end of
\* it, stops the reader or is felt by another call: a future that is done is not set
\* again, and one that is not done belongs to the call the reply is for
\* (transport.py, _dispatch and _read_stdout).
THEOREM StrayRepliesDoNoHarm == Spec => StrayRepliesAreHarmless
<1>1. ASSUME TransportInv, Next, stdout # << >>, stdout' = Tail(stdout),
             Head(stdout).kind # "oversize"
      PROVE  /\ reader' = reader
             /\ \A c \in Call : future'[c] # future[c]
                  => InFlight(c) /\ future[c] = None /\ future'[c].of = c
  <2> DEFINE line == Head(stdout)
  <2>1. /\ stdout \in Seq(Line) /\ line \in Line /\ line = stdout[1] /\ 1 \in 1..Len(stdout)
        /\ stdout' # stdout /\ Len(stdout') = Len(stdout) - 1
    <3>1. stdout \in Seq(Line)
      BY <1>1 DEF TransportInv, TypeOK
    <3> QED
      BY <1>1, <3>1
  <2>2. ReadLine
    <3>1. ~ServerAnswers /\ ~ServerBabbles
      <4>1. ASSUME NEW any, ServerWrites(any) PROVE FALSE
        <5>1. Len(stdout') = Len(stdout) + 1
          BY <2>1, <4>1 DEF ServerWrites
        <5> QED
          BY <2>1, <5>1
      <4> QED
        BY <4>1 DEF ServerAnswers, ServerBabbles
    <3>2. ~(ReadLine \/ ServerAnswers \/ ServerBabbles) => UNCHANGED stdout
      BY <1>1 DEF Next, Start, Close, Terminate, Kill, FinishClose, ReadEnd, Request, Notify,
         Write, Drained, DrainFails, Take, TimesOut, Abandon, ServerStops, callVars,
         closingVars, serverVars
    <3> QED
      BY <2>1, <3>1, <3>2
  <2> HIDE DEF line
  <2>3. ~Breaks(line)
    BY <1>1 DEF Breaks, Recipients, Waiting, line
  <2>4. /\ reader' = reader
        /\ \/ UNCHANGED future
           \/ line.kind # "noise" /\ Settle(Recipients(line), Reply(line))
    BY <2>2, <2>3 DEF ReadLine, line
  <2>5. ASSUME NEW c \in Call, future'[c] # future[c]
        PROVE  InFlight(c) /\ future[c] = None /\ future'[c].of = c
    <3>1. line.kind # "noise" /\ Settle(Recipients(line), Reply(line))
      BY <2>4, <2>5
    <3>2. c \in Recipients(line) /\ future[c] = None /\ future'[c] = Reply(line)
      BY <2>5, <3>1 DEF Settle
    <3>3. line.kind \in {"result", "error", "malformed"}
      BY <1>1, <2>1, <3>1 DEF Line, line
    <3>4. c = line.call /\ InFlight(c)
      BY <1>1, <2>1, <3>2, <3>3, AddresseeIsCall DEF Recipients
    <3> QED
      BY <3>2, <3>4 DEF Reply
  <2> QED
    BY <2>4, <2>5
<1>2. TransportInv /\ [Next]_vars =>
        [stdout # << >> /\ stdout' = Tail(stdout) /\ Head(stdout).kind # "oversize"
           => /\ reader' = reader
              /\ \A c \in Call : future'[c] # future[c]
                   => InFlight(c) /\ future[c] = None /\ future'[c].of = c]_vars
  BY <1>1
<1> QED
  BY <1>2, AlwaysInv, PTL DEF Spec, StrayRepliesAreHarmless

\* When the output ends, all that wait at that moment are told, in the same step
\* (transport.py, _read_stdout).
THEOREM EndReachesEveryone == Spec => EndIsAnnounced
<1>1. TransportInv /\ [Next]_vars =>
        [reader = "reading" /\ reader' = "ended" /\ closed' = closed
           => \A c \in Call \ Notices : InFlight(c) => future'[c] # None]_vars
  <2> SUFFICES ASSUME TransportInv, Next, reader = "reading", reader' = "ended",
                      closed' = closed, NEW c \in Call \ Notices, InFlight(c)
               PROVE  future'[c] # None
    OBVIOUS
  <2>1. Settle(Registered, TransportError)
    <3>1. CASE ReadLine \/ ReadEnd
      BY <3>1 DEF ReadLine, ReadEnd
    <3>2. CASE Start
      BY <3>2 DEF Start
    <3>3. CASE Close
      BY <3>3 DEF Close
    <3>4. ~(ReadLine \/ ReadEnd \/ Start \/ Close) => UNCHANGED reader
      BY DEF Next, Terminate, Kill, FinishClose, Request, Notify, Write, Drained, DrainFails,
         Take, TimesOut, Abandon, ServerAnswers, ServerBabbles, ServerWrites, ServerStops,
         callVars, closingVars, serverVars
    <3> QED
      BY <3>1, <3>2, <3>3, <3>4
  <2>2. c \in Registered
    <3>1. PICK entry : entry = [id |-> id[c], call |-> c]
      OBVIOUS
    <3>2. entry \in pending /\ entry.call = c
      BY <3>1 DEF TransportInv, PendingIsInFlight
    <3> QED
      BY <3>2 DEF Registered
  <2>3. TransportError # None
    BY FailureTypes, NoneIsNoOutcome
  <2>4. future \in [Call -> Outcome \cup {None}]
    BY DEF TransportInv, TypeOK
  <2> QED
    BY <2>1, <2>2, <2>3, <2>4 DEF Settle
<1> QED
  BY <1>1, AlwaysInv, PTL DEF Spec, EndIsAnnounced
=============================================================================
