-------------------------- MODULE ToolTurnsProofs --------------------------
(***************************************************************************)
(* Theorems about ToolTurns, for any runs, invoices, amounts and turns of  *)
(* the model: what the tools of this program report is true, nothing half  *)
(* written or unreleased is executed, and the demo says what it did.       *)
(***************************************************************************)
EXTENDS ToolTurns, WellFoundedInduction, TLAPS

----------------------------------------------------------------------------
(* The inductive invariant.                                                *)

IsLedger(l) ==
  /\ l = [payments |-> l.payments, notes |-> l.notes]
  /\ l.payments \in [Invoice -> Payment \cup {None}]
  /\ l.notes \in [Invoice -> Nat]

IsCall(w) ==
  /\ w = [ask |-> w.ask, state |-> w.state, outcome |-> w.outcome, content |-> w.content]
  /\ w.ask \in Ask \cup {None}
  /\ w.state \in {"none", "held", "called", "sent", "answered"}
  /\ w.outcome \in Ending \cup {None}
  /\ w.outcome = None <=> w.state # "answered"
  /\ w.ask = None <=> w.state = "none"
  /\ w.state = "none" => w = Unused
  /\ w.state = "sent" => w.ask.tool = "remote"

\* The shape of the variables TypeOK says nothing about.
Shape ==
  /\ work = [c \in CallId |-> work[c]]
  /\ \A c \in CallId : IsCall(work[c])
  /\ IsLedger(ledger)
  /\ provider \in {"demo", "anthropic"}
  /\ steps = [r \in Run |-> steps[r]]
  /\ stop \in [Run -> Seq(StopReason)]
  /\ verdict \in [Run -> Verdict \cup {None}]
  /\ summary = [r \in Run |-> summary[r]]

\* A run has a stop reason for each turn it has taken; an answer that ends it is no
\* turn.  The demo takes two.
InTurn(r) ==
  /\ Len(stop[r]) <= steps[r]
  /\ stage[r] # "ended" => Len(stop[r]) = steps[r]
  /\ provider = "demo" => Len(stop[r]) <= 2

\* Where a call stands in its run: it belongs to a turn that was taken to use tools,
\* it is at work only in the latest one, and only once it may be.
Placed(c) ==
  LET r == RunOf(c) IN
  /\ work[c].state # "none" =>
       /\ TurnOf(c) <= Len(stop[r]) /\ stop[r][TurnOf(c)] = "tool_use"
       /\ provider = "demo" => c[3] = 1
  /\ work[c].state \in {"called", "sent"} => stage[r] = "tools" /\ TurnOf(c) = steps[r]
  /\ work[c].state # "none" /\ stage[r] = "held" /\ TurnOf(c) = steps[r] =>
       work[c].state = "held"
  /\ work[c].state \in {"called", "sent", "answered"} /\ NeedsApproval(work[c].ask) =>
       c \in released

\* What the text of a successful call says of the ledger, unless it was cut.
Reported(ask, text) ==
  /\ ask.tool = "lookup_invoice" /\ text.says # "cut" =>
       text.says = "invoice" /\ text.about \in Invoice /\ text.amount = AmountOf[text.about]
  /\ ask.tool = "list_overdue_invoices" /\ text.says # "cut" =>
       text.about \in Invoice \cup {None}

\* What the result of a call says about its effect, and what a result of the demo's
\* tools says about the ledger.
Told(c) ==
  /\ c \in performed \cup server => work[c].state \in {"sent", "answered"}
  /\ c \in server => work[c].ask.tool = "remote"
  /\ work[c].state = "answered" =>
       /\ work[c].outcome = "ok" /\ HasEffect(c) => c \in performed
       /\ work[c].outcome = "tool_error" /\ work[c].ask.tool \in Tool => c \notin performed
       /\ work[c].outcome \in {"invalid_arguments", "unknown_tool"} =>
            c \notin performed \cup server
       /\ work[c].content.says # "internal"
  /\ work[c].outcome = "ok" => Reported(work[c].ask, work[c].content)
  /\ work[c].outcome = "ok" /\ work[c].ask.tool = "pay_invoice" =>
       /\ work[c].ask.args.invoice \in Invoice
       /\ Paid(ledger, work[c].ask.args.invoice)
       /\ ledger.payments[work[c].ask.args.invoice].by = c

\* A payment on record was made by the call that was answered that it had been.
Accounted(i) ==
  Paid(ledger, i) =>
    LET payment == ledger.payments[i] IN
    /\ work[payment.by].state = "answered" /\ work[payment.by].outcome = "ok"
    /\ work[payment.by].ask = Asking("pay_invoice", i, AmountOf[i])[1]
    /\ payment.amount = AmountOf[i]

\* The demo's last message is an account of all calls of its run.
Concluded(r) ==
  provider = "demo" /\ verdict[r] = "answer" =>
    summary[r] = [k \in 1..Len(stop[r]) |-> [call |-> <<r, k, 1>>, ok |-> ~IsError(<<r, k, 1>>)]]

TurnInv ==
  /\ TypeOK /\ Shape
  /\ \A r \in Run : InTurn(r) /\ Concluded(r)
  /\ \A c \in CallId : Placed(c) /\ Told(c)
  /\ \A i \in Invoice : Accounted(i)
  /\ PaysWhatLookupReported

----------------------------------------------------------------------------
(* The ledger.                                                             *)

\* A set of natural numbers has a least element.
LEMMA LeastNumber ==
  ASSUME NEW T, T \subseteq Nat, T # {}
  PROVE  \E x \in T : \A y \in T : x <= y
<1> DEFINE Less == OpToRel(<, Nat)
<1>1. IsWellFoundedOn(Less, Nat)
  BY NatLessThanWellFounded
<1>2. \A x, y \in Nat : y < x => <<y, x>> \in Less
  BY DEF OpToRel
<1> HIDE DEF Less
<1>3. PICK x \in T : \A y \in T : <<y, x>> \notin Less
  BY <1>1, WFMin
<1>4. \A y \in T : ~ (y < x)
  BY <1>2, <1>3
<1> QED
  BY <1>3, <1>4

\* The most overdue invoice is one on record, whenever some invoice is overdue.
LEMMA WorstIsOverdue ==
  ASSUME NEW l, Overdue(l) # {}
  PROVE  Worst(l) \in Overdue(l)
<1>1. Overdue(l) \subseteq Invoice /\ DueOn \in [Invoice -> Nat]
  BY LedgerAssumption DEF Overdue
<1> DEFINE T == {DueOn[i] : i \in Overdue(l)}
<1>2. T \subseteq Nat /\ T # {}
  BY <1>1
<1> HIDE DEF T
<1>3. PICK x \in T : \A y \in T : x <= y
  BY <1>2, LeastNumber
<1>4. \E i \in Overdue(l) : \A other \in Overdue(l) : DueOn[i] <= DueOn[other]
  BY <1>3 DEF T
<1> QED
  BY <1>4 DEF Worst

\* Pay records a payment, of exactly the amount, or changes nothing.
LEMMA PayFacts ==
  ASSUME NEW l, IsLedger(l), NEW i, NEW amount \in Nat, NEW c \in CallId
  PROVE  \/ /\ Pay(l, i, amount, c).raises = "nothing"
            /\ i \in Invoice /\ ~Paid(l, i) /\ amount = AmountOf[i]
            /\ IsLedger(Pay(l, i, amount, c).ledger)
            /\ Pay(l, i, amount, c).ledger.payments
                 = [l.payments EXCEPT ![i] = [by |-> c, amount |-> amount]]
            /\ Pay(l, i, amount, c).ledger # l
            /\ Pay(l, i, amount, c).text.says = "payment"
         \/ Pay(l, i, amount, c) = Refused(l)
<1>1. CASE i \in Invoice /\ ~Paid(l, i) /\ amount = AmountOf[i]
  <2> DEFINE payment == [by |-> c, amount |-> amount]
             paid    == [l EXCEPT !.payments[i] = payment]
  <2>1. payment \in Payment
    BY DEF Payment
  <2>2. payment # None
    BY <2>1, NoneIsNoCall
  <2>3. Pay(l, i, amount, c) = Returned(paid, Text("payment", i, amount, 0))
    BY <1>1 DEF Pay
  <2> HIDE DEF payment
  <2>4. paid = [payments |-> [l.payments EXCEPT ![i] = payment], notes |-> l.notes]
    BY DEF IsLedger
  <2> HIDE DEF paid
  <2>5. IsLedger(paid)
    BY <2>1, <2>4 DEF IsLedger
  <2>6. paid.payments[i] = payment /\ l.payments[i] = None
    BY <1>1, <2>4 DEF IsLedger, Paid
  <2>7. paid # l
    BY <2>2, <2>6
  <2> QED
    BY <1>1, <2>3, <2>4, <2>5, <2>7 DEF Returned, Text, payment
<1>2. CASE ~(i \in Invoice /\ ~Paid(l, i) /\ amount = AmountOf[i])
  BY <1>2 DEF Pay
<1> QED
  BY <1>1, <1>2

LEMMA NoteFacts ==
  ASSUME NEW l, IsLedger(l), NEW i
  PROVE  \/ /\ AddInvoiceNote(l, i).raises = "nothing"
            /\ IsLedger(AddInvoiceNote(l, i).ledger)
            /\ AddInvoiceNote(l, i).ledger.payments = l.payments
            /\ AddInvoiceNote(l, i).ledger # l
            /\ AddInvoiceNote(l, i).text.says = "notes"
         \/ AddInvoiceNote(l, i) = Refused(l)
<1>1. CASE i \in Invoice
  <2> DEFINE noted == [l EXCEPT !.notes[i] = @ + 1]
  <2>1. AddInvoiceNote(l, i) = Returned(noted, Text("notes", i, None, l.notes[i] + 1))
    BY <1>1 DEF AddInvoiceNote
  <2>2. noted = [payments |-> l.payments, notes |-> [l.notes EXCEPT ![i] = l.notes[i] + 1]]
    BY DEF IsLedger
  <2> HIDE DEF noted
  <2>3. IsLedger(noted)
    BY <1>1, <2>2 DEF IsLedger
  <2>4. noted.notes[i] = l.notes[i] + 1 /\ l.notes[i] \in Nat
    BY <1>1, <2>2 DEF IsLedger
  <2>5. noted # l
    BY <2>4
  <2> QED
    BY <2>1, <2>2, <2>3, <2>5 DEF Returned, Text
<1>2. CASE i \notin Invoice
  BY <1>2 DEF AddInvoiceNote
<1> QED
  BY <1>1, <1>2

\* Every handler either raises, and then has done nothing, or does what it reports.
LEMMA HandleFacts ==
  ASSUME NEW l, IsLedger(l), NEW ask \in Ask, ask.tool \in Tool, ask.args # None,
         NEW c \in CallId, NEW end, end = Handle(l, ask, c)
  PROVE  /\ IsLedger(end.ledger)
         /\ end.raises \in {"nothing", "ToolExecutionError"}
         /\ end.raises = "ToolExecutionError" => end.ledger = l
         /\ end.text.says \notin {"internal", "cut"}
         /\ end.raises = "nothing" /\ ask.tool \in {"add_invoice_note", "pay_invoice"} =>
              end.ledger # l
         /\ end.raises = "nothing" => Reported(ask, end.text)
         /\ IF end.raises = "nothing" /\ ask.tool = "pay_invoice"
              THEN /\ ask.args.invoice \in Invoice /\ ~Paid(l, ask.args.invoice)
                   /\ ask.args.amount = AmountOf[ask.args.invoice]
                   /\ end.ledger.payments = [l.payments EXCEPT
                        ![ask.args.invoice] = [by |-> c, amount |-> ask.args.amount]]
              ELSE end.ledger.payments = l.payments
<1>1. ask.args.amount \in Nat
  BY DEF Ask, Args
<1>2. /\ Refused(l).ledger = l /\ Refused(l).raises = "ToolExecutionError"
      /\ Refused(l).text.says = "domain"
  BY DEF Refused, Note, Text
<1>3. CASE ask.tool = "lookup_invoice"
  <2>1. end = LookupInvoice(l, ask.args.invoice)
    BY <1>3 DEF Handle
  <2> QED
    BY <1>2, <1>3, <2>1 DEF LookupInvoice, Returned, Text, Reported
<1>4. CASE ask.tool = "list_overdue_invoices"
  <2>1. end = ListOverdueInvoices(l)
    BY <1>4 DEF Handle
  <2>2. Overdue(l) # {} => Worst(l) \in Invoice
    BY WorstIsOverdue DEF Overdue
  <2> QED
    BY <1>4, <2>1, <2>2 DEF ListOverdueInvoices, Returned, Note, Text, Reported
<1>5. CASE ask.tool = "add_invoice_note"
  <2>1. end = AddInvoiceNote(l, ask.args.invoice)
    BY <1>5 DEF Handle
  <2> QED
    BY <1>2, <1>5, <2>1, NoteFacts DEF Reported
<1>6. CASE ask.tool = "pay_invoice"
  <2>1. end = Pay(l, ask.args.invoice, ask.args.amount, c)
    BY <1>6 DEF Handle
  <2> QED
    BY <1>1, <1>2, <1>6, <2>1, PayFacts DEF Reported
<1> QED
  BY <1>3, <1>4, <1>5, <1>6 DEF Tool

----------------------------------------------------------------------------
(* What a step leaves alone.                                               *)

\* Payments that are on record stay there.
PaymentsStay == \A i \in Invoice : Paid(ledger, i) => ledger'.payments[i] = ledger.payments[i]

\* Nothing happens to call c.
Untouched(c) ==
  /\ work'[c] = work[c]
  /\ c \in performed' <=> c \in performed
  /\ c \in server' <=> c \in server

\* The turns of run r stand.
RunStands(r) ==
  /\ stage'[r] = stage[r] /\ steps'[r] = steps[r] /\ stop'[r] = stop[r]
  /\ verdict'[r] = verdict[r] /\ summary'[r] = summary[r]

LEMMA CallFacts ==
  ASSUME NEW c \in CallId
  PROVE  /\ RunOf(c) \in Run /\ TurnOf(c) \in Nat /\ TurnOf(c) >= 1
         /\ c = <<RunOf(c), TurnOf(c), c[3]>>
BY RegistryAssumption DEF CallId, RunOf, TurnOf

LEMMA ToldFrame ==
  ASSUME NEW c \in CallId, Told(c), IsCall(work[c]), Untouched(c), PaymentsStay
  PROVE  Told(c)'
BY DEF Told, Untouched, HasEffect, PaymentsStay, Paid, Reported

LEMMA PlacedFrame ==
  ASSUME NEW c \in CallId, Placed(c), Untouched(c), RunStands(RunOf(c)),
         UNCHANGED provider, released \subseteq released'
  PROVE  Placed(c)'
BY DEF Placed, Untouched, RunStands

\* An answered call stands: what rests on it goes on holding.
LEMMA AccountedFrame ==
  ASSUME NEW i \in Invoice, Accounted(i), ledger'.payments[i] = ledger.payments[i],
         ledger.payments[i].by \in CallId,
         \A c \in CallId : work[c].state = "answered" => work'[c] = work[c]
  PROVE  Accounted(i)'
BY DEF Accounted, Paid, Asking

LEMMA ConcludedFrame ==
  ASSUME NEW r \in Run, Concluded(r), RunStands(r), UNCHANGED provider,
         \A c \in CallId : RunOf(c) = r => (IsError(c)' <=> IsError(c)),
         provider = "demo" => Len(stop[r]) <= 2,
         stop[r] \in Seq(StopReason)
  PROVE  Concluded(r)'
<1>1. ASSUME provider = "demo", NEW k \in 1..Len(stop[r])
      PROVE  IsError(<<r, k, 1>>)' <=> IsError(<<r, k, 1>>)
  <2>1. <<r, k, 1>> \in CallId /\ RunOf(<<r, k, 1>>) = r
    BY <1>1, RunAssumption, RegistryAssumption DEF CallId, RunOf
  <2> QED
    BY <2>1
<1>2. ASSUME provider = "demo"
      PROVE  [k \in 1..Len(stop[r]) |-> [call |-> <<r, k, 1>>, ok |-> ~IsError(<<r, k, 1>>)']]
               = [k \in 1..Len(stop[r]) |-> [call |-> <<r, k, 1>>, ok |-> ~IsError(<<r, k, 1>>)]]
  BY <1>1, <1>2
<1> QED
  BY <1>2 DEF Concluded, RunStands

\* What lookups have reported stays reported, and no payment is asked for.
LEMMA LookupFrame ==
  ASSUME PaysWhatLookupReported, UNCHANGED provider,
         \A c \in CallId : IsCall(work[c]),
         \A c \in CallId : work[c].state = "answered" => work'[c] = work[c],
         \A c \in CallId : work'[c].ask = work[c].ask
  PROVE  PaysWhatLookupReported'
<1> SUFFICES ASSUME provider = "demo", NEW c \in CallId, work[c].ask # None,
                    work[c].ask.tool = "pay_invoice"
             PROVE  \E d \in CallId :
                      /\ RunOf(d) = RunOf(c) /\ TurnOf(d) < TurnOf(c)
                      /\ work'[d].outcome = "ok" /\ work'[d].content.says = "invoice"
                      /\ work'[d].content.about = work[c].ask.args.invoice
                      /\ work'[d].content.amount = work[c].ask.args.amount
  BY DEF PaysWhatLookupReported
<1>1. PICK d \in CallId :
        /\ RunOf(d) = RunOf(c) /\ TurnOf(d) < TurnOf(c)
        /\ work[d].outcome = "ok" /\ work[d].content.says = "invoice"
        /\ work[d].content.about = work[c].ask.args.invoice
        /\ work[d].content.amount = work[c].ask.args.amount
  BY DEF PaysWhatLookupReported
<1>2. work[d].state = "answered"
  BY <1>1, NoneIsNoCall DEF IsCall, Ending
<1> QED
  BY <1>1, <1>2

----------------------------------------------------------------------------
(* Tool calls.                                                             *)

\* A call that is at work goes on, or ends, and the others stay as they are.
LEMMA CallMoves ==
  ASSUME TurnInv, NEW c \in CallId, UNCHANGED loopVars,
         NEW w, work' = [work EXCEPT ![c] = w], IsCall(w), w.ask = work[c].ask,
         w.state \in {"sent", "answered"},
         w = work[c] \/ work[c].state \in {"called", "sent"},
         server' \subseteq CallId, performed' \subseteq CallId,
         \A d \in CallId : d # c => /\ d \in performed' <=> d \in performed
                                    /\ d \in server' <=> d \in server,
         IsLedger(ledger'), PaymentsStay, Told(c)',
         \A i \in Invoice : ledger'.payments[i] = ledger.payments[i] \/ Accounted(i)'
  PROVE  TurnInv'
<1>1. UNCHANGED <<provider, goal, stage, steps, stop, released, verdict, summary>>
  BY DEF loopVars
<1>2. /\ work'[c] = w /\ DOMAIN work' = CallId
      /\ \A d \in CallId : d # c => work'[d] = work[d]
  BY DEF TurnInv, Shape
<1>3. \A d \in CallId : d # c => Untouched(d)
  BY <1>2 DEF Untouched
<1>4. \A d \in CallId : IsCall(work'[d]) /\ work'[d].ask = work[d].ask
  BY <1>2 DEF TurnInv, Shape
<1>5. \A d \in CallId : work[d].state = "answered" => work'[d] = work[d]
  BY <1>2
<1>6. TypeOK'
  BY <1>1, <1>4 DEF TurnInv, TypeOK, IsCall
<1>7. Shape'
  <2>1. work' = [d \in CallId |-> work'[d]]
    BY <1>2 DEF TurnInv, Shape
  <2>2. \A d \in CallId : IsCall(work'[d])
    BY <1>4
  <2>3. /\ provider \in {"demo", "anthropic"}
        /\ steps = [r \in Run |-> steps[r]]
        /\ stop \in [Run -> Seq(StopReason)]
        /\ verdict \in [Run -> Verdict \cup {None}]
        /\ summary = [r \in Run |-> summary[r]]
    BY DEF TurnInv, Shape
  <2> QED
    BY <1>1, <2>1, <2>2, <2>3 DEF Shape
<1>8. ASSUME NEW r \in Run
      PROVE  InTurn(r)' /\ Concluded(r)'
  <2>1. InTurn(r) /\ Concluded(r) /\ stop[r] \in Seq(StopReason)
    BY DEF TurnInv, Shape
  <2>2. RunStands(r)
    BY <1>1 DEF RunStands
  <2>3. CASE verdict[r] = "answer"
    <3>1. stage[r] = "ended"
      BY <2>3 DEF TurnInv, TypeOK, Verdict
    <3>2. w = work[c] \/ RunOf(c) # r
      BY <3>1 DEF TurnInv, Placed
    <3>3. \A d \in CallId : RunOf(d) = r => (IsError(d)' <=> IsError(d))
      BY <1>2, <3>2 DEF IsError
    <3> QED
      BY <1>1, <2>1, <2>2, <3>3, ConcludedFrame DEF InTurn
  <2>4. CASE verdict[r] # "answer"
    BY <1>1, <2>1, <2>4 DEF InTurn, Concluded
  <2> QED
    BY <2>3, <2>4
<1>9. ASSUME NEW d \in CallId
      PROVE  Placed(d)' /\ Told(d)'
  <2>1. Placed(d) /\ Told(d) /\ IsCall(work[d])
    BY DEF TurnInv, Shape
  <2>2. CASE d = c
    BY <1>1, <1>2, <2>1, <2>2 DEF Placed, IsCall
  <2>3. CASE d # c
    BY <1>1, <1>3, <2>1, <2>3, ToldFrame, PlacedFrame DEF RunStands
  <2> QED
    BY <2>2, <2>3
<1>10. ASSUME NEW i \in Invoice
       PROVE  Accounted(i)'
  <2>1. CASE ledger'.payments[i] = ledger.payments[i] /\ Paid(ledger, i)
    <3>1. ledger.payments[i].by \in CallId
      BY <2>1 DEF TurnInv, Shape, IsLedger, Paid, Payment
    <3> QED
      BY <1>5, <2>1, <3>1, AccountedFrame DEF TurnInv
  <2>2. CASE ledger'.payments[i] = ledger.payments[i] /\ ~Paid(ledger, i)
    BY <2>2 DEF Accounted, Paid
  <2> QED
    BY <2>1, <2>2
<1>11. PaysWhatLookupReported'
  BY <1>1, <1>4, <1>5, LookupFrame DEF TurnInv, Shape
<1> QED
  BY <1>6, <1>7, <1>8, <1>9, <1>10, <1>11 DEF TurnInv

\* The call that is answered.
LEMMA AnswerFacts ==
  ASSUME TurnInv, NEW c \in CallId, NEW outcome \in Ending, NEW content,
         Answer(c, outcome, content), work[c].state \in {"called", "sent"},
         NEW w, w = [ask |-> work[c].ask, state |-> "answered",
                     outcome |-> outcome, content |-> content]
  PROVE  /\ work' = [work EXCEPT ![c] = w] /\ IsCall(w) /\ w.ask = work[c].ask
         /\ w.state = "answered" /\ work'[c] = w
         /\ w.outcome = outcome /\ w.content = content
         /\ work[c].ask # None /\ work[c].ask \in Ask
<1>1. IsCall(work[c])
  BY DEF TurnInv, Shape
<1>2. work[c].ask # None /\ work[c].ask \in Ask
  BY <1>1 DEF IsCall
<1>3. work' = [work EXCEPT ![c] = w]
  BY DEF Answer
<1>4. outcome # None
  BY NoneIsNoCall
<1>5. IsCall(w)
  BY <1>2, <1>4 DEF IsCall
<1> QED
  BY <1>2, <1>3, <1>5 DEF TurnInv, Shape

\* A call that ends without effect, and says so or leaves it open.
LEMMA EndsWithoutEffect ==
  ASSUME TurnInv, NEW c \in CallId, NEW outcome \in Ending \ {"ok"}, NEW content,
         Answer(c, outcome, content), work[c].state \in {"called", "sent"},
         content.says # "internal", UNCHANGED loopVars,
         UNCHANGED <<ledger, server, performed>>,
         outcome = "tool_error" /\ work[c].ask.tool \in Tool => c \notin performed,
         outcome \in {"invalid_arguments", "unknown_tool"} => c \notin performed \cup server
  PROVE  TurnInv'
<1> DEFINE w == [ask |-> work[c].ask, state |-> "answered",
                 outcome |-> outcome, content |-> content]
<1>1. PICK v : v = w
  OBVIOUS
<1>2. /\ work' = [work EXCEPT ![c] = v] /\ IsCall(v) /\ v.ask = work[c].ask
      /\ v.state = "answered" /\ work'[c] = v /\ v.outcome = outcome /\ v.content = content
  BY <1>1, AnswerFacts
<1> HIDE DEF w
<1>3. Told(c)'
  BY <1>2 DEF TurnInv, Told
<1>4. IsLedger(ledger') /\ PaymentsStay
  BY DEF TurnInv, Shape, PaymentsStay
<1>5. server' \subseteq CallId /\ performed' \subseteq CallId
  BY DEF TurnInv, TypeOK
<1> QED
  BY <1>2, <1>3, <1>4, <1>5, CallMoves

\* UnknownTool, InvalidArguments and Deadline: nothing happens, or the registry
\* does not say so.
LEMMA RefusalsKeep ==
  ASSUME TurnInv, NEW c \in CallId, UNCHANGED loopVars,
         UnknownTool(c) \/ InvalidArguments(c) \/ Deadline(c)
  PROVE  TurnInv'
<1>1. CASE UnknownTool(c)
  <2>1. c \notin performed \cup server
    BY <1>1 DEF UnknownTool, TurnInv, Told
  <2>2. "unknown_tool" \in Ending \ {"ok"} /\ Note("tools").says # "internal"
    BY DEF Ending, Note, Text
  <2> QED
    BY <1>1, <2>1, <2>2, EndsWithoutEffect DEF UnknownTool
<1>2. CASE InvalidArguments(c)
  <2>1. c \notin performed \cup server
    BY <1>2 DEF InvalidArguments, TurnInv, Told
  <2>2. "invalid_arguments" \in Ending \ {"ok"} /\ Note("arguments").says # "internal"
    BY DEF Ending, Note, Text
  <2> QED
    BY <1>2, <2>1, <2>2, EndsWithoutEffect DEF InvalidArguments
<1>3. CASE Deadline(c)
  <2>1. /\ Outcome("TimeoutError") = "timeout" /\ "timeout" \in Ending \ {"ok"}
        /\ Result("TimeoutError", None).says # "internal"
    BY DEF Ending, Outcome, Result, Note, Text
  <2> QED
    BY <1>3, <2>1, EndsWithoutEffect DEF Deadline
<1> QED
  BY <1>1, <1>2, <1>3

\* What a handler returned or reported, as the model gets it.
LEMMA TextFacts ==
  ASSUME NEW text, text.says # "internal"
  PROVE  /\ Result("nothing", text).says # "internal"
         /\ Result("ToolExecutionError", text).says # "internal"
         /\ Result("nothing", text).says = "cut" \/ Result("nothing", text) = text
BY DEF Result, Truncate, Text

\* LocalCall: the demo's tools.
LEMMA LocalCallKeeps ==
  ASSUME TurnInv, NEW c \in CallId, UNCHANGED loopVars, LocalCall(c)
  PROVE  TurnInv'
<1>1. /\ work[c].state = "called" /\ work[c].ask.tool \in Tool /\ work[c].ask.args # None
      /\ UNCHANGED server
  BY DEF LocalCall
<1>2. PICK ask : ask = work[c].ask
  OBVIOUS
<1>3. ask \in Ask /\ IsLedger(ledger) /\ c \notin performed \cup server
  BY <1>1, <1>2 DEF TurnInv, Shape, IsCall, Told
<1>4. PICK end : end = Handle(ledger, ask, c)
  OBVIOUS
<1>5. /\ Answer(c, Outcome(end.raises), Result(end.raises, end.text))
      /\ ledger' = end.ledger
      /\ performed' = IF end.ledger # ledger THEN performed \cup {c} ELSE performed
  BY <1>2, <1>4 DEF LocalCall
<1>6. /\ IsLedger(end.ledger)
      /\ end.raises \in {"nothing", "ToolExecutionError"}
      /\ end.raises = "ToolExecutionError" => end.ledger = ledger
      /\ end.text.says \notin {"internal", "cut"}
      /\ end.raises = "nothing" /\ ask.tool \in {"add_invoice_note", "pay_invoice"} =>
           end.ledger # ledger
      /\ end.raises = "nothing" => Reported(ask, end.text)
      /\ IF end.raises = "nothing" /\ ask.tool = "pay_invoice"
           THEN /\ ask.args.invoice \in Invoice /\ ~Paid(ledger, ask.args.invoice)
                /\ ask.args.amount = AmountOf[ask.args.invoice]
                /\ end.ledger.payments = [ledger.payments EXCEPT
                     ![ask.args.invoice] = [by |-> c, amount |-> ask.args.amount]]
           ELSE end.ledger.payments = ledger.payments
  BY <1>1, <1>2, <1>3, <1>4, HandleFacts
<1>7. CASE end.raises = "ToolExecutionError"
  <2>1. Outcome(end.raises) = "tool_error" /\ "tool_error" \in Ending \ {"ok"}
    BY <1>7 DEF Outcome, Ending
  <2>2. Result(end.raises, end.text).says # "internal"
    BY <1>6, <1>7, TextFacts
  <2> QED
    BY <1>1, <1>3, <1>5, <1>6, <1>7, <2>1, <2>2, EndsWithoutEffect
<1>8. CASE end.raises = "nothing"
  <2>1. Outcome(end.raises) = "ok" /\ "ok" \in Ending
    BY <1>8 DEF Outcome, Ending
  <2>2. PICK text : text = Result(end.raises, end.text)
    OBVIOUS
  <2>3. /\ text.says # "internal" /\ Reported(ask, text)
    BY <1>6, <1>8, <2>2, TextFacts DEF Reported
  <2>4. PICK w : w = [ask |-> work[c].ask, state |-> "answered", outcome |-> "ok",
                      content |-> text]
    OBVIOUS
  <2>5. /\ work' = [work EXCEPT ![c] = w] /\ IsCall(w) /\ w.ask = work[c].ask
        /\ w.state = "answered" /\ work'[c] = w /\ w.outcome = "ok" /\ w.content = text
    BY <1>1, <1>5, <2>1, <2>2, <2>4, AnswerFacts
  <2>6. IsLedger(ledger') /\ PaymentsStay
    BY <1>3, <1>5, <1>6 DEF PaymentsStay, IsLedger
  <2>7. ask.tool = "pay_invoice" =>
          /\ ask.args.invoice \in Invoice
          /\ ledger'.payments[ask.args.invoice] = [by |-> c, amount |-> AmountOf[ask.args.invoice]]
          /\ Paid(ledger', ask.args.invoice)
          /\ ask = Asking("pay_invoice", ask.args.invoice, AmountOf[ask.args.invoice])[1]
    <3>1. SUFFICES ASSUME ask.tool = "pay_invoice"
                   PROVE  /\ ask.args.invoice \in Invoice
                          /\ ledger'.payments[ask.args.invoice]
                               = [by |-> c, amount |-> AmountOf[ask.args.invoice]]
                          /\ Paid(ledger', ask.args.invoice)
                          /\ ask = Asking("pay_invoice", ask.args.invoice,
                                          AmountOf[ask.args.invoice])[1]
      OBVIOUS
    <3>2. /\ ask.args.invoice \in Invoice
          /\ ledger'.payments[ask.args.invoice]
               = [by |-> c, amount |-> AmountOf[ask.args.invoice]]
      BY <1>3, <1>5, <1>6, <1>8, <3>1 DEF IsLedger
    <3>3. [by |-> c, amount |-> AmountOf[ask.args.invoice]] # None
      <4>1. AmountOf[ask.args.invoice] \in Nat
        BY <3>2, LedgerAssumption
      <4> QED
        BY <4>1, NoneIsNoCall DEF Payment
    <3>4. ask = [tool |-> "pay_invoice",
                 args |-> [invoice |-> ask.args.invoice, amount |-> ask.args.amount]]
      <4>1. /\ ask = [tool |-> ask.tool, args |-> ask.args]
            /\ ask.args \in [invoice : Invoice \cup {Nobody}, amount : Nat]
        BY <1>1, <1>2, <1>3 DEF Ask, Args
      <4>2. ask.args = [invoice |-> ask.args.invoice, amount |-> ask.args.amount]
        BY <4>1
      <4> QED
        BY <3>1, <4>1, <4>2
    <3>5. ask.args.amount = AmountOf[ask.args.invoice]
      BY <1>6, <1>8, <3>1
    <3> QED
      BY <3>2, <3>3, <3>4, <3>5 DEF Paid, Asking
  <2>8. HasEffect(c)' => c \in performed'
    <3>1. ask.tool # "remote"
      BY <1>1, <1>2 DEF Tool
    <3> QED
      BY <1>2, <1>5, <1>6, <1>8, <2>5, <3>1 DEF HasEffect
  <2>9. Told(c)'
    BY <1>1, <1>2, <1>3, <2>3, <2>5, <2>7, <2>8 DEF Told
  <2>10. ASSUME NEW i \in Invoice
         PROVE  ledger'.payments[i] = ledger.payments[i] \/ Accounted(i)'
    <3>1. CASE ask.tool = "pay_invoice" /\ i = ask.args.invoice
      <4>1. /\ ledger'.payments[i].by = c /\ ledger'.payments[i].amount = AmountOf[i]
        BY <2>7, <3>1
      <4> QED
        BY <1>2, <2>5, <2>7, <3>1, <4>1 DEF Accounted, Asking
    <3>2. CASE ~(ask.tool = "pay_invoice" /\ i = ask.args.invoice)
      BY <1>3, <1>5, <1>6, <1>8, <3>2 DEF IsLedger
    <3> QED
      BY <3>1, <3>2
  <2>11. server' \subseteq CallId /\ performed' \subseteq CallId
    BY <1>1, <1>5 DEF TurnInv, TypeOK
  <2>12. \A d \in CallId : d # c => /\ d \in performed' <=> d \in performed
                                    /\ d \in server' <=> d \in server
    BY <1>1, <1>5
  <2> QED
    BY <1>1, <2>5, <2>6, <2>9, <2>10, <2>11, <2>12, CallMoves
<1> QED
  BY <1>6, <1>7, <1>8

LEMMA StateSet ==
  ASSUME NEW o, NEW state,
         o = [ask |-> o.ask, state |-> o.state, outcome |-> o.outcome, content |-> o.content]
  PROVE  [o EXCEPT !.state = state]
           = [ask |-> o.ask, state |-> state, outcome |-> o.outcome, content |-> o.content]
OBVIOUS

\* RemoteCall hands the call over: from here on the server may act.
LEMMA RemoteCallKeeps ==
  ASSUME TurnInv, NEW c \in CallId, UNCHANGED loopVars, RemoteCall(c)
  PROVE  TurnInv'
<1>1. /\ work[c].state = "called" /\ work[c].ask.tool = "remote" /\ work[c].ask.args # None
      /\ work' = [work EXCEPT ![c].state = "sent"] /\ server' = server \cup {c}
      /\ UNCHANGED <<ledger, performed>>
  BY DEF RemoteCall
<1>2. IsCall(work[c]) /\ c \notin performed
  BY <1>1 DEF TurnInv, Shape, Told
<1>3. PICK w : w = [ask |-> work[c].ask, state |-> "sent",
                    outcome |-> work[c].outcome, content |-> work[c].content]
  OBVIOUS
<1>4. work' = [work EXCEPT ![c] = w]
  <2>1. PICK o : o = work[c]
    OBVIOUS
  <2>2. [o EXCEPT !.state = "sent"] = w
    BY <1>2, <1>3, <2>1, StateSet DEF IsCall
  <2> QED
    BY <1>1, <2>1, <2>2
<1>5. IsCall(w) /\ w.ask = work[c].ask /\ w.state = "sent" /\ w.outcome = None
  BY <1>1, <1>2, <1>3 DEF IsCall
<1>6. work'[c] = w
  BY <1>4 DEF TurnInv, Shape
<1>7. Told(c)'
  BY <1>1, <1>2, <1>5, <1>6, NoneIsNoCall DEF Told, Ending
<1>8. IsLedger(ledger') /\ PaymentsStay
  BY <1>1 DEF TurnInv, Shape, PaymentsStay
<1>9. server' \subseteq CallId /\ performed' \subseteq CallId
  BY <1>1 DEF TurnInv, TypeOK
<1> QED
  BY <1>1, <1>4, <1>5, <1>7, <1>8, <1>9, CallMoves

\* ServerActs, whoever still waits for it.
LEMMA ServerActsKeeps ==
  ASSUME TurnInv, NEW c \in CallId, UNCHANGED loopVars, ServerActs(c)
  PROVE  TurnInv'
<1>1. /\ c \in server /\ server' = server \ {c} /\ performed' = performed \cup {c}
      /\ UNCHANGED <<work, ledger>>
  BY DEF ServerActs
<1>2. /\ IsCall(work[c]) /\ Told(c) /\ work[c].state \in {"sent", "answered"}
  BY <1>1 DEF TurnInv, Shape, Told
<1>3. PICK w : w = work[c]
  OBVIOUS
<1>4. work' = [work EXCEPT ![c] = w]
  BY <1>1, <1>3 DEF TurnInv, Shape
<1>5. Told(c)'
  BY <1>1, <1>2 DEF Told, HasEffect, Tool
<1>6. IsLedger(ledger') /\ PaymentsStay
  BY <1>1 DEF TurnInv, Shape, PaymentsStay
<1>7. server' \subseteq CallId /\ performed' \subseteq CallId
  BY <1>1 DEF TurnInv, TypeOK
<1> QED
  BY <1>1, <1>2, <1>3, <1>4, <1>5, <1>6, <1>7, CallMoves

\* RemoteReply: whatever the server says, no tool of this program has said it.
LEMMA RemoteReplyKeeps ==
  ASSUME TurnInv, NEW c \in CallId, UNCHANGED loopVars, RemoteReply(c)
  PROVE  TurnInv'
<1>1. work[c].state = "sent" /\ UNCHANGED <<ledger, server, performed>>
  BY DEF RemoteReply
<1>2. PICK reply \in {"result", "is_error", "MCPError"} :
        Answer(c, Outcome(Handler(reply).raises),
               Result(Handler(reply).raises, Handler(reply).text))
  BY DEF RemoteReply
<1>3. Note("remote").says = "remote" /\ Note("generic").says = "generic"
  BY DEF Note, Text
<1>4. /\ work[c].ask.tool = "remote" /\ "remote" \notin Tool
      /\ "remote" \notin {"add_invoice_note", "pay_invoice"}
  BY <1>1 DEF TurnInv, Shape, IsCall, Tool
<1>5. CASE reply = "is_error"
  <2>1. /\ Handler(reply).raises = "ToolExecutionError" /\ Handler(reply).text = Note("remote")
        /\ Outcome("ToolExecutionError") = "tool_error" /\ "tool_error" \in Ending \ {"ok"}
    BY <1>5 DEF Handler, Outcome, Ending
  <2>2. Result("ToolExecutionError", Note("remote")).says # "internal"
    BY <1>3, TextFacts
  <2> QED
    BY <1>1, <1>2, <1>4, <2>1, <2>2, EndsWithoutEffect
<1>6. CASE reply = "MCPError"
  <2>1. /\ Handler(reply).raises = "MCPError"
        /\ Outcome("MCPError") = "error" /\ "error" \in Ending \ {"ok"}
        /\ Result("MCPError", Handler(reply).text) = Note("generic")
    BY <1>6 DEF Handler, Outcome, Ending, Result
  <2> QED
    BY <1>1, <1>2, <1>3, <2>1, EndsWithoutEffect
<1>7. CASE reply = "result"
  <2>1. /\ Handler(reply).raises = "nothing" /\ Handler(reply).text = Note("remote")
        /\ Outcome("nothing") = "ok" /\ "ok" \in Ending
    BY <1>7 DEF Handler, Outcome, Ending
  <2>2. PICK text : text = Result("nothing", Note("remote"))
    OBVIOUS
  <2>3. text.says # "internal"
    BY <1>3, <2>2, TextFacts
  <2>4. PICK w : w = [ask |-> work[c].ask, state |-> "answered", outcome |-> "ok",
                      content |-> text]
    OBVIOUS
  <2>5. /\ work' = [work EXCEPT ![c] = w] /\ IsCall(w) /\ w.ask = work[c].ask
        /\ w.state = "answered" /\ work'[c] = w /\ w.outcome = "ok" /\ w.content = text
    BY <1>1, <1>2, <2>1, <2>2, <2>4, AnswerFacts
  <2>6. Told(c)'
    BY <1>1, <1>4, <2>3, <2>5 DEF Told, HasEffect, Reported
  <2>7. IsLedger(ledger') /\ PaymentsStay
    BY <1>1 DEF TurnInv, Shape, PaymentsStay
  <2>8. server' \subseteq CallId /\ performed' \subseteq CallId
    BY <1>1 DEF TurnInv, TypeOK
  <2> QED
    BY <1>1, <2>5, <2>6, <2>7, <2>8, CallMoves
<1> QED
  BY <1>5, <1>6, <1>7

LEMMA ExecuteKeeps ==
  ASSUME TurnInv, NEW c \in CallId, UNCHANGED loopVars,
         Execute(c) \/ ServerActs(c) \/ RemoteReply(c)
  PROVE  TurnInv'
BY RefusalsKeep, LocalCallKeeps, RemoteCallKeeps, ServerActsKeeps, RemoteReplyKeeps DEF Execute

----------------------------------------------------------------------------
(* Runs.                                                                   *)

\* One run moves, and the ledger does not.
LEMMA RunMoves ==
  ASSUME TurnInv, NEW r \in Run, UNCHANGED <<ledger, server, performed, provider, goal>>,
         work' = [c \in CallId |-> work'[c]],
         \A c \in CallId : IsCall(work'[c]) /\ Told(c)',
         \A c \in CallId : RunOf(c) # r => work'[c] = work[c],
         \A c \in CallId : work[c].state = "answered" => work'[c] = work[c],
         released \subseteq released', released' \subseteq CallId,
         \A q \in Run : q # r => RunStands(q),
         stage' \in [Run -> {"model", "held", "tools", "ended"}],
         steps' = [q \in Run |-> steps'[q]],
         stop' \in [Run -> Seq(StopReason)],
         verdict' \in [Run -> Verdict \cup {None}],
         summary' = [q \in Run |-> summary'[q]],
         steps'[r] \in 0..MaxSteps[provider],
         stage'[r] = "ended" <=> verdict'[r] \in Verdict,
         InTurn(r)', Concluded(r)',
         \A c \in CallId : RunOf(c) = r => Placed(c)',
         PaysWhatLookupReported'
  PROVE  TurnInv'
<1>1. TypeOK'
  <2>1. ASSUME NEW q \in Run
        PROVE  /\ steps'[q] \in 0..MaxSteps[provider] /\ Len(stop'[q]) <= steps'[q]
               /\ (stage'[q] = "ended") = (verdict'[q] \in Verdict)
    <3>1. CASE q = r
      BY <3>1 DEF InTurn
    <3>2. CASE q # r
      BY <3>2 DEF TurnInv, TypeOK, RunStands
    <3> QED
      BY <3>1, <3>2
  <2>2. \A c \in CallId :
          /\ work'[c].ask \in Ask \cup {None}
          /\ work'[c].state \in {"none", "held", "called", "sent", "answered"}
          /\ (work'[c].outcome = None) = (work'[c].state # "answered")
    BY DEF IsCall
  <2> QED
    BY <2>1, <2>2 DEF TurnInv, TypeOK
<1>2. Shape'
  BY DEF TurnInv, Shape
<1>3. ASSUME NEW q \in Run, q # r
      PROVE  InTurn(q)' /\ Concluded(q)'
  <2>1. InTurn(q) /\ Concluded(q) /\ stop[q] \in Seq(StopReason) /\ RunStands(q)
    BY <1>3 DEF TurnInv, Shape
  <2>2. \A c \in CallId : RunOf(c) = q => (IsError(c)' <=> IsError(c))
    BY <1>3 DEF IsError
  <2>3. Concluded(q)'
    BY <2>1, <2>2, ConcludedFrame DEF InTurn
  <2> QED
    BY <2>1, <2>3 DEF InTurn, RunStands
<1>4. ASSUME NEW c \in CallId, RunOf(c) # r
      PROVE  Placed(c)'
  <2>1. Untouched(c) /\ RunStands(RunOf(c))
    BY <1>4, CallFacts DEF Untouched
  <2> QED
    BY <2>1, PlacedFrame DEF TurnInv
<1>5. ASSUME NEW i \in Invoice
      PROVE  Accounted(i)'
  <2>1. CASE Paid(ledger, i)
    <3>1. ledger.payments[i].by \in CallId
      BY <2>1 DEF TurnInv, Shape, IsLedger, Paid, Payment
    <3> QED
      BY <3>1, AccountedFrame DEF TurnInv
  <2>2. CASE ~Paid(ledger, i)
    BY <2>2 DEF Accounted, Paid
  <2> QED
    BY <2>1, <2>2
<1> QED
  BY <1>1, <1>2, <1>3, <1>4, <1>5 DEF TurnInv

\* What is known of run r.
LEMMA RunFacts ==
  ASSUME TurnInv, NEW r \in Run
  PROVE  /\ stage \in [Run -> {"model", "held", "tools", "ended"}]
         /\ steps = [q \in Run |-> steps[q]] /\ summary = [q \in Run |-> summary[q]]
         /\ stop \in [Run -> Seq(StopReason)] /\ verdict \in [Run -> Verdict \cup {None}]
         /\ steps[r] \in Nat /\ steps[r] <= MaxSteps[provider] /\ MaxSteps[provider] \in Nat
         /\ stage[r] = "ended" <=> verdict[r] \in Verdict
         /\ work = [c \in CallId |-> work[c]]
         /\ \A c \in CallId : IsCall(work[c]) /\ Told(c) /\ Placed(c)
         /\ InTurn(r) /\ Concluded(r) /\ released \subseteq CallId
BY RunAssumption DEF TurnInv, TypeOK, Shape

\* End: a run that is not executing a turn ends.
LEMMA EndKeeps ==
  ASSUME TurnInv, NEW r \in Run, stage[r] \in {"model", "held"},
         NEW how \in Verdict, NEW said, End(r, how, said),
         \/ UNCHANGED steps
         \/ steps[r] < MaxSteps[provider] /\ steps' = [steps EXCEPT ![r] = @ + 1],
         UNCHANGED <<ledger, server, performed, provider, goal, released>>,
         how = "answer" /\ provider = "demo" =>
           said = [k \in 1..Len(stop[r]) |-> [call |-> <<r, k, 1>>, ok |-> ~IsError(<<r, k, 1>>)]]
  PROVE  TurnInv'
<1>1. /\ stage'   = [stage EXCEPT ![r] = "ended"]
      /\ verdict' = [verdict EXCEPT ![r] = how]
      /\ summary' = [summary EXCEPT ![r] = said]
      /\ UNCHANGED <<work, stop>>
  BY DEF End
<1>2. /\ stage \in [Run -> {"model", "held", "tools", "ended"}]
      /\ steps = [q \in Run |-> steps[q]] /\ summary = [q \in Run |-> summary[q]]
      /\ stop \in [Run -> Seq(StopReason)] /\ verdict \in [Run -> Verdict \cup {None}]
      /\ steps[r] \in Nat /\ steps[r] <= MaxSteps[provider] /\ MaxSteps[provider] \in Nat
      /\ work = [c \in CallId |-> work[c]]
      /\ \A c \in CallId : IsCall(work[c]) /\ Told(c) /\ Placed(c)
      /\ InTurn(r) /\ released \subseteq CallId
  BY RunFacts
<1>3. /\ steps' = [q \in Run |-> steps'[q]] /\ steps'[r] \in 0..MaxSteps[provider]
      /\ steps'[r] >= steps[r]
      /\ \A q \in Run : q # r => steps'[q] = steps[q]
  BY <1>2
<1>4. /\ stage'[r] = "ended" /\ verdict'[r] = how /\ summary'[r] = said
      /\ \A q \in Run : q # r => RunStands(q)
  BY <1>1, <1>2, <1>3 DEF RunStands
<1>5. \A c \in CallId : Told(c)'
  <2>1. \A c \in CallId : Untouched(c) /\ PaymentsStay
    BY <1>1 DEF Untouched, PaymentsStay
  <2> QED
    BY <1>2, <2>1, ToldFrame
<1>6. InTurn(r)'
  BY <1>1, <1>2, <1>3, <1>4 DEF InTurn
<1>7. Concluded(r)'
  BY <1>1, <1>4 DEF Concluded, IsError
<1>8. \A c \in CallId : RunOf(c) = r => Placed(c)'
  BY <1>1, <1>2, <1>4 DEF Placed
<1>9. PaysWhatLookupReported'
  BY <1>1, <1>2, LookupFrame DEF TurnInv
<1>10. /\ stage' \in [Run -> {"model", "held", "tools", "ended"}]
       /\ stop' \in [Run -> Seq(StopReason)] /\ verdict' \in [Run -> Verdict \cup {None}]
       /\ summary' = [q \in Run |-> summary'[q]] /\ work' = [c \in CallId |-> work'[c]]
       /\ \A c \in CallId : IsCall(work'[c]) /\ work'[c] = work[c]
  BY <1>1, <1>2
<1>11. released \subseteq released' /\ released' \subseteq CallId
  BY <1>2
<1> QED
  BY <1>3, <1>4, <1>5, <1>6, <1>7, <1>8, <1>9, <1>10, <1>11, RunMoves

\* A payment that is asked for next is one that a lookup has reported.
Established(r, asks) ==
  provider = "demo" =>
    \A n \in DOMAIN asks : asks[n].tool = "pay_invoice" =>
      \E d \in CallId :
        /\ RunOf(d) = r /\ TurnOf(d) <= steps[r]
        /\ work[d].outcome = "ok" /\ work[d].content.says = "invoice"
        /\ work[d].content.about = asks[n].args.invoice
        /\ work[d].content.amount = asks[n].args.amount

\* Request: the calls of the new turn were none, and are called unless one of them
\* has to wait.
LEMMA RequestKeeps ==
  ASSUME TurnInv, NEW r \in Run, stage[r] = "model", steps[r] < MaxSteps[provider],
         NEW asks \in Seq(Ask), Request(r, "tool_use", asks),
         steps' = [steps EXCEPT ![r] = @ + 1],
         UNCHANGED <<ledger, server, performed, provider, goal, released>>,
         provider = "demo" => Len(asks) = 1 /\ steps[r] <= 1,
         Established(r, asks)
  PROVE  TurnInv'
<1> DEFINE held == \E n \in DOMAIN asks : NeedsApproval(asks[n])
           New(c) == RunOf(c) = r /\ TurnOf(c) = steps[r] + 1 /\ c[3] \in DOMAIN asks
           next   == IF held THEN "held" ELSE "called"
<1>1. /\ work' = [c \in CallId |->
            IF New(c) THEN [work[c] EXCEPT !.ask = asks[c[3]], !.state = next] ELSE work[c]]
      /\ stage' = [stage EXCEPT ![r] = IF held THEN "held" ELSE "tools"]
      /\ stop'  = [stop EXCEPT ![r] = Append(@, "tool_use")]
      /\ UNCHANGED <<verdict, summary>>
  BY DEF Request
<1>2. /\ stage \in [Run -> {"model", "held", "tools", "ended"}]
      /\ steps = [q \in Run |-> steps[q]] /\ summary = [q \in Run |-> summary[q]]
      /\ stop \in [Run -> Seq(StopReason)] /\ verdict \in [Run -> Verdict \cup {None}]
      /\ steps[r] \in Nat /\ MaxSteps[provider] \in Nat
      /\ stage[r] = "ended" <=> verdict[r] \in Verdict
      /\ work = [c \in CallId |-> work[c]]
      /\ \A c \in CallId : IsCall(work[c]) /\ Told(c) /\ Placed(c)
      /\ InTurn(r) /\ released \subseteq CallId
  BY RunFacts
<1>3. Len(stop[r]) = steps[r] /\ stop[r] \in Seq(StopReason)
  BY <1>2 DEF InTurn
<1>4. /\ \A q \in Run : q # r => RunStands(q)
      /\ steps'[r] = steps[r] + 1 /\ steps' = [q \in Run |-> steps'[q]]
      /\ stop'[r] = Append(stop[r], "tool_use") /\ stop' \in [Run -> Seq(StopReason)]
      /\ stage'[r] = IF held THEN "held" ELSE "tools"
      /\ stage' \in [Run -> {"model", "held", "tools", "ended"}]
  <2>1. "tool_use" \in StopReason
    BY DEF StopReason
  <2>2. Append(stop[r], "tool_use") \in Seq(StopReason)
    BY <1>3, <2>1
  <2> HIDE DEF held
  <2> QED
    BY <1>1, <1>2, <2>2 DEF RunStands
<1>5. /\ Len(stop'[r]) = steps[r] + 1 /\ stop'[r][steps[r] + 1] = "tool_use"
      /\ \A k \in 1..steps[r] : stop'[r][k] = stop[r][k]
  BY <1>2, <1>3, <1>4
<1>6. next \in {"held", "called"} /\ (next = "held" <=> held)
  OBVIOUS
<1> HIDE DEF next, held
<1>7. ASSUME NEW c \in CallId, New(c)
      PROVE  /\ RunOf(c) = r /\ TurnOf(c) = steps[r] + 1 /\ c[3] \in 1..Len(asks)
             /\ work[c].state = "none" /\ work[c].outcome = None
             /\ IsCall(work'[c]) /\ work'[c].ask = asks[c[3]] /\ work'[c].state = next
             /\ work'[c].outcome = None
  <2>1. work[c] = Unused
    <3>1. TurnOf(c) > Len(stop[r]) /\ TurnOf(c) \in Nat
      BY <1>2, <1>3, <1>7
    <3>2. ~(TurnOf(c) <= Len(stop[r]))
      BY <1>2, <1>3, <3>1
    <3>3. work[c].state = "none"
      BY <1>2, <1>7, <3>2 DEF Placed
    <3> QED
      BY <1>2, <3>3 DEF IsCall
  <2>2. work'[c] = [work[c] EXCEPT !.ask = asks[c[3]], !.state = next]
    BY <1>1, <1>7
  <2>3. [Unused EXCEPT !.ask = asks[c[3]], !.state = next]
          = [ask |-> asks[c[3]], state |-> next, outcome |-> None, content |-> None]
    <3> DEFINE asked == [Unused EXCEPT !.ask = asks[c[3]]]
    <3>1. asked = [ask |-> asks[c[3]], state |-> "none", outcome |-> None, content |-> None]
      BY DEF Unused
    <3>2. [Unused EXCEPT !.ask = asks[c[3]], !.state = next] = [asked EXCEPT !.state = next]
      OBVIOUS
    <3> HIDE DEF asked
    <3> QED
      BY <3>1, <3>2, StateSet
  <2>4. RunOf(c) = r /\ TurnOf(c) = steps[r] + 1 /\ c[3] \in 1..Len(asks)
    BY <1>7
  <2>5. work'[c] = [ask |-> asks[c[3]], state |-> next, outcome |-> None, content |-> None]
    BY <2>1, <2>2, <2>3
  <2>6. asks[c[3]] \in Ask /\ asks[c[3]] # None
    BY <2>4, NoneIsNoCall
  <2>7. IsCall(work'[c])
    BY <1>6, <2>5, <2>6 DEF IsCall
  <2> QED
    BY <2>1, <2>4, <2>5, <2>7 DEF Unused
<1>8. \A c \in CallId : ~New(c) => work'[c] = work[c]
  BY <1>1
<1> HIDE DEF New
<1>9. ASSUME NEW c \in CallId
      PROVE  IsCall(work'[c]) /\ Told(c)'
  <2>1. CASE New(c)
    <3>1. /\ work[c].state = "none" /\ IsCall(work'[c])
          /\ work'[c].state = next /\ work'[c].outcome = None
      BY <1>7, <2>1
    <3>2. c \notin performed \cup server
      BY <1>2, <3>1 DEF Told
    <3>3. work'[c].state \in {"held", "called"} /\ work'[c].outcome # "ok"
      BY <1>6, <3>1, NoneIsNoCall DEF Ending
    <3> QED
      BY <3>1, <3>2, <3>3 DEF Told
  <2>2. CASE ~New(c)
    BY <1>2, <1>8, <2>2, ToldFrame DEF Untouched, PaymentsStay
  <2> QED
    BY <2>1, <2>2
<1>10. ASSUME NEW c \in CallId, RunOf(c) = r
       PROVE  Placed(c)'
  <2>1. CASE New(c)
    <3>1. /\ TurnOf(c) = steps[r] + 1 /\ c[3] \in 1..Len(asks)
          /\ work'[c].state = next /\ work'[c].ask = asks[c[3]]
      BY <1>7, <2>1
    <3>2. provider = "demo" => c[3] = 1
      <4> SUFFICES ASSUME provider = "demo" PROVE c[3] = 1
        OBVIOUS
      <4>1. Len(asks) = 1
        OBVIOUS
      <4>2. c[3] \in 1..1
        BY <3>1, <4>1
      <4> QED
        BY <4>2
    <3>3. next = "called" => ~NeedsApproval(asks[c[3]])
      BY <1>6, <3>1 DEF held
    <3> QED
      BY <1>2, <1>4, <1>5, <1>6, <1>10, <3>1, <3>2, <3>3 DEF Placed, NeedsApproval
  <2>2. CASE ~New(c)
    <3>1. work'[c] = work[c] /\ Placed(c) /\ work[c].state \notin {"called", "sent"}
      BY <1>2, <1>8, <1>10, <2>2 DEF Placed
    <3>2. work[c].state # "none" => TurnOf(c) \in 1..steps[r]
      BY <1>2, <1>3, <1>10, <3>1, CallFacts DEF Placed
    <3> QED
      BY <1>2, <1>3, <1>4, <1>5, <1>10, <3>1, <3>2 DEF Placed, NeedsApproval
  <2> QED
    BY <2>1, <2>2
<1>11. PaysWhatLookupReported'
  <2>1. SUFFICES ASSUME provider = "demo", NEW c \in CallId, work'[c].ask # None,
                        work'[c].ask.tool = "pay_invoice"
                 PROVE  \E d \in CallId :
                          /\ RunOf(d) = RunOf(c) /\ TurnOf(d) < TurnOf(c)
                          /\ work'[d].outcome = "ok" /\ work'[d].content.says = "invoice"
                          /\ work'[d].content.about = work'[c].ask.args.invoice
                          /\ work'[d].content.amount = work'[c].ask.args.amount
    BY DEF PaysWhatLookupReported
  <2>2. \A d \in CallId : work[d].outcome = "ok" => work'[d] = work[d]
    <3>1. \A d \in CallId : work[d].outcome = "ok" => work[d].state = "answered"
      BY <1>2, NoneIsNoCall DEF IsCall, Ending
    <3> QED
      BY <1>7, <1>8, <3>1
  <2>3. CASE New(c)
    <3>1. /\ RunOf(c) = r /\ TurnOf(c) = steps[r] + 1 /\ c[3] \in 1..Len(asks)
          /\ work'[c].ask = asks[c[3]]
      BY <1>7, <2>3
    <3>2. PICK d \in CallId :
            /\ RunOf(d) = r /\ TurnOf(d) <= steps[r]
            /\ work[d].outcome = "ok" /\ work[d].content.says = "invoice"
            /\ work[d].content.about = work'[c].ask.args.invoice
            /\ work[d].content.amount = work'[c].ask.args.amount
      <4>1. PICK n \in DOMAIN asks : work'[c].ask = asks[n]
        BY <3>1
      <4> QED
        BY <2>1, <4>1 DEF Established
    <3>3. TurnOf(d) < TurnOf(c)
      BY <1>2, <3>1, <3>2, CallFacts
    <3> QED
      BY <2>2, <3>1, <3>2, <3>3
  <2>4. CASE ~New(c)
    <3>1. work'[c] = work[c]
      BY <1>8, <2>4
    <3>2. PICK d \in CallId :
            /\ RunOf(d) = RunOf(c) /\ TurnOf(d) < TurnOf(c)
            /\ work[d].outcome = "ok" /\ work[d].content.says = "invoice"
            /\ work[d].content.about = work[c].ask.args.invoice
            /\ work[d].content.amount = work[c].ask.args.amount
      BY <2>1, <3>1 DEF TurnInv, PaysWhatLookupReported
    <3> QED
      BY <2>2, <3>1, <3>2
  <2> QED
    BY <2>3, <2>4
<1>12. InTurn(r)'
  BY <1>2, <1>3, <1>4, <1>5 DEF InTurn
<1>13. Concluded(r)'
  <2>1. verdict[r] # "answer"
    BY <1>2 DEF Verdict
  <2> QED
    BY <1>1, <2>1 DEF Concluded
<1>14. /\ verdict' \in [Run -> Verdict \cup {None}] /\ summary' = [q \in Run |-> summary'[q]]
       /\ work' = [c \in CallId |-> work'[c]]
       /\ steps'[r] \in 0..MaxSteps[provider]
       /\ stage'[r] = "ended" <=> verdict'[r] \in Verdict
  <2>1. stage'[r] # "ended" /\ verdict'[r] \notin Verdict
    BY <1>1, <1>2, <1>4
  <2>2. steps'[r] \in 0..MaxSteps[provider]
    BY <1>2, <1>4
  <2> QED
    BY <1>1, <1>2, <2>1, <2>2
<1>15. \A c \in CallId : RunOf(c) # r => work'[c] = work[c]
  BY <1>8 DEF New
<1>16. \A c \in CallId : work[c].state = "answered" => work'[c] = work[c]
  BY <1>7, <1>8
<1>17. released \subseteq released' /\ released' \subseteq CallId
  BY <1>2
<1> QED
  BY <1>4, <1>9, <1>10, <1>11, <1>12, <1>13, <1>14, <1>15, <1>16, <1>17, RunMoves

\* Approve: all calls of the turn were waiting, and all of them are released.
LEMMA ApproveKeeps ==
  ASSUME TurnInv, NEW r \in Run, Approve(r)
  PROVE  TurnInv'
<1> DEFINE Let(c) == c \in TurnCalls(r, steps[r])
<1>1. /\ stage[r] = "held"
      /\ released' = released \cup TurnCalls(r, steps[r])
      /\ work' = [c \in CallId |->
           IF Let(c) THEN [work[c] EXCEPT !.state = "called"] ELSE work[c]]
      /\ stage' = [stage EXCEPT ![r] = "tools"]
      /\ UNCHANGED <<ledger, server, performed, provider, goal, steps, stop, verdict, summary>>
  BY DEF Approve
<1>2. /\ stage \in [Run -> {"model", "held", "tools", "ended"}]
      /\ steps = [q \in Run |-> steps[q]] /\ summary = [q \in Run |-> summary[q]]
      /\ stop \in [Run -> Seq(StopReason)] /\ verdict \in [Run -> Verdict \cup {None}]
      /\ steps[r] \in Nat /\ steps[r] <= MaxSteps[provider] /\ MaxSteps[provider] \in Nat
      /\ stage[r] = "ended" <=> verdict[r] \in Verdict
      /\ work = [c \in CallId |-> work[c]]
      /\ \A c \in CallId : IsCall(work[c]) /\ Told(c) /\ Placed(c)
      /\ InTurn(r) /\ Concluded(r) /\ released \subseteq CallId
  BY RunFacts
<1>3. \A c \in CallId : Let(c) <=> RunOf(c) = r /\ TurnOf(c) = steps[r] /\ work[c].ask # None
  BY DEF TurnCalls
<1>4. ASSUME NEW c \in CallId, Let(c)
      PROVE  /\ work[c].state = "held" /\ work[c].outcome = None
             /\ IsCall(work'[c]) /\ work'[c].ask = work[c].ask /\ work'[c].state = "called"
             /\ work'[c].outcome = None
  <2>1. IsCall(work[c]) /\ Placed(c) /\ RunOf(c) = r /\ TurnOf(c) = steps[r]
    BY <1>2, <1>3, <1>4
  <2>2. work[c].state = "held" /\ work[c].outcome = None /\ work[c].ask # None
    BY <1>1, <1>3, <1>4, <2>1 DEF Placed, IsCall
  <2>3. work'[c] = [work[c] EXCEPT !.state = "called"]
    BY <1>1, <1>4
  <2>4. work'[c] = [ask |-> work[c].ask, state |-> "called",
                    outcome |-> work[c].outcome, content |-> work[c].content]
    BY <2>1, <2>3, StateSet DEF IsCall
  <2> QED
    BY <2>1, <2>2, <2>4 DEF IsCall
<1>5. \A c \in CallId : ~Let(c) => work'[c] = work[c]
  BY <1>1
<1> HIDE DEF Let
<1>6. /\ \A q \in Run : q # r => RunStands(q)
      /\ stage'[r] = "tools" /\ steps'[r] = steps[r] /\ stop'[r] = stop[r]
      /\ verdict'[r] = verdict[r] /\ summary'[r] = summary[r]
      /\ stage' \in [Run -> {"model", "held", "tools", "ended"}]
  BY <1>1, <1>2 DEF RunStands
<1>7. ASSUME NEW c \in CallId
      PROVE  IsCall(work'[c]) /\ Told(c)'
  <2>1. CASE Let(c)
    <3>1. /\ work[c].state = "held" /\ IsCall(work'[c])
          /\ work'[c].state = "called" /\ work'[c].outcome = None
      BY <1>4, <2>1
    <3>2. c \notin performed \cup server
      BY <1>2, <3>1 DEF Told
    <3>3. work'[c].outcome # "ok"
      BY <3>1, NoneIsNoCall DEF Ending
    <3> QED
      BY <1>1, <3>1, <3>2, <3>3 DEF Told
  <2>2. CASE ~Let(c)
    BY <1>1, <1>2, <1>5, <2>2, ToldFrame DEF Untouched, PaymentsStay
  <2> QED
    BY <2>1, <2>2
<1>8. ASSUME NEW c \in CallId, RunOf(c) = r
      PROVE  Placed(c)'
  <2>1. Placed(c) /\ IsCall(work[c])
    BY <1>2
  <2>2. CASE Let(c)
    <3>1. /\ work'[c].state = "called" /\ work[c].state = "held"
          /\ TurnOf(c) = steps[r] /\ c \in released'
      BY <1>1, <1>3, <1>4, <2>2 DEF Let
    <3> QED
      BY <1>1, <1>6, <1>8, <2>1, <3>1 DEF Placed
  <2>3. CASE ~Let(c)
    <3>1. work'[c] = work[c] /\ work[c].state \notin {"called", "sent"}
      BY <1>1, <1>5, <1>8, <2>1, <2>3 DEF Placed
    <3> QED
      BY <1>1, <1>6, <1>8, <2>1, <3>1 DEF Placed, NeedsApproval
  <2> QED
    BY <2>2, <2>3
<1>9. \A c \in CallId : work[c].state = "answered" => work'[c] = work[c]
  BY <1>4, <1>5
<1>10. \A c \in CallId : work'[c].ask = work[c].ask
  BY <1>4, <1>5
<1>11. PaysWhatLookupReported'
  BY <1>1, <1>2, <1>9, <1>10, LookupFrame DEF TurnInv
<1>12. InTurn(r)'
  BY <1>1, <1>2, <1>6 DEF InTurn
<1>13. Concluded(r)'
  <2>1. verdict[r] # "answer"
    BY <1>1, <1>2 DEF Verdict
  <2> QED
    BY <1>6, <2>1 DEF Concluded
<1>14. /\ verdict' \in [Run -> Verdict \cup {None}] /\ summary' = [q \in Run |-> summary'[q]]
       /\ stop' \in [Run -> Seq(StopReason)] /\ steps' = [q \in Run |-> steps'[q]]
       /\ work' = [c \in CallId |-> work'[c]]
       /\ steps'[r] \in 0..MaxSteps[provider]
       /\ stage'[r] = "ended" <=> verdict'[r] \in Verdict
  BY <1>1, <1>2, <1>6
<1>15. \A c \in CallId : RunOf(c) # r => work'[c] = work[c]
  BY <1>3, <1>5
<1>16. released \subseteq released' /\ released' \subseteq CallId
  BY <1>1, <1>2 DEF TurnCalls
<1> QED
  BY <1>1, <1>6, <1>7, <1>8, <1>9, <1>11, <1>12, <1>13, <1>14, <1>15, <1>16, RunMoves

\* HandBack: when all calls of the turn have ended, no call of the run is at work.
LEMMA HandBackKeeps ==
  ASSUME TurnInv, NEW r \in Run, HandBack(r)
  PROVE  TurnInv'
<1>1. /\ stage[r] = "tools"
      /\ \A c \in TurnCalls(r, steps[r]) : work[c].state = "answered"
      /\ stage' = [stage EXCEPT ![r] = "model"]
      /\ UNCHANGED <<work, ledger, server, performed>>
      /\ UNCHANGED <<provider, goal, steps, stop, released, verdict, summary>>
  BY DEF HandBack, registryVars
<1>2. /\ stage \in [Run -> {"model", "held", "tools", "ended"}]
      /\ steps = [q \in Run |-> steps[q]] /\ summary = [q \in Run |-> summary[q]]
      /\ stop \in [Run -> Seq(StopReason)] /\ verdict \in [Run -> Verdict \cup {None}]
      /\ steps[r] \in Nat /\ steps[r] <= MaxSteps[provider] /\ MaxSteps[provider] \in Nat
      /\ stage[r] = "ended" <=> verdict[r] \in Verdict
      /\ work = [c \in CallId |-> work[c]]
      /\ \A c \in CallId : IsCall(work[c]) /\ Told(c) /\ Placed(c)
      /\ InTurn(r) /\ Concluded(r) /\ released \subseteq CallId
  BY RunFacts
<1>3. /\ \A q \in Run : q # r => RunStands(q)
      /\ stage'[r] = "model"
      /\ stage' \in [Run -> {"model", "held", "tools", "ended"}]
  BY <1>1, <1>2 DEF RunStands
<1>4. \A c \in CallId : Told(c)'
  BY <1>1, <1>2, ToldFrame DEF Untouched, PaymentsStay
<1>5. ASSUME NEW c \in CallId, RunOf(c) = r
      PROVE  Placed(c)'
  <2>1. Placed(c) /\ IsCall(work[c])
    BY <1>2
  <2>2. work[c].state \notin {"called", "sent"}
    <3>1. ASSUME work[c].state \in {"called", "sent"}
          PROVE  FALSE
      <4>1. TurnOf(c) = steps[r] /\ work[c].ask # None
        BY <1>5, <2>1, <3>1 DEF Placed, IsCall
      <4>2. c \in TurnCalls(r, steps[r])
        BY <1>5, <4>1 DEF TurnCalls
      <4> QED
        BY <1>1, <3>1, <4>2
    <3> QED
      BY <3>1
  <2> QED
    BY <1>1, <1>3, <1>5, <2>1, <2>2 DEF Placed, NeedsApproval
<1>6. PaysWhatLookupReported'
  BY <1>1, <1>2, LookupFrame DEF TurnInv
<1>7. InTurn(r)'
  BY <1>1, <1>2, <1>3 DEF InTurn
<1>8. Concluded(r)'
  <2>1. verdict[r] # "answer"
    BY <1>1, <1>2 DEF Verdict
  <2> QED
    BY <1>1, <2>1 DEF Concluded
<1>9. /\ verdict' \in [Run -> Verdict \cup {None}] /\ summary' = [q \in Run |-> summary'[q]]
      /\ stop' \in [Run -> Seq(StopReason)] /\ steps' = [q \in Run |-> steps'[q]]
      /\ work' = [c \in CallId |-> work'[c]]
      /\ \A c \in CallId : IsCall(work'[c]) /\ work'[c] = work[c]
      /\ steps'[r] \in 0..MaxSteps[provider]
      /\ stage'[r] = "ended" <=> verdict'[r] \in Verdict
      /\ released \subseteq released' /\ released' \subseteq CallId
  BY <1>1, <1>2, <1>3
<1> QED
  BY <1>1, <1>3, <1>4, <1>5, <1>6, <1>7, <1>8, <1>9, RunMoves

----------------------------------------------------------------------------
(* What the models ask for.                                                *)

\* A planned call is well formed.
LEMMA AskingIsAsk ==
  ASSUME NEW tool \in Tool, NEW invoice \in Invoice \cup {Nobody}, NEW amount \in Nat
  PROVE  /\ Asking(tool, invoice, amount) \in Seq(Ask) /\ Len(Asking(tool, invoice, amount)) = 1
         /\ Asking(tool, invoice, amount)
              = <<[tool |-> tool, args |-> [invoice |-> invoice, amount |-> amount]]>>
<1>1. [invoice |-> invoice, amount |-> amount] \in Args
  BY DEF Args
<1>2. [tool |-> tool, args |-> [invoice |-> invoice, amount |-> amount]] \in Ask
  BY <1>1 DEF Ask
<1> QED
  BY <1>2 DEF Asking

\* What the demo reads after its first turn is what the call of that turn reported.
LEMMA PayloadFacts ==
  ASSUME TurnInv, NEW r \in Run, steps[r] = 1, NEW tool,
         NEW payload, payload = LatestPayload(r, tool), payload # None
  PROVE  \E d \in CallId :
           /\ RunOf(d) = r /\ TurnOf(d) = 1
           /\ work[d].outcome = "ok" /\ work[d].ask.tool = tool
           /\ payload = work[d].content /\ payload.says # "cut" /\ Reported(work[d].ask, payload)
<1> DEFINE found == {k \in DOMAIN Outcomes(r) : Succeeded(Outcomes(r)[k], tool)}
<1>1. Outcomes(r) = [k \in 1..1 |-> <<r, k, 1>>]
  BY DEF Outcomes
<1>2. DOMAIN Outcomes(r) = {1} /\ Outcomes(r)[1] = <<r, 1, 1>>
  BY <1>1
<1>3. found \subseteq {1}
  BY <1>2
<1>4. payload = IF found = {} THEN None ELSE Payload(Outcomes(r)[Max(found)])
  BY DEF LatestPayload
<1>5. found = {1} /\ payload = Payload(Outcomes(r)[Max(found)])
  BY <1>3, <1>4
<1>6. Max({1}) = 1
  BY DEF Max
<1>7. Succeeded(<<r, 1, 1>>, tool) /\ payload = Payload(<<r, 1, 1>>)
  BY <1>2, <1>5, <1>6
<1> DEFINE d == <<r, 1, 1>>
<1>8. d \in CallId /\ RunOf(d) = r /\ TurnOf(d) = 1
  BY RunAssumption, RegistryAssumption DEF CallId, RunOf, TurnOf
<1>9. /\ work[d].outcome = "ok" /\ work[d].ask.tool = tool
      /\ payload = work[d].content /\ payload.says # "cut"
  BY <1>7 DEF Succeeded, IsError, Payload
<1> HIDE DEF d
<1>10. Reported(work[d].ask, payload)
  BY <1>8, <1>9 DEF TurnInv, Told
<1> QED
  BY <1>8, <1>9, <1>10

\* PlannedStep: nothing, or one call, and a payment only after a lookup that could be
\* read (_settle_invoice_payment).
LEMMA PlannedFacts ==
  ASSUME TurnInv, NEW r \in Run, PlannedStep(r) # << >>
  PROVE  /\ PlannedStep(r) \in Seq(Ask) /\ Len(PlannedStep(r)) = 1 /\ steps[r] <= 1
         /\ Established(r, PlannedStep(r))
<1>1. goal[r] \in Goal /\ steps[r] \in Nat
  BY RunFacts DEF TurnInv, TypeOK
<1>2. ASSUME NEW tool \in Tool \ {"pay_invoice"}, NEW invoice \in Invoice \cup {Nobody},
             PlannedStep(r) = Asking(tool, invoice, 0)
      PROVE  PlannedStep(r) \in Seq(Ask) /\ Len(PlannedStep(r)) = 1
             /\ Established(r, PlannedStep(r))
  <2>1. PlannedStep(r) = <<[tool |-> tool, args |-> [invoice |-> invoice, amount |-> 0]]>>
    BY <1>2, AskingIsAsk
  <2>2. \A n \in DOMAIN PlannedStep(r) : PlannedStep(r)[n].tool # "pay_invoice"
    BY <2>1
  <2> QED
    BY <1>2, <2>2, AskingIsAsk DEF Established
<1>3. CASE goal[r].scenario = "settle_invoice" /\ steps[r] = 0
  <2>1. goal[r].invoice \in Invoice \cup {Nobody}
    BY <1>1, <1>3 DEF Goal
  <2>2. PlannedStep(r) = Asking("lookup_invoice", goal[r].invoice, 0)
    BY <1>3 DEF PlannedStep, SettleLookup
  <2> QED
    BY <1>2, <1>3, <2>1, <2>2 DEF Tool
<1>4. CASE goal[r].scenario = "settle_invoice" /\ steps[r] = 1
  <2>1. PlannedStep(r) = SettlePayment(r)
    BY <1>4 DEF PlannedStep
  <2>2. PICK payload : payload = LatestPayload(r, "lookup_invoice")
    OBVIOUS
  <2>3. payload # None /\ PlannedStep(r) = Asking("pay_invoice", payload.about, payload.amount)
    BY <2>1, <2>2 DEF SettlePayment
  <2>4. PICK d \in CallId :
          /\ RunOf(d) = r /\ TurnOf(d) = 1
          /\ work[d].outcome = "ok" /\ work[d].ask.tool = "lookup_invoice"
          /\ payload = work[d].content /\ payload.says # "cut" /\ Reported(work[d].ask, payload)
    BY <1>4, <2>2, <2>3, PayloadFacts
  <2>5. payload.says = "invoice" /\ payload.about \in Invoice /\ payload.amount \in Nat
    BY <2>4, LedgerAssumption DEF Reported
  <2>6. /\ PlannedStep(r) \in Seq(Ask) /\ Len(PlannedStep(r)) = 1
        /\ PlannedStep(r) = <<[tool |-> "pay_invoice",
                               args |-> [invoice |-> payload.about, amount |-> payload.amount]]>>
    BY <2>3, <2>5, AskingIsAsk DEF Tool
  <2>7. ASSUME NEW n \in DOMAIN PlannedStep(r)
        PROVE  /\ PlannedStep(r)[n].args.invoice = payload.about
               /\ PlannedStep(r)[n].args.amount = payload.amount
    BY <2>6
  <2>8. TurnOf(d) <= steps[r]
    BY <1>4, <2>4
  <2> QED
    BY <1>4, <2>4, <2>5, <2>6, <2>7, <2>8 DEF Established
<1>5. CASE goal[r].scenario = "overdue_review" /\ steps[r] = 0
  <2>1. PlannedStep(r) = Asking("list_overdue_invoices", Nobody, 0)
    BY <1>5 DEF PlannedStep, OverdueReview
  <2> QED
    BY <1>2, <1>5, <2>1 DEF Tool
<1>6. CASE goal[r].scenario = "overdue_review" /\ steps[r] = 1
  <2>1. PlannedStep(r) = OverdueNote(r)
    BY <1>6 DEF PlannedStep
  <2>2. PICK payload : payload = LatestPayload(r, "list_overdue_invoices")
    OBVIOUS
  <2>3. /\ payload # None /\ payload.about # None
        /\ PlannedStep(r) = Asking("add_invoice_note", payload.about, 0)
    BY <2>1, <2>2 DEF OverdueNote
  <2>4. payload.about \in Invoice
    BY <1>6, <2>2, <2>3, PayloadFacts DEF Reported
  <2> QED
    BY <1>2, <1>6, <2>3, <2>4 DEF Tool
<1> QED
  BY <1>1, <1>3, <1>4, <1>5, <1>6 DEF PlannedStep

----------------------------------------------------------------------------
(* The model's answers.                                                    *)

\* Proceed and Answered: a turn that stopped to use tools is taken on, any other
\* ends the run.
LEMMA AnsweredKeeps ==
  ASSUME TurnInv, NEW r \in Run, MayAsk(r),
         NEW reason, NEW asks \in Seq(Ask), NEW said, Answered(r, reason, asks, said),
         provider = "demo" /\ reason = "tool_use" =>
           Len(asks) = 1 /\ steps[r] <= 1 /\ Established(r, asks),
         provider = "demo" /\ reason # "tool_use" =>
           said = [k \in 1..steps[r] |-> [call |-> <<r, k, 1>>, ok |-> ~IsError(<<r, k, 1>>)]]
  PROVE  TurnInv'
<1>1. /\ stage[r] = "model" /\ steps[r] < MaxSteps[provider]
      /\ steps' = [steps EXCEPT ![r] = @ + 1]
      /\ UNCHANGED <<ledger, server, performed, provider, goal, released>>
      /\ Proceed(r, reason, asks, said)
  BY DEF MayAsk, Answered
<1>2. CASE reason = "tool_use"
  <2>1. Request(r, "tool_use", asks)
    BY <1>1, <1>2 DEF Proceed
  <2>2. Established(r, asks)
    BY <1>2 DEF Established
  <2> QED
    BY <1>1, <1>2, <2>1, <2>2, RequestKeeps
<1>3. CASE reason # "tool_use"
  <2>1. PICK how : how = Conclusion(reason)
    OBVIOUS
  <2>2. End(r, how, said) /\ how \in Verdict
    BY <1>1, <1>3, <2>1 DEF Proceed, Conclusion, Verdict
  <2>3. Len(stop[r]) = steps[r]
    BY <1>1, RunFacts DEF InTurn
  <2> QED
    BY <1>1, <1>3, <2>2, <2>3, EndKeeps
<1> QED
  BY <1>2, <1>3

LEMMA DemoModelKeeps ==
  ASSUME TurnInv, NEW r \in Run, DemoModel(r)
  PROVE  TurnInv'
<1>1. provider = "demo" /\ MayAsk(r)
  BY DEF DemoModel
<1>2. CASE PlannedStep(r) = << >>
  <2>1. Answered(r, "end_turn", << >>, Summarise(r))
    BY <1>2 DEF DemoModel
  <2>2. Outcomes(r) = [k \in 1..steps[r] |-> <<r, k, 1>>]
    BY DEF Outcomes
  <2>3. Summarise(r) = [k \in 1..steps[r] |-> [call |-> <<r, k, 1>>, ok |-> ~IsError(<<r, k, 1>>)]]
    BY <2>2 DEF Summarise
  <2>4. << >> \in Seq(Ask)
    OBVIOUS
  <2> QED
    BY <1>1, <2>1, <2>3, <2>4, AnsweredKeeps
<1>3. CASE PlannedStep(r) # << >>
  <2>1. Answered(r, "tool_use", PlannedStep(r), << >>)
    BY <1>3 DEF DemoModel
  <2> QED
    BY <1>1, <1>3, <2>1, PlannedFacts, AnsweredKeeps
<1> QED
  BY <1>2, <1>3

LEMMA AdapterAnswersKeeps ==
  ASSUME TurnInv, NEW r \in Run, AdapterAnswers(r)
  PROVE  TurnInv'
<1>1. provider # "demo" /\ MayAsk(r)
  BY DEF AdapterAnswers
<1>2. << >> \in Seq(Ask) /\ Turn \subseteq Seq(Ask)
  BY RunAssumption
<1>3. CASE \E asks \in Turn : \E reason \in StopReason :
        Answered(r, reason, asks, << >>)
  BY <1>1, <1>2, <1>3, AnsweredKeeps
<1>4. CASE \E reason \in StopReason \ {"tool_use"} : Answered(r, reason, << >>, << >>)
  BY <1>1, <1>2, <1>4, AnsweredKeeps
<1> QED
  BY <1>3, <1>4 DEF AdapterAnswers

\* ModelFails, BudgetExhausted, Reject: the run ends without an answer.
LEMMA EndsUnansweredKeep ==
  ASSUME TurnInv, NEW r \in Run, ModelFails(r) \/ BudgetExhausted(r) \/ Reject(r)
  PROVE  TurnInv'
<1>1. {"failed", "defect", "cancelled"} \subseteq Verdict
  BY DEF Verdict
<1>2. CASE ModelFails(r)
  <2>1. PICK how \in {"failed", "defect"} : Failed(r, how)
    BY <1>2 DEF ModelFails
  <2> QED
    BY <1>1, <1>2, <2>1, EndKeeps DEF ModelFails, MayAsk, Failed
<1>3. CASE BudgetExhausted(r)
  BY <1>1, <1>3, EndKeeps DEF BudgetExhausted
<1>4. CASE Reject(r)
  BY <1>1, <1>4, EndKeeps DEF Reject
<1> QED
  BY <1>2, <1>3, <1>4

----------------------------------------------------------------------------
(* The invariant.                                                          *)

LEMMA InitTurns == Init => TurnInv
<1> SUFFICES ASSUME Init PROVE TurnInv
  OBVIOUS
<1>1. /\ work = [c \in CallId |-> Unused] /\ ledger = NewLedger
      /\ server = {} /\ performed = {} /\ released = {}
      /\ provider \in {"demo", "anthropic"} /\ goal \in [Run -> Goal]
      /\ stage = [r \in Run |-> "model"] /\ steps = [r \in Run |-> 0]
      /\ stop = [r \in Run |-> << >>] /\ verdict = [r \in Run |-> None]
      /\ summary = [r \in Run |-> << >>]
  BY DEF Init, InitRegistry
<1>2. /\ Unused.ask = None /\ Unused.state = "none" /\ Unused.outcome = None
      /\ Unused = [ask |-> None, state |-> "none", outcome |-> None, content |-> None]
  BY DEF Unused
<1>3. \A c \in CallId : work[c] = Unused
  BY <1>1
<1>4. IsCall(Unused)
  BY <1>2 DEF IsCall
<1>5. IsLedger(ledger)
  BY <1>1 DEF IsLedger, NewLedger
<1>6. \A i \in Invoice : ~Paid(ledger, i)
  BY <1>1 DEF Paid, NewLedger
<1>7. None \notin Verdict /\ MaxSteps \in [{"demo", "anthropic"} -> Nat]
  BY RunAssumption
<1>8. << >> \in Seq(StopReason) /\ Len(<< >>) = 0
  OBVIOUS
<1>9. TypeOK
  BY <1>1, <1>2, <1>3, <1>7, <1>8 DEF TypeOK
<1>10. Shape
  BY <1>1, <1>3, <1>4, <1>5, <1>8 DEF Shape
<1>11. \A r \in Run : InTurn(r) /\ Concluded(r)
  <2>1. None # "answer"
    BY <1>7 DEF Verdict
  <2> QED
    BY <1>1, <1>8, <2>1 DEF InTurn, Concluded
<1>12. \A c \in CallId : Placed(c) /\ Told(c)
  <2>1. None # "ok"
    BY NoneIsNoCall DEF Ending
  <2> QED
    BY <1>1, <1>2, <1>3, <2>1 DEF Placed, Told
<1>13. \A i \in Invoice : Accounted(i)
  BY <1>6 DEF Accounted
<1>14. PaysWhatLookupReported
  BY <1>2, <1>3 DEF PaysWhatLookupReported
<1> QED
  BY <1>9, <1>10, <1>11, <1>12, <1>13, <1>14 DEF TurnInv

LEMMA NextTurns == TurnInv /\ [Next]_vars => TurnInv'
<1> SUFFICES ASSUME TurnInv, [Next]_vars PROVE TurnInv'
  OBVIOUS
<1>1. ASSUME NEW r \in Run, Work(r)
      PROVE  TurnInv'
  <2>1. CASE DemoModel(r)
    BY <2>1, DemoModelKeeps
  <2>2. CASE AdapterAnswers(r)
    BY <2>2, AdapterAnswersKeeps
  <2>3. CASE ModelFails(r) \/ BudgetExhausted(r)
    BY <2>3, EndsUnansweredKeep
  <2>4. CASE HandBack(r)
    BY <2>4, HandBackKeeps
  <2>5. CASE \E c \in TurnCalls(r, steps[r]) : Execute(c) /\ UNCHANGED loopVars
    BY <2>5, ExecuteKeeps DEF TurnCalls
  <2> QED
    BY <1>1, <2>1, <2>2, <2>3, <2>4, <2>5 DEF Work
<1>2. ASSUME NEW r \in Run, Approve(r) \/ Reject(r)
      PROVE  TurnInv'
  BY <1>2, ApproveKeeps, EndsUnansweredKeep
<1>3. ASSUME NEW c \in CallId, ServerActs(c) \/ RemoteReply(c), UNCHANGED loopVars
      PROVE  TurnInv'
  BY <1>3, ExecuteKeeps
<1>4. CASE UNCHANGED vars
  <2>1. /\ UNCHANGED <<work, ledger, server, performed>>
        /\ UNCHANGED <<provider, goal, stage, steps, stop, released, verdict, summary>>
    BY <1>4 DEF vars, registryVars, loopVars
  <2>2. TypeOK' /\ Shape' /\ PaysWhatLookupReported'
    BY <2>1 DEF TurnInv, TypeOK, Shape, PaysWhatLookupReported
  <2>3. \A r \in Run : InTurn(r)' /\ Concluded(r)'
    BY <2>1 DEF TurnInv, InTurn, Concluded, IsError
  <2>4. \A c \in CallId : Placed(c)' /\ Told(c)'
    BY <2>1 DEF TurnInv, Placed, Told, HasEffect
  <2>5. \A i \in Invoice : Accounted(i)'
    BY <2>1 DEF TurnInv, Accounted
  <2> QED
    BY <2>2, <2>3, <2>4, <2>5 DEF TurnInv
<1> QED
  BY <1>1, <1>2, <1>3, <1>4 DEF Next

\* What the steps of tools/registry.py and of the loop of agent/runner.py preserve
\* together, for any number of runs, calls and servers' answers.
THEOREM TurnInvariant == Spec => []TurnInv
<1> QED
  BY InitTurns, NextTurns, PTL DEF Spec

----------------------------------------------------------------------------
(* What follows from it.                                                   *)

\* Every variable holds what the code can put there (tools/registry.py,
\* agent/runner.py).
THEOREM TurnTypes == Spec => []TypeOK
<1>1. TurnInv => TypeOK
  BY DEF TurnInv
<1> QED
  BY <1>1, TurnInvariant, PTL

\* However many runs race for an invoice, the payment on record was released for that
\* invoice and for exactly its amount (agent/runner.py, _drive; demo/data.py,
\* Ledger.pay).
THEOREM MoneyMovesAsApproved == Spec => []PaidAsApproved
<1>1. TurnInv => PaidAsApproved
  <2> SUFFICES ASSUME TurnInv, NEW i \in Invoice, Paid(ledger, i)
               PROVE  LET payment == ledger.payments[i] IN
                      /\ NeedsApproval(work[payment.by].ask) => payment.by \in released
                      /\ work[payment.by].ask = Asking("pay_invoice", i, AmountOf[i])[1]
                      /\ payment.amount = AmountOf[i]
    BY DEF PaidAsApproved
  <2>1. ledger.payments[i].by \in CallId
    BY DEF TurnInv, Shape, IsLedger, Paid, Payment
  <2>2. work[ledger.payments[i].by].state = "answered"
    BY DEF TurnInv, Accounted
  <2>3. NeedsApproval(work[ledger.payments[i].by].ask) => ledger.payments[i].by \in released
    BY <2>1, <2>2 DEF TurnInv, Placed
  <2> QED
    BY <2>3 DEF TurnInv, Accounted
<1> QED
  BY <1>1, TurnInvariant, PTL

\* What a tool of this program reports as done has been done, what it or the registry
\* refuses never will be, however the calls of the runs are interleaved and whatever
\* an MCP server answers for its own; and no result shows a defect
\* (tools/registry.py, execute; demo/data.py, Ledger; mcp/tools.py, handler).
THEOREM ResultsTellTheTruth == Spec => []ResultsAreTrue
<1>1. TurnInv => ResultsAreTrue
  BY DEF TurnInv, Told, ResultsAreTrue
<1> QED
  BY <1>1, TurnInvariant, PTL

\* No call of a turn that was cut short is executed, or shown to an approver
\* (agent/runner.py, _drive; llm/models.py, Completion).
THEOREM HalfWrittenCallsStay == Spec => []HalfWrittenNeverRuns
<1>1. TurnInv => HalfWrittenNeverRuns
  BY DEF TurnInv, Shape, IsCall, Placed, HalfWrittenNeverRuns
<1> QED
  BY <1>1, TurnInvariant, PTL

\* The demo never asks for a payment that a lookup of the same run has not reported
\* (demo/provider.py, _settle_invoice_payment).
THEOREM PaymentsAreLookedUp == Spec => []PaysWhatLookupReported
<1>1. TurnInv => PaysWhatLookupReported
  BY DEF TurnInv
<1> QED
  BY <1>1, TurnInvariant, PTL

\* The demo's summary claims a payment exactly when this run made the one on record
\* (demo/provider.py, _summarise; demo/data.py, Ledger.pay).
THEOREM SummaryTellsTheTruth == Spec => []SummaryIsTrue
<1>1. TurnInv => SummaryIsTrue
  <2> SUFFICES ASSUME TurnInv, NEW r \in Run, provider = "demo", verdict[r] = "answer",
                      NEW i \in Invoice
               PROVE  (\E k \in DOMAIN summary[r] :
                         /\ summary[r][k].ok
                         /\ work[summary[r][k].call].ask.tool = "pay_invoice"
                         /\ work[summary[r][k].call].ask.args.invoice = i)
                      <=> (Paid(ledger, i) /\ RunOf(ledger.payments[i].by) = r)
    BY DEF SummaryIsTrue
  <2>1. summary[r] = [k \in 1..Len(stop[r]) |-> [call |-> <<r, k, 1>>, ok |-> ~IsError(<<r, k, 1>>)]]
    BY DEF TurnInv, Concluded
  <2>2. Len(stop[r]) \in Nat /\ Len(stop[r]) <= MaxTurns
    BY RunAssumption, RegistryAssumption DEF TurnInv, Shape, InTurn
  <2>3. ASSUME NEW k \in DOMAIN summary[r], summary[r][k].ok,
               work[summary[r][k].call].ask.tool = "pay_invoice",
               work[summary[r][k].call].ask.args.invoice = i
        PROVE  Paid(ledger, i) /\ RunOf(ledger.payments[i].by) = r
    <3>1. PICK c : c = <<r, k, 1>>
      OBVIOUS
    <3>2. k \in 1..Len(stop[r]) /\ summary[r][k].call = c /\ summary[r][k].ok = ~IsError(c)
      BY <2>1, <3>1
    <3>3. c \in CallId /\ RunOf(c) = r
      BY <2>2, <3>1, <3>2, RunAssumption, RegistryAssumption DEF CallId, RunOf
    <3>4. work[c].outcome = "ok"
      BY <2>3, <3>2 DEF IsError
    <3> QED
      BY <2>3, <3>2, <3>3, <3>4 DEF TurnInv, Told
  <2>4. ASSUME Paid(ledger, i), RunOf(ledger.payments[i].by) = r
        PROVE  \E k \in DOMAIN summary[r] :
                 /\ summary[r][k].ok
                 /\ work[summary[r][k].call].ask.tool = "pay_invoice"
                 /\ work[summary[r][k].call].ask.args.invoice = i
    <3>1. PICK c : c = ledger.payments[i].by
      OBVIOUS
    <3>2. c \in CallId /\ RunOf(c) = r
      BY <2>4, <3>1 DEF TurnInv, Shape, IsLedger, Paid, Payment
    <3>3. /\ work[c].state = "answered" /\ work[c].outcome = "ok"
          /\ work[c].ask.tool = "pay_invoice" /\ work[c].ask.args.invoice = i
      <4>1. /\ work[c].state = "answered" /\ work[c].outcome = "ok"
            /\ work[c].ask = Asking("pay_invoice", i, AmountOf[i])[1]
        BY <2>4, <3>1 DEF TurnInv, Accounted
      <4>2. Asking("pay_invoice", i, AmountOf[i])[1]
              = [tool |-> "pay_invoice", args |-> [invoice |-> i, amount |-> AmountOf[i]]]
        BY DEF Asking
      <4> QED
        BY <4>1, <4>2
    <3>4. c[3] = 1 /\ TurnOf(c) <= Len(stop[r])
      BY <3>2, <3>3 DEF TurnInv, Placed
    <3>5. c = <<r, TurnOf(c), 1>> /\ TurnOf(c) \in 1..Len(stop[r])
      BY <2>2, <3>2, <3>4, CallFacts
    <3>6. summary[r][TurnOf(c)] = [call |-> c, ok |-> ~IsError(c)]
      BY <2>1, <3>5
    <3>7. ~IsError(c) /\ TurnOf(c) \in DOMAIN summary[r]
      BY <2>1, <3>3, <3>5 DEF IsError
    <3>8. summary[r][TurnOf(c)].ok /\ summary[r][TurnOf(c)].call = c
      <4>1. summary[r][TurnOf(c)].ok = ~IsError(c) /\ summary[r][TurnOf(c)].call = c
        BY <3>6
      <4> QED
        BY <3>7, <4>1, Zenon
    <3> QED
      BY <3>3, <3>7, <3>8
  <2> QED
    BY <2>3, <2>4
<1> QED
  BY <1>1, TurnInvariant, PTL
=============================================================================
