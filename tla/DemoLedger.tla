----------------------------- MODULE DemoLedger -----------------------------
(***************************************************************************)
(* The demo tool set over its ledger (demo/data.py, demo/tools.py), as     *)
(* operators: what each handler does to the ledger, and what it hands      *)
(* back.  None of the handlers awaits anything, so each is one step.       *)
(*                                                                         *)
(* A text is a record: what kind of text it is, the invoice and the amount *)
(* it states, if it does, and its size.  Only the notes of an invoice make *)
(* a text grow.                                                            *)
(***************************************************************************)
EXTENDS Naturals, FiniteSets

CONSTANTS Invoice,     \* the invoices on record
          AmountOf,    \* what each of them is about
          DueOn,       \* when each is due
          Today,       \* AS_OF
          Nobody,      \* a well-formed id no invoice has
          None

ASSUME LedgerAssumption ==
  /\ IsFiniteSet(Invoice) /\ Invoice # {}
  /\ AmountOf \in [Invoice -> Nat]
  /\ DueOn \in [Invoice -> Nat]
  /\ Today \in Nat
  /\ Nobody \notin Invoice
  /\ None \notin Invoice \cup {Nobody}

Tool == {"lookup_invoice", "list_overdue_invoices", "add_invoice_note", "pay_invoice"}

\* RiskLevel, by rank.
Risk == [tool \in Tool |-> CASE tool = "pay_invoice"      -> 2
                             [] tool = "add_invoice_note" -> 1
                             [] OTHER                     -> 0]

\* What a handler returns, or the exception that leaves it.
Text(says, about, amount, size) ==
  [says |-> says, about |-> about, amount |-> amount, size |-> size]

Note(says) == Text(says, None, None, 0)

\* payments: who paid an invoice, and how much; notes: how many it has.
NewLedger == [payments |-> [i \in Invoice |-> None], notes |-> [i \in Invoice |-> 0]]

Paid(ledger, i) == ledger.payments[i] # None

IsOverdue(i) == DueOn[i] < Today

Overdue(ledger) == {i \in Invoice : IsOverdue(i) /\ ~Paid(ledger, i)}

\* The most overdue first; limit is never below one.
Worst(ledger) ==
  CHOOSE i \in Overdue(ledger) : \A other \in Overdue(ledger) : DueOn[i] <= DueOn[other]

Returned(ledger, text) == [ledger |-> ledger, raises |-> "nothing", text |-> text]

\* _reporting_to_the_model: a LedgerError becomes the one exception whose text
\* a model may read.
Refused(ledger) == [ledger |-> ledger, raises |-> "ToolExecutionError", text |-> Note("domain")]

LookupInvoice(ledger, i) ==
  IF i \notin Invoice THEN Refused(ledger)
  ELSE Returned(ledger, Text("invoice", i, AmountOf[i], ledger.notes[i]))

ListOverdueInvoices(ledger) ==
  Returned(ledger, IF Overdue(ledger) = {} THEN Note("listing")
                   ELSE Text("listing", Worst(ledger), None, 0))

AddInvoiceNote(ledger, i) ==
  IF i \notin Invoice THEN Refused(ledger)
  ELSE Returned([ledger EXCEPT !.notes[i] = @ + 1],
                Text("notes", i, None, ledger.notes[i] + 1))

\* -- variant: the record is made before the amount is looked at
Pay_RecordFirst(ledger, i, amount, by) ==
  LET paid == [ledger EXCEPT !.payments[i] = [by |-> by, amount |-> amount]] IN
  CASE i \notin Invoice       -> Refused(ledger)
    [] i \in Invoice /\ Paid(ledger, i) -> Refused(ledger)
    [] OTHER -> IF amount # AmountOf[i] THEN Refused(paid)
                ELSE Returned(paid, Text("payment", i, amount, 0))

\* -- variant: nobody looks whether the invoice was paid already
Pay_Again(ledger, i, amount, by) ==
  IF i \notin Invoice \/ amount # AmountOf[i] THEN Refused(ledger)
  ELSE Returned([ledger EXCEPT !.payments[i] = [by |-> by, amount |-> amount]],
                Text("payment", i, amount, 0))

\* Ledger.pay: an invoice on record, not paid yet, for exactly its amount.
Pay(ledger, i, amount, by) ==
  IF i \in Invoice /\ ~Paid(ledger, i) /\ amount = AmountOf[i]
    THEN Returned([ledger EXCEPT !.payments[i] = [by |-> by, amount |-> amount]],
                  Text("payment", i, amount, 0))
    ELSE Refused(ledger)

\* A handler, on arguments that have passed validation.
Handle(ledger, ask, by) ==
  CASE ask.tool = "lookup_invoice"        -> LookupInvoice(ledger, ask.args.invoice)
    [] ask.tool = "list_overdue_invoices" -> ListOverdueInvoices(ledger)
    [] ask.tool = "add_invoice_note"      -> AddInvoiceNote(ledger, ask.args.invoice)
    [] ask.tool = "pay_invoice"           -> Pay(ledger, ask.args.invoice, ask.args.amount, by)
=============================================================================
