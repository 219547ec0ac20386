----------------------------- MODULE MCToolTurns -----------------------------
(***************************************************************************)
(* An instance of ToolTurns for TLC: two runs, two overdue invoices.       *)
(***************************************************************************)
EXTENDS ToolTurns, TLC

CONSTANTS i1, i2

MCAmountOf == (i1 :> 5) @@ (i2 :> 7)
MCDueOn    == (i1 :> 1) @@ (i2 :> 2)
MCMaxSteps == [demo |-> 3, anthropic |-> 2]

Pays(invoice, amount) == Asking("pay_invoice", invoice, amount)[1]

Remote == [tool |-> "remote", args |-> [invoice |-> i1, amount |-> 5]]

\* A payment; one of the wrong amount next to a remote call; and a malformed call
\* next to one of no tool at all.
MCTurn ==
  {<<Pays(i1, 5)>>, <<Pays(i1, 7), Remote>>,
   <<[tool |-> "remote", args |-> None], [tool |-> "unknown", args |-> None]>>}
=============================================================================
