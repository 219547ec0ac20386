------------------------------ MODULE ToolTurns ------------------------------
(***************************************************************************)
(* Runs that share a tool registry, from the model's answers to the        *)
(* effects of the tools: what a model sees, what it asks for on the        *)
(* strength of it, what an approver releases and what then happens to the  *)
(* ledger.                                                                 *)
(*                                                                         *)
(* The model is the scripted one of the demo (demo/provider.py), which     *)
(* reads the results of its calls, or whatever is behind the Anthropic     *)
(* adapter (llm/anthropic_provider.py), which asks for anything.  The loop *)
(* is the one of AgentPlatform (agent/runner.py), without the store.       *)
(***************************************************************************)
EXTENDS ToolRegistry, FiniteSetsExt

CONSTANTS AutoApproveUpTo,   \* the risk a run may take without a human
          MaxSteps,          \* model calls per run, by provider
          Turn               \* bound: the turns the model behind the adapter takes

VARIABLES
  provider,    \* EAP_LLM_PROVIDER
  goal,        \* what each run is about
  stage,       \* where each run stands
  steps,       \* its model calls so far
  stop,        \* why the model stopped before each turn, for the properties
  released,    \* the calls an approver has released
  verdict,     \* how each run ended
  summary      \* what the demo model said it had done

loopVars == <<provider, goal, stage, steps, stop, released, verdict, summary>>
vars == <<registryVars, loopVars>>

Goal == [scenario : {"settle_invoice"}, invoice : Invoice \cup {Nobody}]
        \cup [scenario : {"overdue_review", "none"}, invoice : {None}]

StopReason == {"end_turn", "max_tokens", "stop_sequence", "refusal", "tool_use"}

\* How a run ends: with an answer, failed, cancelled, or by an exception.
Verdict == {"answer", "failed", "cancelled", "defect"}

\* The bounds leave room for the turns of the demo, which takes no more than two.
ASSUME RunAssumption ==
  /\ AutoApproveUpTo \in Nat
  /\ MaxSteps \in [{"demo", "anthropic"} -> Nat]
  /\ 2 <= MaxTurns /\ 1 <= Width
  /\ Turn \subseteq Seq(Ask) \ {<< >>}
  /\ None \notin Verdict

Init ==
  /\ InitRegistry
  /\ provider \in {"demo", "anthropic"}
  /\ goal \in [Run -> Goal]
  /\ provider = "anthropic" => \A r \in Run : goal[r].scenario = "none"
  /\ stage    = [r \in Run |-> "model"]
  /\ steps    = [r \in Run |-> 0]
  /\ stop     = [r \in Run |-> << >>]
  /\ released = {}
  /\ verdict  = [r \in Run |-> None]
  /\ summary  = [r \in Run |-> << >>]

----------------------------------------------------------------------------
(* What a run does with the model's answer.                                *)

TurnCalls(r, k) == {c \in CallId : RunOf(c) = r /\ TurnOf(c) = k /\ work[c].ask # None}

NeedsApproval(ask) == ask.tool \in Registered /\ RiskOf(ask.tool) > AutoApproveUpTo

End(r, how, said) ==
  /\ stage'   = [stage EXCEPT ![r] = "ended"]
  /\ verdict' = [verdict EXCEPT ![r] = how]
  /\ summary' = [summary EXCEPT ![r] = said]
  /\ UNCHANGED <<work, stop>>

\* A turn of calls is executed, or held as a whole.
Request(r, reason, asks) ==
  LET held == \E n \in DOMAIN asks : NeedsApproval(asks[n]) IN
  /\ work' = [c \in CallId |->
       IF RunOf(c) = r /\ TurnOf(c) = steps[r] + 1 /\ c[3] \in DOMAIN asks
         THEN [work[c] EXCEPT !.ask = asks[c[3]], !.state = IF held THEN "held" ELSE "called"]
         ELSE work[c]]
  /\ stage' = [stage EXCEPT ![r] = IF held THEN "held" ELSE "tools"]
  /\ stop'  = [stop EXCEPT ![r] = Append(@, reason)]
  /\ UNCHANGED <<verdict, summary>>

\* _conclude: an answer, unless it was cut short or refused.
Conclusion(reason) == IF reason \in {"max_tokens", "refusal"} THEN "failed" ELSE "answer"

\* -- variant: whatever carries tool calls is executed
Proceed_OnCalls(r, reason, asks, said) ==
  IF asks # << >> THEN Request(r, reason, asks) ELSE End(r, Conclusion(reason), said)

\* Only a turn that stopped in order to use tools is executed (_drive).
Proceed(r, reason, asks, said) ==
  IF reason = "tool_use" THEN Request(r, reason, asks) ELSE End(r, Conclusion(reason), said)

\* -- variant: one model call too many
MayAsk_OffByOne(r) == stage[r] = "model" /\ steps[r] <= MaxSteps[provider]

MayAsk(r) == stage[r] = "model" /\ steps[r] < MaxSteps[provider]

Answered(r, reason, asks, said) ==
  /\ steps' = [steps EXCEPT ![r] = @ + 1]
  /\ Proceed(r, reason, asks, said)
  /\ UNCHANGED <<ledger, server, performed, provider, goal, released>>

Failed(r, how) ==
  /\ steps' = [steps EXCEPT ![r] = @ + 1]
  /\ End(r, how, << >>)
  /\ UNCHANGED <<ledger, server, performed, provider, goal, released>>

BudgetExhausted(r) ==
  /\ stage[r] = "model"
  /\ steps[r] = MaxSteps[provider]
  /\ End(r, "failed", << >>)
  /\ UNCHANGED <<ledger, server, performed, provider, goal, steps, released>>

----------------------------------------------------------------------------
(* The scripted model of the demo.                                         *)

\* _tool_outcomes: the calls of the conversation that have a result, in order.
\* The demo asks for one call per turn.
Outcomes(r) == [k \in 1..steps[r] |-> <<r, k, 1>>]

Succeeded(c, tool) == work[c].ask.tool = tool /\ ~IsError(c)

\* What a result says, read as JSON: nothing, if it was cut.
Payload(c) == IF work[c].content.says = "cut" THEN None ELSE work[c].content

\* _latest_payload: what the last successful call of a tool returned, None if
\* there is none or it cannot be read.
LatestPayload(r, tool) ==
  LET found == {k \in DOMAIN Outcomes(r) : Succeeded(Outcomes(r)[k], tool)} IN
  IF found = {} THEN None ELSE Payload(Outcomes(r)[Max(found)])

Asking(tool, invoice, amount) == <<[tool |-> tool, args |-> [invoice |-> invoice, amount |-> amount]]>>

SettleLookup(r) == Asking("lookup_invoice", goal[r].invoice, 0)

\* -- variant: when the lookup could not be read, the goal has to do
SettlePayment_FromGoal(r) == Asking("pay_invoice", goal[r].invoice, 0)

\* _settle_invoice_payment: pays what the lookup established, or nothing.
SettlePayment(r) ==
  LET invoice == LatestPayload(r, "lookup_invoice") IN
  IF invoice = None THEN << >>
  ELSE Asking("pay_invoice", invoice.about, invoice.amount)

OverdueReview == Asking("list_overdue_invoices", Nobody, 0)

OverdueNote(r) ==
  LET listing == LatestPayload(r, "list_overdue_invoices") IN
  IF listing = None \/ listing.about = None THEN << >>
  ELSE Asking("add_invoice_note", listing.about, 0)

\* The step a scenario has planned for this turn; none after its last.
PlannedStep(r) ==
  CASE goal[r].scenario = "settle_invoice" /\ steps[r] = 0 -> SettleLookup(r)
    [] goal[r].scenario = "settle_invoice" /\ steps[r] = 1 -> SettlePayment(r)
    [] goal[r].scenario = "overdue_review" /\ steps[r] = 0 -> OverdueReview
    [] goal[r].scenario = "overdue_review" /\ steps[r] = 1 -> OverdueNote(r)
    [] OTHER -> << >>

\* _summarise: every call, and whether it failed.
Summarise(r) ==
  [k \in DOMAIN Outcomes(r) |-> [call |-> Outcomes(r)[k], ok |-> ~IsError(Outcomes(r)[k])]]

DemoModel(r) ==
  /\ provider = "demo"
  /\ MayAsk(r)
  /\ LET asks == PlannedStep(r) IN
     IF asks = << >> THEN Answered(r, "end_turn", << >>, Summarise(r))
     ELSE Answered(r, "tool_use", asks, << >>)

----------------------------------------------------------------------------
(* The model behind the Anthropic adapter, and its failures.               *)

\* The deadline of LLMClient, and all that the SDK raises, are LLMErrors, and so
\* are a message with a stop reason nobody knows and arguments that are no
\* object.  A message without the calls it stopped for, or with an id used
\* twice, is refused by Completion, with an error outside the taxonomy.
ModelFails(r) ==
  /\ provider = "anthropic"
  /\ MayAsk(r)
  /\ \E how \in {"failed", "defect"} : Failed(r, how)

\* A message carries calls whatever it stopped for; without any, it stopped for
\* something else than to use tools.
AdapterAnswers(r) ==
  /\ provider = "anthropic"
  /\ MayAsk(r)
  /\ \/ \E asks \in Turn : \E reason \in StopReason : Answered(r, reason, asks, << >>)
     \/ \E reason \in StopReason \ {"tool_use"} : Answered(r, reason, << >>, << >>)

----------------------------------------------------------------------------
(* Approvers, and the turn's results.                                      *)

Approve(r) ==
  /\ stage[r] = "held"
  /\ released' = released \cup TurnCalls(r, steps[r])
  /\ work' = [c \in CallId |->
       IF c \in TurnCalls(r, steps[r]) THEN [work[c] EXCEPT !.state = "called"] ELSE work[c]]
  /\ stage' = [stage EXCEPT ![r] = "tools"]
  /\ UNCHANGED <<ledger, server, performed, provider, goal, steps, stop, verdict, summary>>

Reject(r) ==
  /\ stage[r] = "held"
  /\ End(r, "cancelled", << >>)
  /\ UNCHANGED <<ledger, server, performed, provider, goal, steps, released>>

\* execute_all returns when the last of its calls has ended.
HandBack(r) ==
  /\ stage[r] = "tools"
  /\ \A c \in TurnCalls(r, steps[r]) : work[c].state = "answered"
  /\ stage' = [stage EXCEPT ![r] = "model"]
  /\ UNCHANGED <<registryVars, provider, goal, steps, stop, released, verdict, summary>>

Work(r) ==
  \/ DemoModel(r) \/ ModelFails(r) \/ AdapterAnswers(r)
  \/ BudgetExhausted(r) \/ HandBack(r)
  \/ \E c \in TurnCalls(r, steps[r]) : Execute(c) /\ UNCHANGED loopVars

Next ==
  \/ \E r \in Run : Work(r) \/ Approve(r) \/ Reject(r)
  \/ \E c \in CallId : (ServerActs(c) \/ RemoteReply(c)) /\ UNCHANGED loopVars

Spec == Init /\ [][Next]_vars

\* Every await of a run ends: model and tool calls have deadlines (llm/client.py,
\* tools/registry.py).  Nothing is asked of approvers or of the MCP server.
FairSpec == Spec /\ \A r \in Run : WF_vars(Work(r))

----------------------------------------------------------------------------
(* Properties.                                                             *)

\* Every variable holds what the code can put there (tools/registry.py,
\* agent/runner.py).
TypeOK ==
  /\ \A c \in CallId :
       /\ work[c].ask \in Ask \cup {None}
       /\ work[c].state \in {"none", "held", "called", "sent", "answered"}
       /\ (work[c].outcome = None) = (work[c].state # "answered")
  /\ server \subseteq CallId /\ performed \subseteq CallId /\ released \subseteq CallId
  /\ provider \in DOMAIN MaxSteps /\ goal \in [Run -> Goal]
  /\ stage \in [Run -> {"model", "held", "tools", "ended"}]
  /\ \A r \in Run : /\ steps[r] \in 0..MaxSteps[provider] /\ Len(stop[r]) <= steps[r]
                    /\ (stage[r] = "ended") = (verdict[r] \in Verdict)

\* Money moves only as an approver has released it, where payments are gated: for
\* that invoice and for exactly its amount (agent/runner.py, _drive; demo/data.py,
\* Ledger.pay).
PaidAsApproved ==
  \A i \in Invoice : Paid(ledger, i) =>
    LET payment == ledger.payments[i] IN
    /\ NeedsApproval(work[payment.by].ask) => payment.by \in released
    /\ work[payment.by].ask = Asking("pay_invoice", i, AmountOf[i])[1]
    /\ payment.amount = AmountOf[i]

\* The tools of this program that change something.
HasEffect(c) == work[c].ask.tool \in {"add_invoice_note", "pay_invoice"}

\* A result tells the model the truth as far as this program knows it: what a tool
\* of its own reports as done has happened, what it or the registry refuses has not
\* and never will, here or on a server.  What a server says of its own tools is
\* passed on and may be wrong, and a deadline or a defect leaves everything open;
\* but of a defect the model learns nothing: the text of an unexpected exception
\* reaches neither the model nor a conversation that is stored (tools/registry.py,
\* execute; demo/data.py, Ledger; mcp/tools.py, handler).
ResultsAreTrue ==
  \A c \in CallId : work[c].state = "answered" =>
    /\ work[c].outcome = "ok" /\ HasEffect(c) => c \in performed
    /\ work[c].outcome = "tool_error" /\ work[c].ask.tool \in Tool => c \notin performed
    /\ work[c].outcome \in {"invalid_arguments", "unknown_tool"} => c \notin performed \cup server
    /\ work[c].content.says # "internal"

\* Calls of a turn that was cut short, and so may be half written, or that did not
\* stop to use tools, are never executed or shown to an approver (llm/models.py,
\* Completion).
HalfWrittenNeverRuns ==
  \A c \in CallId : work[c].ask # None => stop[RunOf(c)][TurnOf(c)] = "tool_use"

\* The demo pays only what a lookup of the same run has reported, so never an
\* amount nobody established (demo/provider.py, _settle_invoice_payment).
PaysWhatLookupReported ==
  provider = "demo" =>
    \A c \in CallId : work[c].ask # None /\ work[c].ask.tool = "pay_invoice" =>
      \E d \in CallId :
        /\ RunOf(d) = RunOf(c) /\ TurnOf(d) < TurnOf(c)
        /\ work[d].outcome = "ok" /\ work[d].content.says = "invoice"
        /\ work[d].content.about = work[c].ask.args.invoice
        /\ work[d].content.amount = work[c].ask.args.amount

\* The summary claims a payment if and only if this run made it and the record of
\* it stands, even when another approved run pays the same invoice
\* (demo/provider.py, _summarise; demo/data.py, Ledger.pay).
SummaryIsTrue ==
  \A r \in Run : provider = "demo" /\ verdict[r] = "answer" =>
    \A i \in Invoice :
      (\E k \in DOMAIN summary[r] : summary[r][k].ok /\ work[summary[r][k].call].ask.tool = "pay_invoice"
                                    /\ work[summary[r][k].call].ask.args.invoice = i)
      <=> (Paid(ledger, i) /\ RunOf(ledger.payments[i].by) = r)

\* A run ends or waits for an approver, even if the MCP server never answers
\* (tools/registry.py, execute; llm/client.py, complete).
RunsSettle == \A r \in Run : stage[r] \in {"model", "tools"} ~> stage[r] \in {"held", "ended"}
=============================================================================
