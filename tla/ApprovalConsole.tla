-------------------------- MODULE ApprovalConsole --------------------------
(***************************************************************************)
(* AgentPlatform together with the people who approve.  An approver works  *)
(* from GET /tasks/{id}/approval, and is as careful as it can be: it posts *)
(* an approval only if what it has looked at is, at that moment, still the *)
(* pause the task is in.                                                   *)
(***************************************************************************)
EXTENDS AgentPlatform

VARIABLE seen    \* the versions of each task an approver was shown the held calls of

consoleVars == <<vars, seen>>

ConsoleInit ==
  /\ Init
  /\ seen = [s \in Approvers |-> [t \in Task |-> {}]]

\* get_approval: 409 unless the task is paused, the held calls otherwise.
GetApproval(t, subject) ==
  /\ store[t] # None
  /\ store[t].status = "awaiting_approval"
  /\ seen' = [seen EXCEPT ![subject][t] = @ \cup {store[t].version}]
  /\ UNCHANGED vars

Posts ==
  \/ \E t \in Task, s \in Subject : CreateTask(t, s)
  \/ \E h \in Handler, t \in Task :
       \/ RunTask(h, t)
       \/ \E s \in Subject : RejectTask(h, t, s) \/ CancelTask(h, t, s)
       \/ \E s \in Approvers :
            /\ store[t] # None
            /\ store[t].version \in seen[s][t]
            /\ ApproveTask(h, t, s)

ConsoleNext ==
  \/ \E t \in Task, s \in Approvers : GetApproval(t, s)
  \/ /\ Posts \/ (\E h \in Handler : Work(h)) \/ Failures
     /\ UNCHANGED seen

ConsoleSpec == ConsoleInit /\ [][ConsoleNext]_consoleVars

\* An approval takes effect on the version its approver read: what runs is what
\* was looked at (docs/ARCHITECTURE.md: "Resuming re-checks the version the
\* approver read").
ApprovedWhatWasSeen ==
  \A t \in Task : store[t] # None =>
    \A version \in DOMAIN store[t].history :
      LET entry == store[t].history[version] IN
      entry.reason = "approved" => version \in seen[entry.by][t]
=============================================================================
