----------------------------- MODULE TaskStore -----------------------------
(***************************************************************************)
(* What a task store promises to those who write (tasks/repository.py,     *)
(* TaskRepository): a write takes effect at most once, at one point, and   *)
(* only on the version its author read; a write that was refused never     *)
(* takes effect; of one that failed otherwise nothing is known, now or     *)
(* later.                                                                  *)
(***************************************************************************)
EXTENDS Naturals

CONSTANTS TaskId, Caller, NoTask, NoWrite

VARIABLES tasks,     \* what is stored
          write,     \* what each caller asked to be stored, and over which version
          verdict,   \* what it was told
          landed     \* the callers whose write has taken effect

vars == <<tasks, write, verdict, landed>>

\* A task that is not there has version 0, so that adding one is a write like
\* any other.
VersionOf(id) == IF tasks[id] = NoTask THEN 0 ELSE tasks[id].version

Init ==
  /\ write   = [c \in Caller |-> NoWrite]
  /\ verdict = [c \in Caller |-> "none"]
  /\ landed  = {}

Submit(c) ==
  /\ verdict[c] = "none"
  /\ \E told \in {"open", "unknown"} : verdict' = [verdict EXCEPT ![c] = told]
  /\ \A other \in Caller \ {c} : write'[other] = write[other]
  /\ write'[c].expected <= VersionOf(write'[c].id)
  /\ write'[c].task.version = write'[c].expected + 1
  /\ UNCHANGED <<tasks, landed>>

Land(c) ==
  /\ verdict[c] \in {"open", "unknown"}
  /\ c \notin landed
  /\ VersionOf(write[c].id) = write[c].expected
  /\ tasks' = [tasks EXCEPT ![write[c].id] = write[c].task]
  /\ landed' = landed \cup {c}
  /\ UNCHANGED <<write, verdict>>

Conclude(c) ==
  /\ verdict[c] = "open"
  /\ \/ verdict' = [verdict EXCEPT ![c] = "ok"] /\ c \in landed
     \/ /\ verdict' = [verdict EXCEPT ![c] = "refused"]
        /\ c \notin landed
        /\ VersionOf(write[c].id) > write[c].expected
     \/ verdict' = [verdict EXCEPT ![c] = "unknown"]
  /\ UNCHANGED <<tasks, write, landed>>

Next == \E c \in Caller : Submit(c) \/ Land(c) \/ Conclude(c)

Spec == Init /\ [][Next]_vars
=============================================================================
