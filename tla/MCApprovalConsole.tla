------------------------- MODULE MCApprovalConsole -------------------------
(***************************************************************************)
(* An instance of ApprovalConsole for TLC.                                 *)
(***************************************************************************)
EXTENDS ApprovalConsole, TLC

CONSTANTS lookup, pay    \* a call that only reads, and a critical one

MCRisk == (lookup :> 0) @@ (pay :> 2)

MCReplica == {"api"}
MCHome    == [h \in Handler |-> "api"]
=============================================================================
