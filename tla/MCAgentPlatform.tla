-------------------------- MODULE MCAgentPlatform --------------------------
(***************************************************************************)
(* Instances of AgentPlatform and PlatformRefinement for TLC.              *)
(***************************************************************************)
EXTENDS PlatformRefinement, TLC

CONSTANTS lookup,    \* a call to a tool that only reads
          pay,       \* a call to a critical tool
          ghost,     \* a call to a tool nobody registered
          away       \* the handler served by the other API process

MCRisk == [call \in Call |-> CASE call = lookup -> 0
                               [] call = pay    -> 2
                               [] OTHER         -> None]

MCReplica == {"api1", "api2"}
MCHome    == [h \in Handler |-> IF h = away THEN "api2" ELSE "api1"]

\* Handlers served by the same process are interchangeable.
Symmetry == Permutations(Handler \ {away})
=============================================================================
