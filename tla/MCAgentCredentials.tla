------------------------- MODULE MCAgentCredentials -------------------------
(***************************************************************************)
(* Small instances of AgentCredentials for TLC.                            *)
(***************************************************************************)
EXTENDS AgentCredentials

CONSTANTS claude, cursor, c1, c2, d1

\* One product whose credential is replaced, and another beside it.
MCAgents == {claude, cursor}
MCCreds == {c1, c2, d1}
MCCredsOf == [a \in MCAgents |-> IF a = claude THEN {c1, c2} ELSE {d1}]
=============================================================================
