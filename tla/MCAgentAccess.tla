--------------------------- MODULE MCAgentAccess ---------------------------
(***************************************************************************)
(* AgentAccess for TLC.                                                    *)
(***************************************************************************)
EXTENDS AgentAccess
CONSTANTS h1, h2, c1
=============================================================================
