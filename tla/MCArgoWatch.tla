---------------------------- MODULE MCArgoWatch ----------------------------
(***************************************************************************)
(* ArgoWatch for TLC.                                                      *)
(***************************************************************************)
EXTENDS ArgoWatch
CONSTANTS app
=============================================================================
