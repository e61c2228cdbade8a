--------------------------- MODULE MCRemoteGather ---------------------------
(***************************************************************************)
(* RemoteGather for TLC: two requests on one cluster, one of which is to   *)
(* be anonymized.                                                          *)
(***************************************************************************)
EXTENDS RemoteGather
CONSTANTS t1, t2
OneAnonymized == {t1}
=============================================================================
