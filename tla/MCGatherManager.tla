-------------------------- MODULE MCGatherManager --------------------------
(* Small instances of GatherManager for TLC.                               *)
EXTENDS GatherManager, TLC

(* A tolerant gather that is anonymized, and an etcd backup.               *)
TwoRequests == {<<"multi", TRUE>>, <<"etcd-backup", FALSE>>}

(* Every kind of request.                                                  *)
AllRequests == AllTypes \X BOOLEAN

Symmetry == Permutations(Gathers)
=============================================================================
