---------------------------- MODULE MCCollector ----------------------------
(***************************************************************************)
(* An instance of Collector: a gather next to an etcd backup on three      *)
(* nodes of which one is a master.  The requests cover each way a gather   *)
(* is started and each shape of definition.                                *)
(***************************************************************************)
EXTENDS Collector

NoOverlay == <<>>
Overlay(t) == t :> With(With(Nothing, "execs", <<"pod">>), "nodes", <<"masters">>)

Ask(mode, types, detected, overlays) ==
  [mode |-> mode, types |-> types, detected |-> detected, overlays |-> overlays,
   named |-> FALSE, resources |-> {}, logs |-> FALSE]

MCRequests ==
  {Ask("hub", <<"default", "odf">>, {}, NoOverlay),
   Ask("agent", <<"all">>, {"gitops"}, NoOverlay),
   Ask("hub", <<"mine">>, {}, NoOverlay),
   Ask("agent", <<"virtualization", "default">>, {}, Overlay("virtualization")),
   Ask("standalone", <<"default", "gitops">>, {}, NoOverlay),
   [Ask("hub", <<"custom">>, {}, NoOverlay) EXCEPT
      !.named = TRUE, !.resources = {"pods"}, !.logs = TRUE],
   Ask("hub", <<"gitops", "gitops", "custom">>, {}, NoOverlay)}
=============================================================================
