------------------------- MODULE GatherDefinitions -------------------------
(***************************************************************************)
(* What a gather collects (src/internal/collector/config.go): the table of *)
(* built-in definitions, the ConfigMaps that extend it, and the            *)
(* definitions that one run of the engine loads.                           *)
(*                                                                         *)
(* A definition is a function from the five stages to sequences of specs.  *)
(* A spec is what the engine treats differently: a list of namespaced      *)
(* resources names namespaces or does not, logs have a number of lines, a  *)
(* command runs in the ceph tools or in another pod, node commands have a  *)
(* selector.  One spec stands for all specs of a stage that are alike.     *)
(***************************************************************************)
EXTENDS Naturals, Sequences, SequencesExt

Stages == <<"cluster", "namespaced", "logs", "execs", "nodes">>
StageNames == Range(Stages)

Nothing == [s \in StageNames |-> <<>>]
With(definition, stage, specs) == [definition EXCEPT ![stage] = specs]

Cluster == With(Nothing, "cluster", <<"list">>)
Inspected == With(Cluster, "namespaced", <<"named">>)

(* Logs of the pods of some namespaces, or of those with a label; and      *)
(* those of all pods of all openshift-* namespaces.                        *)
Logs(lines) == [lines |-> lines, wildcard |-> FALSE]
AllLogs(lines) == [lines |-> lines, wildcard |-> TRUE]

-----------------------------------------------------------------------------
(* The table *)

(* The second log spec is for the previous logs, but collectPodLogs        *)
(* fetches the current ones for it, too.                                   *)
DefaultLogs == <<AllLogs(5000), AllLogs(2000)>>
DefaultExecs == <<"pod">>
(* Node commands run on all nodes or on the masters.                       *)
Selectors == {"all", "masters"}
DefaultNodes == <<"all", "masters", "all">>
Default ==
  With(With(With(Inspected, "logs", DefaultLogs), "execs", DefaultExecs), "nodes", DefaultNodes)

Audit == With(Nothing, "logs", <<Logs(50000)>>)

(* Virtual machines and the volume snapshots below have no namespaces.     *)
Virtualization ==
  With(With(With(With(Cluster,
    "namespaced", <<"unnamed">>),
    "logs", <<Logs(5000)>>),
    "execs", <<"pod">>),
    "nodes", <<"all">>)

Storage ==
  With(With(With(Cluster,
    "namespaced", <<"unnamed">>), "logs", <<Logs(5000)>>), "execs", <<"tools">>)

TwoLogs == <<Logs(5000), Logs(2000)>>
Acm == With(Inspected, "logs", TwoLogs)
Logging == With(Cluster, "execs", <<"pod">>)
ServiceMesh == With(With(Inspected, "logs", TwoLogs), "execs", <<"pod">>)
Serverless == With(Inspected, "logs", TwoLogs)
Mce == With(Inspected, "logs", TwoLogs)
Netobserv == With(Inspected, "logs", TwoLogs)

ComplianceToGitops == {"compliance", "mtc", "gitops"}
LocalStorageToLvms ==
  {"local-storage", "sandboxed", "nhc", "numa", "ptp", "secrets-store", "lvms"}
Operators ==
  {"virtualization", "odf", "acm", "logging", "service-mesh", "serverless", "mce", "netobserv"}
    \cup ComplianceToGitops \cup LocalStorageToLvms

builtinDefinitions ==
  [t \in Operators \cup {"default", "audit"} |->
     CASE t = "default" -> Default
       [] t = "audit" -> Audit
       [] t = "virtualization" -> Virtualization
       [] t = "odf" -> Storage
       [] t = "acm" -> Acm
       [] t = "logging" -> Logging
       [] t = "service-mesh" -> ServiceMesh
       [] t = "serverless" -> Serverless
       [] t = "mce" -> Mce
       [] t = "netobserv" -> Netobserv
       [] OTHER -> Cluster]

-----------------------------------------------------------------------------
(* Loading *)

mergeDefinitions(base, overlay) == [s \in StageNames |-> base[s] \o overlay[s]]

(* overlays: the ConfigMaps gather-<type> that can be read.  Whatever goes *)
(* wrong with one (no such ConfigMap, no permission, bad YAML) makes it    *)
(* one that is not there.                                                  *)
Defined(overlays) == DOMAIN builtinDefinitions \cup DOMAIN overlays

getDefinition(t, overlays) ==
  IF t \notin DOMAIN overlays THEN builtinDefinitions[t]
  ELSE IF t \in DOMAIN builtinDefinitions THEN mergeDefinitions(builtinDefinitions[t], overlays[t])
  ELSE overlays[t]

(* The types that one run may load, in their order, which Go leaves open   *)
(* for "all".  A type without a definition makes the run fail: no plan.    *)
Common(skipDefault) == IF skipDefault THEN <<>> ELSE <<"default">>

loadDefinitions(t, detected, skipDefault, overlays) ==
  IF t = "all"
  THEN {Common(skipDefault) \o found \o <<"audit">> : found \in SetToSeqs(detected \cap Operators)}
  ELSE IF t = "default" THEN {Common(skipDefault)}
  ELSE {Append(Common(skipDefault), name) : name \in {t} \cap Defined(overlays)}

(* A custom gather: the resource types that are known, five of them when   *)
(* there is none, in the namespaces that were chosen, and all their logs.  *)
Known == {"pods", "secrets"}
buildCustomDefinition(resources, logs) ==
  LET chosen == IF resources \cap Known = {} THEN {"pods"} ELSE resources \cap Known
      named == With(Nothing, "namespaced", [i \in 1..Cardinality(chosen) |-> "named"])
  IN  IF logs THEN With(named, "logs", <<Logs(0)>>) ELSE named

(* Of several types none loads the default definition.                     *)
SkipsDefaultAlways(mode, types, i) == Len(types) > 1

(* Who starts the runs of a request: the hub skips the default definition  *)
(* for every type but "default", the agent for every type but the first    *)
(* when "default" is among them, the standalone mode for every type but    *)
(* the first, which is "default".                                          *)
SkipsDefault(mode, types, i) ==
  CASE mode = "hub" -> Len(types) > 1 /\ types[i] # "default"
    [] mode = "agent" -> i > 1 /\ "default" \in Range(types)
    [] mode = "standalone" -> i > 1
=============================================================================
