----------------------------- MODULE Collector -----------------------------
(***************************************************************************)
(* The collection engine (src/internal/collector): gathers that run one    *)
(* definition after the other, stage by stage, and etcd backups, with the  *)
(* privileged debug pods that both create on nodes.                        *)
(*                                                                         *)
(* A collector is the goroutine of one gather or of one backup.  Each call *)
(* of the API server is a step of its own and so is each command in a pod, *)
(* which may never end by itself.  A gather of the hub and a backup can be *)
(* stopped (their context is cancelled); the agent and the standalone mode *)
(* run with a context that is never cancelled.                             *)
(*                                                                         *)
(* The nodes of a group are counted, not named.  Pod names are distinct    *)
(* for two nodes or two milliseconds; one that is not is refused.          *)
(***************************************************************************)
EXTENDS GatherDefinitions

CONSTANTS
  Gathers,    \* collectors that run the engine on the definitions
  Backups,    \* collectors that back up etcd
  Requests,   \* what the gathers may be asked for
  Pods,       \* names of debug pods
  None,
  AllNodes,   \* how many nodes there are
  Masters,    \* how many of them are masters
  MaxLost     \* bound: calls of the API server whose effect is unknown

Collectors == Gathers \cup Backups

ASSUME CollectorAssumption ==
  /\ Gathers \cap Backups = {}
  /\ None \notin Pods
  /\ AllNodes \in Nat /\ Masters \in 0..AllNodes /\ MaxLost \in Nat

(* A gather has a type: an agent that is asked for none takes the default  *)
(* one.  Only the operators that the hub, the agent or the standalone mode *)
(* looks for are detected, and each has a definition.  A ConfigMap that    *)
(* does not parse is not among the overlays.                               *)
ASSUME RequestsAssumption ==
  \A r \in Requests :
    /\ r.mode \in {"hub", "agent", "standalone"}
    /\ r.types \in Seq(STRING) \ {<<>>}
    /\ r.named \in BOOLEAN
    /\ r.detected \subseteq Operators
    /\ \A t \in DOMAIN r.overlays : r.overlays[t]["nodes"] \in Seq(Selectors)

VARIABLES
  at,        \* where each collector is
  stopped,   \* whether its context is cancelled
  holds,     \* the debug pod each collector has to delete
  phase,     \* phase of each debug pod, "none" when there is none
  lost,      \* debug pods whose creation or deletion was not answered
  request,   \* what each gather is asked for
  work,      \* where each gather is in its runs
  result,    \* what each gather has collected and reported
  cephTools, \* whether the StorageCluster has been patched to run the tools
  backup     \* what the archive of each backup holds

podVars == <<holds, phase, lost>>
gatherVars == <<request, work, result, cephTools>>
vars == <<at, stopped, podVars, gatherVars, backup>>

Ends == {"complete", "failed", "stopped"}
Over(c) == at[c] \in Ends

-----------------------------------------------------------------------------
(* Debug pods on the API server and on the nodes *)

(* createDebugPod: the pod is created and the answer arrives; it is        *)
(* created, but the call fails; or nothing is created.                     *)
Unused == {p \in Pods : phase[p] = "none"}
NewPod == CHOOSE p \in Unused : TRUE

Created(c) ==
  /\ Unused # {}
  /\ phase' = [phase EXCEPT ![NewPod] = "Pending"]
  /\ holds' = [holds EXCEPT ![c] = NewPod]
  /\ UNCHANGED lost

NotCreated ==
  \/ UNCHANGED podVars
  \/ /\ Unused # {} /\ Cardinality(lost) < MaxLost
     /\ phase' = [phase EXCEPT ![NewPod] = "Pending"]
     /\ lost' = lost \cup {NewPod}
     /\ UNCHANGED holds

(* deletePod ignores the answer.  A pod whose deletion was accepted is     *)
(* gone: nobody looks at it any more.                                      *)
deletePod(c) ==
  /\ holds' = [holds EXCEPT ![c] = None]
  /\ \/ /\ phase' = [phase EXCEPT ![holds[c]] = "none"]
        /\ UNCHANGED lost
     \/ /\ Cardinality(lost) < MaxLost
        /\ lost' = lost \cup {holds[c]}
        /\ UNCHANGED phase

(* The kubelet starts the pod.  It ends when it cannot start, when its     *)
(* "sleep 600" is over or when somebody evicts it.  A lost pod goes on,    *)
(* too, but no collector sees it.                                          *)
PodStarts(p) ==
  /\ phase[p] = "Pending" /\ p \notin lost
  /\ phase' = [phase EXCEPT ![p] = "Running"]
  /\ UNCHANGED <<at, stopped, holds, lost, gatherVars, backup>>

PodEnds(p) ==
  /\ phase[p] \in {"Pending", "Running"} /\ p \notin lost
  /\ phase' = [phase EXCEPT ![p] = "Ended"]
  /\ UNCHANGED <<at, stopped, holds, lost, gatherVars, backup>>

PodRuns(c) == phase[holds[c]] = "Running"

-----------------------------------------------------------------------------
(* Runs of a gather *)

Stoppable(c) == c \in Gathers => request[c].mode = "hub"

(* A run writes its errors to gather-errors.log in its directory: one for  *)
(* all runs of a gather, but for the hub, where each type of several has   *)
(* one.  Nobody keeps a type from being named twice.                       *)
Several(g) == Len(request[g].types) > 1
Shared(g) == request[g].mode # "hub"
SameDirectory(g, i, j) == Shared(g) \/ request[g].types[i] = request[g].types[j]

NoWork == [run |-> 1, plan |-> <<>>, stage |-> 1, todo |-> <<>>, nodes |-> 0, commands |-> 0,
           failed |-> FALSE]

(* collected: the definitions that were gone through; failing: the runs in *)
(* which something failed; reported: the runs whose errors can be read;    *)
(* unwritten: those whose errors could not be written; lines: lines of the *)
(* log of one pod of an openshift-* namespace, which has more of them than *)
(* any spec asks for.                                                      *)
NoResult == [collected |-> <<>>, failing |-> {}, reported |-> {}, unwritten |-> {}, lines |-> 0]

Type(g) == request[g].types[work[g].run]

(* Namespaces are passed on only with "custom" alone; among several types  *)
(* it is a type like the others, which only a ConfigMap defines.           *)
Chosen(g) == request[g].types = <<"custom">> /\ request[g].named

Plans(g) ==
  IF Chosen(g) THEN {<<"custom">>}
  ELSE loadDefinitions(Type(g), request[g].detected,
         SkipsDefault(request[g].mode, request[g].types, work[g].run), request[g].overlays)

Definition(g, name) ==
  IF Chosen(g) THEN buildCustomDefinition(request[g].resources, request[g].logs)
  ELSE getDefinition(name, request[g].overlays)

Goto(c, label) == at' = [at EXCEPT ![c] = label]
NextRun(g) == work' = [work EXCEPT ![g] = [NoWork EXCEPT !.run = work[g].run + 1]]
Fails(g) == result' = [result EXCEPT ![g].failing = @ \cup {work[g].run}]

EndGather(g) ==
  /\ at[g] = "load" /\ work[g].run > Len(request[g].types)
  /\ Goto(g, "complete")
  /\ UNCHANGED <<stopped, podVars, gatherVars, backup>>

(* The hub looks before each run whether the gather is stopped, the engine *)
(* before each definition; the hub then gives up.                          *)
GiveUp(g) ==
  /\ stopped[g]
  /\ \/ at[g] = "load" /\ work[g].run <= Len(request[g].types)
     \/ at[g] = "definition" /\ work[g].plan # <<>>
  /\ Goto(g, "stopped")
  /\ UNCHANGED <<stopped, podVars, gatherVars, backup>>

Load(g) ==
  /\ at[g] = "load" /\ work[g].run <= Len(request[g].types) /\ ~stopped[g]
  /\ \E plan \in Plans(g) \ {<<>>} : work' = [work EXCEPT ![g].plan = plan]
  /\ Goto(g, "definition")
  /\ UNCHANGED <<stopped, podVars, request, result, cephTools, backup>>

(* Without a definition a run fails.  The next one follows, unless it was  *)
(* the only one: the standalone mode has no error to set.                  *)
RunFails(g) ==
  /\ at[g] = "load" /\ work[g].run <= Len(request[g].types) /\ ~stopped[g]
  /\ Plans(g) \subseteq {<<>>}
  /\ IF Several(g) \/ request[g].mode = "standalone"
     THEN NextRun(g) /\ UNCHANGED at
     ELSE Goto(g, "failed") /\ UNCHANGED work
  /\ UNCHANGED <<stopped, podVars, request, result, cephTools, backup>>

StartDefinition(g) ==
  /\ at[g] = "definition" /\ work[g].plan # <<>> /\ ~stopped[g]
  /\ work' = [work EXCEPT ![g].stage = 1,
                          ![g].todo = Definition(g, Head(work[g].plan))["cluster"]]
  /\ Goto(g, "stage")
  /\ UNCHANGED <<stopped, podVars, request, result, cephTools, backup>>

(* appendErrorLog writes the whole file, over the errors of an earlier run *)
(* in that directory.  Nobody looks whether it could be written; if not,   *)
(* the earlier errors may be gone all the same.                            *)
appendErrorLog(g) ==
  LET run == work[g].run
      others == {i \in result[g].reported : ~SameDirectory(g, i, run)}
  IN  IF work[g].failed
      THEN \/ result' = [result EXCEPT ![g].reported = others \cup {run}]
           \/ \E kept \in {others, result[g].reported} :
                result' = [result EXCEPT ![g].reported = kept, ![g].unwritten = @ \cup {run}]
      ELSE UNCHANGED result

EndRun(g) ==
  /\ at[g] = "definition" /\ work[g].plan = <<>>
  /\ appendErrorLog(g)
  /\ NextRun(g)
  /\ Goto(g, "load")
  /\ UNCHANGED <<stopped, podVars, request, cephTools, backup>>

-----------------------------------------------------------------------------
(* Stages of a definition *)

(* Node commands with one selector share a debug pod.  The order of the    *)
(* groups is that of a Go map.                                             *)
Count(selector) == IF selector = "masters" THEN Masters ELSE AllNodes
Groups(specs) ==
  {[i \in DOMAIN order |->
      [nodes |-> Count(order[i]),
       commands |-> Len(SelectSeq(specs, LAMBDA s : s = order[i]))]] :
     order \in SetToSeqs(Range(specs))}

Todo(stage, specs) == IF stage = "nodes" THEN Groups(specs) ELSE {specs}

(* The errors of the stage that ends replace those of the earlier ones.    *)
NextStageForgetting(g) ==
  /\ at[g] = "stage" /\ work[g].todo = <<>> /\ work[g].stage < Len(Stages)
  /\ \E todo \in Todo(Stages[work[g].stage + 1],
                     Definition(g, Head(work[g].plan))[Stages[work[g].stage + 1]]) :
       work' = [work EXCEPT ![g].stage = @ + 1, ![g].todo = todo, ![g].failed = FALSE]
  /\ UNCHANGED <<at, stopped, podVars, request, result, cephTools, backup>>

NextStage(g) ==
  LET next == Stages[work[g].stage + 1]
      specs == Definition(g, Head(work[g].plan))[next]
  IN  /\ at[g] = "stage" /\ work[g].todo = <<>> /\ work[g].stage < Len(Stages)
      /\ \E todo \in Todo(next, specs) :
           work' = [work EXCEPT ![g].stage = @ + 1, ![g].todo = todo]
      /\ IF next = "execs" /\ "tools" \in Range(specs) THEN Goto(g, "tools") ELSE UNCHANGED at
      /\ UNCHANGED <<stopped, podVars, request, result, cephTools, backup>>

EndDefinition(g) ==
  /\ at[g] = "stage" /\ work[g].todo = <<>> /\ work[g].stage = Len(Stages)
  /\ result' = [result EXCEPT ![g].collected = Append(@, Head(work[g].plan))]
  /\ work' = [work EXCEPT ![g].plan = Tail(@)]
  /\ Goto(g, "definition")
  /\ UNCHANGED <<stopped, podVars, request, cephTools, backup>>

InTodo(g) == at[g] = "stage" /\ work[g].todo # <<>> /\ ~stopped[g]
InStage(g, stages) == Stages[work[g].stage] \in stages
Passed(g) == work' = [work EXCEPT ![g].todo = Tail(@)] /\ UNCHANGED result
PassedFailing(g) ==
  work' = [work EXCEPT ![g].todo = Tail(@), ![g].failed = TRUE] /\ Fails(g)

(* Each stage leaves its rest when it finds the context cancelled.         *)
LeaveStage(g) ==
  /\ at[g] = "stage" /\ work[g].todo # <<>> /\ stopped[g]
  /\ work' = [work EXCEPT ![g].todo = <<>>, ![g].failed = TRUE]
  /\ Fails(g)
  /\ UNCHANGED <<at, stopped, podVars, request, cephTools, backup>>

(* Resources and logs are listed and written, or do not exist.  Resources  *)
(* without namespaces are never listed: no namespace is resolved for them. *)
Collect(g) ==
  LET spec == Head(work[g].todo) IN
  /\ InTodo(g) /\ InStage(g, {"cluster", "namespaced", "logs"})
  /\ work' = [work EXCEPT ![g].todo = Tail(@)]
  /\ IF InStage(g, {"logs"}) /\ spec.wildcard
     THEN result' = [result EXCEPT ![g].lines = spec.lines]
     ELSE UNCHANGED result
  /\ UNCHANGED <<at, stopped, podVars, request, cephTools, backup>>

CollectFails(g) ==
  /\ InTodo(g) /\ InStage(g, {"cluster", "namespaced", "logs"})
  /\ InStage(g, {"namespaced"}) => Head(work[g].todo) # "unnamed"
  /\ PassedFailing(g)
  /\ UNCHANGED <<at, stopped, podVars, request, cephTools, backup>>

(* The tools run already, or the StorageCluster is patched and the gather  *)
(* waits for them: until they run, for two minutes, or until it is         *)
(* stopped.  Nobody takes the patch back.                                  *)
ensureCephTools(g) ==
  /\ at[g] = "tools"
  /\ \/ Goto(g, "stage") /\ UNCHANGED cephTools
     \/ Goto(g, "tools wait") /\ cephTools' = TRUE
  /\ UNCHANGED <<stopped, podVars, request, work, result, backup>>

CephToolsWaitEnds(g) ==
  /\ at[g] = "tools wait"
  /\ Goto(g, "stage")
  /\ UNCHANGED <<stopped, podVars, gatherVars, backup>>

(* No pod matches: nothing to do.  The pods cannot be listed: an error.    *)
SkipExec(g) ==
  /\ InTodo(g) /\ InStage(g, {"execs"})
  /\ Passed(g) \/ PassedFailing(g)
  /\ UNCHANGED <<at, stopped, podVars, request, cephTools, backup>>

StartExec(g) ==
  /\ InTodo(g) /\ InStage(g, {"execs"})
  /\ Goto(g, "exec")
  /\ UNCHANGED <<stopped, podVars, gatherVars, backup>>

ExecEnds(g) ==
  /\ at[g] = "exec"
  /\ Passed(g) \/ PassedFailing(g)
  /\ Goto(g, "stage")
  /\ UNCHANGED <<stopped, podVars, request, cephTools, backup>>

(* Commands that are not bound to the context.                             *)
ExecNotCancelled(g) ==
  at[g] = "exec" /\ stopped[g] /\ UNCHANGED vars

(* Commands are bound to the context.                                      *)
ExecCancelled(g) ==
  /\ at[g] = "exec" /\ stopped[g]
  /\ PassedFailing(g)
  /\ Goto(g, "stage")
  /\ UNCHANGED <<stopped, podVars, request, cephTools, backup>>

-----------------------------------------------------------------------------
(* Commands on nodes *)

ListNodes(g) ==
  /\ InTodo(g) /\ InStage(g, {"nodes"})
  /\ work' = [work EXCEPT ![g].nodes = Head(work[g].todo).nodes]
  /\ Goto(g, "nodes")
  /\ UNCHANGED <<stopped, podVars, request, result, cephTools, backup>>

ListNodesFails(g) ==
  /\ InTodo(g) /\ InStage(g, {"nodes"})
  /\ PassedFailing(g)
  /\ UNCHANGED <<at, stopped, podVars, request, cephTools, backup>>

NextNode(g, failed) ==
  /\ work' = [work EXCEPT ![g].nodes = @ - 1, ![g].failed = @ \/ failed]
  /\ IF failed THEN Fails(g) ELSE UNCHANGED result
  /\ Goto(g, "nodes")

(* A stopped gather leaves the stage from within a group.                  *)
LeaveNodes(g) ==
  /\ work' = [work EXCEPT ![g].todo = <<>>, ![g].nodes = 0, ![g].commands = 0, ![g].failed = TRUE]
  /\ Fails(g)
  /\ Goto(g, "stage")

EndGroup(g) ==
  /\ at[g] = "nodes"
  /\ \/ work[g].nodes = 0 /\ Passed(g) /\ Goto(g, "stage")
     \/ work[g].nodes > 0 /\ stopped[g] /\ LeaveNodes(g)
  /\ UNCHANGED <<stopped, podVars, request, cephTools, backup>>

(* The loop over the nodes ends one node too late.                         *)
CreateOnOneMore(g) ==
  /\ at[g] = "nodes" /\ ~stopped[g]
  /\ NotCreated /\ NextNode(g, TRUE)
  /\ UNCHANGED <<stopped, request, cephTools, backup>>

CreateOnNode(g) ==
  /\ at[g] = "nodes" /\ work[g].nodes > 0 /\ ~stopped[g]
  /\ \/ Created(g) /\ Goto(g, "wait") /\ UNCHANGED <<work, result>>
     \/ NotCreated /\ NextNode(g, TRUE)
  /\ UNCHANGED <<stopped, request, cephTools, backup>>

(* waitForPod sees the pod run; or it has ended, two minutes are over or   *)
(* the gather is stopped.                                                  *)
NodeReady(g) ==
  /\ at[g] = "wait" /\ PodRuns(g)
  /\ work' = [work EXCEPT ![g].commands = Head(work[g].todo).commands]
  /\ Goto(g, "commands")
  /\ UNCHANGED <<stopped, podVars, request, result, cephTools, backup>>

NodeNotReady(g) ==
  /\ at[g] = "wait"
  /\ deletePod(g)
  /\ NextNode(g, TRUE)
  /\ UNCHANGED <<stopped, request, cephTools, backup>>

StartCommand(g) ==
  /\ at[g] = "commands" /\ work[g].commands > 0 /\ ~stopped[g]
  /\ Goto(g, "command")
  /\ UNCHANGED <<stopped, podVars, gatherVars, backup>>

CommandDone(g, failed) ==
  /\ work' = [work EXCEPT ![g].commands = @ - 1, ![g].failed = @ \/ failed]
  /\ IF failed THEN Fails(g) ELSE UNCHANGED result
  /\ Goto(g, "commands")

(* Without its pod a command fails.                                        *)
CommandEnds(g) ==
  /\ at[g] = "command"
  /\ (PodRuns(g) /\ CommandDone(g, FALSE)) \/ CommandDone(g, TRUE)
  /\ UNCHANGED <<stopped, podVars, request, cephTools, backup>>

CommandCancelled(g) ==
  /\ at[g] = "command" /\ stopped[g]
  /\ CommandDone(g, TRUE)
  /\ UNCHANGED <<stopped, podVars, request, cephTools, backup>>

(* A stopped gather leaves without deleting the pod.                       *)
LeaveNodeForgetting(g) ==
  /\ at[g] = "commands"
  /\ \/ work[g].commands = 0 /\ deletePod(g) /\ NextNode(g, FALSE)
     \/ work[g].commands > 0 /\ stopped[g] /\ LeaveNodes(g) /\ UNCHANGED podVars
  /\ UNCHANGED <<stopped, request, cephTools, backup>>

LeaveNode(g) ==
  /\ at[g] = "commands"
  /\ deletePod(g)
  /\ \/ work[g].commands = 0 /\ NextNode(g, FALSE)
     \/ work[g].commands > 0 /\ stopped[g] /\ LeaveNodes(g)
  /\ UNCHANGED <<stopped, request, cephTools, backup>>

-----------------------------------------------------------------------------
(* Etcd backups *)

findMasterNode(b) ==
  /\ at[b] = "find"
  /\ (Masters > 0 /\ Goto(b, "create")) \/ Goto(b, "failed")
  /\ UNCHANGED <<stopped, podVars, gatherVars, backup>>

CreateOnMaster(b) ==
  /\ at[b] = "create"
  /\ \/ Created(b) /\ Goto(b, "wait")
     \/ NotCreated /\ Goto(b, "failed")
  /\ UNCHANGED <<stopped, gatherVars, backup>>

(* Every return from here on deletes the pod.                              *)
BackupFails(b) ==
  /\ deletePod(b)
  /\ Goto(b, "failed")

MasterReady(b) ==
  /\ at[b] = "wait" /\ PodRuns(b)
  /\ Goto(b, "script")
  /\ UNCHANGED <<stopped, podVars, gatherVars, backup>>

MasterNotReady(b) ==
  /\ at[b] = "wait"
  /\ BackupFails(b)
  /\ UNCHANGED <<stopped, gatherVars, backup>>

(* The script ends with the result of "ls", whatever cluster-backup.sh     *)
(* did, and prints its directory.                                          *)
ScriptEnds(b) ==
  /\ at[b] = "script" /\ PodRuns(b)
  /\ Goto(b, "copy")
  /\ UNCHANGED <<stopped, podVars, gatherVars, backup>>

(* The script fails, the archive cannot be read or written.  The directory *)
(* stays on the node.                                                      *)
ScriptFails(b) ==
  /\ at[b] = "script"
  /\ BackupFails(b)
  /\ UNCHANGED <<stopped, gatherVars, backup>>

(* The archive holds what is in the directory.                             *)
CopyEnds(b) ==
  /\ at[b] = "copy" /\ PodRuns(b)
  /\ \E snapshot \in {"complete", "partial"} : backup' = [backup EXCEPT ![b] = snapshot]
  /\ Goto(b, "cleanup")
  /\ UNCHANGED <<stopped, podVars, gatherVars>>

CopyFails(b) ==
  /\ at[b] = "copy"
  /\ BackupFails(b)
  /\ UNCHANGED <<stopped, gatherVars, backup>>

(* Nobody looks at the result of the clean-up of the directory.            *)
CleanUpEnds(b) ==
  /\ at[b] = "cleanup"
  /\ deletePod(b)
  /\ Goto(b, "complete")
  /\ UNCHANGED <<stopped, gatherVars, backup>>

BackupCancelled(b) ==
  /\ at[b] \in {"script", "copy", "cleanup"} /\ stopped[b]
  /\ deletePod(b)
  /\ Goto(b, IF at[b] = "cleanup" THEN "complete" ELSE "failed")
  /\ UNCHANGED <<stopped, gatherVars, backup>>

-----------------------------------------------------------------------------
(* The specification *)

Stop(c) ==
  /\ Stoppable(c) /\ ~Over(c) /\ ~stopped[c]
  /\ stopped' = [stopped EXCEPT ![c] = TRUE]
  /\ UNCHANGED <<at, podVars, gatherVars, backup>>

Init ==
  /\ at = [c \in Collectors |-> IF c \in Gathers THEN "load" ELSE "find"]
  /\ stopped = [c \in Collectors |-> FALSE]
  /\ holds = [c \in Collectors |-> None]
  /\ phase = [p \in Pods |-> "none"]
  /\ lost = {}
  /\ request \in [Gathers -> Requests]
  /\ work = [g \in Gathers |-> NoWork]
  /\ result = [g \in Gathers |-> NoResult]
  /\ cephTools = FALSE
  /\ backup = [b \in Backups |-> "none"]

(* Steps that end by themselves: a call of the API server has 30 seconds,  *)
(* a wait for a pod two minutes, a cancelled command ends.                 *)
RunStep(g) ==
  EndGather(g) \/ GiveUp(g) \/ Load(g) \/ RunFails(g) \/ StartDefinition(g) \/ EndRun(g)
StageStep(g) ==
  \/ NextStage(g) \/ EndDefinition(g) \/ LeaveStage(g) \/ Collect(g) \/ CollectFails(g)
  \/ ensureCephTools(g) \/ CephToolsWaitEnds(g)
  \/ SkipExec(g) \/ StartExec(g) \/ ExecCancelled(g)
NodeStep(g) ==
  \/ ListNodes(g) \/ ListNodesFails(g) \/ EndGroup(g) \/ CreateOnNode(g)
  \/ NodeReady(g) \/ NodeNotReady(g) \/ StartCommand(g) \/ CommandCancelled(g) \/ LeaveNode(g)
GatherStep(g) == RunStep(g) \/ StageStep(g) \/ NodeStep(g)

BackupStep(b) ==
  \/ findMasterNode(b) \/ CreateOnMaster(b) \/ MasterReady(b) \/ MasterNotReady(b)
  \/ BackupCancelled(b)

(* Commands that end by themselves, and perhaps never do.                  *)
GatherCommand(g) == ExecEnds(g) \/ CommandEnds(g)
BackupCommand(b) ==
  ScriptEnds(b) \/ ScriptFails(b) \/ CopyEnds(b) \/ CopyFails(b) \/ CleanUpEnds(b)

Next ==
  \/ \E g \in Gathers : GatherStep(g) \/ GatherCommand(g)
  \/ \E b \in Backups : BackupStep(b) \/ BackupCommand(b)
  \/ \E c \in Collectors : Stop(c)
  \/ \E p \in Pods : PodStarts(p) \/ PodEnds(p)

Spec == Init /\ [][Next]_vars

FairSpec ==
  /\ Spec
  /\ \A g \in Gathers : WF_vars(GatherStep(g))
  /\ \A b \in Backups : WF_vars(BackupStep(b))

-----------------------------------------------------------------------------
(* Properties *)

Labels ==
  {"load", "definition", "stage", "tools", "tools wait", "exec", "nodes", "commands", "command",
   "find", "create", "wait", "script", "copy", "cleanup"} \cup Ends

(* Every variable has its type.                                            *)
TypeOK ==
  /\ at \in [Collectors -> Labels]
  /\ stopped \in [Collectors -> BOOLEAN]
  /\ holds \in [Collectors -> Pods \cup {None}]
  /\ phase \in [Pods -> {"none", "Pending", "Running", "Ended"}]
  /\ lost \subseteq Pods
  /\ request \in [Gathers -> Requests]
  /\ \A g \in Gathers :
       /\ work[g].run \in 1..(Len(request[g].types) + 1)
       /\ work[g].stage \in DOMAIN Stages
       /\ work[g].nodes \in 0..AllNodes
       /\ work[g].failed \in BOOLEAN
       /\ result[g].failing \subseteq DOMAIN request[g].types
       /\ result[g].reported \subseteq DOMAIN request[g].types
       /\ result[g].unwritten \subseteq DOMAIN request[g].types
  /\ cephTools \in BOOLEAN
  /\ backup \in [Backups -> {"none", "complete", "partial"}]

(* A privileged debug pod is there only as long as a collector works on    *)
(* its node: whichever way a gather or a backup leaves a node, it has      *)
(* deleted the pod there, unless the API server did not answer.            *)
Privileged == {p \in Pods : phase[p] # "none"}
PodsAreDeleted ==
  \A p \in Privileged \ lost :
    \E c \in Collectors : holds[c] = p /\ at[c] \in
      {"wait", "commands", "command", "script", "copy", "cleanup"}

(* What could not be collected is not lost among what could: when a run in *)
(* which something failed has returned, the errors of all its stages can   *)
(* be read, unless they could not be written or a later such run has       *)
(* written to the same directory.                                          *)
FailuresAreReported ==
  \A g \in Gathers :
    LET returned == {run \in result[g].failing : run < work[g].run} IN
    \A run \in returned :
      \/ run \in result[g].reported \cup result[g].unwritten
      \/ \E later \in returned : later > run /\ SameDirectory(g, run, later)

(* A complete gather that was asked for one type, or for several different *)
(* ones and the default one among them, has gone through the definition of *)
(* each type, and through the default one, exactly once.                   *)
Wanted(g) ==
  {"default"} \cup
  IF request[g].types = <<"all">> THEN {"audit"} \cup request[g].detected
  ELSE Range(request[g].types)

AsksForDefault(g) ==
  LET types == request[g].types IN
  /\ Len(types) > 1 => "default" \in Range(types) /\ "all" \notin Range(types)
  /\ IsInjective(types)
  /\ Range(types) \subseteq Defined(request[g].overlays) \cup {"all"}
  /\ "custom" \notin Range(types)

PlanIsCovered ==
  \A g \in Gathers : at[g] = "complete" /\ ~stopped[g] /\ AsksForDefault(g) =>
    /\ Range(result[g].collected) = Wanted(g)
    /\ Len(result[g].collected) = Cardinality(Wanted(g))

(* A gather or a backup that is stopped ends, though the command it runs   *)
(* in a pod would never end by itself.                                     *)
StopEnds == \A c \in Collectors : stopped[c] ~> Over(c)

(* config.go:209 asks for 5000 lines of the current log of each pod; a     *)
(* later fetch of the same run does not shorten what has been written.     *)
LogsNeverShrink ==
  [][\A g \in Gathers : result'[g].lines >= result[g].lines]_vars

(* engine.go:199: a backup that is complete is a backup of etcd.           *)
CompleteBackupIsSnapshot ==
  \A b \in Backups : at[b] = "complete" => backup[b] = "complete"

=============================================================================
