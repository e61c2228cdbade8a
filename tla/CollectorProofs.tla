-------------------------- MODULE CollectorProofs --------------------------
(***************************************************************************)
(* Proofs about Collector: whatever the number of gathers, backups, nodes  *)
(* and lost calls, a debug pod is there only as long as its collector      *)
(* works in it, no two collectors work in one, what failed in a run that   *)
(* has returned can be read in its errors, and a complete gather has gone  *)
(* through every definition it was asked for once.                         *)
(*                                                                         *)
(* PodsAreDeleted is not inductive: that a pod is held must go with where  *)
(* its holder is, with its phase and with there being one holder only.     *)
(* FailuresAreReported lacks that the flag the engine keeps for the run at *)
(* hand, by which the errors are written, is what has failed in it.        *)
(* PlanIsCovered speaks of complete gathers; on the way there, what is     *)
(* collected and what the run still plans are together what the runs so    *)
(* far cover, each definition once.  This also makes TypeOK inductive.     *)
(***************************************************************************)
EXTENDS Collector, FiniteSetTheorems, TLAPS

(* Where a collector has a debug pod that it must delete.                  *)
Working == {"wait", "commands", "command", "script", "copy", "cleanup"}

PodTypes ==
  /\ at \in [Collectors -> Labels]
  /\ stopped \in [Collectors -> BOOLEAN]
  /\ holds \in [Collectors -> Pods \cup {None}]
  /\ phase \in [Pods -> {"none", "Pending", "Running", "Ended"}]
  /\ lost \subseteq Pods

HoldsWhenWorking ==
  \A c \in Collectors : at[c] \in Working <=> holds[c] # None

HeldIsThere ==
  \A c \in Collectors : holds[c] # None => phase[holds[c]] # "none" /\ holds[c] \notin lost

PodsAreNotShared ==
  \A c, d \in Collectors : c # d /\ holds[c] # None => holds[c] # holds[d]

LostIsThere == \A p \in lost : phase[p] # "none"

PodInv == PodTypes /\ HoldsWhenWorking /\ HeldIsThere /\ PodsAreNotShared /\ LostIsThere /\ PodsAreDeleted

-----------------------------------------------------------------------------
(* A collector moves and leaves the pods alone. *)
LEMMA Moves ==
  ASSUME PodInv, NEW c \in Collectors, NEW l \in Labels, at' = [at EXCEPT ![c] = l],
         l \in Working <=> at[c] \in Working, UNCHANGED <<stopped, podVars>>
  PROVE  PodInv'
BY DEF PodInv, PodTypes, HoldsWhenWorking, HeldIsThere, PodsAreNotShared, LostIsThere,
       PodsAreDeleted, Privileged, Working, podVars

LEMMA Stays ==
  ASSUME PodInv, UNCHANGED <<at, stopped, podVars>>
  PROVE  PodInv'
BY DEF PodInv, PodTypes, HoldsWhenWorking, HeldIsThere, PodsAreNotShared, LostIsThere,
       PodsAreDeleted, Privileged, podVars

(* A collector creates a pod and starts to work in it. *)
LEMMA Creates ==
  ASSUME PodInv, CollectorAssumption, NEW c \in Collectors, at[c] \notin Working, Created(c),
         at' = [at EXCEPT ![c] = "wait"], UNCHANGED stopped
  PROVE  PodInv'
<1> DEFINE p == NewPod
<1>1. p \in Pods /\ phase[p] = "none" /\ p # None
  BY DEF Created, NewPod, Unused, CollectorAssumption
<1>2. phase' = [phase EXCEPT ![p] = "Pending"] /\ holds' = [holds EXCEPT ![c] = p] /\ lost' = lost
  BY DEF Created
<1>3. p \notin lost /\ \A d \in Collectors : holds[d] # p
  BY <1>1 DEF PodInv, HeldIsThere, LostIsThere
<1> HIDE DEF p
<1>4. PodTypes' /\ HoldsWhenWorking'
  BY <1>1, <1>2 DEF PodInv, PodTypes, HoldsWhenWorking, Working, Labels
<1>5. HeldIsThere' /\ LostIsThere'
  BY <1>1, <1>2, <1>3 DEF PodInv, PodTypes, HeldIsThere, LostIsThere
<1>6. PodsAreNotShared'
  BY <1>1, <1>2, <1>3 DEF PodInv, PodTypes, PodsAreNotShared
<1>7. PodsAreDeleted'
  <2> SUFFICES ASSUME NEW q \in Privileged' \ lost'
               PROVE  \E d \in Collectors : holds'[d] = q /\ at'[d] \in Working
    BY DEF PodsAreDeleted, Working
  <2>1. CASE q = p
    BY <1>2, <2>1 DEF PodInv, PodTypes, Working
  <2>2. CASE q # p
    <3>1. PICK d \in Collectors : holds[d] = q /\ at[d] \in Working
      BY <1>1, <1>2, <2>2 DEF PodInv, PodTypes, PodsAreDeleted, Privileged, Working
    <3> QED BY <1>2, <3>1 DEF PodInv, PodTypes
  <2> QED BY <2>1, <2>2
<1> QED BY <1>4, <1>5, <1>6, <1>7 DEF PodInv

(* A creation fails, whether or not there is a pod now. *)
LEMMA CreatesNothing ==
  ASSUME PodInv, CollectorAssumption, NotCreated, NEW c \in Collectors, NEW l \in Labels \ Working,
         at[c] \notin Working, at' = [at EXCEPT ![c] = l], UNCHANGED stopped
  PROVE  PodInv'
<1>1. CASE UNCHANGED podVars
  BY <1>1, Moves
<1>2. CASE ~UNCHANGED podVars
  <2> DEFINE p == NewPod
  <2>1. /\ Unused # {} /\ phase' = [phase EXCEPT ![p] = "Pending"] /\ lost' = lost \cup {p}
        /\ UNCHANGED holds
    BY <1>2 DEF NotCreated
  <2>2. p \in Pods /\ phase[p] = "none"
    BY <2>1 DEF NewPod, Unused
  <2>3. \A d \in Collectors : holds[d] # None => holds[d] # p
    BY <2>2 DEF PodInv, HeldIsThere
  <2> HIDE DEF p
  <2>4. PodTypes' /\ HoldsWhenWorking'
    BY <2>1, <2>2 DEF PodInv, PodTypes, HoldsWhenWorking
  <2>5. HeldIsThere' /\ LostIsThere' /\ PodsAreNotShared'
    BY <2>1, <2>2, <2>3 DEF PodInv, PodTypes, HeldIsThere, LostIsThere, PodsAreNotShared
  <2>6. PodsAreDeleted'
    BY <2>1, <2>2 DEF PodInv, PodTypes, PodsAreDeleted, Privileged, Working
  <2> QED BY <2>4, <2>5, <2>6 DEF PodInv
<1> QED BY <1>1, <1>2

(* A collector deletes its pod and moves on. *)
LEMMA Deletes ==
  ASSUME PodInv, CollectorAssumption, NEW c \in Collectors, at[c] \in Working, deletePod(c),
         NEW l \in Labels \ Working, at' = [at EXCEPT ![c] = l], UNCHANGED stopped
  PROVE  PodInv'
<1> DEFINE p == holds[c]
<1>1. p \in Pods /\ p # None /\ phase[p] # "none"
  BY DEF PodInv, PodTypes, HoldsWhenWorking, HeldIsThere
<1>2. \A d \in Collectors : d # c => holds[d] # p
  BY <1>1 DEF PodInv, PodsAreNotShared
<1>3. /\ holds' = [holds EXCEPT ![c] = None]
      /\ \/ phase' = [phase EXCEPT ![p] = "none"] /\ lost' = lost
         \/ lost' = lost \cup {p} /\ phase' = phase
  BY DEF deletePod
<1>4. p \notin lost
  BY <1>1 DEF PodInv, HeldIsThere
<1>5. PodTypes' /\ HoldsWhenWorking'
  BY <1>1, <1>3 DEF PodInv, PodTypes, HoldsWhenWorking, p
<1>6. HeldIsThere' /\ LostIsThere' /\ PodsAreNotShared'
  <2>1. \A d \in Collectors : holds'[d] # None => d # c /\ holds'[d] = holds[d]
    BY <1>3 DEF PodInv, PodTypes
  <2> HIDE DEF p
  <2>2. HeldIsThere' /\ LostIsThere'
    BY <1>1, <1>2, <1>3, <1>4, <2>1 DEF PodInv, PodTypes, HeldIsThere, LostIsThere
  <2>3. PodsAreNotShared'
    BY <1>3, <2>1 DEF PodInv, PodTypes, PodsAreNotShared
  <2> QED BY <2>2, <2>3
<1>7. PodsAreDeleted'
  <2> SUFFICES ASSUME NEW q \in Privileged' \ lost'
               PROVE  \E d \in Collectors : holds'[d] = q /\ at'[d] \in Working
    BY DEF PodsAreDeleted, Working
  <2>1. q \in Privileged \ lost /\ q # p
    BY <1>1, <1>3 DEF PodInv, PodTypes, Privileged
  <2>2. PICK d \in Collectors : holds[d] = q /\ at[d] \in Working
    BY <2>1 DEF PodInv, PodsAreDeleted, Working
  <2>3. d # c
    BY <2>1, <2>2
  <2> QED BY <1>3, <2>2, <2>3 DEF PodInv, PodTypes
<1> QED BY <1>5, <1>6, <1>7 DEF PodInv

-----------------------------------------------------------------------------
(* The steps of a gather *)

LEMMA RunKeepsPods ==
  ASSUME PodInv, NEW g \in Gathers, RunStep(g)
  PROVE  PodInv'
<1> g \in Collectors
  BY DEF Collectors
<1>1. CASE EndGather(g)
  BY <1>1, Moves DEF EndGather, Goto, Working, Labels, Ends
<1>2. CASE GiveUp(g)
  BY <1>2, Moves DEF GiveUp, Goto, Working, Labels, Ends
<1>3. CASE Load(g)
  BY <1>3, Moves DEF Load, Goto, Working, Labels, Ends
<1>4. CASE StartDefinition(g)
  BY <1>4, Moves DEF StartDefinition, Goto, Working, Labels, Ends
<1>5. CASE EndRun(g)
  BY <1>5, Moves DEF EndRun, Goto, Working, Labels, Ends
<1>6. CASE RunFails(g)
  <2>1. CASE UNCHANGED at
    BY <1>6, <2>1, Stays DEF RunFails
  <2>2. CASE Goto(g, "failed")
    BY <1>6, <2>2, Moves DEF RunFails, Goto, Working, Labels, Ends
  <2> QED BY <1>6, <2>1, <2>2 DEF RunFails
<1> QED BY <1>1, <1>2, <1>3, <1>4, <1>5, <1>6 DEF RunStep

LEMMA StageKeepsPods ==
  ASSUME PodInv, NEW g \in Gathers, StageStep(g) \/ ExecEnds(g)
  PROVE  PodInv'
<1> g \in Collectors
  BY DEF Collectors
<1>1. CASE EndDefinition(g)
  BY <1>1, Moves DEF EndDefinition, Goto, InTodo, Working, Labels, Ends
<1>2. CASE CephToolsWaitEnds(g)
  BY <1>2, Moves DEF CephToolsWaitEnds, Goto, InTodo, Working, Labels, Ends
<1>3. CASE StartExec(g)
  BY <1>3, Moves DEF StartExec, Goto, InTodo, Working, Labels, Ends
<1>4. CASE ExecEnds(g)
  BY <1>4, Moves DEF ExecEnds, Goto, InTodo, Working, Labels, Ends
<1>5. CASE ExecCancelled(g)
  BY <1>5, Moves DEF ExecCancelled, Goto, InTodo, Working, Labels, Ends
<1>6. CASE ensureCephTools(g)
  BY <1>6, Moves DEF ensureCephTools, Goto, InTodo, Working, Labels, Ends
<1>7. CASE LeaveStage(g)
  BY <1>7, Stays DEF LeaveStage
<1>8. CASE Collect(g)
  BY <1>8, Stays DEF Collect
<1>9. CASE CollectFails(g)
  BY <1>9, Stays DEF CollectFails
<1>10. CASE SkipExec(g)
  BY <1>10, Stays DEF SkipExec
<1>11. CASE NextStage(g)
  <2>1. CASE UNCHANGED at
    BY <1>11, <2>1, Stays DEF NextStage
  <2>2. CASE Goto(g, "tools")
    BY <1>11, <2>2, Moves DEF NextStage, Goto, Working, Labels, Ends
  <2> QED BY <1>11, <2>1, <2>2 DEF NextStage
<1> QED BY <1>1, <1>2, <1>3, <1>4, <1>5, <1>6, <1>7, <1>8, <1>9, <1>10, <1>11 DEF StageStep

LEMMA NodesKeepPods ==
  ASSUME PodInv, CollectorAssumption, NEW g \in Gathers, NodeStep(g) \/ CommandEnds(g)
  PROVE  PodInv'
<1> g \in Collectors
  BY DEF Collectors
<1>1. CASE ListNodes(g)
  BY <1>1, Moves DEF ListNodes, InTodo, Goto, Working, Labels, Ends
<1>2. CASE NodeReady(g)
  BY <1>2, Moves DEF NodeReady, Goto, Working, Labels, Ends
<1>3. CASE StartCommand(g)
  BY <1>3, Moves DEF StartCommand, Goto, Working, Labels, Ends
<1>4. CASE CommandEnds(g)
  BY <1>4, Moves DEF CommandEnds, CommandDone, Goto, Working, Labels, Ends
<1>5. CASE CommandCancelled(g)
  BY <1>5, Moves DEF CommandCancelled, CommandDone, Goto, Working, Labels, Ends
<1>6. CASE EndGroup(g)
  BY <1>6, Moves DEF EndGroup, Passed, LeaveNodes, Goto, Working, Labels, Ends
<1>7. CASE ListNodesFails(g)
  BY <1>7, Stays DEF ListNodesFails
<1>8. CASE CreateOnNode(g)
  <2>1. CASE Created(g) /\ Goto(g, "wait")
    BY <1>8, <2>1, Creates DEF CreateOnNode, Goto, Working
  <2>2. CASE NotCreated /\ NextNode(g, TRUE)
    BY <1>8, <2>2, CreatesNothing DEF CreateOnNode, NextNode, Goto, Working, Labels
  <2> QED BY <1>8, <2>1, <2>2 DEF CreateOnNode
<1>9. CASE NodeNotReady(g)
  BY <1>9, Deletes DEF NodeNotReady, NextNode, LeaveNodes, Goto, Working, Labels
<1>10. CASE LeaveNode(g)
  BY <1>10, Deletes DEF LeaveNode, NextNode, LeaveNodes, Goto, Working, Labels
<1> QED BY <1>1, <1>2, <1>3, <1>4, <1>5, <1>6, <1>7, <1>8, <1>9, <1>10 DEF NodeStep

-----------------------------------------------------------------------------
(* The steps of a backup *)

LEMMA BackupKeepsPods ==
  ASSUME PodInv, CollectorAssumption, NEW b \in Backups, BackupStep(b) \/ BackupCommand(b)
  PROVE  PodInv'
<1> b \in Collectors
  BY DEF Collectors
<1>1. CASE findMasterNode(b)
  BY <1>1, Moves DEF findMasterNode, Goto, Working, Labels, Ends
<1>2. CASE MasterReady(b)
  BY <1>2, Moves DEF MasterReady, Goto, Working, Labels, Ends
<1>3. CASE ScriptEnds(b)
  BY <1>3, Moves DEF ScriptEnds, Goto, Working, Labels, Ends
<1>4. CASE CopyEnds(b)
  BY <1>4, Moves DEF CopyEnds, Goto, Working, Labels, Ends
<1>5. CASE CreateOnMaster(b)
  <2>1. CASE Created(b) /\ Goto(b, "wait")
    BY <1>5, <2>1, Creates DEF CreateOnMaster, Goto, Working
  <2>2. CASE NotCreated /\ Goto(b, "failed")
    BY <1>5, <2>2, CreatesNothing DEF CreateOnMaster, Goto, Working, Labels, Ends
  <2> QED BY <1>5, <2>1, <2>2 DEF CreateOnMaster
<1>6. CASE MasterNotReady(b)
  BY <1>6, Deletes DEF MasterNotReady, BackupFails, Goto, Working, Labels, Ends
<1>7. CASE ScriptFails(b)
  BY <1>7, Deletes DEF ScriptFails, BackupFails, Goto, Working, Labels, Ends
<1>8. CASE CopyFails(b)
  BY <1>8, Deletes DEF CopyFails, BackupFails, Goto, Working, Labels, Ends
<1>9. CASE CleanUpEnds(b)
  BY <1>9, Deletes DEF CleanUpEnds, BackupFails, Goto, Working, Labels, Ends
<1>10. CASE BackupCancelled(b)
  <2>1. CASE Goto(b, "complete")
    BY <1>10, <2>1, Deletes DEF BackupCancelled, Goto, Working, Labels, Ends
  <2>2. CASE Goto(b, "failed")
    BY <1>10, <2>2, Deletes DEF BackupCancelled, Goto, Working, Labels, Ends
  <2> QED BY <1>10, <2>1, <2>2 DEF BackupCancelled
<1> QED BY <1>1, <1>2, <1>3, <1>4, <1>5, <1>6, <1>7, <1>8, <1>9, <1>10 DEF BackupStep, BackupCommand

-----------------------------------------------------------------------------
(* The theorem *)

LEMMA PodInvInit == CollectorAssumption /\ Init => PodInv
BY DEF CollectorAssumption, Init, PodInv, PodTypes, HoldsWhenWorking, HeldIsThere,
       PodsAreNotShared, LostIsThere, PodsAreDeleted, Privileged, Working, Labels

LEMMA OthersKeepPods ==
  ASSUME PodInv,
         \/ \E c \in Collectors : Stop(c)
         \/ \E p \in Pods : PodStarts(p) \/ PodEnds(p)
  PROVE  PodInv'
<1>1. CASE \E c \in Collectors : Stop(c)
  BY <1>1 DEF Stop, PodInv, PodTypes, HoldsWhenWorking, HeldIsThere, PodsAreNotShared,
              LostIsThere, PodsAreDeleted, Privileged, podVars
<1>2. CASE \E p \in Pods : PodStarts(p) \/ PodEnds(p)
  BY <1>2 DEF PodStarts, PodEnds, PodInv, PodTypes, HoldsWhenWorking, HeldIsThere,
              PodsAreNotShared, LostIsThere, PodsAreDeleted, Privileged
<1> QED BY <1>1, <1>2

LEMMA PodInvStep == CollectorAssumption /\ PodInv /\ [Next]_vars => PodInv'
<1> SUFFICES ASSUME CollectorAssumption, PodInv, [Next]_vars PROVE PodInv'
  OBVIOUS
<1>1. CASE UNCHANGED vars
  BY <1>1, Stays DEF vars
<1>2. CASE Next
  BY <1>2, RunKeepsPods, StageKeepsPods, NodesKeepPods, BackupKeepsPods, OthersKeepPods
     DEF Next, GatherStep, GatherCommand
<1> QED BY <1>1, <1>2

(* Whichever way a gather or a backup leaves a node, its debug pod is      *)
(* deleted, unless the API server did not answer: for any number of        *)
(* collectors, nodes and unanswered calls.                                 *)
THEOREM PodsAreAlwaysDeleted == Spec => []PodsAreDeleted
<1>1. PodInv => PodsAreDeleted
  BY DEF PodInv
<1> QED BY CollectorAssumption, PodInvInit, PodInvStep, <1>1, PTL DEF Spec

(* No two collectors ever work in one debug pod, which the first to be     *)
(* done would delete under the other.                                      *)
THEOREM PodsAreNeverShared == Spec => []PodsAreNotShared
<1>1. PodInv => PodsAreNotShared
  BY DEF PodInv
<1> QED BY CollectorAssumption, PodInvInit, PodInvStep, <1>1, PTL DEF Spec

-----------------------------------------------------------------------------
(* What a gather reports.  A run has failed when and only when it is among *)
(* the failing ones, and it has not before it is loaded.                   *)

WorkShape(w) ==
  w \in [run: Nat, plan: {w.plan}, stage: {w.stage}, todo: {w.todo}, nodes: {w.nodes},
         commands: {w.commands}, failed: BOOLEAN]

ResultShape(r) ==
  r \in [collected: {r.collected}, failing: SUBSET Nat, reported: {r.reported},
         unwritten: {r.unwritten}, lines: {r.lines}]

ReportTypes ==
  /\ work = [g \in Gathers |-> work[g]] /\ result = [g \in Gathers |-> result[g]]
  /\ \A g \in Gathers : WorkShape(work[g]) /\ ResultShape(result[g])

FailedIsFailing ==
  \A g \in Gathers :
    /\ work[g].failed <=> work[g].run \in result[g].failing
    /\ \A run \in result[g].failing : run <= work[g].run
    /\ at[g] = "load" => ~work[g].failed

ReportInv == ReportTypes /\ FailedIsFailing /\ FailuresAreReported

(* A gather goes on within a run, in which something may have failed now.  *)
GoesOn(g, fails) ==
  /\ \A h \in Gathers \ {g} : at'[h] = at[h]
  /\ at'[g] # "load"
  /\ \E w : /\ work' = [work EXCEPT ![g] = w] /\ WorkShape(w)
            /\ w.run = work[g].run /\ w.failed = (work[g].failed \/ fails)
  /\ \E r : /\ result' = [result EXCEPT ![g] = r] /\ ResultShape(r)
            /\ r.reported = result[g].reported /\ r.unwritten = result[g].unwritten
            /\ r.failing = IF fails THEN result[g].failing \cup {work[g].run}
                           ELSE result[g].failing
  /\ request' = request

LEMMA GoesOnReporting ==
  ASSUME ReportInv, NEW g \in Gathers, NEW fails \in BOOLEAN, GoesOn(g, fails)
  PROVE  ReportInv'
<1>1. PICK w : /\ work' = [work EXCEPT ![g] = w] /\ WorkShape(w)
               /\ w.run = work[g].run /\ w.failed = (work[g].failed \/ fails)
  BY DEF GoesOn
<1>2. PICK r : /\ result' = [result EXCEPT ![g] = r] /\ ResultShape(r)
               /\ r.reported = result[g].reported /\ r.unwritten = result[g].unwritten
               /\ r.failing = IF fails THEN result[g].failing \cup {work[g].run}
                              ELSE result[g].failing
  BY DEF GoesOn
<1>3. /\ work'[g] = w /\ result'[g] = r
      /\ \A h \in Gathers \ {g} : work'[h] = work[h] /\ result'[h] = result[h]
  BY <1>1, <1>2 DEF ReportInv, ReportTypes
<1>4. ReportTypes'
  BY <1>1, <1>2, <1>3 DEF ReportInv, ReportTypes
<1>5. work[g].run \in Nat /\ work[g].failed \in BOOLEAN
  BY DEF ReportInv, ReportTypes, WorkShape
<1>6. FailedIsFailing'
  BY <1>1, <1>2, <1>3, <1>5 DEF ReportInv, FailedIsFailing, GoesOn
<1>7. FailuresAreReported'
  BY <1>1, <1>2, <1>3, <1>5 DEF ReportInv, FailuresAreReported, SameDirectory, Shared, GoesOn
<1> QED BY <1>4, <1>6, <1>7 DEF ReportInv

(* The records that the steps write.                                       *)
Keeps(w, g, failed) == WorkShape(w) /\ w.run = work[g].run /\ w.failed = failed

LEMMA WorkWritten ==
  ASSUME ReportInv, NEW g \in Gathers
  PROVE  LET u == work[g] IN
         /\ Keeps(u, g, u.failed)
         /\ \A x, y : /\ Keeps([u EXCEPT !.plan = x], g, u.failed)
                      /\ Keeps([u EXCEPT !.todo = x], g, u.failed)
                      /\ Keeps([u EXCEPT !.nodes = x], g, u.failed)
                      /\ Keeps([u EXCEPT !.commands = x], g, u.failed)
                      /\ Keeps([u EXCEPT !.stage = x, !.todo = y], g, u.failed)
         /\ \A f \in BOOLEAN : \A x, y, z :
              /\ Keeps([u EXCEPT !.todo = x, !.failed = f], g, f)
              /\ Keeps([u EXCEPT !.nodes = x, !.failed = f], g, f)
              /\ Keeps([u EXCEPT !.commands = x, !.failed = f], g, f)
              /\ Keeps([u EXCEPT !.todo = x, !.nodes = y, !.commands = z, !.failed = f], g, f)
<1>1. WorkShape(work[g])
  BY DEF ReportInv, ReportTypes
<1> DEFINE u == work[g]
<1>2. Keeps(u, g, u.failed)
  BY <1>1 DEF WorkShape, Keeps
<1>3. ASSUME NEW x
      PROVE  /\ Keeps([u EXCEPT !.plan = x], g, u.failed)
             /\ Keeps([u EXCEPT !.todo = x], g, u.failed)
             /\ Keeps([u EXCEPT !.nodes = x], g, u.failed)
             /\ Keeps([u EXCEPT !.commands = x], g, u.failed)
  BY <1>1 DEF WorkShape, Keeps
<1>4. ASSUME NEW x, NEW y
      PROVE  Keeps([u EXCEPT !.stage = x, !.todo = y], g, u.failed)
  BY <1>1 DEF WorkShape, Keeps
<1>5. ASSUME NEW f \in BOOLEAN, NEW x
      PROVE  /\ Keeps([u EXCEPT !.todo = x, !.failed = f], g, f)
             /\ Keeps([u EXCEPT !.nodes = x, !.failed = f], g, f)
             /\ Keeps([u EXCEPT !.commands = x, !.failed = f], g, f)
  BY <1>1 DEF WorkShape, Keeps
<1>6. ASSUME NEW f \in BOOLEAN, NEW x, NEW y, NEW z
      PROVE  Keeps([u EXCEPT !.todo = x, !.nodes = y, !.commands = z, !.failed = f], g, f)
  BY <1>1 DEF WorkShape, Keeps
<1> HIDE DEF u
<1>7. /\ Keeps(u, g, u.failed)
      /\ \A x, y : /\ Keeps([u EXCEPT !.plan = x], g, u.failed)
                   /\ Keeps([u EXCEPT !.todo = x], g, u.failed)
                   /\ Keeps([u EXCEPT !.nodes = x], g, u.failed)
                   /\ Keeps([u EXCEPT !.commands = x], g, u.failed)
                   /\ Keeps([u EXCEPT !.stage = x, !.todo = y], g, u.failed)
  BY <1>2, <1>3, <1>4, Zenon
<1>8. \A f \in BOOLEAN : \A x, y, z :
         /\ Keeps([u EXCEPT !.todo = x, !.failed = f], g, f)
         /\ Keeps([u EXCEPT !.nodes = x, !.failed = f], g, f)
         /\ Keeps([u EXCEPT !.commands = x, !.failed = f], g, f)
         /\ Keeps([u EXCEPT !.todo = x, !.nodes = y, !.commands = z, !.failed = f], g, f)
  BY <1>5, <1>6, Zenon
<1> QED BY <1>7, <1>8, Zenon DEF u

(* A result in which no errors were added or written.                      *)
SameResult(r, g) ==
  /\ ResultShape(r) /\ r.failing = result[g].failing
  /\ r.reported = result[g].reported /\ r.unwritten = result[g].unwritten

LEMMA ResultWritten ==
  ASSUME ReportInv, NEW g \in Gathers
  PROVE  /\ SameResult(result[g], g)
         /\ \A x : /\ SameResult([result[g] EXCEPT !.lines = x], g)
                   /\ SameResult([result[g] EXCEPT !.collected = x], g)
<1>1. ResultShape(result[g])
  BY DEF ReportInv, ReportTypes
<1> QED BY <1>1 DEF ResultShape, SameResult

(* A gather moves to a place within its run.                               *)
MovesOn(g) ==
  /\ at'[g] # "load" /\ \A h \in Gathers \ {g} : at'[h] = at[h]
  /\ request' = request

(* A step that fails nothing.                                              *)
LEMMA NothingFails ==
  ASSUME ReportInv, NEW g \in Gathers, MovesOn(g),
         NEW w, work' = [work EXCEPT ![g] = w], Keeps(w, g, work[g].failed),
         \/ result' = result
         \/ \E x : result' = [result EXCEPT ![g].lines = x]
         \/ \E x : result' = [result EXCEPT ![g].collected = x]
  PROVE  ReportInv'
<1>1. \E r : result' = [result EXCEPT ![g] = r] /\ SameResult(r, g)
  <2>1. CASE result' = result
    <3>1. result' = [result EXCEPT ![g] = result[g]]
      BY <2>1 DEF ReportInv, ReportTypes
    <3> QED BY <3>1, ResultWritten
  <2>2. ASSUME NEW x, result' = [result EXCEPT ![g].lines = x]
        PROVE  \E r : result' = [result EXCEPT ![g] = r] /\ SameResult(r, g)
    <3> DEFINE r == [result[g] EXCEPT !.lines = x]
    <3>1. result' = [result EXCEPT ![g] = r] /\ SameResult(r, g)
      BY <2>2, ResultWritten
    <3> HIDE DEF r
    <3> QED BY <3>1
  <2>3. ASSUME NEW x, result' = [result EXCEPT ![g].collected = x]
        PROVE  \E r : result' = [result EXCEPT ![g] = r] /\ SameResult(r, g)
    <3> DEFINE r == [result[g] EXCEPT !.collected = x]
    <3>1. result' = [result EXCEPT ![g] = r] /\ SameResult(r, g)
      BY <2>3, ResultWritten
    <3> HIDE DEF r
    <3> QED BY <3>1
  <2> QED BY <2>1, <2>2, <2>3
<1>2. PICK r : result' = [result EXCEPT ![g] = r] /\ SameResult(r, g)
  BY <1>1
<1>3. w.failed = (work[g].failed \/ FALSE)
  BY DEF Keeps, WorkShape
<1>4. GoesOn(g, FALSE)
  BY <1>2, <1>3 DEF GoesOn, MovesOn, Keeps, SameResult
<1> QED BY <1>4, GoesOnReporting

(* A step in which the run fails.                                          *)
LEMMA RunFailsNow ==
  ASSUME ReportInv, NEW g \in Gathers, MovesOn(g),
         NEW w, work' = [work EXCEPT ![g] = w], Keeps(w, g, TRUE),
         Fails(g)
  PROVE  ReportInv'
<1>1. WorkShape(work[g]) /\ ResultShape(result[g])
  BY DEF ReportInv, ReportTypes
<1> DEFINE r == [result[g] EXCEPT !.failing = @ \cup {work[g].run}]
<1>2. result' = [result EXCEPT ![g] = r]
  BY DEF Fails
<1>3. work[g].run \in Nat
  BY <1>1 DEF WorkShape
<1>4. /\ ResultShape(r) /\ r.reported = result[g].reported
      /\ r.unwritten = result[g].unwritten /\ r.failing = result[g].failing \cup {work[g].run}
  BY <1>1, <1>3 DEF ResultShape
<1> HIDE DEF r
<1>5. GoesOn(g, TRUE)
  BY <1>2, <1>4 DEF GoesOn, MovesOn, Keeps
<1> QED BY <1>5, GoesOnReporting

(* The building blocks of the steps.                                       *)
LEMMA Blocks ==
  ASSUME ReportInv, NEW g \in Gathers, MovesOn(g),
         \/ UNCHANGED <<work, result>>
         \/ Passed(g) \/ PassedFailing(g) \/ LeaveNodes(g)
         \/ \E f \in BOOLEAN : NextNode(g, f) \/ CommandDone(g, f)
  PROVE  ReportInv'
<1>a. work[g].failed \in BOOLEAN /\ work = [h \in Gathers |-> work[h]]
  BY DEF ReportInv, ReportTypes, WorkShape
<1>1. CASE UNCHANGED <<work, result>>
  <2>1. work' = [work EXCEPT ![g] = work[g]]
    BY <1>a, <1>1
  <2> QED BY <1>1, <2>1, WorkWritten, NothingFails
<1>2. CASE Passed(g)
  <2> DEFINE w == [work[g] EXCEPT !.todo = Tail(@)]
  <2>1. work' = [work EXCEPT ![g] = w] /\ result' = result
    BY <1>2 DEF Passed
  <2>2. Keeps(w, g, work[g].failed)
    BY WorkWritten
  <2> HIDE DEF w
  <2> QED BY <2>1, <2>2, NothingFails
<1>3. CASE PassedFailing(g)
  <2> DEFINE w == [work[g] EXCEPT !.todo = Tail(@), !.failed = TRUE]
  <2>1. work' = [work EXCEPT ![g] = w] /\ Fails(g)
    BY <1>3 DEF PassedFailing
  <2>2. Keeps(w, g, TRUE)
    BY WorkWritten
  <2> HIDE DEF w
  <2> QED BY <2>1, <2>2, RunFailsNow
<1>4. CASE LeaveNodes(g)
  <2> DEFINE w == [work[g] EXCEPT !.todo = <<>>, !.nodes = 0, !.commands = 0, !.failed = TRUE]
  <2>1. work' = [work EXCEPT ![g] = w] /\ Fails(g)
    BY <1>4 DEF LeaveNodes
  <2>2. Keeps(w, g, TRUE)
    BY WorkWritten
  <2> HIDE DEF w
  <2> QED BY <2>1, <2>2, RunFailsNow
<1>5. ASSUME NEW f \in BOOLEAN, NextNode(g, f) \/ CommandDone(g, f)
      PROVE  ReportInv'
  <2>1. /\ IF f THEN Fails(g) ELSE result' = result
        /\ \E w : work' = [work EXCEPT ![g] = w] /\ Keeps(w, g, work[g].failed \/ f)
    <3>1. CASE NextNode(g, f)
      <4> DEFINE w == [work[g] EXCEPT !.nodes = @ - 1, !.failed = @ \/ f]
      <4>1. work' = [work EXCEPT ![g] = w]
        BY <3>1 DEF NextNode
      <4>2. Keeps(w, g, work[g].failed \/ f)
        BY <1>a, WorkWritten
      <4> HIDE DEF w
      <4> QED BY <3>1, <4>1, <4>2 DEF NextNode
    <3>2. CASE CommandDone(g, f)
      <4> DEFINE w == [work[g] EXCEPT !.commands = @ - 1, !.failed = @ \/ f]
      <4>1. work' = [work EXCEPT ![g] = w]
        BY <3>2 DEF CommandDone
      <4>2. Keeps(w, g, work[g].failed \/ f)
        BY <1>a, WorkWritten
      <4> HIDE DEF w
      <4> QED BY <3>2, <4>1, <4>2 DEF CommandDone
    <3> QED BY <1>5, <3>1, <3>2
  <2>2. CASE f = TRUE
    <3>1. \E w : work' = [work EXCEPT ![g] = w] /\ Keeps(w, g, TRUE)
      BY <1>a, <2>1, <2>2
    <3> QED BY <2>1, <2>2, <3>1, RunFailsNow
  <2>3. CASE f = FALSE
    <3>1. \E w : work' = [work EXCEPT ![g] = w] /\ Keeps(w, g, work[g].failed)
      BY <1>a, <2>1, <2>3
    <3> QED BY <2>1, <2>3, <3>1, NothingFails
  <2> QED BY <2>2, <2>3
<1> QED BY <1>1, <1>2, <1>3, <1>4, <1>5

(* A run is over: its errors are written, and the next one starts.         *)
LEMMA NextRunReports ==
  ASSUME ReportInv, NEW g \in Gathers, NextRun(g), request' = request,
         \A h \in Gathers \ {g} : at'[h] = at[h],
         \/ ~work[g].failed /\ result' = result
         \/ appendErrorLog(g)
  PROVE  ReportInv'
<1> DEFINE n == work[g].run
           w == [NoWork EXCEPT !.run = n + 1]
           others == {i \in result[g].reported : ~SameDirectory(g, i, n)}
<1>1. /\ n \in Nat /\ work[g].failed \in BOOLEAN
      /\ ResultShape(result[g])
  BY DEF ReportInv, ReportTypes, WorkShape
<1>2. work' = [work EXCEPT ![g] = w]
  BY DEF NextRun
<1>3. WorkShape(w) /\ w.run = n + 1 /\ w.failed = FALSE
  <2>1. WorkShape(NoWork) /\ NoWork.failed = FALSE
    BY DEF NoWork, WorkShape
  <2> QED BY <1>1, <2>1 DEF WorkShape
<1>4. PICK r : /\ result' = [result EXCEPT ![g] = r]
               /\ ResultShape(r) /\ r.failing = result[g].failing
               /\ IF work[g].failed
                  THEN /\ others \subseteq r.reported
                       /\ result[g].unwritten \subseteq r.unwritten
                       /\ n \in r.reported \cup r.unwritten
                  ELSE r.reported = result[g].reported /\ r.unwritten = result[g].unwritten
  <2>1. CASE ~work[g].failed
    <3>1. result' = [result EXCEPT ![g] = result[g]]
      BY <1>1, <2>1 DEF appendErrorLog, ReportInv, ReportTypes
    <3> QED BY <1>1, <2>1, <3>1
  <2>2. CASE work[g].failed
    <3>1. CASE result' = [result EXCEPT ![g].reported = others \cup {n}]
      <4> DEFINE r == [result[g] EXCEPT !.reported = others \cup {n}]
      <4>1. /\ ResultShape(r) /\ r.failing = result[g].failing
            /\ r.reported = others \cup {n} /\ r.unwritten = result[g].unwritten
        BY <1>1 DEF ResultShape
      <4>2. result' = [result EXCEPT ![g] = r]
        BY <3>1
      <4> HIDE DEF r
      <4> QED BY <2>2, <4>1, <4>2
    <3>2. ASSUME NEW kept \in {others, result[g].reported},
                 result' = [result EXCEPT ![g].reported = kept, ![g].unwritten = @ \cup {n}]
          PROVE  \E r : /\ result' = [result EXCEPT ![g] = r]
                        /\ ResultShape(r) /\ r.failing = result[g].failing
                        /\ others \subseteq r.reported
                        /\ result[g].unwritten \subseteq r.unwritten
                        /\ n \in r.reported \cup r.unwritten
      <4> DEFINE r == [result[g] EXCEPT !.reported = kept, !.unwritten = @ \cup {n}]
      <4>1. /\ ResultShape(r) /\ r.failing = result[g].failing
            /\ r.reported = kept /\ r.unwritten = result[g].unwritten \cup {n}
        BY <1>1 DEF ResultShape
      <4>2. result' = [result EXCEPT ![g] = r]
        BY <3>2
      <4>3. others \subseteq kept
        OBVIOUS
      <4> HIDE DEF r
      <4> QED BY <4>1, <4>2, <4>3
    <3>3. appendErrorLog(g)
      BY <2>2
    <3> QED BY <2>2, <3>1, <3>2, <3>3 DEF appendErrorLog
  <2> QED BY <1>1, <2>1, <2>2
<1> HIDE DEF w
<1>5. /\ work'[g] = w /\ result'[g] = r
      /\ \A h \in Gathers \ {g} : work'[h] = work[h] /\ result'[h] = result[h]
  BY <1>2, <1>4 DEF ReportInv, ReportTypes
<1>6. ReportTypes'
  BY <1>2, <1>3, <1>4, <1>5 DEF ReportInv, ReportTypes
<1>7. /\ \A x \in result[g].failing : x \in Nat /\ x <= n
      /\ n \in result[g].failing <=> work[g].failed
  BY <1>1 DEF ReportInv, FailedIsFailing, ResultShape
<1>8. FailedIsFailing'
  <2>1. /\ \A x \in r.failing : x <= w.run
        /\ w.run \notin r.failing
    BY <1>1, <1>3, <1>4, <1>7
  <2> QED BY <1>3, <1>5, <2>1 DEF ReportInv, FailedIsFailing
<1>9. FailuresAreReported'
  <2> SUFFICES ASSUME NEW h \in Gathers
               PROVE  LET returned == {x \in result'[h].failing : x < work'[h].run} IN
                      \A x \in returned :
                        \/ x \in result'[h].reported \cup result'[h].unwritten
                        \/ \E later \in returned : later > x /\ SameDirectory(h, x, later)
    BY DEF FailuresAreReported, SameDirectory, Shared
  <2>1. CASE h # g
    BY <1>5, <2>1 DEF ReportInv, FailuresAreReported
  <2>2. CASE h = g
    <3> DEFINE before == {x \in result[g].failing : x < n}
               returned == {x \in result[g].failing : x < n + 1}
               Shown(x) == x \in r.reported \cup r.unwritten
               Replaced(x, runs) == \E later \in runs : later > x /\ SameDirectory(g, x, later)
    <3>1. \A x \in before :
            x \in result[g].reported \cup result[g].unwritten \/ Replaced(x, before)
      BY DEF ReportInv, FailuresAreReported
    <3>2. returned = IF work[g].failed THEN before \cup {n} ELSE before
      BY <1>1, <1>7
    <3>3. ASSUME NEW x \in returned PROVE Shown(x) \/ Replaced(x, returned)
      <4>1. CASE ~work[g].failed
        BY <1>4, <3>1, <3>2, <4>1
      <4>2. CASE work[g].failed /\ x = n
        BY <1>4, <4>2
      <4>3. CASE work[g].failed /\ x \in before
        <5>1. n \in returned /\ n > x /\ before \subseteq returned
          BY <1>1, <1>7, <3>2, <4>3
        <5>2. CASE x \in result[g].unwritten
          BY <1>4, <4>3, <5>2
        <5>3. CASE Replaced(x, before)
          BY <5>1, <5>3
        <5>4. CASE x \in result[g].reported
          BY <1>4, <4>3, <5>1, <5>4
        <5> QED BY <3>1, <4>3, <5>2, <5>3, <5>4
      <4> QED BY <3>2, <4>1, <4>2, <4>3
    <3> HIDE DEF returned
    <3>4. returned = {x \in result'[h].failing : x < work'[h].run}
      BY <1>3, <1>4, <1>5, <2>2 DEF returned
    <3> QED BY <1>5, <2>2, <3>3, <3>4
  <2> QED BY <2>1, <2>2
<1> QED BY <1>6, <1>8, <1>9 DEF ReportInv

LEMMA RunReports ==
  ASSUME ReportInv, PodTypes, NEW g \in Gathers, RunStep(g)
  PROVE  ReportInv'
<1> USE DEF gatherVars
<1>a. \A l : Goto(g, l) => at'[g] = l /\ \A h \in Gathers \ {g} : at'[h] = at[h]
  BY DEF Goto, PodTypes, Collectors
<1>1. CASE EndGather(g) \/ GiveUp(g)
  <2>1. MovesOn(g)
    BY <1>a, <1>1 DEF MovesOn, EndGather, GiveUp
  <2> QED BY <1>1, <2>1, Blocks DEF EndGather, GiveUp
<1>2. CASE Load(g)
  <2>1. PICK plan : work' = [work EXCEPT ![g].plan = plan]
    BY <1>2 DEF Load
  <2> DEFINE w == [work[g] EXCEPT !.plan = plan]
  <2>2. work' = [work EXCEPT ![g] = w] /\ Keeps(w, g, work[g].failed)
    BY <2>1, WorkWritten
  <2> HIDE DEF w
  <2>3. MovesOn(g)
    BY <1>a, <1>2 DEF MovesOn, Load
  <2>4. result' = result
    BY <1>2 DEF Load
  <2> QED BY <2>2, <2>3, <2>4, NothingFails
<1>3. CASE StartDefinition(g)
  <2>1. PICK todo : work' = [work EXCEPT ![g].stage = 1, ![g].todo = todo]
    BY <1>3 DEF StartDefinition
  <2> DEFINE w == [work[g] EXCEPT !.stage = 1, !.todo = todo]
  <2>2. work' = [work EXCEPT ![g] = w] /\ Keeps(w, g, work[g].failed)
    BY <2>1, WorkWritten
  <2> HIDE DEF w
  <2>3. MovesOn(g)
    BY <1>a, <1>3 DEF MovesOn, StartDefinition
  <2>4. result' = result
    BY <1>3 DEF StartDefinition
  <2> QED BY <2>2, <2>3, <2>4, NothingFails
<1>4. CASE RunFails(g)
  <2>1. ~work[g].failed
    BY <1>4 DEF RunFails, ReportInv, FailedIsFailing
  <2>2. CASE NextRun(g) /\ UNCHANGED at
    BY <1>4, <2>1, <2>2, NextRunReports DEF RunFails
  <2>3. CASE Goto(g, "failed") /\ UNCHANGED work
    <3>1. MovesOn(g)
      BY <1>a, <1>4, <2>3 DEF MovesOn, RunFails
    <3> QED BY <1>4, <2>3, <3>1, Blocks DEF RunFails
  <2> QED BY <1>4, <2>2, <2>3 DEF RunFails
<1>5. CASE EndRun(g)
  BY <1>a, <1>5, NextRunReports DEF EndRun
<1> QED BY <1>1, <1>2, <1>3, <1>4, <1>5 DEF RunStep

LEMMA StageReports ==
  ASSUME ReportInv, PodTypes, NEW g \in Gathers, StageStep(g) \/ ExecEnds(g)
  PROVE  ReportInv'
<1> USE DEF gatherVars
<1>a. \A l : Goto(g, l) => at'[g] = l /\ \A h \in Gathers \ {g} : at'[h] = at[h]
  BY DEF Goto, PodTypes, Collectors
<1>1. CASE NextStage(g)
  <2>1. PICK todo : work' = [work EXCEPT ![g].stage = @ + 1, ![g].todo = todo]
    BY <1>1 DEF NextStage
  <2> DEFINE w == [work[g] EXCEPT !.stage = @ + 1, !.todo = todo]
  <2>2. work' = [work EXCEPT ![g] = w] /\ Keeps(w, g, work[g].failed)
    BY <2>1, WorkWritten
  <2> HIDE DEF w
  <2>3. MovesOn(g)
    BY <1>a, <1>1 DEF MovesOn, NextStage
  <2>4. result' = result
    BY <1>1 DEF NextStage
  <2> QED BY <2>2, <2>3, <2>4, NothingFails
<1>2. CASE EndDefinition(g)
  <2> DEFINE w == [work[g] EXCEPT !.plan = Tail(@)]
  <2>1. work' = [work EXCEPT ![g] = w] /\ Keeps(w, g, work[g].failed)
    BY <1>2, WorkWritten DEF EndDefinition
  <2> HIDE DEF w
  <2>2. \E x : result' = [result EXCEPT ![g].collected = x]
    BY <1>2 DEF EndDefinition
  <2>3. MovesOn(g)
    BY <1>a, <1>2 DEF MovesOn, EndDefinition
  <2> QED BY <2>1, <2>2, <2>3, NothingFails
<1>3. CASE LeaveStage(g)
  <2> DEFINE w == [work[g] EXCEPT !.todo = <<>>, !.failed = TRUE]
  <2>1. work' = [work EXCEPT ![g] = w] /\ Keeps(w, g, TRUE)
    BY <1>3, WorkWritten DEF LeaveStage
  <2> HIDE DEF w
  <2>3. MovesOn(g)
    BY <1>a, <1>3 DEF MovesOn, LeaveStage
  <2>4. Fails(g)
    BY <1>3 DEF LeaveStage
  <2> QED BY <2>1, <2>3, <2>4, RunFailsNow
<1>4. CASE Collect(g)
  <2> DEFINE w == [work[g] EXCEPT !.todo = Tail(@)]
  <2>1. work' = [work EXCEPT ![g] = w] /\ Keeps(w, g, work[g].failed)
    BY <1>4, WorkWritten DEF Collect
  <2> HIDE DEF w
  <2>2. result' = result \/ \E x : result' = [result EXCEPT ![g].lines = x]
    BY <1>4 DEF Collect
  <2>3. MovesOn(g)
    BY <1>a, <1>4 DEF MovesOn, Collect, InTodo
  <2> QED BY <2>1, <2>2, <2>3, NothingFails
<1>5. CASE CollectFails(g) \/ SkipExec(g)
  <2>1. MovesOn(g)
    BY <1>a, <1>5 DEF MovesOn, CollectFails, SkipExec, InTodo
  <2> QED BY <1>5, <2>1, Blocks DEF CollectFails, SkipExec, InTodo
<1>6. CASE ensureCephTools(g)
  <2>1. CASE Goto(g, "stage")
    <3>1. at'[g] = "stage" /\ \A h \in Gathers \ {g} : at'[h] = at[h]
      BY <1>a, <2>1
    <3>2. request' = request
      BY <1>6 DEF ensureCephTools
    <3>3. MovesOn(g)
      BY <3>1, <3>2 DEF MovesOn
    <3> QED BY <1>6, <3>3, Blocks DEF ensureCephTools
  <2>2. CASE Goto(g, "tools wait")
    <3>1. at'[g] = "tools wait" /\ \A h \in Gathers \ {g} : at'[h] = at[h]
      BY <1>a, <2>2
    <3>2. request' = request
      BY <1>6 DEF ensureCephTools
    <3>3. MovesOn(g)
      BY <3>1, <3>2 DEF MovesOn
    <3> QED BY <1>6, <3>3, Blocks DEF ensureCephTools
  <2> QED BY <1>6, <2>1, <2>2 DEF ensureCephTools
<1>7. CASE CephToolsWaitEnds(g)
  <2>1. at'[g] = "stage" /\ \A h \in Gathers \ {g} : at'[h] = at[h]
    BY <1>a, <1>7 DEF CephToolsWaitEnds
  <2>2. request' = request
    BY <1>7 DEF CephToolsWaitEnds
  <2>3. MovesOn(g)
    BY <2>1, <2>2 DEF MovesOn
  <2> QED BY <1>7, <2>3, Blocks DEF CephToolsWaitEnds
<1>8. CASE StartExec(g)
  <2>1. MovesOn(g)
    BY <1>a, <1>8 DEF MovesOn, StartExec, InTodo
  <2> QED BY <1>8, <2>1, Blocks DEF StartExec
<1>9. CASE ExecCancelled(g) \/ ExecEnds(g)
  <2>1. MovesOn(g)
    BY <1>a, <1>9 DEF MovesOn, ExecCancelled, ExecEnds
  <2> QED BY <1>9, <2>1, Blocks DEF ExecCancelled, ExecEnds
<1> QED BY <1>1, <1>2, <1>3, <1>4, <1>5, <1>6, <1>7, <1>8, <1>9 DEF StageStep

LEMMA NodesReport ==
  ASSUME ReportInv, PodTypes, NEW g \in Gathers, NodeStep(g) \/ CommandEnds(g)
  PROVE  ReportInv'
<1> USE DEF gatherVars
<1>a. \A l : Goto(g, l) => at'[g] = l /\ \A h \in Gathers \ {g} : at'[h] = at[h]
  BY DEF Goto, PodTypes, Collectors
<1>1. CASE ListNodes(g)
  <2>1. PICK n : work' = [work EXCEPT ![g].nodes = n]
    BY <1>1 DEF ListNodes
  <2> DEFINE w == [work[g] EXCEPT !.nodes = n]
  <2>2. work' = [work EXCEPT ![g] = w] /\ Keeps(w, g, work[g].failed)
    BY <2>1, WorkWritten
  <2> HIDE DEF w
  <2>3. MovesOn(g)
    BY <1>a, <1>1 DEF MovesOn, ListNodes
  <2>4. result' = result
    BY <1>1 DEF ListNodes
  <2> QED BY <2>2, <2>3, <2>4, NothingFails
<1>2. CASE NodeReady(g)
  <2>1. PICK n : work' = [work EXCEPT ![g].commands = n]
    BY <1>2 DEF NodeReady
  <2> DEFINE w == [work[g] EXCEPT !.commands = n]
  <2>2. work' = [work EXCEPT ![g] = w] /\ Keeps(w, g, work[g].failed)
    BY <2>1, WorkWritten
  <2> HIDE DEF w
  <2>3. MovesOn(g)
    BY <1>a, <1>2 DEF MovesOn, NodeReady
  <2>4. result' = result
    BY <1>2 DEF NodeReady
  <2> QED BY <2>2, <2>3, <2>4, NothingFails
<1>3. CASE ListNodesFails(g)
  <2>1. MovesOn(g)
    BY <1>a, <1>3 DEF MovesOn, ListNodesFails, InTodo
  <2> QED BY <1>3, <2>1, Blocks DEF ListNodesFails, InTodo
<1>4. CASE EndGroup(g)
  <2>1. CASE LeaveNodes(g)
    <3>1. MovesOn(g)
      BY <1>a, <1>4, <2>1 DEF MovesOn, EndGroup, LeaveNodes
    <3> QED BY <1>4, <2>1, <3>1, Blocks
  <2>2. CASE Passed(g) /\ Goto(g, "stage")
    <3>1. MovesOn(g)
      BY <1>a, <1>4, <2>2 DEF MovesOn, EndGroup
    <3> QED BY <1>4, <2>2, <3>1, Blocks
  <2> QED BY <1>4, <2>1, <2>2 DEF EndGroup
<1>5. CASE CreateOnNode(g)
  <2>1. CASE Goto(g, "wait") /\ UNCHANGED <<work, result>>
    <3>1. MovesOn(g)
      BY <1>a, <1>5, <2>1 DEF MovesOn, CreateOnNode
    <3> QED BY <1>5, <2>1, <3>1, Blocks
  <2>2. CASE NextNode(g, TRUE)
    <3>1. MovesOn(g)
      BY <1>a, <1>5, <2>2 DEF MovesOn, CreateOnNode, NextNode
    <3> QED BY <1>5, <2>2, <3>1, Blocks
  <2> QED BY <1>5, <2>1, <2>2 DEF CreateOnNode
<1>6. CASE NodeNotReady(g)
  <2>1. MovesOn(g)
    BY <1>a, <1>6 DEF MovesOn, NodeNotReady, NextNode
  <2> QED BY <1>6, <2>1, Blocks DEF NodeNotReady
<1>7. CASE StartCommand(g)
  <2>1. MovesOn(g)
    BY <1>a, <1>7 DEF MovesOn, StartCommand
  <2> QED BY <1>7, <2>1, Blocks DEF StartCommand
<1>8. CASE CommandCancelled(g) \/ CommandEnds(g)
  <2>1. PICK f \in BOOLEAN : CommandDone(g, f)
    BY <1>8 DEF CommandCancelled, CommandEnds
  <2>2. MovesOn(g)
    BY <1>a, <1>8, <2>1 DEF MovesOn, CommandCancelled, CommandEnds, CommandDone
  <2> QED BY <2>1, <2>2, Blocks
<1>9. CASE LeaveNode(g)
  <2>1. CASE NextNode(g, FALSE)
    <3>1. MovesOn(g)
      BY <1>a, <1>9, <2>1 DEF MovesOn, LeaveNode, NextNode
    <3> QED BY <1>9, <2>1, <3>1, Blocks
  <2>2. CASE LeaveNodes(g)
    <3>1. MovesOn(g)
      BY <1>a, <1>9, <2>2 DEF MovesOn, LeaveNode, LeaveNodes
    <3> QED BY <1>9, <2>2, <3>1, Blocks
  <2> QED BY <1>9, <2>1, <2>2 DEF LeaveNode
<1> QED BY <1>1, <1>2, <1>3, <1>4, <1>5, <1>6, <1>7, <1>8, <1>9 DEF NodeStep

(* Backups, stops and pods leave the gathers alone.                        *)
LEMMA OthersReportNothing ==
  ASSUME ReportInv, PodTypes, CollectorAssumption,
         \/ \E b \in Backups : BackupStep(b) \/ BackupCommand(b)
         \/ \E c \in Collectors : Stop(c)
         \/ \E p \in Pods : PodStarts(p) \/ PodEnds(p)
         \/ UNCHANGED vars
  PROVE  ReportInv'
<1>1. UNCHANGED gatherVars /\ \A h \in Gathers : at'[h] = at[h]
  <2>1. ASSUME NEW b \in Backups, BackupStep(b) \/ BackupCommand(b)
        PROVE  UNCHANGED gatherVars /\ \E l : Goto(b, l)
    BY <2>1 DEF BackupStep, BackupCommand, findMasterNode, CreateOnMaster, MasterReady,
       MasterNotReady, BackupFails, BackupCancelled, ScriptEnds, ScriptFails, CopyEnds,
       CopyFails, CleanUpEnds
  <2>2. ASSUME NEW b \in Backups, NEW l, Goto(b, l)
        PROVE  \A h \in Gathers : at'[h] = at[h]
    BY <2>2, CollectorAssumption DEF Goto, PodTypes, Collectors, CollectorAssumption
  <2>3. CASE \/ \E c \in Collectors : Stop(c)
             \/ \E p \in Pods : PodStarts(p) \/ PodEnds(p)
             \/ UNCHANGED vars
    BY <2>3 DEF Stop, PodStarts, PodEnds, vars
  <2> QED BY <2>1, <2>2, <2>3
<1>2. ReportTypes' /\ FailedIsFailing'
  BY <1>1 DEF ReportInv, ReportTypes, FailedIsFailing, gatherVars
<1>3. FailuresAreReported'
  BY <1>1 DEF ReportInv, FailuresAreReported, SameDirectory, Shared, gatherVars
<1> QED BY <1>2, <1>3 DEF ReportInv

LEMMA ReportInvInit == Init => ReportInv
<1> SUFFICES ASSUME Init PROVE ReportInv
  OBVIOUS
<1>1. \A g \in Gathers : work[g] = NoWork /\ result[g] = NoResult /\ at[g] = "load"
  BY DEF Init, Collectors
<1>2. WorkShape(NoWork) /\ NoWork.run = 1 /\ NoWork.failed = FALSE
  BY DEF NoWork, WorkShape
<1>3. ResultShape(NoResult) /\ NoResult.failing = {}
  BY DEF NoResult, ResultShape
<1>4. ReportTypes
  BY <1>1, <1>2, <1>3 DEF Init, ReportTypes
<1>5. FailedIsFailing /\ FailuresAreReported
  BY <1>1, <1>2, <1>3 DEF FailedIsFailing, FailuresAreReported
<1> QED BY <1>4, <1>5 DEF ReportInv

LEMMA ReportInvStep == CollectorAssumption /\ PodInv /\ ReportInv /\ [Next]_vars => ReportInv'
<1> SUFFICES ASSUME CollectorAssumption, PodInv, ReportInv, [Next]_vars PROVE ReportInv'
  OBVIOUS
<1>1. PodTypes
  BY DEF PodInv
<1> QED BY <1>1, RunReports, StageReports, NodesReport, OthersReportNothing
        DEF Next, GatherStep, GatherCommand

(* A run that has returned without an error, although something in it      *)
(* failed, has left its errors where they can be read, for any number of   *)
(* gathers and any requests, unless they could not be written or a later   *)
(* such run has written to the same directory.                             *)
THEOREM FailuresAreAlwaysReported == Spec => []FailuresAreReported
<1>1. ReportInv => FailuresAreReported
  BY DEF ReportInv
<1> QED BY CollectorAssumption, PodInvInit, PodInvStep, ReportInvInit, ReportInvStep, <1>1, PTL
        DEF Spec

-----------------------------------------------------------------------------
(* Lists: how what is collected relates to what was wanted.                *)
(* s names every element of S once.                                        *)
Lists(s, S) == s \in Seq(S) /\ Range(s) = S /\ IsInjective(s)

(* Two lists of different things, one after the other, list both.          *)
LEMMA ListsConcat ==
  ASSUME NEW S, NEW T, NEW s, NEW t, Lists(s, S), Lists(t, T), S \cap T = {}
  PROVE  Lists(s \o t, S \cup T)
<1>1. /\ s \in Seq(S) /\ DOMAIN s = 1..Len(s) /\ Len(s) \in Nat
      /\ t \in Seq(T) /\ DOMAIN t = 1..Len(t) /\ Len(t) \in Nat
  BY DEF Lists
<1> DEFINE st == s \o t
<1>2. /\ st \in Seq(S \cup T) /\ Len(st) = Len(s) + Len(t) /\ DOMAIN st = 1..(Len(s) + Len(t))
      /\ \A i \in 1..Len(s) : st[i] = s[i] /\ s[i] \in S
      /\ \A i \in DOMAIN st : i > Len(s) => st[i] = t[i - Len(s)] /\ st[i] \in T
  BY <1>1
<1>3. \A j \in 1..Len(t) : st[j + Len(s)] = t[j]
  BY <1>1, <1>2
<1> HIDE DEF st
<1>4. Range(st) = S \cup T
  <2>1. Range(st) \subseteq S \cup T
    BY <1>1, <1>2 DEF Range
  <2>2. ASSUME NEW x \in S PROVE x \in Range(st)
    <3>1. PICK i \in 1..Len(s) : s[i] = x
      BY <1>1 DEF Lists, Range
    <3>2. i \in DOMAIN st /\ st[i] = x
      BY <1>1, <1>2, <3>1
    <3> QED BY <3>2 DEF Range
  <2>3. ASSUME NEW x \in T PROVE x \in Range(st)
    <3>1. PICK j \in 1..Len(t) : t[j] = x
      BY <1>1 DEF Lists, Range
    <3>2. j + Len(s) \in DOMAIN st /\ st[j + Len(s)] = x
      BY <1>1, <1>2, <1>3, <3>1
    <3> QED BY <3>2 DEF Range
  <2> QED BY <2>1, <2>2, <2>3
<1>5. IsInjective(st)
  <2> SUFFICES ASSUME NEW i \in DOMAIN st, NEW j \in DOMAIN st, st[i] = st[j], i <= j
               PROVE  i = j
    BY <1>1, <1>2 DEF IsInjective
  <2>1. CASE j <= Len(s)
    BY <1>1, <1>2, <2>1 DEF Lists, IsInjective
  <2>2. CASE i > Len(s)
    <3>1. /\ i - Len(s) \in DOMAIN t /\ j - Len(s) \in DOMAIN t
          /\ t[i - Len(s)] = t[j - Len(s)]
      BY <1>1, <1>2, <2>2
    <3>2. i - Len(s) = j - Len(s)
      BY <3>1 DEF Lists, IsInjective
    <3> QED BY <1>1, <1>2, <3>2
  <2>3. CASE i <= Len(s) /\ j > Len(s)
    BY <1>1, <1>2, <2>3
  <2> QED BY <1>1, <1>2, <2>1, <2>2, <2>3
<1> QED BY <1>2, <1>4, <1>5 DEF Lists, st

(* What is collected and what is still planned, taken together, does not   *)
(* change when the first of the plan is done.                              *)
LEMMA HeadMoves ==
  ASSUME NEW X, NEW c \in Seq(X), NEW p \in Seq(X), p # <<>>
  PROVE  /\ Append(c, Head(p)) \in Seq(X) /\ Tail(p) \in Seq(X) /\ Head(p) \in X
         /\ Append(c, Head(p)) \o Tail(p) = c \o p
<1>1. Head(p) \in X /\ Tail(p) \in Seq(X) /\ Append(c, Head(p)) \in Seq(X)
  OBVIOUS
<1> DEFINE a == Append(c, Head(p)) \o Tail(p)
           b == c \o p
<1>2. a \in Seq(X) /\ b \in Seq(X) /\ Len(a) = Len(b)
  BY <1>1
<1>3. \A i \in 1..Len(b) : a[i] = b[i]
  BY <1>1
<1>4. a = b
  <2> HIDE DEF a, b
  <2> QED BY <1>2, <1>3
<1> QED BY <1>1, <1>4

(* A list is as long as what it lists is large.                            *)
LEMMA ListsLength ==
  ASSUME NEW S, NEW s, Lists(s, S)
  PROVE  IsFiniteSet(S) /\ Len(s) = Cardinality(S)
<1>1. s \in Seq(S) /\ Len(s) \in Nat /\ DOMAIN s = 1..Len(s)
  BY DEF Lists
<1>2. s \in Bijection(1..Len(s), S)
  <2>1. s \in [1..Len(s) -> S]
    BY <1>1
  <2>2. \A x \in S : \E i \in 1..Len(s) : s[i] = x
    BY <1>1 DEF Lists, Range
  <2>3. \A i, j \in 1..Len(s) : s[i] = s[j] => i = j
    BY <1>1 DEF Lists, IsInjective
  <2> QED BY <2>1, <2>2, <2>3 DEF Bijection, Injection, Surjection, IsInjective
<1>3. ExistsBijection(1..Len(s), S)
  BY <1>2 DEF ExistsBijection
<1> QED BY <1>1, <1>3, FS_NatBijection, FS_CountingElements

(* A finite set has an order, and any order of it lists it.                *)
LEMMA OrdersExist ==
  ASSUME NEW S, IsFiniteSet(S)
  PROVE  SetToSeqs(S) # {} /\ \A s \in SetToSeqs(S) : Lists(s, S)
<1> DEFINE n == Cardinality(S)
<1>1. n \in Nat /\ ExistsBijection(1..n, S)
  BY FS_CardinalityType
<1>2. SetToSeqs(S) # {}
  <2>1. PICK f : f \in Bijection(1..n, S)
    BY <1>1 DEF ExistsBijection
  <2>2. f \in [1..n -> S] /\ \A i, j \in 1..n : i # j => f[i] # f[j]
    BY <2>1 DEF Bijection, Injection, IsInjective
  <2> QED BY <2>2 DEF SetToSeqs
<1>3. ASSUME NEW s \in SetToSeqs(S) PROVE Lists(s, S)
  <2>1. s \in [1..n -> S] /\ \A i, j \in 1..n : i # j => s[i] # s[j]
    BY DEF SetToSeqs
  <2>2. s \in Injection(1..n, S)
    BY <2>1 DEF Injection, IsInjective
  <2>3. IsFiniteSet(1..n) /\ Cardinality(1..n) = n
    BY <1>1, FS_Interval
  <2>4. s \in Surjection(1..n, S)
    BY <2>2, <2>3, FS_Injection
  <2>5. Range(s) = S
    BY <2>1, <2>4 DEF Surjection, Range
  <2>6. s \in Seq(S)
    BY <1>1, <2>1
  <2>7. IsInjective(s)
    BY <2>1 DEF IsInjective
  <2> QED BY <2>5, <2>6, <2>7 DEF Lists
<1> QED BY <1>2, <1>3

(* The operators that are looked for are finitely many.                    *)
LEMMA OperatorsAreFinite == IsFiniteSet(Operators)
<1>1. ASSUME NEW a, NEW b, NEW c, NEW d, NEW e, NEW f
      PROVE  IsFiniteSet({a, b, c, d, e, f})
  <2>1. IsFiniteSet({a} \cup {b})
    BY FS_Singleton, FS_AddElement
  <2>2. IsFiniteSet(({a} \cup {b}) \cup {c})
    BY <2>1, FS_AddElement
  <2>3. IsFiniteSet((({a} \cup {b}) \cup {c}) \cup {d})
    BY <2>2, FS_AddElement
  <2>4. IsFiniteSet(((({a} \cup {b}) \cup {c}) \cup {d}) \cup {e})
    BY <2>3, FS_AddElement
  <2>5. IsFiniteSet((((({a} \cup {b}) \cup {c}) \cup {d}) \cup {e}) \cup {f})
    BY <2>4, FS_AddElement
  <2>6. {a, b, c, d, e, f} = (((({a} \cup {b}) \cup {c}) \cup {d}) \cup {e}) \cup {f}
    OBVIOUS
  <2> QED BY <2>5, <2>6
<1> DEFINE S == {"virtualization", "odf", "acm", "logging", "service-mesh", "serverless"}
           T == {"mce", "netobserv", "compliance", "mtc", "gitops", "local-storage"}
           U == {"sandboxed", "nhc", "numa", "ptp", "secrets-store", "lvms"}
<1>2. IsFiniteSet(S) /\ IsFiniteSet(T) /\ IsFiniteSet(U)
  BY <1>1
<1>3. Operators = (S \cup T) \cup U
  BY Zenon DEF Operators, ComplianceToGitops, LocalStorageToLvms
<1> HIDE DEF S, T, U
<1>4. IsFiniteSet(S \cup T)
  BY <1>2, FS_Union
<1>5. IsFiniteSet((S \cup T) \cup U)
  BY <1>2, <1>4, FS_Union
<1> QED BY <1>3, <1>5

-----------------------------------------------------------------------------
(* Definitions and plans.                                                  *)

(* The node commands of a definition with a stage replaced.                *)
LEMMA WithNodes ==
  ASSUME NEW d, NEW s, NEW x, DOMAIN d = StageNames
  PROVE  /\ DOMAIN With(d, s, x) = StageNames
         /\ With(d, s, x)["nodes"] = IF s = "nodes" THEN x ELSE d["nodes"]
<1>1. "nodes" \in StageNames
  <2>1. Stages[5] = "nodes" /\ 5 \in DOMAIN Stages
    BY DEF Stages
  <2> QED BY <2>1 DEF StageNames, Range
<1> QED BY <1>1 DEF With

(* A definition without commands has no node commands.                     *)
LEMMA NothingHasNoNodes == DOMAIN Nothing = StageNames /\ Nothing["nodes"] = <<>>
<1>1. "nodes" \in StageNames
  <2>1. Stages[5] = "nodes" /\ 5 \in DOMAIN Stages
    BY DEF Stages
  <2> QED BY <2>1 DEF StageNames, Range
<1> QED BY <1>1 DEF Nothing

(* The node commands of a built-in definition.                             *)
LEMMA BuiltinNodes ==
  ASSUME NEW t \in Operators \cup {"default", "audit"}
  PROVE  /\ DOMAIN builtinDefinitions[t] = StageNames
         /\ builtinDefinitions[t]["nodes"] \in {DefaultNodes, <<"all">>, <<>>}
<1> DEFINE OK(d) == DOMAIN d = StageNames /\ d["nodes"] \in {DefaultNodes, <<"all">>, <<>>}
<1>1. builtinDefinitions[t] \in {Default, Audit, Virtualization, Storage, Acm, Logging, ServiceMesh,
                                 Serverless, Mce, Netobserv, Cluster}
  BY Zenon DEF builtinDefinitions
<1>2. OK(Cluster) /\ OK(Inspected)
  <2>1. OK(Cluster)
    BY NothingHasNoNodes, WithNodes DEF Cluster
  <2> QED BY <2>1, WithNodes DEF Inspected
<1>3. OK(Default) /\ OK(Audit)
  BY <1>2, WithNodes, NothingHasNoNodes DEF Default, Audit
<1>4. OK(Virtualization) /\ OK(Storage)
  BY <1>2, WithNodes, NothingHasNoNodes DEF Virtualization, Storage
<1>5. OK(Acm) /\ OK(Logging) /\ OK(ServiceMesh) /\ OK(Serverless) /\ OK(Mce) /\ OK(Netobserv)
  BY <1>2, WithNodes, NothingHasNoNodes DEF Acm, Logging, ServiceMesh, Serverless, Mce, Netobserv
<1> QED BY <1>1, <1>2, <1>3, <1>4, <1>5

(* When a run of several types leaves the default definition out, in each  *)
(* of the three modes.                                                     *)
LEMMA DefaultIsSkipped ==
  ASSUME NEW types, NEW i
  PROVE /\ SkipsDefault("hub", types, i) <=> (Len(types) > 1 /\ types[i] # "default")
        /\ SkipsDefault("agent", types, i) <=> (i > 1 /\ "default" \in Range(types))
        /\ SkipsDefault("standalone", types, i) <=> (i > 1)
<1>1. SkipsDefault("hub", types, i) <=> (Len(types) > 1 /\ types[i] # "default")
  BY Zenon DEF SkipsDefault
<1>2. SkipsDefault("agent", types, i) <=> (i > 1 /\ "default" \in Range(types))
  BY Zenon DEF SkipsDefault
<1>3. SkipsDefault("standalone", types, i) <=> (i > 1)
  BY Zenon DEF SkipsDefault
<1> QED BY <1>1, <1>2, <1>3

(* The definitions that the first n runs of a gather go through, where the *)
(* runs of several types do not share one.                                 *)
Covered(g, n) ==
  LET types == request[g].types IN
  IF n = 0 THEN {}
  ELSE IF types = <<"all">> THEN Wanted(g)
  ELSE {types[i] : i \in 1..n} \cup
       IF Len(types) = 1 \/ Shared(g) THEN {"default"} ELSE {}

(* What Append does to no and to one element.                              *)
LEMMA Appended ==
  /\ \A x : Append(<<>>, x) = <<x>>
  /\ \A x, y : Append(<<x>>, y) = <<x, y>>
<1>1. ASSUME NEW x, NEW y PROVE Append(<<x>>, y) = <<x, y>>
  <2> DEFINE S == {x, y}
             a == <<x>>
             b == <<x, y>>
             c == Append(a, y)
  <2>1. a \in Seq(S) /\ y \in S /\ Len(a) = 1 /\ a[1] = x
    OBVIOUS
  <2>2. b \in Seq(S) /\ Len(b) = 2 /\ b[1] = x /\ b[2] = y
    OBVIOUS
  <2> HIDE DEF S, a, b
  <2>3. c \in Seq(S) /\ Len(c) = 2 /\ c[1] = x /\ c[2] = y
    BY <2>1 DEF a
  <2> HIDE DEF c
  <2>4. c = b
    BY <2>2, <2>3
  <2> QED BY <2>4 DEF a, b, c
<1>2. ASSUME NEW x PROVE Append(<<>>, x) = <<x>>
  OBVIOUS
<1> QED BY <1>1, <1>2

(* The short lists.                                                        *)
LEMMA OneList ==
  /\ Lists(<<>>, {})
  /\ \A x : Lists(<<x>>, {x})
  /\ \A x, y : x # y => Lists(<<x, y>>, {x, y})
<1>1. Lists(<<>>, {})
  BY DEF Lists, Range, IsInjective
<1>2. ASSUME NEW x PROVE Lists(<<x>>, {x})
  BY DEF Lists, Range, IsInjective
<1>3. ASSUME NEW x, NEW y, x # y PROVE Lists(<<x, y>>, {x, y})
  <2>1. DOMAIN <<x, y>> = {1, 2} /\ <<x, y>>[1] = x /\ <<x, y>>[2] = y
    OBVIOUS
  <2> QED BY <1>3, <2>1 DEF Lists, Range, IsInjective
<1> QED BY <1>1, <1>2, <1>3

(* What a run adds to the definitions that are covered.                    *)
LEMMA RunAdds ==
  ASSUME NEW g \in Gathers, request[g] \in Requests, AsksForDefault(g),
         work[g].run \in 1..Len(request[g].types), NEW plan \in Plans(g)
  PROVE  \E S : /\ Lists(plan, S) /\ S \cap Covered(g, work[g].run - 1) = {}
                /\ Covered(g, work[g].run) = S \cup Covered(g, work[g].run - 1)
<1> DEFINE n == work[g].run
           types == request[g].types
           detected == request[g].detected
           t == types[n]
           single == Len(types) = 1
           skip == SkipsDefault(request[g].mode, types, n)
           before == {types[i] : i \in 1..(n - 1)}
           common == IF single \/ Shared(g) THEN {"default"} ELSE {}
<1>1. /\ types \in Seq(STRING) /\ Len(types) \in Nat \ {0} /\ DOMAIN types = 1..Len(types)
      /\ request[g].mode \in {"hub", "agent", "standalone"} /\ detected \subseteq Operators
  BY RequestsAssumption
<1>a. n \in 1..Len(types) /\ Type(g) = t
  BY DEF Type
<1>b. /\ IsInjective(types) /\ "custom" \notin Range(types)
      /\ Len(types) > 1 => "default" \in Range(types) /\ "all" \notin Range(types)
      /\ Range(types) \subseteq Defined(request[g].overlays) \cup {"all"}
  BY DEF AsksForDefault
<1> HIDE DEF n, types
<1>2. n \in Nat /\ t \in Range(types) /\ (single => n = 1) /\ (~single <=> Len(types) > 1)
  BY <1>1, <1>a DEF Range
<1>3. /\ t # "custom"
      /\ ~single => "default" \in Range(types) /\ "all" \notin Range(types)
      /\ t \in Defined(request[g].overlays) \cup {"all"}
  BY <1>b, <1>2
<1>4. plan \in loadDefinitions(t, detected, skip, request[g].overlays)
  <2>1. ~Chosen(g)
    <3>1. types = <<"custom">> => t = "custom"
      BY <1>a
    <3> QED BY <1>3, <3>1 DEF Chosen, types
  <2> QED BY <1>a, <2>1 DEF Plans, types, n
<1>5. skip <=> ~single /\ IF Shared(g) THEN n > 1 ELSE t # "default"
  <2>1. n > 1 => ~single
    BY <1>1, <1>2
  <2>3. CASE request[g].mode = "hub"
    BY <1>2, <2>3, DefaultIsSkipped DEF Shared
  <2>4. CASE request[g].mode \in {"agent", "standalone"}
    <3>1. skip <=> n > 1
      BY <1>3, <2>1, <2>4, DefaultIsSkipped
    <3> QED BY <2>1, <2>4, <3>1 DEF Shared
  <2> QED BY <1>1, <2>3, <2>4
<1>6. t \notin before /\ (n = 1 => before = {})
  <2>1. ASSUME NEW i \in 1..(n - 1) PROVE types[i] # t
    BY <1>1, <1>a, <1>b DEF IsInjective
  <2> QED BY <1>2, <2>1
<1>7. CASE t = "all"
  <2>1. single /\ n = 1 /\ ~skip
    BY <1>2, <1>3, <1>5, <1>7
  <2>2. types = <<"all">>
    BY <1>1, <1>7, <2>1
  <2>4. Covered(g, n - 1) = {} /\ Covered(g, n) = {"default"} \cup ({"audit"} \cup detected)
    BY <2>1, <2>2 DEF Covered, Wanted, types
  <2>5. PICK found \in SetToSeqs(detected \cap Operators) :
          plan = <<"default">> \o found \o <<"audit">>
    BY <1>4, <1>7, <2>1 DEF loadDefinitions, Common
  <2>6. /\ detected \cap Operators = detected
        /\ "default" \notin detected /\ "audit" \notin detected
    BY <1>1 DEF Operators, ComplianceToGitops, LocalStorageToLvms
  <2>7. Lists(found, detected)
    BY <2>5, <2>6, OperatorsAreFinite, OrdersExist, FS_Intersection
  <2> HIDE DEF detected
  <2>8. Lists(<<"default">> \o found, {"default"} \cup detected)
    BY <2>6, <2>7, OneList, ListsConcat
  <2>9. Lists(plan, ({"default"} \cup detected) \cup {"audit"})
    BY <2>5, <2>6, <2>8, OneList, ListsConcat
  <2>10. Covered(g, n) = ({"default"} \cup detected) \cup {"audit"}
    BY <2>4
  <2> DEFINE S == ({"default"} \cup detected) \cup {"audit"}
  <2>11. /\ Lists(plan, S) /\ S \cap Covered(g, n - 1) = {}
         /\ Covered(g, n) = S \cup Covered(g, n - 1)
    BY <2>4, <2>9, <2>10
  <2> HIDE DEF S
  <2> QED BY <2>11 DEF n
<1>8. CASE t # "all"
  <2>1. types # <<"all">>
    BY <1>2, <1>8
  <2>2. /\ Covered(g, n - 1) = IF n = 1 THEN {} ELSE before \cup common
        /\ Covered(g, n) = (before \cup {t}) \cup common
    <3>1. {types[i] : i \in 1..n} = before \cup {t}
      BY <1>1, <1>a, <1>2
    <3>2. n # 0 /\ n - 1 # 0 <=> n # 1
      BY <1>a, <1>1
    <3> QED BY <1>a, <1>1, <2>1, <3>1 DEF Covered, types
  <2>3. plan = IF t = "default" THEN Common(skip) ELSE Append(Common(skip), t)
    BY <1>4, <1>8 DEF loadDefinitions
  <2>4. /\ t = "default" => plan = IF skip THEN <<>> ELSE <<t>>
        /\ t # "default" => plan = IF skip THEN <<t>> ELSE <<"default", t>>
    <3> HIDE DEF t, skip
    <3>1. Append(<<>>, t) = <<t>> /\ Append(<<"default">>, t) = <<"default", t>>
      BY Appended
    <3>2. Common(skip) = IF skip THEN <<>> ELSE <<"default">>
      BY DEF Common
    <3>3. CASE skip
      BY <2>3, <3>1, <3>2, <3>3
    <3>4. CASE ~skip
      BY <2>3, <3>1, <3>2, <3>4
    <3> QED BY <3>3, <3>4
  <2> DEFINE now == Covered(g, n)
             past == Covered(g, n - 1)
  <2>5. now = (before \cup {t}) \cup common /\ past = IF n = 1 THEN {} ELSE before \cup common
    BY <2>2
  <2>6. n \in Nat /\ (n = 1 \/ n > 1)
    BY <1>1, <1>a
  <2> HIDE DEF before, t, skip, single, n, now, past
  <2>7. CASE skip /\ t = "default"
    <3>1. Lists(plan, {}) /\ now = past
      BY <1>5, <2>4, <2>5, <2>6, <2>7, OneList
    <3> QED BY <3>1 DEF now, past, n
  <2>8. CASE skip /\ t # "default"
    <3>1. Lists(plan, {t}) /\ now = {t} \cup past /\ t \notin past
      BY <1>2, <1>5, <1>6, <2>4, <2>5, <2>6, <2>8, OneList
    <3> QED BY <3>1 DEF now, past, n
  <2>9. CASE ~skip /\ t = "default"
    <3>1. Lists(plan, {t}) /\ now = {t} \cup past /\ t \notin past
      BY <1>2, <1>5, <1>6, <2>4, <2>5, <2>6, <2>9, OneList
    <3> QED BY <3>1 DEF now, past, n
  <2>10. CASE ~skip /\ t # "default"
    <3>1. Lists(plan, {"default", t}) /\ now = {"default", t} \cup past /\ past = {}
      BY <1>2, <1>5, <1>6, <2>4, <2>5, <2>6, <2>10, OneList
    <3> QED BY <3>1 DEF now, past, n
  <2> QED BY <2>7, <2>8, <2>9, <2>10
<1> QED BY <1>7, <1>8

(* Each run of a gather that asks for the default has a plan.              *)
LEMMA RunsHavePlans ==
  ASSUME NEW g \in Gathers, request[g] \in Requests, AsksForDefault(g),
         work[g].run \in 1..Len(request[g].types)
  PROVE  Plans(g) # {}
<1> DEFINE r == request[g]
           n == work[g].run
<1>1. r.types[n] \in Range(r.types) /\ Type(g) = r.types[n]
  BY RequestsAssumption DEF RequestsAssumption, Type, Range
<1>2. r.types[n] # "custom" /\ r.types[n] \in Defined(r.overlays) \cup {"all"}
  BY <1>1 DEF AsksForDefault
<1>3. SetToSeqs(r.detected \cap Operators) # {}
  BY OperatorsAreFinite, OrdersExist, FS_Intersection
<1>4. ~Chosen(g)
  <2>1. r.types = <<"custom">> => r.types[n] = "custom"
    OBVIOUS
  <2> QED BY <1>2, <2>1 DEF Chosen
<1> QED BY <1>1, <1>2, <1>3, <1>4 DEF Plans, loadDefinitions

(* After the last run, every definition that is wanted is covered.         *)
LEMMA AllRunsCover ==
  ASSUME NEW g \in Gathers, request[g] \in Requests, AsksForDefault(g)
  PROVE  Covered(g, Len(request[g].types)) = Wanted(g)
<1> DEFINE types == request[g].types
<1>1. types \in Seq(STRING) /\ Len(types) \in Nat /\ Len(types) >= 1
  BY RequestsAssumption
<1>b. Range(types) = {types[i] : i \in 1..Len(types)}
  BY <1>1 DEF Range
<1>a. Len(types) > 1 => "default" \in Range(types)
  BY DEF AsksForDefault
<1> HIDE DEF types
<1>2. Len(types) # 1 => "default" \in Range(types)
  <2>1. \A n \in Nat : n >= 1 => n = 1 \/ n > 1
    OBVIOUS
  <2> QED BY <1>1, <1>a, <2>1
<1> USE DEF types
<1>3. CASE types = <<"all">>
  BY <1>1, <1>3 DEF Covered
<1>4. CASE types # <<"all">>
  <2>1. Covered(g, Len(types)) =
          Range(types) \cup IF Len(types) = 1 \/ Shared(g) THEN {"default"} ELSE {}
    BY <1>1, <1>b, <1>4 DEF Covered
  <2>2. Wanted(g) = {"default"} \cup Range(types)
    BY <1>4 DEF Wanted
  <2> HIDE DEF types
  <2> QED BY <1>2, <2>1, <2>2 DEF types
<1> QED BY <1>3, <1>4

-----------------------------------------------------------------------------
(* The progress of a gather.  PlanIsCovered says something of complete     *)
(* gathers only; what holds on the way is that the definitions collected   *)
(* and those still planned are, together, what the runs so far cover.      *)

(* Where a gather is in a group of node commands, in a definition, and in  *)
(* a run.                                                                  *)
OnNodes == {"nodes", "wait", "commands", "command"}
InDefinition == OnNodes \cup {"stage", "tools", "tools wait", "exec"}
InRun == InDefinition \cup {"definition"}

(* The names that a plan may have.                                         *)
Named(g) == Defined(request[g].overlays) \cup (IF Chosen(g) THEN {"custom"} ELSE {})

(* What is left of the node stage: groups of commands and their nodes.     *)
IsGroups(todo) ==
  /\ todo \in Seq(Range(todo))
  /\ \A group \in Range(todo) : group.nodes \in 0..AllNodes

(* Where a gather is and what it has left to do fit together.              *)
Progress(g) ==
  LET w == work[g]
      runs == Len(request[g].types)
  IN  /\ w.run \in 1..(runs + 1) /\ (at[g] \in InRun => w.run <= runs)
      /\ w.plan \in Seq(Named(g)) /\ (at[g] \in InDefinition => w.plan # <<>>)
      /\ w.stage \in 1..5 /\ (at[g] \in OnNodes => w.stage = 5)
      /\ w.stage = 5 => IsGroups(w.todo)
      /\ at[g] \in OnNodes \cup {"exec"} => w.todo # <<>>
      /\ w.nodes \in 0..AllNodes /\ (at[g] \in OnNodes \ {"nodes"} => w.nodes > 0)
      /\ result[g].collected \in Seq(Named(g))
      /\ result[g].failing \subseteq 1..runs /\ result[g].reported \subseteq 1..runs
      /\ result[g].unwritten \subseteq 1..runs

(* What a gather has collected, and what its run still has planned, list   *)
(* the definitions that the runs so far go through.                        *)
Covers(g) ==
  AsksForDefault(g) /\ ~stopped[g] /\ at[g] \in InRun \cup {"load", "complete"} =>
    /\ at[g] \notin InRun => work[g].plan = <<>>
    /\ at[g] = "complete" => work[g].run > Len(request[g].types)
    /\ Lists(result[g].collected \o work[g].plan,
             Covered(g, IF at[g] \in InRun THEN work[g].run ELSE work[g].run - 1))

(* The groups that are left when one is done.                              *)
LEMMA GroupsGoOn ==
  /\ IsGroups(<<>>)
  /\ \A todo : IsGroups(todo) /\ todo # <<>> =>
       Head(todo).nodes \in 0..AllNodes /\ IsGroups(Tail(todo))
<1>1. IsGroups(<<>>)
  BY DEF IsGroups, Range
<1>2. ASSUME NEW todo, IsGroups(todo), todo # <<>>
      PROVE  Head(todo).nodes \in 0..AllNodes /\ IsGroups(Tail(todo))
  <2> DEFINE S == Range(todo)
  <2>1. todo \in Seq(S) /\ \A group \in S : group.nodes \in 0..AllNodes
    BY <1>2 DEF IsGroups
  <2> HIDE DEF S
  <2>2. Head(todo) \in S /\ Tail(todo) \in Seq(S)
    BY <1>2, <2>1
  <2> DEFINE t == Tail(todo)
  <2>3. t \in Seq(S)
    BY <2>2
  <2> HIDE DEF t
  <2>4. Range(t) \subseteq S /\ t \in Seq(Range(t))
    BY <2>3 DEF Range
  <2>5. IsGroups(t)
    BY <2>1, <2>4 DEF IsGroups
  <2> QED BY <2>1, <2>2, <2>5 DEF t
<1> QED BY <1>1, <1>2

(* The groups of any node commands.                                        *)
LEMMA GroupsAreGroups ==
  ASSUME NEW specs \in Seq(Selectors), NEW todo \in Groups(specs)
  PROVE  IsGroups(todo)
<1>1. IsFiniteSet(Range(specs))
  <2>1. specs \in Surjection(1..Len(specs), Range(specs))
    BY DEF Surjection, Range
  <2>2. Len(specs) \in Nat
    OBVIOUS
  <2> QED BY <2>1, <2>2, FS_Surjection, FS_Interval
<1>2. PICK order \in SetToSeqs(Range(specs)) :
        todo = [i \in DOMAIN order |->
                 [nodes |-> Count(order[i]),
                  commands |-> Len(SelectSeq(specs, LAMBDA s : s = order[i]))]]
  BY DEF Groups
<1>3. order \in Seq(Range(specs))
  BY <1>1, OrdersExist DEF Lists
<1>4. DOMAIN order = 1..Len(order) /\ Len(order) \in Nat
  BY <1>3
<1>5. DOMAIN todo = 1..Len(order) /\ \A i \in 1..Len(order) : todo[i].nodes \in 0..AllNodes
  <2>1. \A selector : Count(selector) \in 0..AllNodes
    BY CollectorAssumption DEF Count
  <2>2. \A i \in DOMAIN order : todo[i].nodes = Count(order[i])
    BY <1>2
  <2> QED BY <1>2, <1>4, <2>1, <2>2
<1>6. todo \in Seq(Range(todo))
  <2>1. todo \in [1..Len(order) -> Range(todo)]
    BY <1>2, <1>4 DEF Range
  <2> QED BY <1>4, <2>1
<1> QED BY <1>5, <1>6 DEF IsGroups, Range

(* Every definition that a plan names has well-formed node commands.       *)
LEMMA NodeSpecs ==
  ASSUME NEW g \in Gathers, request[g] \in Requests, NEW name \in Named(g)
  PROVE  Definition(g, name)["nodes"] \in Seq(Selectors)
<1> DEFINE o == request[g].overlays
<1>1. \A t \in DOMAIN o : o[t]["nodes"] \in Seq(Selectors)
  BY RequestsAssumption
<1> HIDE DEF o
<1>2. \A t \in DOMAIN builtinDefinitions : builtinDefinitions[t]["nodes"] \in Seq(Selectors)
  <2>1. DOMAIN builtinDefinitions = Operators \cup {"default", "audit"}
    BY Zenon DEF builtinDefinitions
  <2>2. DefaultNodes \in Seq(Selectors)
    BY DEF DefaultNodes, Selectors
  <2>3. <<"all">> \in Seq(Selectors) /\ <<>> \in Seq(Selectors)
    BY DEF Selectors
  <2> QED BY <2>1, <2>2, <2>3, BuiltinNodes
<1>3. CASE Chosen(g)
  <2> DEFINE c(chosen) == With(Nothing, "namespaced", [i \in 1..Cardinality(chosen) |-> "named"])
  <2>1. \A chosen : DOMAIN c(chosen) = StageNames /\ c(chosen)["nodes"] = <<>>
    BY NothingHasNoNodes, WithNodes
  <2> HIDE DEF c
  <2>2. \A chosen, x : With(c(chosen), "logs", x)["nodes"] = <<>>
    BY <2>1, WithNodes
  <2>3. Definition(g, name)["nodes"] = <<>>
    BY <1>3, <2>1, <2>2 DEF Definition, buildCustomDefinition, c
  <2> QED BY <2>3
<1>4. CASE ~Chosen(g)
  <2>1. Definition(g, name) = getDefinition(name, o) /\ name \in Defined(o)
    BY <1>4 DEF Definition, Named, o
  <2>2. CASE name \notin DOMAIN o
    BY <1>2, <2>1, <2>2 DEF getDefinition, Defined
  <2>3. CASE name \in DOMAIN o /\ name \notin DOMAIN builtinDefinitions
    BY <1>1, <2>1, <2>3 DEF getDefinition
  <2>4. CASE name \in DOMAIN o /\ name \in DOMAIN builtinDefinitions
    <3>1. "nodes" \in StageNames
      <4>1. Stages[5] = "nodes" /\ 5 \in DOMAIN Stages
        BY DEF Stages
      <4> QED BY <4>1 DEF StageNames, Range
    <3>2. getDefinition(name, o)["nodes"] = builtinDefinitions[name]["nodes"] \o o[name]["nodes"]
      BY <2>4, <3>1 DEF getDefinition, mergeDefinitions
    <3>3. builtinDefinitions[name]["nodes"] \in Seq(Selectors) /\ o[name]["nodes"] \in Seq(Selectors)
      BY <1>1, <1>2, <2>4
    <3> QED BY <2>1, <3>2, <3>3
  <2> QED BY <2>2, <2>3, <2>4
<1> QED BY <1>3, <1>4

(* A plan names definitions that there are.                                *)
LEMMA PlansAreNamed ==
  ASSUME NEW g \in Gathers, request[g] \in Requests, NEW plan \in Plans(g)
  PROVE  plan \in Seq(Named(g))
<1> DEFINE N == Named(g)
           detected == request[g].detected
           skip == SkipsDefault(request[g].mode, request[g].types, work[g].run)
<1>1. {"default", "audit"} \subseteq N /\ Operators \subseteq N
  <2>1. DOMAIN builtinDefinitions = Operators \cup {"default", "audit"}
    BY Zenon DEF builtinDefinitions
  <2> QED BY <2>1 DEF Named, Defined
<1>2. Defined(request[g].overlays) \subseteq N
  BY DEF Named
<1> HIDE DEF N
<1>3. CASE Chosen(g)
  <2>1. plan = <<"custom">> /\ "custom" \in N
    BY <1>3 DEF Plans, N, Named
  <2> QED BY <2>1 DEF N
<1>4. CASE ~Chosen(g)
  <2>1. plan \in loadDefinitions(Type(g), detected, skip, request[g].overlays)
    BY <1>4 DEF Plans
  <2>2. Common(skip) \in Seq(N)
    BY <1>1 DEF Common
  <2>3. CASE Type(g) = "all"
    <3>1. PICK found \in SetToSeqs(detected \cap Operators) :
            plan = Common(skip) \o found \o <<"audit">>
      BY <2>1, <2>3 DEF loadDefinitions
    <3>2. found \in Seq(detected \cap Operators)
      BY OperatorsAreFinite, OrdersExist, FS_Intersection DEF Lists
    <3>3. found \in Seq(N)
      BY <1>1, <3>2
    <3>4. <<"audit">> \in Seq(N)
      BY <1>1
    <3> QED BY <2>2, <3>1, <3>3, <3>4 DEF N
  <2>4. CASE Type(g) = "default"
    BY <2>1, <2>2, <2>4 DEF loadDefinitions, N
  <2>5. CASE Type(g) \notin {"all", "default"}
    <3>1. PICK name \in Defined(request[g].overlays) : plan = Append(Common(skip), name)
      BY <2>1, <2>5 DEF loadDefinitions
    <3> QED BY <1>2, <2>2, <3>1 DEF N
  <2> QED BY <2>3, <2>4, <2>5
<1> QED BY <1>3, <1>4

(* A step within a definition writes what is left to do and the number of  *)
(* nodes that are left.                                                    *)
Writes(g, todo, nodes) ==
  /\ \A h \in Gathers \ {g} : work'[h] = work[h] /\ result'[h] = result[h]
  /\ work'[g].run = work[g].run /\ work'[g].plan = work[g].plan /\ work'[g].stage = work[g].stage
  /\ work'[g].todo = todo /\ work'[g].nodes = nodes
  /\ result'[g].collected = result[g].collected /\ result'[g].reported = result[g].reported
  /\ result'[g].unwritten = result[g].unwritten
  /\ result'[g].failing \subseteq result[g].failing \cup {work[g].run}

(* A step takes one gather to a label, and no other anywhere.              *)
MovesTo(g, label) ==
  /\ at'[g] = label /\ \A h \in Gathers \ {g} : at'[h] = at[h]
  /\ UNCHANGED <<request, stopped>>

GatherInv ==
  /\ request \in [Gathers -> Requests]
  /\ \A g \in Gathers : Progress(g) /\ Covers(g)

(* What the helpers that the steps of a stage are made of write.           *)
LEMMA Written ==
  ASSUME ReportTypes, NEW g \in Gathers
  PROVE  LET w == work[g] IN
         /\ UNCHANGED <<work, result>> => Writes(g, w.todo, w.nodes)
         /\ Passed(g) \/ PassedFailing(g) => Writes(g, Tail(w.todo), w.nodes)
         /\ LeaveNodes(g) => Writes(g, <<>>, 0)
         /\ LeaveStage(g) => Writes(g, <<>>, w.nodes)
         /\ \A f \in BOOLEAN : /\ NextNode(g, f) => Writes(g, w.todo, w.nodes - 1)
                               /\ CommandDone(g, f) => Writes(g, w.todo, w.nodes)
<1>1. /\ WorkShape(work[g]) /\ ResultShape(result[g])
      /\ work = [h \in Gathers |-> work[h]] /\ result = [h \in Gathers |-> result[h]]
  BY DEF ReportTypes
<1>3. ASSUME Fails(g) \/ UNCHANGED result
      PROVE  /\ \A h \in Gathers \ {g} : result'[h] = result[h]
             /\ result'[g].collected = result[g].collected
             /\ result'[g].reported = result[g].reported
             /\ result'[g].unwritten = result[g].unwritten
             /\ result'[g].failing \subseteq result[g].failing \cup {work[g].run}
  <2>1. CASE Fails(g)
    <3>1. result' = [result EXCEPT ![g].failing = @ \cup {work[g].run}]
      BY <2>1 DEF Fails
    <3>2. /\ \A h \in Gathers \ {g} : result'[h] = result[h]
          /\ result'[g] = [result[g] EXCEPT !.failing = @ \cup {work[g].run}]
      BY <1>1, <3>1
    <3> QED BY <1>1, <3>2 DEF ResultShape
  <2> QED BY <1>3, <2>1
<1>4. ASSUME UNCHANGED <<work, result>> PROVE Writes(g, work[g].todo, work[g].nodes)
  BY <1>3, <1>4 DEF Writes
<1>5. ASSUME Passed(g) \/ PassedFailing(g) PROVE Writes(g, Tail(work[g].todo), work[g].nodes)
  <2>1. CASE Passed(g)
    BY <1>1, <1>3, <2>1 DEF Passed, WorkShape, Writes
  <2>2. CASE PassedFailing(g)
    BY <1>1, <1>3, <2>2 DEF PassedFailing, WorkShape, Writes
  <2> QED BY <1>5, <2>1, <2>2
<1>6. ASSUME LeaveNodes(g) PROVE Writes(g, <<>>, 0)
  BY <1>1, <1>3, <1>6 DEF LeaveNodes, WorkShape, Writes
<1>7. ASSUME NEW f \in BOOLEAN, NextNode(g, f) PROVE Writes(g, work[g].todo, work[g].nodes - 1)
  BY <1>1, <1>3, <1>7 DEF NextNode, WorkShape, Writes
<1>8. ASSUME NEW f \in BOOLEAN, CommandDone(g, f) PROVE Writes(g, work[g].todo, work[g].nodes)
  BY <1>1, <1>3, <1>8 DEF CommandDone, WorkShape, Writes
<1>9. ASSUME LeaveStage(g) PROVE Writes(g, <<>>, work[g].nodes)
  BY <1>1, <1>3, <1>9 DEF LeaveStage, WorkShape, Writes
<1> QED BY <1>4, <1>5, <1>6, <1>7, <1>8, <1>9

(* A step of one gather leaves the progress of the others alone.           *)
LEMMA OthersKeepOn ==
  ASSUME GatherInv, NEW g \in Gathers, UNCHANGED <<request, stopped>>,
         \A h \in Gathers \ {g} : at'[h] = at[h] /\ work'[h] = work[h] /\ result'[h] = result[h],
         Progress(g)', Covers(g)'
  PROVE  GatherInv'
<1> SUFFICES ASSUME NEW h \in Gathers, h # g PROVE Progress(h)' /\ Covers(h)'
  BY DEF GatherInv
<1>1. Progress(h) /\ Covers(h)
  BY DEF GatherInv
<1>2. Progress(h)'
  BY <1>1 DEF Progress, Named, Chosen
<1>3. \A n : Covered(h, n)' = Covered(h, n)
  BY DEF Covered, Wanted, Shared
<1>4. AsksForDefault(h)' = AsksForDefault(h)
  BY DEF AsksForDefault
<1>5. Covers(h)'
  BY <1>1, <1>3, <1>4 DEF Covers
<1> QED BY <1>2, <1>5

(* A step within a definition keeps its gather within the plan.            *)
LEMMA WithinDefinition ==
  ASSUME GatherInv, NEW g \in Gathers, NEW l \in InDefinition, NEW todo, NEW nodes \in 0..AllNodes,
         MovesTo(g, l), Writes(g, todo, nodes), at[g] \in InDefinition,
         work[g].stage = 5 => IsGroups(todo),
         l \in OnNodes => work[g].stage = 5,
         l \in OnNodes \cup {"exec"} => todo # <<>>,
         l \in OnNodes \ {"nodes"} => nodes > 0
  PROVE  GatherInv'
<1>1. Progress(g) /\ Covers(g)
  BY DEF GatherInv
<1>2. request' = request /\ stopped' = stopped /\ at'[g] = l
  BY DEF MovesTo
<1>3. l \in InRun /\ at[g] \in InRun
  BY DEF InRun
<1>4. Progress(g)'
  <2>1. Named(g)' = Named(g)
    BY <1>2 DEF Named, Chosen
  <2>2. work[g].run \in 1..Len(request[g].types)
    BY <1>1, <1>3 DEF Progress
  <2> QED BY <1>1, <1>2, <1>3, <2>1, <2>2 DEF Progress, Writes
<1>5. Covers(g)'
  <2>1. \A n : Covered(g, n)' = Covered(g, n)
    BY <1>2 DEF Covered, Wanted, Shared
  <2>2. AsksForDefault(g)' = AsksForDefault(g)
    BY <1>2 DEF AsksForDefault
  <2>3. "complete" \notin InRun
    BY DEF InRun, InDefinition, OnNodes
  <2> QED BY <1>1, <1>2, <1>3, <2>1, <2>2, <2>3 DEF Covers, Writes
<1> QED BY <1>2, <1>4, <1>5, OthersKeepOn DEF MovesTo, Writes

-----------------------------------------------------------------------------
(* Every step keeps this progress.                                         *)

(* The steps of the stages but the last.                                   *)
LEMMA StageMakesProgress ==
  ASSUME GatherInv, ReportTypes, PodTypes, NEW g \in Gathers,
         \/ LeaveStage(g) \/ Collect(g) \/ CollectFails(g) \/ ensureCephTools(g)
         \/ CephToolsWaitEnds(g) \/ SkipExec(g) \/ StartExec(g) \/ ExecCancelled(g) \/ ExecEnds(g)
  PROVE  GatherInv'
<1> DEFINE w == work[g]
<1> USE DEF gatherVars
<1>1. ASSUME NEW l, Goto(g, l) PROVE at'[g] = l /\ \A h \in Gathers \ {g} : at'[h] = at[h]
  BY <1>1 DEF Goto, PodTypes, Collectors
<1>2. ASSUME UNCHANGED at PROVE at'[g] = at[g] /\ \A h \in Gathers \ {g} : at'[h] = at[h]
  BY <1>2
<1>3. /\ w.stage = 5 => IsGroups(w.todo) /\ IsGroups(<<>>)
      /\ w.stage = 5 /\ w.todo # <<>> => IsGroups(Tail(w.todo))
      /\ at[g] \in OnNodes \cup {"exec"} => w.todo # <<>>
      /\ w.nodes \in 0..AllNodes
  BY GroupsGoOn DEF GatherInv, Progress
<1>4. /\ {"stage", "tools", "tools wait", "exec"} \subseteq InDefinition \ OnNodes
      /\ "stage" # "exec"
  BY DEF InDefinition, OnNodes
<1>5. ASSUME NEW todo, MovesTo(g, "stage"), Writes(g, todo, w.nodes), at[g] \in {"stage", "exec"},
             todo # <<>> => w.todo # <<>> /\ todo = Tail(w.todo)
      PROVE  GatherInv'
  BY <1>3, <1>4, <1>5, WithinDefinition
<1>6. ASSUME NEW l \in {"stage", "tools wait", "exec"}, MovesTo(g, l), UNCHANGED <<work, result>>,
             at[g] \in {"stage", "tools", "tools wait"}, l = "exec" => w.todo # <<>>
      PROVE  GatherInv'
  <2>1. Writes(g, w.todo, w.nodes)
    BY <1>6, Written
  <2> QED BY <1>3, <1>4, <1>6, <2>1, WithinDefinition
<1>7. CASE LeaveStage(g)
  <2>1. MovesTo(g, "stage") /\ at[g] = "stage"
    BY <1>2, <1>7 DEF LeaveStage, MovesTo
  <2>2. Writes(g, <<>>, w.nodes)
    BY <1>7, Written
  <2> QED BY <1>5, <2>1, <2>2
<1>8. CASE Collect(g)
  <2>1. MovesTo(g, "stage") /\ at[g] = "stage" /\ w.todo # <<>>
    BY <1>2, <1>8 DEF Collect, InTodo, MovesTo
  <2>2. Writes(g, Tail(w.todo), w.nodes)
    <3>1. /\ work' = [work EXCEPT ![g].todo = Tail(@)]
          /\ result' = result \/ \E n : result' = [result EXCEPT ![g].lines = n]
      BY <1>8 DEF Collect
    <3>2. /\ \A h \in Gathers \ {g} : work'[h] = work[h] /\ result'[h] = result[h]
          /\ work'[g] = [w EXCEPT !.todo = Tail(@)]
          /\ result'[g] = result[g] \/ \E n : result'[g] = [result[g] EXCEPT !.lines = n]
      BY <3>1 DEF ReportTypes
    <3>3. WorkShape(w) /\ ResultShape(result[g])
      BY DEF ReportTypes
    <3> QED BY <3>2, <3>3 DEF WorkShape, ResultShape, Writes
  <2> QED BY <1>5, <2>1, <2>2
<1>9. CASE CollectFails(g) \/ SkipExec(g)
  <2>1. MovesTo(g, "stage") /\ at[g] = "stage" /\ w.todo # <<>>
    BY <1>2, <1>9 DEF CollectFails, SkipExec, InTodo, MovesTo
  <2>2. Writes(g, Tail(w.todo), w.nodes)
    BY <1>9, Written DEF CollectFails, SkipExec
  <2> QED BY <1>5, <2>1, <2>2
<1>10. CASE ExecCancelled(g) \/ ExecEnds(g)
  <2>1. MovesTo(g, "stage") /\ at[g] = "exec"
    BY <1>1, <1>10 DEF ExecCancelled, ExecEnds, MovesTo
  <2>2. Writes(g, Tail(w.todo), w.nodes)
    BY <1>10, Written DEF ExecCancelled, ExecEnds
  <2>3. w.todo # <<>>
    BY <1>3, <2>1
  <2> QED BY <1>5, <2>1, <2>2, <2>3
<1>11. CASE ensureCephTools(g)
  <2>1. at[g] = "tools" /\ UNCHANGED <<stopped, request, work, result>>
    BY <1>11 DEF ensureCephTools
  <2>2. PICK l \in {"stage", "tools wait"} : Goto(g, l)
    BY <1>11 DEF ensureCephTools
  <2>3. MovesTo(g, l)
    BY <1>1, <2>1, <2>2 DEF MovesTo
  <2> QED BY <1>6, <2>1, <2>3
<1>12. CASE CephToolsWaitEnds(g)
  <2>1. at[g] = "tools wait" /\ Goto(g, "stage") /\ UNCHANGED <<stopped, request, work, result>>
    BY <1>12 DEF CephToolsWaitEnds
  <2>2. MovesTo(g, "stage")
    BY <1>1, <2>1 DEF MovesTo
  <2> QED BY <1>6, <2>1, <2>2
<1>13. CASE StartExec(g)
  <2>1. /\ at[g] = "stage" /\ Goto(g, "exec") /\ UNCHANGED <<stopped, request, work, result>>
        /\ w.todo # <<>>
    BY <1>13 DEF StartExec, InTodo
  <2>2. MovesTo(g, "exec")
    BY <1>1, <2>1 DEF MovesTo
  <2> QED BY <1>6, <2>1, <2>2
<1> QED BY <1>7, <1>8, <1>9, <1>10, <1>11, <1>12, <1>13

(* The steps of the last stage, on the nodes.                              *)
LEMMA NodesMakeProgress ==
  ASSUME GatherInv, ReportTypes, PodTypes, NEW g \in Gathers, NodeStep(g) \/ CommandEnds(g)
  PROVE  GatherInv'
<1> DEFINE w == work[g]
<1> USE DEF gatherVars
<1>1. ASSUME NEW l, Goto(g, l) PROVE at'[g] = l /\ \A h \in Gathers \ {g} : at'[h] = at[h]
  BY <1>1 DEF Goto, PodTypes, Collectors
<1>2. ASSUME UNCHANGED at PROVE at'[g] = at[g] /\ \A h \in Gathers \ {g} : at'[h] = at[h]
  BY <1>2
<1>3. /\ w.stage = 5 => IsGroups(w.todo) /\ IsGroups(<<>>)
      /\ w.stage = 5 /\ w.todo # <<>> => IsGroups(Tail(w.todo)) /\ Head(w.todo).nodes \in 0..AllNodes
      /\ at[g] \in OnNodes => w.stage = 5 /\ w.todo # <<>>
      /\ at[g] \in OnNodes \ {"nodes"} => w.nodes > 0
      /\ w.nodes \in 0..AllNodes /\ w.stage \in 1..5
  BY GroupsGoOn DEF GatherInv, Progress
<1>4. /\ {"nodes", "wait", "commands", "command"} = OnNodes
      /\ "stage" \in InDefinition \ OnNodes /\ OnNodes \subseteq InDefinition
      /\ "exec" \notin OnNodes /\ "stage" # "exec"
  BY DEF InDefinition, OnNodes
(* A gather leaves a group or the stage. *)
<1>5. ASSUME NEW todo, NEW nodes \in 0..AllNodes, MovesTo(g, "stage"), Writes(g, todo, nodes),
             at[g] \in OnNodes \cup {"stage"}, w.stage = 5, w.todo # <<>>, todo \in {<<>>, Tail(w.todo)}
      PROVE  GatherInv'
  BY <1>3, <1>4, <1>5, WithinDefinition
(* A gather stays in a group. *)
<1>6. ASSUME NEW l \in OnNodes, NEW nodes \in 0..AllNodes, MovesTo(g, l), Writes(g, w.todo, nodes),
             at[g] \in OnNodes \cup {"stage"}, w.stage = 5, w.todo # <<>>, l # "nodes" => nodes > 0
      PROVE  GatherInv'
  BY <1>3, <1>4, <1>6, WithinDefinition
<1>7. ASSUME InTodo(g), InStage(g, {"nodes"})
      PROVE  at[g] = "stage" /\ w.stage = 5 /\ w.todo # <<>>
  BY <1>3, <1>7 DEF InTodo, InStage, Stages
(* The next node of a group. *)
<1>8. ASSUME NEW f \in BOOLEAN, NextNode(g, f), UNCHANGED <<request, stopped>>,
             at[g] \in OnNodes, w.nodes > 0
      PROVE  GatherInv'
  <2>1. MovesTo(g, "nodes")
    BY <1>1, <1>8 DEF NextNode, MovesTo
  <2>2. Writes(g, w.todo, w.nodes - 1) /\ w.nodes - 1 \in 0..AllNodes
    BY <1>3, <1>8, Written, CollectorAssumption
  <2> QED BY <1>3, <1>4, <1>6, <1>8, <2>1, <2>2
<1>9. ASSUME LeaveNodes(g), UNCHANGED <<request, stopped>>, at[g] \in OnNodes
      PROVE  GatherInv'
  <2>1. MovesTo(g, "stage")
    BY <1>1, <1>9 DEF LeaveNodes, MovesTo
  <2>2. Writes(g, <<>>, 0) /\ 0 \in 0..AllNodes
    BY <1>9, Written, CollectorAssumption
  <2> QED BY <1>3, <1>5, <1>9, <2>1, <2>2
<1>10. CASE ListNodes(g)
  <2>1. at[g] = "stage" /\ w.stage = 5 /\ w.todo # <<>>
    BY <1>7, <1>10 DEF ListNodes
  <2>2. MovesTo(g, "nodes")
    BY <1>1, <1>10 DEF ListNodes, MovesTo
  <2>3. Writes(g, w.todo, Head(w.todo).nodes)
    <3>1. work' = [work EXCEPT ![g].nodes = Head(work[g].todo).nodes] /\ result' = result
      BY <1>10 DEF ListNodes
    <3> QED BY <3>1 DEF ReportTypes, WorkShape, ResultShape, Writes
  <2> QED BY <1>3, <1>4, <1>6, <2>1, <2>2, <2>3
<1>11. CASE ListNodesFails(g)
  <2>1. at[g] = "stage" /\ w.stage = 5 /\ w.todo # <<>>
    BY <1>7, <1>11 DEF ListNodesFails
  <2>2. MovesTo(g, "stage")
    BY <1>2, <1>11, <2>1 DEF ListNodesFails, MovesTo
  <2>3. Writes(g, Tail(w.todo), w.nodes)
    BY <1>11, Written DEF ListNodesFails
  <2> QED BY <1>3, <1>5, <2>1, <2>2, <2>3
<1>12. CASE EndGroup(g)
  <2>1. at[g] = "nodes" /\ UNCHANGED <<request, stopped>>
    BY <1>12 DEF EndGroup
  <2>2. CASE Passed(g) /\ Goto(g, "stage")
    <3>1. MovesTo(g, "stage")
      BY <1>1, <2>1, <2>2 DEF MovesTo
    <3>2. Writes(g, Tail(w.todo), w.nodes)
      BY <2>2, Written
    <3> QED BY <1>3, <1>4, <1>5, <2>1, <3>1, <3>2
  <2>3. CASE LeaveNodes(g)
    BY <1>4, <1>9, <2>1, <2>3
  <2> QED BY <1>12, <2>2, <2>3 DEF EndGroup
<1>13. CASE CreateOnNode(g)
  <2>1. at[g] = "nodes" /\ w.nodes > 0 /\ UNCHANGED <<request, stopped>>
    BY <1>13 DEF CreateOnNode
  <2>2. CASE Goto(g, "wait") /\ UNCHANGED <<work, result>>
    <3>1. MovesTo(g, "wait")
      BY <1>1, <2>1, <2>2 DEF MovesTo
    <3>2. Writes(g, w.todo, w.nodes)
      BY <2>2, Written
    <3> QED BY <1>3, <1>4, <1>6, <2>1, <3>1, <3>2
  <2>3. CASE NextNode(g, TRUE)
    BY <1>4, <1>8, <2>1, <2>3
  <2> QED BY <1>13, <2>2, <2>3 DEF CreateOnNode
<1>14. CASE NodeReady(g)
  <2>1. at[g] = "wait" /\ MovesTo(g, "commands")
    BY <1>1, <1>14 DEF NodeReady, MovesTo
  <2>2. Writes(g, w.todo, w.nodes)
    <3>1. work' = [work EXCEPT ![g].commands = Head(work[g].todo).commands] /\ result' = result
      BY <1>14 DEF NodeReady
    <3> QED BY <3>1 DEF ReportTypes, WorkShape, ResultShape, Writes
  <2> QED BY <1>3, <1>4, <1>6, <2>1, <2>2
<1>15. CASE NodeNotReady(g)
  <2>1. at[g] = "wait" /\ UNCHANGED <<request, stopped>> /\ NextNode(g, TRUE)
    BY <1>15 DEF NodeNotReady
  <2> QED BY <1>3, <1>4, <1>8, <2>1
<1>16. CASE StartCommand(g)
  <2>1. at[g] = "commands" /\ MovesTo(g, "command")
    BY <1>1, <1>16 DEF StartCommand, MovesTo
  <2>2. Writes(g, w.todo, w.nodes)
    <3>1. UNCHANGED <<work, result>>
      BY <1>16 DEF StartCommand
    <3> QED BY <3>1, Written
  <2> QED BY <1>3, <1>4, <1>6, <2>1, <2>2
<1>17. CASE CommandCancelled(g) \/ CommandEnds(g)
  <2>1. PICK f \in BOOLEAN : CommandDone(g, f)
    BY <1>17 DEF CommandCancelled, CommandEnds
  <2>2. at[g] = "command" /\ UNCHANGED <<request, stopped>>
    BY <1>17 DEF CommandCancelled, CommandEnds
  <2>3. MovesTo(g, "commands")
    BY <1>1, <2>1, <2>2 DEF CommandDone, MovesTo
  <2>4. Writes(g, w.todo, w.nodes)
    BY <2>1, Written
  <2> QED BY <1>3, <1>4, <1>6, <2>2, <2>3, <2>4
<1>18. CASE LeaveNode(g)
  <2>1. at[g] = "commands" /\ UNCHANGED <<request, stopped>> /\ (NextNode(g, FALSE) \/ LeaveNodes(g))
    BY <1>18 DEF LeaveNode
  <2> QED BY <1>3, <1>4, <1>8, <1>9, <2>1
<1> QED BY <1>10, <1>11, <1>12, <1>13, <1>14, <1>15, <1>16, <1>17, <1>18 DEF NodeStep

(* The steps of runs: loading a plan, going from one definition and one    *)
(* stage to the next, and ending the run.                                  *)
LEMMA RunMakesProgress ==
  ASSUME GatherInv, ReportTypes, PodTypes, NEW g \in Gathers,
         RunStep(g) \/ NextStage(g) \/ EndDefinition(g)
  PROVE  GatherInv'
<1> DEFINE w == work[g]
           r == result[g]
           runs == Len(request[g].types)
<1> USE DEF gatherVars
<1>1. ASSUME NEW l, Goto(g, l) PROVE at'[g] = l /\ \A h \in Gathers \ {g} : at'[h] = at[h]
  BY <1>1 DEF Goto, PodTypes, Collectors
<1>2. /\ WorkShape(w) /\ ResultShape(r)
      /\ work = [h \in Gathers |-> work[h]] /\ result = [h \in Gathers |-> result[h]]
  BY DEF ReportTypes
<1>3. Progress(g) /\ Covers(g) /\ request[g] \in Requests
  BY DEF GatherInv
<1>4. UNCHANGED <<request, stopped>>
  BY DEF RunStep, EndGather, GiveUp, Load, RunFails, StartDefinition, EndRun, NextStage, EndDefinition
<1>5. /\ \A n : Covered(g, n)' = Covered(g, n)
      /\ AsksForDefault(g)' = AsksForDefault(g) /\ Named(g)' = Named(g)
  BY <1>4 DEF Covered, Wanted, Shared, AsksForDefault, Named, Chosen
<1>6. /\ w.plan \in Seq(Named(g)) /\ r.collected \in Seq(Named(g)) /\ IsGroups(<<>>)
      /\ r.collected \o <<>> = r.collected /\ <<>> \in Seq(Named(g))
  BY <1>3, GroupsGoOn DEF Progress
<1>7. runs \in Nat /\ w.run \in Nat /\ w.run >= 1
  BY <1>3, RequestsAssumption DEF Progress
<1>8. /\ "complete" \notin InRun /\ "failed" \notin InRun /\ "stopped" \notin InRun /\ "load" \notin InRun
      /\ "stage" \in InRun /\ "tools" \in InRun /\ "definition" \in InRun
      /\ "definition" \notin InDefinition /\ "load" \notin InDefinition
      /\ InDefinition \subseteq InRun /\ OnNodes \subseteq InDefinition
      /\ {"stage", "tools"} \cap (OnNodes \cup {"exec"}) = {}
      /\ {"stage", "tools"} \subseteq InDefinition
      /\ {"complete", "failed", "stopped", "load", "definition"} \cap (OnNodes \cup {"exec"}) = {}
      /\ {"complete", "failed", "stopped", "load", "definition"} \cap InDefinition = {}
  BY DEF InRun, InDefinition, OnNodes
(* The gather goes on in the same run, with the same definitions before it *)
(* and behind.                                                             *)
<1>a. ASSUME at[g] \in InRun, at'[g] \in InRun, work'[g].run = w.run,
             result'[g].collected \o work'[g].plan = r.collected \o w.plan
      PROVE  Covers(g)'
  <2>1. AsksForDefault(g) /\ ~stopped[g] => Lists(r.collected \o w.plan, Covered(g, w.run))
    BY <1>3, <1>a DEF Covers
  <2>2. Covered(g, w.run)' = Covered(g, w.run)
    BY <1>4, <1>a DEF Covered, Wanted, Shared
  <2>3. AsksForDefault(g)' /\ ~stopped'[g] =>
          Lists(result'[g].collected \o work'[g].plan, Covered(g, w.run)')
    BY <1>4, <1>5, <1>a, <2>1, <2>2
  <2>4. at'[g] # "complete"
    BY <1>8, <1>a
  <2> QED BY <1>a, <2>3, <2>4 DEF Covers
(* The gather is over. *)
<1>9. ASSUME NEW l \in {"complete", "failed", "stopped"}, Goto(g, l), UNCHANGED <<work, result>>,
             l = "complete" => at[g] = "load" /\ w.run > runs
      PROVE  GatherInv'
  <2>1. at'[g] = l /\ \A h \in Gathers \ {g} : at'[h] = at[h]
    BY <1>1, <1>9
  <2>2. Progress(g)'
    BY <1>3, <1>4, <1>5, <1>8, <1>9, <2>1 DEF Progress
  <2>3. Covers(g)'
    BY <1>3, <1>4, <1>5, <1>8, <1>9, <2>1 DEF Covers
  <2> QED BY <1>4, <1>9, <2>1, <2>2, <2>3, OthersKeepOn
<1>10. CASE EndGather(g) \/ GiveUp(g)
  BY <1>9, <1>10 DEF EndGather, GiveUp
(* The next run follows. *)
<1>11. ASSUME NextRun(g), at'[g] = "load", \A h \in Gathers \ {g} : at'[h] = at[h], w.run <= runs,
              \A h \in Gathers \ {g} : result'[h] = result[h],
              result'[g].collected = r.collected, result'[g].failing = r.failing,
              result'[g].reported \subseteq r.reported \cup {w.run},
              result'[g].unwritten \subseteq r.unwritten \cup {w.run},
              AsksForDefault(g) /\ ~stopped[g] => Lists(r.collected, Covered(g, w.run))
       PROVE  GatherInv'
  <2>1. /\ \A h \in Gathers \ {g} : work'[h] = work[h]
        /\ work'[g].run = w.run + 1 /\ work'[g].plan = <<>> /\ work'[g].stage = 1
        /\ work'[g].todo = <<>> /\ work'[g].nodes = 0
    <3>1. work'[g] = [NoWork EXCEPT !.run = w.run + 1] /\ \A h \in Gathers \ {g} : work'[h] = work[h]
      BY <1>2, <1>11 DEF NextRun
    <3> QED BY <3>1 DEF NoWork
  <2>2. Progress(g)'
    <3>1. work'[g].run \in 1..(runs + 1) /\ 0 \in 0..AllNodes
      BY <1>7, <1>11, <2>1, CollectorAssumption
    <3>2. /\ r.failing \subseteq 1..runs /\ r.reported \subseteq 1..runs
          /\ r.unwritten \subseteq 1..runs
          /\ w.run \in 1..runs /\ r.collected \in Seq(Named(g)')
      BY <1>3, <1>5, <1>6, <1>7, <1>11 DEF Progress
    <3>3. Len(request'[g].types) = runs
      BY <1>4
    <3> QED BY <1>6, <1>5, <1>8, <1>11, <2>1, <3>1, <3>2, <3>3 DEF Progress
  <2>3. Covers(g)'
    <3>1. work'[g].run - 1 = w.run
      BY <1>7, <2>1
    <3>2. result'[g].collected \o work'[g].plan = r.collected
      BY <1>6, <1>11, <2>1
    <3>3. (work[g].run - 1)' = w.run
      BY <3>1
    <3>4. Covered(g, work[g].run - 1)' = Covered(g, w.run)
      BY <1>4, <3>3 DEF Covered, Wanted, Shared
    <3>5. AsksForDefault(g) /\ ~stopped[g] =>
            Lists(result'[g].collected \o work'[g].plan, Covered(g, work[g].run - 1)')
      BY <1>11, <3>2, <3>4
    <3> QED BY <1>4, <1>5, <1>8, <1>11, <2>1, <3>5 DEF Covers
  <2> QED BY <1>4, <1>11, <2>1, <2>2, <2>3, OthersKeepOn
<1>12. CASE RunFails(g)
  <2>1. /\ at[g] = "load" /\ w.run <= runs /\ Plans(g) \subseteq {<<>>} /\ result' = result
        /\ ~stopped[g]
    BY <1>12 DEF RunFails
  <2>2. CASE Goto(g, "failed") /\ UNCHANGED work
    BY <1>9, <2>1, <2>2
  <2>3. CASE NextRun(g) /\ UNCHANGED at
    <3>1. ASSUME AsksForDefault(g) PROVE Lists(r.collected, Covered(g, w.run))
      <4>1. w.run \in 1..runs
        BY <1>7, <2>1
      <4>2. <<>> \in Plans(g)
        <5>1. Plans(g) # {}
          BY <1>3, <3>1, <4>1, RunsHavePlans
        <5> QED BY <2>1, <5>1
      <4>3. PICK S : Lists(<<>>, S) /\ Covered(g, w.run) = S \cup Covered(g, w.run - 1)
        BY <1>3, <3>1, <4>1, <4>2, RunAdds
      <4>4. S = {}
        BY <4>3 DEF Lists, Range
      <4>5. Lists(r.collected, Covered(g, w.run - 1))
        BY <1>3, <1>6, <1>8, <2>1, <3>1 DEF Covers
      <4> QED BY <4>3, <4>4, <4>5
    <3> QED BY <1>11, <2>1, <2>3, <3>1
  <2> QED BY <1>12, <2>2, <2>3 DEF RunFails
<1>13. CASE EndRun(g)
  <2>1. /\ at[g] = "definition" /\ w.plan = <<>> /\ NextRun(g) /\ Goto(g, "load")
        /\ appendErrorLog(g)
    BY <1>13 DEF EndRun
  <2>2. /\ \A h \in Gathers \ {g} : result'[h] = result[h]
        /\ result'[g].collected = r.collected /\ result'[g].failing = r.failing
        /\ result'[g].reported \subseteq r.reported \cup {w.run}
        /\ result'[g].unwritten \subseteq r.unwritten \cup {w.run}
    <3>1. CASE w.failed
      <4> DEFINE others == {i \in r.reported : ~SameDirectory(g, i, w.run)}
      <4>1. CASE result' = [result EXCEPT ![g].reported = others \cup {w.run}]
        BY <1>2, <4>1 DEF ResultShape
      <4>2. ASSUME NEW kept \in {others, r.reported},
                   result' = [result EXCEPT ![g].reported = kept, ![g].unwritten = @ \cup {w.run}]
            PROVE  /\ \A h \in Gathers \ {g} : result'[h] = result[h]
                   /\ result'[g].collected = r.collected /\ result'[g].failing = r.failing
                   /\ result'[g].reported \subseteq r.reported \cup {w.run}
                   /\ result'[g].unwritten \subseteq r.unwritten \cup {w.run}
        <5>1. kept \subseteq r.reported
          OBVIOUS
        <5> QED BY <1>2, <4>2, <5>1 DEF ResultShape
      <4> QED BY <2>1, <3>1, <4>1, <4>2 DEF appendErrorLog
    <3>2. CASE ~w.failed
      BY <2>1, <3>2 DEF appendErrorLog
    <3> QED BY <3>1, <3>2
  <2>3. w.run <= runs
    BY <1>3, <1>8, <2>1 DEF Progress
  <2>4. AsksForDefault(g) /\ ~stopped[g] => Lists(r.collected, Covered(g, w.run))
    BY <1>3, <1>6, <1>8, <2>1 DEF Covers
  <2> QED BY <1>1, <1>11, <2>1, <2>2, <2>3, <2>4
<1>14. CASE Load(g)
  <2>1. PICK plan \in Plans(g) \ {<<>>} : work' = [work EXCEPT ![g].plan = plan]
    BY <1>14 DEF Load
  <2>2. /\ at[g] = "load" /\ w.run <= runs /\ Goto(g, "definition") /\ result' = result
    BY <1>14 DEF Load
  <2>3. at'[g] = "definition" /\ \A h \in Gathers \ {g} : at'[h] = at[h]
    BY <1>1, <2>2
  <2>4. /\ \A h \in Gathers \ {g} : work'[h] = work[h]
        /\ work'[g].plan = plan /\ work'[g].run = w.run /\ work'[g].stage = w.stage
        /\ work'[g].todo = w.todo /\ work'[g].nodes = w.nodes
    BY <1>2, <2>1 DEF WorkShape
  <2>5. plan \in Seq(Named(g))
    BY <1>3, <2>1, PlansAreNamed
  <2>6. Progress(g)'
    BY <1>3, <1>4, <1>5, <1>8, <2>2, <2>3, <2>4, <2>5 DEF Progress
  <2>7. ASSUME AsksForDefault(g), ~stopped[g] PROVE Lists(r.collected \o plan, Covered(g, w.run))
    <3>1. w.run \in 1..runs
      BY <1>7, <2>2
    <3>2. PICK S : /\ Lists(plan, S) /\ S \cap Covered(g, w.run - 1) = {}
                   /\ Covered(g, w.run) = S \cup Covered(g, w.run - 1)
      BY <1>3, <2>1, <2>7, <3>1, RunAdds
    <3>3. Lists(r.collected, Covered(g, w.run - 1))
      BY <1>3, <1>6, <1>8, <2>2, <2>7 DEF Covers
    <3>4. Covered(g, w.run) = Covered(g, w.run - 1) \cup S /\ Covered(g, w.run - 1) \cap S = {}
      BY <3>2
    <3> QED BY <3>2, <3>3, <3>4, ListsConcat
  <2>8. Covers(g)'
    BY <1>4, <1>5, <1>8, <2>2, <2>3, <2>4, <2>7 DEF Covers
  <2> QED BY <1>4, <2>2, <2>3, <2>4, <2>6, <2>8, OthersKeepOn
<1>15. CASE StartDefinition(g)
  <2>1. PICK todo : work' = [work EXCEPT ![g].stage = 1, ![g].todo = todo]
    BY <1>15 DEF StartDefinition
  <2>2. at[g] = "definition" /\ w.plan # <<>> /\ Goto(g, "stage") /\ result' = result
    BY <1>15 DEF StartDefinition
  <2>3. at'[g] = "stage" /\ \A h \in Gathers \ {g} : at'[h] = at[h]
    BY <1>1, <2>2
  <2>4. /\ \A h \in Gathers \ {g} : work'[h] = work[h]
        /\ work'[g].plan = w.plan /\ work'[g].run = w.run /\ work'[g].stage = 1
        /\ work'[g].nodes = w.nodes
    BY <1>2, <2>1 DEF WorkShape
  <2>5. Progress(g)'
    BY <1>3, <1>4, <1>5, <1>8, <2>2, <2>3, <2>4 DEF Progress
  <2>6. Covers(g)'
    BY <1>8, <1>a, <2>2, <2>3, <2>4
  <2> QED BY <1>4, <2>2, <2>3, <2>4, <2>5, <2>6, OthersKeepOn
<1>16. CASE NextStage(g)
  <2> DEFINE next == w.stage + 1
             specs == Definition(g, Head(w.plan))[Stages[next]]
  <2>1. PICK todo \in Todo(Stages[next], specs) :
          work' = [work EXCEPT ![g].stage = @ + 1, ![g].todo = todo]
    BY <1>16 DEF NextStage
  <2>2. /\ at[g] = "stage" /\ w.stage < Len(Stages) /\ result' = result
        /\ UNCHANGED at \/ Goto(g, "tools")
    BY <1>16 DEF NextStage
  <2>3. at'[g] \in {"stage", "tools"} /\ \A h \in Gathers \ {g} : at'[h] = at[h]
    BY <1>1, <2>2
  <2>4. /\ \A h \in Gathers \ {g} : work'[h] = work[h]
        /\ work'[g].plan = w.plan /\ work'[g].run = w.run /\ work'[g].stage = next
        /\ work'[g].nodes = w.nodes /\ work'[g].todo = todo
    BY <1>2, <2>1 DEF WorkShape
  <2>5. next \in 1..5
    <3>1. Len(Stages) = 5
      BY DEF Stages
    <3> QED BY <1>3, <2>2, <3>1 DEF Progress
  <2>6. next = 5 => IsGroups(todo)
    <3> SUFFICES ASSUME next = 5 PROVE IsGroups(todo)
      OBVIOUS
    <3>1. Stages[next] = "nodes"
      BY DEF Stages
    <3>2. Head(w.plan) \in Named(g)
      BY <1>3, <1>8, <2>2 DEF Progress
    <3>3. specs \in Seq(Selectors)
      BY <1>3, <3>1, <3>2, NodeSpecs
    <3>4. todo \in Groups(specs)
      BY <2>1, <3>1 DEF Todo
    <3> QED BY <3>3, <3>4, GroupsAreGroups
  <2> HIDE DEF next
  <2>7. Progress(g)'
    BY <1>3, <1>4, <1>5, <1>8, <2>2, <2>3, <2>4, <2>5, <2>6 DEF Progress
  <2>8. Covers(g)'
    BY <1>8, <1>a, <2>2, <2>3, <2>4
  <2> QED BY <1>4, <2>2, <2>3, <2>4, <2>7, <2>8, OthersKeepOn
<1>17. CASE EndDefinition(g)
  <2>1. /\ at[g] = "stage" /\ Goto(g, "definition")
        /\ result' = [result EXCEPT ![g].collected = Append(@, Head(w.plan))]
        /\ work' = [work EXCEPT ![g].plan = Tail(@)]
    BY <1>17 DEF EndDefinition
  <2>2. w.plan # <<>>
    BY <1>3, <1>8, <2>1 DEF Progress
  <2>3. at'[g] = "definition" /\ \A h \in Gathers \ {g} : at'[h] = at[h]
    BY <1>1, <2>1
  <2>4. /\ \A h \in Gathers \ {g} : work'[h] = work[h] /\ result'[h] = result[h]
        /\ work'[g].plan = Tail(w.plan) /\ work'[g].run = w.run /\ work'[g].stage = w.stage
        /\ work'[g].nodes = w.nodes /\ work'[g].todo = w.todo
        /\ result'[g].collected = Append(r.collected, Head(w.plan))
        /\ result'[g].failing = r.failing /\ result'[g].reported = r.reported
        /\ result'[g].unwritten = r.unwritten
    BY <1>2, <2>1 DEF WorkShape, ResultShape
  <2>5. /\ Append(r.collected, Head(w.plan)) \in Seq(Named(g)) /\ Tail(w.plan) \in Seq(Named(g))
        /\ Append(r.collected, Head(w.plan)) \o Tail(w.plan) = r.collected \o w.plan
    <3>1. ASSUME NEW c \in Seq(Named(g)), NEW p \in Seq(Named(g)), p # <<>>
          PROVE  /\ Append(c, Head(p)) \in Seq(Named(g)) /\ Tail(p) \in Seq(Named(g))
                 /\ Append(c, Head(p)) \o Tail(p) = c \o p
      BY <3>1, HeadMoves
    <3> QED BY <1>6, <2>2, <3>1, Zenon
  <2>6. Progress(g)'
    BY <1>3, <1>4, <1>5, <1>8, <2>1, <2>3, <2>4, <2>5 DEF Progress
  <2>7. result'[g].collected \o work'[g].plan = r.collected \o w.plan
    BY <2>4, <2>5
  <2>8. Covers(g)'
    BY <1>8, <1>a, <2>1, <2>3, <2>4, <2>7
  <2> QED BY <1>4, <2>3, <2>4, <2>6, <2>8, OthersKeepOn
<1> QED BY <1>10, <1>12, <1>13, <1>14, <1>15, <1>16, <1>17 DEF RunStep

-----------------------------------------------------------------------------
(* The whole invariant, and the theorems that follow from it.              *)

(* No gather has done anything yet.                                        *)
LEMMA GatherInvInit == Init => GatherInv
<1> SUFFICES ASSUME Init, NEW g \in Gathers PROVE Progress(g) /\ Covers(g)
  BY DEF Init, GatherInv
<1>1. at[g] = "load" /\ work[g] = NoWork /\ result[g] = NoResult /\ request[g] \in Requests
  BY DEF Init, Collectors
<1>2. "load" \notin InRun /\ "load" \notin InDefinition /\ "load" \notin OnNodes \cup {"exec"}
  BY DEF InRun, InDefinition, OnNodes
<1>3. Len(request[g].types) \in Nat /\ 0 \in 0..AllNodes
  BY <1>1, RequestsAssumption, CollectorAssumption
<1>4. Progress(g)
  BY <1>1, <1>2, <1>3 DEF Progress, NoWork, NoResult
<1>5. Covers(g)
  <2>1. <<>> \o <<>> = <<>>
    OBVIOUS
  <2>2. NoWork.run - 1 = 0 /\ NoWork.plan = <<>> /\ NoResult.collected = <<>>
    BY DEF NoWork, NoResult
  <2>3. Covered(g, 0) = {}
    BY DEF Covered
  <2> QED BY <1>1, <1>2, <2>1, <2>2, <2>3, OneList DEF Covers
<1> QED BY <1>4, <1>5

(* Backups, cancellations and pods leave the gathers where they are, but   *)
(* for the cancellation itself.                                            *)
LEMMA OthersMakeNoProgress ==
  ASSUME GatherInv, PodTypes,
         \/ \E b \in Backups : BackupStep(b) \/ BackupCommand(b)
         \/ \E c \in Collectors : Stop(c)
         \/ \E p \in Pods : PodStarts(p) \/ PodEnds(p)
         \/ UNCHANGED vars
  PROVE  GatherInv'
<1>1. /\ UNCHANGED gatherVars /\ \A h \in Gathers : at'[h] = at[h]
      /\ \A h \in Gathers : stopped[h] => stopped'[h]
  <2>1. ASSUME NEW b \in Backups, BackupStep(b) \/ BackupCommand(b)
        PROVE  UNCHANGED gatherVars /\ UNCHANGED stopped /\ \E l : Goto(b, l)
    BY <2>1 DEF BackupStep, BackupCommand, findMasterNode, CreateOnMaster, MasterReady,
       MasterNotReady, BackupFails, BackupCancelled, ScriptEnds, ScriptFails, CopyEnds,
       CopyFails, CleanUpEnds
  <2>2. ASSUME NEW b \in Backups, NEW l, Goto(b, l)
        PROVE  \A h \in Gathers : at'[h] = at[h]
    BY <2>2, CollectorAssumption DEF Goto, PodTypes, Collectors
  <2>3. CASE \E c \in Collectors : Stop(c)
    BY <2>3 DEF Stop, PodTypes, Collectors
  <2>4. CASE (\E p \in Pods : PodStarts(p) \/ PodEnds(p)) \/ UNCHANGED vars
    BY <2>4 DEF PodStarts, PodEnds, vars
  <2> QED BY <2>1, <2>2, <2>3, <2>4
<1> SUFFICES ASSUME NEW g \in Gathers PROVE Progress(g)' /\ Covers(g)'
  BY <1>1 DEF GatherInv, gatherVars
<1>2. Progress(g) /\ Covers(g)
  BY DEF GatherInv
<1>3. request' = request /\ work' = work /\ result' = result
  BY <1>1 DEF gatherVars
<1>4. Progress(g)'
  BY <1>1, <1>2, <1>3 DEF Progress, Named, Chosen
<1>5. \A n : Covered(g, n)' = Covered(g, n)
  BY <1>3 DEF Covered, Wanted, Shared
<1>6. AsksForDefault(g)' = AsksForDefault(g)
  BY <1>3 DEF AsksForDefault
<1>7. Covers(g)'
  BY <1>1, <1>2, <1>3, <1>5, <1>6 DEF Covers
<1> QED BY <1>4, <1>7

(* Everything that is known of the collectors.                             *)
CollectorInv ==
  /\ PodInv
  /\ ReportInv
  /\ GatherInv
  /\ cephTools \in BOOLEAN
  /\ backup \in [Backups -> {"none", "complete", "partial"}]

LEMMA CollectorInvInit == Init => CollectorInv
<1> SUFFICES ASSUME Init PROVE CollectorInv
  OBVIOUS
<1>1. PodInv /\ ReportInv /\ GatherInv
  BY CollectorAssumption, PodInvInit, ReportInvInit, GatherInvInit
<1>2. cephTools \in BOOLEAN
  BY DEF Init
<1>3. backup \in [Backups -> {"none", "complete", "partial"}]
  BY DEF Init
<1> QED BY <1>1, <1>2, <1>3 DEF CollectorInv

LEMMA CollectorInvStep == CollectorInv /\ [Next]_vars => CollectorInv'
<1> SUFFICES ASSUME CollectorInv, [Next]_vars PROVE CollectorInv'
  OBVIOUS
<1>1. PodInv /\ ReportInv /\ GatherInv /\ PodTypes /\ ReportTypes
  BY DEF CollectorInv, PodInv, ReportInv
<1>2. PodInv' /\ ReportInv'
  BY <1>1, CollectorAssumption, PodInvStep, ReportInvStep
<1>3. GatherInv'
  <2>1. ASSUME NEW g \in Gathers, GatherStep(g) \/ GatherCommand(g) PROVE GatherInv'
    <3>1. CASE RunStep(g) \/ NextStage(g) \/ EndDefinition(g)
      BY <1>1, <3>1, RunMakesProgress
    <3>2. CASE NodeStep(g) \/ CommandEnds(g)
      BY <1>1, <3>2, NodesMakeProgress
    <3>3. CASE \/ LeaveStage(g) \/ Collect(g) \/ CollectFails(g) \/ ensureCephTools(g)
               \/ CephToolsWaitEnds(g) \/ SkipExec(g) \/ StartExec(g) \/ ExecCancelled(g)
               \/ ExecEnds(g)
      BY <1>1, <3>3, StageMakesProgress
    <3> QED BY <2>1, <3>1, <3>2, <3>3 DEF GatherStep, GatherCommand, StageStep
  <2> QED BY <1>1, <2>1, OthersMakeNoProgress DEF Next
<1>4. cephTools' \in BOOLEAN
  <2>1. cephTools' = cephTools \/ cephTools' = TRUE
    <3>1. ASSUME NEW g \in Gathers, RunStep(g) \/ StageStep(g)
          PROVE  cephTools' = cephTools \/ cephTools' = TRUE
      BY <3>1 DEF RunStep, StageStep, EndGather, GiveUp, Load, RunFails, StartDefinition, EndRun,
         NextStage, EndDefinition, LeaveStage, Collect, CollectFails, ensureCephTools,
         CephToolsWaitEnds, SkipExec, StartExec, ExecCancelled, gatherVars
    <3>2. ASSUME NEW g \in Gathers, NodeStep(g) \/ GatherCommand(g)
          PROVE  cephTools' = cephTools
      BY <3>2 DEF NodeStep, GatherCommand, ListNodes, ListNodesFails, EndGroup, CreateOnNode,
         NodeReady, NodeNotReady, StartCommand, CommandCancelled, LeaveNode, ExecEnds, CommandEnds,
         gatherVars
    <3>3. ASSUME NEW b \in Backups, BackupStep(b) \/ BackupCommand(b)
          PROVE  cephTools' = cephTools
      BY <3>3 DEF BackupStep, BackupCommand, findMasterNode, CreateOnMaster, MasterReady,
         MasterNotReady, BackupCancelled, ScriptEnds, ScriptFails, CopyEnds, CopyFails,
         CleanUpEnds, gatherVars
    <3>4. CASE \/ \E c \in Collectors : Stop(c)
               \/ \E p \in Pods : PodStarts(p) \/ PodEnds(p)
               \/ UNCHANGED vars
      BY <3>4 DEF Stop, PodStarts, PodEnds, vars, gatherVars
    <3> QED BY <3>1, <3>2, <3>3, <3>4 DEF Next, GatherStep
  <2> QED BY <2>1 DEF CollectorInv
<1>5. (backup \in [Backups -> {"none", "complete", "partial"}])'
  <2>1. \/ backup' = backup
        \/ \E b \in Backups : CopyEnds(b)
    <3>1. ASSUME NEW g \in Gathers, RunStep(g) \/ StageStep(g)
          PROVE  backup' = backup
      BY <3>1 DEF RunStep, StageStep, EndGather, GiveUp, Load, RunFails, StartDefinition, EndRun,
         NextStage, EndDefinition, LeaveStage, Collect, CollectFails, ensureCephTools,
         CephToolsWaitEnds, SkipExec, StartExec, ExecCancelled
    <3>2. ASSUME NEW g \in Gathers, NodeStep(g) \/ GatherCommand(g)
          PROVE  backup' = backup
      BY <3>2 DEF NodeStep, GatherCommand, ListNodes, ListNodesFails, EndGroup, CreateOnNode,
         NodeReady, NodeNotReady, StartCommand, CommandCancelled, LeaveNode, ExecEnds, CommandEnds
    <3>3. ASSUME NEW b \in Backups, BackupStep(b) \/ BackupCommand(b)
          PROVE  backup' = backup \/ CopyEnds(b)
      BY <3>3 DEF BackupStep, BackupCommand, findMasterNode, CreateOnMaster, MasterReady,
         MasterNotReady, BackupCancelled, ScriptEnds, ScriptFails, CopyFails, CleanUpEnds
    <3>4. CASE \/ \E c \in Collectors : Stop(c)
               \/ \E p \in Pods : PodStarts(p) \/ PodEnds(p)
               \/ UNCHANGED vars
      BY <3>4 DEF Stop, PodStarts, PodEnds, vars
    <3> QED BY <3>1, <3>2, <3>3, <3>4 DEF Next, GatherStep
  <2>2. ASSUME NEW b \in Backups, CopyEnds(b)
        PROVE  (backup \in [Backups -> {"none", "complete", "partial"}])'
    BY <2>2 DEF CopyEnds, CollectorInv
  <2> QED BY <2>1, <2>2 DEF CollectorInv
<1> QED BY <1>2, <1>3, <1>4, <1>5 DEF CollectorInv

(* The type invariant, for any number of gathers, backups and nodes and    *)
(* for any requests.  That the place in the plan stays within its bounds   *)
(* rests on where each gather is: a plan is shortened, a group or a node   *)
(* is left, only where there is one.                                       *)
THEOREM CollectorIsTyped == Spec => []TypeOK
<1>1. CollectorInv => TypeOK
  <2> SUFFICES ASSUME CollectorInv PROVE TypeOK
    OBVIOUS
  <2>1. PodTypes /\ ReportTypes /\ GatherInv
    BY DEF CollectorInv, PodInv, ReportInv
  <2>2. DOMAIN Stages = 1..5
    BY DEF Stages
  <2>3. ASSUME NEW g \in Gathers
        PROVE  /\ work[g].run \in 1..(Len(request[g].types) + 1)
               /\ work[g].stage \in DOMAIN Stages
               /\ work[g].nodes \in 0..AllNodes
               /\ work[g].failed \in BOOLEAN
               /\ result[g].failing \subseteq DOMAIN request[g].types
               /\ result[g].reported \subseteq DOMAIN request[g].types
               /\ result[g].unwritten \subseteq DOMAIN request[g].types
    <3>1. DOMAIN request[g].types = 1..Len(request[g].types)
      BY <2>1, RequestsAssumption DEF GatherInv
    <3>2. work[g].failed \in BOOLEAN
      BY <2>1 DEF ReportTypes, WorkShape
    <3> QED BY <2>1, <2>2, <3>1, <3>2 DEF GatherInv, Progress
  <2> QED BY <2>1, <2>3 DEF TypeOK, CollectorInv, PodTypes, GatherInv
<1> QED BY CollectorInvInit, CollectorInvStep, <1>1, PTL DEF Spec

(* A complete gather that was asked for one type, or for several different *)
(* ones and the default one among them, has gone through the definition    *)
(* of each type, and through the default one, exactly once: whether it is  *)
(* one run (hub), one run for each type that share the default one, or     *)
(* runs that each would bring their own.                                   *)
THEOREM PlanIsAlwaysCovered == Spec => []PlanIsCovered
<1>1. CollectorInv => PlanIsCovered
  <2> SUFFICES ASSUME CollectorInv, NEW g \in Gathers,
                      at[g] = "complete", ~stopped[g], AsksForDefault(g)
               PROVE  /\ Range(result[g].collected) = Wanted(g)
                      /\ Len(result[g].collected) = Cardinality(Wanted(g))
    BY DEF PlanIsCovered
  <2>1. Progress(g) /\ Covers(g) /\ request[g] \in Requests
    BY DEF CollectorInv, GatherInv
  <2>2. at[g] \notin InRun
    BY DEF InRun, InDefinition, OnNodes
  <2>3. /\ work[g].plan = <<>> /\ work[g].run > Len(request[g].types)
        /\ Lists(result[g].collected \o work[g].plan, Covered(g, work[g].run - 1))
    BY <2>1, <2>2 DEF Covers
  <2>4. work[g].run - 1 = Len(request[g].types)
    <3>1. Len(request[g].types) \in Nat /\ work[g].run \in 1..(Len(request[g].types) + 1)
      BY <2>1, RequestsAssumption DEF Progress
    <3> QED BY <2>3, <3>1
  <2>5. result[g].collected \o work[g].plan = result[g].collected
    BY <2>1, <2>3 DEF Progress
  <2>6. Lists(result[g].collected, Wanted(g))
    BY <2>1, <2>3, <2>4, <2>5, AllRunsCover
  <2> QED BY <2>6, ListsLength DEF Lists
<1> QED BY CollectorInvInit, CollectorInvStep, <1>1, PTL DEF Spec
=============================================================================
