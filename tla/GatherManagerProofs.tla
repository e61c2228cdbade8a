------------------------ MODULE GatherManagerProofs ------------------------
(***************************************************************************)
(* Theorems about GatherManager, for every set of gathers and downloads,   *)
(* every timeout, retention and bound.                                     *)
(***************************************************************************)
EXTENDS GatherManager, FiniteSetTheorems, TLAPS

USE ManagerAssumption

(* The path of a started gather's archive is a path.                       *)
LEMMA PathType ==
  ASSUME TypeOK, NEW g \in Gathers, job[g].id \in JobIds
  PROVE  Path(g) \in Paths
BY DEF TypeOK, JobRecords, Path, Paths

LEMMA ClockType == MaxNow \in Nat
BY DEF MaxNow

(* Every reachable state is one the types of Manager, Job and the contexts *)
(* allow.                                                                  *)
LEMMA InitType == Init => TypeOK
<1> SUFFICES ASSUME Init PROVE TypeOK
  OBVIOUS
<1> USE ClockType DEF Init
<1>1. now \in 0 .. MaxNow
  OBVIOUS
<1>2. job \in [Gathers -> JobRecords]
  BY DEF NoJob, JobRecords, Statuses, Errors
<1>3. disk \in [Paths -> Archives] /\ NoFile \in Archives
  BY DEF NoFile, Archives
<1>4. dl \in [Downloads -> Handlers]
  BY <1>3 DEF NoDownload, Handlers
<1>5. pc \in [Gathers -> PCs]
  BY DEF PCs, InHandler
<1> QED
  BY <1>1, <1>2, <1>3, <1>4, <1>5 DEF TypeOK


(* A goroutine that runs has a job ID: StartGather stores it first.        *)
LiveHasId == \A g \in Gathers : pc[g] \in Live => job[g].id \in JobIds

(* A step that is under way, or whose error is being handled, is one of    *)
(* the steps that are left.                                                *)
StepPending == \A g \in Gathers : pc[g] \in {"running", "stepErr"} => left[g] > 0

(* What the maps and the download handlers refer to has been started.      *)
ReferredHasId ==
  /\ \A id \in JobIds : Listed(id) => job[jobs[id]].id \in JobIds
  /\ \A d \in Downloads :
       dl[d].pc = "path" => dl[d].gather \in Gathers /\ job[dl[d].gather].id \in JobIds

LEMMA FailType ==
  ASSUME TypeOK, LiveHasId, NEW g \in Gathers, pc[g] \in Live,
         NEW error \in Errors, Fail(g, error)
  PROVE  /\ job' \in [Gathers -> JobRecords]
         /\ pc' \in [Gathers -> PCs]
         /\ LiveHasId'
<1>1. pc' \in [Gathers -> PCs]
  BY DEF TypeOK, Fail, PCs, Live
<1>2. /\ job' = [job EXCEPT ![g] = [job[g] EXCEPT !.status = "failed",
                                               !.error = error]]
      /\ job \in [Gathers -> JobRecords]
  BY DEF TypeOK, Fail
<1>3. [job[g] EXCEPT !.status = "failed", !.error = error] \in JobRecords
  BY <1>2 DEF JobRecords, Statuses
<1>4. job' \in [Gathers -> JobRecords]
  BY <1>2, <1>3
<1>5. \A h \in Gathers : job'[h].id = job[h].id
  BY <1>2 DEF JobRecords
<1> QED
  BY <1>1, <1>4, <1>5 DEF TypeOK, LiveHasId, Fail

LEMMA StartGatherType ==
  ASSUME TypeOK, LiveHasId, NEW g \in Gathers, StartGather(g)
  PROVE  TypeOK' /\ LiveHasId'
<1> USE ClockType
<1>1. PICK r \in Requests :
        /\ job' = [job EXCEPT ![g] = [id |-> <<r[1], now>>, status |-> "running",
                                      startedAt |-> now, anonymize |-> r[2],
                                      error |-> "none"]]
        /\ jobs' = [jobs EXCEPT ![<<r[1], now>>] = g]
        /\ cancels' = [cancels EXCEPT ![<<r[1], now>>] = g]
        /\ \E n \in StepCounts(r[1]) : left' = [left EXCEPT ![g] = n]
  BY DEF StartGather
<1>2. <<r[1], now>> \in JobIds /\ r[2] \in BOOLEAN
  BY DEF JobIds, Types, TypeOK
<1>3. StepCounts(r[1]) \subseteq Nat
  BY DEF StepCounts
<1>4. left' \in [Gathers -> Nat]
  BY <1>1, <1>3 DEF TypeOK
<1>5. job' \in [Gathers -> JobRecords]
  BY <1>1, <1>2 DEF TypeOK, JobRecords, Statuses, Errors
<1>6. pc' \in [Gathers -> PCs]
  BY DEF TypeOK, StartGather, Goto, PCs, Live, Working
<1>7. LiveHasId'
  <2> SUFFICES ASSUME NEW h \in Gathers, pc'[h] \in Live
               PROVE  job'[h].id \in JobIds
    BY DEF LiveHasId
  <2>1. CASE h = g
    BY <1>1, <1>2, <2>1 DEF TypeOK
  <2>2. CASE h # g
    BY <1>1, <2>2 DEF LiveHasId, TypeOK, StartGather, Goto
  <2> QED
    BY <2>1, <2>2
<1>8. jobs' \in [JobIds -> Gathers \cup {None}]
  BY <1>1, <1>2 DEF TypeOK
<1>9. cancels' \in [JobIds -> Gathers \cup {None}]
  BY <1>1, <1>2 DEF TypeOK
<1>10. gauge' \in Int
  BY DEF StartGather, TypeOK
<1>11. UNCHANGED <<ctx, masked, data, wrap, disk, nativeGather, now, dl, restarts>>
  BY DEF StartGather, files, env
<1> QED
  BY <1>4, <1>5, <1>6, <1>7, <1>8, <1>9, <1>10, <1>11 DEF TypeOK

(* The records and directories that the archive steps write.               *)
LEMMA DiskType ==
  ASSUME TypeOK, NEW p \in Paths, NEW a \in Archives
  PROVE  [disk EXCEPT ![p] = a] \in [Paths -> Archives]
BY DEF TypeOK

LEMMA MovedType ==
  ASSUME NEW from \in [JobIds -> SUBSET Gathers],
         NEW to \in [JobIds -> SUBSET Gathers], NEW id \in JobIds
  PROVE  /\ Moved(from, to, id) \in [JobIds -> SUBSET Gathers]
         /\ Left(from, to, id) \in [JobIds -> SUBSET Gathers]
BY DEF Moved, Left

LEMMA ArchiveState ==
  ASSUME TypeOK, NEW p \in Paths, NEW s \in {"absent", "partial", "mixed", "whole"}
  PROVE  [disk EXCEPT ![p].state = IF @ = "mixed" THEN "mixed" ELSE s]
           \in [Paths -> Archives]
<1> DEFINE a == [disk[p] EXCEPT !.state = IF disk[p].state = "mixed" THEN "mixed" ELSE s]
<1>1. disk[p] \in Archives
  BY DEF TypeOK
<1>2. a \in Archives
  BY <1>1 DEF Archives
<1>3. [disk EXCEPT ![p].state = IF @ = "mixed" THEN "mixed" ELSE s]
        = [disk EXCEPT ![p] = a]
  OBVIOUS
<1> QED
  BY <1>2, <1>3, DiskType

(* A step of a goroutine that writes files and moves on, or fails.          *)
LEMMA WriteType ==
  ASSUME TypeOK, LiveHasId, NEW g \in Gathers, pc[g] \in Live,
         NEW to \in Working,
         \/ pc' = [pc EXCEPT ![g] = to] /\ UNCHANGED job
         \/ Fail(g, "failed"),
         left' \in [Gathers -> Nat],
         disk' \in [Paths -> Archives],
         data' \in [JobIds -> SUBSET Gathers],
         wrap' \in [JobIds -> SUBSET Gathers],
         UNCHANGED <<ctx, masked, jobs, cancels, gauge,
                     nativeGather, now, dl, restarts>>
  PROVE  TypeOK' /\ LiveHasId'
<1>1. CASE Fail(g, "failed")
  <2>1. "failed" \in Errors
    BY DEF Errors
  <2> QED
    BY <1>1, <2>1, FailType DEF TypeOK
<1>2. CASE pc' = [pc EXCEPT ![g] = to] /\ UNCHANGED job
  BY <1>2 DEF TypeOK, LiveHasId, PCs, Live, Working
<1> QED
  BY <1>1, <1>2

LEMMA RunType ==
  ASSUME TypeOK, LiveHasId, StepPending, NEW g \in Gathers, Run(g)
  PROVE  TypeOK' /\ LiveHasId'
<1> USE DEF files, registry, env
<1>a. pc[g] \in Live /\ job[g].id \in JobIds
  BY DEF Run, MakeDir, BeginStep, HandleStepError, FinishSteps, Anonymize,
         BeginArchive, BeginCopy, Complete, Exit, Goto, Live, Working, LiveHasId
<1>b. Path(g) \in Paths
  BY <1>a, PathType
<1>1. CASE MakeDir(g)
  <2>1. CASE Fail(g, "failed")
    <3>1. data' \in [JobIds -> SUBSET Gathers]
      BY <1>a, <1>1 DEF MakeDir, TypeOK
    <3> QED
      BY <1>a, <1>1, <2>1, <3>1, FailType DEF MakeDir, TypeOK, Errors
  <2>2. CASE (\E to \in {"find", "step"} : pc' = [pc EXCEPT ![g] = to]) /\ UNCHANGED job
    <3>1. data' \in [JobIds -> SUBSET Gathers]
      BY <1>a, <1>1 DEF MakeDir, TypeOK
    <3> QED
      BY <1>1, <2>2, <3>1, <1>a DEF MakeDir, TypeOK, LiveHasId, PCs, Live, Working
  <2> QED
    BY <1>1, <2>1, <2>2 DEF MakeDir
<1>2. CASE BeginStep(g)
  <2>1. CASE ctx[g] = "none"
    BY <1>2, <2>1, <1>a DEF BeginStep, TypeOK, LiveHasId, PCs, Live, Working
  <2>2. CASE ctx[g] # "none"
    <3>1. \E e \in Errors : Fail(g, e)
      BY <1>2, <2>2 DEF BeginStep, Errors
    <3> QED
      BY <1>a, <1>2, <3>1, FailType DEF BeginStep, TypeOK
  <2> QED
    BY <2>1, <2>2
<1>3. CASE HandleStepError(g)
  <2>1. CASE ctx[g] = "none" /\ Tolerant(g)
    <3>1. left[g] > 0 /\ left' = [left EXCEPT ![g] = @ - 1]
      BY <1>3, <2>1 DEF HandleStepError, StepPending
    <3>2. left' \in [Gathers -> Nat]
      BY <3>1 DEF TypeOK
    <3> QED
      BY <1>3, <2>1, <3>2, <1>a DEF HandleStepError, TypeOK, LiveHasId, PCs, Live, Working
  <2>2. CASE ~(ctx[g] = "none" /\ Tolerant(g))
    <3>1. \E e \in Errors : Fail(g, e)
      BY <1>3, <2>2 DEF HandleStepError, Errors
    <3> QED
      BY <1>a, <1>3, <2>2, <3>1, FailType DEF HandleStepError, TypeOK
  <2> QED
    BY <2>1, <2>2
<1>4. CASE FinishSteps(g)
  BY <1>4, <1>a DEF FinishSteps, TypeOK, LiveHasId, PCs, Live, Working
<1>5. CASE Anonymize(g)
  BY <1>5, <1>a DEF Anonymize, Goto, TypeOK, LiveHasId, PCs, Live, Working
<1>6. CASE BeginArchive(g)
  <2>1. CASE ctx[g] = "none"
    <3> DEFINE id == job[g].id
               content == IF nativeGather THEN Moved(data, wrap, id)[id] ELSE data[id]
               a == [state |-> BeingWritten(g), from |-> content, masked |-> masked[g]]
    <3>1. /\ Moved(data, wrap, id) \in [JobIds -> SUBSET Gathers]
          /\ Left(data, wrap, id) \in [JobIds -> SUBSET Gathers]
      BY <1>a, MovedType DEF TypeOK
    <3>2. a \in Archives
      <4>1. content \in SUBSET Gathers
        BY <1>a, <3>1 DEF TypeOK
      <4>2. BeingWritten(g) \in {"absent", "partial", "mixed", "whole"}
        BY DEF BeingWritten
      <4>3. masked[g] \in BOOLEAN
        BY DEF TypeOK
      <4> HIDE DEF content
      <4> QED
        BY <4>1, <4>2, <4>3 DEF Archives
    <3>3. disk' = [disk EXCEPT ![Path(g)] = a]
      BY <1>6, <2>1 DEF BeginArchive
    <3> HIDE DEF a
    <3>4. disk' \in [Paths -> Archives]
      BY <1>b, <3>2, <3>3, DiskType
    <3>5. /\ data' \in [JobIds -> SUBSET Gathers]
          /\ wrap' \in [JobIds -> SUBSET Gathers]
      BY <1>6, <2>1, <3>1 DEF BeginArchive, TypeOK
    <3>6. pc' = [pc EXCEPT ![g] = "tarring"] /\ UNCHANGED job
      BY <1>6, <2>1 DEF BeginArchive
    <3>7. UNCHANGED <<ctx, left, masked, jobs, cancels, gauge, env>>
      BY <1>6 DEF BeginArchive
    <3> QED
      BY <1>a, <3>4, <3>5, <3>6, <3>7 DEF TypeOK, LiveHasId, PCs, Live, Working
  <2>2. CASE ctx[g] # "none"
    <3> DEFINE id == job[g].id
               w == Moved(data, wrap, id)
               d == Left(data, wrap, id)
    <3>1. w \in [JobIds -> SUBSET Gathers] /\ d \in [JobIds -> SUBSET Gathers]
      BY <1>a, MovedType DEF TypeOK
    <3> HIDE DEF w, d
    <3>2. /\ Moved(w, d, id) \in [JobIds -> SUBSET Gathers]
          /\ Left(w, d, id) \in [JobIds -> SUBSET Gathers]
      BY <1>a, <3>1, MovedType
    <3>3. /\ \/ data' = Moved(w, d, id) /\ wrap' = Left(w, d, id)
             \/ UNCHANGED <<data, wrap>>
          /\ Fail(g, "failed")
          /\ UNCHANGED <<disk, left, ctx, masked, jobs, cancels, gauge,
                         nativeGather, now, dl, restarts>>
      BY <1>6, <2>2 DEF BeginArchive, w, d
    <3>4. /\ data' \in [JobIds -> SUBSET Gathers]
          /\ wrap' \in [JobIds -> SUBSET Gathers]
          /\ disk' \in [Paths -> Archives]
          /\ left' \in [Gathers -> Nat]
      BY <3>2, <3>3 DEF TypeOK
    <3>5. "finish" \in Working
      BY DEF Working
    <3> QED
      BY <1>a, <3>3, <3>4, <3>5, WriteType
  <2> QED
    BY <2>1, <2>2
<1>7. CASE BeginCopy(g)
  <2> DEFINE a == [state |-> BeingWritten(g), from |-> {g}, masked |-> FALSE]
  <2>1. a \in Archives /\ NoFile \in Archives /\ disk[Path(g)] \in Archives
    BY <1>b DEF TypeOK, NoFile, Archives, BeingWritten
  <2>2. CASE Fail(g, "failed") /\ disk' = [disk EXCEPT ![Path(g)] =
                                           IF ctx[g] = "none" THEN @ ELSE NoFile]
    <3>1. disk' \in [Paths -> Archives]
      BY <1>b, <2>1, <2>2 DEF TypeOK
    <3> QED
      BY <1>a, <1>7, <2>2, <3>1, FailType DEF BeginCopy, TypeOK, Errors
  <2>3. CASE /\ pc' = [pc EXCEPT ![g] = "copying"] /\ UNCHANGED job
             /\ disk' = [disk EXCEPT ![Path(g)] = a]
    <3>1. disk' \in [Paths -> Archives]
      BY <1>b, <2>1, <2>3 DEF TypeOK
    <3>2. UNCHANGED <<ctx, left, masked, data, wrap, jobs, cancels, gauge, env>>
      BY <1>7 DEF BeginCopy
    <3> QED
      BY <2>3, <3>1, <3>2, <1>a DEF TypeOK, LiveHasId, PCs, Live, Working
  <2> QED
    BY <1>7, <2>2, <2>3 DEF BeginCopy
<1>8. CASE Complete(g)
  <2>1. /\ job' = [job EXCEPT ![g] = [job[g] EXCEPT !.status = "complete"]]
        /\ job \in [Gathers -> JobRecords]
    BY <1>8 DEF Complete, TypeOK
  <2>2. [job[g] EXCEPT !.status = "complete"] \in JobRecords
    BY <2>1 DEF JobRecords, Statuses
  <2>3. job' \in [Gathers -> JobRecords]
    BY <2>1, <2>2
  <2>4. \A h \in Gathers : job'[h].id = job[h].id
    BY <2>1 DEF JobRecords
  <2> QED
    BY <1>8, <1>a, <2>3, <2>4
    DEF Complete, Goto, TypeOK, LiveHasId, PCs, Live, Working
<1>9. CASE Exit(g)
  BY <1>9, <1>a DEF Exit, Goto, TypeOK, LiveHasId, PCs, Live, Working
<1> QED
  BY <1>1, <1>2, <1>3, <1>4, <1>5, <1>6, <1>7, <1>8, <1>9 DEF Run

LEMMA ReturnType ==
  ASSUME TypeOK, LiveHasId, StepPending, NEW g \in Gathers, Return(g)
  PROVE  TypeOK' /\ LiveHasId'
<1> USE DEF files, registry, env
<1>a. pc[g] \in Live /\ job[g].id \in JobIds
  BY DEF Return, EndStep, EndBackup, EndArchive, EndCopy, Live, Working, LiveHasId
<1>b. Path(g) \in Paths
  BY <1>a, PathType
<1>1. CASE EndStep(g)
  <2>1. data' \in [JobIds -> SUBSET Gathers]
    BY <1>1, <1>a DEF EndStep, TypeOK
  <2>2. disk' \in [Paths -> Archives] /\ wrap' \in [JobIds -> SUBSET Gathers]
    BY <1>1 DEF EndStep, TypeOK
  <2>3. UNCHANGED <<ctx, masked, jobs, cancels, gauge, nativeGather, now, dl, restarts>>
    BY <1>1 DEF EndStep
  <2>4. CASE pc' = [pc EXCEPT ![g] = "step"] /\ left' = [left EXCEPT ![g] = @ - 1]
    <3>1. left[g] > 0
      BY <1>1 DEF EndStep, StepPending
    <3>2. left' \in [Gathers -> Nat] /\ UNCHANGED job /\ "step" \in Working
      BY <1>1, <2>4, <3>1 DEF EndStep, TypeOK, Working
    <3> QED
      BY <1>a, <2>1, <2>2, <2>3, <2>4, <3>2, WriteType
  <2>5. CASE pc' = [pc EXCEPT ![g] = "stepErr"] /\ UNCHANGED left
    <3>1. left' \in [Gathers -> Nat] /\ UNCHANGED job /\ "stepErr" \in Working
      BY <1>1, <2>5 DEF EndStep, TypeOK, Working
    <3> QED
      BY <1>a, <2>1, <2>2, <2>3, <2>5, <3>1, WriteType
  <2> QED
    BY <1>1, <2>4, <2>5 DEF EndStep
<1>2. CASE EndBackup(g)
  <2>1. disk' \in [Paths -> Archives]
    <3>1. [state |-> "whole", from |-> {g}, masked |-> FALSE] \in Archives
      BY DEF Archives
    <3>2. \/ disk' = [disk EXCEPT ![Path(g)] =
                        [state |-> "whole", from |-> {g}, masked |-> FALSE]]
          \/ disk' = disk
      BY <1>2 DEF EndBackup
    <3> QED
      BY <1>b, <3>1, <3>2, DiskType DEF TypeOK
  <2>2. /\ data' \in [JobIds -> SUBSET Gathers]
        /\ wrap' \in [JobIds -> SUBSET Gathers]
        /\ left' \in [Gathers -> Nat]
        /\ UNCHANGED <<ctx, masked, jobs, cancels, gauge, nativeGather, now, dl, restarts>>
    BY <1>2 DEF EndBackup, TypeOK
  <2>3. \E to \in Working : \/ pc' = [pc EXCEPT ![g] = to] /\ UNCHANGED job
                            \/ Fail(g, "failed")
    BY <1>2 DEF EndBackup, Working
  <2> QED
    BY <1>a, <2>1, <2>2, <2>3, WriteType
<1>3. CASE EndArchive(g)
  <2>1. disk' \in [Paths -> Archives]
    <3>1. PICK s \in {"partial", "whole"} :
                disk' = [disk EXCEPT ![Path(g)].state =
                           IF @ = "mixed" THEN "mixed" ELSE s]
      BY <1>3 DEF EndArchive
    <3>2. s \in {"absent", "partial", "mixed", "whole"}
      OBVIOUS
    <3> QED
      BY <1>b, <3>1, <3>2, ArchiveState
  <2>2. /\ data' \in [JobIds -> SUBSET Gathers]
        /\ wrap' \in [JobIds -> SUBSET Gathers]
    <3>1. /\ Moved(wrap, data, job[g].id) \in [JobIds -> SUBSET Gathers]
          /\ Left(wrap, data, job[g].id) \in [JobIds -> SUBSET Gathers]
          /\ [wrap EXCEPT ![job[g].id] = {}] \in [JobIds -> SUBSET Gathers]
          /\ data \in [JobIds -> SUBSET Gathers]
          /\ wrap \in [JobIds -> SUBSET Gathers]
      BY <1>a, MovedType DEF TypeOK
    <3> QED
      BY <1>3, <3>1 DEF EndArchive
  <2>3. /\ left' \in [Gathers -> Nat]
        /\ UNCHANGED <<ctx, masked, jobs, cancels, gauge, nativeGather, now, dl, restarts>>
    BY <1>3 DEF EndArchive, TypeOK
  <2>4. \E to \in Working : \/ pc' = [pc EXCEPT ![g] = to] /\ UNCHANGED job
                            \/ Fail(g, "failed")
    BY <1>3 DEF EndArchive, Working
  <2> QED
    BY <1>a, <2>1, <2>2, <2>3, <2>4, WriteType
<1>4. CASE EndCopy(g)
  <2>1. disk' \in [Paths -> Archives]
    <3>1. NoFile \in Archives
      BY DEF NoFile, Archives
    <3>2. \/ disk' = [disk EXCEPT ![Path(g)].state =
                        IF @ = "mixed" THEN "mixed" ELSE "whole"]
          \/ disk' = [disk EXCEPT ![Path(g)] = NoFile]
      BY <1>4 DEF EndCopy
    <3>3. CASE disk' = [disk EXCEPT ![Path(g)].state =
                          IF @ = "mixed" THEN "mixed" ELSE "whole"]
      BY <1>b, <3>3, ArchiveState
    <3>4. CASE disk' = [disk EXCEPT ![Path(g)] = NoFile]
      BY <1>b, <3>1, <3>4, DiskType
    <3> QED
      BY <3>2, <3>3, <3>4
  <2>2. /\ data' \in [JobIds -> SUBSET Gathers]
        /\ wrap' \in [JobIds -> SUBSET Gathers]
        /\ left' \in [Gathers -> Nat]
        /\ UNCHANGED <<ctx, masked, jobs, cancels, gauge, nativeGather, now, dl, restarts>>
    BY <1>4 DEF EndCopy, TypeOK
  <2>3. \E to \in Working : \/ pc' = [pc EXCEPT ![g] = to] /\ UNCHANGED job
                            \/ Fail(g, "failed")
    BY <1>4 DEF EndCopy, Working
  <2> QED
    BY <1>a, <2>1, <2>2, <2>3, WriteType
<1> QED
  BY <1>1, <1>2, <1>3, <1>4 DEF Return

LEMMA ReturnUnboundType ==
  ASSUME TypeOK, LiveHasId, NEW g \in Gathers, Unbounded(g)
  PROVE  TypeOK' /\ LiveHasId'
<1>1. pc[g] \in Live
  BY DEF Unbounded, ReturnUnbound, FindMaster,
           RemoveBackup, OverlongLine, Goto, Live, Working
<1>2. \E to \in Working : \/ pc' = [pc EXCEPT ![g] = to] /\ UNCHANGED job
                          \/ Fail(g, "failed")
  BY DEF Unbounded, ReturnUnbound, FindMaster,
           RemoveBackup, OverlongLine, Goto, Working
<1>3. UNCHANGED <<left, disk, data, wrap, ctx, masked, jobs, cancels, gauge,
                  nativeGather, now, dl, restarts>>
  BY DEF Unbounded, ReturnUnbound, FindMaster,
           RemoveBackup, OverlongLine, files, registry, env
<1> QED
  BY <1>1, <1>2, <1>3, WriteType DEF TypeOK

(* What clients, timers and the sweep do to the manager.                   *)
LEMMA OtherType ==
  ASSUME TypeOK, LiveHasId,
         \/ \E g \in Gathers : RequestGather(g) \/ DeadlineExpires(g)
         \/ \E id \in JobIds : StopJob(id)
         \/ Tick
         \/ CleanupOldJobs
  PROVE  TypeOK' /\ LiveHasId'
<1> USE DEF files, registry, env
<1>1. ASSUME NEW g \in Gathers, RequestGather(g) PROVE TypeOK' /\ LiveHasId'
  <2>1. \E s \in InHandler : pc' = [pc EXCEPT ![g] = s]
    BY <1>1 DEF RequestGather, InHandler
  <2> QED
    BY <1>1, <2>1 DEF RequestGather, TypeOK, LiveHasId, PCs, Live, Working, InHandler
<1>2. ASSUME NEW g \in Gathers, DeadlineExpires(g) PROVE TypeOK' /\ LiveHasId'
  BY <1>2 DEF DeadlineExpires, TypeOK, LiveHasId
<1>3. ASSUME NEW id \in JobIds, StopJob(id) PROVE TypeOK' /\ LiveHasId'
  BY <1>3 DEF StopJob, TypeOK, LiveHasId
<1>4. CASE Tick
  BY <1>4, ClockType DEF Tick, TypeOK, LiveHasId
<1>5. CASE CleanupOldJobs
  <2>1. disk' \in [Paths -> Archives]
    BY <1>5 DEF CleanupOldJobs, TypeOK, NoFile, Archives
  <2>2. jobs' \in [JobIds -> Gathers \cup {None}]
    BY <1>5 DEF CleanupOldJobs, TypeOK
  <2> QED
    BY <1>5, <2>1, <2>2 DEF CleanupOldJobs, TypeOK, LiveHasId
<1> QED
  BY <1>1, <1>2, <1>3, <1>4, <1>5

(* What a download handler keeps between its two critical sections.        *)
LEMMA DownloadType ==
  ASSUME TypeOK, LiveHasId, ReferredHasId, NEW d \in Downloads,
         ServeFile(d) \/ \E id \in JobIds : GetFilePath(d, id)
  PROVE  TypeOK' /\ LiveHasId'
<1> USE DEF files, registry, env
<1>1. dl[d] \in Handlers
  BY DEF TypeOK
<1>2. CASE ServeFile(d)
  <2>1. dl' = [dl EXCEPT ![d] = [dl[d] EXCEPT !.pc = "served",
                                             !.file = disk[Path(dl[d].gather)]]]
    BY <1>2 DEF ServeFile
  <2>2. Path(dl[d].gather) \in Paths
    BY <1>2, PathType DEF ServeFile, ReferredHasId
  <2>3. disk[Path(dl[d].gather)] \in Archives
    BY <2>2 DEF TypeOK
  <2>4. [dl[d] EXCEPT !.pc = "served", !.file = disk[Path(dl[d].gather)]] \in Handlers
    BY <1>1, <2>3 DEF Handlers
  <2>5. dl' \in [Downloads -> Handlers]
    BY <2>1, <2>4 DEF TypeOK
  <2> QED
    BY <1>2, <2>5 DEF ServeFile, TypeOK, LiveHasId
<1>3. ASSUME NEW id \in JobIds, GetFilePath(d, id) PROVE TypeOK' /\ LiveHasId'
  <2>1. dl' = [dl EXCEPT ![d] = [dl[d] EXCEPT !.pc = "path", !.gather = jobs[id]]]
    BY <1>3 DEF GetFilePath
  <2>2. jobs[id] \in Gathers \cup {None}
    BY DEF TypeOK
  <2>3. [dl[d] EXCEPT !.pc = "path", !.gather = jobs[id]] \in Handlers
    BY <1>1, <2>2 DEF Handlers
  <2>4. dl' \in [Downloads -> Handlers]
    BY <2>1, <2>3 DEF TypeOK
  <2> QED
    BY <1>3, <2>4 DEF GetFilePath, TypeOK, LiveHasId
<1> QED
  BY <1>2, <1>3

LEMMA RestartType ==
  ASSUME TypeOK, LiveHasId, Restart
  PROVE  TypeOK' /\ LiveHasId'
<1> USE DEF Restart
<1>1. NoFile \in Archives /\ NoDownload \in Handlers
  BY DEF NoFile, Archives, NoDownload, Handlers
<1>2. disk' \in [Paths -> Archives]
  BY <1>1 DEF files, TypeOK
<1>3. data' \in [JobIds -> SUBSET Gathers] /\ wrap' \in [JobIds -> SUBSET Gathers]
  BY DEF files, TypeOK
<1>4. dl' \in [Downloads -> Handlers]
  BY <1>1 DEF TypeOK
<1>5. pc' \in [Gathers -> PCs] /\ LiveHasId'
  BY DEF TypeOK, PCs, LiveHasId, Live, Working
<1>6. /\ jobs' \in [JobIds -> Gathers \cup {None}]
      /\ cancels' \in [JobIds -> Gathers \cup {None}]
      /\ left' \in [Gathers -> Nat]
      /\ masked' \in [Gathers -> BOOLEAN]
      /\ gauge' \in Int
      /\ restarts' \in 0 .. MaxRestarts
  BY DEF TypeOK
<1> QED
  BY <1>2, <1>3, <1>4, <1>5, <1>6 DEF TypeOK

LEMMA StepPendingStep ==
  ASSUME TypeOK, StepPending, [Next]_vars
  PROVE  StepPending'
<1> USE DEF files, registry, env
<1> SUFFICES ASSUME NEW g \in Gathers, pc'[g] \in {"running", "stepErr"}
             PROVE  left'[g] > 0
  BY DEF StepPending
<1>1. ASSUME NEW h \in Gathers, Run(h) PROVE left'[g] > 0
  BY <1>1 DEF StepPending, TypeOK, Run, Goto, Fail, MakeDir, BeginStep, HandleStepError,
     FinishSteps, Anonymize, BeginArchive, BeginCopy, Complete, Exit
<1>2. ASSUME NEW h \in Gathers, Return(h) PROVE left'[g] > 0
  BY <1>2 DEF StepPending, TypeOK, Return, Fail, EndStep, EndBackup, EndArchive, EndCopy
<1>3. ASSUME NEW h \in Gathers,
             \/ RequestGather(h) \/ StartGather(h)
             \/ DeadlineExpires(h) \/ Unbounded(h)
      PROVE  left'[g] > 0
  <2>1. CASE RequestGather(h)
    BY <2>1 DEF StepPending, TypeOK, Goto, RequestGather
  <2>2. CASE StartGather(h)
    BY <2>2 DEF StepPending, TypeOK, Goto, StartGather
  <2>3. CASE DeadlineExpires(h)
    BY <2>3 DEF StepPending, DeadlineExpires
  <2>4. CASE Unbounded(h)
    BY <2>4 DEF StepPending, TypeOK, Goto, Fail, Unbounded, ReturnUnbound, FindMaster,
       RemoveBackup, OverlongLine
  <2> QED
    BY <1>3, <2>1, <2>2, <2>3, <2>4
<1>4. CASE Restart
  BY <1>4 DEF TypeOK, Restart, Live, Working
<1>5. CASE UNCHANGED <<pc, left>>
  BY <1>5 DEF StepPending
<1> QED
  <2>1. CASE UNCHANGED vars \/ Quiescent
    BY <2>1, <1>5 DEF vars, Quiescent
  <2>2. CASE \E id \in JobIds : StopJob(id)
    BY <2>2, <1>5 DEF StopJob
  <2>3. CASE \E d \in Downloads : ServeFile(d) \/ \E id \in JobIds : GetFilePath(d, id)
    BY <2>3, <1>5 DEF ServeFile, GetFilePath
  <2>4. CASE CleanupOldJobs \/ Tick
    BY <2>4, <1>5 DEF CleanupOldJobs, Tick
  <2> QED
    BY <1>1, <1>2, <1>3, <1>4, <2>1, <2>2, <2>3, <2>4 DEF Next

(* A Job keeps the ID it was given.                                        *)
LEMMA IdStays ==
  ASSUME TypeOK, [Next]_vars
  PROVE  \A g \in Gathers : job[g].id \in JobIds => job'[g].id \in JobIds
<1> USE DEF files, registry, env
<1> SUFFICES ASSUME NEW g \in Gathers, job[g].id \in JobIds
             PROVE  job'[g].id \in JobIds
  OBVIOUS
<1>a. ASSUME NEW h \in Gathers, NEW e \in Errors, Fail(h, e)
      PROVE  job'[g].id \in JobIds
  <2>1. job' = [job EXCEPT ![h] = [job[h] EXCEPT !.status = "failed", !.error = e]]
    BY <1>a DEF Fail
  <2> QED
    BY <2>1 DEF TypeOK, JobRecords
<1>1. ASSUME NEW h \in Gathers, Run(h) PROVE job'[g].id \in JobIds
  <2>1. CASE UNCHANGED job
    BY <2>1
  <2>2. CASE \E e \in Errors : Fail(h, e)
    BY <1>a, <2>2
  <2>3. CASE Complete(h)
    <3>1. job' = [job EXCEPT ![h] = [job[h] EXCEPT !.status = "complete"]]
      BY <2>3 DEF Complete
    <3> QED
      BY <3>1 DEF TypeOK, JobRecords
  <2>4. UNCHANGED job \/ (\E e \in Errors : Fail(h, e)) \/ Complete(h)
    BY <1>1 DEF Run, MakeDir, BeginStep, HandleStepError, FinishSteps, Anonymize,
                BeginArchive, BeginCopy, Exit, Errors
  <2> QED
    BY <2>1, <2>2, <2>3, <2>4
<1>2. ASSUME NEW h \in Gathers, Return(h) \/ Unbounded(h)
      PROVE  job'[g].id \in JobIds
  <2>1. UNCHANGED job \/ \E e \in Errors : Fail(h, e)
    BY <1>2 DEF Return, EndStep, EndBackup, EndArchive, EndCopy,
                Unbounded, ReturnUnbound, FindMaster,
           RemoveBackup, OverlongLine, Errors
  <2> QED
    BY <1>a, <2>1
<1>3. ASSUME NEW h \in Gathers, StartGather(h) PROVE job'[g].id \in JobIds
  <2>1. PICK r \in Requests :
          job' = [job EXCEPT ![h] = [id |-> <<r[1], now>>, status |-> "running",
                                     startedAt |-> now, anonymize |-> r[2],
                                     error |-> "none"]]
    BY <1>3 DEF StartGather
  <2>2. <<r[1], now>> \in JobIds
    BY DEF JobIds, Types, TypeOK
  <2> QED
    BY <2>1, <2>2 DEF TypeOK
<1>4. ASSUME NEW h \in Gathers, RequestGather(h) \/ DeadlineExpires(h)
      PROVE  job'[g].id \in JobIds
  BY <1>4 DEF RequestGather, DeadlineExpires
<1>5. CASE UNCHANGED job
  BY <1>5
<1> QED
  <2>1. CASE UNCHANGED vars \/ Quiescent
    BY <2>1, <1>5 DEF vars, Quiescent
  <2>2. CASE \E id \in JobIds : StopJob(id)
    BY <2>2, <1>5 DEF StopJob
  <2>3. CASE \E d \in Downloads : ServeFile(d) \/ \E id \in JobIds : GetFilePath(d, id)
    BY <2>3, <1>5 DEF ServeFile, GetFilePath
  <2>4. CASE CleanupOldJobs \/ Tick \/ Restart
    BY <2>4, <1>5 DEF CleanupOldJobs, Tick, Restart
  <2> QED
    BY <1>1, <1>2, <1>3, <1>4, <2>1, <2>2, <2>3, <2>4 DEF Next

LEMMA ReferredStep ==
  ASSUME TypeOK, ReferredHasId, [Next]_vars
  PROVE  ReferredHasId'
<1> USE DEF files, registry, env
<1>a. \A g \in Gathers : job[g].id \in JobIds => job'[g].id \in JobIds
  BY IdStays
<1>b. \A id \in JobIds : Listed(id) => jobs[id] \in Gathers
  BY DEF Listed, TypeOK
<1>1. ASSUME NEW id \in JobIds, Listed(id)' PROVE job'[jobs'[id]].id \in JobIds
  <2>1. CASE jobs'[id] = jobs[id]
    BY <1>1, <1>a, <1>b, <2>1 DEF Listed, ReferredHasId
  <2>2. ASSUME NEW h \in Gathers, StartGather(h), jobs'[id] # jobs[id]
        PROVE  job'[jobs'[id]].id \in JobIds
    <3>1. PICK r \in Requests :
            /\ job' = [job EXCEPT ![h] = [id |-> <<r[1], now>>, status |-> "running",
                                       startedAt |-> now, anonymize |-> r[2],
                                       error |-> "none"]]
            /\ jobs' = [jobs EXCEPT ![<<r[1], now>>] = h]
      BY <2>2 DEF StartGather
    <3>2. <<r[1], now>> \in JobIds
      BY DEF JobIds, Types, TypeOK
    <3> QED
      BY <2>2, <3>1, <3>2 DEF TypeOK
  <2>3. CASE CleanupOldJobs \/ Restart
    BY <1>1, <2>1, <2>3 DEF CleanupOldJobs, Restart, Listed
  <2>4. UNCHANGED jobs \/ CleanupOldJobs \/ Restart \/ \E h \in Gathers : StartGather(h)
    <3>1. ASSUME NEW k \in Gathers, Run(k) \/ Return(k) \/ Unbounded(k)
          PROVE  UNCHANGED jobs
      BY <3>1 DEF Run, Return, MakeDir, BeginStep, HandleStepError, FinishSteps, Anonymize,
         BeginArchive, BeginCopy, Complete, Exit, EndStep, EndBackup, EndArchive, EndCopy,
         Unbounded, ReturnUnbound, FindMaster, RemoveBackup, OverlongLine
    <3>2. ASSUME \/ \E k \in Gathers : RequestGather(k) \/ DeadlineExpires(k)
                 \/ \E i \in JobIds : StopJob(i)
                 \/ \E d \in Downloads : ServeFile(d) \/ \E i \in JobIds : GetFilePath(d, i)
                 \/ Tick \/ Quiescent \/ UNCHANGED vars
          PROVE  UNCHANGED jobs
      BY <3>2 DEF vars, RequestGather, DeadlineExpires, StopJob, ServeFile, GetFilePath, Tick,
         Quiescent
    <3> QED
      BY <3>1, <3>2 DEF Next
  <2> QED
    BY <2>1, <2>2, <2>3, <2>4
<1>2. ASSUME NEW d \in Downloads, dl'[d].pc = "path"
      PROVE  dl'[d].gather \in Gathers /\ job'[dl'[d].gather].id \in JobIds
  <2>1. CASE dl'[d] = dl[d]
    BY <1>2, <1>a, <2>1 DEF ReferredHasId
  <2>2. ASSUME NEW e \in Downloads, NEW id \in JobIds, GetFilePath(e, id)
        PROVE  dl'[d].gather \in Gathers /\ job'[dl'[d].gather].id \in JobIds
    <3>1. /\ dl' = [dl EXCEPT ![e] = [dl[e] EXCEPT !.pc = "path", !.gather = jobs[id]]]
          /\ Listed(id)
      BY <2>2 DEF GetFilePath
    <3>2. dl \in [Downloads -> Handlers] /\ jobs[id] \in Gathers
      BY <1>b, <3>1 DEF TypeOK
    <3>3. CASE e = d
      <4>1. dl'[d].gather = jobs[id]
        BY <3>1, <3>2, <3>3 DEF Handlers
      <4> QED
        BY <4>1, <3>1, <3>2, <1>a DEF ReferredHasId
    <3>4. CASE e # d
      BY <2>1, <3>1, <3>2, <3>4
    <3> QED
      BY <3>3, <3>4
  <2>3. ASSUME NEW e \in Downloads, ServeFile(e)
        PROVE  dl'[d].gather \in Gathers /\ job'[dl'[d].gather].id \in JobIds
    <3>1. dl' = [dl EXCEPT ![e] = [dl[e] EXCEPT !.pc = "served",
                                               !.file = disk[Path(dl[e].gather)]]]
      BY <2>3 DEF ServeFile
    <3>2. dl \in [Downloads -> Handlers]
      BY DEF TypeOK
    <3>3. dl'[d] = dl[d]
      BY <1>2, <3>1, <3>2 DEF Handlers
    <3> QED
      BY <2>1, <3>3
  <2>4. CASE Restart
    <3>1. dl' = [x \in Downloads |-> IF dl[x].pc = "path" THEN NoDownload ELSE dl[x]]
      BY <2>4 DEF Restart
    <3> QED
      BY <1>2, <2>1, <3>1 DEF NoDownload
  <2>5. \/ UNCHANGED dl \/ Restart
        \/ \E e \in Downloads : ServeFile(e) \/ \E id \in JobIds : GetFilePath(e, id)
    <3>1. ASSUME NEW h \in Gathers, Run(h) \/ Return(h) \/ Unbounded(h)
          PROVE  UNCHANGED dl
      BY <3>1 DEF Run, Return, MakeDir, BeginStep, HandleStepError, FinishSteps, Anonymize,
         BeginArchive, BeginCopy, Complete, Exit, EndStep, EndBackup, EndArchive, EndCopy,
         Unbounded, ReturnUnbound, FindMaster, RemoveBackup, OverlongLine
    <3>2. ASSUME \/ \E h \in Gathers : RequestGather(h) \/ StartGather(h) \/ DeadlineExpires(h)
                 \/ (\E id \in JobIds : StopJob(id)) \/ CleanupOldJobs \/ Tick \/ Quiescent
                 \/ UNCHANGED vars
          PROVE  UNCHANGED dl
      BY <3>2 DEF vars, RequestGather, StartGather, DeadlineExpires, StopJob, CleanupOldJobs,
         Tick, Quiescent
    <3> QED
      BY <3>1, <3>2 DEF Next
  <2> QED
    BY <2>1, <2>2, <2>3, <2>4, <2>5
<1> QED
  BY <1>1, <1>2 DEF ReferredHasId

(* The inductive invariant behind type correctness.                        *)
TypeInv == TypeOK /\ LiveHasId /\ StepPending /\ ReferredHasId

LEMMA TypeInvariant == Spec => []TypeInv
<1>1. Init => TypeInv
  BY InitType DEF TypeInv, Init, LiveHasId, StepPending, ReferredHasId, Listed, Live, Working,
                  NoDownload
<1>2. TypeInv /\ [Next]_vars => TypeInv'
  <2> SUFFICES ASSUME TypeInv, [Next]_vars PROVE TypeOK' /\ LiveHasId'
    BY StepPendingStep, ReferredStep DEF TypeInv
  <2>1. ASSUME NEW g \in Gathers,
               \/ RequestGather(g) \/ StartGather(g) \/ Run(g) \/ Return(g)
               \/ Unbounded(g) \/ DeadlineExpires(g)
        PROVE  TypeOK' /\ LiveHasId'
    BY <2>1, OtherType, StartGatherType, RunType, ReturnType, ReturnUnboundType DEF TypeInv
  <2>2. CASE (\E id \in JobIds : StopJob(id)) \/ CleanupOldJobs \/ Tick
    BY <2>2, OtherType DEF TypeInv
  <2>3. CASE \E d \in Downloads : ServeFile(d) \/ \E id \in JobIds : GetFilePath(d, id)
    BY <2>3, DownloadType DEF TypeInv
  <2>4. CASE Restart
    BY <2>4, RestartType DEF TypeInv
  <2>5. CASE UNCHANGED vars
    BY <2>5 DEF TypeInv, vars, TypeOK, LiveHasId
  <2> QED
    BY <2>1, <2>2, <2>3, <2>4, <2>5 DEF Next, Quiescent
<1> QED
  BY <1>1, <1>2, PTL DEF Spec

(* Every reachable state is one that the types of Manager, Job, the        *)
(* contexts and the files allow, whatever interleaves with the goroutines. *)
THEOREM TypeCorrect == Spec => []TypeOK
<1>1. TypeInv => TypeOK
  BY DEF TypeInv
<1> QED
  BY <1>1, TypeInvariant, PTL

-----------------------------------------------------------------------------
(* metrics.MustGatherJobsActive *)

LiveGathers == {g \in Gathers : pc[g] \in Live}

(* A gather that neither starts nor exits stays on its side of Live.       *)
LEMMA LiveStays ==
  ASSUME TypeOK, NEW g \in Gathers,
         Run(g) \/ Return(g) \/ Unbounded(g) \/ RequestGather(g), ~Exit(g)
  PROVE  LiveGathers' = LiveGathers /\ gauge' = gauge
<1>1. gauge' = gauge
  BY DEF Run, Return, Unbounded, ReturnUnbound, FindMaster,
           RemoveBackup, OverlongLine, RequestGather, MakeDir, BeginStep, HandleStepError,
     FinishSteps, Anonymize, BeginArchive, BeginCopy, Complete, EndStep, EndBackup,
     EndArchive, EndCopy, registry
<1>2. \E to \in PCs : pc' = [pc EXCEPT ![g] = to] /\ (pc[g] \in Live <=> to \in Live)
  <2>1. CASE RequestGather(g)
    <3>1. \E to \in {"refused", "admitted"} : pc' = [pc EXCEPT ![g] = to]
      BY <2>1 DEF RequestGather
    <3>2. pc[g] = "idle"
      BY <2>1 DEF RequestGather
    <3> QED
      BY <3>1, <3>2 DEF PCs, InHandler, Live, Working
  <2>2. CASE Run(g)
    BY <2>2, ~Exit(g) DEF Run, MakeDir, BeginStep, HandleStepError, FinishSteps, Anonymize,
       BeginArchive, BeginCopy, Complete, Fail, Goto, PCs, Live, Working
  <2>3. CASE Return(g) \/ Unbounded(g)
    BY <2>3 DEF Return, EndStep, EndBackup, EndArchive, EndCopy, Unbounded, ReturnUnbound, FindMaster,
           RemoveBackup, OverlongLine, Fail, Goto, PCs, Live, Working
  <2> QED
    BY <2>1, <2>2, <2>3
<1> QED
  BY <1>1, <1>2 DEF LiveGathers, TypeOK

(* The active-jobs gauge counts the goroutines that have not returned,     *)
(* for every number of gathers and every way a gather can end.             *)
THEOREM GaugeIsExact == Spec => []GaugeCountsGoroutines
<1>a. IsFiniteSet(LiveGathers)
  BY FS_Subset DEF LiveGathers
<1>1. Init => GaugeCountsGoroutines
  <2> SUFFICES ASSUME Init PROVE GaugeCountsGoroutines
    OBVIOUS
  <2>1. LiveGathers = {} /\ gauge = 0
    BY DEF Init, LiveGathers, Live, Working
  <2> QED
    BY <2>1, FS_EmptySet DEF GaugeCountsGoroutines, LiveGathers
<1>2. TypeInv /\ GaugeCountsGoroutines /\ [Next]_vars => GaugeCountsGoroutines'
  <2> SUFFICES ASSUME TypeOK, gauge = Cardinality(LiveGathers), [Next]_vars
               PROVE  gauge' = Cardinality(LiveGathers')
    BY DEF GaugeCountsGoroutines, LiveGathers, TypeInv
  <2>1. ASSUME NEW g \in Gathers, StartGather(g) PROVE gauge' = Cardinality(LiveGathers')
    <3>1. pc[g] = "admitted" /\ pc' = [pc EXCEPT ![g] = "mkdir"] /\ gauge' = gauge + 1
      BY <2>1 DEF StartGather, Goto
    <3>2. LiveGathers' = LiveGathers \cup {g} /\ g \notin LiveGathers
      BY <3>1 DEF LiveGathers, Live, Working, TypeOK
    <3> QED
      BY <1>a, <3>1, <3>2, FS_AddElement
  <2>2. ASSUME NEW g \in Gathers, Exit(g) PROVE gauge' = Cardinality(LiveGathers')
    <3>1. pc[g] = "exit" /\ pc' = [pc EXCEPT ![g] = "done"] /\ gauge' = gauge - 1
      BY <2>2 DEF Exit, Goto
    <3>2. LiveGathers' = LiveGathers \ {g} /\ g \in LiveGathers
      BY <3>1 DEF LiveGathers, Live, Working, TypeOK
    <3> QED
      BY <1>a, <3>1, <3>2, FS_RemoveElement
  <2>3. ASSUME NEW g \in Gathers,
               Run(g) \/ Return(g) \/ Unbounded(g) \/ RequestGather(g), ~Exit(g)
        PROVE  gauge' = Cardinality(LiveGathers')
    BY <2>3, LiveStays
  <2>4. CASE Restart
    <3>1. LiveGathers' = {} /\ gauge' = 0
      BY <2>4 DEF Restart, LiveGathers, Live, Working
    <3> QED
      BY <3>1, FS_EmptySet
  <2>5. CASE UNCHANGED <<pc, gauge>>
    BY <2>5 DEF LiveGathers
  <2> QED
    <3>1. CASE UNCHANGED vars \/ Quiescent
      BY <3>1, <2>5 DEF vars, Quiescent
    <3>2. CASE (\E id \in JobIds : StopJob(id)) \/ \E g \in Gathers : DeadlineExpires(g)
      BY <3>2, <2>5 DEF StopJob, DeadlineExpires, registry
    <3>3. CASE \E d \in Downloads : ServeFile(d) \/ \E id \in JobIds : GetFilePath(d, id)
      BY <3>3, <2>5 DEF ServeFile, GetFilePath, registry
    <3>4. CASE CleanupOldJobs \/ Tick
      BY <3>4, <2>5 DEF CleanupOldJobs, Tick, registry
    <3> QED
      BY <2>1, <2>2, <2>3, <2>4, <3>1, <3>2, <3>3, <3>4 DEF Next
<1> QED
  BY <1>1, <1>2, TypeInvariant, PTL DEF Spec
=============================================================================
