----------------------- MODULE GatherLifecycleProofs -----------------------
(***************************************************************************)
(* The life of a job in GatherManager: it is the one of JobLifecycle, the  *)
(* sweep forgets no completed job without its archive, and a completed     *)
(* native gather has removed both of its directories.  All of it rests on  *)
(* ManagerInv, so on distinct job IDs.                                     *)
(***************************************************************************)
EXTENDS GatherArchiveProofs

USE ManagerAssumption

(* A goroutine works under a job ID.                                       *)
LEMMA WorkerHasId ==
  ASSUME TypeInv, ManagerInv, NEW g \in Gathers, Run(g) \/ Return(g) \/ Unbounded(g)
  PROVE  pc[g] \in Live /\ job[g].id \in JobIds
<1>1. pc[g] \in Live
  BY DEF Run, MakeDir, BeginStep, HandleStepError, FinishSteps, Anonymize, BeginArchive,
         BeginCopy, Complete, Exit, Return, EndStep, EndBackup, EndArchive, EndCopy,
         Unbounded, ReturnUnbound, FindMaster, RemoveBackup, OverlongLine, Goto, Live, Working
<1> QED
  BY <1>1 DEF ManagerInv, IdsIdentify

(* A job becomes complete only by the last step of its goroutine, which    *)
(* is still listed then.                                                   *)
LEMMA BecomesComplete ==
  ASSUME TypeInv, ManagerInv, NEW g \in Gathers,
         Run(g) \/ Return(g) \/ Unbounded(g), ~Exit(g), job'[g].status = "complete"
  PROVE  pc[g] = "finish" /\ Complete(g) /\ jobs[job[g].id] = g
<1>a. TypeOK
  BY DEF TypeInv
<1>1. Advances(g) \/ \E s \in {"complete", "failed"} : Halts(g, s)
  BY <1>a, GoroutineSummary
<1>2. pc[g] \in Working
  BY <1>a, WorkerHasId DEF Run, Exit, Return, Unbounded, Live, MakeDir, BeginStep,
     HandleStepError, FinishSteps, Anonymize, BeginArchive, BeginCopy, Complete, EndStep,
     EndBackup, EndArchive, EndCopy, ReturnUnbound, FindMaster, RemoveBackup,
     OverlongLine, Goto, Working
<1>3. pc[g] = "finish"
  BY <1>1, <1>2 DEF Advances, Halts, ManagerInv, StatusMatchesPc
<1>4. Complete(g)
  BY <1>3 DEF Run, MakeDir, BeginStep, HandleStepError, FinishSteps, Anonymize,
     BeginArchive, BeginCopy, Return, EndStep, EndBackup, EndArchive, EndCopy,
     Unbounded, ReturnUnbound, FindMaster, RemoveBackup, OverlongLine, Goto
<1> QED
  BY <1>2, <1>3, <1>4 DEF ManagerInv, MapsMatch

-----------------------------------------------------------------------------
(* Forgotten jobs *)

LEMMA ForgottenStep ==
  ASSUME TypeInv, ~SameMillisecond, ManagerInv, ForgottenIsReclaimed, [Next]_vars
  PROVE  ForgottenIsReclaimed'
<1>a. TypeOK /\ IdsIdentify /\ StatusMatchesPc /\ MapsMatch
  BY DEF TypeInv, ManagerInv
<1>b. \A g \in Gathers : job[g].id # None =>
        /\ job[g].id \in JobIds /\ Path(g) \in Paths
        /\ job'[g].id = job[g].id /\ Path(g)' = Path(g)
  <2>1. \A g \in Gathers : job[g].id # None => job[g].id \in JobIds
    BY <1>a DEF TypeOK, JobRecords
  <2> QED
    BY <1>a, <2>1, JobStays, PathType DEF Path, IsEtcd, TypeOf
<1>c. \A g \in Gathers : job[g].status = "complete" => job[g].id # None
  BY <1>a DEF IdsIdentify
<1> SUFFICES ASSUME restarts' = 0, NEW h \in Gathers,
                    job'[h].status = "complete", jobs'[job'[h].id] # h
             PROVE  disk'[Path(h)'].state = "absent"
  BY DEF ForgottenIsReclaimed
<1>1. ASSUME restarts' = restarts, job'[h].status = job[h].status,
             job[h].status = "complete" =>
               /\ jobs[job[h].id] = h => jobs'[job[h].id] = h
               /\ disk'[Path(h)] = disk[Path(h)]
      PROVE  disk'[Path(h)'].state = "absent"
  BY <1>b, <1>c, <1>1 DEF ForgottenIsReclaimed
<1>2. ASSUME NEW g \in Gathers, Run(g) \/ Return(g) \/ Unbounded(g), ~Exit(g)
      PROVE  disk'[Path(h)'].state = "absent"
  <2>1. /\ UNCHANGED jobs
        /\ Advances(g) \/ \E s \in {"complete", "failed"} : Halts(g, s)
    BY <1>a, <1>2, GoroutineSummary
  <2>2. CASE h = g
    <3>1. jobs[job[g].id] = g /\ job[g].id # None
      BY <1>2, <2>2, BecomesComplete, WorkerHasId
    <3> QED
      BY <1>b, <2>1, <2>2, <3>1
  <2>3. CASE h # g
    <3>1. job'[h] = job[h]
      BY <2>1, <2>3 DEF Advances, Halts
    <3>2. restarts' = restarts
      BY <1>2 DEF Run, MakeDir, BeginStep, HandleStepError, FinishSteps, Anonymize,
         BeginArchive, BeginCopy, Complete, Return, EndStep, EndBackup, EndArchive,
         EndCopy, Unbounded, ReturnUnbound, FindMaster, RemoveBackup, OverlongLine, env
    <3>3. disk'[Path(h)] = disk[Path(h)]
      BY <1>a, <1>b, <1>c, <1>2, <2>3, <3>1, OthersArchive
    <3> QED
      BY <1>1, <2>1, <3>1, <3>2, <3>3
  <2> QED
    BY <2>2, <2>3
<1>3. CASE CleanupOldJobs
  <2> DEFINE gone == {Path(jobs[id]) : id \in {i \in ExpiredIds :
                                                job[jobs[i]].status = "complete"}}
  <2>1. /\ jobs' = [id \in JobIds |-> IF id \in ExpiredIds THEN None ELSE jobs[id]]
        /\ disk' = [p \in Paths |-> IF p \in gone THEN NoFile ELSE disk[p]]
        /\ UNCHANGED <<job, restarts>>
    BY <1>3 DEF CleanupOldJobs, env
  <2>2. job[h].status = "complete" /\ job[h].id \in JobIds /\ Path(h) \in Paths
    BY <1>b, <1>c, <2>1
  <2>3. CASE jobs[job[h].id] = h
    <3>1. job[h].id \in ExpiredIds
      BY <2>1, <2>2, <2>3
    <3>2. Path(h) \in gone
      BY <2>2, <2>3, <3>1
    <3> QED
      BY <1>b, <1>c, <2>1, <2>2, <3>2 DEF NoFile
  <2>4. CASE jobs[job[h].id] # h
    <3>1. disk[Path(h)].state = "absent"
      BY <2>1, <2>2, <2>4 DEF ForgottenIsReclaimed
    <3> HIDE DEF gone
    <3> QED
      BY <1>b, <1>c, <2>1, <2>2, <3>1 DEF NoFile
  <2> QED
    BY <2>3, <2>4
<1>4. CASE Restart
  BY <1>a, <1>4 DEF Restart, TypeOK
<1>5. ASSUME NEW g \in Gathers, StartGather(g)
      PROVE  disk'[Path(h)'].state = "absent"
  <2>1. PICK id \in JobIds : Starts(g, id)
    BY <1>a, <1>5, StartStarts
  <2>2. h # g /\ job'[h] = job[h] /\ job[h].id # id
    BY <2>1 DEF Starts
  <2>3. jobs'[job[h].id] = jobs[job[h].id] \/ job[h].id = None
    BY <1>a, <1>b, <2>1, <2>2 DEF Starts, TypeOK
  <2>4. disk' = disk /\ restarts' = restarts
    BY <1>5 DEF StartGather, files, env
  <2> QED
    BY <1>1, <1>c, <2>2, <2>3, <2>4
<1>6. CASE UNCHANGED <<job, jobs, disk, restarts>>
  BY <1>1, <1>6
<1> QED
  <2>1. CASE \E g \in Gathers : RequestGather(g) \/ Exit(g) \/ DeadlineExpires(g)
    BY <1>6, <2>1 DEF RequestGather, Exit, DeadlineExpires, files, registry, env
  <2>2. CASE \E id \in JobIds : StopJob(id)
    BY <1>6, <2>2 DEF StopJob, files, registry, env
  <2>3. CASE \E d \in Downloads : ServeFile(d) \/ \E id \in JobIds : GetFilePath(d, id)
    BY <1>6, <2>3 DEF ServeFile, GetFilePath, files, registry
  <2>4. CASE Tick \/ Quiescent \/ UNCHANGED vars
    BY <1>6, <2>4 DEF Tick, Quiescent, vars, files, registry
  <2> QED
    BY <1>2, <1>3, <1>4, <1>5, <2>1, <2>2, <2>3, <2>4 DEF Next

(* As long as the process lives and no two jobs get the same ID, a         *)
(* completed job that the sweep has forgotten has no archive left.         *)
THEOREM ForgottenJobsAreReclaimed ==
  ASSUME ~SameMillisecond
  PROVE  Spec => []ForgottenIsReclaimed
<1>1. Init => ForgottenIsReclaimed
  BY DEF Init, ForgottenIsReclaimed, NoJob
<1>2. TypeInv /\ ManagerInv /\ ForgottenIsReclaimed /\ [Next]_vars => ForgottenIsReclaimed'
  BY ForgottenStep
<1> QED
  BY <1>1, <1>2, TypeInvariant, ManagerIsConsistent, PTL DEF Spec
-----------------------------------------------------------------------------
(* Directories of native gathers *)

(* Until a native gather is archived its wrapper is free, so the rename    *)
(* into it succeeds; from then on its own directory is, unless it is an    *)
(* etcd backup, which is not renamed.                                      *)
Tidy(g) ==
  LET id == job[g].id IN
  /\ pc[g] \notin {"find", "blocked", "copy", "copying", "remove"}
  /\ pc[g] \in {"mkdir", "step", "running", "stepErr", "anonymize", "archive"} =>
       wrap[id] = {}
  /\ pc[g] = "tarring" => data[id] = {}
  /\ pc[g] = "finish" \/ job[g].status = "complete" =>
       wrap[id] = {} /\ (IsEtcd(g) \/ data[id] = {})

DirectoriesMatch ==
  nativeGather => \A g \in Gathers : job[g].id # None => Tidy(g)

(* Renaming between the two directories of an ID.                          *)
LEMMA MovedEmpty ==
  ASSUME NEW from \in [JobIds -> SUBSET Gathers],
         NEW to \in [JobIds -> SUBSET Gathers], NEW id \in JobIds
  PROVE  /\ to[id] = {} => Left(from, to, id)[id] = {}
         /\ from[id] = {} /\ to[id] = {} =>
              Moved(from, to, id)[id] = {} /\ Left(from, to, id)[id] = {}
BY DEF Moved, Left

LEMMA MovedElsewhere ==
  ASSUME NEW from \in [JobIds -> SUBSET Gathers],
         NEW to \in [JobIds -> SUBSET Gathers], NEW id \in JobIds,
         NEW x \in JobIds \ {id}
  PROVE  Moved(from, to, id)[x] = to[x] /\ Left(from, to, id)[x] = from[x]
BY DEF Moved, Left

(* What the two archive steps do to the directories.                       *)
LEMMA ArchiveDirectories ==
  ASSUME TypeOK, nativeGather, NEW g \in Gathers, job[g].id \in JobIds,
         BeginArchive(g) \/ EndArchive(g)
  PROVE  LET id == job[g].id
             w == Moved(data, wrap, id)
             d == Left(data, wrap, id)
         IN \/ data' = d /\ wrap' = w /\ pc[g] = "archive" /\ pc'[g] = "tarring" /\ job' = job
            \/ data' = data /\ wrap' = [wrap EXCEPT ![id] = {}]
               /\ pc[g] = "tarring" /\ pc'[g] = "finish" /\ job' = job
            \/ data' = Moved(w, d, id) /\ wrap' = Left(w, d, id) /\ Fail(g, "failed")
            \/ data' = Moved(wrap, data, id) /\ wrap' = Left(wrap, data, id) /\ Fail(g, "failed")
<1>1. CASE BeginArchive(g)
  BY <1>1 DEF BeginArchive, TypeOK
<1>2. CASE EndArchive(g)
  BY <1>2 DEF EndArchive, TypeOK
<1> QED
  BY <1>1, <1>2

(* The directories of other jobs stay as they are.                         *)
LEMMA OthersDirectories ==
  ASSUME TypeInv, ManagerInv, nativeGather, NEW g \in Gathers,
         Run(g) \/ Return(g) \/ Unbounded(g),
         NEW x \in JobIds, x # job[g].id
  PROVE  data'[x] = data[x] /\ wrap'[x] = wrap[x]
<1>a. TypeOK /\ job[g].id \in JobIds
  BY WorkerHasId DEF TypeInv
<1>b. data \in [JobIds -> SUBSET Gathers] /\ wrap \in [JobIds -> SUBSET Gathers]
  BY <1>a DEF TypeOK
<1> DEFINE id == job[g].id
           w == Moved(data, wrap, id)
           d == Left(data, wrap, id)
<1>1. CASE BeginArchive(g) \/ EndArchive(g)
  <2>1. w \in [JobIds -> SUBSET Gathers] /\ d \in [JobIds -> SUBSET Gathers]
    BY <1>a, <1>b, MovedType
  <2>2. /\ w[x] = wrap[x] /\ d[x] = data[x]
        /\ Moved(wrap, data, id)[x] = data[x] /\ Left(wrap, data, id)[x] = wrap[x]
    BY <1>a, <1>b, MovedElsewhere
  <2>3. \/ data' = d /\ wrap' = w
        \/ data' = data /\ wrap' = [wrap EXCEPT ![id] = {}]
        \/ data' = Moved(w, d, id) /\ wrap' = Left(w, d, id)
        \/ data' = Moved(wrap, data, id) /\ wrap' = Left(wrap, data, id)
    BY <1>a, <1>1, ArchiveDirectories
  <2> HIDE DEF w, d
  <2>4. Moved(w, d, id)[x] = d[x] /\ Left(w, d, id)[x] = w[x]
    BY <1>a, <2>1, MovedElsewhere
  <2> QED
    BY <1>b, <2>2, <2>3, <2>4
<1>2. CASE EndStep(g) \/ MakeDir(g)
  BY <1>b, <1>2 DEF EndStep, MakeDir
<1>3. CASE ~BeginArchive(g) /\ ~EndArchive(g) /\ ~EndStep(g) /\ ~MakeDir(g)
  BY <1>3 DEF Run, BeginStep, HandleStepError, FinishSteps, Anonymize, BeginCopy,
     Complete, Exit, Return, EndBackup, EndCopy, Unbounded, ReturnUnbound, FindMaster,
     RemoveBackup, OverlongLine, files
<1> QED
  BY <1>1, <1>2, <1>3

(* A step of the gather itself keeps its directories in order.             *)
LEMMA OwnDirectories ==
  ASSUME TypeInv, ManagerInv, nativeGather, NEW g \in Gathers, Tidy(g),
         Run(g) \/ Return(g) \/ Unbounded(g),
         job'[g].id = job[g].id
  PROVE  Tidy(g)'
<1>a. TypeOK /\ StatusMatchesPc /\ job[g].id \in JobIds
  BY WorkerHasId DEF TypeInv, ManagerInv
<1>b. /\ data \in [JobIds -> SUBSET Gathers] /\ wrap \in [JobIds -> SUBSET Gathers]
      /\ pc \in [Gathers -> PCs] /\ job \in [Gathers -> JobRecords]
  BY <1>a DEF TypeOK
<1>c. IsEtcd(g)' = IsEtcd(g)
  BY DEF IsEtcd, TypeOf
<1>d. ASSUME NEW e, Fail(g, e)
      PROVE  pc'[g] = "exit" /\ job'[g].status = "failed"
  BY <1>b, <1>d DEF Fail, JobRecords
<1> DEFINE id == job[g].id
           w == Moved(data, wrap, id)
           d == Left(data, wrap, id)
<1>1. CASE BeginArchive(g) \/ EndArchive(g)
  <2>1. /\ w \in [JobIds -> SUBSET Gathers] /\ d \in [JobIds -> SUBSET Gathers]
        /\ wrap[id] = {} => d[id] = {}
        /\ data[id] = {} /\ wrap[id] = {} =>
             /\ w[id] = {} /\ d[id] = {}
             /\ Moved(wrap, data, id)[id] = {} /\ Left(wrap, data, id)[id] = {}
    BY <1>a, <1>b, MovedType, MovedEmpty
  <2>2. \/ data' = d /\ wrap' = w /\ pc[g] = "archive" /\ pc'[g] = "tarring" /\ job' = job
        \/ data' = data /\ wrap' = [wrap EXCEPT ![id] = {}]
           /\ pc[g] = "tarring" /\ pc'[g] = "finish" /\ job' = job
        \/ data' = Moved(w, d, id) /\ wrap' = Left(w, d, id) /\ Fail(g, "failed")
        \/ data' = Moved(wrap, data, id) /\ wrap' = Left(wrap, data, id) /\ Fail(g, "failed")
    BY <1>a, <1>1, ArchiveDirectories
  <2> HIDE DEF w, d
  <2>3. w[id] = {} /\ d[id] = {} => Moved(w, d, id)[id] = {} /\ Left(w, d, id)[id] = {}
    BY <1>a, <2>1, MovedEmpty
  <2>4. pc[g] \in {"archive", "tarring"} => job[g].status = "running"
    BY <1>a DEF StatusMatchesPc, Working
  <2>5. CASE data' = d /\ wrap' = w /\ pc[g] = "archive" /\ pc'[g] = "tarring" /\ job' = job
    BY <1>c, <2>1, <2>4, <2>5 DEF Tidy
  <2>6. CASE data' = data /\ wrap' = [wrap EXCEPT ![id] = {}]
             /\ pc[g] = "tarring" /\ pc'[g] = "finish" /\ job' = job
    BY <1>a, <1>b, <2>6 DEF Tidy
  <2>7. CASE data' = Moved(w, d, id) /\ wrap' = Left(w, d, id) /\ Fail(g, "failed")
    BY <1>c, <1>d, <2>1, <2>3, <2>7 DEF Tidy
  <2>8. CASE data' = Moved(wrap, data, id) /\ wrap' = Left(wrap, data, id) /\ Fail(g, "failed")
    BY <1>c, <1>d, <2>1, <2>8 DEF Tidy
  <2> QED
    BY <2>2, <2>5, <2>6, <2>7, <2>8
<1>2. CASE EndStep(g)
  <2>1. /\ pc[g] = "running" /\ pc'[g] \in {"step", "stepErr"}
        /\ job' = job /\ wrap' = wrap /\ ~IsEtcd(g) /\ job[g].status = "running"
    BY <1>a, <1>b, <1>2 DEF EndStep, StatusMatchesPc, Working
  <2> QED
    BY <1>c, <2>1 DEF Tidy
<1>3. CASE Run(g) /\ ~BeginArchive(g)
  <2>1. wrap' = wrap /\ (pc[g] # "mkdir" => data' = data)
    BY <1>3 DEF Run, MakeDir, BeginStep, HandleStepError, FinishSteps, Anonymize, BeginCopy,
       Complete, Exit, files
  <2>2. \/ Complete(g) \/ Exit(g) \/ \E e : Fail(g, e)
        \/ /\ pc[g] \in {"mkdir", "step", "running", "stepErr", "anonymize"}
           /\ pc'[g] \in {"step", "running", "anonymize", "archive"}
           /\ job' = job /\ job[g].status = "running"
    BY <1>a, <1>b, <1>3 DEF Tidy, Run, MakeDir, BeginStep, HandleStepError, FinishSteps,
       Anonymize, BeginCopy, Goto, StatusMatchesPc, Working
  <2>3. CASE Complete(g)
    BY <1>b, <1>c, <2>1, <2>3 DEF Tidy, Complete, Goto
  <2>4. CASE Exit(g)
    BY <1>b, <1>c, <2>1, <2>4 DEF Tidy, Exit, Goto
  <2>5. CASE \E e : Fail(g, e)
    BY <1>c, <1>d, <2>1, <2>5 DEF Tidy
  <2>6. CASE /\ pc[g] \in {"mkdir", "step", "running", "stepErr", "anonymize"}
             /\ pc'[g] \in {"step", "running", "anonymize", "archive"}
             /\ job' = job /\ job[g].status = "running"
    BY <1>c, <2>1, <2>6 DEF Tidy
  <2> QED
    BY <2>2, <2>3, <2>4, <2>5, <2>6
<1>4. CASE EndBackup(g)
  <2>1. data' = data /\ wrap' = wrap /\ pc[g] = "running" /\ IsEtcd(g)
    BY <1>4 DEF EndBackup
  <2>2. pc'[g] \in {"finish", "stepErr", "exit"}
    BY <1>b, <1>4 DEF EndBackup, Fail
  <2>3. wrap[id] = {} /\ job'[g].id = id
    BY <2>1 DEF Tidy
  <2> HIDE DEF id
  <2> QED
    BY <1>c, <2>1, <2>2, <2>3 DEF Tidy, id
<1>5. ~EndCopy(g) /\ ~Unbounded(g)
  BY DEF Tidy, EndCopy, Unbounded, ReturnUnbound, FindMaster, RemoveBackup, OverlongLine, Goto
<1> QED
  BY <1>1, <1>2, <1>3, <1>4, <1>5 DEF Return

LEMMA DirectoriesMatchStep ==
  ASSUME TypeInv, ~SameMillisecond, ManagerInv, DirectoriesMatch, [Next]_vars
  PROVE  DirectoriesMatch'
<1>a. TypeOK /\ IdsIdentify /\ StatusMatchesPc /\ ContentMatches
  BY DEF TypeInv, ManagerInv
<1>b. \A g \in Gathers : job[g].id # None =>
        job[g].id \in JobIds /\ job'[g].id = job[g].id /\ IsEtcd(g)' = IsEtcd(g)
  <2>1. \A g \in Gathers : job[g].id # None =>
          job[g].id \in JobIds /\ job'[g].id = job[g].id
    <3>1. \A g \in Gathers : job[g].id \in JobIds \cup {None}
      BY <1>a DEF TypeOK, JobRecords
    <3> QED
      BY <1>a, <3>1, JobStays
  <2> QED
    BY <2>1 DEF IsEtcd, TypeOf
<1>c. nativeGather' = nativeGather
  <2>1. ASSUME NEW g \in Gathers, Run(g) \/ Return(g) \/ Unbounded(g)
        PROVE  UNCHANGED nativeGather
    BY <2>1 DEF Run, Return, MakeDir, BeginStep, HandleStepError, FinishSteps, Anonymize,
       BeginArchive, BeginCopy, Complete, Exit, EndStep, EndBackup, EndArchive, EndCopy,
       Unbounded, ReturnUnbound, FindMaster, RemoveBackup, OverlongLine, env
  <2>2. ASSUME \/ \E g \in Gathers : RequestGather(g) \/ StartGather(g) \/ DeadlineExpires(g)
               \/ \E id \in JobIds : StopJob(id)
               \/ \E d \in Downloads : ServeFile(d) \/ \E id \in JobIds : GetFilePath(d, id)
               \/ CleanupOldJobs \/ Tick \/ Restart \/ Quiescent \/ UNCHANGED vars
        PROVE  UNCHANGED nativeGather
    BY <2>2 DEF vars, RequestGather, StartGather, DeadlineExpires, StopJob, ServeFile,
       GetFilePath, CleanupOldJobs, Tick, Restart, Quiescent, env
  <2> QED
    BY <2>1, <2>2 DEF Next
<1> SUFFICES ASSUME nativeGather, NEW h \in Gathers, job'[h].id # None
             PROVE  Tidy(h)'
  BY <1>c DEF DirectoriesMatch
<1>1. ASSUME job[h].id # None, job'[h].status = job[h].status,
             pc'[h] = pc[h] \/ pc'[h] \in {"done", "lost", "idle", "refused", "admitted"},
             /\ data'[job[h].id] \in {{}, data[job[h].id]}
             /\ wrap'[job[h].id] \in {{}, wrap[job[h].id]}
      PROVE  Tidy(h)'
  BY <1>b, <1>1 DEF DirectoriesMatch, Tidy
<1>2. ASSUME NEW g \in Gathers, Run(g) \/ Return(g) \/ Unbounded(g)
      PROVE  Tidy(h)'
  <2>1. CASE h = g
    BY <1>b, <1>2, <2>1, OwnDirectories, WorkerHasId DEF DirectoriesMatch
  <2>2. CASE h # g
    <3>1. pc'[h] = pc[h] /\ job'[h] = job[h]
      <4>1. CASE Exit(g)
        BY <1>a, <2>2, <4>1 DEF Exit, Goto, TypeOK
      <4>2. CASE ~Exit(g)
        BY <1>a, <1>2, <2>2, <4>2, GoroutineSummary DEF Advances, Halts
      <4> QED
        BY <4>1, <4>2
    <3>2. job[h].id # job[g].id
      BY <1>a, <2>2, <3>1 DEF IdsIdentify
    <3> QED
      BY <1>1, <1>2, <1>b, <3>1, <3>2, OthersDirectories
  <2> QED
    BY <2>1, <2>2
<1>3. ASSUME NEW g \in Gathers, StartGather(g)
      PROVE  Tidy(h)'
  <2>1. PICK id \in JobIds : Starts(g, id)
    BY <1>a, <1>3, StartStarts
  <2>2. data' = data /\ wrap' = wrap
    BY <2>1 DEF Starts, files
  <2>3. CASE h = g
    <3>1. data[id] = {} /\ wrap[id] = {}
      <4>1. data[id] \subseteq Gathers /\ wrap[id] \subseteq Gathers
        BY <1>a DEF TypeOK
      <4> QED
        BY <1>a, <2>1, <4>1 DEF ContentMatches, Starts
    <3>2. job'[h].id = id /\ pc'[h] = "mkdir"
      BY <2>1, <2>3 DEF Starts
    <3> QED
      BY <2>2, <3>1, <3>2 DEF Tidy
  <2>4. CASE h # g
    BY <1>1, <2>1, <2>2, <2>4 DEF Starts
  <2> QED
    BY <2>3, <2>4
<1>4. CASE Restart
  <2>1. /\ job' = job /\ job[h].id # None
        /\ pc'[h] = pc[h] \/ pc'[h] = "lost"
    BY <1>4 DEF Restart
  <2>2. /\ data'[job[h].id] \in {{}, data[job[h].id]}
        /\ wrap'[job[h].id] \in {{}, wrap[job[h].id]}
    BY <1>b, <1>4, <2>1 DEF Restart, files
  <2> QED
    BY <1>1, <2>1, <2>2
<1>5. ASSUME UNCHANGED <<job, data, wrap>>,
             pc'[h] = pc[h] \/ pc'[h] \in {"refused", "admitted"}
      PROVE  Tidy(h)'
  BY <1>1, <1>5
<1> QED
  <2>1. CASE \E g \in Gathers : RequestGather(g)
    BY <1>a, <1>5, <2>1 DEF RequestGather, files, TypeOK
  <2>2. CASE (\E g \in Gathers : DeadlineExpires(g)) \/ \E id \in JobIds : StopJob(id)
    BY <1>5, <2>2 DEF DeadlineExpires, StopJob, files
  <2>3. CASE \E d \in Downloads : ServeFile(d) \/ \E id \in JobIds : GetFilePath(d, id)
    BY <1>5, <2>3 DEF ServeFile, GetFilePath, files
  <2>4. CASE CleanupOldJobs \/ Tick \/ Quiescent \/ UNCHANGED vars
    BY <1>5, <2>4 DEF CleanupOldJobs, Tick, Quiescent, vars, files
  <2> QED
    BY <1>2, <1>3, <1>4, <2>1, <2>2, <2>3, <2>4 DEF Next

(* As long as no two jobs get the same ID, a completed native gather has   *)
(* left neither its directory nor the wrapper it was renamed into, except  *)
(* that an etcd backup leaves its own directory.                           *)
THEOREM NativeGathersAreTidy ==
  ASSUME ~SameMillisecond
  PROVE  Spec => []NativeCompleteIsTidy
<1>1. Init => DirectoriesMatch
  BY DEF Init, DirectoriesMatch, NoJob
<1>2. TypeInv /\ ManagerInv /\ DirectoriesMatch /\ [Next]_vars => DirectoriesMatch'
  BY DirectoriesMatchStep
<1>3. TypeInv /\ ManagerInv /\ DirectoriesMatch => NativeCompleteIsTidy
  <2> SUFFICES ASSUME TypeInv, ManagerInv, DirectoriesMatch, nativeGather,
                      NEW g \in Gathers, job[g].status = "complete"
               PROVE  /\ wrap[job[g].id] = {}
                      /\ data[job[g].id] \subseteq (IF IsEtcd(g) THEN {g} ELSE {})
    BY DEF NativeCompleteIsTidy
  <2>1. job[g].id \in JobIds /\ Tidy(g)
    BY DEF TypeInv, TypeOK, JobRecords, ManagerInv, IdsIdentify, DirectoriesMatch
  <2>2. data[job[g].id] \subseteq {g}
    BY <2>1 DEF TypeInv, TypeOK, JobRecords, ManagerInv, IdsIdentify, ContentMatches
  <2> QED
    BY <2>1, <2>2 DEF Tidy
<1> QED
  BY <1>1, <1>2, <1>3, TypeInvariant, ManagerIsConsistent, PTL DEF Spec
-----------------------------------------------------------------------------
(* Refinement of JobLifecycle *)

(* The jobs that a client can ask about, and those handed out.             *)
ListedJobs == {g \in Gathers : job[g].id # None /\ jobs[job[g].id] = g}
DeliveredJobs ==
  {g \in Gathers : \E d \in Downloads : dl[d].gather = g /\ dl[d].file.state = "whole"}
StatusOf == [g \in Gathers |-> job[g].status]
StartOf == [g \in Gathers |-> job[g].startedAt]
Promised == <<now, StatusOf, StartOf, ListedJobs, DeliveredJobs>>

(* A download has no file before it is served.                             *)
NothingBeforeServed == \A d \in Downloads : dl[d].pc # "served" => dl[d].file = NoFile

LEMMA NothingBeforeServedStep ==
  TypeOK /\ NothingBeforeServed /\ [Next]_vars => NothingBeforeServed'
<1> SUFFICES ASSUME TypeOK, NothingBeforeServed, [Next]_vars PROVE NothingBeforeServed'
  OBVIOUS
<1>a. dl \in [Downloads -> Handlers]
  BY DEF TypeOK
<1>1. CASE UNCHANGED dl
  BY <1>1 DEF NothingBeforeServed
<1>2. ASSUME NEW d \in Downloads, NEW id \in JobIds, GetFilePath(d, id)
      PROVE  NothingBeforeServed'
  <2>1. /\ dl[d].pc = "idle"
        /\ dl' = [dl EXCEPT ![d] = [dl[d] EXCEPT !.pc = "path", !.gather = jobs[id]]]
    BY <1>2 DEF GetFilePath
  <2>2. dl'[d].file = dl[d].file /\ \A e \in Downloads \ {d} : dl'[e] = dl[e]
    BY <1>a, <2>1 DEF Handlers
  <2> QED
    BY <2>1, <2>2 DEF NothingBeforeServed
<1>3. ASSUME NEW d \in Downloads, ServeFile(d)
      PROVE  NothingBeforeServed'
  <2>1. dl'[d].pc = "served" /\ \A e \in Downloads \ {d} : dl'[e] = dl[e]
    BY <1>a, <1>3 DEF ServeFile, Handlers
  <2> QED
    BY <2>1 DEF NothingBeforeServed
<1>4. CASE Restart
  BY <1>4 DEF Restart, NothingBeforeServed, NoDownload
<1> QED
  <2>1. CASE \E g \in Gathers : Run(g) \/ Return(g) \/ Unbounded(g)
    BY <1>1, <2>1, GoroutineSummary DEF Exit, env
  <2>2. CASE \/ \E g \in Gathers : RequestGather(g) \/ StartGather(g) \/ DeadlineExpires(g)
             \/ \E id \in JobIds : StopJob(id)
             \/ CleanupOldJobs \/ Tick \/ Quiescent \/ UNCHANGED vars
    BY <1>1, <2>2 DEF RequestGather, StartGather, DeadlineExpires, StopJob, CleanupOldJobs,
       Tick, Quiescent, vars, env
  <2> QED
    BY <1>2, <1>3, <1>4, <2>1, <2>2 DEF Next

(* A step that leaves the structs, the map and the downloads alone.        *)
LEMMA SameJobs ==
  ASSUME UNCHANGED <<job, jobs, dl>>
  PROVE  UNCHANGED <<StatusOf, StartOf, ListedJobs, DeliveredJobs>>
BY DEF StatusOf, StartOf, ListedJobs, DeliveredJobs

(* StartGather accepts the job: nobody was listed under its ID.            *)
LEMMA StartAccepts ==
  ASSUME TypeOK, ~SameMillisecond, ManagerInv, NEW g \in Gathers, StartGather(g)
  PROVE  Lifecycle!Accept(g)
<1>a. IdsIdentify /\ MapsMatch /\ job \in [Gathers -> JobRecords]
      /\ jobs \in [JobIds -> Gathers \cup {None}]
  BY DEF ManagerInv, TypeOK
<1>1. PICK id \in JobIds : Starts(g, id)
  BY StartStarts
<1>2. now' = now /\ dl' = dl
  BY DEF StartGather, env
<1>3. job[g].status = "none" /\ job[g].id = None
  BY <1>a, <1>1 DEF Starts, IdsIdentify, InHandler
<1>4. StatusOf' = [StatusOf EXCEPT ![g] = "running"]
      /\ StartOf' = [StartOf EXCEPT ![g] = now]
  BY <1>1 DEF Starts, StatusOf, StartOf
<1>5. ListedJobs' = ListedJobs \cup {g}
  <2>1. \A h \in Gathers \ {g} : job'[h] = job[h] /\ job[h].id # id
    BY <1>1 DEF Starts
  <2>2. job'[g].id = id /\ id # None /\ jobs' = [jobs EXCEPT ![id] = g]
    BY <1>1 DEF Starts, IdsIdentify
  <2>3. \A h \in Gathers \ {g} : job[h].id # None => jobs'[job[h].id] = jobs[job[h].id]
    BY <1>a, <2>1, <2>2 DEF JobRecords
  <2>4. jobs'[id] = g
    BY <1>a, <2>2
  <2> QED
    BY <2>1, <2>2, <2>3, <2>4 DEF ListedJobs
<1>6. DeliveredJobs' = DeliveredJobs
  BY <1>2 DEF DeliveredJobs
<1> QED
  BY <1>2, <1>3, <1>4, <1>5, <1>6
     DEF Lifecycle!Accept, StatusOf, StartOf, ListedJobs, DeliveredJobs

(* A step of a goroutine finishes its job, which is listed, or changes     *)
(* nothing that was promised.                                              *)
LEMMA GoroutineFinishes ==
  ASSUME TypeOK, ManagerInv, NEW g \in Gathers,
         Run(g) \/ Return(g) \/ Unbounded(g), ~Exit(g)
  PROVE  \/ \E outcome \in {"complete", "failed"} : Lifecycle!Finish(g, outcome)
         \/ UNCHANGED Promised
<1>a. IdsIdentify /\ StatusMatchesPc /\ MapsMatch
  BY DEF ManagerInv
<1>1. /\ UNCHANGED <<jobs, dl>>
      /\ Advances(g) \/ \E s \in {"complete", "failed"} : Halts(g, s)
  BY GoroutineSummary
<1>2. now' = now
  BY DEF Run, MakeDir, BeginStep, HandleStepError, FinishSteps, Anonymize, BeginArchive,
     BeginCopy, Complete, Return, EndStep, EndBackup, EndArchive, EndCopy, Unbounded,
     ReturnUnbound, FindMaster, RemoveBackup, OverlongLine, env
<1>3. CASE Advances(g)
  BY <1>1, <1>2, <1>3, SameJobs DEF Advances, Promised
<1>4. ASSUME NEW s \in {"complete", "failed"}, Halts(g, s)
      PROVE  Lifecycle!Finish(g, s)
  <2>1. /\ pc[g] \in Working /\ job'[g].id = job[g].id
        /\ job'[g].startedAt = job[g].startedAt /\ job'[g].status = s
        /\ \A h \in Gathers \ {g} : job'[h] = job[h]
    BY <1>4 DEF Halts
  <2>2. job[g].status = "running" /\ g \in ListedJobs
    BY <1>a, <2>1 DEF StatusMatchesPc, MapsMatch, IdsIdentify, ListedJobs, Live
  <2>3. StatusOf' = [StatusOf EXCEPT ![g] = s] /\ StartOf' = StartOf
    BY <2>1 DEF StatusOf, StartOf
  <2>4. ListedJobs' = ListedJobs /\ DeliveredJobs' = DeliveredJobs
    BY <1>1, <2>1 DEF ListedJobs, DeliveredJobs
  <2> QED
    BY <1>2, <2>2, <2>3, <2>4
       DEF Lifecycle!Finish, StatusOf, StartOf, ListedJobs, DeliveredJobs
<1> QED
  BY <1>1, <1>3, <1>4

(* The sweep forgets jobs that have ended and are old enough, no others.   *)
LEMMA SweepForgets ==
  ASSUME TypeOK, ManagerInv, CleanupOldJobs
  PROVE  \E gone \in SUBSET Gathers : Lifecycle!Forget(gone)
<1> DEFINE gone == {jobs[id] : id \in ExpiredIds}
<1>a. MapsMatch /\ IdsIdentify /\ job \in [Gathers -> JobRecords]
      /\ jobs \in [JobIds -> Gathers \cup {None}]
  BY DEF ManagerInv, TypeOK
<1>1. /\ ExpiredIds # {} /\ UNCHANGED <<job, dl, now>>
      /\ jobs' = [id \in JobIds |-> IF id \in ExpiredIds THEN None ELSE jobs[id]]
  BY DEF CleanupOldJobs, env
<1>2. ASSUME NEW id \in ExpiredIds
      PROVE  /\ id \in JobIds /\ jobs[id] \in Gathers /\ job[jobs[id]].id = id
             /\ job[jobs[id]].status # "running"
             /\ job[jobs[id]].startedAt + JobRetention < now
  BY <1>a, <1>2 DEF ExpiredIds, Expired, Listed, MapsMatch
<1>3. \A id \in JobIds : id # None
  OBVIOUS
<1>4. gone # {} /\ gone \subseteq ListedJobs
  BY <1>1, <1>2, <1>3 DEF ListedJobs
<1>5. \A g \in gone : /\ g \in Gathers
                      /\ StatusOf[g] # "running" /\ StartOf[g] + JobRetention < now
  BY <1>2 DEF StatusOf, StartOf
<1>6. ListedJobs' = ListedJobs \ gone
  <2>1. ASSUME NEW g \in Gathers, job[g].id # None
        PROVE  jobs'[job[g].id] = g <=> jobs[job[g].id] = g /\ g \notin gone
    <3>1. job[g].id \in JobIds
      BY <1>a, <2>1 DEF JobRecords
    <3>2. CASE job[g].id \in ExpiredIds
      BY <1>1, <3>1, <3>2
    <3>3. CASE job[g].id \notin ExpiredIds
      BY <1>1, <1>2, <3>1, <3>3
    <3> QED
      BY <3>2, <3>3
  <2> HIDE DEF gone
  <2> QED
    BY <1>1, <2>1 DEF ListedJobs
<1>7. UNCHANGED <<now, StatusOf, StartOf, DeliveredJobs>>
  BY <1>1 DEF StatusOf, StartOf, DeliveredJobs
<1> HIDE DEF gone
<1>8. gone \in SUBSET Gathers
  BY <1>5
<1> QED
  BY <1>4, <1>5, <1>6, <1>7, <1>8
     DEF Lifecycle!Forget, StatusOf, StartOf, ListedJobs, DeliveredJobs

(* A restart forgets every job, and takes no delivery back.                *)
LEMMA RestartForgetsAll ==
  ASSUME TypeOK, ManagerInv, NothingBeforeServed, Restart
  PROVE  Lifecycle!Restart
<1>a. job \in [Gathers -> JobRecords]
  BY DEF TypeOK
<1>1. /\ UNCHANGED <<now, job>> /\ jobs' = [id \in JobIds |-> None]
      /\ dl' = [d \in Downloads |-> IF dl[d].pc = "path" THEN NoDownload ELSE dl[d]]
  BY DEF Restart
<1>2. ListedJobs' = {}
  BY <1>a, <1>1 DEF ListedJobs, JobRecords
<1>3. ASSUME NEW d \in Downloads, NEW g \in Gathers
      PROVE  dl'[d].gather = g /\ dl'[d].file.state = "whole" <=>
             dl[d].gather = g /\ dl[d].file.state = "whole"
  BY <1>1 DEF NothingBeforeServed, NoDownload, NoFile
<1>4. DeliveredJobs' = DeliveredJobs
  BY <1>3 DEF DeliveredJobs
<1>5. UNCHANGED <<StatusOf, StartOf>>
  BY <1>1 DEF StatusOf, StartOf
<1> QED
  BY <1>1, <1>2, <1>4, <1>5
     DEF Lifecycle!Restart, StatusOf, StartOf, ListedJobs, DeliveredJobs

(* GetFilePath delivers nothing yet.                                       *)
LEMMA GrantDeliversNothing ==
  ASSUME TypeOK, NothingBeforeServed, NEW d \in Downloads, NEW id \in JobIds, GetFilePath(d, id)
  PROVE  UNCHANGED Promised
<1>a. dl \in [Downloads -> Handlers]
  BY DEF TypeOK
<1>1. /\ dl[d].pc = "idle" /\ UNCHANGED <<now, job, jobs>>
      /\ dl' = [dl EXCEPT ![d] = [dl[d] EXCEPT !.pc = "path", !.gather = jobs[id]]]
  BY DEF GetFilePath, registry
<1>2. /\ dl[d].file = NoFile /\ dl'[d].file = NoFile
      /\ \A e \in Downloads \ {d} : dl'[e] = dl[e]
  BY <1>a, <1>1 DEF NothingBeforeServed, Handlers
<1>3. DeliveredJobs' = DeliveredJobs
  BY <1>2 DEF DeliveredJobs, NoFile
<1> QED
  BY <1>1, <1>3 DEF Promised, StatusOf, StartOf, ListedJobs

(* ServeFile delivers the archive of a complete job, or nothing.           *)
LEMMA ServeDelivers ==
  ASSUME TypeOK, ManagerInv, NothingBeforeServed, NEW d \in Downloads, ServeFile(d)
  PROVE  (\E g \in Gathers : Lifecycle!Deliver(g)) \/ UNCHANGED Promised
<1>a. dl \in [Downloads -> Handlers]
  BY DEF TypeOK
<1>b. dl[d].pc = "path"
  BY DEF ServeFile
<1>2. PICK g \in Gathers : g = dl[d].gather /\ job[g].status = "complete"
  BY <1>b DEF ManagerInv, DownloadMatches
<1> DEFINE file == disk[Path(g)]
<1>1. /\ UNCHANGED <<now, job, jobs>>
      /\ dl' = [dl EXCEPT ![d] = [dl[d] EXCEPT !.pc = "served", !.file = file]]
  BY <1>2 DEF ServeFile, registry
<1> HIDE DEF file
<1>3. /\ dl[d].file = NoFile /\ dl'[d].file = file /\ dl'[d].gather = g
      /\ \A e \in Downloads \ {d} : dl'[e] = dl[e]
  BY <1>a, <1>b, <1>1, <1>2 DEF NothingBeforeServed, Handlers
<1>4. DeliveredJobs' = IF file.state = "whole" THEN DeliveredJobs \cup {g} ELSE DeliveredJobs
  BY <1>2, <1>3 DEF DeliveredJobs, NoFile
<1>5. UNCHANGED <<now, StatusOf, StartOf, ListedJobs>>
  BY <1>1 DEF StatusOf, StartOf, ListedJobs
<1>6. CASE file.state = "whole"
  <2>1. Lifecycle!Deliver(g)
    BY <1>2, <1>4, <1>5, <1>6
       DEF Lifecycle!Deliver, StatusOf, StartOf, ListedJobs, DeliveredJobs
  <2> QED
    BY <1>2, <2>1
<1>7. CASE file.state # "whole"
  BY <1>4, <1>5, <1>7 DEF Promised
<1> QED
  BY <1>6, <1>7

LEMMA ManagerStepRefines ==
  ASSUME TypeOK, ~SameMillisecond, ManagerInv, NothingBeforeServed, [Next]_vars
  PROVE  Lifecycle!Next \/ UNCHANGED Promised
<1>1. ASSUME NEW g \in Gathers, StartGather(g)
      PROVE  Lifecycle!Next
  BY <1>1, StartAccepts DEF Lifecycle!Next
<1>2. ASSUME NEW g \in Gathers, Run(g) \/ Return(g) \/ Unbounded(g), ~Exit(g)
      PROVE  Lifecycle!Next \/ UNCHANGED Promised
  BY <1>2, GoroutineFinishes DEF Lifecycle!Next
<1>3. CASE CleanupOldJobs
  BY <1>3, SweepForgets DEF Lifecycle!Next
<1>4. CASE Restart
  BY <1>4, RestartForgetsAll DEF Lifecycle!Next
<1>5. ASSUME NEW d \in Downloads, ServeFile(d) \/ \E id \in JobIds : GetFilePath(d, id)
      PROVE  Lifecycle!Next \/ UNCHANGED Promised
  BY <1>5, ServeDelivers, GrantDeliversNothing DEF Lifecycle!Next
<1>6. CASE Tick
  <2>1. now' = now + 1 /\ UNCHANGED <<job, jobs, dl>>
    BY <1>6 DEF Tick, registry
  <2>2. Lifecycle!Tick
    BY <2>1, SameJobs DEF Lifecycle!Tick, StatusOf, StartOf, ListedJobs, DeliveredJobs
  <2> QED
    BY <2>2 DEF Lifecycle!Next
<1>7. CASE UNCHANGED <<now, job, jobs, dl>>
  BY <1>7, SameJobs DEF Promised
<1> QED
  <2>1. CASE \E g \in Gathers : RequestGather(g) \/ Exit(g) \/ DeadlineExpires(g)
    BY <1>7, <2>1 DEF RequestGather, Exit, DeadlineExpires, registry, env
  <2>2. CASE \E id \in JobIds : StopJob(id)
    BY <1>7, <2>2 DEF StopJob, registry, env
  <2>3. CASE Quiescent \/ UNCHANGED vars
    BY <1>7, <2>3 DEF Quiescent, vars
  <2> QED
    BY <1>1, <1>2, <1>3, <1>4, <1>5, <1>6, <2>1, <2>2, <2>3 DEF Next

(* As long as no two jobs get the same ID, the manager with its            *)
(* goroutines, contexts, commands and files keeps what JobLifecycle        *)
(* promises: an accepted job is listed until it has ended and is old, ends *)
(* once, and only the archive of a completed one is handed out.            *)
THEOREM ManagerImplementsLifecycle ==
  ASSUME ~SameMillisecond
  PROVE  Spec => ImplementsLifecycle
<1>1. Init => Lifecycle!Init /\ NothingBeforeServed
  <2> SUFFICES ASSUME Init PROVE Lifecycle!Init /\ NothingBeforeServed
    OBVIOUS
  <2>1. \A g \in Gathers : job[g] = NoJob
    BY DEF Init
  <2>2. \A d \in Downloads : dl[d] = NoDownload /\ dl[d].file.state # "whole"
    BY DEF Init, NoDownload, NoFile
  <2>3. /\ StatusOf = [g \in Gathers |-> "none"] /\ StartOf = [g \in Gathers |-> 0]
        /\ ListedJobs = {}
    BY <2>1 DEF NoJob, StatusOf, StartOf, ListedJobs
  <2>4. DeliveredJobs = {}
    BY <2>2 DEF DeliveredJobs
  <2>5. NothingBeforeServed
    BY <2>2 DEF NothingBeforeServed, NoDownload
  <2>6. now = 0
    BY DEF Init
  <2> QED
    BY <2>3, <2>4, <2>5, <2>6
       DEF Lifecycle!Init, StatusOf, StartOf, ListedJobs, DeliveredJobs
<1>2. TypeInv /\ ManagerInv /\ NothingBeforeServed /\ [Next]_vars =>
        [Lifecycle!Next]_(Lifecycle!lifecycle)
  BY ManagerStepRefines
     DEF TypeInv, Lifecycle!lifecycle, Promised, StatusOf, StartOf, ListedJobs, DeliveredJobs
<1>3. TypeInv /\ NothingBeforeServed /\ [Next]_vars => NothingBeforeServed'
  BY NothingBeforeServedStep DEF TypeInv
<1> QED
  BY <1>1, <1>2, <1>3, TypeInvariant, ManagerIsConsistent, PTL
     DEF Spec, ImplementsLifecycle, Lifecycle!Spec

=============================================================================
