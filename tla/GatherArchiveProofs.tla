------------------------ MODULE GatherArchiveProofs ------------------------
(***************************************************************************)
(* ManagerInv is an inductive invariant of GatherManager as long as no two *)
(* requests of one type are handled in the same millisecond; with it, what *)
(* clients see of a job (it can be stopped, its archive is there, what is  *)
(* served is whole) holds for every number of gathers and downloads.       *)
(*                                                                         *)
(* Every step is first summarised by what it does to the Job structs, the  *)
(* program counters and the two maps (Summary), and by where the contents  *)
(* of directories and archives come from (FileSources).                    *)
(***************************************************************************)
EXTENDS GatherManagerProofs

USE ManagerAssumption

(* A gather's handler or goroutine moves on without touching any Job.      *)
Advances(g) ==
  /\ \/ pc[g] \in InHandler /\ pc'[g] \in InHandler
     \/ pc[g] \in Working /\ pc'[g] \in Working
  /\ \A h \in Gathers \ {g} : pc'[h] = pc[h]
  /\ job' = job

(* A goroutine leaves its work with the given status.                      *)
Halts(g, status) ==
  /\ pc[g] \in Working /\ pc'[g] = "exit"
  /\ \A h \in Gathers \ {g} : pc'[h] = pc[h] /\ job'[h] = job[h]
  /\ job'[g].id = job[g].id
  /\ job'[g].anonymize = job[g].anonymize
  /\ job'[g].startedAt = job[g].startedAt
  /\ job'[g].status = status
  /\ status = "complete" => pc[g] = "finish"

(* A job is stored under an ID that no other job has.                      *)
Starts(g, id) ==
  /\ pc[g] = "admitted" /\ pc'[g] = "mkdir"
  /\ \A h \in Gathers \ {g} : pc'[h] = pc[h] /\ job'[h] = job[h]
  /\ \A h \in Gathers : job[h].id # id
  /\ job'[g].id = id
  /\ job'[g].status = "running" /\ job'[g].startedAt = now
  /\ jobs' = [jobs EXCEPT ![id] = g]
  /\ cancels' = [cancels EXCEPT ![id] = g]
  /\ UNCHANGED <<files, dl>>

Ends(g) ==
  /\ pc[g] = "exit" /\ pc'[g] = "done"
  /\ \A h \in Gathers \ {g} : pc'[h] = pc[h]
  /\ cancels' = [cancels EXCEPT ![job[g].id] = None]
  /\ UNCHANGED <<job, jobs, files, dl>>

LEMMA FailHalts ==
  ASSUME TypeOK, NEW g \in Gathers, pc[g] \in Working,
         NEW error \in Errors, Fail(g, error)
  PROVE  Halts(g, "failed")
<1>1. job' = [job EXCEPT ![g] = [job[g] EXCEPT !.status = "failed", !.error = error]]
  BY DEF Fail
<1>2. job \in [Gathers -> JobRecords] /\ pc \in [Gathers -> PCs]
  BY DEF TypeOK
<1>3. /\ job'[g].id = job[g].id
      /\ job'[g].anonymize = job[g].anonymize
      /\ job'[g].startedAt = job[g].startedAt
      /\ job'[g].status = "failed"
  BY <1>1, <1>2 DEF JobRecords
<1> QED
  BY <1>1, <1>2, <1>3 DEF Halts, Fail

LEMMA CompleteHalts ==
  ASSUME TypeOK, NEW g \in Gathers, Complete(g)
  PROVE  Halts(g, "complete")
<1>1. job' = [job EXCEPT ![g] = [job[g] EXCEPT !.status = "complete"]]
  BY DEF Complete
<1>2. job \in [Gathers -> JobRecords] /\ pc \in [Gathers -> PCs]
  BY DEF TypeOK
<1>3. /\ job'[g].id = job[g].id
      /\ job'[g].anonymize = job[g].anonymize
      /\ job'[g].startedAt = job[g].startedAt
      /\ job'[g].status = "complete"
  BY <1>1, <1>2 DEF JobRecords
<1> QED
  BY <1>1, <1>2, <1>3 DEF Halts, Complete, Goto, Working

LEMMA StartStarts ==
  ASSUME TypeOK, ~SameMillisecond, NEW g \in Gathers, StartGather(g)
  PROVE  \E id \in JobIds : Starts(g, id)
<1>1. PICK r \in Requests :
        /\ SameMillisecond \/ \A h \in Gathers : job[h].id # <<r[1], now>>
        /\ job' = [job EXCEPT ![g] = [id |-> <<r[1], now>>, status |-> "running",
                                      startedAt |-> now, anonymize |-> r[2],
                                      error |-> "none"]]
        /\ jobs' = [jobs EXCEPT ![<<r[1], now>>] = g]
        /\ cancels' = [cancels EXCEPT ![<<r[1], now>>] = g]
  BY DEF StartGather
<1>2. <<r[1], now>> \in JobIds
  BY DEF JobIds, Types, TypeOK
<1>3. Starts(g, <<r[1], now>>)
  BY <1>1 DEF Starts, StartGather, Goto, TypeOK, env
<1> QED
  BY <1>2, <1>3

(* A step inside a goroutine.                                              *)
LEMMA GoroutineSummary ==
  ASSUME TypeOK, NEW g \in Gathers, Run(g) \/ Return(g) \/ Unbounded(g), ~Exit(g)
  PROVE  /\ UNCHANGED <<jobs, cancels, dl>>
         /\ Advances(g) \/ \E s \in {"complete", "failed"} : Halts(g, s)
<1> USE DEF files, registry, env
<1>1. UNCHANGED <<jobs, cancels, dl>>
  BY DEF Run, MakeDir, BeginStep, HandleStepError, FinishSteps, Anonymize, BeginArchive,
         BeginCopy, Complete, Return, EndStep, EndBackup, EndArchive, EndCopy,
         Unbounded, ReturnUnbound, FindMaster,
           RemoveBackup, OverlongLine
<1>2. pc[g] \in Working
  BY DEF Run, MakeDir, BeginStep, HandleStepError, FinishSteps, Anonymize, BeginArchive,
         BeginCopy, Complete, Return, EndStep, EndBackup, EndArchive, EndCopy,
         Unbounded, ReturnUnbound, FindMaster,
           RemoveBackup, OverlongLine, Goto, Working
<1>3. \/ \E to \in Working : pc' = [pc EXCEPT ![g] = to] /\ UNCHANGED job
      \/ \E e \in Errors : Fail(g, e)
      \/ Complete(g)
  <2>1. CASE Run(g)
    BY <2>1 DEF Run, MakeDir, BeginStep, HandleStepError, FinishSteps, Anonymize,
                BeginArchive, BeginCopy, Goto, Working, Errors
  <2>2. CASE Return(g)
    BY <2>2 DEF Return, EndStep, EndBackup, EndArchive, EndCopy, Working, Errors
  <2>3. CASE Unbounded(g)
    BY <2>3 DEF Unbounded, ReturnUnbound, FindMaster,
           RemoveBackup, OverlongLine, Goto, Working, Errors
  <2> QED
    BY <2>1, <2>2, <2>3
<1>4. CASE \E to \in Working : pc' = [pc EXCEPT ![g] = to] /\ UNCHANGED job
  BY <1>1, <1>2, <1>4 DEF Advances, TypeOK
<1> QED
  BY <1>1, <1>2, <1>3, <1>4, FailHalts, CompleteHalts

(* Every step, by what it does to the structs, the counters and the maps.  *)
LEMMA Summary ==
  ASSUME TypeOK, ~SameMillisecond, [Next]_vars
  PROVE  \/ \E g \in Gathers, id \in JobIds : Starts(g, id)
         \/ \E g \in Gathers : Ends(g)
         \/ /\ UNCHANGED <<jobs, cancels, dl>>
            /\ \E g \in Gathers : \/ Advances(g)
                                 \/ \E s \in {"complete", "failed"} : Halts(g, s)
         \/ CleanupOldJobs
         \/ Restart
         \/ UNCHANGED <<job, pc, jobs, cancels>>
<1> USE DEF files, registry, env
<1>1. ASSUME NEW g \in Gathers, RequestGather(g)
      PROVE  Advances(g) /\ UNCHANGED <<jobs, cancels, dl>>
  BY <1>1 DEF RequestGather, Advances, InHandler, TypeOK
<1>2. ASSUME NEW g \in Gathers, Exit(g) PROVE Ends(g)
  BY <1>2 DEF Exit, Ends, Goto, TypeOK
<1>3. ASSUME NEW g \in Gathers, DeadlineExpires(g)
      PROVE  UNCHANGED <<job, pc, jobs, cancels>>
  BY <1>3 DEF DeadlineExpires
<1>4. ASSUME NEW id \in JobIds, StopJob(id) PROVE UNCHANGED <<job, pc, jobs, cancels>>
  BY <1>4 DEF StopJob
<1>5. ASSUME NEW d \in Downloads, ServeFile(d) \/ \E id \in JobIds : GetFilePath(d, id)
      PROVE  UNCHANGED <<job, pc, jobs, cancels>>
  BY <1>5 DEF ServeFile, GetFilePath
<1>6. CASE Tick \/ Quiescent \/ UNCHANGED vars
  BY <1>6 DEF Tick, Quiescent, vars
<1> QED
  BY <1>1, <1>2, <1>3, <1>4, <1>5, <1>6, StartStarts, GoroutineSummary DEF Next

LEMMA IdsIdentifyStep ==
  ASSUME TypeOK, ~SameMillisecond, IdsIdentify, StatusMatchesPc, [Next]_vars
  PROVE  IdsIdentify'
<1> USE DEF IdsIdentify
<1>1. ASSUME NEW g \in Gathers, NEW id \in JobIds, Starts(g, id) PROVE IdsIdentify'
  BY <1>1 DEF Starts, InHandler, Live, Working
<1>2. ASSUME NEW g \in Gathers, Ends(g) PROVE IdsIdentify'
  BY <1>2 DEF Ends, InHandler, Live, Working
<1>3. ASSUME NEW g \in Gathers, Advances(g) PROVE IdsIdentify'
  BY <1>3 DEF Advances, InHandler, Live, Working
<1>4. ASSUME NEW g \in Gathers, NEW s \in {"complete", "failed"}, Halts(g, s)
      PROVE  IdsIdentify'
  <2>1. pc[g] \notin InHandler /\ pc'[g] \notin InHandler
    BY <1>4 DEF Halts, InHandler, Working
  <2>2. pc[g] \in Live /\ job[g].id # None
    BY <1>4 DEF Halts, Live
  <2> QED
    BY <1>4, <2>1, <2>2 DEF Halts, Live
<1>5. CASE Restart
  BY <1>5 DEF Restart, InHandler, Live, Working, TypeOK
<1>6. CASE UNCHANGED <<job, pc>>
  BY <1>6
<1> QED
  BY <1>1, <1>2, <1>3, <1>4, <1>5, <1>6, Summary DEF CleanupOldJobs

LEMMA StatusMatchesPcStep ==
  ASSUME TypeOK, ~SameMillisecond, StatusMatchesPc, [Next]_vars
  PROVE  StatusMatchesPc'
<1> USE DEF StatusMatchesPc
<1>1. ASSUME NEW g \in Gathers, NEW id \in JobIds, Starts(g, id) PROVE StatusMatchesPc'
  BY <1>1 DEF Starts, Working
<1>2. ASSUME NEW g \in Gathers, Ends(g) PROVE StatusMatchesPc'
  BY <1>2 DEF Ends, Working
<1>3. ASSUME NEW g \in Gathers, Advances(g) PROVE StatusMatchesPc'
  BY <1>3 DEF Advances, InHandler, Working
<1>4. ASSUME NEW g \in Gathers, NEW s \in {"complete", "failed"}, Halts(g, s)
      PROVE  StatusMatchesPc'
  BY <1>4 DEF Halts, Working
<1>5. CASE Restart
  BY <1>5 DEF Restart, Live, Working, TypeOK
<1>6. CASE UNCHANGED <<job, pc>>
  BY <1>6
<1> QED
  BY <1>1, <1>2, <1>3, <1>4, <1>5, <1>6, Summary DEF CleanupOldJobs

LEMMA MapsMatchStep ==
  ASSUME TypeOK, ~SameMillisecond, IdsIdentify, StatusMatchesPc, MapsMatch, [Next]_vars
  PROVE  MapsMatch'
<1>a. /\ jobs \in [JobIds -> Gathers \cup {None}]
      /\ cancels \in [JobIds -> Gathers \cup {None}]
  BY DEF TypeOK
<1>b. \A g \in Gathers : pc[g] \in Live => job[g].id \in JobIds
  BY DEF IdsIdentify
<1> USE <1>a, <1>b DEF MapsMatch
<1>1. ASSUME NEW g \in Gathers, NEW id \in JobIds, Starts(g, id) PROVE MapsMatch'
  BY <1>1 DEF Starts, Live, Working
<1>2. ASSUME NEW g \in Gathers, Ends(g) PROVE MapsMatch'
  BY <1>2 DEF Ends, Live, Working, IdsIdentify
<1>3. ASSUME NEW g \in Gathers, Advances(g), UNCHANGED <<jobs, cancels>> PROVE MapsMatch'
  BY <1>3 DEF Advances, InHandler, Live, Working
<1>4. ASSUME NEW g \in Gathers, NEW s \in {"complete", "failed"}, Halts(g, s),
             UNCHANGED <<jobs, cancels>>
      PROVE  MapsMatch'
  BY <1>4 DEF Halts, Live, Working
<1>5. CASE Restart
  BY <1>5 DEF Restart, Live, Working, TypeOK
<1>6. CASE CleanupOldJobs
  <2>1. \A g \in Gathers : pc[g] \in Working => job[g].id \notin ExpiredIds
    BY DEF StatusMatchesPc, ExpiredIds, Expired, Listed
  <2> QED
    BY <1>6, <2>1 DEF CleanupOldJobs, Live
<1>7. CASE UNCHANGED <<job, pc, jobs, cancels>>
  BY <1>7
<1> QED
  BY <1>1, <1>2, <1>3, <1>4, <1>5, <1>6, <1>7, Summary

(* A Job that has an ID keeps it, with the choice of its archive's name.   *)
LEMMA JobStays ==
  ASSUME TypeOK, ~SameMillisecond, IdsIdentify, [Next]_vars
  PROVE  \A g \in Gathers : job[g].id # None =>
           /\ job'[g].id = job[g].id
           /\ job'[g].anonymize = job[g].anonymize
<1>1. ASSUME NEW g \in Gathers, NEW id \in JobIds, Starts(g, id)
      PROVE  job[g].id = None /\ \A h \in Gathers \ {g} : job'[h] = job[h]
  BY <1>1 DEF Starts, IdsIdentify, InHandler
<1> QED
  BY <1>1, Summary DEF Ends, Advances, Halts, CleanupOldJobs, Restart

(* What a directory may receive: its own content, what it trades with the  *)
(* wrapper, and the output of the gather it is named after.                *)
Owned(id) == data[id] \cup wrap[id] \cup {g \in Gathers : job[g].id = id}

LEMMA MovedSource ==
  ASSUME NEW from \in [JobIds -> SUBSET Gathers],
         NEW to \in [JobIds -> SUBSET Gathers], NEW id \in JobIds, NEW x \in JobIds
  PROVE  /\ Moved(from, to, id)[x] \subseteq from[x] \cup to[x]
         /\ Left(from, to, id)[x] \subseteq from[x]
BY DEF Moved, Left

LEMMA WriteSource ==
  ASSUME disk \in [Paths -> Archives], NEW p \in Paths, NEW a,
         a.from \subseteq disk[p].from \cup Owned(p[1]),
         disk' = [disk EXCEPT ![p] = a]
  PROVE  \A q \in Paths : disk'[q].from \subseteq disk[q].from \cup Owned(q[1])
OBVIOUS

Wrote(g, c) == \E s, m : disk' = [disk EXCEPT ![Path(g)] =
                                    [state |-> s, from |-> c, masked |-> m]]

LEMMA FileSources ==
  ASSUME TypeOK, IdsIdentify, [Next]_vars
  PROVE  /\ \A id \in JobIds : data'[id] \cup wrap'[id] \subseteq Owned(id)
         /\ \A p \in Paths : disk'[p].from \subseteq disk[p].from \cup Owned(p[1])
<1> USE DEF files, registry, env
<1>a. /\ data \in [JobIds -> SUBSET Gathers]
      /\ wrap \in [JobIds -> SUBSET Gathers]
      /\ disk \in [Paths -> Archives]
  BY DEF TypeOK
<1>b. \A p \in Paths : p[1] \in JobIds
  BY DEF Paths
<1> DEFINE DirsOK == \A id \in JobIds : data'[id] \cup wrap'[id] \subseteq Owned(id)
           DiskOK == \A p \in Paths :
                       disk'[p].from \subseteq disk[p].from \cup Owned(p[1])
<1>1. CASE UNCHANGED files
  BY <1>1 DEF Owned
<1>2. ASSUME NEW g \in Gathers, EndStep(g) \/ MakeDir(g) PROVE DirsOK /\ DiskOK
  BY <1>a, <1>2 DEF EndStep, MakeDir, Owned
<1>3. ASSUME NEW g \in Gathers, BeginArchive(g) PROVE DirsOK /\ DiskOK
  <2> DEFINE id == job[g].id
             w == Moved(data, wrap, id)
             d == Left(data, wrap, id)
  <2>1. id \in JobIds /\ Path(g) \in Paths /\ Path(g)[1] = id
    BY <1>3, PathType DEF BeginArchive, IdsIdentify, Live, Working, Path
  <2>2. w \in [JobIds -> SUBSET Gathers] /\ d \in [JobIds -> SUBSET Gathers]
    BY <1>a, <2>1, MovedType
  <2>3. \A x \in JobIds : /\ w[x] \subseteq data[x] \cup wrap[x]
                          /\ d[x] \subseteq data[x]
    BY <1>a, <2>1, MovedSource
  <2> HIDE DEF w, d
  <2>4. \A x \in JobIds : /\ Moved(w, d, id)[x] \subseteq w[x] \cup d[x]
                          /\ Left(w, d, id)[x] \subseteq w[x]
    BY <2>1, <2>2, MovedSource
  <2>5. DirsOK
    <3>1. \/ UNCHANGED <<data, wrap>>
          \/ data' = d /\ wrap' = w
          \/ data' = Moved(w, d, id) /\ wrap' = Left(w, d, id)
      BY <1>3 DEF BeginArchive, w, d
    <3> QED
      BY <2>3, <2>4, <3>1 DEF Owned
  <2>6. DiskOK
    <3>1. \/ UNCHANGED disk
          \/ Wrote(g, w[id])
          \/ Wrote(g, data[id])
      BY <1>3 DEF BeginArchive, w, Wrote
    <3>2. w[id] \subseteq Owned(id) /\ data[id] \subseteq Owned(id)
      BY <2>1, <2>3 DEF Owned
    <3>3. ASSUME NEW c, c = w[id] \/ c = data[id], Wrote(g, c)
          PROVE  DiskOK
      <4>3. PICK s, m : disk' = [disk EXCEPT ![Path(g)] =
                                   [state |-> s, from |-> c, masked |-> m]]
        BY <3>3 DEF Wrote
      <4> DEFINE a == [state |-> s, from |-> c, masked |-> m]
      <4>1. a.from \subseteq Owned(Path(g)[1])
        BY <2>1, <3>2, <3>3
      <4>2. disk' = [disk EXCEPT ![Path(g)] = a]
        BY <4>3
      <4> HIDE DEF a
      <4> QED
        BY <1>a, <2>1, <4>1, <4>2, WriteSource
    <3>4. CASE UNCHANGED disk
      BY <3>4
    <3> HIDE DEF DiskOK
    <3> QED
      BY <3>1, <3>3, <3>4
  <2> QED
    BY <2>5, <2>6
<1>4. ASSUME NEW g \in Gathers, EndArchive(g) PROVE DirsOK /\ DiskOK
  <2> DEFINE id == job[g].id
             d == Moved(wrap, data, id)
             w == Left(wrap, data, id)
  <2>1. id \in JobIds /\ Path(g) \in Paths
    BY <1>4, PathType DEF EndArchive, IdsIdentify, Live, Working
  <2>2. \A x \in JobIds : d[x] \subseteq data[x] \cup wrap[x] /\ w[x] \subseteq wrap[x]
    BY <1>a, <2>1, MovedSource
  <2> HIDE DEF w, d
  <2>3. DirsOK
    <3>1. \/ UNCHANGED <<data, wrap>>
          \/ UNCHANGED data /\ wrap' = [wrap EXCEPT ![id] = {}]
          \/ data' = d /\ wrap' = w
      BY <1>4 DEF EndArchive, w, d
    <3> QED
      BY <1>a, <2>1, <2>2, <3>1 DEF Owned
  <2>4. DiskOK
    <3>1. PICK s : disk' = [disk EXCEPT ![Path(g)] = [disk[Path(g)] EXCEPT !.state = s]]
      BY <1>4 DEF EndArchive
    <3>2. disk[Path(g)] \in Archives
      BY <1>a, <2>1
    <3>3. [disk[Path(g)] EXCEPT !.state = s].from = disk[Path(g)].from
      BY <3>2 DEF Archives
    <3> QED
      BY <1>a, <2>1, <3>1, <3>3
  <2> QED
    BY <2>3, <2>4
<1>5. ASSUME NEW g \in Gathers, EndBackup(g) \/ BeginCopy(g) \/ EndCopy(g)
      PROVE  DirsOK /\ DiskOK
  <2>1. job[g].id \in JobIds /\ Path(g) \in Paths /\ Path(g)[1] = job[g].id
    BY <1>5, PathType DEF EndBackup, BeginCopy, EndCopy, IdsIdentify, Live, Working, Path
  <2>2. DirsOK
    BY <1>5 DEF EndBackup, BeginCopy, EndCopy, Owned
  <2>3. \/ UNCHANGED disk
        \/ disk' = [disk EXCEPT ![Path(g)] = NoFile]
        \/ disk' = [disk EXCEPT ![Path(g)] = disk[Path(g)]]
        \/ \E s, m : disk' = [disk EXCEPT ![Path(g)] =
                                [state |-> s, from |-> {g}, masked |-> m]]
        \/ \E s : disk' = [disk EXCEPT ![Path(g)] = [disk[Path(g)] EXCEPT !.state = s]]
    BY <1>5 DEF EndBackup, BeginCopy, EndCopy
  <2>4. \A s : [disk[Path(g)] EXCEPT !.state = s].from = disk[Path(g)].from
    BY <1>a, <2>1 DEF Archives
  <2>5. g \in Owned(Path(g)[1])
    BY <2>1 DEF Owned
  <2>6. ASSUME NEW a, disk' = [disk EXCEPT ![Path(g)] = a],
               a.from \subseteq disk[Path(g)].from \cup {g}
        PROVE  DiskOK
    BY <1>a, <2>1, <2>5, <2>6, WriteSource
  <2>7. NoFile.from = {}
    BY DEF NoFile
  <2>8. DiskOK
    <3>1. CASE UNCHANGED disk
      BY <3>1
    <3>2. CASE disk' = [disk EXCEPT ![Path(g)] = NoFile]
      BY <2>6, <2>7, <3>2
    <3>3. CASE disk' = [disk EXCEPT ![Path(g)] = disk[Path(g)]]
      BY <2>6, <3>3
    <3>4. ASSUME NEW s, NEW m,
                 disk' = [disk EXCEPT ![Path(g)] = [state |-> s, from |-> {g}, masked |-> m]]
          PROVE  DiskOK
      BY <2>6, <3>4
    <3>5. ASSUME NEW s,
                 disk' = [disk EXCEPT ![Path(g)] = [disk[Path(g)] EXCEPT !.state = s]]
          PROVE  DiskOK
      BY <2>4, <2>6, <3>5
    <3> QED
      BY <2>3, <3>1, <3>2, <3>3, <3>4, <3>5
  <2> QED
    BY <2>2, <2>8
<1>6. CASE CleanupOldJobs
  BY <1>a, <1>6 DEF CleanupOldJobs, Owned, NoFile
<1>7. CASE Restart
  <2>1. CASE UNCHANGED files
    BY <1>1, <2>1
  <2>2. CASE /\ data' = [id \in JobIds |-> {}]
             /\ wrap' = [id \in JobIds |-> {}]
             /\ disk' = [p \in Paths |-> NoFile]
    BY <2>2 DEF NoFile
  <2> QED
    BY <1>7, <2>1, <2>2 DEF Restart
<1> QED
  <2>1. \/ UNCHANGED files
        \/ \E g \in Gathers : \/ EndStep(g) \/ MakeDir(g) \/ BeginArchive(g) \/ EndArchive(g)
                             \/ EndBackup(g) \/ BeginCopy(g) \/ EndCopy(g)
        \/ CleanupOldJobs
        \/ Restart
    <3>1. ASSUME NEW g \in Gathers, Run(g) \/ Return(g) \/ Unbounded(g)
          PROVE  \/ UNCHANGED files
                 \/ EndStep(g) \/ MakeDir(g) \/ BeginArchive(g) \/ EndArchive(g)
                 \/ EndBackup(g) \/ BeginCopy(g) \/ EndCopy(g)
      BY <3>1 DEF Run, Return, BeginStep, HandleStepError, FinishSteps, Anonymize,
         Complete, Exit, Unbounded, ReturnUnbound, FindMaster, RemoveBackup, OverlongLine
    <3>2. ASSUME \/ \E g \in Gathers : RequestGather(g) \/ StartGather(g) \/ DeadlineExpires(g)
                 \/ \E id \in JobIds : StopJob(id)
                 \/ \E d \in Downloads : ServeFile(d) \/ \E id \in JobIds : GetFilePath(d, id)
                 \/ Tick \/ Quiescent \/ UNCHANGED vars
          PROVE  UNCHANGED files
      BY <3>2 DEF vars, RequestGather, StartGather, DeadlineExpires, StopJob, ServeFile,
         GetFilePath, Tick, Quiescent
    <3> QED
      BY <3>1, <3>2 DEF Next
  <2> QED
    BY <1>1, <1>2, <1>3, <1>4, <1>5, <1>6, <1>7, <2>1

LEMMA ContentMatchesStep ==
  ASSUME TypeOK, ~SameMillisecond, IdsIdentify, ContentMatches, [Next]_vars
  PROVE  ContentMatches'
<1>1. \A id \in JobIds : \A g \in Owned(id) : g \in Gathers /\ job[g].id = id
  BY DEF Owned, ContentMatches, TypeOK
<1>2. \A id \in JobIds : \A g \in Owned(id) : job'[g].id = id
  BY <1>1, JobStays
<1>3. \A p \in Paths : p[1] \in JobIds /\ disk[p].from \subseteq Gathers
  BY DEF Paths, TypeOK, Archives
<1>4. \A p \in Paths : \A g \in disk[p].from : job'[g].id = p[1]
  BY <1>3, JobStays DEF ContentMatches
<1> QED
  BY <1>2, <1>3, <1>4, FileSources DEF ContentMatches

(* Two gathers with an ID write the same archive only if they are one.     *)
LEMMA PathIdentifies ==
  ASSUME IdsIdentify, NEW g \in Gathers, NEW h \in Gathers,
         job[g].id # None, Path(g) = Path(h)
  PROVE  g = h
BY DEF Path, IdsIdentify

(* The archive of a gather after a step, when the step is not its own.     *)
LEMMA OthersArchive ==
  ASSUME TypeOK, IdsIdentify, NEW g \in Gathers, NEW h \in Gathers, h # g,
         job[h].id \in JobIds, Run(g) \/ Return(g) \/ Unbounded(g)
  PROVE  disk'[Path(h)] = disk[Path(h)]
<1> USE DEF files, registry, env
<1>1. Path(h) # Path(g) /\ Path(h) \in Paths
  BY PathIdentifies, PathType
<1>2. \/ UNCHANGED disk
      \/ \E a : disk' = [disk EXCEPT ![Path(g)] = a]
  <2>1. CASE Run(g)
    BY <2>1 DEF Run, MakeDir, BeginStep, HandleStepError, FinishSteps, Anonymize,
                BeginArchive, BeginCopy, Complete, Exit
  <2>2. CASE Return(g)
    BY <2>2 DEF Return, EndStep, EndBackup, EndArchive, EndCopy
  <2>3. CASE Unbounded(g)
    BY <2>3 DEF Unbounded, ReturnUnbound, FindMaster,
           RemoveBackup, OverlongLine
  <2> QED
    BY <2>1, <2>2, <2>3
<1> QED
  BY <1>1, <1>2 DEF TypeOK

(* No second writer: what is being written is partial.                     *)
LEMMA OneWriter ==
  ASSUME IdsIdentify, NEW g \in Gathers, job[g].id \in JobIds
  PROVE  BeingWritten(g) = "partial"
<1>1. \A h \in Gathers \ {g} : Path(h) # Path(g)
  BY PathIdentifies
<1> QED
  BY <1>1 DEF BeingWritten

(* The archive of a gather after a step of its own.                        *)
LEMMA OwnArchive ==
  ASSUME TypeInv, IdsIdentify, StatusMatchesPc, ArchiveMatches, NEW g \in Gathers,
         Run(g) \/ Return(g) \/ Unbounded(g), ~Exit(g)
  PROVE  /\ pc'[g] \in {"tarring", "copying"} => disk'[Path(g)].state = "partial"
         /\ pc'[g] \in {"remove", "finish"} => disk'[Path(g)].state = "whole"
         /\ Complete(g) => disk'[Path(g)].state = "whole"
<1> USE DEF files, registry, env, ArchiveMatches
<1>a. TypeOK /\ pc \in [Gathers -> PCs] /\ disk \in [Paths -> Archives]
  BY DEF TypeInv, TypeOK
<1>b. job[g].id \in JobIds /\ Path(g) \in Paths /\ disk[Path(g)] \in Archives
  <2>1. pc[g] \in Live
    BY DEF Run, MakeDir, BeginStep, HandleStepError, FinishSteps, Anonymize, BeginArchive,
           BeginCopy, Complete, Return, EndStep, EndBackup, EndArchive, EndCopy,
           Unbounded, ReturnUnbound, FindMaster,
           RemoveBackup, OverlongLine, Goto, Live, Working
  <2> QED
    BY <1>a, <2>1, PathType DEF IdsIdentify
<1>c. \A s : [disk[Path(g)] EXCEPT !.state = s].state = s
  BY <1>b DEF Archives
<1>1. CASE Run(g) /\ ~BeginArchive(g) /\ ~BeginCopy(g)
  BY <1>a, <1>1 DEF Run, MakeDir, BeginStep, HandleStepError, FinishSteps, Anonymize,
     Complete, Goto, Fail
<1>2. CASE BeginArchive(g)
  BY <1>a, <1>b, <1>2, OneWriter DEF BeginArchive, Complete, Goto, Fail
<1>3. CASE BeginCopy(g)
  BY <1>a, <1>b, <1>3, OneWriter DEF BeginCopy, Complete, Goto, Fail
<1>4. CASE EndStep(g) \/ Unbounded(g)
  BY <1>a, <1>4 DEF EndStep, Unbounded, ReturnUnbound, FindMaster,
           RemoveBackup, OverlongLine, Complete, Goto, Fail
<1>5. CASE EndBackup(g)
  BY <1>a, <1>b, <1>5 DEF EndBackup, Complete, Goto, Fail
<1>6. CASE EndArchive(g)
  BY <1>a, <1>b, <1>c, <1>6 DEF EndArchive, Complete, Goto, Fail
<1>7. CASE EndCopy(g)
  BY <1>a, <1>b, <1>c, <1>7 DEF EndCopy, Complete, Goto, Fail
<1> QED
  BY <1>1, <1>2, <1>3, <1>4, <1>5, <1>6, <1>7 DEF Return

LEMMA ArchiveMatchesStep ==
  ASSUME TypeInv, ~SameMillisecond, ManagerInv, [Next]_vars
  PROVE  ArchiveMatches'
<1>a. TypeOK /\ IdsIdentify /\ StatusMatchesPc /\ MapsMatch /\ ArchiveMatches
  BY DEF TypeInv, ManagerInv
<1>b. \A g \in Gathers :
        pc[g] \in Live \/ job[g].status = "complete" => job[g].id # None
  BY <1>a DEF IdsIdentify, Live, Working
<1>c. \A g \in Gathers : job[g].id # None => Path(g)' = Path(g) /\ IsEtcd(g)' = IsEtcd(g)
  BY <1>a, JobStays DEF Path, IsEtcd, TypeOf
<1>d. \A g \in Gathers : job[g].id # None => job[g].id \in JobIds
  BY <1>a DEF TypeOK, JobRecords
<1> USE DEF ArchiveMatches
<1>1. ASSUME NEW g \in Gathers, Run(g) \/ Return(g) \/ Unbounded(g), ~Exit(g)
      PROVE  ArchiveMatches'
  <2> SUFFICES ASSUME NEW h \in Gathers
               PROVE  /\ pc'[h] \in {"tarring", "copying"} =>
                           disk'[Path(h)'].state = "partial"
                      /\ pc'[h] \in {"remove", "finish"} =>
                           disk'[Path(h)'].state = "whole"
                      /\ job'[h].status = "complete" =>
                           \/ disk'[Path(h)'].state = "whole"
                           \/ disk'[Path(h)'].state = "absent" /\ jobs'[job'[h].id] # h
    BY DEF ArchiveMatches
  <2>1. /\ UNCHANGED <<jobs, cancels>>
        /\ Advances(g) \/ \E s \in {"complete", "failed"} : Halts(g, s)
    BY <1>a, <1>1, GoroutineSummary
  <2>2. pc[g] \in Working /\ job[g].status = "running"
    BY <1>a, <1>1 DEF Run, MakeDir, BeginStep, HandleStepError, FinishSteps, Anonymize,
       BeginArchive, BeginCopy, Complete, Return, EndStep, EndBackup, EndArchive, EndCopy,
       Unbounded, ReturnUnbound, FindMaster,
           RemoveBackup, OverlongLine, Goto, Working, StatusMatchesPc
  <2>3. CASE h # g
    <3>1. pc'[h] = pc[h] /\ job'[h] = job[h]
      BY <2>1, <2>3 DEF Advances, Halts
    <3>2. CASE job[h].id = None
      <4>1. pc[h] \notin Live /\ job[h].status # "complete"
        BY <1>b, <3>2
      <4> QED
        BY <3>1, <4>1 DEF Live, Working
    <3>3. CASE job[h].id # None
      BY <1>a, <1>c, <1>d, <1>1, <2>1, <2>3, <3>1, <3>3, OthersArchive
    <3> QED
      BY <3>2, <3>3
  <2>4. CASE h = g
    <3>1. Path(g)' = Path(g)
      BY <1>b, <1>c, <2>2 DEF Live
    <3>2. job'[g].status = "complete" => Complete(g)
      <4>1. job'[g].status = "complete" => Halts(g, "complete")
        BY <2>1, <2>2 DEF Advances, Halts
      <4>2. Halts(g, "complete") => pc[g] = "finish"
        BY DEF Halts
      <4>3. pc[g] = "finish" => Complete(g)
        BY <1>1 DEF Run, MakeDir, BeginStep, HandleStepError, FinishSteps, Anonymize,
           BeginArchive, BeginCopy, Return, EndStep, EndBackup, EndArchive, EndCopy,
           Unbounded, ReturnUnbound, FindMaster,
           RemoveBackup, OverlongLine, Goto
      <4> QED
        BY <4>1, <4>2, <4>3
    <3> QED
      BY <1>a, <1>1, <2>4, <3>1, <3>2, OwnArchive
  <2> QED
    BY <2>3, <2>4
<1>2. CASE CleanupOldJobs
  <2> DEFINE gone == {Path(jobs[id]) : id \in {i \in ExpiredIds :
                                                job[jobs[i]].status = "complete"}}
  <2>1. /\ jobs' = [id \in JobIds |-> IF id \in ExpiredIds THEN None ELSE jobs[id]]
        /\ disk' = [p \in Paths |-> IF p \in gone THEN NoFile ELSE disk[p]]
        /\ UNCHANGED <<job, pc>>
    BY <1>2 DEF CleanupOldJobs
  <2>2. ASSUME NEW h \in Gathers, job[h].id # None, Path(h) \in gone
        PROVE  job[h].status = "complete" /\ job[h].id \in ExpiredIds
    <3>1. PICK i \in ExpiredIds : job[jobs[i]].status = "complete" /\ Path(h) = Path(jobs[i])
      BY <2>2
    <3>2. i \in JobIds /\ jobs[i] \in Gathers /\ job[jobs[i]].id = i
      BY <1>a DEF ExpiredIds, Expired, Listed, TypeOK, MapsMatch
    <3>3. jobs[i] = h
      BY <1>a, <2>2, <3>1, <3>2, PathIdentifies
    <3> QED
      BY <3>1, <3>2, <3>3
  <2> HIDE DEF gone
  <2> SUFFICES ASSUME NEW h \in Gathers, job[h].id # None
               PROVE  /\ pc[h] \in {"tarring", "copying"} =>
                           disk'[Path(h)].state = "partial"
                      /\ pc[h] \in {"remove", "finish"} =>
                           disk'[Path(h)].state = "whole"
                      /\ job[h].status = "complete" =>
                           \/ disk'[Path(h)].state = "whole"
                           \/ disk'[Path(h)].state = "absent" /\ jobs'[job[h].id] # h
    BY <1>b, <2>1 DEF Live, Working, Path, IsEtcd, TypeOf
  <2>3. Path(h) \in Paths /\ job[h].id \in JobIds
    BY <1>a, <1>d, PathType
  <2>4. CASE Path(h) \in gone
    <3>1. disk'[Path(h)].state = "absent" /\ jobs'[job[h].id] = None
      BY <2>1, <2>2, <2>3, <2>4 DEF NoFile
    <3>2. pc[h] \notin Working
      BY <1>a, <2>2, <2>4 DEF StatusMatchesPc
    <3> QED
      BY <3>1, <3>2 DEF Working
  <2>5. CASE Path(h) \notin gone
    <3>1. disk'[Path(h)] = disk[Path(h)] /\ jobs'[job[h].id] \in {None, jobs[job[h].id]}
      BY <2>1, <2>3, <2>5
    <3> QED
      BY <1>a, <3>1
  <2> QED
    BY <2>4, <2>5
<1>3. CASE Restart
  <2> SUFFICES ASSUME NEW h \in Gathers, job[h].status = "complete", pc'[h] \notin Working
               PROVE  \/ disk'[Path(h)].state = "whole"
                      \/ disk'[Path(h)].state = "absent" /\ jobs'[job[h].id] # h
    BY <1>a, <1>3 DEF Restart, Working, Live, Path, IsEtcd, TypeOf, TypeOK
  <2>1. job[h].id \in JobIds /\ Path(h) \in Paths
    BY <1>a, <1>b, <1>d, PathType
  <2>2. jobs'[job[h].id] # h
    BY <1>3, <2>1 DEF Restart
  <2>3. CASE UNCHANGED files
    BY <1>a, <2>2, <2>3 DEF files
  <2>4. CASE disk' = [p \in Paths |-> NoFile]
    BY <2>1, <2>2, <2>4 DEF NoFile
  <2> QED
    BY <1>3, <2>3, <2>4 DEF Restart
<1>4. ASSUME NEW g \in Gathers, StartGather(g) PROVE ArchiveMatches'
  <2>1. PICK id \in JobIds : Starts(g, id)
    BY <1>a, <1>4, StartStarts
  <2> SUFFICES ASSUME NEW h \in Gathers, job'[h].id # None
               PROVE  /\ pc'[h] \in {"tarring", "copying"} =>
                           disk[Path(h)'].state = "partial"
                      /\ pc'[h] \in {"remove", "finish"} =>
                           disk[Path(h)'].state = "whole"
                      /\ job'[h].status = "complete" =>
                           \/ disk[Path(h)'].state = "whole"
                           \/ disk[Path(h)'].state = "absent" /\ jobs'[job'[h].id] # h
    <3>1. IdsIdentify'
      BY <1>a, IdsIdentifyStep
    <3>2. \A h \in Gathers : job'[h].id = None =>
            job'[h].status # "complete" /\ pc'[h] \notin Live
      BY <3>1 DEF IdsIdentify
    <3>3. disk' = disk
      BY <2>1 DEF Starts, files
    <3> QED
      BY <3>2, <3>3 DEF Live, Working
  <2>2. CASE h = g
    BY <2>1, <2>2 DEF Starts
  <2>3. CASE h # g
    <3>1. pc'[h] = pc[h] /\ job'[h] = job[h] /\ job[h].id # id
      BY <2>1, <2>3 DEF Starts
    <3>2. jobs'[job[h].id] = jobs[job[h].id]
      BY <1>a, <1>d, <2>1, <3>1 DEF Starts, TypeOK
    <3> QED
      BY <1>a, <1>c, <3>1, <3>2
  <2> QED
    BY <2>2, <2>3
<1>5. ASSUME UNCHANGED <<job, jobs, disk>>,
             \A h \in Gathers : pc'[h] \in {"tarring", "copying", "remove", "finish"} =>
               pc'[h] = pc[h]
      PROVE  ArchiveMatches'
  <2> SUFFICES ASSUME NEW h \in Gathers
               PROVE  /\ pc'[h] \in {"tarring", "copying"} =>
                           disk'[Path(h)'].state = "partial"
                      /\ pc'[h] \in {"remove", "finish"} =>
                           disk'[Path(h)'].state = "whole"
                      /\ job'[h].status = "complete" =>
                           \/ disk'[Path(h)'].state = "whole"
                           \/ disk'[Path(h)'].state = "absent" /\ jobs'[job'[h].id] # h
    BY DEF ArchiveMatches
  <2>1. Path(h)' = Path(h)
    BY <1>5 DEF Path, IsEtcd, TypeOf
  <2> QED
    BY <1>a, <1>5, <2>1
<1>6. ASSUME NEW g \in Gathers, RequestGather(g) \/ Exit(g) PROVE ArchiveMatches'
  <2>1. \A h \in Gathers : pc'[h] # pc[h] => pc'[h] \notin Working
    BY <1>a, <1>6 DEF RequestGather, Exit, Goto, Working, TypeOK
  <2>2. UNCHANGED <<job, jobs, disk>>
    BY <1>6 DEF RequestGather, Exit, registry, files
  <2> QED
    BY <1>5, <2>1, <2>2 DEF Working
<1> QED
  <2>1. CASE UNCHANGED vars \/ Quiescent
    BY <2>1, <1>5 DEF vars, Quiescent
  <2>2. CASE (\E id \in JobIds : StopJob(id)) \/ \E g \in Gathers : DeadlineExpires(g)
    BY <2>2, <1>5 DEF StopJob, DeadlineExpires, registry, files
  <2>3. CASE \E d \in Downloads : ServeFile(d) \/ \E id \in JobIds : GetFilePath(d, id)
    BY <2>3, <1>5 DEF ServeFile, GetFilePath, registry, files
  <2>4. CASE Tick
    BY <2>4, <1>5 DEF Tick, registry, files
  <2> QED
    BY <1>1, <1>2, <1>3, <1>4, <1>6, <2>1, <2>2, <2>3, <2>4 DEF Next

(* A job that is complete stays so.                                        *)
LEMMA CompleteStays ==
  ASSUME TypeOK, ~SameMillisecond, IdsIdentify, StatusMatchesPc, [Next]_vars
  PROVE  \A g \in Gathers : job[g].status = "complete" =>
           job'[g].status = "complete" /\ job[g].id # None
<1>1. ASSUME NEW g \in Gathers, NEW id \in JobIds, Starts(g, id)
      PROVE  job[g].status = "none" /\ \A h \in Gathers \ {g} : job'[h] = job[h]
  BY <1>1 DEF Starts, IdsIdentify, InHandler
<1>2. ASSUME NEW g \in Gathers, NEW s \in {"complete", "failed"}, Halts(g, s)
      PROVE  job[g].status = "running" /\ \A h \in Gathers \ {g} : job'[h] = job[h]
  BY <1>2 DEF Halts, StatusMatchesPc
<1>3. \A g \in Gathers : job[g].status = "complete" => job[g].id # None
  BY DEF IdsIdentify
<1> QED
  BY <1>1, <1>2, <1>3, Summary DEF Ends, Advances, CleanupOldJobs, Restart

LEMMA DownloadMatchesStep ==
  ASSUME TypeInv, ~SameMillisecond, ManagerInv, [Next]_vars
  PROVE  DownloadMatches'
<1>a. /\ TypeOK /\ IdsIdentify /\ StatusMatchesPc /\ MapsMatch
      /\ ContentMatches /\ ArchiveMatches /\ DownloadMatches
  BY DEF TypeInv, ManagerInv
<1>b. \A g \in Gathers : job[g].status = "complete" =>
        job'[g].status = "complete" /\ job[g].id # None
  BY <1>a, CompleteStays
<1>c. \A g \in Gathers : job[g].id # None => job'[g].id = job[g].id
  BY <1>a, JobStays
<1>d. dl \in [Downloads -> Handlers] /\ \A d \in Downloads : dl[d].file.from \subseteq Gathers
  BY <1>a DEF TypeOK, Handlers, Archives
<1> DEFINE Good(h) ==
      /\ h.pc # "idle" => h.gather \in Gathers /\ job[h.gather].status = "complete"
      /\ h.pc = "served" =>
           /\ h.file.state \in {"absent", "whole"}
           /\ \A g \in h.file.from : g \in Gathers /\ job[g].id = job[h.gather].id
           Good2(h) ==
      /\ h.pc # "idle" => h.gather \in Gathers /\ job'[h.gather].status = "complete"
      /\ h.pc = "served" =>
           /\ h.file.state \in {"absent", "whole"}
           /\ \A g \in h.file.from : job'[g].id = job'[h.gather].id
<1>e. \A d \in Downloads : Good(dl[d])
  BY <1>a, <1>d DEF DownloadMatches
<1>f. ASSUME NEW h, Good(h) PROVE Good2(h)
  BY <1>b, <1>c, <1>f
<1> SUFFICES ASSUME NEW d \in Downloads PROVE Good2(dl'[d])
  BY DEF DownloadMatches
<1>1. CASE dl'[d] = dl[d]
  BY <1>1, <1>e, <1>f
<1>2. ASSUME NEW e \in Downloads, NEW id \in JobIds, GetFilePath(e, id)
      PROVE  Good2(dl'[d])
  <2>1. dl' = [dl EXCEPT ![e] = [dl[e] EXCEPT !.pc = "path", !.gather = jobs[id]]]
    BY <1>2 DEF GetFilePath
  <2>2. jobs[id] \in Gathers /\ job[jobs[id]].status = "complete"
    BY <1>a, <1>2 DEF GetFilePath, Listed, TypeOK
  <2>3. CASE d = e
    <3>1. dl'[d].pc = "path" /\ dl'[d].gather = jobs[id]
      BY <1>d, <2>1, <2>3 DEF Handlers
    <3> QED
      BY <1>b, <2>2, <3>1
  <2>4. CASE d # e
    BY <1>1, <1>d, <2>1, <2>4
  <2> QED
    BY <2>3, <2>4
<1>3. ASSUME NEW e \in Downloads, ServeFile(e)
      PROVE  Good2(dl'[d])
  <2> DEFINE g == dl[e].gather
  <2>1. dl' = [dl EXCEPT ![e] = [dl[e] EXCEPT !.pc = "served", !.file = disk[Path(g)]]]
    BY <1>3 DEF ServeFile
  <2>2. /\ g \in Gathers /\ job[g].status = "complete"
        /\ job[g].id \in JobIds /\ Path(g) \in Paths /\ Path(g)[1] = job[g].id
    <3>1. g \in Gathers /\ job[g].status = "complete"
      BY <1>3, <1>a DEF ServeFile, DownloadMatches
    <3>2. job[g].id \in JobIds
      BY <1>a, <1>b, <3>1 DEF TypeOK, JobRecords
    <3> QED
      BY <1>a, <3>1, <3>2, PathType DEF Path
  <2>3. /\ disk[Path(g)].state \in {"absent", "whole"}
        /\ \A x \in disk[Path(g)].from : x \in Gathers /\ job[x].id = job[g].id
    BY <1>a, <2>2 DEF ArchiveMatches, ContentMatches, TypeOK, Archives
  <2>4. CASE d = e
    <3>1. /\ dl'[d].pc = "served" /\ dl'[d].gather = g
          /\ dl'[d].file = disk[Path(g)]
      BY <1>d, <2>1, <2>4 DEF Handlers
    <3>2. Good(dl'[d])
      BY <2>2, <2>3, <3>1
    <3> HIDE DEF Good, Good2
    <3> QED
      BY <1>f, <3>2
  <2>5. CASE d # e
    BY <1>1, <1>d, <2>1, <2>5
  <2> QED
    BY <2>4, <2>5
<1>4. CASE Restart
  <2>1. dl'[d] = dl[d] \/ dl'[d] = NoDownload
    BY <1>4 DEF Restart
  <2> QED
    BY <1>1, <2>1 DEF NoDownload
<1> QED
  <2>1. ASSUME NEW g \in Gathers, Run(g) \/ Return(g) \/ Unbounded(g)
        PROVE  UNCHANGED dl
    BY <2>1 DEF Run, Return, MakeDir, BeginStep, HandleStepError, FinishSteps, Anonymize,
       BeginArchive, BeginCopy, Complete, Exit, EndStep, EndBackup, EndArchive, EndCopy,
       Unbounded, ReturnUnbound, FindMaster, RemoveBackup, OverlongLine, env
  <2>2. ASSUME \/ \E g \in Gathers : RequestGather(g) \/ StartGather(g) \/ DeadlineExpires(g)
               \/ (\E id \in JobIds : StopJob(id)) \/ CleanupOldJobs \/ Tick \/ Quiescent
               \/ UNCHANGED vars
        PROVE  UNCHANGED dl
    BY <2>2 DEF vars, RequestGather, StartGather, DeadlineExpires, StopJob, CleanupOldJobs,
       Tick, Quiescent, env
  <2> QED
    BY <1>1, <1>2, <1>3, <1>4, <2>1, <2>2 DEF Next

-----------------------------------------------------------------------------
(* The invariant, and what clients see *)

(* The maps, the structs, the goroutines, the files and the download       *)
(* handlers stay consistent as long as no two jobs get the same ID.        *)
THEOREM ManagerIsConsistent ==
  ASSUME ~SameMillisecond
  PROVE  Spec => []ManagerInv
<1>1. Init => ManagerInv
  BY DEF Init, ManagerInv, IdsIdentify, StatusMatchesPc, MapsMatch, ContentMatches,
         ArchiveMatches, DownloadMatches, NoJob, NoFile, NoDownload, Live, Working, InHandler
<1>2. TypeInv /\ ManagerInv /\ [Next]_vars => ManagerInv'
  <2> SUFFICES ASSUME TypeInv, ManagerInv, [Next]_vars PROVE ManagerInv'
    OBVIOUS
  <2>1. TypeOK
    BY DEF TypeInv
  <2> QED
    BY <2>1, IdsIdentifyStep, StatusMatchesPcStep, MapsMatchStep, ContentMatchesStep,
       ArchiveMatchesStep, DownloadMatchesStep DEF ManagerInv
<1> QED
  BY <1>1, <1>2, TypeInvariant, PTL DEF Spec

(* As long as no two jobs get the same ID, a job that clients see as       *)
(* running can be stopped through its ID.                                  *)
THEOREM RunningCanBeStopped ==
  ASSUME ~SameMillisecond
  PROVE  Spec => []RunningIsStoppable
<1>1. TypeInv /\ ManagerInv => RunningIsStoppable
  <2> SUFFICES ASSUME TypeInv, ManagerInv,
                      NEW id \in JobIds, Listed(id), job[jobs[id]].status = "running"
               PROVE  cancels[id] = jobs[id]
    BY DEF RunningIsStoppable
  <2>1. jobs[id] \in Gathers
    BY DEF TypeInv, TypeOK, Listed
  <2>2. pc[jobs[id]] \in Live /\ job[jobs[id]].id = id
    BY <2>1 DEF ManagerInv, MapsMatch, StatusMatchesPc, Listed, Live
  <2> QED
    BY <2>1, <2>2 DEF ManagerInv, MapsMatch
<1> QED
  BY <1>1, TypeInvariant, ManagerIsConsistent, PTL

(* As long as no two jobs get the same ID, a job that clients see as       *)
(* complete has its whole archive on disk, whatever else runs.             *)
THEOREM CompleteCanBeDownloaded ==
  ASSUME ~SameMillisecond
  PROVE  Spec => []CompleteIsDownloadable
<1>1. TypeInv /\ ManagerInv => CompleteIsDownloadable
  <2> SUFFICES ASSUME TypeInv, ManagerInv,
                      NEW id \in JobIds, Listed(id), job[jobs[id]].status = "complete"
               PROVE  /\ disk[Path(jobs[id])].state = "whole"
                      /\ disk[Path(jobs[id])].from \subseteq {jobs[id]}
    BY DEF CompleteIsDownloadable
  <2>1. jobs[id] \in Gathers /\ job[jobs[id]].id = id
    BY DEF TypeInv, TypeOK, Listed, ManagerInv, MapsMatch
  <2>2. disk[Path(jobs[id])].state = "whole"
    BY <2>1 DEF ManagerInv, ArchiveMatches
  <2>3. Path(jobs[id]) \in Paths /\ Path(jobs[id])[1] = id
    BY <2>1, PathType DEF TypeInv, Path
  <2>4. \A g \in disk[Path(jobs[id])].from : g \in Gathers /\ job[g].id = id
    BY <2>3 DEF ManagerInv, ContentMatches, TypeInv, TypeOK, Archives
  <2>5. \A g \in disk[Path(jobs[id])].from : g = jobs[id]
    BY <2>1, <2>4 DEF ManagerInv, IdsIdentify
  <2> QED
    BY <2>2, <2>5
<1> QED
  BY <1>1, TypeInvariant, ManagerIsConsistent, PTL

(* As long as no two jobs get the same ID, a download delivers the whole   *)
(* archive of the job it was granted for or nothing, even when the sweep   *)
(* or a restart comes between the grant and the delivery.                  *)
THEOREM DownloadsAreWhole ==
  ASSUME ~SameMillisecond
  PROVE  Spec => []ServedWhole
<1>1. TypeInv /\ ManagerInv => ServedWhole
  <2> SUFFICES ASSUME TypeInv, ManagerInv, NEW d \in Downloads,
                      dl[d].pc = "served", dl[d].file.state # "absent"
               PROVE  /\ dl[d].file.state = "whole"
                      /\ dl[d].file.from \subseteq {dl[d].gather}
    BY DEF ServedWhole
  <2>1. /\ dl[d].gather \in Gathers /\ job[dl[d].gather].status = "complete"
        /\ dl[d].file.state = "whole"
        /\ \A g \in dl[d].file.from : job[g].id = job[dl[d].gather].id
    BY DEF ManagerInv, DownloadMatches
  <2>2. dl[d].file.from \subseteq Gathers
    BY DEF TypeInv, TypeOK, Handlers, Archives
  <2>3. job[dl[d].gather].id # None
    BY <2>1 DEF ManagerInv, IdsIdentify
  <2>4. \A g \in dl[d].file.from : g = dl[d].gather
    BY <2>1, <2>2, <2>3 DEF ManagerInv, IdsIdentify
  <2> QED
    BY <2>1, <2>4
<1> QED
  BY <1>1, TypeInvariant, ManagerIsConsistent, PTL
=============================================================================
