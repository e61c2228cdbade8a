--------------------------- MODULE GatherManager ---------------------------
(***************************************************************************)
(* The job manager of internal/mustgather/mustgather.go with the HTTP      *)
(* handlers of internal/handler/handler.go that drive it: start, stop,     *)
(* download, and the retention sweep.                                      *)
(*                                                                         *)
(* Every accepted request runs in a goroutine of its own (runGather), so a *)
(* gather g \in Gathers is both the request and its goroutine: pc[g] is    *)
(* where it is, job[g] the Job struct it holds a pointer to, ctx[g] its    *)
(* context.  The maps jobs and cancels, keyed by job ID, are what the      *)
(* handlers can see of it.  Actions are cut at the places where the code   *)
(* gives up the mutex m.mu, waits for a command or reads its context, so   *)
(* that handlers, timers and other goroutines interleave there.            *)
(*                                                                         *)
(* A gather runs in one of two modes, fixed by the process configuration:  *)
(* native (runNativeGather, which calls the collector) or oc (runGather's  *)
(* own loop over `oc adm must-gather` commands).                           *)
(***************************************************************************)
EXTENDS Integers, FiniteSets

CONSTANTS
  Gathers,          \* start requests that clients send, and their goroutines
  Downloads,        \* download requests that clients send
  Requests,         \* the valid requests: <<gather type, anonymize?>>
  MaxActive,        \* the limit handleStartGather compares with (5)
  GatherTimeout,    \* gatherTimeout, in ticks of the model's clock
  JobRetention,     \* jobRetention, in the same ticks
  MaxSteps,         \* bound: the most commands or selected types of one gather
  LastStart,        \* bound: the last tick at which a gather may start
  MaxRestarts,      \* bound: how often the process may be restarted
  SameMillisecond,  \* may two requests of one type read the same UnixMilli?
  LongLines,        \* may an oc command write a line of more than 1 MiB?
  None              \* no job

(* "default" stands for every type that is collected by one command.       *)
AllTypes == {"default", "custom", "multi", "all", "etcd-backup"}

(* Bound: late enough for the last gather to time out and to be forgotten. *)
MaxNow == LastStart + JobRetention + 1

(* fmt.Sprintf("%s-%d", prefix, time.Now().UnixMilli())                    *)
Types == {r[1] : r \in Requests}
JobIds == Types \X (0 .. MaxNow)

(* The archives a gather can write: <<job ID, named "-anonymized">>.       *)
Paths == JobIds \X BOOLEAN

ASSUME ManagerAssumption ==
  /\ IsFiniteSet(Gathers)
  /\ Requests \subseteq AllTypes \X BOOLEAN
  /\ MaxActive \in Nat /\ MaxRestarts \in Nat /\ LastStart \in Nat
  /\ MaxSteps \in Nat /\ MaxSteps >= 2
  /\ GatherTimeout \in Nat \ {0}
  /\ JobRetention \in Nat /\ JobRetention > GatherTimeout
  /\ SameMillisecond \in BOOLEAN
  /\ LongLines \in BOOLEAN
  /\ None \notin Gathers \cup JobIds

VARIABLES
  nativeGather,  \* m.nativeGather && m.collector != nil
  now,           \* the clock
  jobs,          \* m.jobs: the gather whose Job is listed under an ID
  cancels,       \* m.cancels: the gather whose context the ID cancels
  job,           \* the Job structs
  ctx,           \* ctx.Err() of each gather: none, canceled or deadline
  pc,            \* where each gather's handler, and then goroutine, is
  left,          \* steps of the gather's loop that have not run yet
  masked,        \* did FastAnonymize rewrite the gather's data?
  data,          \* the gathers that made or filled workDir/<id>; {}: no directory
  wrap,          \* the gathers whose output is in must-gather.local.<id>
  disk,          \* the archives in workDir
  gauge,         \* metrics.MustGatherJobsActive
  dl,            \* the download handlers
  restarts       \* how often the process was restarted

vars == <<nativeGather, now, jobs, cancels, job, ctx, pc, left, masked,
          data, wrap, disk, gauge, dl, restarts>>

files == <<data, wrap, disk>>
registry == <<jobs, cancels, gauge>>
env == <<nativeGather, now, dl, restarts>>

Statuses == {"none", "running", "complete", "failed"}

(* "stopped" is the literal error "Stopped by user"; every other error     *)
(* text is "failed".                                                       *)
Errors == {"none", "stopped", "failed"}

(* Handler states, goroutine states, and what a restart leaves behind.     *)
InHandler == {"idle", "refused", "admitted"}
Working == {"mkdir", "find", "step", "running", "blocked", "stepErr",
            "anonymize", "archive", "tarring", "copy", "copying", "remove", "finish"}
Live == Working \cup {"exit"}
PCs == InHandler \cup Live \cup {"done", "lost"}

NoFile == [state |-> "absent", from |-> {}, masked |-> FALSE]
Archives == [state: {"absent", "partial", "mixed", "whole"},
             from: SUBSET Gathers, masked: BOOLEAN]

JobRecords == [id: JobIds \cup {None}, status: Statuses,
               startedAt: 0 .. MaxNow, anonymize: BOOLEAN, error: Errors]
NoJob == [id |-> None, status |-> "none", startedAt |-> 0,
          anonymize |-> FALSE, error |-> "none"]

Handlers == [pc: {"idle", "path", "served"}, gather: Gathers \cup {None},
             file: Archives]
NoDownload == [pc |-> "idle", gather |-> None, file |-> NoFile]

-----------------------------------------------------------------------------
(* Helpers *)

TypeOf(g) == job[g].id[1]
IsEtcd(g) == TypeOf(g) = "etcd-backup"

(* tarName: the job ID, with "-anonymized" whenever anonymization was      *)
(* asked for; the etcd paths use the plain ID.                             *)
Path(g) == <<job[g].id, job[g].anonymize /\ ~IsEtcd(g)>>

(* How many commands (oc) or selected types (native) a gather goes through.*)
(* The handler makes a "multi" of two types or more; oc drops the types    *)
(* that have no image, and runs one command per namespace of a "custom".   *)
StepCounts(t) ==
  CASE t = "multi"  -> IF nativeGather THEN 2 .. MaxSteps ELSE 0 .. MaxSteps
    [] t = "all"    -> IF nativeGather THEN {1} ELSE 2 .. MaxSteps
    [] t = "custom" -> IF nativeGather THEN {1} ELSE 1 .. MaxSteps
    [] OTHER        -> {1}

(* Gathers that go on after a failed step.                                 *)
Tolerant(g) == TypeOf(g) = "multi" \/ (TypeOf(g) = "all" /\ ~nativeGather)

Listed(id) == jobs[id] # None

ActiveJobs == {id \in JobIds : Listed(id) /\ job[jobs[id]].status = "running"}
ActiveJobCount == Cardinality(ActiveJobs)

Goto(g, from, to) == pc[g] = from /\ pc' = [pc EXCEPT ![g] = to]

(* setError: unconditional, and every caller returns from the goroutine.   *)
Fail(g, error) ==
  /\ job' = [job EXCEPT ![g].status = "failed", ![g].error = error]
  /\ pc' = [pc EXCEPT ![g] = "exit"]

(* os.Rename and os.RemoveAll of the native archive step; a rename onto a  *)
(* directory that exists fails and its error is ignored.                   *)
Moved(from, to, id) == IF to[id] = {} THEN [to EXCEPT ![id] = from[id]] ELSE to
Left(from, to, id)  == IF to[id] = {} THEN [from EXCEPT ![id] = {}] ELSE from

(* A file that a second writer opens holds the bytes of both.              *)
BeingWritten(g) ==
  IF \E h \in Gathers \ {g} : pc[h] \in {"tarring", "copying"} /\ Path(h) = Path(g)
    THEN "mixed" ELSE "partial"

-----------------------------------------------------------------------------
(* Starting: handleStartGather, StartGather *)

(* The handler validates the request, then asks for ActiveJobCount(); the  *)
(* mutex is free again when StartGather is called.                         *)
RequestGather(g) ==
  /\ pc[g] = "idle"
  /\ now <= LastStart
  /\ pc' = [pc EXCEPT ![g] =
              IF ActiveJobCount >= MaxActive THEN "refused" ELSE "admitted"]
  /\ UNCHANGED <<job, ctx, left, masked, files, registry, env>>

StartGather(g) ==
  /\ Goto(g, "admitted", "mkdir")
  /\ now <= LastStart
  /\ \E r \in Requests :
       LET id == <<r[1], now>> IN
       /\ SameMillisecond \/ \A h \in Gathers : job[h].id # id
       /\ job' = [job EXCEPT ![g] = [id |-> id, status |-> "running",
                                     startedAt |-> now, anonymize |-> r[2],
                                     error |-> "none"]]
       /\ jobs' = [jobs EXCEPT ![id] = g]
       /\ cancels' = [cancels EXCEPT ![id] = g]
       /\ \E n \in StepCounts(r[1]) : left' = [left EXCEPT ![g] = n]
  /\ gauge' = gauge + 1
  /\ UNCHANGED <<ctx, masked, files, env>>

-----------------------------------------------------------------------------
(* The goroutine: runGather, runNativeGather *)

(* os.MkdirAll(destDir): every kind of gather makes workDir/<id>, also the *)
(* etcd backups, which write nothing there that stays.                     *)
MakeDir(g) ==
  /\ pc[g] = "mkdir"
  /\ \/ /\ data' = [data EXCEPT ![job[g].id] = @ \cup {g}]
        /\ pc' = [pc EXCEPT ![g] =
                   IF IsEtcd(g) /\ ~nativeGather THEN "find" ELSE "step"]
        /\ UNCHANGED job
     \/ Fail(g, "failed") /\ UNCHANGED data
  /\ UNCHANGED <<ctx, left, masked, wrap, disk, registry, env>>

(* Wrong: the loop runs once more when no step is left.                    *)
BeginStepOnceMore(g) ==
  /\ pc[g] = "step"
  /\ IF ctx[g] = "none"
       THEN pc' = [pc EXCEPT ![g] = "running"] /\ UNCHANGED job
       ELSE Fail(g, "stopped")
  /\ UNCHANGED <<ctx, left, masked, files, registry, env>>

(* The head of the loop with a step left.  Native: the ctx.Err() check.    *)
(* oc: runCommand starts the command, and Start refuses a done context.    *)
BeginStep(g) ==
  /\ pc[g] = "step"
  /\ left[g] > 0
  /\ IF ctx[g] = "none"
       THEN pc' = [pc EXCEPT ![g] = "running"] /\ UNCHANGED job
       ELSE Fail(g, IF IsEtcd(g) /\ ~nativeGather THEN "failed" ELSE "stopped")
  /\ UNCHANGED <<ctx, left, masked, files, registry, env>>

(* The command or the collector returns.  runCommand reports an error      *)
(* whenever the context is done by then; collector.Run looks at the        *)
(* context before each definition, and returns nil when it is done during  *)
(* the last one.                                                           *)
EndStep(g) ==
  /\ pc[g] = "running"
  /\ ~IsEtcd(g)
  /\ data' = [data EXCEPT ![job[g].id] = @ \cup {g}]
  /\ \/ /\ nativeGather \/ ctx[g] = "none"
        /\ left' = [left EXCEPT ![g] = @ - 1]
        /\ pc' = [pc EXCEPT ![g] = "step"]
     \/ pc' = [pc EXCEPT ![g] = "stepErr"] /\ UNCHANGED left
  /\ UNCHANGED <<job, ctx, masked, wrap, disk, registry, env>>

(* runCommand reads the output of oc with a Scanner of 1 MiB.  A longer    *)
(* line ends the Scanner, nobody reads the pipe any more, and cmd.Wait     *)
(* waits for the copy into it, whatever becomes of the process.            *)
OverlongLine(g) ==
  /\ LongLines
  /\ ~nativeGather
  /\ Goto(g, "running", "blocked")
  /\ UNCHANGED <<job, ctx, left, masked, files, registry, env>>

(* The error branch, which reads the context again.                        *)
HandleStepError(g) ==
  /\ pc[g] = "stepErr"
  /\ IF ctx[g] = "none" /\ Tolerant(g)
       THEN /\ left' = [left EXCEPT ![g] = @ - 1]
            /\ pc' = [pc EXCEPT ![g] = "step"]
            /\ UNCHANGED job
       ELSE /\ Fail(g, IF ctx[g] = "none" THEN "failed" ELSE "stopped")
            /\ UNCHANGED left
  /\ UNCHANGED <<ctx, masked, files, registry, env>>

(* Behind the loop; no context check on either path.                       *)
FinishSteps(g) ==
  /\ pc[g] = "step"
  /\ left[g] = 0
  /\ pc' = [pc EXCEPT ![g] = IF job[g].anonymize THEN "anonymize" ELSE "archive"]
  /\ UNCHANGED <<job, ctx, left, masked, files, registry, env>>

(* FastAnonymize; a failure is logged as a warning and nothing else.       *)
Anonymize(g) ==
  /\ Goto(g, "anonymize", "archive")
  /\ \E ok \in BOOLEAN : masked' = [masked EXCEPT ![g] = ok]
  /\ UNCHANGED <<job, ctx, left, files, registry, env>>

(* The tar command is started.  Native first renames destDir into its      *)
(* wrapper and, when tar cannot start, back again.                         *)
BeginArchive(g) ==
  LET id == job[g].id
      content == IF nativeGather THEN Moved(data, wrap, id)[id] ELSE data[id]
  IN
  /\ pc[g] = "archive"
  /\ IF ctx[g] = "none"
       THEN /\ disk' = [disk EXCEPT ![Path(g)] =
                          [state  |-> BeingWritten(g),
                           from   |-> content,
                           masked |-> masked[g]]]
            /\ IF nativeGather
                 THEN /\ wrap' = Moved(data, wrap, id)
                      /\ data' = Left(data, wrap, id)
                 ELSE UNCHANGED <<data, wrap>>
            /\ pc' = [pc EXCEPT ![g] = "tarring"]
            /\ UNCHANGED job
       ELSE /\ Fail(g, "failed")
            /\ IF nativeGather
                 THEN /\ data' = Moved(Moved(data, wrap, id), Left(data, wrap, id), id)
                      /\ wrap' = Left(Moved(data, wrap, id), Left(data, wrap, id), id)
                 ELSE UNCHANGED <<data, wrap>>
            /\ UNCHANGED disk
  /\ UNCHANGED <<ctx, left, masked, registry, env>>

(* Wrong: the error of tar is not looked at.                               *)
EndArchiveIgnoringError(g) ==
  /\ Goto(g, "tarring", "finish")
  /\ \E s \in {"partial", "whole"} : disk' = [disk EXCEPT ![Path(g)].state = s]
  /\ wrap' = IF nativeGather THEN [wrap EXCEPT ![job[g].id] = {}] ELSE wrap
  /\ UNCHANGED <<data, job, ctx, left, masked, registry, env>>

(* Wrong: the wrapper directory stays.                                     *)
EndArchiveKeepingWrapper(g) ==
  /\ Goto(g, "tarring", "finish")
  /\ ctx[g] = "none"
  /\ disk' = [disk EXCEPT ![Path(g)].state = IF @ = "mixed" THEN @ ELSE "whole"]
  /\ UNCHANGED <<data, wrap, job, ctx, left, masked, registry, env>>

(* Wrong: tar runs outside the gather's context.                           *)
EndArchiveOutsideContext(g) ==
  /\ Goto(g, "tarring", "finish")
  /\ disk' = [disk EXCEPT ![Path(g)].state = IF @ = "mixed" THEN @ ELSE "whole"]
  /\ wrap' = IF nativeGather THEN [wrap EXCEPT ![job[g].id] = {}] ELSE wrap
  /\ UNCHANGED <<data, job, ctx, left, masked, registry, env>>

(* tar ends.  On success native removes the wrapper; on failure it renames *)
(* the inner directory back and leaves the archive as tar left it.         *)
EndArchive(g) ==
  LET id == job[g].id IN
  /\ pc[g] = "tarring"
  /\ \/ /\ ctx[g] = "none"
        /\ disk' = [disk EXCEPT ![Path(g)].state =
                      IF @ = "mixed" THEN "mixed" ELSE "whole"]
        /\ wrap' = IF nativeGather THEN [wrap EXCEPT ![id] = {}] ELSE wrap
        /\ pc' = [pc EXCEPT ![g] = "finish"]
        /\ UNCHANGED <<data, job>>
     \/ /\ \E s \in {"partial", "whole"} :
             disk' = [disk EXCEPT ![Path(g)].state =
                        IF @ = "mixed" THEN "mixed" ELSE s]
        /\ IF nativeGather
             THEN /\ data' = Moved(wrap, data, id)
                  /\ wrap' = Left(wrap, data, id)
             ELSE UNCHANGED <<data, wrap>>
        /\ Fail(g, "failed")
  /\ UNCHANGED <<ctx, left, masked, registry, env>>

(* The last critical section: the job becomes complete.                    *)
Complete(g) ==
  /\ Goto(g, "finish", "exit")
  /\ job' = [job EXCEPT ![g].status = "complete"]
  /\ UNCHANGED <<ctx, left, masked, files, registry, env>>

(* Wrong: the gauge is decremented on the last line, not by a defer.       *)
ExitCountingSuccesses(g) ==
  /\ Goto(g, "exit", "done")
  /\ cancels' = [cancels EXCEPT ![job[g].id] = None]
  /\ gauge' = IF job[g].status = "complete" THEN gauge - 1 ELSE gauge
  /\ left' = [left EXCEPT ![g] = 0]
  /\ masked' = [masked EXCEPT ![g] = FALSE]
  /\ UNCHANGED <<jobs, job, ctx, files, env>>

(* The deferred calls: the cancel entry of the ID goes, whoever owns it,   *)
(* then the gauge is decremented.  The goroutine's locals die with it.     *)
Exit(g) ==
  /\ Goto(g, "exit", "done")
  /\ cancels' = [cancels EXCEPT ![job[g].id] = None]
  /\ gauge' = gauge - 1
  /\ left' = [left EXCEPT ![g] = 0]
  /\ masked' = [masked EXCEPT ![g] = FALSE]
  /\ UNCHANGED <<jobs, job, ctx, files, env>>

-----------------------------------------------------------------------------
(* Etcd backups: runNativeEtcdBackup, runEtcdBackup *)

(* The oc mode first asks for a master node, with exec.Command: neither a  *)
(* stop nor the deadline reaches this command.                             *)
FindMaster(g) ==
  /\ pc[g] = "find"
  /\ \/ pc' = [pc EXCEPT ![g] = "step"] /\ UNCHANGED job
     \/ Fail(g, "failed")
  /\ UNCHANGED <<ctx, left, masked, files, registry, env>>

(* The backup itself has run.  Native: the archive is renamed into place   *)
(* and found whole, or the job fails; the directory it was written to      *)
(* stays.  oc: runCommand reports a done context as an error, and the copy *)
(* is still to come.                                                       *)
EndBackup(g) ==
  /\ pc[g] = "running"
  /\ IsEtcd(g)
  /\ \/ /\ nativeGather
        /\ \/ /\ disk' = [disk EXCEPT ![Path(g)] =
                            [state |-> "whole", from |-> {g}, masked |-> FALSE]]
              /\ pc' = [pc EXCEPT ![g] = "finish"]
              /\ UNCHANGED job
           \/ Fail(g, "failed") /\ UNCHANGED disk
           \/ pc' = [pc EXCEPT ![g] = "stepErr"] /\ UNCHANGED <<job, disk>>
     \/ /\ ~nativeGather
        /\ \/ ctx[g] = "none" /\ pc' = [pc EXCEPT ![g] = "copy"] /\ UNCHANGED job
           \/ Fail(g, "failed")
        /\ UNCHANGED disk
  /\ UNCHANGED <<ctx, left, masked, data, wrap, registry, env>>

(* The output file is created, then the copy command is started; on a done *)
(* context the command does not start and the file is removed again.       *)
BeginCopy(g) ==
  /\ pc[g] = "copy"
  /\ \/ /\ ctx[g] = "none"
        /\ disk' = [disk EXCEPT ![Path(g)] =
                      [state |-> BeingWritten(g), from |-> {g}, masked |-> FALSE]]
        /\ pc' = [pc EXCEPT ![g] = "copying"]
        /\ UNCHANGED job
     \/ /\ Fail(g, "failed")
        /\ disk' = [disk EXCEPT ![Path(g)] = IF ctx[g] = "none" THEN @ ELSE NoFile]
  /\ UNCHANGED <<ctx, left, masked, data, wrap, registry, env>>

EndCopy(g) ==
  /\ pc[g] = "copying"
  /\ \/ /\ disk' = [disk EXCEPT ![Path(g)].state =
                      IF @ = "mixed" THEN "mixed" ELSE "whole"]
        /\ pc' = [pc EXCEPT ![g] = "remove"]
        /\ UNCHANGED job
     \/ disk' = [disk EXCEPT ![Path(g)] = NoFile] /\ Fail(g, "failed")
  /\ UNCHANGED <<ctx, left, masked, data, wrap, registry, env>>

(* The backup is removed from the node, again with exec.Command and with   *)
(* its error ignored.                                                      *)
RemoveBackup(g) ==
  /\ Goto(g, "remove", "finish")
  /\ UNCHANGED <<job, ctx, left, masked, files, registry, env>>

-----------------------------------------------------------------------------
(* Stopping, deadlines, retention, downloads, restarts *)

(* Wrong: StopJob drops the cancel function it has called.                 *)
StopJobOnce(id) ==
  LET g == cancels[id] IN
  /\ g # None
  /\ ctx' = [ctx EXCEPT ![g] = IF @ = "none" THEN "canceled" ELSE @]
  /\ cancels' = [cancels EXCEPT ![id] = None]
  /\ UNCHANGED <<pc, job, jobs, gauge, left, masked, files, env>>

(* handleStopGather: the client is told "stopping" when the ID has a       *)
(* cancel function, and "not found or already finished" when it has none.  *)
StopJob(id) ==
  LET g == cancels[id] IN
  /\ g # None
  /\ ctx' = [ctx EXCEPT ![g] = IF @ = "none" THEN "canceled" ELSE @]
  /\ UNCHANGED <<pc, job, left, masked, files, registry, env>>

(* Wrong: only the oc commands get the context with the timeout.           *)
DeadlineOfCommands(g) ==
  /\ pc[g] \in Live
  /\ ctx[g] = "none" /\ ~nativeGather
  /\ now >= job[g].startedAt + GatherTimeout
  /\ ctx' = [ctx EXCEPT ![g] = "deadline"]
  /\ UNCHANGED <<pc, job, left, masked, files, registry, env>>

(* context.WithTimeout; the first cause of a done context is the one that  *)
(* ctx.Err() keeps.                                                        *)
DeadlineExpires(g) ==
  /\ pc[g] \in Live
  /\ ctx[g] = "none"
  /\ now >= job[g].startedAt + GatherTimeout
  /\ ctx' = [ctx EXCEPT ![g] = "deadline"]
  /\ UNCHANGED <<pc, job, left, masked, files, registry, env>>

Tick ==
  /\ now < MaxNow
  /\ now' = now + 1
  /\ UNCHANGED <<nativeGather, dl, restarts, pc, job, ctx, left, masked,
                 files, registry>>

(* Wrong: running jobs expire too.                                         *)
ExpiredByAge(id) == Listed(id) /\ job[jobs[id]].startedAt + JobRetention < now

(* Wrong: failed jobs never expire.                                        *)
ExpiredWhenComplete(id) == ExpiredByAge(id) /\ job[jobs[id]].status = "complete"

(* j.Status != "running" && j.StartedAt.Before(now - jobRetention)         *)
Expired(id) ==
  /\ Listed(id)
  /\ job[jobs[id]].status # "running"
  /\ job[jobs[id]].startedAt + JobRetention < now

ExpiredIds == {id \in JobIds : Expired(id)}

(* Wrong: the archive is looked for under the plain job ID.                *)
CleanupByJobId ==
  /\ ExpiredIds # {}
  /\ jobs' = [id \in JobIds |-> IF id \in ExpiredIds THEN None ELSE jobs[id]]
  /\ disk' = [p \in Paths |-> IF p[1] \in ExpiredIds /\ ~p[2] THEN NoFile ELSE disk[p]]
  /\ UNCHANGED <<cancels, gauge, job, pc, ctx, left, masked, data, wrap, env>>

(* cleanupOldJobs: one critical section removes the archive that the job   *)
(* names, if it names one, and the entry.  Working directories stay.       *)
CleanupOldJobs ==
  LET gone == {Path(jobs[id]) : id \in {i \in ExpiredIds :
                                          job[jobs[i]].status = "complete"}}
  IN
  /\ ExpiredIds # {}
  /\ jobs' = [id \in JobIds |-> IF id \in ExpiredIds THEN None ELSE jobs[id]]
  /\ disk' = [p \in Paths |-> IF p \in gone THEN NoFile ELSE disk[p]]
  /\ UNCHANGED <<cancels, gauge, job, pc, ctx, left, masked, data, wrap, env>>

(* Wrong: a download is granted whatever the job's status is.              *)
GetFilePathOfAnyJob(d, id) ==
  /\ dl[d].pc = "idle"
  /\ Listed(id)
  /\ dl' = [dl EXCEPT ![d] = [@ EXCEPT !.pc = "path", !.gather = jobs[id]]]
  /\ UNCHANGED <<nativeGather, now, restarts, pc, job, ctx, left, masked,
                 files, registry>>

(* handleGatherDownload: GetFilePath under the mutex ...                   *)
GetFilePath(d, id) ==
  /\ dl[d].pc = "idle"
  /\ Listed(id)
  /\ job[jobs[id]].status = "complete"
  /\ dl' = [dl EXCEPT ![d] = [@ EXCEPT !.pc = "path", !.gather = jobs[id]]]
  /\ UNCHANGED <<nativeGather, now, restarts, pc, job, ctx, left, masked,
                 files, registry>>

(* ... then ServeFile opens the path, which the sweep may have removed: an *)
(* absent file is the client's 404.                                        *)
ServeFile(d) ==
  /\ dl[d].pc = "path"
  /\ dl' = [dl EXCEPT ![d] = [@ EXCEPT !.pc = "served",
                                       !.file = disk[Path(dl[d].gather)]]]
  /\ UNCHANGED <<nativeGather, now, restarts, pc, job, ctx, left, masked,
                 files, registry>>

(* The process dies and main() makes a new Manager: NewManager starts from *)
(* empty maps and does not look into workDir, whose files survive when the *)
(* volume does.                                                            *)
Restart ==
  /\ restarts < MaxRestarts
  /\ restarts' = restarts + 1
  /\ jobs' = [id \in JobIds |-> None]
  /\ cancels' = [id \in JobIds |-> None]
  /\ gauge' = 0
  /\ left' = [g \in Gathers |-> 0]
  /\ masked' = [g \in Gathers |-> FALSE]
  /\ pc' = [g \in Gathers |->
              IF pc[g] \in Live \cup {"admitted"} THEN "lost" ELSE pc[g]]
  /\ dl' = [d \in Downloads |->
              IF dl[d].pc = "path" THEN NoDownload ELSE dl[d]]
  /\ \/ UNCHANGED files
     \/ /\ data' = [id \in JobIds |-> {}]
        /\ wrap' = [id \in JobIds |-> {}]
        /\ disk' = [p \in Paths |-> NoFile]
  /\ UNCHANGED <<nativeGather, now, job, ctx>>

-----------------------------------------------------------------------------
(* Specification *)

Init ==
  /\ nativeGather \in BOOLEAN
  /\ now = 0
  /\ jobs = [id \in JobIds |-> None]
  /\ cancels = [id \in JobIds |-> None]
  /\ job = [g \in Gathers |-> NoJob]
  /\ ctx = [g \in Gathers |-> "none"]
  /\ pc = [g \in Gathers |-> "idle"]
  /\ left = [g \in Gathers |-> 0]
  /\ masked = [g \in Gathers |-> FALSE]
  /\ data = [id \in JobIds |-> {}]
  /\ wrap = [id \in JobIds |-> {}]
  /\ disk = [p \in Paths |-> NoFile]
  /\ gauge = 0
  /\ dl = [d \in Downloads |-> NoDownload]
  /\ restarts = 0

(* What the goroutine does on its own, and what waits for a command, the   *)
(* collector or the copy to end.                                           *)
Run(g) ==
  \/ MakeDir(g)
  \/ BeginStep(g)
  \/ HandleStepError(g)
  \/ FinishSteps(g)
  \/ Anonymize(g)
  \/ BeginArchive(g)
  \/ BeginCopy(g)
  \/ Complete(g)
  \/ Exit(g)

Return(g) ==
  \/ EndStep(g)
  \/ EndBackup(g)
  \/ EndArchive(g)
  \/ EndCopy(g)

(* What waits for a command that has no context.                           *)
ReturnUnbound(g) == FindMaster(g) \/ RemoveBackup(g)

(* What no done context brings about.                                      *)
Unbounded(g) == ReturnUnbound(g) \/ OverlongLine(g)

(* The bounds are used up and nothing is left to do: the server waits for  *)
(* requests that this model does not send.                                 *)
Quiescent ==
  /\ now = MaxNow
  /\ \A g \in Gathers : pc[g] \notin Live \ {"blocked"}
  /\ ExpiredIds = {}
  /\ \A d \in Downloads : dl[d].pc # "path"
  /\ UNCHANGED vars

Next ==
  \/ \E g \in Gathers :
       \/ RequestGather(g) \/ StartGather(g)
       \/ Run(g) \/ Return(g) \/ Unbounded(g)
       \/ DeadlineExpires(g)
  \/ \E id \in JobIds : StopJob(id)
  \/ \E d \in Downloads : ServeFile(d) \/ \E id \in JobIds : GetFilePath(d, id)
  \/ CleanupOldJobs
  \/ Tick
  \/ Restart
  \/ Quiescent

(* The goroutines, the timers, the clock and the sweep's ticker are        *)
(* scheduled; clients owe nothing.  Nothing says that a command ends by    *)
(* itself: only a done context makes it return, because the process is     *)
(* killed and every API request of the collector has a 30 s timeout.  A    *)
(* gather that is blocked on its pipe has nothing to wait for.             *)
Fairness ==
  /\ \A g \in Gathers :
       /\ WF_vars(Run(g))
       /\ WF_vars(ctx[g] # "none" /\ Return(g))
       /\ WF_vars(DeadlineExpires(g))
  /\ WF_vars(Tick)
  /\ WF_vars(CleanupOldJobs)

Spec == Init /\ [][Next]_vars /\ Fairness

(* The code does nothing to end the two commands without a context; that   *)
(* they end is an assumption about oc and the API server.                  *)
UnboundCommandsEnd == \A g \in Gathers : WF_vars(ReturnUnbound(g))
SpecWithOc == Spec /\ UnboundCommandsEnd

-----------------------------------------------------------------------------
(* Properties *)

TypeOK ==
  /\ nativeGather \in BOOLEAN
  /\ now \in 0 .. MaxNow
  /\ jobs \in [JobIds -> Gathers \cup {None}]
  /\ cancels \in [JobIds -> Gathers \cup {None}]
  /\ job \in [Gathers -> JobRecords]
  /\ ctx \in [Gathers -> {"none", "canceled", "deadline"}]
  /\ pc \in [Gathers -> PCs]
  /\ left \in [Gathers -> Nat]
  /\ masked \in [Gathers -> BOOLEAN]
  /\ data \in [JobIds -> SUBSET Gathers]
  /\ wrap \in [JobIds -> SUBSET Gathers]
  /\ disk \in [Paths -> Archives]
  /\ gauge \in Int
  /\ dl \in [Downloads -> Handlers]
  /\ restarts \in 0 .. MaxRestarts

(* The active-jobs gauge is the number of gather goroutines that have not  *)
(* returned, whichever way each of them leaves runGather.                  *)
GaugeCountsGoroutines == gauge = Cardinality({g \in Gathers : pc[g] \in Live})

(* A job that clients see as running can be stopped: its ID has a cancel   *)
(* function, and that function cancels this very gather.                   *)
RunningIsStoppable ==
  \A id \in JobIds :
    Listed(id) /\ job[jobs[id]].status = "running" => cancels[id] = jobs[id]

(* A job that clients see as complete has its archive on disk, finished,   *)
(* with nothing in it that another gather collected.                       *)
CompleteIsDownloadable ==
  \A id \in JobIds :
    Listed(id) /\ job[jobs[id]].status = "complete" =>
      /\ disk[Path(jobs[id])].state = "whole"
      /\ disk[Path(jobs[id])].from \subseteq {jobs[id]}

(* A download that races the retention sweep, a restart or another gather  *)
(* delivers the finished archive of the job it was granted for, or a 404.  *)
ServedWhole ==
  \A d \in Downloads :
    dl[d].pc = "served" /\ dl[d].file.state # "absent" =>
      dl[d].file.state = "whole" /\ dl[d].file.from \subseteq {dl[d].gather}

(* The sweep forgets no completed job without its archive: as long as the  *)
(* process lives, a completed job that is not listed has no file.          *)
ForgottenIsReclaimed ==
  restarts = 0 =>
    \A g \in Gathers :
      job[g].status = "complete" /\ jobs[job[g].id] # g =>
        disk[Path(g)].state = "absent"

(* A completed native gather leaves no wrapper directory and no collection *)
(* directory, whatever was renamed and renamed back before; an etcd backup *)
(* leaves its own directory, out of which the archive was renamed, and     *)
(* nothing of another gather in it.                                        *)
NativeCompleteIsTidy ==
  nativeGather =>
    \A g \in Gathers :
      job[g].status = "complete" =>
        /\ wrap[job[g].id] = {}
        /\ data[job[g].id] \subseteq (IF IsEtcd(g) THEN {g} ELSE {})

(* The manager keeps the promises of JobLifecycle, read off its structs,   *)
(* its map and what the download handlers have handed out.                 *)
Lifecycle == INSTANCE JobLifecycle WITH
  Jobs      <- Gathers,
  Retention <- JobRetention,
  status    <- [g \in Gathers |-> job[g].status],
  startedAt <- [g \in Gathers |-> job[g].startedAt],
  listed    <- {g \in Gathers : job[g].id # None /\ jobs[job[g].id] = g},
  delivered <- {g \in Gathers :
                  \E d \in Downloads : /\ dl[d].gather = g
                                       /\ dl[d].file.state = "whole"}

ImplementsLifecycle == Lifecycle!Spec

(* A job that has been started ends complete or failed, or the process is  *)
(* restarted under it: no command that a context bounds, no error and no   *)
(* number of steps keeps it running for ever.                              *)
EveryGatherEnds ==
  \A g \in Gathers :
    job[g].status = "running" ~> job[g].status # "running" \/ pc[g] = "lost"

(* A gather that a client has stopped ends.                                *)
StoppedGatherEnds ==
  \A g \in Gathers :
    ctx[g] = "canceled" ~> job[g].status # "running" \/ pc[g] = "lost"

(* The states of a gather in which a done context still decides its fate:  *)
(* the archive step reads the context last, an oc etcd backup when it      *)
(* starts the copy, a native one when it starts the backup.                *)
StillStoppable(g) ==
  pc[g] \in (IF ~IsEtcd(g) THEN Working \ {"finish"}
             ELSE IF nativeGather THEN {"mkdir", "step", "stepErr"}
             ELSE {"mkdir", "find", "step", "running", "copy"})

(* A gather that is stopped or times out before its archive is made ends   *)
(* failed: whatever the collector or the command returns, and however many *)
(* steps are left, it is never reported complete.                          *)
DoneContextFails ==
  \A g \in Gathers :
    (ctx[g] # "none" /\ StillStoppable(g)) ~>
      (job[g].status = "failed" \/ pc[g] = "lost")

(* Every job is forgotten in the end.                                      *)
EveryJobIsForgotten ==
  \A g \in Gathers :
    job[g].status # "none" ~> job[g].status # "none" /\ jobs[job[g].id] # g

(* handler.go:297 tells clients to wait when five jobs are active: there   *)
(* are never more.                                                         *)
ActiveJobsAreLimited == ActiveJobCount <= MaxActive

(* A job is reported as "Stopped by user" when somebody stopped it; a      *)
(* timeout has a text of its own (mustgather.go:561).                      *)
StoppedMeansStopped ==
  \A g \in Gathers : job[g].error = "stopped" => ctx[g] = "canceled"

(* An archive that is named "-anonymized" has been anonymized.             *)
AnonymizedNameIsTrue ==
  \A p \in Paths : p[2] /\ disk[p].state = "whole" => disk[p].masked

-----------------------------------------------------------------------------
(* The inductive invariant behind RunningIsStoppable,                      *)
(* CompleteIsDownloadable and ServedWhole when no two requests share an ID *)

(* A gather has a job ID from StartGather on, and no other gather has it.  *)
IdsIdentify ==
  /\ \A g \in Gathers :
       /\ pc[g] \in InHandler => job[g].id = None
       /\ pc[g] \in Live \cup {"done"} => job[g].id \in JobIds
       /\ job[g].id = None <=> job[g].status = "none"
  /\ \A g, h \in Gathers : job[g].id = job[h].id /\ job[g].id # None => g = h

(* Where a goroutine is and what its job says agree.                       *)
StatusMatchesPc ==
  \A g \in Gathers :
    /\ pc[g] \in Working => job[g].status = "running"
    /\ pc[g] \in {"exit", "done"} => job[g].status \in {"complete", "failed"}

(* The maps name the right gather, and every gather that works is in both. *)
MapsMatch ==
  /\ \A id \in JobIds :
       /\ jobs[id] # None =>
            job[jobs[id]].id = id /\ pc[jobs[id]] \in Live \cup {"done"}
       /\ cancels[id] # None =>
            job[cancels[id]].id = id /\ pc[cancels[id]] \in Live
  /\ \A g \in Gathers :
       /\ pc[g] \in Live => cancels[job[g].id] = g
       /\ pc[g] \in Working => jobs[job[g].id] = g

(* Directories and archives hold only what belongs under their names.      *)
ContentMatches ==
  /\ \A id \in JobIds : \A g \in data[id] \cup wrap[id] : job[g].id = id
  /\ \A p \in Paths : \A g \in disk[p].from : job[g].id = p[1]

(* How far the archive of each gather is.                                  *)
ArchiveMatches ==
  \A g \in Gathers :
    /\ pc[g] \in {"tarring", "copying"} => disk[Path(g)].state = "partial"
    /\ pc[g] \in {"remove", "finish"} => disk[Path(g)].state = "whole"
    /\ job[g].status = "complete" =>
         \/ disk[Path(g)].state = "whole"
         \/ disk[Path(g)].state = "absent" /\ jobs[job[g].id] # g

(* What a download handler holds.                                          *)
DownloadMatches ==
  \A d \in Downloads :
    /\ dl[d].pc # "idle" =>
         dl[d].gather \in Gathers /\ job[dl[d].gather].status = "complete"
    /\ dl[d].pc = "served" =>
         /\ dl[d].file.state \in {"absent", "whole"}
         /\ \A g \in dl[d].file.from : job[g].id = job[dl[d].gather].id

ManagerInv ==
  /\ IdsIdentify
  /\ StatusMatchesPc
  /\ MapsMatch
  /\ ContentMatches
  /\ ArchiveMatches
  /\ DownloadMatches
=============================================================================
