---------------------------- MODULE RemoteGather ----------------------------
(***************************************************************************)
(* Remote gathers on one managed cluster: the hub's side of                *)
(* internal/acm/acm.go (StartRemoteGather, the poller, retrieveArchive,    *)
(* DeleteJob) over the agent of GatherAgent and a network that loses       *)
(* requests and answers.                                                   *)
(*                                                                         *)
(* A task is a request that a client sends to the hub.  hub[t] is where    *)
(* its handler, and then its poller, is; the job it registers is listed    *)
(* while t \in jobs.  The hub's files are named by cluster and second: the *)
(* retrievals that begin in one second share a name.                       *)
(***************************************************************************)
EXTENDS GatherAgent

CONSTANTS
  Anonymized,        \* the tasks whose archive the hub has to anonymize
  MaxConsecErrors,   \* maxConsecErrors (60)
  Deadline,          \* gatherTimeout, in failed polls: a poll takes one or more
  MaxRestarts        \* bound: how often the agent and the hub may be restarted

ASSUME RemoteAssumption ==
  /\ Anonymized \subseteq Tasks
  /\ MaxConsecErrors \in Nat \ {0}
  /\ Deadline \in Nat \ {0}
  /\ MaxRestarts \in Nat

VARIABLES
  hub,            \* where each task's handler, and then poller, is
  jobs,           \* the tasks whose job is in c.jobs
  phase,          \* the Status of each task's job
  errors,         \* consecErrors of each poller
  since,          \* the last second in use when each job was registered, or 0
  waited,         \* how much of the deadline each poller has used up
  source,         \* what each poller's download request found on the agent
  stamp,          \* the second (ts) each retrieval names its file by, or 0
  named,          \* whether its path ends in "-anonymized.tar.gz"
  disk,           \* the files in c.workDir, by second and that ending
  agentRestarts,
  hubRestarts

poller == <<errors, waited, since, source>>
hubFiles == <<stamp, named, disk>>
hubVars == <<hub, jobs, phase, poller, hubFiles, hubRestarts>>
vars == <<agent, hubVars, agentRestarts>>

Retrieving == {"request", "open", "stream", "anonymize", "repack", "rename", "finish"}
HubStates == {"idle", "posted", "refused", "poll", "end", "lost"} \cup Retrieving
Phases == {"none", "gathering", "downloading", "anonymizing", "complete", "failed"}
Pending == {"gathering", "downloading", "anonymizing"}

(* path: the one read under the agent's lock; then the file that was       *)
(* opened, and what it was like.                                           *)
NoSource == [path |-> 0, file |-> None, was |-> NoArchive]
Sources == [path: Seconds \cup {0}, file: Tasks \cup {None}, was: Archives]

(* writers: who is writing it; data: whose output it may have; masked:     *)
(* FastAnonymize has returned without an error, which see in Anonymizer.   *)
NoFile == [state |-> "absent", data |-> {}, masked |-> FALSE, writers |-> {}]
Files == [state: FileStates, data: SUBSET Tasks, masked: BOOLEAN, writers: SUBSET Tasks]
Paths == Seconds \X BOOLEAN

Download(t) == <<stamp[t], FALSE>>
FilePath(t) == <<stamp[t], named[t]>>

Goto(t, from, to) == hub[t] = from /\ hub' = [hub EXCEPT ![t] = to]

(* setJobStatus: nothing happens to a job that is not listed.              *)
SetJobStatus(t, s) == phase' = IF t \in jobs THEN [phase EXCEPT ![t] = s] ELSE phase

FailJob(t, from) == Goto(t, from, "end") /\ SetJobStatus(t, "failed")

(* The polling loop is left: its counters go with it.                      *)
StopPolling(t) ==
  /\ errors' = [errors EXCEPT ![t] = 0]
  /\ waited' = [waited EXCEPT ![t] = 0]
  /\ since' = [since EXCEPT ![t] = 0]

-----------------------------------------------------------------------------
(* Starting: handleStartRemoteGather, StartRemoteGather *)

(* The POST leaves the hub; it is sent again when the pod is gone (404).   *)
PostGather(t) ==
  /\ Goto(t, "idle", "posted")
  /\ UNCHANGED <<agent, jobs, phase, poller, hubFiles, hubRestarts, agentRestarts>>

(* It arrives, perhaps after the hub has given up waiting for the answer.  *)
ReceiveGather(t) ==
  /\ hub[t] # "idle"
  /\ HandleGather(t) \/ AcceptGather(t)
  /\ UNCHANGED <<hubVars, agentRestarts>>

(* The agent refuses, or there is no answer: the client is told that the   *)
(* start failed, and no job is registered.                                 *)
PostFails(t) ==
  /\ Goto(t, "posted", "refused")
  /\ UNCHANGED <<agent, jobs, phase, poller, hubFiles, hubRestarts, agentRestarts>>

(* The agent's 202 arrives: the job is registered and its poller started,  *)
(* whose first tick comes five seconds later.                              *)
RegisterJob(t) ==
  /\ run[t] \notin {"none", "checked", "refused"}
  /\ Goto(t, "posted", "poll")
  /\ jobs' = jobs \cup {t}
  /\ phase' = [phase EXCEPT ![t] = "gathering"]
  /\ \E u \in Tasks :
       /\ \A v \in Tasks : stamp[v] <= stamp[u]
       /\ since' = [since EXCEPT ![t] = stamp[u]]
  /\ UNCHANGED <<agent, errors, waited, source, hubFiles, hubRestarts, agentRestarts>>

-----------------------------------------------------------------------------
(* pollAgentAndRetrieve *)

(* The deadline is looked at first at every tick.                          *)
PollTimedOut(t) ==
  /\ waited[t] = Deadline
  /\ FailJob(t, "poll")
  /\ StopPolling(t)
  /\ UNCHANGED <<agent, jobs, source, hubFiles, hubRestarts, agentRestarts>>

(* ts := time.Now() in retrieveArchive, after a tick.  (Bound: the clock   *)
(* stands still in the last second.)                                       *)
NameFile(t) ==
  \E s \in Now({stamp[u] : u \in Tasks}) :
    /\ s > since[t] \/ s = LastSecond
    /\ stamp' = [stamp EXCEPT ![t] = s]
    /\ since' = [since EXCEPT ![t] = 0]

(* A poll that succeeds resets the errors and extends the deadline.        *)
PollAnswered(t) ==
  /\ hub[t] = "poll"
  /\ waited[t] < Deadline
  /\ errors' = [errors EXCEPT ![t] = 0]
  /\ waited' = [waited EXCEPT ![t] = 0]
  /\ \/ status = "error" /\ FailJob(t, "poll")
     \/ status = "serving" /\ Goto(t, "poll", "request") /\ SetJobStatus(t, "downloading")
     \/ status \in {"idle", "gathering"} /\ UNCHANGED <<hub, phase>>
  /\ IF status = "serving" THEN NameFile(t) ELSE UNCHANGED <<since, stamp>>
  /\ UNCHANGED <<agent, jobs, source, named, disk, hubRestarts, agentRestarts>>

TimePasses(t) ==
  \E w \in waited[t] + 1 .. Deadline : waited' = [waited EXCEPT ![t] = w]

(* Wrong: one error more than maxConsecErrors.                             *)
PollFailedOnceMore(t) ==
  /\ hub[t] = "poll"
  /\ waited[t] < Deadline
  /\ IF errors[t] + 1 > MaxConsecErrors
       THEN FailJob(t, "poll") /\ StopPolling(t)
       ELSE /\ TimePasses(t)
            /\ errors' = [errors EXCEPT ![t] = @ + 1]
            /\ UNCHANGED <<hub, phase, since>>
  /\ UNCHANGED <<agent, jobs, source, hubFiles, hubRestarts, agentRestarts>>

(* An error, also a 404 after which the pod cannot be found again.         *)
PollFailed(t) ==
  /\ hub[t] = "poll"
  /\ waited[t] < Deadline
  /\ IF errors[t] + 1 >= MaxConsecErrors
       THEN FailJob(t, "poll") /\ StopPolling(t)
       ELSE /\ TimePasses(t)
            /\ errors' = [errors EXCEPT ![t] = @ + 1]
            /\ UNCHANGED <<hub, phase, since>>
  /\ UNCHANGED <<agent, jobs, source, hubFiles, hubRestarts, agentRestarts>>

(* Wrong: finding the pod again extends the deadline.                      *)
PollReconnectedInTime(t) ==
  /\ hub[t] = "poll"
  /\ errors' = [errors EXCEPT ![t] = 0]
  /\ waited' = [waited EXCEPT ![t] = 0]
  /\ UNCHANGED <<agent, hub, jobs, phase, since, source, hubFiles, hubRestarts, agentRestarts>>

(* A 404, and the pod is found again: the errors count from 0, the         *)
(* deadline stays.                                                         *)
PollReconnected(t) ==
  /\ hub[t] = "poll"
  /\ waited[t] < Deadline
  /\ TimePasses(t)
  /\ errors' = [errors EXCEPT ![t] = 0]
  /\ UNCHANGED <<agent, hub, jobs, phase, since, source, hubFiles, hubRestarts, agentRestarts>>

-----------------------------------------------------------------------------
(* retrieveArchive *)

(* os.Create: a file that is there is truncated, also while another        *)
(* retrieval writes it; what two have written is mixed, even where both    *)
(* wrote the same.                                                         *)
Create(t, f) ==
  [state   |-> IF f.writers = {} THEN "partial" ELSE "mixed",
   data    |-> {},
   masked  |-> FALSE,
   writers |-> f.writers \cup {t}]

(* The writing of t ends: the files it writes, whatever name they have by  *)
(* now, are as "content" says, unless another has written to them.         *)
Written(t, content(_)) ==
  [p \in Paths |->
     IF t \notin disk[p].writers THEN disk[p]
     ELSE [IF disk[p].state = "partial" THEN content(disk[p]) ELSE disk[p]
             EXCEPT !.writers = @ \ {t}]]

(* The agent's handleDownload takes the path under its lock ...            *)
RequestArchive(t) ==
  /\ Downloadable
  /\ Goto(t, "request", "open")
  /\ source' = [source EXCEPT ![t].path = archivePath]
  /\ UNCHANGED <<agent, jobs, phase, errors, waited, since, hubFiles, hubRestarts, agentRestarts>>

(* ... and opens the file, if there is one.  The hub creates its own.      *)
OpenArchive(t) ==
  LET i == entry[source[t].path] IN
  /\ Goto(t, "open", "stream")
  /\ i # None
  /\ source' = [source EXCEPT ![t] = [path |-> 0, file |-> i, was |-> archives[i]]]
  /\ disk' = [disk EXCEPT ![Download(t)] = Create(t, @)]
  /\ UNCHANGED <<agent, jobs, phase, errors, waited, since, stamp, named, hubRestarts, agentRestarts>>

(* No archive any more, or a failure of the network or of the hub's disk.  *)
RetrievalFails(t) ==
  /\ FailJob(t, "request") \/ FailJob(t, "open")
  /\ source' = [source EXCEPT ![t] = NoSource]
  /\ UNCHANGED <<agent, jobs, errors, waited, since, hubFiles, hubRestarts, agentRestarts>>

(* What a stream that ended without an error may have brought: the file as *)
(* it was when it was opened, removed since or not; but if another gather  *)
(* has truncated the file since, anything of both.                         *)
Streamed(t) ==
  LET was == source[t].was
      now == archives[source[t].file]
  IN IF now = was THEN {was}
     ELSE [state: FileStates \ {"absent"}, by: {now.by}, data: {was.data \cup now.data}]

(* Wrong: the error of io.Copy is not looked at.                           *)
EndDownloadIgnoringError(t) ==
  /\ Goto(t, "stream", "finish")
  /\ \E got \in Streamed(t), s \in FileStates \ {"absent"} :
       disk' = Written(t, LAMBDA f : [f EXCEPT !.state = s, !.data = got.data])
  /\ source' = [source EXCEPT ![t] = NoSource]
  /\ UNCHANGED <<agent, jobs, phase, errors, waited, since, stamp, named, hubRestarts, agentRestarts>>

(* io.Copy ends.  A job that has been deleted is not anonymized.  After an *)
(* error the file under the path is removed, whosever it is.               *)
EndDownload(t) ==
  /\ hub[t] = "stream"
  /\ \/ /\ \E got \in Streamed(t) :
             disk' = Written(t, LAMBDA f : [f EXCEPT !.state = got.state, !.data = got.data])
        /\ IF t \in jobs \cap Anonymized
             THEN Goto(t, "stream", "anonymize") /\ SetJobStatus(t, "anonymizing")
             ELSE Goto(t, "stream", "finish") /\ UNCHANGED phase
     \/ /\ disk' = [Written(t, LAMBDA f : f) EXCEPT ![Download(t)] = NoFile]
        /\ FailJob(t, "stream")
  /\ source' = [source EXCEPT ![t] = NoSource]
  /\ UNCHANGED <<agent, jobs, errors, waited, since, stamp, named, hubRestarts, agentRestarts>>

(* Everything that fails while a job is anonymized is logged, nothing else.*)
(* A failure to extract or to rewrite the data leaves the archive.         *)
AnonymizeFails(t) ==
  /\ Goto(t, "anonymize", "finish")
  /\ UNCHANGED <<agent, jobs, phase, poller, hubFiles, hubRestarts, agentRestarts>>

(* No other retrieval named its file in the second of t.                   *)
OwnStamp(t) == stamp[t] # 0 /\ \A u \in Tasks \ {t} : stamp[u] # stamp[t]

(* anonymizeArchive has extracted the archive and rewritten the data; then *)
(* the archive is removed and created again.  The directory it extracts to *)
(* has the name of the archive: another retrieval of that second may have  *)
(* put data there that is not rewritten.                                   *)
Repack(t) ==
  /\ Goto(t, "anonymize", "repack")
  /\ disk[Download(t)].state # "absent"
  /\ \E m \in IF OwnStamp(t) THEN {TRUE} ELSE BOOLEAN :
       disk' = [disk EXCEPT ![Download(t)] =
                  [Create(t, NoFile) EXCEPT !.data = disk[Download(t)].data, !.masked = m]]
  /\ UNCHANGED <<agent, jobs, phase, poller, stamp, named, hubRestarts, agentRestarts>>

(* Wrong: the error of createTarGz is not looked at.                       *)
EndRepackIgnoringError(t) ==
  /\ Goto(t, "repack", "rename")
  /\ \E s \in {"partial", "whole"} : disk' = Written(t, LAMBDA f : [f EXCEPT !.state = s])
  /\ UNCHANGED <<agent, jobs, phase, poller, stamp, named, hubRestarts, agentRestarts>>

(* createTarGz ends, also when it could not create its file.               *)
EndRepack(t) ==
  /\ \/ /\ disk' = Written(t, LAMBDA f : [f EXCEPT !.state = "whole"])
        /\ Goto(t, "repack", "rename")
     \/ /\ Goto(t, "repack", "finish")
        /\ disk' = Written(t, LAMBDA f : f) \/ disk' = Written(t, LAMBDA f : NoFile)
  /\ UNCHANGED <<agent, jobs, phase, poller, stamp, named, hubRestarts, agentRestarts>>

(* os.Rename, whose error is dropped, and the new path.  (It is taken to   *)
(* succeed, inside one directory, if the file is there.)                   *)
RenameArchive(t) ==
  /\ Goto(t, "rename", "finish")
  /\ named' = [named EXCEPT ![t] = TRUE]
  /\ disk' = IF disk[Download(t)].state = "absent" THEN disk
             ELSE [disk EXCEPT ![<<stamp[t], TRUE>>] = disk[Download(t)], ![Download(t)] = NoFile]
  /\ UNCHANGED <<agent, jobs, phase, poller, stamp, hubRestarts, agentRestarts>>

(* Wrong: the job is stored again instead of looked up.                    *)
FinishRetrievalAnyway(t) ==
  /\ Goto(t, "finish", "end")
  /\ jobs' = jobs \cup {t}
  /\ phase' = [phase EXCEPT ![t] = "complete"]
  /\ UNCHANGED <<agent, poller, hubFiles, hubRestarts, agentRestarts>>

(* The job becomes complete and learns the file's path, if it is listed.   *)
FinishRetrieval(t) ==
  /\ Goto(t, "finish", "end")
  /\ SetJobStatus(t, "complete")
  /\ UNCHANGED <<agent, jobs, poller, hubFiles, hubRestarts, agentRestarts>>

-----------------------------------------------------------------------------
(* DeleteJob: only a complete job has a file path.                         *)
DeleteJob(t) ==
  /\ t \in jobs
  /\ jobs' = jobs \ {t}
  /\ disk' = IF phase[t] = "complete" THEN [disk EXCEPT ![FilePath(t)] = NoFile] ELSE disk
  /\ UNCHANGED <<agent, hub, phase, poller, stamp, named, hubRestarts, agentRestarts>>

AgentRestarts ==
  /\ agentRestarts + hubRestarts < MaxRestarts
  /\ agentRestarts' = agentRestarts + 1
  /\ RestartAgent
  /\ UNCHANGED hubVars

(* NewClient starts from empty maps; the pollers are gone, the files stay. *)
HubRestarts ==
  /\ agentRestarts + hubRestarts < MaxRestarts
  /\ hubRestarts' = hubRestarts + 1
  /\ jobs' = {}
  /\ hub' = [t \in Tasks |->
               IF hub[t] \in {"posted", "poll"} \cup Retrieving THEN "lost" ELSE hub[t]]
  /\ errors' = [t \in Tasks |-> 0]
  /\ waited' = [t \in Tasks |-> 0]
  /\ since' = [t \in Tasks |-> 0]
  /\ source' = [t \in Tasks |-> NoSource]
  /\ disk' = [p \in Paths |-> [disk[p] EXCEPT !.writers = {}]]
  /\ UNCHANGED <<agent, phase, stamp, named, agentRestarts>>

-----------------------------------------------------------------------------
(* Specification *)

Init ==
  /\ AgentInit
  /\ hub = [t \in Tasks |-> "idle"]
  /\ jobs = {}
  /\ phase = [t \in Tasks |-> "none"]
  /\ errors = [t \in Tasks |-> 0]
  /\ waited = [t \in Tasks |-> 0]
  /\ since = [t \in Tasks |-> 0]
  /\ source = [t \in Tasks |-> NoSource]
  /\ stamp = [t \in Tasks |-> 0]
  /\ named = [t \in Tasks |-> FALSE]
  /\ disk = [p \in Paths |-> NoFile]
  /\ agentRestarts = 0
  /\ hubRestarts = 0

AgentWorks(t) == RunGather(t) /\ UNCHANGED <<hubVars, agentRestarts>>

CollectionEnds(t) == EndCollection(t) /\ UNCHANGED <<hubVars, agentRestarts>>

Poll(t) ==
  \/ PollTimedOut(t)
  \/ PollAnswered(t)
  \/ PollFailed(t)
  \/ PollReconnected(t)

Retrieve(t) ==
  \/ RequestArchive(t)
  \/ OpenArchive(t)
  \/ RetrievalFails(t)
  \/ EndDownload(t)
  \/ AnonymizeFails(t)
  \/ Repack(t)
  \/ EndRepack(t)
  \/ RenameArchive(t)
  \/ FinishRetrieval(t)

(* All tasks are dealt with: the hub waits for requests that this model    *)
(* does not send.                                                          *)
Quiescent ==
  /\ \A t \in Tasks : hub[t] \in {"refused", "end", "lost"}
  /\ UNCHANGED vars

Next ==
  \/ \E t \in Tasks :
       \/ PostGather(t) \/ ReceiveGather(t) \/ PostFails(t) \/ RegisterJob(t)
       \/ AgentWorks(t) \/ CollectionEnds(t)
       \/ Poll(t)
       \/ Retrieve(t)
       \/ DeleteJob(t)
  \/ AgentRestarts
  \/ HubRestarts
  \/ Quiescent

(* Goroutines and tickers are scheduled, a poll ends because the HTTP      *)
(* client has a timeout of 30 s, and a stream because its client has one   *)
(* of 30 minutes.  The network owes nothing: every poll may fail.          *)
Fairness ==
  \A t \in Tasks : WF_vars(AgentWorks(t)) /\ WF_vars(Poll(t)) /\ WF_vars(Retrieve(t))

Spec == Init /\ [][Next]_vars /\ Fairness

(* The agent collects under context.Background, and a command that it      *)
(* executes in a pod has no timeout: that every collection ends is an      *)
(* assumption on these commands, not a consequence of the code.            *)
SpecWithCollections == Spec /\ \A t \in Tasks : WF_vars(CollectionEnds(t))

-----------------------------------------------------------------------------
(* Properties *)

(* The type invariant, with the agent's: no poller goes on once it counts   *)
(* maxConsecErrors.                                                        *)
TypeOK ==
  /\ AgentTypeOK
  /\ hub \in [Tasks -> HubStates]
  /\ jobs \subseteq Tasks
  /\ phase \in [Tasks -> Phases]
  /\ errors \in [Tasks -> 0 .. MaxConsecErrors - 1]
  /\ waited \in [Tasks -> 0 .. Deadline]
  /\ since \in [Tasks -> Seconds \cup {0}]
  /\ source \in [Tasks -> Sources]
  /\ stamp \in [Tasks -> Seconds \cup {0}]
  /\ named \in [Tasks -> BOOLEAN]
  /\ disk \in [Paths -> Files]
  /\ agentRestarts \in Nat /\ hubRestarts \in Nat
  /\ agentRestarts + hubRestarts <= MaxRestarts

RemoteJobs == INSTANCE RemoteLifecycle WITH listed <- jobs

(* However the agent, the network, a deletion and a restart interfere, the *)
(* hub's job is registered once, moves only forward while it is listed,    *)
(* cannot fail any more once it is being anonymized, and never comes back. *)
ImplementsRemoteLifecycle == RemoteJobs!Spec

(* A job that is complete and was not to be anonymized has a file, if no   *)
(* other retrieval named its file in the same second; and if the gather it *)
(* is from did not share its second on the agent either, the file is the   *)
(* archive of that gather, which ended, copied to its end: the agent may   *)
(* remove its archive while it is copied, but what it streams is one       *)
(* archive.  (In a shared second one retrieval truncates, removes or       *)
(* renames the file of the other: see CompleteHasFile.)                    *)
CompleteIsCopied ==
  \A t \in jobs \ Anonymized : phase[t] = "complete" /\ OwnStamp(t) =>
    LET f == disk[FilePath(t)] IN
    /\ f.state # "absent"
    /\ f.data # {}
    /\ \A g \in f.data : OwnSecond(g) =>
         f.state = "whole" /\ f.data = {g} /\ run[g] = "done"

(* A file named "-anonymized" holds masked data and nothing less than an   *)
(* archive, whichever step of anonymizeArchive fails, if one retrieval     *)
(* named it.                                                               *)
NamedAnonymizedIsMasked ==
  \A t \in Tasks : OwnStamp(t) =>
    LET f == disk[<<stamp[t], TRUE>>] IN
    f.state # "absent" => f.masked /\ f.state = "whole"

IsPending(t) == t \in jobs /\ phase[t] \in Pending

(* With an agent that is not restarted and whose collections end, every    *)
(* job ends, whatever the other requests do to the agent's status and      *)
(* whatever the network does: errors and reconnections use up the          *)
(* deadline, which only answers extend.                                    *)
RemoteJobEnds ==
  \A t \in Tasks : IsPending(t) ~> (~IsPending(t) \/ agentRestarts > 0)

(* The timeout that pollAgentAndRetrieve announces: every job ends.        *)
RemoteJobEndsAnyway == \A t \in Tasks : IsPending(t) ~> ~IsPending(t)

(* "RemoteGatherJob tracks a must-gather": a complete job has the output   *)
(* of the gather it started.                                               *)
CompleteHasOwnArchive ==
  \A t \in jobs \ Anonymized :
    phase[t] = "complete" /\ OwnStamp(t) => t \in disk[FilePath(t)].data

(* "GetFilePath returns the file path for a completed remote gather job":  *)
(* there is a file under the path of a complete job.                       *)
CompleteHasFile ==
  \A t \in jobs \ Anonymized :
    phase[t] = "complete" => disk[FilePath(t)].state # "absent"

(* "DeleteJob deletes a remote gather job and its local file": when the    *)
(* poller of a job that was deleted has ended, there is no file.           *)
DeletedLeavesNoFile ==
  \A t \in Tasks \ jobs :
    phase[t] # "none" /\ hub[t] = "end" /\ OwnStamp(t) /\ hubRestarts = 0 =>
      disk[FilePath(t)].state = "absent"
=============================================================================
