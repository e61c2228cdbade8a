# TLA+ models of OCP Support Web

This directory holds the verification project of the repository: TLA+ modules
translated from the Go source, TLC configurations that check them on small
instances, and theorems that TLAPS proves for every instance. The source is the
reference; every definition that models code is listed with its lines in
`PROJECT.json` ("map").

Run a check with `tlc -config <cfg> <module>`, a proof with `tlapm <module>.tla`.

## 1. The system and its parts

| Component | Source (`src/`) | State | Operations | Interacts with |
|---|---|---|---|---|
| Gather job manager | `internal/mustgather/mustgather.go` | maps `jobs`, `cancels` under `m.mu`; one `Job` struct and one context per gather; working directories and archives in `workDir`; detected operators, images | `StartGather`, `StopJob`, `GetJob`, `ListJobs`, `ActiveJobCount`, `GetFilePath`, the goroutine `runGather` (native or `oc`), the retention sweep | called by the HTTP handlers and the sweep's ticker; runs `oc` and `tar`, or the collector |
| Gather handlers | `internal/handler/handler.go` | none | start (with the job limit), status, stop, download | call the manager; several run at once |
| etcd diagnostics | same two files | map `diagJobs` under `diagMu` | `StartDiag`, `GetDiagJob`, `runDiag` | `oc exec` into an etcd pod |
| Anonymizer | `mustgather.go` (`FastAnonymize`, ...) | none | rewrites the files of a directory in place | called by the manager and by the hub |
| Hub side of remote gathers | `internal/acm/acm.go`, `internal/handler/acm_handlers.go` | maps `jobs`, `agents`, `accessCache` under `c.mu`, archives | `StartRemoteGather`, the poller `pollAgentAndRetrieve`, `retrieveArchive`, `DeleteJob`, deploy/remove/redeploy | reads and posts to the agent through the pod proxy |
| Agent | `internal/agent/agent.go` | one `status`, one `archivePath`, one log under `a.mu`; files | `/gather`, `/status`, `/download`; the goroutine `runGather` | runs the collector; polled by the hub |
| Agent deployment and access | `internal/acm/acm.go` | the ManifestWork on the hub; `accessCache` under `c.mu` | `DeployAgent`, `RemoveAgent`, `RedeployAgent`, `getAgentAccess`, `proxyAgentGetRaw` | the hub's API server, the work agent of the managed cluster, the agent's pod |
| Gather definitions | `internal/collector/config.go`, `engine.go` | none | the table, `getDefinition`, `mergeDefinitions`, `loadDefinitions`, `buildCustomDefinition` | read by the collector; extended by ConfigMaps |
| Collector | `internal/collector/*.go` | none across runs; debug pods and backup directories on nodes | `Run`, `RunEtcdBackup` | the Kubernetes API with 30 s requests |
| Standalone gather | `internal/gather/gather.go` | none | one sequential run | the collector |
| Resource browser | `internal/handler/resource_handlers.go` | a discovery cache of five minutes | discovery, listing, YAML | the Kubernetes API |
| Cluster status | `internal/status/status.go` | under its lock, the last list of Argo CD applications and since when each is out of sync | a polling goroutine, `GetArgoApps`, `DeleteArgoApp`, `SyncArgoApp`; read-only reports | the Kubernetes API, Argo CD |
| Monitoring | `internal/monitoring` | none | read-only reports | Thanos |
| Metrics | `internal/metrics` | counters, one gauge | written by the others | - |
| Wiring, configuration, web pages | `main.go`, `internal/config`, `web/` | - | - | poll and call the handlers |

What is hard here is concurrency around plain mutexes: handlers check, let the
lock go and act; goroutines read a context before and after a command; a single
status variable on an agent serves several jobs of the hub; archives are written
under names made from a clock; work in progress is lost in a restart but its
files are not. What makes each part correct:

* manager: every started gather ends, a stopped one ends failed, a complete one
  has a whole archive of its own data, a download gets that archive or a 404,
  the sweep forgets neither running jobs nor archives it leaves behind, the
  gauge counts goroutines exactly;
* agent and hub: the agent is busy only while it gathers and serves only whole
  archives, a remote job moves only forward, one that is not to be anonymized has a
  whole archive when it is complete, every remote job ends. (Gathers and retrievals
  that share a second, and so their names, are exempt: in one the archive may be
  mixed, partial or gone. A failed anonymization may leave a complete job without a
  file. That a job is complete only with the archive it asked for, and that a deleted
  one leaves nothing behind, is not so: sections 3 and 4.)
* agent deployment: of overlapping deployments that have read the image annotation
  none brings an older image back, a replaced pod is not noticed by a caller, a
  token that is no longer accepted is not used for ever. (That a redeployed agent
  is deployed, and that an agent keeps the image its annotation names, is not so.)
* collector: what is collected is what the selection says, each failure can be
  read about, no debug pod outlives the work on its node, a stop ends it. (That a
  complete etcd backup holds a snapshot is not so.)
* anonymizer: when the log says that the obfuscation is complete, every name,
  address and domain is replaced by its own mask, every secret too except in files
  that could not be read, parsed or put together again, and each file is under its
  renamed path. (That two nodes stay apart, and that secrets are redacted when
  nothing else was asked for, is not so.)
* Argo CD applications: the time out of sync is counted without a break, starts
  anew after a deletion, and reaches the error limit if the drift lasts.

`PROJECT.json` lists the hazards at their lines and the properties that cover
them; those without a property, or with one that does not hold, say why.

## 2. Modules

| Module | Models |
|---|---|
| `JobLifecycle` | What the manager promises about jobs, with no goroutines, files or contexts: a job is accepted once, ends once as complete or failed, is forgotten by the sweep only when it has ended and is older than the retention, or by a restart; only the archive of a listed, complete job is delivered. |
| `GatherManager` | The manager and its handlers. Refines `JobLifecycle`. |
| `MCGatherManager` | Sets of requests and symmetry for TLC. |
| `GatherManagerProofs` | Type correctness and the gauge, by TLAPS. |
| `GatherArchiveProofs` | The inductive invariant and three of the safety properties, by TLAPS. |
| `GatherLifecycleProofs` | The life of a job, from the same invariant: what a gather leaves behind, and that the manager implements `JobLifecycle`. |
| `RemoteLifecycle` | What the hub promises about remote jobs, with no agent, network or files: a job is registered once, moves forward while it is listed, cannot fail once it is being anonymized, and never comes back. |
| `GatherAgent` | The agent: requests to gather and the goroutines they lead to, one status, one archive path. |
| `RemoteGather` | The hub's remote gathers over `GatherAgent` and an unreliable network. Refines `RemoteLifecycle`. |
| `MCRemoteGather` | The tasks for TLC. |
| `RemoteGatherProofs` | Inductive invariant, safety properties and refinement of `RemoteGather`, by TLAPS. |
| `AgentAccess` | The deployment of the agent as a ManifestWork and the calls to it: what `RemoteGather` takes for granted below its requests. |
| `MCAgentAccess`, `AgentAccessProofs` | Its instance for TLC; inductive invariant and safety properties, by TLAPS. |
| `GatherDefinitions` | The table of definitions, the ConfigMaps, and what one run loads. Pure operators. |
| `Collector` | The engine that goes through the definitions, the debug pods, the etcd backup: what is inside the steps `running` of `GatherManager` (native) and `collecting` of `GatherAgent`. |
| `MCCollector`, `CollectorProofs` | The requests for TLC; types, the safety of debug pods, the reporting of failures and the coverage of what was asked for, by TLAPS. |
| `Anonymizer` | `FastAnonymize` on gathered data, called by manager and hub: what is inside `anonymize` of `GatherManager` and `RemoteGather`. |
| `MCAnonymizer`, `AnonymizerProofs` | Clusters, domains and options for TLC; types, distinct pseudonyms, what becomes of each text and each path, by TLAPS. |
| `ArgoWatch` | The polled list of Argo CD applications and the time each has been out of sync. |
| `MCArgoWatch`, `ArgoWatchProofs` | Its instance for TLC; type correctness and two safety properties, by TLAPS. |

### GatherManager: correspondence with the code

A gather `g` is a start request and the goroutine it leads to. `job[g]` is the
`Job` struct the goroutine holds a pointer to, `jobs` and `cancels` are the maps
of the manager, so that a struct that no map lists any more (forgotten, or
overwritten by a job with the same ID) still exists. `ctx[g]` is `ctx.Err()`.
A job ID is a type and a reading of the clock, as in the code. `data`, `wrap`
and `disk` say which gathers have made or filled `workDir/<id>` and
`must-gather.local.<id>`, whose output is in each archive, and whether the archive
is absent, partial, whole or mixed (two writers). `MakeDir` makes `workDir/<id>`
for every kind of gather; of an etcd backup only the tar is renamed out of it
(`EndBackup`, `mustgather.go:1118`), so there it stays. `dl` are the download
handlers between `GetFilePath` and `ServeFile`.

`pc[g]` marks the places where the code gives up the mutex, waits, or looks at
its context:

| `pc` | Place | Actions that leave it |
|---|---|---|
| `idle`, `admitted` | `handleStartGather` before and after the limit check | `RequestGather`, `StartGather` |
| `mkdir` | `os.MkdirAll` | `MakeDir` |
| `find` | oc etcd backup: `oc get nodes`, without a context | `FindMaster` |
| `step` | head of the loop over commands or types | `BeginStep`, `FinishSteps` |
| `running` | a command, the collector or the backup is under way | `EndStep`, `EndBackup`, `OverlongLine` |
| `blocked` | `cmd.Wait` waits for a pipe nobody reads | none |
| `stepErr` | the error branch, before it looks at the context | `HandleStepError` |
| `anonymize` | `FastAnonymize` | `Anonymize` |
| `archive`, `tarring` | before and during `tar` | `BeginArchive`, `EndArchive` |
| `copy`, `copying`, `remove` | the copy of an oc etcd backup and its removal from the node | `BeginCopy`, `EndCopy`, `RemoveBackup` |
| `finish` | the critical section that sets "complete" | `Complete` |
| `exit` | the deferred calls | `Exit` |

`StopJob`, `DeadlineExpires`, `CleanupOldJobs`, `GetFilePath`, `ServeFile`,
`Restart` and `Tick` happen at any time. `nativeGather` is chosen once per
behaviour, so each run covers both modes. Job types that are collected by one
command are one type ("default"); the others differ in their steps and error
handling. Logs, step labels, warnings and file formats are left out.

### GatherAgent and RemoteGather: correspondence with the code

A task `t` is one request of a client to gather on a managed cluster. `run[t]` is
where its handler, then its goroutine, is on the agent; `hub[t]` where the hub's
handler, then the poller with `retrieveArchive`, is. `status` and `archivePath`
are the agent's only ones, shared by all tasks; that is what makes it hard.

| `run` | Place in `agent.go` | Actions that leave it |
|---|---|---|
| `none`, `checked` | `handleGather` before the status check, and between it and `go runGather` | `HandleGather`, `AcceptGather` |
| `accepted` | the goroutine has not run yet: the status is still the old one | `BeginGather` |
| `begun` | between the first critical section and `time.Now()` | `NameGather` |
| `collecting` | the collector | `EndCollection` |
| `archiving`, `tarring` | `createTarGz` before and after its `os.Create` | `OpenArchiveFile`, `CloseArchive` |
| `publish` | the last critical section | `Publish` |

| `hub` | Place in `acm.go` | Actions that leave it |
|---|---|---|
| `idle`, `posted` | `StartRemoteGather` before and during the POST | `PostGather`, `PostFails`, `RegisterJob` |
| `poll` | the polling loop | `PollTimedOut`, `PollAnswered`, `PollFailed`, `PollReconnected` |
| `request`, `open` | the download request, on the agent before and after `handleDownload` lets its lock go | `RequestArchive`, `OpenArchive`, `RetrievalFails` |
| `stream` | `io.Copy` | `EndDownload` |
| `anonymize` | `anonymizeArchive` until it removes and creates the archive again | `AnonymizeFails`, `Repack` |
| `repack` | its `createTarGz` | `EndRepack` |
| `rename` | before `os.Rename` to "-anonymized" | `RenameArchive` |
| `finish` | before the last critical section | `FinishRetrieval` |

A POST whose answer is lost (`PostFails`) may still arrive (`ReceiveGather`): the
hub has no job then and the agent gathers. A poll reads the agent's status and
acts on the job in one step; every later read of the agent is a step of its own.
`DeleteJob` does not stop the poller: its later steps find no job. A restart of
the agent loses status, goroutines and files; one of the hub loses jobs and
pollers and keeps files. Pod names and the access cache are in
`AgentAccess`: here a 404 leads to `PollReconnected` or counts as `PollFailed`.

Names are made from seconds, on the agent (`agent.go:285`) and on the hub
(`acm.go:775`), and what is named in one second shares its name. `name[t]` is the
second of gather `t`, `dir[s]` whose output is in the directory of second `s`;
`stamp[t]` is the second of the retrieval, `named[t]` whether its path ends in
"-anonymized". Files are those of a Unix file system. On the agent `entry[s]` is the
file under the archive name of second `s`, `archives` are the files: `os.Create` on
a name that is taken truncates the file that has it, also while another gather writes
it or a download reads it (`by` are its writers, `data` whose output it may hold,
"mixed" what two have written), and a file that is removed is read to its end by a
download that has it open (`source`). On the hub `disk` has the files by second and
ending; one retrieval may truncate, rename or remove the file of another. A gather's
directory that another one has removed is made again by the collector.

Gathers that both passed the status check need not be named in one second: the agent
reads the request's body between the check and the goroutine (`agent.go:219`), and a
slow body lets a second gather begin while the first collects, under another name.
On the hub a job that is registered is first polled five seconds later: `since`
is the last second in use when it was registered, and `NameFile` takes a later one.

### AgentAccess: correspondence with the code

`work` is the ManifestWork (`agentStatus` and `DeployAgent` read it, `PUT`, `POST`
and `DELETE` change it), with the resource version the API server gives each
write; `born` names the life of a work, and so the token that its secret holds;
`read` is set when the image annotation decided on its image, and not when the
annotation could not be read and the global image was taken; `asOf` is the newest
version of the annotation that has decided on an image of this work. A handler is one request to `handleDeployAgent`, `handleRemoveAgent` or
`handleRedeployAgent`:

| `handler.pc` | Place in `acm.go` | Action that leaves it |
|---|---|---|
| `delete`, `forget` | `RemoveAgent`: the DELETE, the critical section | `DeleteWork`, `ForgetAgent` |
| `wait` | the loop of `RedeployAgent` | `PollDeletion` |
| `get`, `image`, `write` | `DeployAgent`: the GET, `clusterAgentImage`, PUT or POST | `GetWork`, `ChooseImage`, `WriteWork` |

| `call.pc` | Place in `acm.go` | Actions that leave it |
|---|---|---|
| `lookup` | the first critical section of `getAgentAccess` | `Cached`, `NotCached` |
| `token`, `pod`, `store` | `getAgentToken`, `findAgentPod`, the second critical section | `ReadToken`, `NoToken`; `FindPod`, `NoPod`; `StoreAccess` |
| `proxy` | the request of `proxyAgentGetRaw` | `Answered`, `Invalidate`, `Refused` |
| `error` | its return | `ReturnError` |

`RequestFails` is a request without an answer. The work agent, the deployment
controller and the owner of the annotation are the external actions. The map
`agents` is left out: only `EnsureAgents` would act on it, and nothing calls that.

### GatherDefinitions and Collector: correspondence with the code

A definition maps the five stages of `Engine.Run` to the specs of each, by what
the engine treats differently; specs of a stage that are alike are one spec. A
collector `c` is the goroutine of a gather `g` or a backup `b`.

| `at[g]` | Place | Actions that leave it |
|---|---|---|
| `load` | the loop over types (`mustgather.go`, `agent.go`, `gather.go`), `loadDefinitions` | `Load`, `RunFails`, `GiveUp`, `EndGather` |
| `definition` | the loop over definitions in `engine.go`, the error log | `StartDefinition`, `EndRun`, `GiveUp` |
| `stage` | the loop over the specs of a stage | `Collect`, `CollectFails`, `SkipExec`, `StartExec`, `ListNodes`, `ListNodesFails`, `LeaveStage`, `NextStage`, `EndDefinition` |
| `tools`, `tools wait` | `ensureCephToolsIfNeeded` | `ensureCephTools`, `CephToolsWaitEnds` |
| `exec` | `execInPod` of a pod command | `ExecEnds`, `ExecCancelled` |
| `nodes` | the loop over the nodes of a group | `CreateOnNode`, `EndGroup` |
| `wait`, `commands`, `command` | `waitForPod`, the loop over commands, `execInPod` | `NodeReady`, `NodeNotReady`; `StartCommand`, `LeaveNode`; `CommandEnds`, `CommandCancelled` |

| `at[b]` | Place in `RunEtcdBackup` | Actions that leave it |
|---|---|---|
| `find`, `create`, `wait` | `findMasterNode`, `createDebugPod`, `waitForPod` | `findMasterNode`, `CreateOnMaster`, `MasterReady`, `MasterNotReady` |
| `script`, `copy`, `cleanup` | the three commands in the pod | `ScriptEnds`, `ScriptFails`; `CopyEnds`, `CopyFails`; `CleanUpEnds`; `BackupCancelled` |

`holds[c]` is the pod a collector has to delete, `lost` are pods whose POST or
DELETE was not answered. `work[g]` is where the gather is, `result[g]` what it
has gone through, in which runs something failed, and whose errors are on disk.

### Anonymizer: correspondence with the code

One behaviour is one call. Texts are sequences of tokens, so that a name can be
part of another name, of a domain or of a path; the gathered files hold atoms of
each kind (`Everything`). The passes come in the order of the code: `MapNodes`
(the list of nodes, sorted by length), `RenamePath` (one `os.Rename` per path,
the longest first), `MaskNames`, `MaskPatterns`, `Redact`. The hub first lists
the nodes for its log (`ListForLog`) and extracts the archive (`Extract`). Each
pass may fail after any part of the files. `redactBase64Values` leaves a file that
it cannot read, parse or marshal as it is and goes on as if nothing had happened:
`skipped` remembers such files. `log` has "complete" for the lines "Obfuscation
complete." of the manager and "Anonymization complete" of the hub; "step" is the
line "=== Anonymizing data complete ===", which a gather with `oc` writes after a
failure, too (`mustgather.go:900`). `Substitute` is what
`strings.ReplaceAll` and `s///g` do, from left to right on what is there;
`ReplaceInTurn` does it for each name, on what the names before it left. What is
promised, `Masked`, knows nothing of passes: it puts the pseudonym or the mask of
each atom (`Stand`) together. `NamesStandOut` and `DomainStandsOut` say of the
inputs what the promise rests on: a node's name is not part of a pseudonym, of a
domain or of another kind of data (it may be part of another node's name), and a
form of the domain is found only at the end of names and domains. TLC evaluates
both for every input of the run `anonymizer` (`InputsStandOut` in
`MCAnonymizer`). The names of `merged_nodes` (`worker-0`, `worker-1`) do not
stand out: `worker-1` is also the pseudonym of `worker-0`.

### ArgoWatch: correspondence with the code

`since` is `outOfSyncSince`, as ages; `shown` is `lastArgoApps`; `poll` is
`pollArgo` between its request (`FetchArgoApps`) and its critical section
(`StorePoll`); `deleting` are the calls of `DeleteArgoApp` between the DELETE
(`DeleteApp`) and its critical section (`ForgetApp`). `sampled` and `forgotten`
are history.

### Bounds

* `Gathers`, `Downloads`: two gathers show every conflict the code has, since a
  conflict needs two owners of an ID, a path, a map entry or the limit; one
  download handler is enough because handlers do not write.
* `MaxSteps = 2`: the last step and one that is not; `oc` "multi" also has the
  empty loop.
* `GatherTimeout = 1`, `JobRetention = 2`, `LastStart`, `MaxNow`: the clock
  reaches the timeout, the age that is exactly the retention (not swept: the
  comparison is strict), and one tick more (swept). The last start bounds the
  clock.
* `MaxRestarts = 1`: one restart, at any moment, with or without the volume.
* `SameMillisecond`: whether two requests of one type may read the same clock
  value. FALSE in the runs; section 4 says what TRUE does.
* `LongLines`: whether `oc` may write a line of more than 1 MiB. TRUE in the
  safety run, FALSE for liveness; section 4 says why.
* `MaxActive` is the code's constant 5, taken smaller.
* `Tasks`: two, because a conflict over status and archive needs two gathers; one
  of them is to be anonymized.
* `LastSecond = 2`: two gathers, and two retrievals, are in one second or in two.
  Only whether two readings of a clock are the same matters, so `Now` numbers the
  seconds as they are used and leaves out those in which nothing is named. In the
  last second the clock stands still: a job that is registered then gets the same
  second, where the code has a later one, which only adds collisions. In
  `remote_liveness` there is one second, since no guard depends on it.
* `MaxConsecErrors = 2` (60 in the code) in `remote_liveness`: one error is put up
  with, one is not. `Deadline = 2`: the deadline in units of the shortest failed
  poll; a poll may use up any part of what is left, so both orders of deadline and
  error limit occur.
* `MaxConsecErrors = 1`, `Deadline = 1` in `remote_gather`: the first failed poll
  ends the job, the first reconnection uses up the deadline. What a poller has
  counted says only when it gives up, and it may give up at any poll.
* `MaxRestarts = 1` in `remote_gather`: one restart of the agent or of the hub, at
  any moment. In `remote_liveness` there is none, since `RemoteJobEnds` claims
  nothing about an agent that was restarted, and a restart of the hub forgets its jobs.
* `AgentAccess`: two handlers, because a conflict over the work needs two; one
  browser, whose calls follow each other, since what disturbs a call is the
  handlers. `MaxPods = 2`: a pod and its replacement. `MaxDeletionPolls = 1` (30)
  and `MaxTokenPolls = 1` (15): a poll that finds something and a last one that
  does not.
* `Collector`: one gather and one backup, which share nothing but the names of
  pods; two nodes of which one is a master, so that a group is left after its
  first node and after its last. The seven requests cover each mode, each shape of
  definition, each ConfigMap (none, one that extends a built-in definition, one
  that would be the only one and is missing), a type that is named twice and
  "custom" among several types. Two pods: one for each collector, or one of them
  lost. `MaxLost = 1`: an unanswered call at any place.
* `Anonymizer`: node lists of two and three, with names that contain each other
  and names that contain the domain; the hub's directory named after a cluster or
  like a node; a domain with and without "apps.", and none.
* `ArgoWatch`: one application, since the code treats each by itself; ages up to
  one more than the limit of 2.

### Fairness

`Spec` gives weak fairness to what the Go runtime schedules (the goroutine's own
steps, the timer of the context, the sweep's ticker, the clock) and to the end
of a command, the collector or the copy only once the context is done, because
then the process is killed and because each request of the collector is limited
to 30 s by the HTTP client. Nothing is assumed of a command whose context is not
done, of clients, or of restarts. `SpecWithOc` adds that the two `oc` commands
without a context end; without it `EveryGatherEnds` does not hold (section 4).

In `RemoteGather`, `Spec` gives weak fairness to the agent's goroutine outside
the collector, to the poller's ticker and to the retrieval: a poll is bounded by
the 30 s of the HTTP client, a stream by the 30 minutes of its own. Nothing is
assumed of the network (a poll may always fail, an answer always be lost), of
clients or of restarts. `SpecWithCollections` adds that a collection on the agent
ends. The code does not guarantee this: the agent collects under
`context.Background()`, and a command it executes in a pod has no timeout.

`AgentAccess` has weak fairness for the expiry of the cached access and for each
call, whose requests end after 30 s and whose loops have a last round; none for
handlers or clusters. `Collector` has it for each call of the API server and for
the end of a cancelled command, none for a command that is not cancelled.
`ArgoWatch` has it for the clock, the polling goroutine and the requests to
delete; that a poll succeeds again and again is an assumption on the API server.

## 3. Runs

| Run | Expect | Question |
|---|---|---|
| `manager_safety` | pass | Two gathers ("multi" with anonymization, an etcd backup), a download, a sweep, a restart, in both modes: types, exact gauge, running jobs can be stopped, complete jobs have a whole archive of their own, downloads get it or a 404, forgotten jobs have no archive, native leaves no directories but an etcd backup's own, and `JobLifecycle` is implemented. |
| `manager_liveness` | pass | One gather of every type: it ends, a done context fails it as long as the code still looks at it, it is forgotten. |
| `remote_gather` | pass | Two remote gathers on one cluster, one to be anonymized, named in one second or in two, with lost requests and answers, deletions, a restart of agent or hub: the agent is busy only while it gathers; it serves a whole archive of one gather, a complete job that is not to be anonymized has one and a file named "-anonymized" is masked and whole, unless two gathers or two retrievals shared a second; `RemoteLifecycle` is implemented. |
| `remote_liveness` | pass | The same with errors, reconnections and deadlines in any mixture, without restarts: every job ends, if the collections on the agent do. |
| `remote_own_archive` | violation | A job is complete with the archive of another gather: no answer of the agent says whose it is. |
| `agent_access` | pass | Two requests that deploy, remove or redeploy, and calls to the agent, while pods are replaced and images change: while a work lives no deployment that has read the annotation replaces an image by an older one, a call that only a replaced pod disturbs succeeds, and a stale token is used for ten minutes at most. |
| `redeploy_vanishes` | violation | The agent is redeployed with success onto a work that is still being deleted, and then is gone. |
| `collector` | pass | A gather in each mode beside an etcd backup, with failing and unanswered calls and a stop anywhere: every debug pod is deleted unless a call was not answered, failures can be read unless the error log could not be written or a later run wrote over it, a complete gather has gone through every definition asked for exactly once, and a stop ends it. |
| `failed_backup` | violation | The backup script fails and the backup is complete. |
| `anonymizer` | pass | Data of several clusters, manager and hub, every order the sorting leaves open, every failing pass: no two nodes have one pseudonym, and when the log says that the obfuscation is complete the data is masked and renamed exactly as asked, but for the secrets of files that the redaction has silently left out. |
| `merged_nodes` | violation | Two nodes whose names look like pseudonyms are merged into one. |
| `argo_watch` | pass | An application drifts, is deleted and returns, while polls and deletions interleave: its time out of sync is neither too long nor lost, and it disappears when it is gone. |

Every property of a passing run has a mutant: a wrong variant of one definition,
defined beside it and marked "Wrong:", with which TLC finds the property
violated. Runs with `CHECK_DEADLOCK FALSE` are those of systems that may stop:
all gathers are over, an anonymization has ended, no request is made any more.

## 4. Properties that do not hold and have no run

These state what a text of the repository says and the code does not do. They are
defined in the modules; naming one in a configuration with the given constants
shows the counterexample.

| Property | Where | Constants | What happens |
|---|---|---|---|
| `ActiveJobsAreLimited` | `MCGatherManager` | two gathers, `MaxActive = 1` | `handler.go:296` checks the limit of five jobs ("too many active jobs, please wait for existing jobs to complete") and acts after the lock was free: two requests pass. |
| `StoppedMeansStopped` | `MCGatherManager` | two gathers | Every error with a done context is "Stopped by user" (`mustgather.go:867`), also a timeout. |
| `RunningIsStoppable` | `MCGatherManager` | two gathers, `SameMillisecond = TRUE` | The two share an ID (`mustgather.go:482`); when one ends it removes the other's cancel function. |
| `AnonymizedNameIsTrue` | `MCGatherManager` | two gathers | A failed anonymization is a warning (`mustgather.go:891`), the archive is named "-anonymized" and complete. |
| `StoppedGatherEnds` | `MCGatherManager` | one gather, `Spec` | Two `oc` commands of the etcd backup have no context (`mustgather.go:1155`, `1243`); a stop waits for them. |
| `EveryGatherEnds` | `MCGatherManager` | one gather, `SpecWithOc`, `LongLines = TRUE` | A line of more than 1 MiB ends the scanner (`mustgather.go:547`), nobody reads the pipe, and `cmd.Wait` never returns. |
| `DeletedLeavesNoFile` | `MCRemoteGather` | `RemoteOwnArchive.cfg` | A job that is deleted while its archive is downloaded leaves the file (`acm.go:848`). |
| `RemoteJobEndsAnyway` | `MCRemoteGather` | `RemoteLiveness.cfg`, `MaxRestarts = 1` | An agent that restarted answers "idle", each answer extends the deadline (`acm.go:735`), and the job never ends. |
| `CompleteHasFile` | `MCRemoteGather` | `RemoteOwnArchive.cfg` | The hub names its file by cluster and second (`acm.go:775`): of two jobs that are polled in one second one completes, the download of the other fails, and `os.Remove` (`acm.go:796`) takes the file of both, while `acm.go:1079` says that "GetFilePath returns the file path for a completed remote gather job". |
| `AnnotatedImageStays` | `MCAgentAccess` | `MCAgentAccess.cfg`, `Callers = {}` | When the GET of the ManagedCluster fails, a deployment takes the global image (`acm.go:305`) and succeeds, while `acm.go:300` says that the image of the annotation is used. |
| `RequestIsHonoured` | `MCAnonymizer` | `Callers = {"oc"}` | With secrets alone `sed` has no expression and fails (`mustgather.go:1392`), so that the redaction is never reached. |
| `LogsNeverShrink` | `MCCollector` | one gather | `config.go:212` asks for previous logs, `logs.go:66` fetches the current ones for it, too, and 2000 lines replace the 5000 of `config.go:210`. |

The anonymizer has limits that no text denies: the hub masks its own domain, not
that of the managed cluster (`acm.go:869`); it ignores the error of its second
list of nodes (`acm.go:868`), and then replaces no name; only top-level `data` and
`stringData` of a file are redacted. `CompleteIsMasked` is therefore stated for
the mapping and the domain the caller has given.

## 5. Proofs

`GatherManager`: all constants are arbitrary, under `ManagerAssumption` (finite
set of gathers, natural bounds, a retention longer than the timeout).

* `TypeCorrect`: `Spec => []TypeOK`. `TypeOK` alone is not inductive: a step
  count is decremented, and the archive written, because the goroutine has an ID
  and a step is pending, so the invariant is `TypeInv` (`TypeOK` with
  `LiveHasId`, `StepPending`, `ReferredHasId`).
* `GaugeIsExact`: `Spec => []GaugeCountsGoroutines`, by cardinalities: each step
  moves at most one gather in or out of `Live`, a restart moves all.
* `ManagerIsConsistent`: if no two requests read the same millisecond, `Spec =>
  []ManagerInv`. `ManagerInv` is the inductive strengthening: an ID names one
  gather (`IdsIdentify`), status and place agree (`StatusMatchesPc`), the maps
  name the right gathers (`MapsMatch`), directories and archives hold only what
  belongs under their names (`ContentMatches`), the archive is as far as the
  goroutine is (`ArchiveMatches`), and a download handler holds a complete job
  (`DownloadMatches`). The hypothesis is necessary: see section 4.
* `RunningCanBeStopped`, `CompleteCanBeDownloaded`, `DownloadsAreWhole`: the
  three safety properties, from that invariant.
* `ForgottenJobsAreReclaimed` (`GatherLifecycleProofs`), under the same hypothesis:
  `ForgottenIsReclaimed` is preserved by every step from states of `ManagerInv`,
  by which a job becomes complete while it is listed and nobody else works under
  its ID.
* `NativeGathersAreTidy`, likewise, from `DirectoriesMatch`: which of its two
  directories a native gather may have at each place (`Tidy`), so that the rename
  into the wrapper always finds it free. An etcd backup never has a wrapper and
  keeps its own directory; that nobody else is in it follows from `ContentMatches`.
* `ManagerImplementsLifecycle`, under the same hypothesis: `Spec =>
  ImplementsLifecycle`. The initial states map to one of `JobLifecycle`, and each
  action to one abstract step or a stutter. Next to `ManagerInv` this needs
  `NothingBeforeServed`: a download that has not been served has delivered nothing.
  With colliding IDs the refinement fails (TLC shows it with `SameMillisecond =
  TRUE`): the second job takes the first one's place in the map, so the first is
  forgotten while it runs, which no step of `JobLifecycle` does.

`RemoteGather`: all constants are arbitrary, under `TasksAssumption`,
`SecondsAssumption` and `RemoteAssumption` (natural bounds, at least one second, the
anonymized tasks are tasks).

* `RemoteIsConsistent`: `Spec => []RemoteInv`. Nothing is assumed of the names, so
  the invariant has to keep the gathers that share a second away from the others. On
  the agent (`AgentInv`) a gather has its name as soon as it can write
  (`NamedInTime`), what is under a name was written by gathers of that name only
  (`NamesMatch`), the served path is some gather's (`PathIsNamed`), and the archive
  of a gather that shares its second with no other is as far as the gather is and
  stays when it is over (`OwnArchive`). On the hub each task's place allows one phase
  (`PhaseOK`) and has a second in time (`StampOK`), a file was written by retrievals
  of its second only (`DiskOK`), and the file of a retrieval with a second of its own
  is as far as the retrieval is (`FileOK`, `OwnFile`): absent, created, copied,
  created again, masked. Three facts about a step join the halves: a name does not
  change, a gather that is over stays over, and the archive of one with its own second
  stays what it is (`Stays`, in `AgentStep`). A download relies on them between
  `handleDownload`'s lock, the opening of the file and the end of the stream.
* `RemoteTypeCorrect`, `BusyAgentGathers`, `AgentServesAnArchive`,
  `CompleteJobsAreCopied`, `NamedFilesAreMasked`: the safety properties, from it. The
  last three say for which gathers and retrievals they hold (`OwnSecond`,
  `OwnStamp`); `CompleteHasFile` (section 4) shows that the hypothesis is needed.
* `LifecycleIsImplemented`: `Spec => ImplementsRemoteLifecycle`; each step maps
  to one of the abstract steps or a stutter, by `PhaseOK`.

`AgentAccess`: all constants are arbitrary, under `BoundsAssumption` and
`NoneAssumption`.

* `AccessIsConsistent`: `Spec => []AccessInv`. Next to the types, `AccessInv` says
  how work, secret and revision belong together (`WorkOK`); that whoever may still
  replace the work and has read the annotation has read it after that work was
  written (`ReadOK`, from which such a replacement never goes back); that an access about to be stored
  names a pod (`PodChosen`); and that the cluster stays as it was while a call is calm
  (`CalmOK`).
* `AccessTypeCorrect`, `ImagesAdvance`, `ReplacementIsMasked`: from it.

`Collector`: all constants are arbitrary, under `CollectorAssumption` (there are no
more masters than nodes) and `RequestsAssumption`, which says what requests the code
lets through: at least one type (`agent.go:226` and `acm_handlers.go:188` replace an
empty list, `handler.go:222` and `gather.go:83` make none), only operators that are
probed for are detected, and the node commands of a ConfigMap run on all nodes or on
the masters.

* `PodsAreAlwaysDeleted`, `PodsAreNeverShared`: from `PodInv`: a
  collector at work holds a pod (`HoldsWhenWorking`), which exists until it is
  deleted (`HeldIsThere`), no two hold the same one, and a pod that was lost by a
  failed deletion is still there (`LostIsThere`).
* `FailuresAreAlwaysReported`: from `ReportInv`, which adds that the flag of the run
  at hand is set exactly when something in it has failed (`FailedIsFailing`). The
  invariant is about what is in memory between a failure and `appendErrorLog`. It
  does not promise a log that could not be written (the code ignores that error), nor
  one that a later run in the same directory has replaced: any run of an agent or of
  the standalone mode, and on the hub one of a type that is named twice.
* `CollectorIsTyped`, `PlanIsAlwaysCovered`: from `GatherInv`, which has two parts
  for each gather. `Progress` fits its place and what it has left to do together: it
  is in a definition only while the plan has one, on the nodes only in the last stage
  and while a group and a node are left; so nothing is taken from an empty list and
  no count falls below zero, which `TypeOK` alone does not give. `Covers` says that what is
  collected, followed by what the run still plans, lists the definitions that the
  runs up to this one go through (`Covered`), each once. The heart is `RunAdds`: what
  a run loads is new and is all that `Covered` grows by, with each of the
  three rules by which the modes leave out the default definition; `AllRunsCover`
  then turns the last `Covered` into `Wanted`. Lists, orders and their lengths have
  lemmas of their own (`ListsConcat`, `OrdersExist`, `ListsLength`).
  `AsksForDefault` states which gathers it is about, and leaves out what does not
  hold: an agent that is asked for "custom" first and the default second runs no
  default definition, and a type that is named twice is run twice.

`ArgoWatch`: `ArgoTypeCorrect`, `DriftIsAlwaysUnbroken`,
`DeletionAlwaysRestartsTime`, for any set of applications and any limit. Each of
the three invariants is preserved by every step, the last two with the types as a
hypothesis.

`Anonymizer`: all constants are arbitrary, under `AnonymizerAssumption` (node lists are
sequences, a user asks for something) and `WritingAssumption` (different numbers, and
different roles, are written differently, which TLC evaluates for the given lists).

* `AnonymizerIsTyped`, `PseudonymsAlwaysDiffer`: from `AnonymizerInv`, by which
  the mapping is none or the one of the nodes (`MappingMatches`) and a file stays a
  record of its kind through each pass and rename (`FilesAreGathered`; without the
  shape of the record, that a pass keeps the extension is not inductive). Two nodes
  of one role are counted with different numbers of nodes, since the later one is
  counted with all that the earlier one is, and itself (`LaterCountsMore`). So what
  `merged_nodes` shows comes from replacing one name after the other and not from
  the mapping.
* `CompleteDataIsMasked`: `Spec => []CompleteIsMasked`, if the names and the domain
  stand out in every list of `Clusters` and for every domain of `Domains`. The
  inductive invariant is `TextsInv`: at each place of `pc` a file's text is what
  the passes before it make of what was gathered (`TextFits`), with the mapping of
  the nodes (`MappingInv`). It remains to show what all the passes together make
  of a text. Each pass is divided by a space, since no match goes over a token
  that is not in what is looked for (`SubstituteAround`, `IsPass`), passes in turn
  are again such a pass (`PassesCompose`), and so the text may be taken word by
  word (`PassByBlocks`). For one word at most one pass has something to do: a
  node's name is replaced in its own turn, because longer names come first and
  what is put in holds no name (`NameIsReplaced`); a domain loses its longest form,
  because a mask holds no shorter one (`DomainIsMasked`); the masks of one kind
  hold nothing of the others (`AtomIsMasked`). Files that the redaction left out are
  data files like the others in all but their secrets (`KindOf`, `SkippedAreData`).
* `CompletePathsAreRenamed`: `Spec => []CompleteIsRenamed`, if the names stand out
  in every list of `Clusters`. The inductive invariant is `RenameInv`: a file is at
  its gathered path with those components renamed whose paths are no longer pending
  (`Now`, `PathsFit`), and with a path all the directories above it are pending
  (`PendingFit`). The order by length keeps the second: a path is written longer
  than the directories above it (`LongerIsWrittenLonger`), so it is renamed before
  them. The first then says what a rename meets: what is below a pending path is
  still below it (`UnderPending`), and nothing is where it is going
  (`NothingAtTarget`), so that `os.Rename`, whose error the code ignores, succeeds.
  The directory itself keeps its name: if it had been renamed `find` would fail and
  nothing would be complete.
* `ListedNodesStayApart`: under the hypotheses of the first, and if no name is
  listed twice (`NodesAreNamed`), `Spec => [](mapping # <<>> => NodesStayApart)`:
  the logs of two nodes end in different pseudonyms. The hypothesis is what
  `merged_nodes` lacks: a name that is part of a pseudonym.

These proofs need induction over positions, turns and paths. The library's theorem
takes the induction formula as a parameter, which the provers cannot instantiate;
`Induction` in `AnonymizerProofs` is stated for a set of numbers instead, and is
proved from the theorem that the finite subsets of a set are well founded. The
recursive functions are unfolded the same way: a function with the values the
equation asks for exists (`UnrolledExists`, `FlattenIs`), so the chosen one has
them. A set of strings does not have the literals of the model among its elements
for the provers, so `Tokens` lists them next to `STRING`.

Only model-checked: the liveness properties, since they depend on fairness. Every
invariant and every safety property of a step that a passing run checks is also a
theorem.

## 6. Not modelled

* etcd diagnostics jobs: each request is a goroutine and a map entry of its own
  that nothing else touches, and the sweep deletes the entry when it has ended; what
  is wrong with them is what is missing (a limit, a timeout, a stop), and no text
  promises it.
* What exactly gathers or retrievals of one second make of the file they share:
  `RemoteGather` has it as mixed, partial or gone, and says nothing of its content.
  Two managed clusters share no name on the hub, which has the cluster in it.
* `EnsureAgents` and the map `agents`: nothing calls the one, nothing else reads
  the other.
* The resource browser, monitoring, the Kubernetes client, the reports of cluster
  status, metrics other than the gauge, configuration, browser code, manifests.
  They read, render or configure and keep no state that a sequence of operations
  could bring into disorder; the discovery cache of the browser only selects what
  is offered. The 30 s timeout of the Kubernetes client is the reason for the
  fairness of every module that calls the API server.
