---------------------------- MODULE GatherAgent ----------------------------
(***************************************************************************)
(* The agent of one managed cluster, internal/agent/agent.go: its handlers *)
(* for POST /gather and GET /download, and the goroutine runGather.        *)
(*                                                                         *)
(* The agent has one status and one archive path for all requests.  A task *)
(* t \in Tasks is a request to gather and the goroutine it may lead to;    *)
(* run[t] is where it is.  Actions are cut where the code holds no lock.   *)
(*                                                                         *)
(* The directory and the archive of a gather are named by a second, and    *)
(* gathers named in the same second share both names.  Files are those of  *)
(* a Unix file system: os.Create on a name that is taken truncates the     *)
(* file that has it, and a file that is removed stays for those who have   *)
(* it open.  So the file that task t creates is file t, under whatever     *)
(* name, and entry[s] is the one that the archive name of second s has.    *)
(***************************************************************************)
EXTENDS Naturals, FiniteSets

CONSTANTS
  Tasks,       \* requests to gather on this cluster, and their goroutines
  None,        \* no file
  LastSecond   \* bound: the readings of a clock, in seconds

ASSUME TasksAssumption == IsFiniteSet(Tasks) /\ None \notin Tasks

ASSUME SecondsAssumption == LastSecond \in Nat \ {0}

(* Only whether two readings are the same matters: seconds are numbered as *)
(* they come to be used.                                                   *)
Seconds == 1 .. LastSecond

VARIABLES
  status,       \* a.status
  archivePath,  \* the second in a.archivePath, or 0 for ""
  run,          \* where each request's handler, and then goroutine, is
  name,         \* the second (ts) each gather is named by, or 0
  dir,          \* the gathers whose output is in the directory of a second
  entry,        \* the file under the archive name of a second, or None
  archives      \* the files, by the task that created them

agentFiles == <<dir, entry, archives>>
agent == <<status, archivePath, run, name, agentFiles>>

Gathering == {"begun", "collecting", "archiving", "tarring", "publish"}
RunStates == {"none", "checked", "refused", "accepted", "done", "lost"} \cup Gathering

(* A file is partial until createTarGz returns with success, then whole;   *)
(* mixed if a second gather has truncated it while the first wrote it.     *)
(* (The last bytes of a whole file may still be lost: createTarGz drops    *)
(* the errors of its deferred Close calls.)                                *)
FileStates == {"absent", "partial", "mixed", "whole"}

(* by: who has opened the file to write it; data: whose output it may have *)
NoArchive == [state |-> "absent", by |-> {}, data |-> {}]
Archives == [state: FileStates, by: SUBSET Tasks, data: SUBSET Tasks]

AgentInit ==
  /\ status = "idle"
  /\ archivePath = 0
  /\ run = [t \in Tasks |-> "none"]
  /\ name = [t \in Tasks |-> 0]
  /\ dir = [s \in Seconds |-> {}]
  /\ entry = [s \in Seconds |-> None]
  /\ archives = [t \in Tasks |-> NoArchive]

(* What time.Now() may return after it has returned the seconds in "used": *)
(* the clock does not go back.                                             *)
Now(used) == {s \in Seconds : /\ \A u \in used : u <= s
                              /\ s = 1 \/ \E u \in used : s <= u + 1}

Proceed(t, from, to) == run[t] = from /\ run' = [run EXCEPT ![t] = to]

(* handleGather looks at the status under the lock and lets it go ...      *)
HandleGather(t) ==
  /\ Proceed(t, "none", IF status = "gathering" THEN "refused" ELSE "checked")
  /\ UNCHANGED <<status, archivePath, name, agentFiles>>

(* ... then it reads the body, and starts the goroutine and answers 202,   *)
(* or refuses what it read.                                                *)
AcceptGather(t) ==
  /\ Proceed(t, "checked", "accepted") \/ Proceed(t, "checked", "refused")
  /\ UNCHANGED <<status, archivePath, name, agentFiles>>

RemoveArchive == entry' = [s \in Seconds |-> IF s = archivePath THEN None ELSE entry[s]]

(* Wrong: the previous archive is removed and its path kept.               *)
BeginGatherKeepingPath(t) ==
  /\ Proceed(t, "accepted", "begun")
  /\ status' = "gathering"
  /\ RemoveArchive
  /\ UNCHANGED <<archivePath, name, dir, archives>>

(* The first critical section of runGather, which also removes the         *)
(* archive of the previous gather.                                         *)
BeginGather(t) ==
  /\ Proceed(t, "accepted", "begun")
  /\ status' = "gathering"
  /\ archivePath' = 0
  /\ RemoveArchive
  /\ UNCHANGED <<name, dir, archives>>

(* ts := time.Now() and os.MkdirAll                                        *)
NameGather(t) ==
  /\ Proceed(t, "begun", "collecting")
  /\ \E s \in Now({name[u] : u \in Tasks}) :
       /\ name' = [name EXCEPT ![t] = s]
       /\ dir' = [dir EXCEPT ![s] = @ \cup {t}]
  /\ UNCHANGED <<status, archivePath, entry, archives>>

(* setError; every caller returns from the goroutine.                      *)
SetError(t) ==
  /\ status' = "error"
  /\ run' = [run EXCEPT ![t] = "done"]

(* Wrong: the goroutine returns without a status.                          *)
EndCollectionSilently(t) ==
  /\ run[t] = "collecting"
  /\ \E to \in {"archiving", "done"} : run' = [run EXCEPT ![t] = to]
  /\ UNCHANGED <<status, archivePath, name, agentFiles>>

(* The collector returns.  An error ends a gather of one type or of "all"; *)
(* a gather of several types logs it and goes on.  If another gather has   *)
(* removed the directory, what was collected since is in it again.         *)
EndCollection(t) ==
  /\ run[t] = "collecting"
  /\ \/ run' = [run EXCEPT ![t] = "archiving"] /\ UNCHANGED status
     \/ SetError(t)
  /\ \E found \in {dir[name[t]], dir[name[t]] \cup {t}} : dir' = [dir EXCEPT ![name[t]] = found]
  /\ UNCHANGED <<archivePath, name, entry, archives>>

(* createTarGz: os.Create, of a new file or of the one that has the name.  *)
OpenArchiveFile(t) ==
  LET i == IF entry[name[t]] = None THEN t ELSE entry[name[t]]
      inUse == \E u \in archives[i].by : run[u] = "tarring"
  IN
  /\ run[t] = "archiving"
  /\ \/ /\ run' = [run EXCEPT ![t] = "tarring"]
        /\ entry' = [entry EXCEPT ![name[t]] = i]
        /\ archives' = [archives EXCEPT ![i] =
             [state |-> IF inUse THEN "mixed" ELSE "partial",
              by    |-> @.by \cup {t},
              data  |-> @.data \cup dir[name[t]] \cup {t}]]
        /\ UNCHANGED status
     \/ SetError(t) /\ UNCHANGED <<entry, archives>>
  /\ UNCHANGED <<archivePath, name, dir>>

(* Its walk ends, with success only if the directory was there, and then   *)
(* os.RemoveAll takes the directory away; after an error it stays.         *)
CloseArchive(t) ==
  /\ run[t] = "tarring"
  /\ \/ /\ dir[name[t]] # {}
        /\ archives' = [i \in Tasks |->
             IF t \in archives[i].by /\ archives[i].state = "partial"
               THEN [archives[i] EXCEPT !.state = "whole", !.data = @ \cup dir[name[t]]]
               ELSE archives[i]]
        /\ dir' = [dir EXCEPT ![name[t]] = {}]
        /\ run' = [run EXCEPT ![t] = "publish"]
        /\ UNCHANGED status
     \/ SetError(t) /\ UNCHANGED <<dir, archives>>
  /\ UNCHANGED <<archivePath, name, entry>>

(* The last critical section; an archive that another gather has published *)
(* meanwhile stays on the disk.                                            *)
Publish(t) ==
  /\ Proceed(t, "publish", "done")
  /\ status' = "serving"
  /\ archivePath' = name[t]
  /\ UNCHANGED <<name, agentFiles>>

(* What the goroutine does besides collecting.                             *)
RunGather(t) ==
  \/ BeginGather(t)
  \/ NameGather(t)
  \/ OpenArchiveFile(t)
  \/ CloseArchive(t)
  \/ Publish(t)

(* What handleDownload asks for under the lock.                            *)
Downloadable == status = "serving" /\ archivePath # 0

(* The container is restarted or the pod replaced: Run starts idle, with   *)
(* an empty file system.  A request that was not answered yet fails.       *)
RestartAgent ==
  /\ status' = "idle"
  /\ archivePath' = 0
  /\ run' = [t \in Tasks |->
               CASE run[t] = "checked" -> "refused"
                 [] run[t] \in Gathering \cup {"accepted"} -> "lost"
                 [] OTHER -> run[t]]
  /\ dir' = [s \in Seconds |-> {}]
  /\ entry' = [s \in Seconds |-> None]
  /\ UNCHANGED <<name, archives>>

-----------------------------------------------------------------------------
AgentTypeOK ==
  /\ status \in {"idle", "gathering", "serving", "error"}
  /\ archivePath \in Seconds \cup {0}
  /\ run \in [Tasks -> RunStates]
  /\ name \in [Tasks -> Seconds \cup {0}]
  /\ dir \in [Seconds -> SUBSET Tasks]
  /\ entry \in [Seconds -> Tasks \cup {None}]
  /\ archives \in [Tasks -> Archives]

(* The agent says "gathering", and refuses requests with 409, only while a *)
(* gather is under way: however many were accepted at once and in whatever *)
(* order they fail or finish, it does not stay busy for ever.              *)
GatheringMeansWorking ==
  status = "gathering" => \E t \in Tasks : run[t] \in Gathering

(* No other gather was named in the second of t.                           *)
OwnSecond(t) == name[t] # 0 /\ \A u \in Tasks \ {t} : name[u] # name[t]

(* The output of t and nothing else, whole.                                *)
Made(t) == [state |-> "whole", by |-> {t}, data |-> {t}]

(* An agent that says "serving" has an archive; and unless two gathers     *)
(* were named in one second, the archive it names is there, is complete    *)
(* and has the output of one gather, also when another gather begins, ends *)
(* or fails meanwhile.  (Gathers that share a second share directory and   *)
(* archive: what is served may then be mixed, partial or removed.)         *)
ServingHasArchive ==
  /\ status = "serving" => archivePath # 0
  /\ \A t \in Tasks :
       name[t] = archivePath /\ OwnSecond(t) =>
         entry[archivePath] = t /\ archives[t] = Made(t)
=============================================================================
