------------------------- MODULE RemoteGatherProofs -------------------------
(***************************************************************************)
(* Theorems about the agent and the hub, for every set of requests, every  *)
(* choice of those to be anonymized, every reading of the clocks, every    *)
(* number of errors and failed polls the hub puts up with, and every       *)
(* number of restarts.                                                     *)
(***************************************************************************)
EXTENDS RemoteGather, TLAPS

USE TasksAssumption, SecondsAssumption, RemoteAssumption

-----------------------------------------------------------------------------
(* The agent *)

(* A gather has its name from NameGather on.                               *)
NamedInTime ==
  \A t \in Tasks :
    /\ run[t] \in {"none", "checked", "refused", "accepted", "begun"} => name[t] = 0
    /\ run[t] \in {"collecting", "archiving", "tarring", "publish", "done"} => name[t] # 0

(* What has a name was written by gathers of that name, who had got as far *)
(* as to write it.                                                         *)
NamesMatch ==
  /\ \A s \in Seconds : \A u \in dir[s] : name[u] = s
  /\ \A s \in Seconds : entry[s] # None =>
       name[entry[s]] = s /\ entry[s] \in archives[entry[s]].by
  /\ \A i \in Tasks : \/ archives[i] = NoArchive
                      \/ /\ i \in archives[i].by /\ i \in archives[i].data
                         /\ archives[i].state # "absent" /\ name[i] # 0
  /\ \A i \in Tasks : \A u \in archives[i].by \cup archives[i].data : name[u] = name[i]
  /\ \A i \in Tasks : \A u \in archives[i].by : run[u] \in {"tarring", "publish", "done", "lost"}

Draft(t) == [state |-> "partial", by |-> {t}, data |-> {t}]

(* A gather that is over and has left its archive                          *)
Settled(t) == run[t] = "done" /\ archives[t] = Made(t)

(* As long as a gather shares its second with no other, its archive is as  *)
(* far as the gather is.                                                   *)
OwnArchive(t) ==
  OwnSecond(t) =>
    /\ run[t] = "tarring" => entry[name[t]] = t /\ archives[t] = Draft(t)
    /\ run[t] = "publish" => entry[name[t]] = t /\ archives[t] = Made(t)
    /\ archivePath = name[t] => entry[name[t]] = t /\ Settled(t)

PathIsNamed == archivePath # 0 => \E u \in Tasks : name[u] = archivePath

AgentInv ==
  /\ AgentTypeOK
  /\ GatheringMeansWorking
  /\ NamedInTime
  /\ NamesMatch
  /\ PathIsNamed
  /\ status = "serving" => archivePath # 0
  /\ \A t \in Tasks : OwnArchive(t)

LEMMA AgentInitial == AgentInit => AgentInv
BY DEF AgentInit, AgentInv, AgentTypeOK, RunStates, Archives, FileStates, NoArchive, Seconds,
       GatheringMeansWorking, NamedInTime, NamesMatch, PathIsNamed, OwnArchive, OwnSecond

(* What a step of the agent leaves alone: names, what is over, and the     *)
(* archives of gathers that share their second with no other.              *)
Stays(g) ==
  /\ name[g] # 0 => name'[g] = name[g]
  /\ run[g] = "done" => run'[g] = "done"
  /\ name[g] # 0 /\ OwnSecond(g)' => OwnSecond(g)
  /\ Settled(g) /\ OwnSecond(g)' => Settled(g)'

(* Unless it gets its name, a gather's second is its own as it was.        *)
LEMMA OwnSecondKept ==
  ASSUME UNCHANGED name
  PROVE  \A g \in Tasks : OwnSecond(g)' <=> OwnSecond(g)
BY DEF OwnSecond

LEMMA HandleGatherKeepsAgent ==
  ASSUME AgentInv, NEW t \in Tasks, HandleGather(t) \/ AcceptGather(t)
  PROVE  AgentInv' /\ \A g \in Tasks : Stays(g)
<1>1. /\ UNCHANGED <<status, archivePath, name, dir, entry, archives>>
      /\ run[t] \in {"none", "checked"}
      /\ \E to \in {"refused", "checked", "accepted"} : run' = [run EXCEPT ![t] = to]
  BY DEF HandleGather, AcceptGather, Proceed, agentFiles
<1>2. AgentTypeOK'
  BY <1>1 DEF AgentInv, AgentTypeOK, RunStates
<1>3. \A u \in Tasks : run[u] \notin {"none", "checked"} => run'[u] = run[u]
  BY <1>1 DEF AgentInv, AgentTypeOK
<1>4. GatheringMeansWorking'
  BY <1>1, <1>3 DEF AgentInv, GatheringMeansWorking, Gathering
<1>5. NamedInTime'
  BY <1>1 DEF AgentInv, AgentTypeOK, NamedInTime
<1>6. NamesMatch' /\ PathIsNamed'
  <2>1. \A u \in Tasks : run[u] \in {"tarring", "publish", "done", "lost"} => run'[u] = run[u]
    BY <1>3
  <2>2. \A i \in Tasks : archives[i].by \subseteq Tasks
    BY DEF AgentInv, AgentTypeOK, Archives
  <2> QED
    BY <1>1, <2>1, <2>2 DEF AgentInv, NamesMatch, PathIsNamed
<1>7. \A g \in Tasks : Stays(g)
  BY <1>1, <1>3, OwnSecondKept DEF Stays, Settled, Made
<1>8. \A g \in Tasks : OwnArchive(g)'
  <2> SUFFICES ASSUME NEW g \in Tasks PROVE OwnArchive(g)'
    OBVIOUS
  <2>1. \/ run'[g] = run[g]
        \/ (run'[g] \in {"refused", "checked", "accepted"} /\ run[g] \in {"none", "checked"})
    BY <1>1 DEF AgentInv, AgentTypeOK
  <2> QED
    BY <1>1, <2>1, OwnSecondKept DEF AgentInv, OwnArchive, Settled, Made, Draft
<1> QED
  BY <1>1, <1>2, <1>4, <1>5, <1>6, <1>7, <1>8 DEF AgentInv

LEMMA BeginGatherKeepsAgent ==
  ASSUME AgentInv, NEW t \in Tasks, BeginGather(t)
  PROVE  AgentInv' /\ \A g \in Tasks : Stays(g)
<1> USE DEF BeginGather, Proceed, RemoveArchive
<1>1. AgentTypeOK'
  BY DEF AgentInv, AgentTypeOK, RunStates, Gathering
<1>2. GatheringMeansWorking' /\ PathIsNamed'
  BY DEF AgentInv, AgentTypeOK, GatheringMeansWorking, Gathering, PathIsNamed
<1>3. NamedInTime'
  BY DEF AgentInv, AgentTypeOK, NamedInTime
<1>4. \A u \in Tasks : run[u] # "accepted" => run'[u] = run[u]
  BY DEF AgentInv, AgentTypeOK
<1>5. NamesMatch'
  <2>1. \A s \in Seconds : entry'[s] \in {entry[s], None}
    OBVIOUS
  <2>2. \A i \in Tasks : archives[i].by \subseteq Tasks
    BY DEF AgentInv, AgentTypeOK, Archives
  <2> QED
    BY <1>4, <2>1, <2>2 DEF AgentInv, NamesMatch
<1>6. \A g \in Tasks : Stays(g)
  BY <1>4, OwnSecondKept DEF Stays, Settled, Made
<1>7. \A g \in Tasks : OwnArchive(g)'
  <2> SUFFICES ASSUME NEW g \in Tasks, OwnSecond(g)'
               PROVE  /\ run'[g] = "tarring" => entry'[name[g]] = g /\ archives[g] = Draft(g)
                      /\ run'[g] = "publish" => entry'[name[g]] = g /\ archives[g] = Made(g)
                      /\ name[g] # 0
    BY DEF OwnArchive, Draft, Made
  <2>1. OwnSecond(g) /\ OwnArchive(g) /\ name[g] # 0 /\ name[g] \in Seconds
    BY OwnSecondKept DEF AgentInv, AgentTypeOK, OwnSecond
  <2>2. run'[g] \in {"tarring", "publish"} => run'[g] = run[g]
    BY DEF AgentInv, AgentTypeOK
  <2>3. run[g] \in {"tarring", "publish"} => archivePath # name[g]
    BY <2>1 DEF OwnArchive, Settled
  <2> QED
    BY <2>1, <2>2, <2>3 DEF OwnArchive
<1> QED
  BY <1>1, <1>2, <1>3, <1>5, <1>6, <1>7 DEF AgentInv

LEMMA NameGatherKeepsAgent ==
  ASSUME AgentInv, NEW t \in Tasks, NameGather(t)
  PROVE  AgentInv' /\ \A g \in Tasks : Stays(g)
<1> PICK s \in Seconds : /\ name' = [name EXCEPT ![t] = s]
                         /\ dir' = [dir EXCEPT ![s] = @ \cup {t}]
  BY DEF NameGather, Now
<1>1. /\ run[t] = "begun" /\ run' = [run EXCEPT ![t] = "collecting"]
      /\ UNCHANGED <<status, archivePath, entry, archives>>
  BY DEF NameGather, Proceed
<1>2. name[t] = 0 /\ s # 0 /\ name'[t] = s /\ \A u \in Tasks \ {t} : name'[u] = name[u]
  BY <1>1 DEF AgentInv, AgentTypeOK, NamedInTime, Seconds
<1>3. AgentTypeOK'
  BY <1>1 DEF AgentInv, AgentTypeOK, RunStates, Gathering
<1>4. GatheringMeansWorking' /\ PathIsNamed'
  BY <1>1, <1>2 DEF AgentInv, AgentTypeOK, GatheringMeansWorking, Gathering, PathIsNamed
<1>5. NamedInTime'
  BY <1>1, <1>2 DEF AgentInv, AgentTypeOK, NamedInTime
<1>6. archives[t] = NoArchive
  BY <1>2 DEF AgentInv, NamesMatch
<1>7. \A i \in Tasks : t \notin archives[i].by \cup archives[i].data
  <2> SUFFICES ASSUME NEW i \in Tasks, t \in archives[i].by \cup archives[i].data PROVE FALSE
    OBVIOUS
  <2>1. name[i] = 0
    BY <1>2 DEF AgentInv, NamesMatch
  <2>2. archives[i] = NoArchive
    BY <2>1 DEF AgentInv, NamesMatch
  <2> QED
    BY <2>2 DEF NoArchive
<1>8. NamesMatch'
  <2>1. \A r \in Seconds : dir[r] \subseteq Tasks /\ entry[r] \in Tasks \cup {None}
    BY DEF AgentInv, AgentTypeOK
  <2>2. \A i \in Tasks : archives[i].by \subseteq Tasks /\ archives[i].data \subseteq Tasks
    BY DEF AgentInv, AgentTypeOK, Archives
  <2>3. \A r \in Seconds : \A u \in dir'[r] : name'[u] = r
    <3> SUFFICES ASSUME NEW r \in Seconds, NEW u \in dir'[r] PROVE name'[u] = r
      OBVIOUS
    <3>1. u \in dir[r] \/ (u = t /\ r = s)
      BY DEF AgentInv, AgentTypeOK
    <3>2. CASE u = t /\ r = s
      BY <1>2, <3>2
    <3>3. CASE u \in dir[r]
      <4>1. name[u] = r /\ u \in Tasks
        BY <2>1, <3>3 DEF AgentInv, NamesMatch
      <4> QED
        BY <1>2, <4>1 DEF Seconds
    <3> QED
      BY <3>1, <3>2, <3>3
  <2>4. \A r \in Seconds : entry'[r] # None =>
          name'[entry'[r]] = r /\ entry'[r] \in archives'[entry'[r]].by
    <3> SUFFICES ASSUME NEW r \in Seconds, entry[r] # None
                 PROVE  name'[entry[r]] = r /\ entry[r] \in archives[entry[r]].by
      BY <1>1
    <3>1. name[entry[r]] = r /\ entry[r] \in archives[entry[r]].by /\ entry[r] \in Tasks
      BY <2>1 DEF AgentInv, NamesMatch
    <3> QED
      BY <1>2, <3>1 DEF Seconds
  <2>5. \A i \in Tasks : \/ archives'[i] = NoArchive'
                         \/ /\ i \in archives'[i].by /\ i \in archives'[i].data
                            /\ archives'[i].state # "absent" /\ name'[i] # 0
    BY <1>1, <1>2 DEF AgentInv, NamesMatch, NoArchive
  <2>6. \A i \in Tasks : \A u \in archives'[i].by \cup archives'[i].data : name'[u] = name'[i]
    <3> SUFFICES ASSUME NEW i \in Tasks, NEW u \in archives[i].by \cup archives[i].data
                 PROVE  name'[u] = name'[i]
      BY <1>1
    <3>1. name[u] = name[i] /\ u # t /\ u \in Tasks
      BY <1>7, <2>2 DEF AgentInv, NamesMatch
    <3>2. i # t
      BY <1>6 DEF NoArchive
    <3> QED
      BY <1>2, <3>1, <3>2
  <2>7. \A i \in Tasks : \A u \in archives'[i].by : run'[u] \in {"tarring", "publish", "done", "lost"}
    <3> SUFFICES ASSUME NEW i \in Tasks, NEW u \in archives[i].by
                 PROVE  run'[u] \in {"tarring", "publish", "done", "lost"}
      BY <1>1
    <3>1. run[u] \in {"tarring", "publish", "done", "lost"} /\ u # t /\ u \in Tasks
      BY <1>7, <2>2 DEF AgentInv, NamesMatch
    <3> QED
      BY <1>1, <3>1 DEF AgentInv, AgentTypeOK
  <2> QED
    BY <2>3, <2>4, <2>5, <2>6, <2>7 DEF NamesMatch
<1>9. \A g \in Tasks : g # t /\ OwnSecond(g)' => OwnSecond(g)
  BY <1>2 DEF OwnSecond
<1>10. \A g \in Tasks : Stays(g)
  <2> SUFFICES ASSUME NEW g \in Tasks PROVE Stays(g)
    OBVIOUS
  <2>1. CASE g = t
    BY <1>1, <1>2, <2>1 DEF Stays, Settled
  <2>2. CASE g # t
    <3>1. run'[g] = run[g] /\ name'[g] = name[g] /\ archives' = archives
      BY <1>1, <1>2, <2>2 DEF AgentInv, AgentTypeOK
    <3> QED
      BY <1>9, <2>2, <3>1 DEF Stays, Settled, Made
  <2> QED
    BY <2>1, <2>2
<1>11. \A g \in Tasks : OwnArchive(g)'
  <2> SUFFICES ASSUME NEW g \in Tasks, OwnSecond(g)' PROVE OwnArchive(g)'
    BY DEF OwnArchive
  <2>1. CASE g = t
    <3>1. run'[t] = "collecting"
      BY <1>1 DEF AgentInv, AgentTypeOK
    <3>2. archivePath' # name'[t]
      BY <1>1, <1>2, <2>1 DEF AgentInv, PathIsNamed, OwnSecond
    <3> QED
      BY <2>1, <3>1, <3>2 DEF OwnArchive
  <2>2. CASE g # t
    <3>1. run'[g] = run[g] /\ name'[g] = name[g] /\ OwnSecond(g)
      BY <1>1, <1>2, <1>9, <2>2 DEF AgentInv, AgentTypeOK
    <3> QED
      BY <1>1, <3>1 DEF AgentInv, OwnArchive, Settled, Made, Draft
  <2> QED
    BY <2>1, <2>2
<1> QED
  BY <1>1, <1>3, <1>4, <1>5, <1>8, <1>10, <1>11 DEF AgentInv

LEMMA EndCollectionKeepsAgent ==
  ASSUME AgentInv, NEW t \in Tasks, EndCollection(t)
  PROVE  AgentInv' /\ \A g \in Tasks : Stays(g)
<1> PICK found \in {dir[name[t]], dir[name[t]] \cup {t}} : dir' = [dir EXCEPT ![name[t]] = found]
  BY DEF EndCollection
<1>1. /\ run[t] = "collecting" /\ UNCHANGED <<archivePath, name, entry, archives>>
      /\ \/ run' = [run EXCEPT ![t] = "archiving"] /\ UNCHANGED status
         \/ run' = [run EXCEPT ![t] = "done"] /\ status' = "error"
  BY DEF EndCollection, SetError
<1>2. name[t] \in Seconds /\ name[t] # 0
  BY <1>1 DEF AgentInv, AgentTypeOK, NamedInTime
<1>3. AgentTypeOK'
  <2>1. dir' \in [Seconds -> SUBSET Tasks]
    BY <1>2 DEF AgentInv, AgentTypeOK
  <2> QED
    BY <1>1, <2>1 DEF AgentInv, AgentTypeOK, RunStates, Gathering
<1>4. GatheringMeansWorking' /\ PathIsNamed' /\ (status' = "serving" => archivePath' # 0)
  BY <1>1 DEF AgentInv, AgentTypeOK, GatheringMeansWorking, Gathering, PathIsNamed
<1>5. NamedInTime'
  BY <1>1, <1>2 DEF AgentInv, AgentTypeOK, NamedInTime
<1>6. \A u \in Tasks : run[u] # "collecting" => run'[u] = run[u]
  BY <1>1 DEF AgentInv, AgentTypeOK
<1>7. NamesMatch'
  <2>1. \A s \in Seconds : \A u \in dir'[s] : name[u] = s
    BY <1>2 DEF AgentInv, AgentTypeOK, NamesMatch
  <2>2. \A i \in Tasks : archives[i].by \subseteq Tasks
    BY DEF AgentInv, AgentTypeOK, Archives
  <2> QED
    BY <1>1, <1>6, <2>1, <2>2 DEF AgentInv, NamesMatch
<1>8. \A g \in Tasks : Stays(g)
  BY <1>1, <1>6, OwnSecondKept DEF Stays, Settled, Made
<1>9. \A g \in Tasks : OwnArchive(g)'
  <2> SUFFICES ASSUME NEW g \in Tasks PROVE OwnArchive(g)'
    OBVIOUS
  <2>1. \/ run'[g] = run[g]
        \/ (run'[g] \in {"archiving", "done"} /\ run[g] = "collecting")
    BY <1>1 DEF AgentInv, AgentTypeOK
  <2> QED
    BY <1>1, <2>1, OwnSecondKept DEF AgentInv, OwnArchive, Settled, Made, Draft
<1> QED
  BY <1>3, <1>4, <1>5, <1>7, <1>8, <1>9 DEF AgentInv

LEMMA OpenArchiveFileKeepsAgent ==
  ASSUME AgentInv, NEW t \in Tasks, OpenArchiveFile(t)
  PROVE  AgentInv' /\ \A g \in Tasks : Stays(g)
<1> DEFINE s == name[t]
           i == IF entry[s] = None THEN t ELSE entry[s]
           inUse == \E u \in archives[i].by : run[u] = "tarring"
           opened == [state |-> IF inUse THEN "mixed" ELSE "partial",
                      by    |-> archives[i].by \cup {t},
                      data  |-> archives[i].data \cup dir[s] \cup {t}]
<1>1. run[t] = "archiving" /\ s \in Seconds /\ s # 0
  BY DEF OpenArchiveFile, AgentInv, AgentTypeOK, NamedInTime
<1>2. i \in Tasks /\ name[i] = s
  BY <1>1 DEF AgentInv, AgentTypeOK, NamesMatch
<1>3. UNCHANGED <<archivePath, name, dir>>
  BY DEF OpenArchiveFile
<1>4. \A u \in Tasks : run[u] # "archiving" => run'[u] = run[u]
  BY DEF OpenArchiveFile, SetError, AgentInv, AgentTypeOK
<1>5. NamedInTime'
  BY <1>1, <1>3 DEF OpenArchiveFile, SetError, AgentInv, AgentTypeOK, NamedInTime
<1>6. GatheringMeansWorking' /\ PathIsNamed' /\ (status' = "serving" => archivePath' # 0)
  BY DEF OpenArchiveFile, SetError, AgentInv, AgentTypeOK, GatheringMeansWorking, Gathering, PathIsNamed
<1>7. CASE UNCHANGED <<entry, archives>> /\ status' = "error" /\ run' = [run EXCEPT ![t] = "done"]
  <2>1. AgentTypeOK'
    BY <1>3, <1>7 DEF AgentInv, AgentTypeOK, RunStates
  <2>2. \A j \in Tasks : archives[j].by \subseteq Tasks
    BY DEF AgentInv, AgentTypeOK, Archives
  <2>3. NamesMatch'
    BY <1>3, <1>4, <1>7, <2>2 DEF AgentInv, NamesMatch
  <2>4. \A g \in Tasks : Stays(g)
    BY <1>3, <1>4, <1>7, OwnSecondKept DEF Stays, Settled, Made
  <2>5. \A g \in Tasks : OwnArchive(g)'
    <3> SUFFICES ASSUME NEW g \in Tasks PROVE OwnArchive(g)'
      OBVIOUS
    <3>1. run'[g] = run[g] \/ (run'[g] = "done" /\ run[g] = "archiving")
      BY <1>1, <1>7 DEF AgentInv, AgentTypeOK
    <3> QED
      BY <1>3, <1>7, <3>1, OwnSecondKept DEF AgentInv, OwnArchive, Settled, Made, Draft
  <2> QED
    BY <1>5, <1>6, <2>1, <2>3, <2>4, <2>5 DEF AgentInv
<1>8. CASE /\ run' = [run EXCEPT ![t] = "tarring"] /\ UNCHANGED status
           /\ entry' = [entry EXCEPT ![s] = i]
           /\ archives' = [archives EXCEPT ![i] = opened]
  <2>1. archives[i] \in Archives /\ dir[s] \subseteq Tasks
    BY <1>1, <1>2 DEF AgentInv, AgentTypeOK
  <2>2. opened \in Archives
    BY <2>1 DEF Archives, FileStates
  <2>3. AgentTypeOK'
    <3>1. entry' \in [Seconds -> Tasks \cup {None}] /\ archives' \in [Tasks -> Archives]
      BY <1>2, <1>8, <2>2 DEF AgentInv, AgentTypeOK
    <3> QED
      BY <1>3, <1>8, <3>1 DEF AgentInv, AgentTypeOK, RunStates, Gathering
  <2>4. /\ archives'[i] = opened /\ \A j \in Tasks \ {i} : archives'[j] = archives[j]
        /\ entry'[s] = i /\ \A r \in Seconds \ {s} : entry'[r] = entry[r]
        /\ run'[t] = "tarring"
    BY <1>1, <1>2, <1>8 DEF AgentInv, AgentTypeOK
  <2>5. /\ opened.by = archives[i].by \cup {t} /\ opened.state \in {"mixed", "partial"}
        /\ opened.data = archives[i].data \cup dir[s] \cup {t}
    OBVIOUS
  <2> HIDE DEF opened
  <2>6. i \in opened.by /\ i \in opened.data
    <3>1. CASE entry[s] = None
      BY <2>5, <3>1
    <3>2. CASE entry[s] # None
      <4>1. i \in archives[i].by
        BY <1>1, <3>2 DEF AgentInv, NamesMatch
      <4>2. i \in archives[i].data
        BY <1>2, <4>1 DEF AgentInv, NamesMatch, NoArchive
      <4> QED
        BY <2>5, <4>1, <4>2
    <3> QED
      BY <3>1, <3>2
  <2>7. \A u \in opened.by \cup opened.data : name[u] = s
    <3>1. \A u \in archives[i].by \cup archives[i].data : name[u] = s
      BY <1>2 DEF AgentInv, NamesMatch
    <3>2. \A u \in dir[s] : name[u] = s
      BY <1>1 DEF AgentInv, NamesMatch
    <3> QED
      BY <2>5, <3>1, <3>2
  <2>8. NamesMatch'
    <3>1. \A r \in Seconds : \A u \in dir'[r] : name'[u] = r
      BY <1>3 DEF AgentInv, NamesMatch
    <3>2. \A r \in Seconds : entry'[r] # None =>
            name'[entry'[r]] = r /\ entry'[r] \in archives'[entry'[r]].by
      <4> SUFFICES ASSUME NEW r \in Seconds, entry'[r] # None
                   PROVE  name[entry'[r]] = r /\ entry'[r] \in archives'[entry'[r]].by
        BY <1>3
      <4>1. CASE r = s
        BY <1>2, <2>4, <2>6, <4>1
      <4>2. CASE r # s
        <5>1. entry'[r] = entry[r] /\ entry[r] \in Tasks /\ name[entry[r]] = r
              /\ entry[r] \in archives[entry[r]].by
          BY <2>4, <4>2 DEF AgentInv, AgentTypeOK, NamesMatch
        <5> QED
          BY <1>2, <2>4, <4>2, <5>1
      <4> QED
        BY <4>1, <4>2
    <3>3. \A j \in Tasks : \/ archives'[j] = NoArchive
                           \/ /\ j \in archives'[j].by /\ j \in archives'[j].data
                              /\ archives'[j].state # "absent" /\ name'[j] # 0
      BY <1>1, <1>2, <1>3, <2>4, <2>5, <2>6 DEF AgentInv, NamesMatch
    <3>4. \A j \in Tasks : \A u \in archives'[j].by \cup archives'[j].data : name'[u] = name'[j]
      BY <1>2, <1>3, <2>4, <2>7 DEF AgentInv, NamesMatch
    <3>5. \A j \in Tasks : \A u \in archives'[j].by : run'[u] \in {"tarring", "publish", "done", "lost"}
      <4> SUFFICES ASSUME NEW j \in Tasks, NEW u \in archives'[j].by, u # t
                   PROVE  run'[u] \in {"tarring", "publish", "done", "lost"}
        BY <2>4
      <4>1. u \in archives[j].by /\ u \in Tasks
        BY <2>4, <2>5 DEF AgentInv, AgentTypeOK, Archives
      <4> QED
        BY <1>4, <4>1 DEF AgentInv, NamesMatch
    <3> QED
      BY <3>1, <3>2, <3>3, <3>4, <3>5 DEF NamesMatch, NoArchive
  <2>9. \A g \in Tasks : OwnSecond(g) /\ g # t => name[g] # s /\ g # i
    BY <1>2 DEF OwnSecond
  <2>10. \A g \in Tasks : Stays(g)
    <3> SUFFICES ASSUME NEW g \in Tasks PROVE Stays(g)
      OBVIOUS
    <3>1. run[g] = "done" => run'[g] = "done" /\ g # t
      BY <1>1, <1>4
    <3>2. Settled(g) /\ OwnSecond(g) => Settled(g)'
      BY <2>4, <2>9, <3>1 DEF Settled, Made
    <3> QED
      BY <1>3, <3>1, <3>2, OwnSecondKept DEF Stays
  <2>11. \A g \in Tasks : OwnArchive(g)'
    <3> SUFFICES ASSUME NEW g \in Tasks, OwnSecond(g) PROVE OwnArchive(g)'
      BY <1>3, OwnSecondKept DEF OwnArchive
    <3>1. CASE g = t
      <4>1. t \notin archives[t].by
        BY <1>1 DEF AgentInv, NamesMatch
      <4>2. archives[t] = NoArchive
        BY <4>1 DEF AgentInv, NamesMatch
      <4>3. i = t
        <5>1. i = t \/ OwnSecond(t)
          BY <3>1
        <5> QED
          BY <1>2, <3>1, <5>1 DEF OwnSecond
      <4>4. dir[s] \subseteq {t}
        <5>1. \A u \in dir[s] : u \in Tasks /\ name[u] = s
          BY <1>1 DEF AgentInv, AgentTypeOK, NamesMatch
        <5> QED
          BY <3>1, <5>1 DEF OwnSecond
      <4>5. ~inUse
        BY <4>2, <4>3 DEF NoArchive
      <4>6. opened = Draft(t)
        BY <4>2, <4>3, <4>4, <4>5 DEF opened, NoArchive, Draft
      <4>7. archivePath # s
        BY <1>1, <3>1 DEF AgentInv, OwnArchive, Settled
      <4> QED
        BY <1>3, <2>4, <3>1, <4>3, <4>6, <4>7 DEF OwnArchive, Draft
    <3>2. CASE g # t
      <4>1. run'[g] = run[g] /\ archives'[g] = archives[g] /\ name[g] # s
            /\ (name[g] \in Seconds => entry'[name[g]] = entry[name[g]])
        BY <1>8, <2>4, <2>9, <3>2 DEF AgentInv, AgentTypeOK
      <4>2. name[g] \in Seconds
        BY DEF AgentInv, AgentTypeOK, OwnSecond
      <4> QED
        BY <1>3, <4>1, <4>2 DEF AgentInv, OwnArchive, Settled, Made, Draft
    <3> QED
      BY <3>1, <3>2
  <2> QED
    BY <1>5, <1>6, <2>3, <2>8, <2>10, <2>11 DEF AgentInv
<1> QED
  BY <1>7, <1>8 DEF OpenArchiveFile, SetError

LEMMA CloseArchiveKeepsAgent ==
  ASSUME AgentInv, NEW t \in Tasks, CloseArchive(t)
  PROVE  AgentInv' /\ \A g \in Tasks : Stays(g)
<1> DEFINE s == name[t]
           closed(i) == [archives[i] EXCEPT !.state = "whole", !.data = @ \cup dir[s]]
           mine(i) == t \in archives[i].by /\ archives[i].state = "partial"
<1>1. run[t] = "tarring" /\ s \in Seconds /\ s # 0
  BY DEF CloseArchive, AgentInv, AgentTypeOK, NamedInTime
<1>2. UNCHANGED <<archivePath, name, entry>>
  BY DEF CloseArchive
<1>3. \A u \in Tasks : u # t => run'[u] = run[u]
  BY DEF CloseArchive, SetError, AgentInv, AgentTypeOK
<1>4. NamedInTime'
  BY <1>1, <1>2 DEF CloseArchive, SetError, AgentInv, AgentTypeOK, NamedInTime
<1>5. GatheringMeansWorking' /\ PathIsNamed' /\ (status' = "serving" => archivePath' # 0)
  BY DEF CloseArchive, SetError, AgentInv, AgentTypeOK, GatheringMeansWorking, Gathering, PathIsNamed
<1>6. \A j \in Tasks : archives[j].by \subseteq Tasks /\ archives[j] \in Archives
  BY DEF AgentInv, AgentTypeOK, Archives
<1>7. CASE UNCHANGED <<dir, archives>> /\ status' = "error" /\ run' = [run EXCEPT ![t] = "done"]
  <2>1. AgentTypeOK'
    BY <1>2, <1>7 DEF AgentInv, AgentTypeOK, RunStates
  <2>2. NamesMatch'
    <3>1. \A u \in Tasks : run[u] \in {"tarring", "publish", "done", "lost"} =>
                           run'[u] \in {"tarring", "publish", "done", "lost"}
      BY <1>3, <1>7 DEF AgentInv, AgentTypeOK
    <3> QED
      BY <1>2, <1>6, <1>7, <3>1 DEF AgentInv, NamesMatch
  <2>3. \A g \in Tasks : Stays(g)
    BY <1>1, <1>2, <1>3, <1>7, OwnSecondKept DEF Stays, Settled, Made
  <2>4. \A g \in Tasks : OwnArchive(g)'
    <3> SUFFICES ASSUME NEW g \in Tasks PROVE OwnArchive(g)'
      OBVIOUS
    <3>1. run'[g] = run[g] \/ (run'[g] = "done" /\ run[g] = "tarring")
      BY <1>1, <1>7 DEF AgentInv, AgentTypeOK
    <3> QED
      BY <1>2, <1>7, <3>1, OwnSecondKept DEF AgentInv, OwnArchive, Settled, Made, Draft
  <2> QED
    BY <1>4, <1>5, <2>1, <2>2, <2>3, <2>4 DEF AgentInv
<1>8. CASE /\ archives' = [i \in Tasks |-> IF mine(i) THEN closed(i) ELSE archives[i]]
           /\ dir' = [dir EXCEPT ![s] = {}]
           /\ run' = [run EXCEPT ![t] = "publish"] /\ UNCHANGED status
  <2>1. \A i \in Tasks : /\ closed(i).state = "whole" /\ closed(i).by = archives[i].by
                         /\ closed(i).data = archives[i].data \cup dir[s]
                         /\ closed(i) \in Archives
    <3> SUFFICES ASSUME NEW i \in Tasks
                 PROVE  /\ closed(i).state = "whole" /\ closed(i).by = archives[i].by
                        /\ closed(i).data = archives[i].data \cup dir[s]
                        /\ closed(i) \in Archives
      OBVIOUS
    <3>1. archives[i] \in [state: FileStates, by: SUBSET Tasks, data: SUBSET Tasks]
      BY <1>6 DEF Archives
    <3>2. archives[i].data \cup dir[s] \in SUBSET Tasks /\ "whole" \in FileStates
      BY <1>1, <3>1 DEF AgentInv, AgentTypeOK, FileStates
    <3> QED
      BY <3>1, <3>2 DEF Archives
  <2>2. \A i \in Tasks : archives'[i] = IF mine(i) THEN closed(i) ELSE archives[i]
    BY <1>8
  <2>3. run'[t] = "publish" /\ \A r \in Seconds : dir'[r] = IF r = s THEN {} ELSE dir[r]
    BY <1>1, <1>8 DEF AgentInv, AgentTypeOK
  <2>4. AgentTypeOK'
    <3>1. archives' \in [Tasks -> Archives]
      BY <1>6, <1>8, <2>1
    <3>2. dir' \in [Seconds -> SUBSET Tasks]
      BY <1>8 DEF AgentInv, AgentTypeOK
    <3> QED
      BY <1>2, <1>8, <3>1, <3>2 DEF AgentInv, AgentTypeOK, RunStates, Gathering
  <2> HIDE DEF closed
  <2>5. NamesMatch'
    <3>1. \A r \in Seconds : \A u \in dir'[r] : name'[u] = r
      BY <1>2, <2>3 DEF AgentInv, NamesMatch
    <3>2. \A r \in Seconds : entry'[r] # None =>
            name'[entry'[r]] = r /\ entry'[r] \in archives'[entry'[r]].by
      <4> SUFFICES ASSUME NEW r \in Seconds, entry[r] # None
                   PROVE  name[entry[r]] = r /\ entry[r] \in archives'[entry[r]].by
        BY <1>2
      <4>1. entry[r] \in Tasks /\ name[entry[r]] = r /\ entry[r] \in archives[entry[r]].by
        BY DEF AgentInv, AgentTypeOK, NamesMatch
      <4> QED
        BY <2>1, <2>2, <4>1
    <3>3. \A j \in Tasks : \/ archives'[j] = NoArchive
                           \/ /\ j \in archives'[j].by /\ j \in archives'[j].data
                              /\ archives'[j].state # "absent" /\ name'[j] # 0
      <4> SUFFICES ASSUME NEW j \in Tasks
                   PROVE  \/ archives'[j] = NoArchive
                          \/ /\ j \in archives'[j].by /\ j \in archives'[j].data
                             /\ archives'[j].state # "absent" /\ name[j] # 0
        BY <1>2
      <4>1. \/ archives[j] = NoArchive
            \/ /\ j \in archives[j].by /\ j \in archives[j].data
               /\ archives[j].state # "absent" /\ name[j] # 0
        BY DEF AgentInv, NamesMatch
      <4>2. archives[j] = NoArchive => ~mine(j)
        BY DEF NoArchive
      <4> QED
        BY <2>1, <2>2, <4>1, <4>2
    <3>4. \A j \in Tasks : \A u \in archives'[j].by \cup archives'[j].data : name'[u] = name'[j]
      <4> SUFFICES ASSUME NEW j \in Tasks, NEW u \in archives'[j].by \cup archives'[j].data
                   PROVE  name[u] = name[j]
        BY <1>2
      <4>1. CASE u \in archives[j].by \cup archives[j].data
        BY <4>1 DEF AgentInv, NamesMatch
      <4>2. CASE mine(j) /\ u \in dir[s]
        <5>1. name[t] = name[j] /\ name[u] = s
          BY <1>1, <4>2 DEF AgentInv, NamesMatch
        <5> QED
          BY <5>1
      <4> QED
        BY <2>1, <2>2, <4>1, <4>2
    <3>5. \A j \in Tasks : \A u \in archives'[j].by : run'[u] \in {"tarring", "publish", "done", "lost"}
      <4> SUFFICES ASSUME NEW j \in Tasks, NEW u \in archives'[j].by, u # t
                   PROVE  run'[u] \in {"tarring", "publish", "done", "lost"}
        BY <2>3
      <4>1. u \in archives[j].by /\ u \in Tasks
        BY <1>6, <2>1, <2>2
      <4> QED
        BY <1>3, <4>1 DEF AgentInv, NamesMatch
    <3> QED
      BY <3>1, <3>2, <3>3, <3>4, <3>5 DEF NamesMatch, NoArchive
  <2>6. \A g \in Tasks : g # t /\ OwnSecond(g) => archives'[g] = archives[g] /\ name[g] # s
    <3> SUFFICES ASSUME NEW g \in Tasks, g # t, OwnSecond(g)
                 PROVE  archives'[g] = archives[g] /\ name[g] # s
      OBVIOUS
    <3>1. name[g] # s
      BY DEF OwnSecond
    <3>2. ~mine(g)
      BY <3>1 DEF AgentInv, NamesMatch
    <3> QED
      BY <2>2, <3>1, <3>2
  <2>7. \A g \in Tasks : Stays(g)
    <3> SUFFICES ASSUME NEW g \in Tasks PROVE Stays(g)
      OBVIOUS
    <3>1. run[g] = "done" => run'[g] = "done" /\ g # t
      BY <1>1, <1>3
    <3>2. Settled(g) /\ OwnSecond(g) => Settled(g)'
      BY <2>6, <3>1 DEF Settled, Made
    <3> QED
      BY <1>2, <3>1, <3>2, OwnSecondKept DEF Stays
  <2>8. \A g \in Tasks : OwnArchive(g)'
    <3> SUFFICES ASSUME NEW g \in Tasks, OwnSecond(g) PROVE OwnArchive(g)'
      BY <1>2, OwnSecondKept DEF OwnArchive
    <3>1. CASE g = t
      <4>1. OwnSecond(t) /\ entry[s] = t /\ archives[t] = Draft(t) /\ archivePath # s
        BY <1>1, <3>1 DEF AgentInv, OwnArchive, Settled
      <4>2. dir[s] \subseteq {t}
        <5>1. \A u \in dir[s] : u \in Tasks /\ name[u] = s
          BY <1>1 DEF AgentInv, AgentTypeOK, NamesMatch
        <5> QED
          BY <4>1, <5>1 DEF OwnSecond
      <4>3. mine(t)
        BY <4>1 DEF Draft
      <4>4. closed(t) = Made(t)
        <5>1. archives[t].data \cup dir[s] = {t}
          BY <4>1, <4>2 DEF Draft
        <5>2. closed(t) = [Draft(t) EXCEPT !.state = "whole", !.data = {t}]
          BY <4>1, <5>1 DEF closed
        <5> QED
          BY <5>2 DEF Draft, Made
      <4> QED
        BY <1>2, <2>2, <2>3, <3>1, <4>1, <4>3, <4>4 DEF OwnArchive, Made
    <3>2. CASE g # t
      <4>1. run'[g] = run[g] /\ archives'[g] = archives[g]
        BY <1>3, <2>6, <3>2
      <4> QED
        BY <1>2, <4>1 DEF AgentInv, OwnArchive, Settled, Made, Draft
    <3> QED
      BY <3>1, <3>2
  <2> QED
    BY <1>4, <1>5, <2>4, <2>5, <2>7, <2>8 DEF AgentInv
<1> QED
  BY <1>7, <1>8 DEF CloseArchive, SetError

LEMMA PublishKeepsAgent ==
  ASSUME AgentInv, NEW t \in Tasks, Publish(t)
  PROVE  AgentInv' /\ \A g \in Tasks : Stays(g)
<1>1. /\ run[t] = "publish" /\ run' = [run EXCEPT ![t] = "done"]
      /\ status' = "serving" /\ archivePath' = name[t]
      /\ UNCHANGED <<name, dir, entry, archives>>
  BY DEF Publish, Proceed, agentFiles
<1>2. name[t] \in Seconds /\ name[t] # 0
  BY <1>1 DEF AgentInv, AgentTypeOK, NamedInTime
<1>3. AgentTypeOK'
  BY <1>1, <1>2 DEF AgentInv, AgentTypeOK, RunStates
<1>4. GatheringMeansWorking' /\ PathIsNamed' /\ archivePath' # 0
  BY <1>1, <1>2 DEF GatheringMeansWorking, PathIsNamed
<1>5. NamedInTime'
  BY <1>1, <1>2 DEF AgentInv, AgentTypeOK, NamedInTime
<1>6. run'[t] = "done" /\ \A u \in Tasks : u # t => run'[u] = run[u]
  BY <1>1 DEF AgentInv, AgentTypeOK
<1>7. NamesMatch'
  <2>1. \A i \in Tasks : archives[i].by \subseteq Tasks
    BY DEF AgentInv, AgentTypeOK, Archives
  <2>2. \A u \in Tasks : run[u] \in {"tarring", "publish", "done", "lost"} =>
                         run'[u] \in {"tarring", "publish", "done", "lost"}
    BY <1>6
  <2> QED
    BY <1>1, <2>1, <2>2 DEF AgentInv, NamesMatch
<1>8. \A g \in Tasks : Stays(g)
  BY <1>1, <1>6, OwnSecondKept DEF Stays, Settled, Made
<1>9. \A g \in Tasks : OwnArchive(g)'
  <2> SUFFICES ASSUME NEW g \in Tasks, OwnSecond(g) PROVE OwnArchive(g)'
    BY <1>1, OwnSecondKept DEF OwnArchive
  <2>1. CASE g = t
    BY <1>1, <1>6, <2>1 DEF AgentInv, OwnArchive, Settled, Made
  <2>2. CASE g # t
    <3>1. archivePath' # name[g] /\ run'[g] = run[g]
      BY <1>1, <1>6, <2>2 DEF OwnSecond
    <3> QED
      BY <1>1, <3>1 DEF AgentInv, OwnArchive, Made, Draft
  <2> QED
    BY <2>1, <2>2
<1> QED
  BY <1>3, <1>4, <1>5, <1>7, <1>8, <1>9 DEF AgentInv

LEMMA RestartKeepsAgent ==
  ASSUME AgentInv, RestartAgent
  PROVE  AgentInv' /\ \A g \in Tasks : Stays(g)
<1>1. /\ status' = "idle" /\ archivePath' = 0 /\ UNCHANGED <<name, archives>>
      /\ dir' = [s \in Seconds |-> {}] /\ entry' = [s \in Seconds |-> None]
  BY DEF RestartAgent
<1>2. \A t \in Tasks : \/ run'[t] = "lost"
                       \/ (run'[t] = "refused" /\ run[t] = "checked")
                       \/ (run'[t] = run[t] /\ run[t] \notin Gathering)
  BY DEF RestartAgent
<1>3. AgentTypeOK'
  <2>1. run' \in [Tasks -> RunStates]
    BY DEF RestartAgent, AgentInv, AgentTypeOK, RunStates
  <2> QED
    BY <1>1, <2>1 DEF AgentInv, AgentTypeOK
<1>4. NamedInTime'
  BY <1>1, <1>2 DEF AgentInv, NamedInTime
<1>5. NamesMatch'
  <2>1. \A i \in Tasks : archives[i].by \subseteq Tasks
    BY DEF AgentInv, AgentTypeOK, Archives
  <2>2. \A u \in Tasks : run[u] \in {"tarring", "publish", "done", "lost"} =>
                         run'[u] \in {"tarring", "publish", "done", "lost"}
    BY <1>2
  <2> QED
    BY <1>1, <2>1, <2>2 DEF AgentInv, NamesMatch
<1>6. \A g \in Tasks : run[g] = "done" => run'[g] = "done"
  BY DEF RestartAgent, Gathering
<1>7. \A g \in Tasks : Stays(g)
  BY <1>1, <1>6, OwnSecondKept DEF Stays, Settled, Made
<1>8. \A g \in Tasks : OwnArchive(g)'
  BY <1>1, <1>2 DEF OwnArchive, OwnSecond, Gathering
<1> QED
  BY <1>1, <1>3, <1>4, <1>5, <1>7, <1>8 DEF AgentInv, GatheringMeansWorking, PathIsNamed

LEMMA SameAgentKeepsAgent ==
  ASSUME AgentInv, UNCHANGED agent
  PROVE  AgentInv' /\ \A g \in Tasks : Stays(g)
<1>1. UNCHANGED <<status, archivePath, run, name, dir, entry, archives>>
  BY DEF agent, agentFiles
<1>2. \A g \in Tasks : Stays(g)
  BY <1>1, OwnSecondKept DEF Stays, Settled, Made
<1>3. \A g \in Tasks : OwnArchive(g)'
  BY <1>1, OwnSecondKept DEF AgentInv, OwnArchive, Settled, Made, Draft
<1> QED
  BY <1>1, <1>2, <1>3 DEF AgentInv, AgentTypeOK, GatheringMeansWorking, NamedInTime, NamesMatch,
     PathIsNamed

LEMMA AgentStep ==
  ASSUME AgentInv, [Next]_vars
  PROVE  AgentInv' /\ \A g \in Tasks : Stays(g)
<1>1. ASSUME NEW t \in Tasks, ReceiveGather(t)
      PROVE  AgentInv' /\ \A g \in Tasks : Stays(g)
  BY <1>1, HandleGatherKeepsAgent DEF ReceiveGather
<1>2. ASSUME NEW t \in Tasks, AgentWorks(t)
      PROVE  AgentInv' /\ \A g \in Tasks : Stays(g)
  BY <1>2, BeginGatherKeepsAgent, NameGatherKeepsAgent, OpenArchiveFileKeepsAgent,
     CloseArchiveKeepsAgent, PublishKeepsAgent DEF AgentWorks, RunGather
<1>3. ASSUME NEW t \in Tasks, CollectionEnds(t)
      PROVE  AgentInv' /\ \A g \in Tasks : Stays(g)
  BY <1>3, EndCollectionKeepsAgent DEF CollectionEnds
<1>4. CASE AgentRestarts
  BY <1>4, RestartKeepsAgent DEF AgentRestarts
<1>5. ASSUME NEW t \in Tasks, PostGather(t) \/ PostFails(t) \/ RegisterJob(t) \/ Poll(t)
                             \/ Retrieve(t) \/ DeleteJob(t)
      PROVE  UNCHANGED agent
  BY <1>5 DEF PostGather, PostFails, RegisterJob, Poll, PollTimedOut, PollAnswered,
     PollFailed, PollReconnected, Retrieve, RequestArchive, OpenArchive, RetrievalFails,
     EndDownload, AnonymizeFails, Repack, EndRepack, RenameArchive, FinishRetrieval, DeleteJob
<1>6. HubRestarts \/ Quiescent \/ UNCHANGED vars => UNCHANGED agent
  BY DEF HubRestarts, Quiescent, vars
<1> QED
  BY <1>1, <1>2, <1>3, <1>4, <1>5, <1>6, SameAgentKeepsAgent DEF Next

-----------------------------------------------------------------------------
(* The hub *)

(* The phase of a listed job tells where its poller is; a task without a   *)
(* job has no phase yet.                                                   *)
PhaseOK(t) ==
  /\ hub[t] \in {"idle", "posted", "refused"} => phase[t] = "none" /\ t \notin jobs
  /\ t \in jobs =>
       /\ hub[t] # "lost"
       /\ hub[t] = "poll" => phase[t] = "gathering"
       /\ hub[t] \in {"request", "open", "stream"} => phase[t] = "downloading"
       /\ hub[t] \in {"anonymize", "repack", "rename"} => phase[t] = "anonymizing"
       /\ hub[t] = "finish" => phase[t] \in {"downloading", "anonymizing"}
       /\ hub[t] = "end" => phase[t] \in {"complete", "failed"}

(* A retrieval names its file when it begins, and "-anonymized" at its end.*)
StampOK(t) ==
  /\ hub[t] \in {"idle", "posted", "refused", "poll"} => stamp[t] = 0
  /\ hub[t] \in Retrieving => stamp[t] # 0
  /\ named[t] => hub[t] \in {"finish", "end", "lost"}
  /\ named[t] \/ hub[t] \in {"anonymize", "repack", "rename"} => t \in Anonymized

(* Files are named, and written, by retrievals of their second.            *)
DiskOK ==
  \A p \in Paths : /\ disk[p] = NoFile \/ \E u \in Tasks : stamp[u] = p[1]
                   /\ \A u \in disk[p].writers : stamp[u] = p[1]

(* What the agent answers with: the path of a gather that, if it shares    *)
(* its second with no other, is over and has left its archive ...          *)
Published(s) == \E g \in Tasks : name[g] = s /\ name[g] # 0 /\ (OwnSecond(g) => Settled(g))

(* ... and its file.                                                       *)
Opened(r) ==
  /\ r.file \in Tasks /\ name[r.file] # 0
  /\ r.was.state # "absent" /\ r.file \in r.was.data
  /\ \A u \in r.was.data : name[u] = name[r.file]
  /\ OwnSecond(r.file) => Settled(r.file) /\ r.was = Made(r.file)

Copied(f) ==
  /\ f.state # "absent" /\ f.data # {}
  /\ \A g \in f.data :
       /\ name[g] # 0
       /\ OwnSecond(g) => f.state = "whole" /\ f.data = {g} /\ run[g] = "done"

Masked(f) == f.masked /\ f.state = "whole" /\ f.writers = {}

Repacking(t, f) == f.masked /\ f.state = "partial" /\ f.writers = {t}

(* As long as a retrieval shares its second with no other, its files are   *)
(* as far as the retrieval is.                                             *)
OwnFile(t) ==
  /\ hub[t] \in {"request", "open"} => disk[Download(t)] = NoFile
  /\ hub[t] = "stream" => disk[Download(t)] = Create(t, NoFile)
  /\ hub[t] = "repack" => Repacking(t, disk[Download(t)])
  /\ hub[t] = "rename" => Masked(disk[Download(t)])
  /\ t \notin Anonymized /\ (hub[t] = "finish" \/ (t \in jobs /\ phase[t] = "complete")) =>
       Copied(disk[Download(t)])
  /\ disk[<<stamp[t], TRUE>>] = NoFile \/ Masked(disk[<<stamp[t], TRUE>>])

FileOK(t) ==
  /\ hub[t] = "open" => Published(source[t].path)
  /\ hub[t] = "stream" => Opened(source[t])
  /\ OwnStamp(t) => OwnFile(t)

RemoteInv ==
  /\ TypeOK
  /\ AgentInv
  /\ DiskOK
  /\ \A t \in Tasks : PhaseOK(t) /\ StampOK(t) /\ FileOK(t)

LEMMA NoFileIsFile ==
  /\ NoFile \in Files /\ NoFile.state = "absent" /\ NoFile.writers = {}
  /\ [NoFile EXCEPT !.writers = {}] = NoFile
  /\ \A t \in Tasks : Create(t, NoFile) = [state |-> "partial", data |-> {}, masked |-> FALSE, writers |-> {t}]
  /\ \A t \in Tasks : \A f \in Files : Create(t, f) \in Files /\ Create(t, f).writers = f.writers \cup {t}
<1>1. /\ NoFile \in Files /\ NoFile.state = "absent" /\ NoFile.writers = {}
      /\ [NoFile EXCEPT !.writers = {}] = NoFile
  BY DEF NoFile, Files, FileStates
<1>2. \A t \in Tasks : Create(t, NoFile) = [state |-> "partial", data |-> {}, masked |-> FALSE, writers |-> {t}]
  BY <1>1 DEF Create
<1>3. ASSUME NEW t \in Tasks, NEW f \in Files
      PROVE  Create(t, f) \in Files /\ Create(t, f).writers = f.writers \cup {t}
  <2> DEFINE s == IF f.writers = {} THEN "partial" ELSE "mixed"
  <2>1. Create(t, f) = [state |-> s, data |-> {}, masked |-> FALSE, writers |-> f.writers \cup {t}]
    BY DEF Create
  <2>2. f.writers \cup {t} \in SUBSET Tasks
    BY DEF Files
  <2> QED
    BY <2>1, <2>2 DEF Files, FileStates
<1> QED
  BY <1>1, <1>2, <1>3

LEMMA RemoteInitial == Init => RemoteInv
<1> SUFFICES ASSUME Init PROVE RemoteInv
  OBVIOUS
<1>1. AgentInv
  BY AgentInitial DEF Init
<1>2. TypeOK
  <2>1. NoSource \in Sources
    BY DEF NoSource, Sources, NoArchive, Archives, FileStates
  <2> QED
    BY <1>1, <2>1, NoFileIsFile DEF Init, TypeOK, AgentInv, HubStates, Phases
<1>3. DiskOK
  BY NoFileIsFile DEF Init, DiskOK
<1>4. \A t \in Tasks : PhaseOK(t) /\ StampOK(t) /\ FileOK(t)
  BY DEF Init, PhaseOK, StampOK, FileOK, OwnStamp, Retrieving
<1> QED
  BY <1>1, <1>2, <1>3, <1>4 DEF RemoteInv

(* What a step of task t leaves alone.                                     *)
Others(t) ==
  /\ UNCHANGED agent
  /\ \A u \in Tasks \ {t} : /\ hub'[u] = hub[u] /\ phase'[u] = phase[u]
                            /\ source'[u] = source[u]
                            /\ stamp'[u] = stamp[u] /\ named'[u] = named[u]
                            /\ u \in jobs' <=> u \in jobs
  /\ stamp[t] # 0 => stamp'[t] = stamp[t]
  /\ \A p \in Paths :
       IF p[1] = stamp'[t] THEN \A u \in disk'[p].writers : u = t \/ (u \in Tasks /\ stamp[u] = p[1])
                           ELSE disk'[p] = disk[p]

LEMMA OthersKept ==
  ASSUME RemoteInv, NEW t \in Tasks, Others(t), TypeOK',
         PhaseOK(t)', StampOK(t)', FileOK(t)'
  PROVE  RemoteInv'
<1>1. AgentInv' /\ UNCHANGED <<name, run, archives>>
  BY SameAgentKeepsAgent DEF RemoteInv, Others, agent, agentFiles
<1>2. \A p \in Paths : p[1] \in Seconds /\ p[1] # 0
  BY DEF Paths, Seconds
<1>3. DiskOK'
  <2> SUFFICES ASSUME NEW p \in Paths
               PROVE  /\ disk'[p] = NoFile \/ \E u \in Tasks : stamp'[u] = p[1]
                      /\ \A u \in disk'[p].writers : stamp'[u] = p[1]
    BY DEF DiskOK, NoFile
  <2>1. \A u \in Tasks : stamp[u] = p[1] => stamp'[u] = p[1]
    BY <1>2 DEF Others
  <2>2. CASE p[1] = stamp'[t]
    BY <2>1, <2>2 DEF Others
  <2>3. CASE p[1] # stamp'[t]
    <3>1. disk'[p] = disk[p] /\ disk[p].writers \subseteq Tasks
      BY <2>3 DEF Others, RemoteInv, TypeOK, Files
    <3> QED
      BY <2>1, <3>1 DEF RemoteInv, DiskOK
  <2> QED
    BY <2>2, <2>3
<1>4. ASSUME NEW u \in Tasks, u # t PROVE PhaseOK(u)' /\ StampOK(u)' /\ FileOK(u)'
  <2>1. PhaseOK(u) /\ StampOK(u) /\ FileOK(u)
    BY DEF RemoteInv
  <2>2. PhaseOK(u)' /\ StampOK(u)'
    BY <1>4, <2>1 DEF Others, PhaseOK, StampOK
  <2>3. \A g \in Tasks : OwnSecond(g)' <=> OwnSecond(g)
    BY <1>1, OwnSecondKept
  <2>4. (hub[u] = "open" => Published(source[u].path))' /\ (hub[u] = "stream" => Opened(source[u]))'
    <3>1. /\ source'[u] = source[u] /\ hub'[u] = hub[u]
          /\ source[u].was.data \subseteq Tasks
      BY <1>4 DEF Others, RemoteInv, TypeOK, Sources, Archives
    <3>2. \A g \in Tasks : Settled(g) => Settled(g)'
      BY <1>1 DEF Settled, Made
    <3>3. (hub[u] = "open" => Published(source[u].path))'
      BY <1>1, <2>1, <2>3, <3>1, <3>2 DEF FileOK, Published
    <3>4. (hub[u] = "stream" => Opened(source[u]))'
      BY <1>1, <2>1, <2>3, <3>1, <3>2 DEF FileOK, Opened, Made
    <3> QED
      BY <3>3, <3>4
  <2>5. ASSUME OwnStamp(u)' PROVE OwnFile(u)'
    <3>1. stamp'[u] = stamp[u] /\ stamp[u] # 0 /\ stamp'[t] # stamp[u] /\ stamp[u] \in Seconds
      BY <1>4, <2>5 DEF Others, OwnStamp, RemoteInv, TypeOK
    <3>2. OwnStamp(u)
      BY <1>4, <2>5, <3>1 DEF Others, OwnStamp
    <3>3. \A b \in BOOLEAN : disk'[<<stamp[u], b>>] = disk[<<stamp[u], b>>]
      <4> SUFFICES ASSUME NEW b \in BOOLEAN PROVE disk'[<<stamp[u], b>>] = disk[<<stamp[u], b>>]
        OBVIOUS
      <4> DEFINE p == <<stamp[u], b>>
      <4>1. p \in Paths /\ p[1] = stamp[u]
        BY <3>1 DEF Paths
      <4> QED
        BY <3>1, <4>1 DEF Others
    <3>4. OwnFile(u)
      BY <2>1, <3>2 DEF FileOK
    <3>5. \A g \in Tasks : name'[g] = name[g] /\ run'[g] = run[g]
      BY <1>1
    <3>6. /\ hub'[u] = hub[u] /\ phase'[u] = phase[u] /\ Download(u)' = Download(u)
          /\ u \in jobs' <=> u \in jobs
      BY <1>4, <3>1 DEF Others, Download
    <3>7. disk[Download(u)].data \subseteq Tasks
      <4>1. Download(u) \in Paths
        BY <3>1 DEF Download, Paths
      <4> QED
        BY <4>1 DEF RemoteInv, TypeOK, Files
    <3>8. disk'[Download(u)] = disk[Download(u)]
      BY <3>3 DEF Download
    <3>9. Copied(disk[Download(u)]) => Copied(disk[Download(u)])'
      BY <2>3, <3>5, <3>6, <3>7, <3>8 DEF Copied
    <3>10. disk'[<<stamp'[u], TRUE>>] = disk[<<stamp[u], TRUE>>]
      BY <3>1, <3>3
    <3>11. Repacking(u, disk[Download(u)]) => Repacking(u, disk[Download(u)])'
      BY <3>6, <3>8 DEF Repacking
    <3>12. Masked(disk[Download(u)]) => Masked(disk[Download(u)])'
      BY <3>6, <3>8 DEF Masked
    <3>13. disk[<<stamp[u], TRUE>>] = NoFile \/ Masked(disk[<<stamp[u], TRUE>>]) =>
             (disk[<<stamp[u], TRUE>>] = NoFile \/ Masked(disk[<<stamp[u], TRUE>>]))'
      BY <3>10 DEF Masked, NoFile
    <3>14. (disk[Download(u)] = NoFile)' <=> disk[Download(u)] = NoFile
      BY <3>6, <3>8 DEF NoFile
    <3>15. (disk[Download(u)] = Create(u, NoFile))' <=> disk[Download(u)] = Create(u, NoFile)
      BY <3>6, <3>8 DEF Create, NoFile
    <3> QED
      BY <3>4, <3>6, <3>9, <3>11, <3>12, <3>13, <3>14, <3>15 DEF OwnFile
  <2> QED
    BY <2>2, <2>4, <2>5 DEF FileOK
<1> QED
  BY <1>1, <1>3, <1>4 DEF RemoteInv

(* The types of what a step of the hub leaves alone                        *)
LEMMA AgentTypeKept ==
  ASSUME AgentTypeOK, UNCHANGED agent
  PROVE  AgentTypeOK'
BY DEF AgentTypeOK, agent, agentFiles

(* Before a file has its name, nothing is said of it.                      *)
LEMMA NoStampFileOK ==
  ASSUME NEW t \in Tasks, stamp'[t] = 0, hub'[t] \notin {"open", "stream"}
  PROVE  FileOK(t)'
BY DEF FileOK, OwnStamp

(* A step that changes no file                                             *)
LEMMA SameFilesOthers ==
  ASSUME RemoteInv, NEW t \in Tasks, UNCHANGED <<agent, hubFiles>>,
         \A u \in Tasks \ {t} : /\ hub'[u] = hub[u] /\ phase'[u] = phase[u]
                                /\ source'[u] = source[u]
                                /\ u \in jobs' <=> u \in jobs
  PROVE  Others(t)
<1>1. UNCHANGED <<stamp, named, disk>>
  BY DEF hubFiles
<1>2. \A p \in Paths : \A u \in disk[p].writers : u \in Tasks /\ stamp[u] = p[1]
  BY DEF RemoteInv, TypeOK, Files, DiskOK
<1>3. \A p \in Paths : disk'[p] = disk[p]
  BY <1>1
<1> QED
  BY <1>1, <1>2, <1>3 DEF Others

LEMMA SameFilesOwnFile ==
  ASSUME RemoteInv, NEW t \in Tasks, UNCHANGED <<agent, hubFiles>>,
         \/ hub[t] = "request" /\ hub'[t] = "open"
         \/ hub'[t] \in {"finish", "end"},
         t \notin Anonymized /\ (hub'[t] = "finish" \/ (t \in jobs' /\ phase'[t] = "complete")) =>
           hub[t] = "finish" \/ (t \in jobs /\ phase[t] = "complete")
  PROVE  OwnStamp(t)' => OwnFile(t)'
<1> SUFFICES ASSUME OwnStamp(t)' PROVE OwnFile(t)'
  OBVIOUS
<1>1. UNCHANGED <<stamp, named, disk, name, run>>
  BY DEF hubFiles, agent, agentFiles
<1>2. OwnStamp(t) /\ OwnFile(t)
  BY <1>1 DEF OwnStamp, RemoteInv, FileOK
<1>3. Download(t)' = Download(t) /\ disk'[Download(t)] = disk[Download(t)]
  BY <1>1 DEF Download
<1>4. Copied(disk[Download(t)]) => Copied(disk[Download(t)])'
  BY <1>1, <1>3, OwnSecondKept DEF Copied, OwnSecond
<1>5. (disk[<<stamp[t], TRUE>>] = NoFile \/ Masked(disk[<<stamp[t], TRUE>>])) =>
      (disk[<<stamp[t], TRUE>>] = NoFile \/ Masked(disk[<<stamp[t], TRUE>>]))'
  BY <1>1 DEF Masked, NoFile
<1>6. disk[Download(t)] = NoFile => (disk[Download(t)] = NoFile)'
  BY <1>3 DEF NoFile
<1> QED
  BY <1>2, <1>3, <1>4, <1>5, <1>6 DEF OwnFile

LEMMA PostGatherKeeps ==
  ASSUME RemoteInv, NEW t \in Tasks, PostGather(t)
  PROVE  RemoteInv'
<1> USE DEF PostGather, Goto, poller
<1>1. TypeOK /\ PhaseOK(t) /\ StampOK(t)
  BY DEF RemoteInv
<1>2. Others(t)
  BY <1>1, SameFilesOthers DEF TypeOK
<1>3. TypeOK'
  BY <1>1, AgentTypeKept DEF TypeOK, HubStates, Retrieving, Phases, hubFiles
<1>4. PhaseOK(t)' /\ StampOK(t)'
  BY <1>1 DEF PhaseOK, StampOK, TypeOK, Retrieving, hubFiles
<1>5. FileOK(t)'
  BY <1>1, NoStampFileOK DEF StampOK, TypeOK, hubFiles
<1> QED
  BY <1>2, <1>3, <1>4, <1>5, OthersKept

LEMMA PostFailsKeeps ==
  ASSUME RemoteInv, NEW t \in Tasks, PostFails(t)
  PROVE  RemoteInv'
<1> USE DEF PostFails, Goto, poller
<1>1. TypeOK /\ PhaseOK(t) /\ StampOK(t)
  BY DEF RemoteInv
<1>2. Others(t)
  BY <1>1, SameFilesOthers DEF TypeOK
<1>3. TypeOK'
  BY <1>1, AgentTypeKept DEF TypeOK, HubStates, Retrieving, Phases, hubFiles
<1>4. PhaseOK(t)' /\ StampOK(t)'
  BY <1>1 DEF PhaseOK, StampOK, TypeOK, Retrieving, hubFiles
<1>5. FileOK(t)'
  BY <1>1, NoStampFileOK DEF StampOK, TypeOK, hubFiles
<1> QED
  BY <1>2, <1>3, <1>4, <1>5, OthersKept

LEMMA RegisterJobKeeps ==
  ASSUME RemoteInv, NEW t \in Tasks, RegisterJob(t)
  PROVE  RemoteInv'
<1> USE DEF RegisterJob, Goto, poller
<1>1. TypeOK /\ PhaseOK(t) /\ StampOK(t)
  BY DEF RemoteInv
<1>2. Others(t)
  BY <1>1, SameFilesOthers DEF TypeOK
<1>3. TypeOK'
  BY <1>1, AgentTypeKept DEF TypeOK, HubStates, Retrieving, Phases, hubFiles
<1>4. PhaseOK(t)' /\ StampOK(t)'
  BY <1>1 DEF PhaseOK, StampOK, TypeOK, Retrieving, hubFiles
<1>5. FileOK(t)'
  BY <1>1, NoStampFileOK DEF StampOK, TypeOK, hubFiles
<1> QED
  BY <1>2, <1>3, <1>4, <1>5, OthersKept

LEMMA PollTimedOutKeeps ==
  ASSUME RemoteInv, NEW t \in Tasks, PollTimedOut(t)
  PROVE  RemoteInv'
<1> USE DEF PollTimedOut, FailJob, Goto, SetJobStatus, StopPolling, poller
<1>1. TypeOK /\ PhaseOK(t) /\ StampOK(t)
  BY DEF RemoteInv
<1>2. Others(t)
  BY <1>1, SameFilesOthers DEF TypeOK
<1>3. TypeOK'
  BY <1>1, AgentTypeKept DEF TypeOK, HubStates, Retrieving, Phases, hubFiles
<1>4. PhaseOK(t)' /\ StampOK(t)'
  BY <1>1 DEF PhaseOK, StampOK, TypeOK, Retrieving, hubFiles
<1>5. FileOK(t)'
  BY <1>1, NoStampFileOK DEF StampOK, TypeOK, hubFiles
<1> QED
  BY <1>2, <1>3, <1>4, <1>5, OthersKept

LEMMA PollFailedKeeps ==
  ASSUME RemoteInv, NEW t \in Tasks, PollFailed(t)
  PROVE  RemoteInv'
<1> USE DEF PollFailed, FailJob, Goto, SetJobStatus, StopPolling, TimePasses, poller
<1>1. TypeOK /\ PhaseOK(t) /\ StampOK(t)
  BY DEF RemoteInv
<1>2. Others(t)
  BY <1>1, SameFilesOthers DEF TypeOK
<1>3. TypeOK'
  BY <1>1, AgentTypeKept DEF TypeOK, HubStates, Retrieving, Phases, hubFiles
<1>4. PhaseOK(t)' /\ StampOK(t)'
  BY <1>1 DEF PhaseOK, StampOK, TypeOK, Retrieving, hubFiles
<1>5. FileOK(t)'
  BY <1>1, NoStampFileOK DEF StampOK, TypeOK, hubFiles
<1> QED
  BY <1>2, <1>3, <1>4, <1>5, OthersKept

LEMMA PollReconnectedKeeps ==
  ASSUME RemoteInv, NEW t \in Tasks, PollReconnected(t)
  PROVE  RemoteInv'
<1> USE DEF PollReconnected, TimePasses, poller
<1>1. TypeOK /\ PhaseOK(t) /\ StampOK(t)
  BY DEF RemoteInv
<1>2. Others(t)
  BY <1>1, SameFilesOthers DEF TypeOK
<1>3. TypeOK'
  BY <1>1, AgentTypeKept DEF TypeOK, HubStates, Retrieving, Phases, hubFiles
<1>4. PhaseOK(t)' /\ StampOK(t)'
  BY <1>1 DEF PhaseOK, StampOK, TypeOK, Retrieving, hubFiles
<1>5. FileOK(t)'
  BY <1>1, NoStampFileOK DEF StampOK, TypeOK, hubFiles
<1> QED
  BY <1>2, <1>3, <1>4, <1>5, OthersKept

LEMMA RequestArchiveKeeps ==
  ASSUME RemoteInv, NEW t \in Tasks, RequestArchive(t)
  PROVE  RemoteInv'
<1> USE DEF RequestArchive, Goto, Downloadable
<1>1. TypeOK /\ AgentInv /\ PhaseOK(t) /\ StampOK(t)
  BY DEF RemoteInv
<1>2. Others(t)
  BY <1>1, SameFilesOthers DEF TypeOK
<1>3. TypeOK'
  <2>1. source' \in [Tasks -> Sources]
    <3>1. archivePath \in Seconds \cup {0} /\ source[t] \in Sources
      BY <1>1 DEF TypeOK, AgentTypeOK
    <3>2. [source[t] EXCEPT !.path = archivePath] \in Sources
      BY <3>1 DEF Sources
    <3> QED
      BY <1>1, <3>2 DEF TypeOK
  <2> QED
    BY <1>1, <2>1, AgentTypeKept DEF TypeOK, HubStates, Retrieving, hubFiles
<1>4. PhaseOK(t)' /\ StampOK(t)'
  BY <1>1 DEF PhaseOK, StampOK, TypeOK, Retrieving, hubFiles
<1>5. FileOK(t)'
  <2>1. hub'[t] = "open" /\ source'[t].path = archivePath /\ archivePath # 0
    BY <1>1 DEF TypeOK, Sources
  <2>2. Published(archivePath)
    BY <1>1, <2>1 DEF AgentInv, PathIsNamed, OwnArchive, Published
  <2>3. Published(source[t].path)'
    <3>1. UNCHANGED <<name, run, archives>>
      BY DEF agent, agentFiles
    <3>2. \A g \in Tasks : Settled(g)' <=> Settled(g)
      BY <3>1 DEF Settled, Made
    <3> QED
      BY <2>1, <2>2, <3>1, <3>2, OwnSecondKept DEF Published
  <2>4. OwnStamp(t)' => OwnFile(t)'
    BY <1>1, <2>1, SameFilesOwnFile DEF PhaseOK, TypeOK
  <2> QED
    BY <2>1, <2>3, <2>4 DEF FileOK
<1> QED
  BY <1>2, <1>3, <1>4, <1>5, OthersKept

LEMMA RetrievalFailsKeeps ==
  ASSUME RemoteInv, NEW t \in Tasks, RetrievalFails(t)
  PROVE  RemoteInv'
<1> USE DEF RetrievalFails, FailJob, Goto, SetJobStatus, poller
<1>1. TypeOK /\ PhaseOK(t) /\ StampOK(t)
  BY DEF RemoteInv
<1>2. Others(t)
  BY <1>1, SameFilesOthers DEF TypeOK
<1>3. TypeOK'
  BY <1>1, AgentTypeKept DEF TypeOK, HubStates, Retrieving, Phases, hubFiles, NoSource, NoArchive, Sources, Archives, FileStates
<1>4. PhaseOK(t)' /\ StampOK(t)'
  BY <1>1 DEF PhaseOK, StampOK, TypeOK, Retrieving, hubFiles
<1>5. FileOK(t)'
  <2>1. OwnStamp(t)' => OwnFile(t)'
    BY <1>1, SameFilesOwnFile DEF PhaseOK, StampOK, TypeOK
  <2> QED
    BY <1>1, <2>1 DEF FileOK, TypeOK
<1> QED
  BY <1>2, <1>3, <1>4, <1>5, OthersKept

LEMMA AnonymizeFailsKeeps ==
  ASSUME RemoteInv, NEW t \in Tasks, AnonymizeFails(t)
  PROVE  RemoteInv'
<1> USE DEF AnonymizeFails, Goto, poller
<1>1. TypeOK /\ PhaseOK(t) /\ StampOK(t)
  BY DEF RemoteInv
<1>2. Others(t)
  BY <1>1, SameFilesOthers DEF TypeOK
<1>3. TypeOK'
  BY <1>1, AgentTypeKept DEF TypeOK, HubStates, Retrieving, Phases, hubFiles
<1>4. PhaseOK(t)' /\ StampOK(t)'
  BY <1>1 DEF PhaseOK, StampOK, TypeOK, Retrieving, hubFiles
<1>5. FileOK(t)'
  <2>1. OwnStamp(t)' => OwnFile(t)'
    BY <1>1, SameFilesOwnFile DEF PhaseOK, StampOK, TypeOK
  <2> QED
    BY <1>1, <2>1 DEF FileOK, TypeOK
<1> QED
  BY <1>2, <1>3, <1>4, <1>5, OthersKept

LEMMA FinishRetrievalKeeps ==
  ASSUME RemoteInv, NEW t \in Tasks, FinishRetrieval(t)
  PROVE  RemoteInv'
<1> USE DEF FinishRetrieval, Goto, SetJobStatus, poller
<1>1. TypeOK /\ PhaseOK(t) /\ StampOK(t)
  BY DEF RemoteInv
<1>2. Others(t)
  BY <1>1, SameFilesOthers DEF TypeOK
<1>3. TypeOK'
  BY <1>1, AgentTypeKept DEF TypeOK, HubStates, Retrieving, Phases, hubFiles
<1>4. PhaseOK(t)' /\ StampOK(t)'
  BY <1>1 DEF PhaseOK, StampOK, TypeOK, Retrieving, hubFiles
<1>5. FileOK(t)'
  <2>1. OwnStamp(t)' => OwnFile(t)'
    BY <1>1, SameFilesOwnFile DEF PhaseOK, StampOK, TypeOK
  <2> QED
    BY <1>1, <2>1 DEF FileOK, TypeOK
<1> QED
  BY <1>2, <1>3, <1>4, <1>5, OthersKept

LEMMA PollAnsweredKeeps ==
  ASSUME RemoteInv, NEW t \in Tasks, PollAnswered(t)
  PROVE  RemoteInv'
<1> USE DEF PollAnswered, FailJob, Goto, SetJobStatus
<1>1. TypeOK /\ PhaseOK(t) /\ StampOK(t) /\ stamp[t] = 0 /\ ~named[t]
  BY DEF RemoteInv, StampOK
<1>2. UNCHANGED <<agent, jobs, source, named, disk, hubRestarts, agentRestarts>>
  BY DEF agent, agentFiles
<1>3. \/ status # "serving" /\ stamp' = stamp /\ since' = since
      \/ /\ status = "serving"
         /\ \E s \in Seconds : stamp' = [stamp EXCEPT ![t] = s]
         /\ since' = [since EXCEPT ![t] = 0]
  BY DEF NameFile, Now
<1>4. Others(t)
  <2>1. \A p \in Paths : \A u \in disk[p].writers : u \in Tasks /\ stamp[u] = p[1]
    BY DEF RemoteInv, TypeOK, Files, DiskOK
  <2>2. \A u \in Tasks \ {t} : /\ hub'[u] = hub[u] /\ phase'[u] = phase[u] /\ stamp'[u] = stamp[u]
                               /\ source'[u] = source[u] /\ named'[u] = named[u]
                               /\ u \in jobs' <=> u \in jobs
    BY <1>1, <1>2, <1>3 DEF TypeOK
  <2> QED
    BY <1>1, <1>2, <2>1, <2>2 DEF Others
<1>5. TypeOK'
  BY <1>1, <1>2, <1>3, AgentTypeKept DEF TypeOK, HubStates, Retrieving, Phases
<1>6. PhaseOK(t)'
  BY <1>1, <1>2 DEF PhaseOK, TypeOK
<1>7. StampOK(t)'
  <2>1. CASE status # "serving"
    BY <1>1, <1>2, <1>3, <2>1 DEF StampOK, TypeOK, Retrieving
  <2>2. CASE status = "serving"
    <3>1. hub'[t] = "request" /\ stamp'[t] # 0 /\ ~named'[t]
      BY <1>1, <1>2, <1>3, <2>2 DEF TypeOK, Seconds
    <3> QED
      BY <3>1 DEF StampOK
  <2> QED
    BY <2>1, <2>2
<1>8. FileOK(t)'
  <2>1. CASE status # "serving"
    <3>1. stamp'[t] = 0 /\ hub'[t] \notin {"open", "stream"}
      BY <1>1, <1>3, <2>1 DEF TypeOK
    <3> QED
      BY <3>1, NoStampFileOK
  <2>2. CASE status = "serving"
    <3>1. hub'[t] = "request" /\ t \in jobs' => phase'[t] # "complete"
      BY <1>1, <1>2, <2>2 DEF PhaseOK, TypeOK
    <3>2. hub'[t] = "request"
      BY <1>1, <2>2 DEF TypeOK
    <3>3. ASSUME OwnStamp(t)' PROVE OwnFile(t)'
      <4>1. stamp'[t] \in Seconds /\ \A u \in Tasks : stamp[u] # stamp'[t]
        BY <1>1, <1>3, <2>2, <3>3 DEF OwnStamp, TypeOK, Seconds
      <4>2. \A b \in BOOLEAN : disk[<<stamp'[t], b>>] = NoFile
        <5> SUFFICES ASSUME NEW b \in BOOLEAN PROVE disk[<<stamp'[t], b>>] = NoFile
          OBVIOUS
        <5> DEFINE p == <<stamp'[t], b>>
        <5>1. p \in Paths /\ p[1] = stamp'[t]
          BY <4>1 DEF Paths
        <5> QED
          BY <4>1, <5>1 DEF RemoteInv, DiskOK
      <4>3. disk'[Download(t)'] = NoFile /\ disk'[<<stamp'[t], TRUE>>] = NoFile
        BY <1>2, <4>2 DEF Download
      <4> QED
        BY <3>1, <3>2, <4>3 DEF OwnFile, NoFile
    <3> QED
      BY <3>2, <3>3 DEF FileOK
  <2> QED
    BY <2>1, <2>2
<1> QED
  BY <1>4, <1>5, <1>6, <1>7, <1>8, OthersKept

(* A step that changes files that t writes or names                        *)
LEMMA FilesOthers ==
  ASSUME RemoteInv, NEW t \in Tasks, UNCHANGED <<agent, stamp>>,
         \A u \in Tasks \ {t} : /\ hub'[u] = hub[u] /\ phase'[u] = phase[u]
                                /\ source'[u] = source[u] /\ named'[u] = named[u]
                                /\ u \in jobs' <=> u \in jobs,
         \A p \in Paths : \/ disk'[p] = disk[p]
                          \/ /\ t \in disk[p].writers \/ p[1] = stamp[t]
                             /\ disk'[p].writers \subseteq disk[p].writers \cup {t}
  PROVE  Others(t)
<1>1. \A p \in Paths : \A u \in disk[p].writers : u \in Tasks /\ stamp[u] = p[1]
  BY DEF RemoteInv, TypeOK, Files, DiskOK
<1>2. \A p \in Paths :
        IF p[1] = stamp'[t] THEN \A u \in disk'[p].writers : u = t \/ (u \in Tasks /\ stamp[u] = p[1])
                            ELSE disk'[p] = disk[p]
  <2> SUFFICES ASSUME NEW p \in Paths
               PROVE  IF p[1] = stamp[t]
                        THEN \A u \in disk'[p].writers : u = t \/ (u \in Tasks /\ stamp[u] = p[1])
                        ELSE disk'[p] = disk[p]
    OBVIOUS
  <2>1. CASE disk'[p] = disk[p]
    BY <1>1, <2>1
  <2>2. CASE (t \in disk[p].writers \/ p[1] = stamp[t]) /\ disk'[p].writers \subseteq disk[p].writers \cup {t}
    BY <1>1, <2>2
  <2> QED
    BY <2>1, <2>2
<1> QED
  BY <1>2 DEF Others

LEMMA DownloadIsPath ==
  ASSUME TypeOK, NEW t \in Tasks, stamp[t] # 0
  PROVE  /\ Download(t) \in Paths /\ Download(t)[1] = stamp[t]
         /\ <<stamp[t], TRUE>> \in Paths /\ <<stamp[t], TRUE>>[1] = stamp[t]
         /\ Download(t) # <<stamp[t], TRUE>>
BY DEF TypeOK, Download, Paths

LEMMA OpenArchiveKeeps ==
  ASSUME RemoteInv, NEW t \in Tasks, OpenArchive(t)
  PROVE  RemoteInv'
<1> DEFINE s == source[t].path
           i == entry[s]
           d == Download(t)
           opened == [path |-> 0, file |-> i, was |-> archives[i]]
<1>1. TypeOK /\ AgentInv /\ PhaseOK(t) /\ StampOK(t) /\ FileOK(t)
  BY DEF RemoteInv
<1>2. /\ hub[t] = "open" /\ hub' = [hub EXCEPT ![t] = "stream"]
      /\ i # None /\ source' = [source EXCEPT ![t] = opened]
      /\ disk' = [disk EXCEPT ![d] = Create(t, disk[d])]
      /\ UNCHANGED <<agent, jobs, phase, errors, waited, since, stamp, named, hubRestarts, agentRestarts>>
  BY DEF OpenArchive, Goto
<1>3. UNCHANGED <<name, run, entry, archives>>
  BY <1>2 DEF agent, agentFiles
<1>4. /\ d \in Paths /\ d[1] = stamp[t] /\ stamp[t] # 0
      /\ d # <<stamp[t], TRUE>> /\ <<stamp[t], TRUE>> \in Paths
  BY <1>1, <1>2, DownloadIsPath DEF StampOK, Retrieving
<1>5. s \in Seconds /\ Published(s) /\ i \in Tasks
  <2>1. Published(s) /\ s \in Seconds \cup {0}
    BY <1>1, <1>2 DEF FileOK, TypeOK, Sources
  <2>2. s \in Seconds
    BY <2>1 DEF Published, Seconds
  <2> QED
    BY <1>1, <1>2, <2>1, <2>2 DEF AgentInv, AgentTypeOK
<1>6. /\ name[i] = s /\ name[i] # 0 /\ archives[i].state # "absent"
      /\ i \in archives[i].data /\ \A u \in archives[i].data : name[u] = name[i]
  <2>1. name[i] = s /\ i \in archives[i].by
    BY <1>1, <1>2, <1>5 DEF AgentInv, NamesMatch
  <2>2. archives[i] # NoArchive
    BY <2>1 DEF NoArchive
  <2> QED
    BY <1>1, <1>5, <2>1, <2>2 DEF AgentInv, NamesMatch
<1>7. OwnSecond(i) => Settled(i) /\ archives[i] = Made(i)
  <2>1. PICK g \in Tasks : name[g] = s /\ (OwnSecond(g) => Settled(g))
    BY <1>5 DEF Published
  <2>2. OwnSecond(i) => g = i
    BY <1>5, <1>6, <2>1 DEF OwnSecond
  <2> QED
    BY <2>1, <2>2 DEF Settled
<1>8. disk[d] \in Files /\ archives[i] \in Archives
  BY <1>1, <1>4, <1>5 DEF TypeOK, AgentTypeOK
<1>9. Create(t, disk[d]) \in Files /\ Create(t, disk[d]).writers = disk[d].writers \cup {t}
  BY <1>8, NoFileIsFile
<1>10. Others(t)
  <2>1. \A p \in Paths : disk'[p] = disk[p] \/ (p = d /\ disk'[p] = Create(t, disk[d]))
    BY <1>1, <1>2 DEF TypeOK
  <2>2. \A p \in Paths : \/ disk'[p] = disk[p]
                         \/ /\ t \in disk[p].writers \/ p[1] = stamp[t]
                            /\ disk'[p].writers \subseteq disk[p].writers \cup {t}
    BY <1>4, <1>9, <2>1
  <2>3. \A u \in Tasks \ {t} : /\ hub'[u] = hub[u] /\ phase'[u] = phase[u]
                               /\ source'[u] = source[u] /\ named'[u] = named[u]
                               /\ u \in jobs' <=> u \in jobs
    BY <1>1, <1>2 DEF TypeOK
  <2> QED
    BY <1>2, <2>2, <2>3, FilesOthers
<1>11. TypeOK'
  <2>1. opened \in Sources
    BY <1>5, <1>8 DEF Sources
  <2>2. source' \in [Tasks -> Sources] /\ disk' \in [Paths -> Files] /\ hub' \in [Tasks -> HubStates]
    BY <1>1, <1>2, <1>9, <2>1 DEF TypeOK, HubStates, Retrieving
  <2> QED
    BY <1>1, <1>2, <2>2, AgentTypeKept DEF TypeOK
<1>12. hub'[t] = "stream" /\ source'[t] = opened /\ disk'[d] = Create(t, disk[d])
       /\ disk'[<<stamp[t], TRUE>>] = disk[<<stamp[t], TRUE>>]
  BY <1>1, <1>2, <1>4 DEF TypeOK
<1>13. PhaseOK(t)' /\ StampOK(t)'
  BY <1>1, <1>2, <1>12 DEF PhaseOK, StampOK, Retrieving
<1>14. FileOK(t)'
  <2>1. opened.file = i /\ opened.was = archives[i]
    OBVIOUS
  <2> HIDE DEF opened
  <2>2. Opened(source[t])'
    <3>1. PICK k \in Tasks : k = i
      BY <1>5
    <3>2. OwnSecond(k)' => Settled(k)' /\ archives[k] = Made(k)
      BY <1>3, <1>7, <3>1, OwnSecondKept DEF Settled, Made
    <3>3. source'[t].file = k /\ source'[t].was = archives[k]
      BY <1>12, <2>1, <3>1
    <3> QED
      BY <1>3, <1>6, <3>1, <3>2, <3>3 DEF Opened, Made
  <2>3. ASSUME OwnStamp(t)' PROVE OwnFile(t)'
    <3>1. OwnStamp(t) /\ OwnFile(t)
      BY <1>1, <1>2, <2>3 DEF OwnStamp, FileOK
    <3>2. disk[d] = NoFile /\ (t \in jobs => phase[t] # "complete")
      BY <1>1, <1>2, <3>1 DEF OwnFile, PhaseOK
    <3>3. (disk[Download(t)] = Create(t, NoFile))'
      BY <1>2, <1>12, <3>2 DEF Download, Create, NoFile
    <3>4. (disk[<<stamp[t], TRUE>>] = NoFile \/ Masked(disk[<<stamp[t], TRUE>>]))'
      BY <1>2, <1>12, <3>1 DEF OwnFile, Masked, NoFile
    <3> QED
      BY <1>2, <1>12, <3>2, <3>3, <3>4 DEF OwnFile
  <2> QED
    BY <1>12, <2>2, <2>3 DEF FileOK
<1> QED
  BY <1>10, <1>11, <1>13, <1>14, OthersKept

(* What a stream may have brought is the archive of a gather that ended.   *)
LEMMA StreamedIsArchive ==
  ASSUME RemoteInv, NEW t \in Tasks, hub[t] = "stream", NEW got \in Streamed(t)
  PROVE  /\ got.state \in FileStates /\ got.data \subseteq Tasks
         /\ Copied([state |-> got.state, data |-> got.data, masked |-> FALSE, writers |-> {}])
<1> DEFINE r == source[t]
           i == r.file
           now == archives[i]
<1>1. TypeOK /\ AgentInv /\ Opened(r)
  BY DEF RemoteInv, FileOK
<1>2. /\ i \in Tasks /\ name[i] # 0 /\ r.was \in Archives /\ now \in Archives
      /\ r.was.state # "absent" /\ i \in r.was.data
      /\ OwnSecond(i) => Settled(i) /\ r.was = Made(i)
      /\ \A u \in r.was.data : name[u] = name[i]
  BY <1>1 DEF Opened, TypeOK, AgentTypeOK, Sources
<1>3. \A u \in now.data : name[u] = name[i]
  BY <1>1, <1>2 DEF AgentInv, NamesMatch
<1>4. \/ got = r.was
      \/ now # r.was /\ got.state \in FileStates \ {"absent"} /\ got.data = r.was.data \cup now.data
  BY DEF Streamed
<1>5. got.state \in FileStates \ {"absent"} /\ got.data \subseteq Tasks /\ i \in got.data
  BY <1>2, <1>4 DEF Archives
<1>6. ASSUME NEW g \in got.data
      PROVE  /\ name[g] # 0
             /\ OwnSecond(g) => got.state = "whole" /\ got.data = {g} /\ run[g] = "done"
  <2>1. name[g] = name[i] /\ g \in Tasks
    BY <1>2, <1>3, <1>4, <1>5
  <2>2. ASSUME OwnSecond(g) PROVE got.state = "whole" /\ got.data = {g} /\ run[g] = "done"
    <3>1. g = i
      BY <1>2, <2>1, <2>2 DEF OwnSecond
    <3>2. Settled(g) /\ r.was = Made(g) /\ now = Made(g)
      BY <1>2, <2>2, <3>1 DEF Settled
    <3> QED
      BY <1>4, <3>2 DEF Settled, Made
  <2> QED
    BY <1>2, <2>1, <2>2
<1>7. got.data # {}
  BY <1>5
<1> QED
  BY <1>5, <1>6, <1>7 DEF Copied

LEMMA WritersField ==
  ASSUME NEW f \in Files, NEW W
  PROVE  [f EXCEPT !.writers = W] =
           [state |-> f.state, data |-> f.data, masked |-> f.masked, writers |-> W]
<1>1. f = [state |-> f.state, data |-> f.data, masked |-> f.masked, writers |-> f.writers]
  BY DEF Files
<1> QED
  BY <1>1

LEMMA StateField ==
  ASSUME NEW f \in Files, NEW s
  PROVE  [f EXCEPT !.state = s] =
           [state |-> s, data |-> f.data, masked |-> f.masked, writers |-> f.writers]
<1>1. f = [state |-> f.state, data |-> f.data, masked |-> f.masked, writers |-> f.writers]
  BY DEF Files
<1> QED
  BY <1>1

LEMMA StateAndDataFields ==
  ASSUME NEW f \in Files, NEW s, NEW D
  PROVE  [f EXCEPT !.state = s, !.data = D] =
           [state |-> s, data |-> D, masked |-> f.masked, writers |-> f.writers]
<1>1. [f EXCEPT !.state = s, !.data = D] = [[f EXCEPT !.state = s] EXCEPT !.data = D]
  BY DEF Files
<1>2. [[state |-> s, data |-> f.data, masked |-> f.masked, writers |-> f.writers] EXCEPT !.data = D] =
        [state |-> s, data |-> D, masked |-> f.masked, writers |-> f.writers]
  OBVIOUS
<1> QED
  BY <1>1, <1>2, StateField, Zenon

(* What t has brought of its source to the file p                          *)
Brought(t, p, got) ==
  [state |-> got.state, data |-> got.data, masked |-> disk[p].masked, writers |-> disk[p].writers \ {t}]

(* What t has left of a file that another has written as well              *)
Closed(t, p) ==
  [state   |-> disk[p].state,  data    |-> disk[p].data,
   masked  |-> disk[p].masked, writers |-> disk[p].writers \ {t}]

LEMMA WritingEnds ==
  ASSUME RemoteInv, NEW t \in Tasks, hub[t] = "stream", EndDownload(t)
  PROVE  /\ disk' \in [Paths -> Files]
         /\ \/ /\ ~FailJob(t, "stream")
               /\ \E got \in Streamed(t) : \A p \in Paths :
                    disk'[p] = IF t \notin disk[p].writers THEN disk[p]
                               ELSE IF disk[p].state = "partial" THEN Brought(t, p, got) ELSE Closed(t, p)
            \/ /\ FailJob(t, "stream")
               /\ \A p \in Paths :
                    disk'[p] = IF p = Download(t) THEN NoFile
                               ELSE IF t \notin disk[p].writers THEN disk[p] ELSE Closed(t, p)
<1>1. TypeOK /\ \A p \in Paths : disk[p] \in Files
  BY DEF RemoteInv, TypeOK
<1>2. \A p \in Paths : Closed(t, p) \in Files
  BY <1>1 DEF Closed, Files
<1>3. \A p \in Paths : [disk[p] EXCEPT !.writers = @ \ {t}] = Closed(t, p)
  BY <1>1, WritersField DEF Closed
<1>4. CASE FailJob(t, "stream")
  <2>1. disk' = [Written(t, LAMBDA f : f) EXCEPT ![Download(t)] = NoFile]
    BY <1>4 DEF EndDownload, FailJob, Goto, RemoteInv, TypeOK
  <2>2. Written(t, LAMBDA f : f) =
          [p \in Paths |-> IF t \notin disk[p].writers THEN disk[p] ELSE Closed(t, p)]
    BY <1>3 DEF Written
  <2> QED
    BY <1>1, <1>2, <1>4, <2>1, <2>2, NoFileIsFile
<1>5. CASE ~FailJob(t, "stream")
  <2>1. PICK got \in Streamed(t) :
          disk' = Written(t, LAMBDA f : [f EXCEPT !.state = got.state, !.data = got.data])
    BY <1>5 DEF EndDownload
  <2>2. got.state \in FileStates /\ got.data \in SUBSET Tasks
    BY StreamedIsArchive
  <2>3. \A p \in Paths : Brought(t, p, got) \in Files
    BY <1>1, <2>2 DEF Brought, Files
  <2>4. \A p \in Paths :
          [[disk[p] EXCEPT !.state = got.state, !.data = got.data] EXCEPT !.writers = @ \ {t}] =
            Brought(t, p, got)
    <3> SUFFICES ASSUME NEW p \in Paths
                 PROVE  [[disk[p] EXCEPT !.state = got.state, !.data = got.data]
                           EXCEPT !.writers = @ \ {t}] = Brought(t, p, got)
      OBVIOUS
    <3>1. PICK f \in Files : f = disk[p]
      BY <1>1
    <3> DEFINE g == [state |-> got.state, data |-> got.data, masked |-> f.masked, writers |-> f.writers]
    <3>2. [f EXCEPT !.state = got.state, !.data = got.data] = g
      BY StateAndDataFields, Zenon
    <3>3. [[f EXCEPT !.state = got.state, !.data = got.data] EXCEPT !.writers = @ \ {t}] =
            [state |-> got.state, data |-> got.data, masked |-> f.masked, writers |-> f.writers \ {t}]
      <4>1. [g EXCEPT !.writers = g.writers \ {t}] =
              [state |-> got.state, data |-> got.data, masked |-> f.masked, writers |-> f.writers \ {t}]
        OBVIOUS
      <4> HIDE DEF g
      <4> QED
        BY <3>2, <4>1, Zenon
    <3> QED
      BY <3>1, <3>3, Zenon DEF Brought
  <2>5. disk' = [p \in Paths |->
                   IF t \notin disk[p].writers THEN disk[p]
                   ELSE [IF disk[p].state = "partial"
                           THEN [disk[p] EXCEPT !.state = got.state, !.data = got.data]
                           ELSE disk[p] EXCEPT !.writers = @ \ {t}]]
    BY <2>1 DEF Written
  <2>6. \A p \in Paths :
          disk'[p] = IF t \notin disk[p].writers THEN disk[p]
                     ELSE IF disk[p].state = "partial" THEN Brought(t, p, got) ELSE Closed(t, p)
    BY <1>3, <2>4, <2>5
  <2>7. disk' \in [Paths -> Files]
    <3>1. \A p \in Paths : disk'[p] \in Files
      BY <1>1, <1>2, <2>3, <2>6
    <3>2. disk' = [p \in Paths |-> disk'[p]]
      BY <2>5
    <3> QED
      BY <3>1, <3>2
  <2> QED
    BY <1>5, <2>6, <2>7
<1> QED
  BY <1>4, <1>5

LEMMA EndDownloadKeeps ==
  ASSUME RemoteInv, NEW t \in Tasks, EndDownload(t)
  PROVE  RemoteInv'
<1> DEFINE d == Download(t)
           a == <<stamp[t], TRUE>>
<1>1. TypeOK /\ AgentInv /\ PhaseOK(t) /\ StampOK(t) /\ FileOK(t)
  BY DEF RemoteInv
<1>2. /\ hub[t] = "stream" /\ source' = [source EXCEPT ![t] = NoSource]
      /\ UNCHANGED <<agent, jobs, errors, waited, since, stamp, named, hubRestarts, agentRestarts>>
  BY DEF EndDownload
<1>3. /\ d \in Paths /\ d[1] = stamp[t] /\ stamp[t] # 0 /\ a \in Paths /\ d # a
  BY <1>1, <1>2, DownloadIsPath DEF StampOK, Retrieving
<1>8. /\ \A p \in Paths \ {d} : \/ disk'[p] = disk[p]
                                \/ /\ t \in disk[p].writers
                                   /\ disk'[p].writers = disk[p].writers \ {t}
      /\ disk'[d].writers \subseteq disk[d].writers
      /\ disk' \in [Paths -> Files]
  <2>1. \A p \in Paths : \A got \in Streamed(t) :
          /\ Brought(t, p, got).writers = disk[p].writers \ {t}
          /\ Closed(t, p).writers = disk[p].writers \ {t}
    BY DEF Brought, Closed
  <2>2. Closed(t, d).writers = disk[d].writers \ {t}
    BY DEF Closed
  <2>3. disk' \in [Paths -> Files]
    BY <1>2, WritingEnds
  <2>4. CASE \E got \in Streamed(t) : \A p \in Paths :
               disk'[p] = IF t \notin disk[p].writers THEN disk[p]
                          ELSE IF disk[p].state = "partial" THEN Brought(t, p, got) ELSE Closed(t, p)
    BY <1>3, <2>1, <2>3, <2>4
  <2>5. CASE \A p \in Paths :
               disk'[p] = IF p = d THEN NoFile
                          ELSE IF t \notin disk[p].writers THEN disk[p] ELSE Closed(t, p)
    <3>1. \A p \in Paths : Closed(t, p).writers = disk[p].writers \ {t}
      BY DEF Closed
    <3> QED
      BY <1>3, <2>3, <2>5, <3>1, NoFileIsFile
  <2> QED
    BY <1>2, <2>4, <2>5, WritingEnds
<1>9. Others(t)
  <2>1. \A p \in Paths : \/ disk'[p] = disk[p]
                         \/ /\ t \in disk[p].writers \/ p[1] = stamp[t]
                            /\ disk'[p].writers \subseteq disk[p].writers \cup {t}
    BY <1>3, <1>8, NoFileIsFile
  <2>2. \A u \in Tasks \ {t} : /\ hub'[u] = hub[u] /\ phase'[u] = phase[u]
                               /\ source'[u] = source[u] /\ named'[u] = named[u]
                               /\ u \in jobs' <=> u \in jobs
    BY <1>1, <1>2 DEF EndDownload, FailJob, Goto, SetJobStatus, TypeOK
  <2> QED
    BY <1>2, <2>1, <2>2, FilesOthers
<1>10. /\ hub' \in [Tasks -> HubStates] /\ phase' \in [Tasks -> Phases]
       /\ \/ hub'[t] = "anonymize" /\ t \in jobs \cap Anonymized /\ phase'[t] = "anonymizing"
          \/ hub'[t] = "finish" /\ t \notin jobs \cap Anonymized /\ phase' = phase
          \/ hub'[t] = "end" /\ (t \in jobs => phase'[t] = "failed")
  BY <1>1 DEF EndDownload, FailJob, Goto, SetJobStatus, TypeOK, HubStates, Retrieving, Phases
<1>11. TypeOK'
  <2>1. source' \in [Tasks -> Sources]
    BY <1>1, <1>2 DEF TypeOK, NoSource, NoArchive, Sources, Archives, FileStates
  <2> QED
    BY <1>1, <1>2, <1>8, <1>10, <2>1, AgentTypeKept DEF TypeOK
<1>12. PhaseOK(t)' /\ StampOK(t)'
  BY <1>1, <1>2, <1>10 DEF PhaseOK, StampOK, Retrieving
<1>13. ASSUME OwnStamp(t)' PROVE OwnFile(t)'
  <2>1. OwnStamp(t) /\ OwnFile(t)
    BY <1>1, <1>2, <1>13 DEF OwnStamp, FileOK
  <2>2. disk[d] = Create(t, NoFile) /\ (disk[a] = NoFile \/ Masked(disk[a]))
    BY <1>2, <2>1 DEF OwnFile
  <2>3. disk'[a] = disk[a]
    <3>1. disk[a].writers = {}
      BY <2>2, NoFileIsFile DEF Masked
    <3> QED
      BY <1>3, <1>8, <3>1
  <2>4. (disk[<<stamp[t], TRUE>>] = NoFile \/ Masked(disk[<<stamp[t], TRUE>>]))'
    BY <1>2, <2>2, <2>3 DEF Masked, NoFile
  <2>5. hub'[t] = "finish" => Copied(disk[Download(t)])'
    <3> SUFFICES ASSUME hub'[t] = "finish" PROVE Copied(disk[Download(t)])'
      OBVIOUS
    <3>1. PICK got \in Streamed(t) : \A p \in Paths :
            disk'[p] = IF t \notin disk[p].writers THEN disk[p]
                       ELSE IF disk[p].state = "partial" THEN Brought(t, p, got) ELSE Closed(t, p)
      <4>1. ~FailJob(t, "stream")
        BY <1>1 DEF FailJob, Goto, TypeOK
      <4> QED
        BY <1>2, <4>1, WritingEnds
    <3>2. disk'[d] = [state |-> got.state, data |-> got.data, masked |-> FALSE, writers |-> {}]
      <4>1. /\ disk[d].state = "partial" /\ disk[d].masked = FALSE
            /\ t \in disk[d].writers /\ disk[d].writers \ {t} = {}
        BY <2>2, NoFileIsFile
      <4> QED
        BY <1>3, <3>1, <4>1 DEF Brought
    <3>3. Copied([state |-> got.state, data |-> got.data, masked |-> FALSE, writers |-> {}])
      BY <1>2, StreamedIsArchive
    <3>4. Download(t)' = d /\ UNCHANGED <<name, run>> /\ got.data \subseteq Tasks
      BY <1>2, StreamedIsArchive DEF Download, agent, agentFiles
    <3> QED
      BY <3>2, <3>3, <3>4, OwnSecondKept DEF Copied
  <2>6. t \in jobs' /\ t \notin Anonymized /\ phase'[t] = "complete" => FALSE
    BY <1>1, <1>2, <1>10 DEF PhaseOK
  <2> QED
    BY <1>10, <2>4, <2>5, <2>6 DEF OwnFile
<1>14. FileOK(t)'
  BY <1>10, <1>13 DEF FileOK
<1> QED
  BY <1>9, <1>11, <1>12, <1>14, OthersKept

LEMMA DataAndMaskedFields ==
  ASSUME NEW f \in Files, NEW D, NEW m
  PROVE  [f EXCEPT !.data = D, !.masked = m] =
           [state |-> f.state, data |-> D, masked |-> m, writers |-> f.writers]
<1>1. f = [state |-> f.state, data |-> f.data, masked |-> f.masked, writers |-> f.writers]
  BY DEF Files
<1>2. [f EXCEPT !.data = D] =
        [state |-> f.state, data |-> D, masked |-> f.masked, writers |-> f.writers]
  BY <1>1
<1>3. [f EXCEPT !.data = D, !.masked = m] = [[f EXCEPT !.data = D] EXCEPT !.masked = m]
  BY DEF Files
<1>4. [[state |-> f.state, data |-> D, masked |-> f.masked, writers |-> f.writers] EXCEPT !.masked = m] =
        [state |-> f.state, data |-> D, masked |-> m, writers |-> f.writers]
  OBVIOUS
<1> QED
  BY <1>2, <1>3, <1>4, Zenon

LEMMA RepackKeeps ==
  ASSUME RemoteInv, NEW t \in Tasks, Repack(t)
  PROVE  RemoteInv'
<1> DEFINE d == Download(t)
           a == <<stamp[t], TRUE>>
<1>1. TypeOK /\ PhaseOK(t) /\ StampOK(t) /\ FileOK(t)
  BY DEF RemoteInv
<1>2. /\ hub[t] = "anonymize" /\ hub' = [hub EXCEPT ![t] = "repack"]
      /\ UNCHANGED <<agent, jobs, phase, errors, waited, since, source, stamp, named, hubRestarts, agentRestarts>>
  BY DEF Repack, Goto, poller
<1>3. /\ d \in Paths /\ d[1] = stamp[t] /\ stamp[t] # 0 /\ a \in Paths /\ d # a
  BY <1>1, <1>2, DownloadIsPath DEF StampOK, Retrieving
<1>4. PICK m \in IF OwnStamp(t) THEN {TRUE} ELSE BOOLEAN :
        disk' = [disk EXCEPT ![d] = [Create(t, NoFile) EXCEPT !.data = disk[d].data, !.masked = m]]
  BY DEF Repack
<1> DEFINE f == [state |-> "partial", data |-> disk[d].data, masked |-> m, writers |-> {t}]
<1>5. [Create(t, NoFile) EXCEPT !.data = disk[d].data, !.masked = m] = f
  <2>1. PICK c \in Files : c = Create(t, NoFile)
    BY NoFileIsFile
  <2>2. c.state = "partial" /\ c.writers = {t}
    BY <2>1, NoFileIsFile
  <2>3. [c EXCEPT !.data = disk[d].data, !.masked = m] =
          [state |-> c.state, data |-> disk[d].data, masked |-> m, writers |-> c.writers]
    BY DataAndMaskedFields, Zenon
  <2> QED
    BY <2>1, <2>2, <2>3, Zenon
<1>6. f \in Files /\ f.writers = {t}
  BY <1>1, <1>3, <1>4 DEF TypeOK, Files, FileStates
<1>7. disk' = [disk EXCEPT ![d] = f]
  BY <1>4, <1>5, Zenon
<1> HIDE DEF f
<1>8. disk' \in [Paths -> Files] /\ disk'[d] = f /\ \A p \in Paths \ {d} : disk'[p] = disk[p]
  BY <1>1, <1>3, <1>6, <1>7 DEF TypeOK
<1>9. Others(t)
  <2>1. \A p \in Paths : \/ disk'[p] = disk[p]
                         \/ /\ t \in disk[p].writers \/ p[1] = stamp[t]
                            /\ disk'[p].writers \subseteq disk[p].writers \cup {t}
    BY <1>3, <1>6, <1>8
  <2>2. \A u \in Tasks \ {t} : /\ hub'[u] = hub[u] /\ phase'[u] = phase[u]
                               /\ source'[u] = source[u] /\ named'[u] = named[u]
                               /\ u \in jobs' <=> u \in jobs
    BY <1>1, <1>2 DEF TypeOK
  <2> QED
    BY <1>2, <2>1, <2>2, FilesOthers
<1>10. TypeOK'
  BY <1>1, <1>2, <1>8, AgentTypeKept DEF TypeOK, HubStates, Retrieving
<1>11. hub'[t] = "repack"
  BY <1>1, <1>2 DEF TypeOK
<1>12. PhaseOK(t)' /\ StampOK(t)'
  BY <1>1, <1>2, <1>11 DEF PhaseOK, StampOK, Retrieving
<1>13. ASSUME OwnStamp(t)' PROVE OwnFile(t)'
  <2>1. OwnStamp(t) /\ OwnFile(t) /\ t \in Anonymized
    BY <1>1, <1>2, <1>13 DEF OwnStamp, FileOK, StampOK
  <2>2. Repacking(t, f)
    BY <1>4, <2>1 DEF f, Repacking
  <2>3. Repacking(t, disk[Download(t)])'
    BY <1>2, <1>8, <2>2 DEF Repacking, Download
  <2>4. (disk[<<stamp[t], TRUE>>] = NoFile \/ Masked(disk[<<stamp[t], TRUE>>]))'
    BY <1>2, <1>3, <1>8, <2>1 DEF OwnFile, Masked, NoFile
  <2> QED
    BY <1>11, <2>1, <2>3, <2>4 DEF OwnFile
<1> QED
  BY <1>9, <1>10, <1>11, <1>12, <1>13, OthersKept DEF FileOK

LEMMA EndRepackKeeps ==
  ASSUME RemoteInv, NEW t \in Tasks, EndRepack(t)
  PROVE  RemoteInv'
<1> DEFINE d == Download(t)
           a == <<stamp[t], TRUE>>
           packed(p) == [state  |-> "whole",        data    |-> disk[p].data,
                         masked |-> disk[p].masked, writers |-> disk[p].writers \ {t}]
           removed == [state |-> "absent", data |-> {}, masked |-> FALSE, writers |-> {}]
<1>1. TypeOK /\ PhaseOK(t) /\ StampOK(t) /\ FileOK(t)
  BY DEF RemoteInv
<1>2. /\ hub[t] = "repack" /\ hub' = [hub EXCEPT ![t] = hub'[t]] /\ hub'[t] \in {"rename", "finish"}
      /\ UNCHANGED <<agent, jobs, phase, errors, waited, since, source, stamp, named, hubRestarts, agentRestarts>>
  BY <1>1 DEF EndRepack, Goto, poller, TypeOK
<1>3. /\ d \in Paths /\ d[1] = stamp[t] /\ stamp[t] # 0 /\ a \in Paths /\ d # a
  BY <1>1, <1>2, DownloadIsPath DEF StampOK, Retrieving
<1>4. \A p \in Paths : disk[p] \in Files
  BY <1>1 DEF TypeOK
<1>5. \A p \in Paths : /\ packed(p) \in Files /\ packed(p).writers = disk[p].writers \ {t}
                       /\ Closed(t, p) \in Files /\ Closed(t, p).writers = disk[p].writers \ {t}
                       /\ removed \in Files /\ removed.writers \subseteq disk[p].writers
  BY <1>4 DEF Files, FileStates, Closed
<1>6. /\ \A p \in Paths : [disk[p] EXCEPT !.writers = @ \ {t}] = Closed(t, p)
      /\ \A p \in Paths : [[disk[p] EXCEPT !.state = "whole"] EXCEPT !.writers = @ \ {t}] = packed(p)
      /\ [NoFile EXCEPT !.writers = @ \ {t}] = removed
  <2>1. \A p \in Paths : [disk[p] EXCEPT !.writers = @ \ {t}] = Closed(t, p)
    BY <1>4, WritersField DEF Closed
  <2>2. ASSUME NEW p \in Paths
        PROVE  [[disk[p] EXCEPT !.state = "whole"] EXCEPT !.writers = @ \ {t}] = packed(p)
    <3>1. PICK f \in Files : f = disk[p]
      BY <1>4
    <3> DEFINE g == [state |-> "whole", data |-> f.data, masked |-> f.masked, writers |-> f.writers]
    <3>2. [f EXCEPT !.state = "whole"] = g
      BY StateField, Zenon
    <3>3. [g EXCEPT !.writers = g.writers \ {t}] =
            [state |-> "whole", data |-> f.data, masked |-> f.masked, writers |-> f.writers \ {t}]
      OBVIOUS
    <3> HIDE DEF g
    <3>4. [[f EXCEPT !.state = "whole"] EXCEPT !.writers = @ \ {t}] =
            [state |-> "whole", data |-> f.data, masked |-> f.masked, writers |-> f.writers \ {t}]
      BY <3>2, <3>3, Zenon
    <3> QED
      BY <3>1, <3>4, Zenon
  <2>3. [NoFile EXCEPT !.writers = @ \ {t}] = removed
    BY DEF NoFile
  <2> QED
    BY <2>1, <2>2, <2>3
<1> HIDE DEF packed, removed
<1>7. \/ /\ hub'[t] = "rename"
         /\ disk' = [p \in Paths |-> IF t \notin disk[p].writers THEN disk[p]
                                     ELSE IF disk[p].state = "partial" THEN packed(p) ELSE Closed(t, p)]
      \/ /\ hub'[t] = "finish"
         /\ \/ disk' = [p \in Paths |-> IF t \notin disk[p].writers THEN disk[p] ELSE Closed(t, p)]
            \/ disk' = [p \in Paths |-> IF t \notin disk[p].writers THEN disk[p]
                                        ELSE IF disk[p].state = "partial" THEN removed ELSE Closed(t, p)]
  <2>1. hub' = [hub EXCEPT ![t] = "rename"] => hub'[t] = "rename"
    BY <1>1 DEF TypeOK
  <2>2. hub' = [hub EXCEPT ![t] = "finish"] => hub'[t] = "finish"
    BY <1>1 DEF TypeOK
  <2> QED
    BY <1>6, <2>1, <2>2 DEF EndRepack, Goto, Written
<1>8. /\ disk' \in [Paths -> Files]
      /\ \A p \in Paths : \/ disk'[p] = disk[p]
                          \/ t \in disk[p].writers /\ disk'[p].writers \subseteq disk[p].writers
  BY <1>4, <1>5, <1>7
<1>9. Others(t)
  <2>1. \A p \in Paths : \/ disk'[p] = disk[p]
                         \/ /\ t \in disk[p].writers \/ p[1] = stamp[t]
                            /\ disk'[p].writers \subseteq disk[p].writers \cup {t}
    BY <1>8
  <2>2. \A u \in Tasks \ {t} : /\ hub'[u] = hub[u] /\ phase'[u] = phase[u]
                               /\ source'[u] = source[u] /\ named'[u] = named[u]
                               /\ u \in jobs' <=> u \in jobs
    BY <1>1, <1>2 DEF TypeOK
  <2> QED
    BY <1>2, <2>1, <2>2, FilesOthers
<1>10. TypeOK'
  <2>1. hub' \in [Tasks -> HubStates]
    BY <1>1, <1>2 DEF TypeOK, HubStates, Retrieving
  <2> QED
    BY <1>1, <1>2, <1>8, <2>1, AgentTypeKept DEF TypeOK
<1>11. PhaseOK(t)' /\ StampOK(t)'
  BY <1>1, <1>2 DEF PhaseOK, StampOK, Retrieving
<1>12. ASSUME OwnStamp(t)' PROVE OwnFile(t)'
  <2>1. OwnStamp(t) /\ OwnFile(t) /\ t \in Anonymized
    BY <1>1, <1>2, <1>12 DEF OwnStamp, FileOK, StampOK
  <2>2. /\ disk[d].masked /\ disk[d].state = "partial" /\ disk[d].writers = {t}
        /\ disk[a] = NoFile \/ Masked(disk[a])
    BY <1>2, <2>1 DEF OwnFile, Repacking
  <2>3. disk'[a] = disk[a]
    <3>1. disk[a].writers = {}
      BY <2>2, NoFileIsFile DEF Masked
    <3> QED
      BY <1>3, <1>8, <3>1
  <2>4. (disk[<<stamp[t], TRUE>>] = NoFile \/ Masked(disk[<<stamp[t], TRUE>>]))'
    BY <1>2, <2>2, <2>3 DEF Masked, NoFile
  <2>5. hub'[t] = "rename" => Masked(disk[Download(t)])'
    <3> SUFFICES ASSUME hub'[t] = "rename" PROVE Masked(disk[Download(t)])'
      OBVIOUS
    <3>1. disk'[d] = packed(d)
      BY <1>3, <1>7, <2>2
    <3>2. disk'[d].masked /\ disk'[d].state = "whole" /\ disk'[d].writers = {}
      BY <2>2, <3>1 DEF packed
    <3>3. Download(t)' = d
      BY <1>2 DEF Download
    <3> QED
      BY <3>2, <3>3 DEF Masked
  <2> QED
    BY <1>2, <2>1, <2>4, <2>5 DEF OwnFile
<1> QED
  BY <1>2, <1>9, <1>10, <1>11, <1>12, OthersKept DEF FileOK

LEMMA RenameArchiveKeeps ==
  ASSUME RemoteInv, NEW t \in Tasks, RenameArchive(t)
  PROVE  RemoteInv'
<1> DEFINE d == Download(t)
           a == <<stamp[t], TRUE>>
<1>1. TypeOK /\ PhaseOK(t) /\ StampOK(t) /\ FileOK(t)
  BY DEF RemoteInv
<1>2. /\ hub[t] = "rename" /\ hub' = [hub EXCEPT ![t] = "finish"]
      /\ named' = [named EXCEPT ![t] = TRUE]
      /\ UNCHANGED <<agent, jobs, phase, errors, waited, since, source, stamp, hubRestarts, agentRestarts>>
  BY DEF RenameArchive, Goto, poller
<1>3. /\ d \in Paths /\ d[1] = stamp[t] /\ stamp[t] # 0 /\ a \in Paths /\ a[1] = stamp[t] /\ d # a
  BY <1>1, <1>2, DownloadIsPath DEF StampOK, Retrieving
<1>4. /\ disk' \in [Paths -> Files]
      /\ \A p \in Paths \ {d, a} : disk'[p] = disk[p]
      /\ \/ disk[d].state = "absent" /\ disk' = disk
         \/ disk[d].state # "absent" /\ disk'[a] = disk[d] /\ disk'[d] = NoFile
  BY <1>1, <1>3, NoFileIsFile DEF RenameArchive, TypeOK
<1>5. Others(t)
  <2>1. \A p \in Paths : \A u \in disk[p].writers : u \in Tasks /\ stamp[u] = p[1]
    BY DEF RemoteInv, TypeOK, Files, DiskOK
  <2>2. \A u \in Tasks \ {t} : /\ hub'[u] = hub[u] /\ phase'[u] = phase[u]
                               /\ source'[u] = source[u] /\ named'[u] = named[u]
                               /\ u \in jobs' <=> u \in jobs
    BY <1>1, <1>2 DEF TypeOK
  <2>3. \A p \in Paths : p[1] # stamp[t] => disk'[p] = disk[p]
    BY <1>3, <1>4
  <2>4. \A p \in Paths : p[1] = stamp[t] => \A u \in disk'[p].writers : u \in Tasks /\ stamp[u] = stamp[t]
    <3>1. \A u \in disk[d].writers \cup disk[a].writers : u \in Tasks /\ stamp[u] = stamp[t]
      BY <1>3, <2>1
    <3>2. disk'[d].writers \cup disk'[a].writers \subseteq disk[d].writers \cup disk[a].writers
      BY <1>4, NoFileIsFile
    <3> QED
      BY <1>3, <1>4, <2>1, <3>1, <3>2
  <2> QED
    BY <1>2, <2>1, <2>2, <2>3, <2>4 DEF Others
<1>6. TypeOK' /\ hub'[t] = "finish"
  BY <1>1, <1>2, <1>4, AgentTypeKept DEF TypeOK, HubStates, Retrieving
<1>7. PhaseOK(t)' /\ StampOK(t)'
  BY <1>1, <1>2, <1>6 DEF PhaseOK, StampOK, Retrieving
<1>8. ASSUME OwnStamp(t)' PROVE OwnFile(t)'
  <2>1. OwnStamp(t) /\ OwnFile(t) /\ t \in Anonymized
    BY <1>1, <1>2, <1>8 DEF OwnStamp, FileOK, StampOK
  <2>2. Masked(disk[d])
    BY <1>2, <2>1 DEF OwnFile
  <2>3. disk'[a] = disk[d]
    BY <1>4, <2>2 DEF Masked
  <2>4. (disk[<<stamp[t], TRUE>>] = NoFile \/ Masked(disk[<<stamp[t], TRUE>>]))'
    BY <1>2, <2>2, <2>3 DEF Masked, NoFile
  <2> QED
    BY <1>6, <2>1, <2>4 DEF OwnFile
<1> QED
  BY <1>5, <1>6, <1>7, <1>8, OthersKept DEF FileOK

LEMMA DeleteJobKeeps ==
  ASSUME RemoteInv, NEW t \in Tasks, DeleteJob(t)
  PROVE  RemoteInv'
<1> DEFINE d == FilePath(t)
<1>1. TypeOK /\ PhaseOK(t) /\ StampOK(t) /\ FileOK(t)
  BY DEF RemoteInv
<1>2. /\ t \in jobs /\ jobs' = jobs \ {t}
      /\ UNCHANGED <<agent, hub, phase, errors, waited, since, source, stamp, named, hubRestarts, agentRestarts>>
      /\ UNCHANGED <<status, archivePath, run, name, archives>>
  BY DEF DeleteJob, poller, agent, agentFiles
<1>3. /\ disk' \in [Paths -> Files]
      /\ \A p \in Paths : disk'[p] = disk[p] \/ (phase[t] = "complete" /\ p = d /\ disk'[p] = NoFile)
  BY <1>1, NoFileIsFile DEF DeleteJob, TypeOK
<1>4. Others(t)
  <2>1. \A p \in Paths : \/ disk'[p] = disk[p]
                         \/ /\ t \in disk[p].writers \/ p[1] = stamp[t]
                            /\ disk'[p].writers \subseteq disk[p].writers \cup {t}
    BY <1>3, NoFileIsFile DEF FilePath
  <2> QED
    BY <1>2, <2>1, FilesOthers
<1>5. TypeOK'
  BY <1>1, <1>2, <1>3, AgentTypeKept DEF TypeOK
<1>6. PhaseOK(t)' /\ StampOK(t)'
  BY <1>1, <1>2 DEF PhaseOK, StampOK
<1>7. (hub[t] = "open" => Published(source[t].path))' /\ (hub[t] = "stream" => Opened(source[t]))'
  <2>1. \A g \in Tasks : OwnSecond(g)' <=> OwnSecond(g)
    BY <1>2, OwnSecondKept
  <2>2. \A g \in Tasks : Settled(g)' <=> Settled(g)
    BY <1>2 DEF Settled, Made
  <2>3. source[t].was.data \subseteq Tasks
    BY <1>1 DEF TypeOK, Sources, Archives
  <2>4. (hub[t] = "open" => Published(source[t].path))'
    BY <1>1, <1>2, <2>1, <2>2 DEF FileOK, Published
  <2>5. (hub[t] = "stream" => Opened(source[t]))'
    BY <1>1, <1>2, <2>1, <2>2, <2>3 DEF FileOK, Opened, Made
  <2> QED
    BY <2>4, <2>5
<1>8. ASSUME OwnStamp(t)' PROVE OwnFile(t)'
  <2>1. OwnStamp(t) /\ OwnFile(t) /\ t \notin jobs'
    BY <1>1, <1>2, <1>8 DEF OwnStamp, FileOK
  <2>2. /\ Download(t) \in Paths /\ <<stamp[t], TRUE>> \in Paths
        /\ Download(t)' = Download(t) /\ stamp'[t] = stamp[t] /\ hub'[t] = hub[t]
    BY <1>1, <1>2, <2>1, DownloadIsPath DEF OwnStamp, Download
  <2>3. hub[t] # "end" => disk'[Download(t)] = disk[Download(t)]
    BY <1>1, <1>2, <1>3, <2>2 DEF PhaseOK, TypeOK, HubStates, Retrieving
  <2>4. (disk[<<stamp[t], TRUE>>] = NoFile \/ Masked(disk[<<stamp[t], TRUE>>]))'
    BY <1>3, <2>1, <2>2 DEF OwnFile, Masked, NoFile
  <2>5. (hub[t] \in {"request", "open"} => disk[Download(t)] = NoFile)'
    BY <2>1, <2>2, <2>3 DEF OwnFile, NoFile
  <2>6. (hub[t] = "stream" => disk[Download(t)] = Create(t, NoFile))'
    BY <2>1, <2>2, <2>3 DEF OwnFile, Create, NoFile
  <2>7. (hub[t] = "repack" => Repacking(t, disk[Download(t)]))'
    BY <2>1, <2>2, <2>3 DEF OwnFile, Repacking
  <2>8. (hub[t] = "rename" => Masked(disk[Download(t)]))'
    BY <2>1, <2>2, <2>3 DEF OwnFile, Masked
  <2>9. (t \notin Anonymized /\ hub[t] = "finish" => Copied(disk[Download(t)]))'
    <3>1. disk[Download(t)].data \subseteq Tasks
      BY <1>1, <2>2 DEF TypeOK, Files
    <3> QED
      BY <1>2, <2>1, <2>2, <2>3, <3>1, OwnSecondKept DEF OwnFile, Copied
  <2> QED
    BY <2>1, <2>4, <2>5, <2>6, <2>7, <2>8, <2>9 DEF OwnFile
<1> QED
  BY <1>4, <1>5, <1>6, <1>7, <1>8, OthersKept DEF FileOK

LEMMA AgentSideKeeps ==
  ASSUME RemoteInv, [Next]_vars, UNCHANGED hubVars, TypeOK'
  PROVE  RemoteInv'
<1>1. AgentInv' /\ \A g \in Tasks : Stays(g)
  BY AgentStep DEF RemoteInv
<1>2. UNCHANGED <<hub, jobs, phase, source, stamp, named, disk>>
  BY DEF hubVars, poller, hubFiles
<1>3. /\ \A g \in Tasks : name[g] # 0 /\ OwnSecond(g)' => OwnSecond(g)
      /\ \A g \in Tasks : name[g] # 0 => name'[g] = name[g]
      /\ \A g \in Tasks : Settled(g) /\ OwnSecond(g)' => Settled(g)'
      /\ \A g \in Tasks : run[g] = "done" => run'[g] = "done"
  BY <1>1 DEF Stays
<1>4. DiskOK'
  BY <1>2 DEF RemoteInv, DiskOK, NoFile
<1>5. ASSUME NEW t \in Tasks
      PROVE  PhaseOK(t)' /\ StampOK(t)' /\ FileOK(t)'
  <2>1. TypeOK /\ PhaseOK(t) /\ StampOK(t) /\ FileOK(t)
    BY DEF RemoteInv
  <2>2. PhaseOK(t)' /\ StampOK(t)'
    BY <1>2, <2>1 DEF PhaseOK, StampOK
  <2>3. (hub[t] = "open" => Published(source[t].path))'
    <3> SUFFICES ASSUME hub[t] = "open" PROVE Published(source[t].path)'
      BY <1>2
    <3>1. PICK g \in Tasks : /\ name[g] = source[t].path /\ name[g] # 0
                             /\ OwnSecond(g) => Settled(g)
      BY <2>1 DEF FileOK, Published
    <3>2. name'[g] = source'[t].path /\ name'[g] # 0 /\ (OwnSecond(g)' => Settled(g)')
      BY <1>2, <1>3, <3>1
    <3> QED
      BY <3>2 DEF Published
  <2>4. (hub[t] = "stream" => Opened(source[t]))'
    <3> SUFFICES ASSUME hub[t] = "stream" PROVE Opened(source[t])'
      BY <1>2
    <3>1. PICK i \in Tasks : i = source[t].file
      BY <2>1 DEF FileOK, Opened
    <3>2. /\ name[i] # 0 /\ source[t].was.state # "absent" /\ i \in source[t].was.data
          /\ \A u \in source[t].was.data : name[u] = name[i]
          /\ OwnSecond(i) => Settled(i) /\ source[t].was = Made(i)
      BY <2>1, <3>1 DEF FileOK, Opened
    <3>3. source[t].was.data \subseteq Tasks
      BY <2>1 DEF TypeOK, Sources, Archives
    <3>4. \A u \in source[t].was.data : name'[u] = name'[i]
      BY <1>3, <3>2, <3>3
    <3>5. OwnSecond(i)' => Settled(i)' /\ source[t].was = Made(i)
      BY <1>3, <3>2
    <3> QED
      BY <1>2, <1>3, <3>1, <3>2, <3>4, <3>5 DEF Opened, Made
  <2>5. ASSUME OwnStamp(t)' PROVE OwnFile(t)'
    <3>1. OwnStamp(t) /\ OwnFile(t)
      BY <1>2, <2>1, <2>5 DEF OwnStamp, FileOK
    <3>2. Download(t)' = Download(t) /\ Download(t) \in Paths /\ disk'[Download(t)] = disk[Download(t)]
      BY <1>2, <2>1, <3>1, DownloadIsPath DEF Download, OwnStamp
    <3>3. Copied(disk[Download(t)]) => Copied(disk[Download(t)])'
      <4>1. disk[Download(t)].data \subseteq Tasks
        BY <2>1, <3>2 DEF TypeOK, Files
      <4> QED
        BY <1>3, <3>2, <4>1 DEF Copied
    <3>4. (disk[<<stamp[t], TRUE>>] = NoFile \/ Masked(disk[<<stamp[t], TRUE>>]))'
      BY <1>2, <3>1 DEF OwnFile, Masked, NoFile
    <3>5. disk[Download(t)] = NoFile => (disk[Download(t)] = NoFile)'
      BY <3>2 DEF NoFile
    <3>6. disk[Download(t)] = Create(t, NoFile) => (disk[Download(t)] = Create(t, NoFile))'
      BY <3>2 DEF Create, NoFile
    <3>7. Repacking(t, disk[Download(t)]) => Repacking(t, disk[Download(t)])'
      BY <3>2 DEF Repacking
    <3>8. Masked(disk[Download(t)]) => Masked(disk[Download(t)])'
      BY <3>2 DEF Masked
    <3> QED
      BY <1>2, <3>1, <3>3, <3>4, <3>5, <3>6, <3>7, <3>8 DEF OwnFile
  <2> QED
    BY <2>2, <2>3, <2>4, <2>5 DEF FileOK
<1> QED
  BY <1>1, <1>4, <1>5 DEF RemoteInv

LEMMA AgentSideType ==
  ASSUME RemoteInv, [Next]_vars, UNCHANGED hubVars,
         UNCHANGED agentRestarts \/ AgentRestarts
  PROVE  TypeOK'
<1>1. AgentTypeOK'
  BY AgentStep DEF RemoteInv, AgentInv
<1>2. /\ agentRestarts' \in Nat /\ hubRestarts' \in Nat
      /\ agentRestarts' + hubRestarts' <= MaxRestarts
  BY DEF RemoteInv, TypeOK, AgentRestarts, hubVars
<1> QED
  BY <1>1, <1>2 DEF RemoteInv, TypeOK, hubVars, poller, hubFiles

LEMMA HubRestartsKeeps ==
  ASSUME RemoteInv, HubRestarts
  PROVE  RemoteInv'
<1> USE DEF HubRestarts
<1>1. TypeOK /\ UNCHANGED agent
  BY DEF RemoteInv
<1>2. \A p \in Paths : /\ disk[p] \in Files
                       /\ disk'[p] = [state |-> disk[p].state, data |-> disk[p].data,
                                      masked |-> disk[p].masked, writers |-> {}]
  BY <1>1, WritersField DEF TypeOK
<1>3. TypeOK'
  <2>1. disk' \in [Paths -> Files]
    <3>1. \A p \in Paths : disk'[p] \in Files
      BY <1>2 DEF Files
    <3> QED
      BY <3>1
  <2>2. source' \in [Tasks -> Sources]
    BY DEF NoSource, NoArchive, Sources, Archives, FileStates
  <2>3. hub' \in [Tasks -> HubStates]
    BY <1>1 DEF TypeOK, HubStates
  <2> QED
    BY <1>1, <2>1, <2>2, <2>3, AgentTypeKept DEF TypeOK
<1>4. AgentInv'
  BY <1>1, SameAgentKeepsAgent DEF RemoteInv
<1>5. \A p \in Paths : disk[p] = NoFile => disk'[p] = NoFile
  BY NoFileIsFile
<1>6. DiskOK'
  <2>1. \A p \in Paths : disk'[p].writers = {} /\ (disk[p] = NoFile \/ \E u \in Tasks : stamp[u] = p[1])
    BY <1>2 DEF RemoteInv, DiskOK
  <2>2. \A p \in Paths : disk'[p] = NoFile \/ \E u \in Tasks : stamp'[u] = p[1]
    BY <1>5, <2>1
  <2> QED
    BY <2>1, <2>2 DEF DiskOK, NoFile
<1>7. ASSUME NEW t \in Tasks
      PROVE  PhaseOK(t)' /\ StampOK(t)' /\ FileOK(t)'
  <2>1. PhaseOK(t) /\ StampOK(t) /\ FileOK(t)
    BY DEF RemoteInv
  <2>2. hub'[t] \notin {"posted", "poll"} \cup Retrieving /\ t \notin jobs'
    BY DEF Retrieving
  <2>3. hub'[t] \in {"idle", "refused", "end", "lost"} => hub'[t] = hub[t] \/ hub'[t] = "lost"
    OBVIOUS
  <2>4. PhaseOK(t)'
    BY <2>1, <2>2, <2>3 DEF PhaseOK
  <2>5. StampOK(t)'
    BY <2>1, <2>2, <2>3 DEF StampOK, Retrieving
  <2>6. ASSUME OwnStamp(t)' PROVE OwnFile(t)'
    <3>1. OwnStamp(t) /\ OwnFile(t) /\ <<stamp[t], TRUE>> \in Paths
      BY <1>1, <2>1, <2>6, DownloadIsPath DEF OwnStamp, FileOK
    <3>2. (disk[<<stamp[t], TRUE>>] = NoFile \/ Masked(disk[<<stamp[t], TRUE>>]))'
      <4> DEFINE a == <<stamp[t], TRUE>>
      <4>1. disk[a] = NoFile \/ (disk[a].masked /\ disk[a].state = "whole")
        BY <3>1 DEF OwnFile, Masked
      <4>2. \/ disk'[a] = NoFile
            \/ disk'[a].masked /\ disk'[a].state = "whole" /\ disk'[a].writers = {}
        <5> HIDE DEF HubRestarts
        <5>1. a \in Paths
          BY <3>1
        <5> HIDE DEF a
        <5>2. disk'[a] = [state |-> disk[a].state, data |-> disk[a].data,
                          masked |-> disk[a].masked, writers |-> {}]
          BY <1>2, <5>1
        <5> QED
          BY <1>5, <4>1, <5>1, <5>2
      <4> QED
        BY <4>2 DEF Masked, NoFile
    <3> QED
      BY <2>2, <3>2 DEF OwnFile, Retrieving
  <2> QED
    BY <2>2, <2>4, <2>5, <2>6 DEF FileOK, Retrieving
<1> QED
  BY <1>3, <1>4, <1>6, <1>7 DEF RemoteInv

LEMMA RemoteStep == RemoteInv /\ [Next]_vars => RemoteInv'
<1> SUFFICES ASSUME RemoteInv, [Next]_vars PROVE RemoteInv'
  OBVIOUS
<1>1. ASSUME NEW t \in Tasks, PostGather(t) \/ PostFails(t) \/ RegisterJob(t) \/ DeleteJob(t)
      PROVE  RemoteInv'
  BY <1>1, PostGatherKeeps, PostFailsKeeps, RegisterJobKeeps, DeleteJobKeeps
<1>2. ASSUME NEW t \in Tasks, Poll(t)
      PROVE  RemoteInv'
  BY <1>2, PollTimedOutKeeps, PollAnsweredKeeps, PollFailedKeeps, PollReconnectedKeeps DEF Poll
<1>3. ASSUME NEW t \in Tasks, Retrieve(t)
      PROVE  RemoteInv'
  BY <1>3, RequestArchiveKeeps, OpenArchiveKeeps, RetrievalFailsKeeps, EndDownloadKeeps,
     AnonymizeFailsKeeps, RepackKeeps, EndRepackKeeps, RenameArchiveKeeps, FinishRetrievalKeeps
     DEF Retrieve
<1>4. ASSUME NEW t \in Tasks, ReceiveGather(t) \/ AgentWorks(t) \/ CollectionEnds(t)
      PROVE  RemoteInv'
  <2>1. UNCHANGED hubVars /\ UNCHANGED agentRestarts
    BY <1>4 DEF ReceiveGather, AgentWorks, CollectionEnds
  <2> QED
    BY <2>1, AgentSideType, AgentSideKeeps
<1>5. CASE AgentRestarts
  <2>1. UNCHANGED hubVars
    BY <1>5 DEF AgentRestarts
  <2> QED
    BY <1>5, <2>1, AgentSideType, AgentSideKeeps
<1>6. CASE Quiescent \/ UNCHANGED vars
  <2>1. UNCHANGED hubVars /\ UNCHANGED agentRestarts
    BY <1>6 DEF Quiescent, vars, hubVars
  <2> QED
    BY <2>1, AgentSideType, AgentSideKeeps
<1> QED
  BY <1>1, <1>2, <1>3, <1>4, <1>5, <1>6, HubRestartsKeeps DEF Next

-----------------------------------------------------------------------------
(* Theorems *)

(* Agent, jobs, pollers, phases and files agree in every reachable state.  *)
THEOREM RemoteIsConsistent == Spec => []RemoteInv
BY RemoteInitial, RemoteStep, PTL DEF Spec

(* Every reachable state is one the types of Agent, RemoteGatherJob and    *)
(* the pollers allow; no poller goes on at maxConsecErrors.                *)
THEOREM RemoteTypeCorrect == Spec => []TypeOK
<1>1. RemoteInv => TypeOK
  BY DEF RemoteInv
<1> QED
  BY <1>1, RemoteIsConsistent, PTL

(* However many requests the agent accepted at once, it is busy only while *)
(* one of them gathers.                                                    *)
THEOREM BusyAgentGathers == Spec => []GatheringMeansWorking
<1>1. RemoteInv => GatheringMeansWorking
  BY DEF RemoteInv, AgentInv
<1> QED
  BY <1>1, RemoteIsConsistent, PTL

(* What the agent serves exists and is the whole output of one gather, as  *)
(* long as that gather shares its second with no other.                    *)
THEOREM AgentServesAnArchive == Spec => []ServingHasArchive
<1>1. RemoteInv => ServingHasArchive
  BY DEF RemoteInv, AgentInv, OwnArchive, Settled, ServingHasArchive
<1> QED
  BY <1>1, RemoteIsConsistent, PTL

(* A complete job that was not to be anonymized, and shared its second     *)
(* with no other retrieval, has a file; and the file is the whole archive  *)
(* of a gather that ended, if that gather shared its second with no other. *)
THEOREM CompleteJobsAreCopied == Spec => []CompleteIsCopied
<1>1. ASSUME RemoteInv PROVE CompleteIsCopied
  <2> SUFFICES ASSUME NEW t \in jobs \ Anonymized, phase[t] = "complete", OwnStamp(t)
               PROVE  LET f == disk[FilePath(t)] IN
                      /\ f.state # "absent"
                      /\ f.data # {}
                      /\ \A g \in f.data : OwnSecond(g) =>
                           f.state = "whole" /\ f.data = {g} /\ run[g] = "done"
    BY DEF CompleteIsCopied
  <2>1. t \in Tasks /\ TypeOK /\ OwnFile(t) /\ StampOK(t)
    BY <1>1 DEF RemoteInv, TypeOK, FileOK
  <2>2. FilePath(t) = Download(t)
    BY <2>1 DEF StampOK, TypeOK, FilePath, Download
  <2> QED
    BY <2>1, <2>2 DEF OwnFile, Copied
<1> QED
  BY <1>1, RemoteIsConsistent, PTL

(* No file is named "-anonymized" that is not, if one retrieval named it.  *)
THEOREM NamedFilesAreMasked == Spec => []NamedAnonymizedIsMasked
<1>1. RemoteInv => NamedAnonymizedIsMasked
  BY NoFileIsFile DEF RemoteInv, FileOK, OwnFile, Masked, NamedAnonymizedIsMasked
<1> QED
  BY <1>1, RemoteIsConsistent, PTL

-----------------------------------------------------------------------------
(* Refinement of RemoteLifecycle *)

LEMMA SetStatusMoves ==
  ASSUME RemoteInv, NEW t \in Tasks, NEW s, SetJobStatus(t, s), jobs' = jobs,
         t \in jobs => <<phase[t], s>> \in RemoteJobs!Moves
  PROVE  RemoteJobs!Move(t) \/ UNCHANGED <<phase, jobs>>
<1>1. CASE t \in jobs
  <2> DEFINE m == <<phase[t], s>>
  <2>1. m \in RemoteJobs!Moves /\ m[1] = phase[t] /\ phase' = [phase EXCEPT ![t] = m[2]]
    BY <1>1 DEF SetJobStatus
  <2>2. \E n \in RemoteJobs!Moves : phase[t] = n[1] /\ phase' = [phase EXCEPT ![t] = n[2]]
    BY <2>1
  <2> QED
    BY <1>1, <2>2 DEF RemoteJobs!Move
<1>2. CASE t \notin jobs
  BY <1>2 DEF SetJobStatus
<1> QED
  BY <1>1, <1>2

LEMMA PollRefines ==
  ASSUME RemoteInv, NEW t \in Tasks, Poll(t)
  PROVE  RemoteJobs!Move(t) \/ UNCHANGED <<phase, jobs>>
<1>1. hub[t] = "poll" /\ jobs' = jobs
  BY DEF Poll, PollTimedOut, PollAnswered, PollFailed, PollReconnected, FailJob, Goto
<1>2. t \in jobs => phase[t] = "gathering"
  BY <1>1 DEF RemoteInv, PhaseOK
<1>3. SetJobStatus(t, "failed") \/ SetJobStatus(t, "downloading") \/ UNCHANGED phase
  BY DEF Poll, PollTimedOut, PollAnswered, PollFailed, PollReconnected, FailJob
<1>4. \A s \in {"failed", "downloading"} : t \in jobs => <<phase[t], s>> \in RemoteJobs!Moves
  BY <1>2 DEF RemoteJobs!Moves
<1> QED
  BY <1>1, <1>3, <1>4, SetStatusMoves

LEMMA RetrieveRefines ==
  ASSUME RemoteInv, NEW t \in Tasks, Retrieve(t)
  PROVE  RemoteJobs!Move(t) \/ UNCHANGED <<phase, jobs>>
<1>1. PhaseOK(t)
  BY DEF RemoteInv
<1>2. CASE \/ RequestArchive(t) \/ OpenArchive(t) \/ AnonymizeFails(t)
           \/ Repack(t) \/ EndRepack(t) \/ RenameArchive(t)
  BY <1>2 DEF RequestArchive, OpenArchive, AnonymizeFails, Repack, EndRepack, RenameArchive
<1>3. CASE RetrievalFails(t)
  <2>1. hub[t] \in {"request", "open"} /\ SetJobStatus(t, "failed") /\ jobs' = jobs
    BY <1>3 DEF RetrievalFails, FailJob, Goto
  <2>2. t \in jobs => <<phase[t], "failed">> \in RemoteJobs!Moves
    BY <1>1, <2>1 DEF PhaseOK, RemoteJobs!Moves
  <2> QED
    BY <2>1, <2>2, SetStatusMoves
<1>4. CASE EndDownload(t)
  <2>1. /\ hub[t] = "stream" /\ jobs' = jobs
        /\ SetJobStatus(t, "failed") \/ SetJobStatus(t, "anonymizing") \/ UNCHANGED phase
    BY <1>4 DEF EndDownload, FailJob, Goto
  <2>2. \A s \in {"failed", "anonymizing"} : t \in jobs => <<phase[t], s>> \in RemoteJobs!Moves
    BY <1>1, <2>1 DEF PhaseOK, RemoteJobs!Moves
  <2> QED
    BY <2>1, <2>2, SetStatusMoves
<1>5. CASE FinishRetrieval(t)
  <2>1. hub[t] = "finish" /\ SetJobStatus(t, "complete") /\ jobs' = jobs
    BY <1>5 DEF FinishRetrieval, Goto
  <2>2. t \in jobs => <<phase[t], "complete">> \in RemoteJobs!Moves
    BY <1>1, <2>1 DEF PhaseOK, RemoteJobs!Moves
  <2> QED
    BY <2>1, <2>2, SetStatusMoves
<1> QED
  BY <1>2, <1>3, <1>4, <1>5 DEF Retrieve

LEMMA RemoteStepRefines ==
  RemoteInv /\ [Next]_vars => [RemoteJobs!Next]_<<phase, jobs>>
<1> SUFFICES ASSUME RemoteInv, [Next]_vars
             PROVE  RemoteJobs!Next \/ UNCHANGED <<phase, jobs>>
  OBVIOUS
<1>1. ASSUME NEW t \in Tasks, RegisterJob(t)
      PROVE  RemoteJobs!Register(t)
  BY <1>1 DEF RegisterJob, Goto, RemoteInv, PhaseOK, RemoteJobs!Register
<1>2. ASSUME NEW t \in Tasks, DeleteJob(t)
      PROVE  RemoteJobs!Delete(t)
  BY <1>2 DEF DeleteJob, RemoteJobs!Delete
<1>3. HubRestarts => RemoteJobs!Restart
  BY DEF HubRestarts, RemoteJobs!Restart
<1>4. ASSUME NEW t \in Tasks,
             PostGather(t) \/ PostFails(t) \/ ReceiveGather(t) \/ AgentWorks(t) \/ CollectionEnds(t)
      PROVE  UNCHANGED <<phase, jobs>>
  BY <1>4 DEF PostGather, PostFails, ReceiveGather, AgentWorks, CollectionEnds, hubVars
<1>5. AgentRestarts \/ Quiescent \/ UNCHANGED vars => UNCHANGED <<phase, jobs>>
  BY DEF AgentRestarts, Quiescent, vars, hubVars
<1> QED
  BY <1>1, <1>2, <1>3, <1>4, <1>5, PollRefines, RetrieveRefines DEF Next, RemoteJobs!Next

(* The hub with its agent, network and files implements the life cycle of  *)
(* remote jobs: a job moves only forward, only while it is listed, and     *)
(* never comes back.                                                       *)
THEOREM LifecycleIsImplemented == Spec => ImplementsRemoteLifecycle
<1>1. Init => RemoteJobs!Init
  BY DEF Init, RemoteJobs!Init
<1> QED
  BY <1>1, RemoteStepRefines, RemoteIsConsistent, PTL
     DEF Spec, ImplementsRemoteLifecycle, RemoteJobs!Spec
=============================================================================
