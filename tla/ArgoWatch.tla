----------------------------- MODULE ArgoWatch -----------------------------
(***************************************************************************)
(* The Argo CD applications as the web interface sees them                 *)
(* (src/internal/status/status.go): one goroutine polls the applications,  *)
(* and under the client's lock keeps the time since when each has been out *)
(* of sync and the list that GetArgoApps returns; DeleteArgoApp deletes an *)
(* application and forgets that time.  The requests to the API server are  *)
(* made without the lock.  Argo CD and its users are external.             *)
(*                                                                         *)
(* A time in the past is modelled by its age.  Ages grow with Tick, all    *)
(* together, up to one more than Limit.                                    *)
(***************************************************************************)
EXTENDS Naturals

CONSTANTS
  Apps,
  Limit   \* 3 minutes: after that an application is reported as an error

ASSUME LimitAssumption == Limit \in Nat

VARIABLES
  live,       \* the applications in the cluster and their sync status
  poll,       \* pollArgo: its step, the list it has read and how old that is
  since,      \* c.outOfSyncSince
  shown,      \* c.lastArgoApps
  deleting,   \* applications whose DELETE has been accepted
  sampled,    \* history: age of the last list stored without it or in sync
  forgotten   \* history: age of its last deletion through the interface

clientVars == <<poll, since, shown>>
vars == <<live, clientVars, deleting, sampled, forgotten>>

Statuses == {"Synced", "OutOfSync", "Unknown"}
Ages == 0 .. Limit + 1
Older(age) == IF age > Limit THEN age ELSE age + 1
Lists == UNION {[S -> Statuses] : S \in SUBSET Apps}

Drifted(list) == {a \in DOMAIN list : list[a] # "Synced"}

Init ==
  /\ live \in Lists
  /\ poll = [step |-> "idle", list |-> live, age |-> 0]
  /\ since = [a \in {} |-> 0]
  /\ shown = [a \in {} |-> 0]
  /\ deleting = {}
  /\ sampled = [a \in Apps |-> 0]
  /\ forgotten = [a \in Apps |-> 0]

(* Argo CD, Git and other users change the applications.                   *)
AppsChange ==
  /\ live' \in Lists
  /\ UNCHANGED <<clientVars, deleting, sampled, forgotten>>

Tick ==
  /\ since' = [a \in DOMAIN since |-> Older(since[a])]
  /\ shown' = [a \in DOMAIN shown |-> [shown[a] EXCEPT !.age = Older(@)]]
  /\ poll' = [poll EXCEPT !.age = Older(@)]
  /\ sampled' = [a \in Apps |-> Older(sampled[a])]
  /\ forgotten' = [a \in Apps |-> Older(forgotten[a])]
  /\ UNCHANGED <<live, deleting>>

(* Wrong: lists what the name of an application finds, even nothing.       *)
FetchEveryApp ==
  /\ poll.step = "idle"
  /\ poll' = [step |-> "store", age |-> 0,
              list |-> [a \in Apps |-> IF a \in DOMAIN live THEN live[a] ELSE ""]]
  /\ UNCHANGED <<live, since, shown, deleting, sampled, forgotten>>

(* fetchArgoApps.  A request that fails changes nothing.                   *)
FetchArgoApps ==
  /\ poll.step = "idle"
  /\ poll' = [step |-> "store", list |-> live, age |-> 0]
  /\ UNCHANGED <<live, since, shown, deleting, sampled, forgotten>>

(* Wrong: the time of an application that is in sync is kept.              *)
StorePollKeepingSynced ==
  /\ poll.step = "store"
  /\ poll' = [poll EXCEPT !.step = "idle"]
  /\ since' = [a \in Drifted(poll.list) \cup (DOMAIN since \cap DOMAIN poll.list) |->
               IF a \in DOMAIN since THEN since[a] ELSE 0]
  /\ shown' = [a \in DOMAIN poll.list |->
       [status |-> poll.list[a], age |-> IF a \in DOMAIN since' THEN since'[a] ELSE 0]]
  /\ sampled' = [a \in Apps |-> IF a \in Drifted(poll.list) THEN sampled[a] ELSE poll.age]
  /\ UNCHANGED <<live, deleting, forgotten>>

(* Wrong: an empty list is taken for a failed poll.                        *)
StorePollUnlessEmpty ==
  /\ poll.step = "store"
  /\ poll' = [poll EXCEPT !.step = "idle"]
  /\ since' = [a \in Drifted(poll.list) |-> IF a \in DOMAIN since THEN since[a] ELSE 0]
  /\ shown' = IF DOMAIN poll.list = {} THEN shown
               ELSE [a \in DOMAIN poll.list |->
       [status |-> poll.list[a], age |-> IF a \in DOMAIN since' THEN since'[a] ELSE 0]]
  /\ sampled' = [a \in Apps |-> IF a \in Drifted(poll.list) THEN sampled[a] ELSE poll.age]
  /\ UNCHANGED <<live, deleting, forgotten>>

(* Wrong: every poll starts the time anew.                                 *)
StorePollRestarting ==
  /\ poll.step = "store"
  /\ poll' = [poll EXCEPT !.step = "idle"]
  /\ since' = [a \in Drifted(poll.list) |-> 0]
  /\ shown' = [a \in DOMAIN poll.list |-> [status |-> poll.list[a], age |-> 0]]
  /\ sampled' = [a \in Apps |-> IF a \in Drifted(poll.list) THEN sampled[a] ELSE poll.age]
  /\ UNCHANGED <<live, deleting, forgotten>>

(* The rest of pollArgo, under the lock.  Entries of applications that are *)
(* in sync or not in the list are deleted.                                 *)
StorePoll ==
  /\ poll.step = "store"
  /\ poll' = [poll EXCEPT !.step = "idle"]
  /\ since' = [a \in Drifted(poll.list) |-> IF a \in DOMAIN since THEN since[a] ELSE 0]
  /\ shown' = [a \in DOMAIN poll.list |->
       [status |-> poll.list[a], age |-> IF a \in DOMAIN since' THEN since'[a] ELSE 0]]
  /\ sampled' = [a \in Apps |-> IF a \in Drifted(poll.list) THEN sampled[a] ELSE poll.age]
  /\ UNCHANGED <<live, deleting, forgotten>>

(* DeleteArgoApp: the DELETE; an application with a finalizer stays.       *)
DeleteApp(a) ==
  /\ a \in DOMAIN live /\ a \notin deleting
  /\ deleting' = deleting \cup {a}
  /\ \/ live' = [b \in DOMAIN live \ {a} |-> live[b]]
     \/ UNCHANGED live
  /\ UNCHANGED <<clientVars, sampled, forgotten>>

(* Wrong: leaves the entry to the next poll.                               *)
ForgetNothing(a) ==
  /\ a \in deleting
  /\ deleting' = deleting \ {a}
  /\ forgotten' = [forgotten EXCEPT ![a] = 0]
  /\ UNCHANGED <<live, poll, since, shown, sampled>>

(* The DELETE is answered: the entry goes, under the lock.                 *)
ForgetApp(a) ==
  /\ a \in deleting
  /\ deleting' = deleting \ {a}
  /\ since' = [b \in DOMAIN since \ {a} |-> since[b]]
  /\ forgotten' = [forgotten EXCEPT ![a] = 0]
  /\ UNCHANGED <<live, poll, shown, sampled>>

(* The answer to the DELETE is lost.                                       *)
DeleteFails(a) ==
  /\ a \in deleting
  /\ deleting' = deleting \ {a}
  /\ UNCHANGED <<live, clientVars, sampled, forgotten>>

Next ==
  \/ AppsChange \/ Tick \/ FetchArgoApps \/ StorePoll
  \/ \E a \in Apps : DeleteApp(a) \/ ForgetApp(a) \/ DeleteFails(a)

Spec == Init /\ [][Next]_vars

(* The polling goroutine runs for ever and its requests do not fail for    *)
(* ever; a request to delete ends with its answer or its timeout.          *)
FairSpec ==
  /\ Spec
  /\ WF_vars(Tick) /\ WF_vars(FetchArgoApps) /\ WF_vars(StorePoll)
  /\ \A a \in Apps : WF_vars(ForgetApp(a) \/ DeleteFails(a))

(* GetArgoApps: Error is set for an application of this kind.              *)
IsError(a) == a \in DOMAIN shown /\ shown[a].status # "Synced" /\ shown[a].age > Limit

----------------------------------------------------------------------------
(* Every variable stays in its type; times are kept for known applications.*)
TypeOK ==
  /\ live \in Lists
  /\ poll \in [step : {"idle", "store"}, list : Lists, age : Ages]
  /\ since \in UNION {[S -> Ages] : S \in SUBSET Apps}
  /\ shown \in UNION {[S -> [status : Statuses, age : Ages]] : S \in SUBSET Apps}
  /\ deleting \subseteq Apps
  /\ sampled \in [Apps -> Ages] /\ forgotten \in [Apps -> Ages]

(* An application is reported out of sync for no longer than the polls     *)
(* have found it so without a break: a list stored since then in which it  *)
(* is in sync or missing starts the time anew.                             *)
DriftIsUnbroken ==
  /\ \A a \in DOMAIN since : since[a] <= sampled[a]
  /\ \A a \in DOMAIN shown : shown[a].status # "Synced" => shown[a].age <= sampled[a]

(* An application that is deleted through the interface and created again  *)
(* does not inherit the time of the deleted one, even when no poll comes   *)
(* between, or one that has read the old list.                             *)
DeletionRestartsTime ==
  \A a \in DOMAIN since : since[a] <= forgotten[a]

(* An application that is gone disappears from the interface.              *)
GoneIsNotShown ==
  \A a \in Apps : <>[](a \notin DOMAIN live) => <>[](a \notin DOMAIN shown)

(* An application that stays out of sync, and is not being deleted again   *)
(* and again, is reported as an error in the end and remains so.           *)
LastingDriftIsAnError ==
  \A a \in Apps :
    <>[](a \in Drifted(live) /\ a \notin deleting) => <>[]IsError(a)

=============================================================================
